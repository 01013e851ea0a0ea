------------------------- MODULE SessionStoreProofs -------------------------
(* The session store implements AtomicSession.  The induction: revisions     *)
(* only grow, so a row that an update has read is the committed one as long  *)
(* as the two have the same revision, and is so while the update holds it.   *)
EXTENDS Turns, TLAPS

StoreTypes ==
    /\ kind \in {"memory", "sql"}
    /\ row \in R!Row \cup {None}
    /\ born \in BOOLEAN
    /\ writer \in Updater \cup {None}
    /\ seen \in [Updater -> Nat \cup {None}]
    /\ update \in [Updater -> R!A!Call \cup {None}]
    /\ base \in [Updater -> R!Row \cup {None}]
    /\ told \in [Updater -> {None, "saved", "conflict", "gone", "raised"}]

\* No copy is newer than the row, and a session is created once.
CopiesAreOld ==
    /\ row = None /\ ~born => \A c \in Updater : seen[c] = None
    /\ row # None => born
    /\ \A c \in Updater : row # None /\ seen[c] # None => seen[c] <= row.revision

\* What an update has read is its caller's copy, and the row of that revision.
BaseIsRow ==
    \A c \in Updater : base[c] # None =>
        /\ kind = "sql" /\ update[c] # None /\ seen[c] = base[c].revision
        /\ row # None /\ row.revision = base[c].revision => row = base[c]

WriterHolds ==
    writer # None => base[writer] # None /\ row = base[writer]

StoreInv == StoreTypes /\ CopiesAreOld /\ BaseIsRow /\ WriterHolds

LEMMA InitHolds ==
    ASSUME R!StoreAssumption, R!Init PROVE StoreInv /\ R!A!Init
<1>1. StoreTypes
  BY DEF R!StoreAssumption, R!Init, StoreTypes
<1>2. CopiesAreOld /\ BaseIsRow /\ WriterHolds
  BY DEF R!Init, CopiesAreOld, BaseIsRow, WriterHolds
<1>3. R!A!Init
  BY DEF R!Init, R!A!Init, R!Record, R!Fresh
<1> QED BY <1>1, <1>2, <1>3 DEF StoreInv

LEMMA UpdatedIsRow ==
    ASSUME R!StoreAssumption, NEW old \in R!Row, NEW change \in R!A!Call
    PROVE  /\ R!Updated(old, change) \in R!Row
           /\ R!Updated(old, change) # None
           /\ R!Updated(old, change).revision = old.revision + 1
           /\ R!Updated(old, change).data = R!A!Merge(old.data, change)
<1>1. R!A!Merge(old.data, change) \in R!Data
  BY DEF R!A!Merge, R!A!Call, R!Row, R!Data
<1> QED BY <1>1 DEF R!Updated, R!Row, R!StoreAssumption

\* A call that ends leaves its caller the record it was given, if any.
LEMMA EndsTypes ==
    ASSUME R!StoreAssumption, StoreTypes, NEW c \in Updater, NEW how, NEW revision \in Nat \cup {None},
           how \in {"saved", "conflict", "gone", "raised"}, R!Ends(c, how, revision)
    PROVE  /\ (seen \in [Updater -> Nat \cup {None}])'
           /\ (update \in [Updater -> R!A!Call \cup {None}])'
           /\ (base \in [Updater -> R!Row \cup {None}])'
           /\ (told \in [Updater -> {None, "saved", "conflict", "gone", "raised"}])'
           /\ seen'[c] = revision /\ base'[c] = None /\ update'[c] = None
           /\ \A e \in Updater \ {c} : seen'[e] = seen[e] /\ base'[e] = base[e]
                                        /\ update'[e] = update[e]
BY DEF R!Ends, R!A!Ends, StoreTypes

\* A call that ends with nothing changed and no record of its own.
LEMMA RefusalKeeps ==
    ASSUME R!StoreAssumption, StoreInv, NEW c \in Updater, update[c] # None,
           NEW how, how \in {"conflict", "gone", "raised"}, R!Ends(c, how, None),
           how = "conflict" => c \notin R!Fresh, how = "gone" => row = None,
           UNCHANGED <<kind, row, born>>, writer' \in {writer, None}, writer' # c
    PROVE  StoreInv' /\ R!A!Refuse(c, how)
<1>1. None \notin Nat
  BY DEF R!StoreAssumption
<1>2. /\ seen'[c] = None /\ base'[c] = None /\ update'[c] = None
      /\ \A e \in Updater \ {c} : seen'[e] = seen[e] /\ base'[e] = base[e]
                                   /\ update'[e] = update[e]
  BY EndsTypes DEF StoreInv
<1>3. StoreTypes'
  BY EndsTypes DEF StoreInv, StoreTypes
<1>4. CopiesAreOld' /\ BaseIsRow' /\ WriterHolds'
  BY <1>2, <1>3 DEF StoreInv, StoreTypes, CopiesAreOld, BaseIsRow, WriterHolds
<1>5. R!Fresh' = R!Fresh \ {c}
  <2>1. c \notin R!Fresh'
    BY <1>1, <1>2, <1>3 DEF R!Fresh, StoreTypes, R!Row, R!StoreAssumption
  <2>2. \A e \in Updater \ {c} : e \in R!Fresh' <=> e \in R!Fresh
    BY <1>2 DEF R!Fresh
  <2> QED BY <2>1, <2>2 DEF R!Fresh
<1>6. R!Record' = R!Record /\ (how = "gone" => R!Record = None)
  BY DEF R!Record
<1>7. R!A!Ends(c, how)
  BY DEF R!Ends
<1>8. R!A!Refuse(c, how)
  BY <1>5, <1>6, <1>7 DEF R!A!Refuse
<1> QED BY <1>3, <1>4, <1>8 DEF StoreInv

\* The row moves to its next revision, made from what it was.
LEMMA UpdateKeeps ==
    ASSUME R!StoreAssumption, StoreInv, NEW c \in Updater, update[c] # None, row # None,
           update[c].guarded => c \in R!Fresh, row' = R!Updated(row, update[c]), writer' = None,
           writer \in {None, c}, UNCHANGED <<kind, born>>,
           NEW how, NEW revision,
           <<how, revision>> \in {<<"saved", row.revision + 1>>, <<"raised", None>>},
           R!Ends(c, how, revision)
    PROVE  StoreInv' /\ R!A!Update(c, how)
<1>1. row \in R!Row /\ row.revision \in Nat /\ None \notin Nat
  BY DEF StoreInv, StoreTypes, R!Row, R!StoreAssumption
<1>2. update[c] \in R!A!Call
  BY DEF StoreInv, StoreTypes
<1>3. /\ row' \in R!Row /\ row' # None /\ row'.revision = row.revision + 1
      /\ row'.data = R!A!Merge(row.data, update[c])
  BY <1>1, <1>2, UpdatedIsRow
<1>4. revision \in Nat \cup {None}
  BY <1>1
<1>5. /\ seen'[c] = revision /\ base'[c] = None /\ update'[c] = None
      /\ \A e \in Updater \ {c} : seen'[e] = seen[e] /\ base'[e] = base[e]
                                   /\ update'[e] = update[e]
  BY <1>4, EndsTypes DEF StoreInv
<1>6. StoreTypes'
  BY <1>3, <1>4, EndsTypes DEF StoreInv, StoreTypes
<1>7. \A e \in Updater \ {c} : seen[e] # None => seen[e] \in Nat /\ seen[e] <= row.revision
  BY DEF StoreInv, CopiesAreOld, StoreTypes
<1>8. CopiesAreOld'
  <2>1. born' /\ row' # None
    BY <1>3 DEF StoreInv, CopiesAreOld
  <2>2. \A e \in Updater : seen'[e] # None => seen'[e] <= row'.revision
    BY <1>1, <1>3, <1>5, <1>7
  <2> QED BY <2>1, <2>2 DEF CopiesAreOld
<1>9. BaseIsRow'
  <2>1. \A e \in Updater : base'[e] # None =>
           e # c /\ kind = "sql" /\ update'[e] # None /\ seen'[e] = base'[e].revision
    BY <1>5 DEF StoreInv, BaseIsRow
  <2>2. \A e \in Updater : base'[e] # None => base'[e].revision # row'.revision
    <3> SUFFICES ASSUME NEW e \in Updater, base'[e] # None
                 PROVE  base'[e].revision # row'.revision
      OBVIOUS
    <3>1. e # c /\ seen[e] = base'[e].revision /\ base[e] = base'[e]
      BY <1>5, <2>1
    <3>2. base[e] \in R!Row
      BY <3>1 DEF StoreInv, StoreTypes
    <3>3. seen[e] \in Nat /\ seen[e] # None
      BY <1>1, <3>1, <3>2 DEF R!Row
    <3> QED BY <1>1, <1>3, <1>7, <3>1, <3>3
  <2> QED BY <2>1, <2>2 DEF BaseIsRow
<1>10. R!Record' = R!A!Merge(R!Record, update[c]) /\ R!Record # None
  BY <1>1, <1>3 DEF R!Record, R!Row, R!StoreAssumption
<1>11. R!Fresh' = IF how = "saved" THEN {c} ELSE {}
  <2>1. \A e \in Updater \ {c} : e \notin R!Fresh'
    BY <1>1, <1>3, <1>5, <1>7 DEF R!Fresh
  <2>2. c \in R!Fresh' <=> how = "saved"
    BY <1>1, <1>3, <1>5 DEF R!Fresh
  <2>3. R!Fresh' \subseteq Updater
    BY DEF R!Fresh
  <2> QED BY <2>1, <2>2, <2>3
<1>12. R!A!Update(c, how)
  BY <1>10, <1>11 DEF R!A!Update, R!Ends
<1> QED BY <1>6, <1>8, <1>9, <1>12 DEF StoreInv, WriterHolds

\* What a caller does to its own copy and call, and nothing to the row.
LEMMA OwnStepKeeps ==
    ASSUME R!StoreAssumption, StoreInv, NEW c \in Updater,
           R!Get(c) \/ (\E request \in R!A!Call : R!Ask(c, request))
    PROVE  StoreInv' /\ [R!A!Next]_(R!A!vars)
<1>1. CASE R!Get(c)
  <2>1. /\ row # None /\ row \in R!Row /\ row.revision \in Nat /\ None \notin Nat
        /\ update[c] = None /\ base[c] = None
    BY <1>1 DEF StoreInv, StoreTypes, R!Row, BaseIsRow, R!StoreAssumption, R!Get
  <2>2. seen'[c] = row.revision /\ \A e \in Updater \ {c} : seen'[e] = seen[e]
    BY <1>1 DEF R!Get, StoreInv, StoreTypes
  <2>3. UNCHANGED <<kind, row, born, writer, update, base, told>>
    BY <1>1 DEF R!Get
  <2>4. StoreTypes'
    BY <1>1, <2>1 DEF R!Get, StoreInv, StoreTypes
  <2>5. CopiesAreOld' /\ BaseIsRow' /\ WriterHolds'
    BY <2>1, <2>2, <2>3 DEF StoreInv, CopiesAreOld, BaseIsRow, WriterHolds
  <2>6. R!Fresh' = R!Fresh \cup {c} /\ R!Record' = R!Record /\ R!Record # None
    BY <2>1, <2>2, <2>3 DEF R!Fresh, R!Record, R!Row, R!StoreAssumption
  <2>7. R!A!Read(c)
    BY <2>3, <2>6 DEF R!A!Read
  <2> QED BY <2>4, <2>5, <2>7 DEF StoreInv, R!A!Next
<1>2. ASSUME NEW request \in R!A!Call, R!Ask(c, request) PROVE StoreInv' /\ [R!A!Next]_(R!A!vars)
  <2>1. UNCHANGED <<kind, row, born, writer, seen, base, told>> /\ update[c] = None
    BY <1>2 DEF R!Ask
  <2>2. request # None
    BY DEF R!StoreAssumption
  <2>3. update'[c] = request /\ \A e \in Updater \ {c} : update'[e] = update[e]
    BY <1>2 DEF R!Ask, StoreInv, StoreTypes
  <2>4. StoreTypes'
    BY <1>2 DEF R!Ask, StoreInv, StoreTypes
  <2>5. CopiesAreOld' /\ BaseIsRow' /\ WriterHolds'
    BY <2>1, <2>2, <2>3 DEF StoreInv, CopiesAreOld, BaseIsRow, WriterHolds
  <2>6. R!Fresh' = R!Fresh /\ R!Record' = R!Record
    BY <2>1 DEF R!Fresh, R!Record
  <2>7. R!A!Ask(c)
    BY <1>2, <2>1, <2>3, <2>6 DEF R!A!Ask, R!Ask
  <2> QED BY <2>4, <2>5, <2>7 DEF StoreInv, R!A!Next
<1> QED BY <1>1, <1>2

LEMMA MemoryKeeps ==
    ASSUME R!StoreAssumption, StoreInv, NEW c \in Updater, R!UpdateMemory(c)
    PROVE  StoreInv' /\ [R!A!Next]_(R!A!vars)
<1>1. /\ kind = "memory" /\ update[c] # None
      /\ UNCHANGED <<kind, born, writer>>
  BY DEF R!UpdateMemory
<1>2. writer = None /\ None \notin Updater
  BY <1>1 DEF StoreInv, StoreTypes, WriterHolds, BaseIsRow, R!StoreAssumption
<1>3. CASE row = None /\ R!Ends(c, "gone", None) /\ UNCHANGED row
  <2>1. StoreInv' /\ R!A!Refuse(c, "gone")
    BY <1>1, <1>2, <1>3, RefusalKeeps
  <2> QED BY <2>1 DEF R!A!Next
<1>4. CASE row # None /\ ~R!Expected(c) /\ R!Ends(c, "conflict", None) /\ UNCHANGED row
  <2>1. c \notin R!Fresh
    BY <1>4 DEF R!Expected, R!Fresh
  <2>2. StoreInv' /\ R!A!Refuse(c, "conflict")
    BY <1>1, <1>2, <1>4, <2>1, RefusalKeeps
  <2> QED BY <2>2 DEF R!A!Next
<1>5. CASE /\ row # None /\ R!Expected(c)
           /\ row' = R!Updated(row, update[c]) /\ R!Ends(c, "saved", row'.revision)
  <2>1. row'.revision = row.revision + 1
    BY <1>1, <1>5, UpdatedIsRow DEF StoreInv, StoreTypes
  <2>2. update[c].guarded => c \in R!Fresh
    BY <1>5 DEF R!Expected, R!Fresh
  <2>3. R!Ends(c, "saved", row.revision + 1)
    BY <1>5, <2>1 DEF R!Ends
  <2>4. StoreInv' /\ R!A!Update(c, "saved")
    BY <1>1, <1>2, <1>5, <2>2, <2>3, UpdateKeeps
  <2> QED BY <2>4 DEF R!A!Next
<1> QED BY <1>3, <1>4, <1>5 DEF R!UpdateMemory

LEMMA ReadsKeeps ==
    ASSUME R!StoreAssumption, StoreInv, NEW c \in Updater, R!UpdateReads(c)
    PROVE  StoreInv' /\ [R!A!Next]_(R!A!vars)
<1>1. /\ kind = "sql" /\ update[c] # None /\ base[c] = None
      /\ UNCHANGED <<kind, row, born, writer>>
  BY DEF R!UpdateReads
<1>2. writer # c /\ None \notin Nat
  BY <1>1 DEF StoreInv, WriterHolds, R!StoreAssumption
<1>3. CASE row = None /\ R!Ends(c, "gone", None)
  <2>1. StoreInv' /\ R!A!Refuse(c, "gone")
    BY <1>1, <1>2, <1>3, RefusalKeeps
  <2> QED BY <2>1 DEF R!A!Next
<1>4. CASE row # None /\ ~R!Expected(c) /\ R!Ends(c, "conflict", None)
  <2>1. c \notin R!Fresh
    BY <1>4 DEF R!Expected, R!Fresh
  <2>2. StoreInv' /\ R!A!Refuse(c, "conflict")
    BY <1>1, <1>2, <1>4, <2>1, RefusalKeeps
  <2> QED BY <2>2 DEF R!A!Next
<1>5. CASE /\ row # None
           /\ base' = [base EXCEPT ![c] = row]
           /\ seen' = [seen EXCEPT ![c] = row.revision]
           /\ UNCHANGED <<update, told>>
  <2>1. row \in R!Row /\ row.revision \in Nat
    BY <1>5 DEF StoreInv, StoreTypes, R!Row
  <2>2. StoreTypes'
    BY <1>1, <1>5, <2>1 DEF StoreInv, StoreTypes
  <2>3. /\ seen'[c] = row.revision /\ base'[c] = row
        /\ \A e \in Updater \ {c} : seen'[e] = seen[e] /\ base'[e] = base[e]
    BY <1>5 DEF StoreInv, StoreTypes
  <2>4. CopiesAreOld' /\ BaseIsRow' /\ WriterHolds'
    BY <1>1, <1>2, <1>5, <2>1, <2>3 DEF StoreInv, StoreTypes, CopiesAreOld, BaseIsRow, WriterHolds
  <2>5. R!Fresh' = R!Fresh \cup {c} /\ R!Record' = R!Record /\ R!Record # None
    BY <1>1, <1>5, <2>1, <2>3 DEF R!Fresh, R!Record, R!Row, R!StoreAssumption
  <2>6. R!A!Read(c)
    BY <1>1, <1>5, <2>5 DEF R!A!Read
  <2> QED BY <2>2, <2>4, <2>6 DEF StoreInv, R!A!Next
<1> QED BY <1>3, <1>4, <1>5 DEF R!UpdateReads

LEMMA WritesKeeps ==
    ASSUME R!StoreAssumption, StoreInv, NEW c \in Updater, R!UpdateWrites(c)
    PROVE  StoreInv' /\ [R!A!Next]_(R!A!vars)
<1>1. /\ base[c] # None /\ writer = None
      /\ UNCHANGED <<kind, row, born>>
  BY DEF R!UpdateWrites
<1>2. /\ update[c] # None /\ seen[c] = base[c].revision
      /\ R!Matches(c) => row = base[c]
  BY <1>1 DEF StoreInv, BaseIsRow, R!Matches
<1>3. CASE R!Matches(c) /\ writer' = c /\ UNCHANGED <<seen, update, base, told>>
  <2>1. UNCHANGED R!A!vars
    BY <1>1, <1>3 DEF R!A!vars, R!Record, R!Fresh
  <2>2. StoreTypes' /\ CopiesAreOld' /\ BaseIsRow'
    BY <1>1, <1>3 DEF StoreInv, StoreTypes, CopiesAreOld, BaseIsRow
  <2>3. WriterHolds'
    BY <1>1, <1>2, <1>3 DEF WriterHolds
  <2> QED BY <2>1, <2>2, <2>3 DEF StoreInv
<1>4. CASE ~R!Matches(c) /\ R!Ends(c, "conflict", None) /\ UNCHANGED writer
  <2>1. c \notin R!Fresh
    BY <1>2, <1>4 DEF R!Matches, R!Fresh
  <2>2. writer' # c
    BY <1>1, <1>4 DEF R!StoreAssumption
  <2>3. StoreInv' /\ R!A!Refuse(c, "conflict")
    BY <1>1, <1>2, <1>4, <2>1, <2>2, RefusalKeeps
  <2> QED BY <2>3 DEF R!A!Next
<1> QED BY <1>3, <1>4 DEF R!UpdateWrites

LEMMA CommitKeeps ==
    ASSUME R!StoreAssumption, StoreInv, NEW c \in Updater, R!Commit(c)
    PROVE  StoreInv' /\ [R!A!Next]_(R!A!vars)
<1>1. c # None /\ writer = c
  BY DEF R!StoreAssumption, R!Commit
<1>2. base[c] # None /\ row = base[c]
  BY <1>1 DEF StoreInv, WriterHolds
<1>3. update[c] # None /\ row # None /\ row \in R!Row /\ seen[c] = row.revision
  BY <1>2 DEF StoreInv, StoreTypes, BaseIsRow
<1>4. c \in R!Fresh
  BY <1>3 DEF R!Fresh
<1>5. /\ row' = R!Updated(row, update[c]) /\ writer' = None
      /\ UNCHANGED <<kind, born>>
  BY <1>2 DEF R!Commit
<1>6. row'.revision = row.revision + 1
  BY <1>3, <1>5, UpdatedIsRow DEF StoreInv, StoreTypes
<1>7. CASE R!Ends(c, "saved", row'.revision)
  <2>1. R!Ends(c, "saved", row.revision + 1)
    BY <1>6, <1>7 DEF R!Ends
  <2>2. StoreInv' /\ R!A!Update(c, "saved")
    BY <1>1, <1>3, <1>4, <1>5, <2>1, UpdateKeeps
  <2> QED BY <2>2 DEF R!A!Next
<1>8. CASE R!Ends(c, "raised", None)
  <2>1. StoreInv' /\ R!A!Update(c, "raised")
    BY <1>1, <1>3, <1>4, <1>5, <1>8, UpdateKeeps
  <2> QED BY <2>1 DEF R!A!Next
<1> QED BY <1>7, <1>8 DEF R!Commit

LEMMA FailsKeeps ==
    ASSUME R!StoreAssumption, StoreInv, NEW c \in Updater, R!Fails(c)
    PROVE  StoreInv' /\ [R!A!Next]_(R!A!vars)
<1>1. /\ update[c] # None /\ R!Ends(c, "raised", None) /\ c # None
      /\ writer' \in {writer, None} /\ writer' # c
      /\ UNCHANGED <<kind, row, born>>
  BY DEF R!Fails, R!StoreAssumption
<1>2. StoreInv' /\ R!A!Refuse(c, "raised")
  BY <1>1, RefusalKeeps
<1> QED BY <1>2 DEF R!A!Next

LEMMA SaveKeeps ==
    ASSUME R!StoreAssumption, StoreInv, R!Save PROVE StoreInv' /\ [R!A!Next]_(R!A!vars)
<1> DEFINE blank == [f \in Field |-> Blank]
<1>1. /\ ~born /\ born' = TRUE /\ row' = [revision |-> 0, data |-> blank]
      /\ UNCHANGED <<kind, writer, seen, update, base, told>>
  BY DEF R!Save
<1>2. row = None /\ \A c \in Updater : seen[c] = None
  BY <1>1 DEF StoreInv, CopiesAreOld
<1>3. blank \in R!Data /\ row' \in R!Row /\ row' # None /\ row'.revision = 0 /\ row'.data = blank
  BY <1>1 DEF R!Data, R!Row, R!StoreAssumption
<1>4. StoreTypes'
  BY <1>1, <1>3 DEF StoreInv, StoreTypes
<1>5. \A c \in Updater : base[c] = None
  <2>1. \A c \in Updater : base[c] # None => seen[c] \in Nat
    BY DEF StoreInv, StoreTypes, BaseIsRow, R!Row
  <2> QED BY <1>2, <2>1 DEF R!StoreAssumption
<1>6. writer = None
  BY <1>5 DEF StoreInv, StoreTypes, WriterHolds
<1>7. CopiesAreOld' /\ BaseIsRow' /\ WriterHolds'
  BY <1>1, <1>2, <1>3, <1>5, <1>6 DEF CopiesAreOld, BaseIsRow, WriterHolds
<1>8. R!Fresh = {} /\ R!Fresh' = {}
  BY <1>1, <1>2, <1>3 DEF R!Fresh, R!StoreAssumption
<1>9. R!Record' = blank
  BY <1>3 DEF R!Record
<1>10. R!A!Create
  BY <1>1, <1>8, <1>9 DEF R!A!Create
<1> QED BY <1>4, <1>7, <1>10 DEF StoreInv, R!A!Next

LEMMA DeleteKeeps ==
    ASSUME R!StoreAssumption, StoreInv, R!Delete PROVE StoreInv' /\ [R!A!Next]_(R!A!vars)
<1>1. /\ row # None /\ row' = None /\ writer = None /\ born
      /\ UNCHANGED <<kind, born, writer, seen, update, base, told>>
  BY DEF R!Delete, StoreInv, CopiesAreOld
<1>2. StoreTypes' /\ CopiesAreOld' /\ BaseIsRow' /\ WriterHolds'
  BY <1>1 DEF StoreInv, StoreTypes, CopiesAreOld, BaseIsRow, WriterHolds
<1>3. R!Record # None /\ R!Record' = None /\ R!Fresh' = {}
  BY <1>1 DEF R!Record, R!Fresh, StoreInv, StoreTypes, R!Row, R!StoreAssumption
<1>4. R!A!Delete
  BY <1>1, <1>3 DEF R!A!Delete
<1> QED BY <1>2, <1>4 DEF StoreInv, R!A!Next

LEMMA StutterKeeps ==
    ASSUME StoreInv, UNCHANGED R!vars PROVE StoreInv' /\ [R!A!Next]_(R!A!vars)
<1>1. StoreInv'
  BY DEF StoreInv, StoreTypes, CopiesAreOld, BaseIsRow, WriterHolds, R!vars
<1>2. UNCHANGED R!A!vars
  BY DEF R!vars, R!A!vars, R!Record, R!Fresh
<1> QED BY <1>1, <1>2

LEMMA StepKeeps ==
    ASSUME R!StoreAssumption, StoreInv, [R!Next]_(R!vars) PROVE StoreInv' /\ [R!A!Next]_(R!A!vars)
BY StutterKeeps, SaveKeeps, DeleteKeeps, OwnStepKeeps, MemoryKeeps, ReadsKeeps,
   WritesKeeps, CommitKeeps, FailsKeeps DEF R!Next

\* For every number of callers, fields and revisions, in memory and in SQL, the
\* store of persistence/store.py behaves as the atomic record: an update that is
\* made changes the record as it is then, and one that expects a revision is
\* made only on the record its caller has read.
THEOREM StoreImplementsAtomic ==
    ASSUME R!StoreAssumption PROVE R!Spec => R!StoreIsAtomic
<1>1. R!Init => StoreInv /\ R!A!Init
  BY InitHolds
<1>2. StoreInv /\ [R!Next]_(R!vars) => StoreInv' /\ [R!A!Next]_(R!A!vars)
  BY StepKeeps
<1> QED BY <1>1, <1>2, PTL DEF R!Spec, R!A!Spec, R!StoreIsAtomic

\* The same of the worlds of Turns.
THEOREM TurnsStoreIsAtomic ==
    ASSUME R!StoreAssumption PROVE TurnsSpec => StoreIsAtomic
<1>1. TurnsInit => R!Init
  BY DEF TurnsInit
<1>2. [TurnsNext]_allVars => [R!Next]_(R!vars)
  BY DEF TurnsNext, allVars, storeVars, R!vars
<1>3. R!Spec => R!StoreIsAtomic
  BY StoreImplementsAtomic
<1> QED BY <1>1, <1>2, <1>3, PTL DEF TurnsSpec, R!Spec, StoreIsAtomic
=============================================================================
