---------------------------- MODULE SessionStore ----------------------------
(***************************************************************************)
(* The store of the session records (persistence/store.py), seen from one  *)
(* session.  The in-memory store runs each call under its lock.  The SQL   *)
(* store, which several processes may share, reads the row, merges the     *)
(* change into what it read, and writes it back with an UPDATE conditional *)
(* on the revision it read; the row stays locked from that UPDATE to the   *)
(* commit, and a row that is read is the committed one.  A call may fail   *)
(* before its commit, and the commit's answer may be lost.                 *)
(* The last revision is bounded by MaxRevision.                            *)
(***************************************************************************)
EXTENDS Naturals

CONSTANTS Caller, Field, Value, Blank, MaxRevision, None

VARIABLES
    kind,       \* "memory" or "sql"
    row,        \* the committed record
    born,
    writer,     \* the call whose UPDATE is not committed
    seen,       \* caller -> the revision of its copy of the record
    call,       \* caller -> its update, None outside of one
    base,       \* caller -> the row its update has read
    told        \* caller -> how its last update ended

vars == <<kind, row, born, writer, seen, call, base, told>>

Record == IF row = None THEN None ELSE row.data
Fresh == {c \in Caller : row # None /\ seen[c] = row.revision}

A == INSTANCE AtomicSession WITH record <- Record, fresh <- Fresh

Data == [Field -> Value]
Row == [revision : Nat, data : Data]

StoreAssumption ==
    /\ Blank \in Value
    /\ None \notin Nat \cup Caller \cup Data \cup Row \cup A!Call

Init ==
    /\ kind \in {"memory", "sql"}
    /\ row = None /\ born = FALSE /\ writer = None
    /\ seen = [c \in Caller |-> None]
    /\ call = [c \in Caller |-> None]
    /\ base = [c \in Caller |-> None]
    /\ told = [c \in Caller |-> None]

Updated(old, change) ==
    [revision |-> old.revision + 1, data |-> A!Merge(old.data, change)]

\* The session of a new conversation; its id is drawn by the server.
Save ==
    /\ ~born
    /\ born' = TRUE /\ row' = [revision |-> 0, data |-> [f \in Field |-> Blank]]
    /\ UNCHANGED <<kind, writer, seen, call, base, told>>

\* A request reads the session, by its id or its hash.
Get(c) ==
    /\ call[c] = None /\ row # None
    /\ seen' = [seen EXCEPT ![c] = row.revision]
    /\ UNCHANGED <<kind, row, born, writer, call, base, told>>

\* An update that expects the revision of the caller's copy, or none.
Ask(c, request) ==
    /\ call[c] = None
    /\ request.guarded => seen[c] # None
    /\ call' = [call EXCEPT ![c] = request]
    /\ UNCHANGED <<kind, row, born, writer, seen, base, told>>

Ends(c, how, revision) ==
    /\ A!Ends(c, how)
    /\ seen' = [seen EXCEPT ![c] = revision]
    /\ base' = [base EXCEPT ![c] = None]

Expected(c) == call[c].guarded => seen[c] = row.revision

UpdateMemory(c) ==
    /\ kind = "memory" /\ call[c] # None
    /\ \/ /\ row = None
          /\ Ends(c, "gone", None) /\ UNCHANGED row
       \/ /\ row # None /\ ~Expected(c)
          /\ Ends(c, "conflict", None) /\ UNCHANGED row
       \/ /\ row # None /\ Expected(c) /\ row.revision < MaxRevision
          /\ row' = Updated(row, call[c])
          /\ Ends(c, "saved", row'.revision)
    /\ UNCHANGED <<kind, born, writer>>

UpdateReads(c) ==
    /\ kind = "sql" /\ call[c] # None /\ base[c] = None
    /\ \/ /\ row = None
          /\ Ends(c, "gone", None)
       \/ /\ row # None /\ ~Expected(c)
          /\ Ends(c, "conflict", None)
       \/ /\ row # None /\ Expected(c) /\ row.revision < MaxRevision
          /\ base' = [base EXCEPT ![c] = row]
          /\ seen' = [seen EXCEPT ![c] = row.revision]
          /\ UNCHANGED <<call, told>>
    /\ UNCHANGED <<kind, row, born, writer>>

MatchesAnyRevision(c) == row # None

\* The rows the conditional UPDATE counts.
Matches(c) == row # None /\ row.revision = base[c].revision

UpdateWrites(c) ==
    /\ base[c] # None /\ writer = None
    /\ \/ /\ Matches(c)
          /\ writer' = c
          /\ UNCHANGED <<seen, call, base, told>>
       \/ /\ ~Matches(c)
          /\ Ends(c, "conflict", None) /\ UNCHANGED writer
    /\ UNCHANGED <<kind, row, born>>

Commit(c) ==
    /\ writer = c
    /\ row' = Updated(base[c], call[c]) /\ writer' = None
    /\ \/ Ends(c, "saved", row'.revision)
       \/ Ends(c, "raised", None)
    /\ UNCHANGED <<kind, born>>

\* The connection or the request is lost: what is not committed is undone.
Fails(c) ==
    /\ call[c] # None
    /\ Ends(c, "raised", None)
    /\ writer' = IF writer = c THEN None ELSE writer
    /\ UNCHANGED <<kind, row, born>>

\* The row is deleted once no UPDATE holds it.
Delete ==
    /\ row # None /\ writer = None
    /\ row' = None
    /\ UNCHANGED <<kind, born, writer, seen, call, base, told>>

Next ==
    \/ Save \/ Delete
    \/ \E c \in Caller :
        \/ Get(c) \/ UpdateMemory(c) \/ UpdateReads(c) \/ UpdateWrites(c)
        \/ Commit(c) \/ Fails(c)
        \/ \E request \in A!Call : Ask(c, request)

Spec == Init /\ [][Next]_vars

\* The store is the atomic one: no update is lost under another, whichever of
\* them expected a revision, and none is told saved or refused wrongly.
StoreIsAtomic == A!Spec
=============================================================================
