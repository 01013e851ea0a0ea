--------------------------- MODULE SessionsProofs ---------------------------
(***************************************************************************)
(* Proofs about the sessions: a swap, for every number of broadcasts,      *)
(* hashes, chat turns, pollers, cancels and faults, and a transfer, for    *)
(* every number of broadcasts, prepares, chat turns, deletions, cards and  *)
(* lost requests.                                                          *)
(***************************************************************************)
EXTENDS Sessions, FiniteSetTheorems, TLAPS

(* What a record shows has a ground: its order is one the provider knows,  *)
(* and what it shows as final is what some order has settled as.           *)
Grounded(s) ==
    /\ s.order # None => outcome[s.order] # None
    /\ s.bstat = "confirmed" => \E v \in Final : Tells(v)
    /\ s.ostat \in Final => Tells(s.ostat)

(* It agrees with its own hash: its order is that of the hash, and what it *)
(* shows as final is what that order has settled as.                       *)
Sound(s) ==
    /\ s.order # None => s.order = s.hash
    /\ s.bstat = "confirmed" => s.hash # None /\ outcome[s.hash] \in Final
    /\ s.ostat \in Final => s.hash # None /\ s.ostat = outcome[s.hash]

(* While it holds a snapshot, a handler's record is grounded, and it is the *)
(* session's if nobody has written since.                                   *)
Holds(c) ==
    \/ c \in Post /\ pc[c] \in {"registering", "saving"}
    \/ c \in Poll /\ pc[c] \in {"recovering", "saving_order", "asking", "saving_status"}
    \/ c \in Chat /\ pc[c] \in {"locking", "running", "projecting"}

Snapshot(c) ==
    /\ Holds(c) => snap[c] \in Session /\ Grounded(snap[c])
    /\ c \in fresh => Holds(c) /\ snap[c] = session

PostKept(p) ==
    /\ pc[p] \in {"new", "probing", "locking", "registering", "saving",
                  "answered", "conflict", "refused"}
    /\ pc[p] \in {"locking", "registering", "saving"} =>
          seen[p] \in {NotVisible, "broadcast_pending", "source_confirmed"}
    /\ pc[p] \in {"registering", "saving"} => Verdict(snap[p], tx[p]) = "go"
    /\ pc[p] = "saving" /\ seen[p] # NotVisible => outcome[tx[p]] # None

PollKept(g) ==
    /\ pc[g] \in {"new", "recovering", "saving_order", "asking", "saving_status"}
    /\ pc[g] \in {"recovering", "saving_order"} => snap[g].hash # None
    /\ pc[g] = "saving_order" => outcome[snap[g].hash] # None
    /\ pc[g] = "asking" => snap[g].order # None
    /\ pc[g] = "saving_status" =>
          /\ seen[g] \in {"processing"} \cup Final
          /\ seen[g] \in Final => Tells(seen[g])

\* The checkpoint of a turn that knew of a hash has one.
ChatKept(t) ==
    /\ pc[t] \in {"new", "locking", "running", "projecting", "done"}
    /\ t \notin fresh
    /\ pc[t] \in {"running", "projecting"} =>
          /\ lock = t
          /\ snap[t].hash # None => cp.hash # None

Own(c) ==
    /\ Snapshot(c)
    /\ c \in Post => PostKept(c)
    /\ c \in Poll => PollKept(c)
    /\ c \in Chat => ChatKept(c)

Kept == Grounded(session) /\ Grounded(cp) /\ \A c \in Handler : Own(c)

IInv == TypeOK /\ Kept

(* Until a hash is erased, every record in the system is about the hash of *)
(* the session, or from before there was one.                              *)
Agrees(c) ==
    /\ Holds(c) => Sound(snap[c]) /\ snap[c].hash \in {None, session.hash}
    /\ c \in Post /\ pc[c] = "answered" => session.hash = tx[c]
    /\ c \in Post /\ pc[c] = "conflict" => session.hash \notin {tx[c], None}
    /\ c \in Poll /\ pc[c] = "saving_status" =>
          /\ snap[c].hash # None
          /\ seen[c] \in Final => seen[c] = outcome[snap[c].hash]

Agreement ==
    /\ Sound(session) /\ Sound(cp)
    /\ cp.hash \in {None, session.hash}
    /\ \A c \in Handler : Agrees(c)

(* What a step may do to what others have seen: orders are never forgotten *)
(* and a settled one never changes, and the first hash of a session stays. *)

OutcomeGrows ==
    \A h \in Hash : /\ outcome[h] # None => outcome'[h] # None
                    /\ outcome[h] \in Final => outcome'[h] = outcome[h]

HashStays == session.hash # None => session'.hash = session.hash

\* A step of handler c changes nothing of the other handlers', and the
\* checkpoint only when none of them has the lock.
FrameOf(c) ==
    /\ tx' = tx
    /\ \A b \in Handler : b # c =>
          /\ pc'[b] = pc[b] /\ snap'[b] = snap[b] /\ seen'[b] = seen[b]
          /\ b \in fresh' => b \in fresh /\ session' = session
          /\ lock = b => lock' = b /\ cp' = cp

LEMMA TxIsHash ==
    ASSUME TypeOK, NEW p \in Post PROVE tx[p] \in Hash
<1>1. tx \in Submits
  BY DEF TypeOK
<1>2. Submits \subseteq [Post -> Hash]
  BY BroadcastAssumption
<1> QED BY <1>1, <1>2

LEMMA TellsStays ==
    ASSUME OutcomeGrows, NEW v \in Final, Tells(v) PROVE Tells(v)'
BY DEF OutcomeGrows, Tells

LEMMA GroundedStays ==
    ASSUME OutcomeGrows, NEW s, s.order \in Hash \cup {None}, Grounded(s)
    PROVE  Grounded(s)'
<1>1. s.order # None => outcome'[s.order] # None
  BY DEF Grounded, OutcomeGrows
<1>2. s.bstat = "confirmed" => \E v \in Final : Tells(v)'
  BY TellsStays DEF Grounded
<1>3. s.ostat \in Final => Tells(s.ostat)'
  BY TellsStays DEF Grounded
<1> QED BY <1>1, <1>2, <1>3 DEF Grounded, Tells

LEMMA SoundStays ==
    ASSUME OutcomeGrows, NEW s, s.hash \in Hash \cup {None}, Sound(s)
    PROVE  Sound(s)'
BY DEF OutcomeGrows, Sound

LEMMA Typed ==
    ASSUME TypeOK
    PROVE  /\ session \in Session /\ session.order \in Hash \cup {None}
           /\ session.hash \in Hash \cup {None}
           /\ cp \in Checkpoint /\ cp.order \in Hash \cup {None} /\ cp.hash \in Hash \cup {None}
           /\ faults \in 0 .. MaxFaults /\ MaxFaults \in Nat
BY BroadcastAssumption DEF TypeOK, Session, Checkpoint

LEMMA OthersKeep ==
    ASSUME IInv, TypeOK', OutcomeGrows, NEW c, FrameOf(c), NEW b \in Handler, b # c
    PROVE  Own(b)'
<1>1. /\ Own(b) /\ pc'[b] = pc[b] /\ snap'[b] = snap[b] /\ seen'[b] = seen[b] /\ tx' = tx
      /\ b \in fresh' => b \in fresh /\ session' = session
      /\ lock = b => lock' = b /\ cp' = cp
  BY DEF IInv, Kept, FrameOf
<1>2. Holds(b)' <=> Holds(b)
  BY <1>1 DEF Holds
<1>3. Snapshot(b)'
  <2>1. ASSUME Holds(b) PROVE snap'[b] \in Session /\ Grounded(snap[b])'
    <3>1. snap[b] \in Session /\ Grounded(snap[b])
      BY <1>1, <2>1 DEF Own, Snapshot
    <3>2. snap[b].order \in Hash \cup {None}
      BY <3>1 DEF Session
    <3>3. PICK s : s = snap[b]
      OBVIOUS
    <3>4. Grounded(s)'
      BY <3>1, <3>2, <3>3, GroundedStays
    <3> QED BY <1>1, <3>1, <3>3, <3>4 DEF Grounded
  <2> QED BY <1>1, <1>2, <2>1 DEF Own, Snapshot
<1>4. b \in Post => PostKept(b)'
  <2> SUFFICES ASSUME b \in Post PROVE PostKept(b)'
    OBVIOUS
  <2>1. tx[b] \in Hash
    BY TxIsHash DEF IInv
  <2> QED BY <1>1, <2>1 DEF Own, PostKept, OutcomeGrows, Verdict
<1>5. b \in Poll => PollKept(b)'
  <2> SUFFICES ASSUME b \in Poll PROVE PollKept(b)'
    OBVIOUS
  <2>1. PollKept(b) /\ (Holds(b) <=> pc[b] # "new")
    BY <1>1, BroadcastAssumption DEF Own, PollKept, Holds
  <2>2. Holds(b) => snap[b].hash \in Hash \cup {None}
    BY <1>1 DEF Own, Snapshot, Session
  <2>3. pc[b] = "saving_order" => outcome'[snap[b].hash] # None
    BY <2>1, <2>2 DEF PollKept, OutcomeGrows
  <2>4. pc[b] = "saving_status" /\ seen[b] \in Final => Tells(seen[b])'
    <3>1. PICK v : v = seen[b]
      OBVIOUS
    <3> QED BY <1>1, <2>1, <3>1, TellsStays DEF PollKept, Tells
  <2> QED BY <1>1, <2>1, <2>3, <2>4 DEF PollKept, Tells
<1>6. b \in Chat => ChatKept(b)'
  BY <1>1 DEF Own, ChatKept
<1> QED BY <1>3, <1>4, <1>5, <1>6 DEF Own

LEMMA StepKeeps ==
    ASSUME IInv, TypeOK', OutcomeGrows, Grounded(session)', Grounded(cp)',
           NEW c, FrameOf(c), c \in Handler => Own(c)'
    PROVE  IInv'
<1>1. \A b \in Handler : Own(b)'
  BY OthersKeep
<1> QED BY <1>1 DEF IInv, Kept

LEMMA OthersAgree ==
    ASSUME IInv, Agreement, OutcomeGrows, HashStays, NEW c, FrameOf(c), NEW b \in Handler, b # c
    PROVE  Agrees(b)'
<1>1. /\ Agrees(b) /\ pc'[b] = pc[b] /\ snap'[b] = snap[b] /\ seen'[b] = seen[b] /\ tx' = tx
      /\ Own(b)
  BY DEF IInv, Kept, FrameOf, Agreement
<1>2. Holds(b)' <=> Holds(b)
  BY <1>1 DEF Holds
<1>3. ASSUME Holds(b) PROVE Sound(snap[b])' /\ snap'[b].hash \in {None, session'.hash}
  <2>1. PICK s \in Session : s = snap[b]
    BY <1>1, <1>3 DEF Own, Snapshot
  <2>2. s.hash \in Hash \cup {None} /\ Sound(s) /\ s.hash \in {None, session.hash}
    BY <1>1, <1>3, <2>1 DEF Agrees, Session
  <2>3. Sound(s)'
    BY <2>2, SoundStays
  <2> QED BY <1>1, <2>1, <2>2, <2>3 DEF Sound, HashStays
<1>4. ASSUME b \in Post
      PROVE  /\ pc[b] = "answered" => session'.hash = tx[b]
             /\ pc[b] = "conflict" => session'.hash \notin {tx[b], None}
  <2>1. tx[b] \in Hash /\ None \notin Hash
    BY <1>4, TxIsHash, BroadcastAssumption DEF IInv
  <2> QED BY <1>1, <1>4, <2>1 DEF Agrees, HashStays
<1>5. ASSUME b \in Poll, pc[b] = "saving_status"
      PROVE  snap[b].hash # None /\ (seen[b] \in Final => seen[b] = outcome'[snap[b].hash])
  <2>1. Holds(b)
    BY <1>5 DEF Holds
  <2>2. snap[b].hash \in Hash \cup {None}
    BY <1>1, <2>1 DEF Own, Snapshot, Session
  <2> QED BY <1>1, <1>5, <2>2 DEF Agrees, OutcomeGrows
<1> QED BY <1>1, <1>2, <1>3, <1>4, <1>5 DEF Agrees

LEMMA StepAgrees ==
    ASSUME IInv, Agreement, OutcomeGrows, HashStays, Sound(session)', Sound(cp)',
           cp'.hash \in {None, session'.hash},
           NEW c, FrameOf(c), c \in Handler => Agrees(c)'
    PROVE  Agreement' /\ HashStays
<1>1. \A b \in Handler : Agrees(b)'
  BY OthersAgree
<1> QED BY <1>1 DEF Agreement

\* A step that changes neither the session nor the checkpoint.
LEMMA QuietAgrees ==
    ASSUME IInv, Agreement, OutcomeGrows, UNCHANGED <<session, cp>>,
           NEW c, FrameOf(c), c \in Handler => Agrees(c)'
    PROVE  Agreement' /\ HashStays
<1>1. Sound(session)' /\ Sound(cp)'
  <2>1. PICK s, k : s = session /\ k = cp
    OBVIOUS
  <2>2. Sound(s)' /\ Sound(k)'
    BY <2>1, SoundStays, Typed DEF IInv, Agreement
  <2> QED BY <2>1, <2>2 DEF Sound
<1>2. HashStays /\ cp'.hash \in {None, session'.hash}
  BY DEF HashStays, Agreement
<1> QED BY <1>1, <1>2, StepAgrees

\* And keeps their ground.
LEMMA QuietGrounds ==
    ASSUME IInv, OutcomeGrows
    PROVE  /\ session' = session => Grounded(session)'
           /\ cp' = cp => Grounded(cp)'
<1>1. PICK s, k : s = session /\ k = cp
  OBVIOUS
<1>2. Grounded(s)' /\ Grounded(k)'
  BY <1>1, GroundedStays, Typed DEF IInv, Kept
<1> QED BY <1>1, <1>2 DEF Grounded

LEMMA HoldsNone ==
    ASSUME NEW c, Snapshot(c), ~Holds(c), ~Holds(c)', c \in fresh' => c \in fresh
    PROVE  Snapshot(c)'
BY DEF Snapshot

LEMMA RegisteringGrows ==
    ASSUME TypeOK, NEW h, outcome' \in {outcome, Registered(h)}
    PROVE  /\ OutcomeGrows /\ outcome' \in [Hash -> {None, "processing"} \cup Final]
           /\ outcome' = Registered(h) /\ h \in Hash => outcome'[h] # None
BY BroadcastAssumption DEF TypeOK, OutcomeGrows, Registered, Final

LEMMA SameOutcome ==
    ASSUME outcome' = outcome PROVE OutcomeGrows
BY DEF OutcomeGrows

-----------------------------------------------------------------------------
(* POST broadcast.  Each action has two lemmas: what it keeps whatever has *)
(* happened, and what it keeps until a hash is erased.                     *)

LEMMA PostBasics ==
    ASSUME IInv, NEW p \in Post
    PROVE  /\ p \in Handler /\ p \notin Poll /\ p \notin Chat
           /\ tx[p] \in Hash /\ tx[p] # None
           /\ Snapshot(p) /\ PostKept(p)
           /\ Holds(p) <=> pc[p] \in {"registering", "saving"}
           /\ Holds(p) => snap[p] \in Session /\ Grounded(snap[p])
<1>1. p \in Handler /\ p \notin Poll /\ p \notin Chat
  BY BroadcastAssumption DEF Handler
<1>2. tx[p] \in Hash /\ tx[p] # None
  BY TxIsHash, BroadcastAssumption DEF IInv
<1>3. Snapshot(p) /\ PostKept(p)
  BY <1>1 DEF IInv, Kept, Own
<1>4. Holds(p) <=> pc[p] \in {"registering", "saving"}
  BY <1>1 DEF Holds
<1> QED BY <1>1, <1>2, <1>3, <1>4 DEF Snapshot

LEMMA VerdictIs ==
    ASSUME NEW h, Verdict(session, h) # "go"
    PROVE  /\ Verdict(session, h) \in {"answered", "conflict"}
           /\ Verdict(session, h) = "answered" => session.hash = h
           /\ Verdict(session, h) = "conflict" => session.hash \notin {h, None}
BY DEF Verdict

\* Of a POST that has ended, or not begun to hold a snapshot.
LEMMA PostOutside ==
    ASSUME IInv, NEW p \in Post, p \notin fresh',
           pc'[p] \in {"probing", "answered", "conflict", "refused"}
    PROVE  Own(p)'
BY PostBasics DEF Own, Snapshot, Holds, PostKept

LEMMA PostCheckKeeps ==
    ASSUME IInv, NEW p \in Post, PostCheck(p) PROVE IInv' /\ OutcomeGrows /\ FrameOf(p)
<1>1. p \in Handler /\ p \notin fresh
  BY PostBasics DEF PostCheck, Stay, Snapshot
<1> DEFINE v == Verdict(session, tx[p])
<1>2. /\ pc' = [pc EXCEPT ![p] = IF v = "go" THEN "probing" ELSE v]
      /\ UNCHANGED <<session, fresh, chain, tx, cp, erased, outcome, lock, snap, seen, faults>>
  BY DEF PostCheck, Stay, Goto, world
<1>3. v # "go" => v \in {"answered", "conflict"}
  BY VerdictIs
<1> HIDE DEF v
<1>4. TypeOK'
  BY <1>1, <1>2, <1>3 DEF IInv, TypeOK
<1>5. OutcomeGrows /\ FrameOf(p)
  BY <1>1, <1>2, SameOutcome DEF FrameOf, IInv, TypeOK
<1>6. Own(p)'
  <2>1. pc'[p] \in {"probing", "answered", "conflict"}
    BY <1>1, <1>2, <1>3 DEF IInv, TypeOK
  <2> QED BY <1>1, <1>2, <2>1, PostOutside
<1> QED BY <1>2, <1>4, <1>5, <1>6, QuietGrounds, StepKeeps

LEMMA PostCheckAgrees ==
    ASSUME IInv, Agreement, NEW p \in Post, PostCheck(p) PROVE Agreement' /\ HashStays
<1>1. IInv' /\ OutcomeGrows /\ FrameOf(p) /\ p \in Handler /\ p \notin Poll
  BY PostCheckKeeps, PostBasics
<1> DEFINE v == Verdict(session, tx[p])
<1>2. /\ pc'[p] = IF v = "go" THEN "probing" ELSE v
      /\ UNCHANGED <<session, tx, cp>>
  BY <1>1 DEF PostCheck, Stay, Goto, world, IInv, TypeOK
<1>3. v # "go" => /\ v \in {"answered", "conflict"}
                  /\ v = "answered" => session.hash = tx[p]
                  /\ v = "conflict" => session.hash \notin {tx[p], None}
  BY VerdictIs
<1>4. Agrees(p)'
  <2>1. ~Holds(p)'
    BY <1>1, <1>2, <1>3, PostBasics DEF Holds
  <2> QED BY <1>1, <1>2, <1>3, <2>1 DEF Agrees
<1> QED BY <1>1, <1>2, <1>4, QuietAgrees

LEMMA PostProbeKeeps ==
    ASSUME IInv, NEW p \in Post, PostProbe(p) PROVE IInv' /\ OutcomeGrows /\ FrameOf(p)
<1>1. p \in Handler /\ p \notin Poll /\ p \notin Chat /\ p \notin fresh
  BY PostBasics DEF PostProbe, Stay, Snapshot
<1> DEFINE Visible == {NotVisible, "broadcast_pending", "source_confirmed"}
<1>2. /\ UNCHANGED <<session, fresh, chain, tx, cp, erased, outcome, lock, snap>>
      /\ \/ pc' = [pc EXCEPT ![p] = "refused"] /\ UNCHANGED <<seen, faults>>
         \/ /\ pc' = [pc EXCEPT ![p] = "locking"]
            /\ \E v \in Visible : seen' = [seen EXCEPT ![p] = v]
            /\ faults' \in 0 .. MaxFaults
  <2>1. tx[p] \in Hash /\ chain[tx[p]] \in {"unconfirmed", "confirmed", "failed"}
    BY TxIsHash DEF IInv, TypeOK
  <2>2. Observed(tx[p]) \subseteq Visible
    BY <2>1 DEF Observed
  <2>3. faults \in 0 .. MaxFaults /\ MaxFaults \in Nat
    BY Typed DEF IInv
  <2> QED BY <2>2, <2>3 DEF PostProbe, Stay, Goto, See, Fault, world
<1>3. TypeOK'
  BY <1>1, <1>2 DEF IInv, TypeOK
<1>4. OutcomeGrows /\ FrameOf(p)
  BY <1>1, <1>2, SameOutcome DEF FrameOf, IInv, TypeOK
<1>5. Own(p)'
  <2>1. \/ pc'[p] = "refused"
        \/ pc'[p] = "locking" /\ seen'[p] \in Visible
    BY <1>1, <1>2 DEF IInv, TypeOK
  <2>2. Snapshot(p)'
    BY <1>1, <1>2, <2>1 DEF Snapshot, Holds
  <2>3. PostKept(p)'
    BY <2>1 DEF PostKept
  <2> QED BY <1>1, <2>2, <2>3 DEF Own
<1> QED BY <1>2, <1>3, <1>4, <1>5, QuietGrounds, StepKeeps

LEMMA PostProbeAgrees ==
    ASSUME IInv, Agreement, NEW p \in Post, PostProbe(p) PROVE Agreement' /\ HashStays
<1>1. IInv' /\ OutcomeGrows /\ FrameOf(p) /\ p \in Handler /\ p \notin Poll /\ p \notin Chat
  BY PostProbeKeeps, PostBasics
<1>2. pc'[p] \in {"refused", "locking"} /\ UNCHANGED <<session, cp>>
  BY <1>1 DEF PostProbe, Goto, world, IInv, TypeOK
<1>3. Agrees(p)'
  BY <1>1, <1>2 DEF Agrees, Holds
<1> QED BY <1>1, <1>2, <1>3, QuietAgrees

LEMMA PostEnterFacts ==
    ASSUME IInv, NEW p \in Post, PostEnter(p)
    PROVE  /\ UNCHANGED <<session, chain, tx, cp, erased, outcome, faults>>
           /\ lock = None /\ pc[p] = "locking"
           /\ \/ /\ Verdict(session, tx[p]) = "go"
                 /\ pc' = [pc EXCEPT ![p] = IF seen[p] = NotVisible THEN "saving" ELSE "registering"]
                 /\ snap' = [snap EXCEPT ![p] = session] /\ fresh' = fresh \cup {p}
                 /\ lock' = p /\ UNCHANGED seen
              \/ /\ Verdict(session, tx[p]) # "go"
                 /\ pc' = [pc EXCEPT ![p] = Verdict(session, tx[p])] /\ UNCHANGED <<lock, fresh>>
                 /\ snap' = [snap EXCEPT ![p] = None] /\ seen' = [seen EXCEPT ![p] = None]
BY DEF PostEnter, Stay, Goto, Read, Forget, world

LEMMA PostEnterKeeps ==
    ASSUME IInv, NEW p \in Post, PostEnter(p) PROVE IInv' /\ OutcomeGrows /\ FrameOf(p)
<1> DEFINE v == Verdict(session, tx[p])
<1>1. /\ p \in Handler /\ p \notin Poll /\ p \notin Chat /\ PostKept(p)
      /\ session \in Session /\ Grounded(session) /\ pc[p] = "locking" /\ p \notin fresh
  BY PostBasics, Typed, PostEnterFacts DEF IInv, Kept, Snapshot
<1>2. v # "go" => v \in {"answered", "conflict"}
  BY VerdictIs
<1>3. TypeOK'
  BY <1>1, <1>2, PostEnterFacts DEF IInv, TypeOK
<1>4. OutcomeGrows /\ FrameOf(p)
  <2>1. None \notin Handler
    BY BroadcastAssumption
  <2> QED BY <1>1, <2>1, PostEnterFacts, SameOutcome DEF FrameOf, IInv, TypeOK
<1>5. Grounded(session)' /\ Grounded(cp)'
  BY <1>4, PostEnterFacts, QuietGrounds
<1>6. Own(p)'
  <2>1. CASE v = "go"
    <3>1. /\ pc'[p] \in {"saving", "registering"} /\ (pc'[p] = "saving" => seen[p] = NotVisible)
          /\ snap'[p] = session /\ seen'[p] = seen[p] /\ session' = session /\ tx' = tx
      BY <1>1, <2>1, PostEnterFacts DEF IInv, TypeOK
    <3>2. Snapshot(p)'
      BY <1>1, <1>5, <3>1 DEF Snapshot, Holds, Grounded, Tells
    <3>3. PostKept(p)'
      BY <1>1, <2>1, <3>1 DEF PostKept, Verdict
    <3> QED BY <1>1, <3>2, <3>3 DEF Own
  <2>2. CASE v # "go"
    <3>1. pc'[p] \in {"answered", "conflict"} /\ p \notin fresh'
      BY <1>1, <1>2, <2>2, PostEnterFacts DEF IInv, TypeOK
    <3> QED BY <3>1, PostOutside
  <2> QED BY <2>1, <2>2
<1> QED BY <1>1, <1>3, <1>4, <1>5, <1>6, StepKeeps

LEMMA PostEnterAgrees ==
    ASSUME IInv, Agreement, NEW p \in Post, PostEnter(p) PROVE Agreement' /\ HashStays
<1> DEFINE v == Verdict(session, tx[p])
<1>1. IInv' /\ OutcomeGrows /\ FrameOf(p) /\ p \in Handler /\ p \notin Poll /\ p \notin Chat
  BY PostEnterKeeps, PostBasics
<1>2. UNCHANGED <<session, cp, tx, outcome>>
  BY PostEnterFacts
<1>3. Agrees(p)'
  <2>1. CASE v = "go"
    <3>1. pc'[p] \in {"saving", "registering"} /\ snap'[p] = session
      BY <1>1, <2>1, PostEnterFacts DEF IInv, TypeOK
    <3>2. Sound(snap[p])'
      BY <1>2, <3>1 DEF Agreement, Sound
    <3> QED BY <1>1, <1>2, <3>1, <3>2 DEF Agrees
  <2>2. CASE v # "go"
    <3>1. pc'[p] = v
      BY <1>1, <2>2, PostEnterFacts DEF IInv, TypeOK
    <3>2. /\ v \in {"answered", "conflict"} /\ (v = "answered" => session.hash = tx[p])
          /\ v = "conflict" => session.hash \notin {tx[p], None}
      BY <2>2, VerdictIs
    <3> QED BY <1>1, <1>2, <3>1, <3>2 DEF Agrees, Holds
  <2> QED BY <2>1, <2>2
<1> QED BY <1>1, <1>2, <1>3, QuietAgrees

LEMMA PostRegisterFacts ==
    ASSUME IInv, NEW p \in Post, PostRegister(p)
    PROVE  /\ UNCHANGED <<session, chain, tx, cp, erased>> /\ pc[p] = "registering"
           /\ outcome' \in {outcome, Registered(tx[p])}
           /\ \/ /\ outcome' = Registered(tx[p])
                 /\ pc' = [pc EXCEPT ![p] = "saving"]
                 /\ UNCHANGED <<fresh, lock, snap, seen, faults>>
              \/ /\ pc' = [pc EXCEPT ![p] = "refused"] /\ fresh' = fresh \ {p}
                 /\ lock = p /\ lock' = None /\ faults' \in 0 .. MaxFaults
                 /\ snap' = [snap EXCEPT ![p] = None] /\ seen' = [seen EXCEPT ![p] = None]
<1>1. faults \in 0 .. MaxFaults /\ MaxFaults \in Nat
  BY Typed DEF IInv
<1> QED BY <1>1 DEF PostRegister, Stay, Goto, Leave, Keep, Free, Forget, Fault, world

LEMMA PostRegisterKeeps ==
    ASSUME IInv, NEW p \in Post, PostRegister(p) PROVE IInv' /\ OutcomeGrows /\ FrameOf(p)
<1>1. /\ p \in Handler /\ p \notin Poll /\ p \notin Chat /\ tx[p] \in Hash
      /\ Snapshot(p) /\ PostKept(p) /\ pc[p] = "registering"
      /\ snap[p] \in Session /\ Grounded(snap[p])
  BY PostBasics, PostRegisterFacts
<1>2. /\ OutcomeGrows /\ outcome' \in [Hash -> {None, "processing"} \cup Final]
      /\ outcome' = Registered(tx[p]) => outcome'[tx[p]] # None
  BY <1>1, PostRegisterFacts, RegisteringGrows DEF IInv
<1>3. TypeOK'
  BY <1>1, <1>2, PostRegisterFacts DEF IInv, TypeOK
<1>4. FrameOf(p)
  BY <1>1, PostRegisterFacts DEF FrameOf, IInv, TypeOK
<1>5. Own(p)'
  <2>1. CASE outcome' = Registered(tx[p]) /\ pc' = [pc EXCEPT ![p] = "saving"]
             /\ UNCHANGED <<fresh, lock, snap, seen, faults>>
    <3>1. pc'[p] = "saving" /\ UNCHANGED <<session, tx>>
      BY <1>1, <2>1, PostRegisterFacts DEF IInv, TypeOK
    <3>2. Grounded(snap[p])'
      <4>1. PICK s : s = snap[p]
        OBVIOUS
      <4>2. Grounded(s)'
        BY <1>1, <1>2, <4>1, GroundedStays DEF Session
      <4> QED BY <2>1, <4>1, <4>2 DEF Grounded
    <3>3. Snapshot(p)'
      BY <1>1, <2>1, <3>1, <3>2 DEF Snapshot, Holds
    <3>4. PostKept(p)'
      BY <1>1, <1>2, <2>1, <3>1 DEF PostKept, Verdict
    <3> QED BY <1>1, <3>3, <3>4 DEF Own
  <2>2. CASE pc' = [pc EXCEPT ![p] = "refused"] /\ fresh' = fresh \ {p}
    <3>1. pc'[p] = "refused" /\ p \notin fresh'
      BY <1>1, <2>2 DEF IInv, TypeOK
    <3> QED BY <3>1, PostOutside
  <2> QED BY <2>1, <2>2, PostRegisterFacts
<1> QED BY <1>2, <1>3, <1>4, <1>5, PostRegisterFacts, QuietGrounds, StepKeeps

LEMMA PostRegisterAgrees ==
    ASSUME IInv, Agreement, NEW p \in Post, PostRegister(p) PROVE Agreement' /\ HashStays
<1>1. IInv' /\ OutcomeGrows /\ FrameOf(p) /\ p \in Handler /\ p \notin Poll /\ p \notin Chat
  BY PostRegisterKeeps, PostBasics
<1>2. UNCHANGED <<session, cp, tx>> /\ Holds(p)
  BY PostRegisterFacts, PostBasics
<1>3. Agrees(p)'
  <2>1. PICK s \in Session : s = snap[p]
    BY <1>2, PostBasics
  <2>2. Sound(s) /\ s.hash \in {None, session.hash}
    BY <1>1, <1>2, <2>1 DEF Agreement, Agrees
  <2>3. Sound(s)'
    BY <1>1, <2>2, SoundStays DEF Session
  <2>4. pc'[p] = "refused" \/ (pc'[p] = "saving" /\ snap'[p] = s)
    BY <1>1, <2>1, PostRegisterFacts DEF IInv, TypeOK
  <2>5. CASE pc'[p] = "refused"
    <3>1. ~Holds(p)'
      BY <1>1, <2>5 DEF Holds
    <3> QED BY <1>1, <2>5, <3>1 DEF Agrees
  <2>6. CASE pc'[p] = "saving" /\ snap'[p] = s
    <3>1. Sound(snap[p])'
      BY <2>3, <2>6 DEF Sound
    <3> QED BY <1>1, <1>2, <2>2, <2>6, <3>1 DEF Agrees
  <2> QED BY <2>4, <2>5, <2>6
<1> QED BY <1>1, <1>2, <1>3, QuietAgrees

LEMMA PostSaveFacts ==
    ASSUME IInv, NEW p \in Post, PostSave(p)
    PROVE  /\ UNCHANGED <<outcome, chain, tx, cp, erased, faults>> /\ pc[p] = "saving"
           /\ lock = p /\ lock' = None
           /\ snap' = [snap EXCEPT ![p] = None] /\ seen' = [seen EXCEPT ![p] = None]
           /\ \/ /\ p \in fresh /\ session' = Broadcast(session, tx[p], seen[p]) /\ fresh' = {}
                 /\ pc' = [pc EXCEPT ![p] = "answered"]
              \/ /\ p \notin fresh /\ UNCHANGED session /\ fresh' = fresh \ {p}
                 /\ pc' = [pc EXCEPT ![p] = "refused"]
BY DEF PostSave, Stay, Goto, Save, Leave, Free, Forget, world

\* What POST writes.
LEMMA BroadcastIs ==
    ASSUME NEW s \in Session, NEW h \in Hash,
           NEW b \in {NotVisible, "broadcast_pending", "source_confirmed"}
    PROVE  LET r == Broadcast(s, h, b)
           IN  /\ r \in Session /\ r.hash = h /\ r.bstat = b /\ r.ostat = s.ostat
               /\ r.order = IF b = NotVisible THEN None ELSE h
BY DEF Broadcast, Session, NotVisible

LEMMA PostSaveKeeps ==
    ASSUME IInv, NEW p \in Post, PostSave(p) PROVE IInv' /\ OutcomeGrows /\ FrameOf(p)
<1>1. /\ p \in Handler /\ tx[p] \in Hash /\ PostKept(p) /\ pc[p] = "saving"
      /\ session \in Session /\ Grounded(session) /\ Snapshot(p)
  BY PostBasics, PostSaveFacts, Typed DEF IInv, Kept
<1>2. PICK b \in {NotVisible, "broadcast_pending", "source_confirmed"} :
         b = seen[p] /\ (b # NotVisible => outcome[tx[p]] # None)
  BY <1>1 DEF PostKept
<1>3. session' \in Session /\ Grounded(session')
  <2>1. CASE session' = Broadcast(session, tx[p], b)
    <3>1. /\ session' \in Session /\ session'.bstat = b /\ session'.ostat = session.ostat
          /\ session'.order = IF b = NotVisible THEN None ELSE tx[p]
      BY <1>1, <2>1, BroadcastIs
    <3> QED BY <1>1, <1>2, <3>1 DEF Grounded, NotVisible
  <2>2. CASE session' = session
    BY <1>1, <2>2
  <2> QED BY <1>2, <2>1, <2>2, PostSaveFacts
<1>4. TypeOK'
  BY <1>1, <1>3, PostSaveFacts DEF IInv, TypeOK
<1>5. OutcomeGrows /\ FrameOf(p)
  BY <1>1, PostSaveFacts, SameOutcome DEF FrameOf, IInv, TypeOK
<1>6. Grounded(session)' /\ Grounded(cp)'
  BY <1>3, <1>5, PostSaveFacts, QuietGrounds DEF Grounded, Tells
<1>7. Own(p)'
  <2>1. pc'[p] \in {"answered", "refused"} /\ p \notin fresh'
    BY <1>1, PostSaveFacts DEF IInv, TypeOK
  <2> QED BY <2>1, PostOutside
<1> QED BY <1>4, <1>5, <1>6, <1>7, StepKeeps

LEMMA PostSaveAgrees ==
    ASSUME IInv, Agreement, NEW p \in Post, PostSave(p) PROVE Agreement' /\ HashStays
<1>1. /\ IInv' /\ OutcomeGrows /\ FrameOf(p) /\ p \in Handler /\ p \notin Poll /\ p \notin Chat
      /\ tx[p] \in Hash /\ None \notin Hash
  BY PostSaveKeeps, PostBasics, BroadcastAssumption
<1>2. UNCHANGED <<cp, tx, outcome>> /\ pc[p] = "saving"
  BY PostSaveFacts
<1>3. CASE p \in fresh
  <2>1. PICK b \in {NotVisible, "broadcast_pending", "source_confirmed"} :
           /\ b = seen[p] /\ session' = Broadcast(session, tx[p], b)
           /\ b # NotVisible => outcome[tx[p]] # None
    BY <1>2, <1>3, PostBasics, PostSaveFacts DEF PostKept
  <2>2. session \in Session /\ session.hash \in {None, tx[p]}
    <3>1. snap[p] = session /\ Verdict(snap[p], tx[p]) = "go"
      BY <1>2, <1>3, PostBasics DEF Snapshot, PostKept
    <3> QED BY <3>1, Typed DEF Verdict, IInv
  <2>3. /\ session'.hash = tx[p] /\ session'.bstat = b /\ session'.ostat = session.ostat
        /\ session'.order = IF b = NotVisible THEN None ELSE tx[p]
    BY <1>1, <2>1, <2>2, BroadcastIs
  <2>4. Sound(session)'
    BY <1>2, <2>2, <2>3 DEF Agreement, Sound, NotVisible
  <2>5. HashStays /\ Sound(cp)' /\ cp'.hash \in {None, session'.hash}
    BY <1>1, <1>2, <2>2, <2>3 DEF HashStays, Agreement, Sound
  <2>6. Agrees(p)'
    <3>1. pc'[p] = "answered"
      BY <1>1, <1>3, PostSaveFacts DEF IInv, TypeOK
    <3> QED BY <1>1, <1>2, <2>3, <3>1 DEF Agrees, Holds
  <2> QED BY <1>1, <2>4, <2>5, <2>6, StepAgrees
<1>4. CASE p \notin fresh
  <2>1. pc'[p] = "refused" /\ session' = session
    BY <1>1, <1>4, PostSaveFacts DEF IInv, TypeOK
  <2>2. Agrees(p)'
    BY <1>1, <2>1 DEF Agrees, Holds
  <2> QED BY <1>1, <1>2, <2>1, <2>2, QuietAgrees
<1> QED BY <1>3, <1>4

-----------------------------------------------------------------------------
(* GET polls. *)

LEMMA PollBasics ==
    ASSUME IInv, NEW g \in Poll
    PROVE  /\ g \in Handler /\ g \notin Post /\ g \notin Chat
           /\ Snapshot(g) /\ PollKept(g)
           /\ Holds(g) <=> pc[g] # "new"
           /\ Holds(g) => snap[g] \in Session /\ Grounded(snap[g])
<1>1. g \in Handler /\ g \notin Post /\ g \notin Chat
  BY BroadcastAssumption DEF Handler
<1>2. Snapshot(g) /\ PollKept(g)
  BY <1>1 DEF IInv, Kept, Own
<1>3. Holds(g) <=> pc[g] # "new"
  BY <1>1, <1>2 DEF Holds, PollKept
<1> QED BY <1>1, <1>2, <1>3 DEF Snapshot

\* A poll that ends leaves nothing behind.
LEMMA PollEnded ==
    ASSUME IInv, NEW g \in Poll, pc'[g] = "new", g \notin fresh'
    PROVE  Own(g)' /\ Agrees(g)'
BY PollBasics DEF Own, Snapshot, Holds, PollKept, Agrees

\* One that goes on with the record it has.
LEMMA PollSnapshotStays ==
    ASSUME IInv, NEW g \in Poll, Holds(g), Holds(g)', OutcomeGrows,
           UNCHANGED <<session, snap, fresh>>
    PROVE  Snapshot(g)'
<1>1. PICK s \in Session : s = snap[g] /\ Grounded(s)
  BY PollBasics
<1>2. Grounded(s)'
  BY <1>1, GroundedStays DEF Session
<1>3. Grounded(snap[g])'
  BY <1>1, <1>2 DEF Grounded
<1> QED BY <1>1, <1>3, PollBasics DEF Snapshot

LEMMA PollSnapshotAgrees ==
    ASSUME IInv, Agreement, NEW g \in Poll, Holds(g), OutcomeGrows, UNCHANGED <<session, snap>>
    PROVE  Sound(snap[g])' /\ snap'[g].hash \in {None, session'.hash}
<1>1. PICK s \in Session : s = snap[g]
  BY PollBasics
<1>2. Sound(s) /\ s.hash \in {None, session.hash}
  BY <1>1, PollBasics DEF Agreement, Agrees
<1>3. Sound(s)'
  BY <1>2, SoundStays DEF Session
<1> QED BY <1>1, <1>2, <1>3 DEF Sound

LEMMA PollReadFacts ==
    ASSUME IInv, NEW g \in Poll, PollRead(g)
    PROVE  /\ UNCHANGED <<session, chain, tx, cp, erased, outcome, lock, seen, faults>>
           /\ snap' = [snap EXCEPT ![g] = session] /\ fresh' = fresh \cup {g}
           /\ \/ pc' = [pc EXCEPT ![g] = "recovering"] /\ session.hash # None
              \/ pc' = [pc EXCEPT ![g] = "asking"] /\ session.order # None
BY DEF PollRead, Goto, Read, Recovers, Asks, world

LEMMA PollReadKeeps ==
    ASSUME IInv, NEW g \in Poll, PollRead(g) PROVE IInv' /\ OutcomeGrows /\ FrameOf(g)
<1>1. g \in Handler /\ g \notin Post /\ g \notin Chat /\ session \in Session
  BY PollBasics, Typed DEF IInv
<1>2. TypeOK'
  BY <1>1, PollReadFacts DEF IInv, TypeOK
<1>3. OutcomeGrows /\ FrameOf(g)
  BY <1>1, PollReadFacts, SameOutcome DEF FrameOf, IInv, TypeOK
<1>4. Grounded(session)' /\ Grounded(cp)'
  BY <1>3, PollReadFacts, QuietGrounds
<1>5. Own(g)'
  <2>1. /\ snap'[g] = session /\ session' = session
        /\ \/ pc'[g] = "recovering" /\ session.hash # None
           \/ pc'[g] = "asking" /\ session.order # None
    BY <1>1, PollReadFacts DEF IInv, TypeOK
  <2>2. PollKept(g)'
    BY <2>1 DEF PollKept
  <2>3. Grounded(snap[g])'
    BY <1>4, <2>1 DEF Grounded, Tells
  <2>4. Snapshot(g)'
    BY <1>1, <2>1, <2>3 DEF Snapshot, Holds
  <2> QED BY <1>1, <2>2, <2>4 DEF Own
<1> QED BY <1>2, <1>3, <1>4, <1>5, StepKeeps

LEMMA PollReadAgrees ==
    ASSUME IInv, Agreement, NEW g \in Poll, PollRead(g) PROVE Agreement' /\ HashStays
<1>1. /\ OutcomeGrows /\ FrameOf(g) /\ g \in Handler /\ g \notin Post /\ g \notin Chat
      /\ UNCHANGED <<session, cp, outcome>>
  BY PollReadKeeps, PollReadFacts, PollBasics
<1>2. pc'[g] \in {"recovering", "asking"} /\ snap'[g] = session
  BY <1>1, PollReadFacts DEF IInv, TypeOK
<1>3. Sound(snap[g])'
  BY <1>1, <1>2 DEF Agreement, Sound
<1>4. Agrees(g)'
  BY <1>1, <1>2, <1>3 DEF Agrees
<1> QED BY <1>1, <1>4, QuietAgrees

LEMMA PollRecoverFacts ==
    ASSUME IInv, NEW g \in Poll, PollRecover(g)
    PROVE  /\ UNCHANGED <<session, chain, tx, cp, erased, lock>> /\ pc[g] = "recovering"
           /\ outcome' \in {outcome, Registered(snap[g].hash)}
           /\ faults' \in 0 .. MaxFaults
           /\ \/ /\ outcome' = Registered(snap[g].hash) /\ pc' = [pc EXCEPT ![g] = "saving_order"]
                 /\ UNCHANGED <<fresh, snap, seen>>
              \/ /\ pc' = [pc EXCEPT ![g] = "new"] /\ fresh' = fresh \ {g}
                 /\ snap' = [snap EXCEPT ![g] = None] /\ seen' = [seen EXCEPT ![g] = None]
<1>1. faults \in 0 .. MaxFaults /\ MaxFaults \in Nat
  BY Typed DEF IInv
<1>2. Fault => faults' \in 0 .. MaxFaults
  BY <1>1 DEF Fault
<1> DEFINE h == snap[g].hash
<1>3. \/ /\ outcome' = Registered(h) /\ Goto(g, "saving_order")
         /\ Keep /\ UNCHANGED <<snap, seen, faults>>
      \/ PollGivesUp(g) /\ UNCHANGED <<outcome, faults>>
      \/ Fault /\ outcome' \in {outcome, Registered(h)} /\ PollGivesUp(g)
  BY DEF PollRecover
<1>4. UNCHANGED <<chain, tx, cp, erased, lock>> /\ pc[g] = "recovering"
  BY DEF PollRecover, world, Stay
<1> QED BY <1>1, <1>2, <1>3, <1>4 DEF PollGivesUp, PollEnds, Goto, Forget, Leave, Keep

LEMMA PollRecoverKeeps ==
    ASSUME IInv, NEW g \in Poll, PollRecover(g) PROVE IInv' /\ OutcomeGrows /\ FrameOf(g)
<1>1. g \in Handler /\ g \notin Post /\ g \notin Chat /\ pc[g] = "recovering" /\ Holds(g)
  BY PollBasics, PollRecoverFacts
<1>2. PICK h \in Hash : h = snap[g].hash
  BY <1>1, PollBasics DEF PollKept, Session
<1>3. /\ OutcomeGrows /\ outcome' \in [Hash -> {None, "processing"} \cup Final]
      /\ outcome' = Registered(h) => outcome'[h] # None
  <2>1. TypeOK /\ outcome' \in {outcome, Registered(h)}
    BY <1>2, PollRecoverFacts DEF IInv
  <2> QED BY <2>1, RegisteringGrows
<1>4. TypeOK'
  BY <1>1, <1>3, PollRecoverFacts DEF IInv, TypeOK
<1>5. FrameOf(g)
  BY <1>1, PollRecoverFacts DEF FrameOf, IInv, TypeOK
<1>6. Own(g)'
  <2>1. CASE outcome' = Registered(h) /\ pc' = [pc EXCEPT ![g] = "saving_order"]
             /\ UNCHANGED <<fresh, snap, seen>>
    <3>1. pc'[g] = "saving_order" /\ Holds(g)'
      BY <1>1, <2>1 DEF Holds, IInv, TypeOK
    <3>2. Snapshot(g)'
      BY <1>1, <1>3, <2>1, <3>1, PollRecoverFacts, PollSnapshotStays
    <3>3. PollKept(g)'
      <4>1. snap'[g].hash = h /\ h # None
        BY <1>1, <1>2, <2>1, BroadcastAssumption
      <4>2. outcome'[h] # None
        BY <1>3, <2>1
      <4> QED BY <3>1, <4>1, <4>2 DEF PollKept
    <3> QED BY <1>1, <3>2, <3>3 DEF Own
  <2>2. CASE pc' = [pc EXCEPT ![g] = "new"] /\ fresh' = fresh \ {g}
    <3>1. pc'[g] = "new"
      BY <1>1, <2>2 DEF IInv, TypeOK
    <3> QED BY <2>2, <3>1, PollEnded
  <2> QED BY <1>2, <2>1, <2>2, PollRecoverFacts
<1> QED BY <1>3, <1>4, <1>5, <1>6, PollRecoverFacts, QuietGrounds, StepKeeps

LEMMA PollRecoverAgrees ==
    ASSUME IInv, Agreement, NEW g \in Poll, PollRecover(g) PROVE Agreement' /\ HashStays
<1>1. /\ OutcomeGrows /\ FrameOf(g) /\ g \in Handler /\ g \notin Post /\ g \notin Chat
      /\ UNCHANGED <<session, cp>> /\ Holds(g)
  BY PollRecoverKeeps, PollRecoverFacts, PollBasics
<1>2. Agrees(g)'
  <2>1. CASE pc' = [pc EXCEPT ![g] = "saving_order"] /\ UNCHANGED snap
    <3>1. Sound(snap[g])' /\ snap'[g].hash \in {None, session'.hash}
      BY <1>1, <2>1, PollSnapshotAgrees
    <3>2. pc'[g] = "saving_order"
      BY <1>1, <2>1 DEF IInv, TypeOK
    <3> QED BY <1>1, <3>1, <3>2 DEF Agrees
  <2>2. CASE pc' = [pc EXCEPT ![g] = "new"] /\ fresh' = fresh \ {g}
    <3>1. pc'[g] = "new"
      BY <1>1, <2>2 DEF IInv, TypeOK
    <3> QED BY <2>2, <3>1, PollEnded
  <2> QED BY <2>1, <2>2, PollRecoverFacts
<1> QED BY <1>1, <1>2, QuietAgrees

\* The record after the poll's first update.
Ordered(g) == IF g \in fresh THEN [session EXCEPT !.order = snap[g].hash] ELSE session

LEMMA PollSaveOrderFacts ==
    ASSUME IInv, NEW g \in Poll, PollSaveOrder(g)
    PROVE  /\ session' = Ordered(g) /\ UNCHANGED <<outcome, chain, tx, cp, erased, lock, faults>>
           /\ pc[g] = "saving_order"
           /\ \/ /\ session'.order # None /\ pc' = [pc EXCEPT ![g] = "asking"]
                 /\ snap' = [snap EXCEPT ![g] = session'] /\ seen' = seen
                 /\ fresh' = IF g \in fresh THEN {g} ELSE fresh \cup {g}
              \/ /\ pc' = [pc EXCEPT ![g] = "new"]
                 /\ snap' = [snap EXCEPT ![g] = None] /\ seen' = [seen EXCEPT ![g] = None]
                 /\ fresh' = IF g \in fresh THEN {} ELSE fresh
<1> DEFINE s == Ordered(g)
<1>1. /\ session' = s
      /\ IF Asks(s)
         THEN /\ Goto(g, "asking") /\ snap' = [snap EXCEPT ![g] = s] /\ UNCHANGED seen
              /\ fresh' = IF g \in fresh THEN {g} ELSE fresh \cup {g}
         ELSE PollEnds(g) /\ fresh' = IF g \in fresh THEN {} ELSE fresh
  BY DEF PollSaveOrder, Ordered
<1>2. Asks(s) => s.order # None
  BY DEF Asks
<1>3. UNCHANGED <<outcome, chain, tx, cp, erased, lock, faults>> /\ pc[g] = "saving_order"
  BY DEF PollSaveOrder, world, Stay
<1> HIDE DEF s
<1> QED BY <1>1, <1>2, <1>3 DEF PollEnds, Goto, Forget, s

LEMMA OrderedIs ==
    ASSUME IInv, NEW g \in Poll, pc[g] = "saving_order"
    PROVE  /\ Ordered(g) \in Session /\ Ordered(g).hash = session.hash
           /\ Ordered(g).bstat = session.bstat /\ Ordered(g).ostat = session.ostat
           /\ \/ Ordered(g) = session
              \/ /\ Ordered(g).order = session.hash
                 /\ session.hash # None /\ outcome[session.hash] # None
<1>1. CASE g \in fresh
  <2>1. snap[g] = session /\ session.hash # None /\ outcome[session.hash] # None
    BY <1>1, PollBasics DEF PollKept, Snapshot
  <2>2. Ordered(g) = [session EXCEPT !.order = session.hash] /\ session \in Session
    BY <1>1, <2>1, Typed DEF Ordered, IInv
  <2> QED BY <2>1, <2>2 DEF Session
<1>2. CASE g \notin fresh
  BY <1>2, Typed DEF Ordered, IInv
<1> QED BY <1>1, <1>2

LEMMA PollSaveOrderKeeps ==
    ASSUME IInv, NEW g \in Poll, PollSaveOrder(g) PROVE IInv' /\ OutcomeGrows /\ FrameOf(g)
<1>1. g \in Handler /\ g \notin Post /\ g \notin Chat /\ pc[g] = "saving_order"
  BY PollBasics, PollSaveOrderFacts
<1>2. session' \in Session /\ Grounded(session')
  <2>1. PICK s \in Session : s = session' /\ s = Ordered(g)
    BY <1>1, OrderedIs, PollSaveOrderFacts
  <2>2. Grounded(session)
    BY DEF IInv, Kept
  <2>3. Grounded(s)
    BY <1>1, <2>1, <2>2, OrderedIs DEF Grounded
  <2> QED BY <2>1, <2>3
<1>3. TypeOK'
  BY <1>1, <1>2, PollSaveOrderFacts DEF IInv, TypeOK
<1>4. OutcomeGrows /\ FrameOf(g)
  <2>1. g \notin fresh => session' = session
    BY PollSaveOrderFacts DEF Ordered
  <2> QED BY <1>1, <2>1, PollSaveOrderFacts, SameOutcome DEF FrameOf, IInv, TypeOK
<1>5. Grounded(session)' /\ Grounded(cp)'
  BY <1>2, <1>4, PollSaveOrderFacts, QuietGrounds DEF Grounded, Tells
<1>6. Own(g)'
  <2>1. CASE /\ session'.order # None /\ pc' = [pc EXCEPT ![g] = "asking"]
             /\ snap' = [snap EXCEPT ![g] = session']
    <3>1. pc'[g] = "asking" /\ snap'[g] = session'
      BY <1>1, <2>1 DEF IInv, TypeOK
    <3>2. Grounded(snap[g])'
      BY <1>5, <3>1 DEF Grounded, Tells
    <3>3. Snapshot(g)'
      BY <1>1, <1>2, <3>1, <3>2 DEF Snapshot, Holds
    <3>4. PollKept(g)'
      BY <2>1, <3>1 DEF PollKept
    <3> QED BY <1>1, <3>3, <3>4 DEF Own
  <2>2. CASE pc' = [pc EXCEPT ![g] = "new"] /\ fresh' = IF g \in fresh THEN {} ELSE fresh
    <3>1. pc'[g] = "new" /\ g \notin fresh'
      BY <1>1, <2>2 DEF IInv, TypeOK
    <3> QED BY <3>1, PollEnded
  <2> QED BY <2>1, <2>2, PollSaveOrderFacts
<1> QED BY <1>3, <1>4, <1>5, <1>6, StepKeeps

LEMMA PollSaveOrderAgrees ==
    ASSUME IInv, Agreement, NEW g \in Poll, PollSaveOrder(g) PROVE Agreement' /\ HashStays
<1>1. /\ IInv' /\ OutcomeGrows /\ FrameOf(g) /\ g \in Handler /\ g \notin Post /\ g \notin Chat
      /\ UNCHANGED <<cp, outcome>> /\ pc[g] = "saving_order"
  BY PollSaveOrderKeeps, PollSaveOrderFacts, PollBasics
<1>2. session'.hash = session.hash /\ Sound(session')
  <2>1. PICK s \in Session : s = session' /\ s = Ordered(g)
    BY <1>1, OrderedIs, PollSaveOrderFacts
  <2>2. s.hash = session.hash /\ Sound(s)
    BY <1>1, <2>1, OrderedIs DEF Sound, Agreement
  <2> QED BY <2>1, <2>2
<1>3. HashStays /\ Sound(session)' /\ Sound(cp)' /\ cp'.hash \in {None, session'.hash}
  BY <1>1, <1>2 DEF HashStays, Agreement, Sound
<1>4. Agrees(g)'
  <2>1. CASE pc' = [pc EXCEPT ![g] = "asking"] /\ snap' = [snap EXCEPT ![g] = session']
    <3>1. pc'[g] = "asking" /\ snap'[g] = session'
      BY <1>1, <2>1 DEF IInv, TypeOK
    <3>2. Sound(snap[g])'
      BY <1>3, <3>1 DEF Sound
    <3> QED BY <1>1, <3>1, <3>2 DEF Agrees
  <2>2. CASE pc' = [pc EXCEPT ![g] = "new"] /\ fresh' = IF g \in fresh THEN {} ELSE fresh
    <3>1. pc'[g] = "new" /\ g \notin fresh'
      BY <1>1, <2>2 DEF IInv, TypeOK
    <3> QED BY <3>1, PollEnded
  <2> QED BY <2>1, <2>2, PollSaveOrderFacts
<1> QED BY <1>1, <1>3, <1>4, StepAgrees

LEMMA PollAskFacts ==
    ASSUME IInv, NEW g \in Poll, PollAsk(g)
    PROVE  /\ UNCHANGED <<session, chain, tx, cp, erased, outcome, lock>> /\ pc[g] = "asking"
           /\ faults' \in 0 .. MaxFaults
           /\ \/ /\ pc' = [pc EXCEPT ![g] = "saving_status"]
                 /\ seen' = [seen EXCEPT ![g] = outcome[snap[g].order]] /\ UNCHANGED <<fresh, snap>>
              \/ /\ pc' = [pc EXCEPT ![g] = "new"] /\ fresh' = fresh \ {g}
                 /\ snap' = [snap EXCEPT ![g] = None] /\ seen' = [seen EXCEPT ![g] = None]
<1>1. faults \in 0 .. MaxFaults /\ MaxFaults \in Nat
  BY Typed DEF IInv
<1>2. Fault => faults' \in 0 .. MaxFaults
  BY <1>1 DEF Fault
<1>3. /\ UNCHANGED <<chain, tx, cp, erased, outcome, lock>> /\ pc[g] = "asking"
      /\ \/ /\ See(g, outcome[snap[g].order]) /\ Goto(g, "saving_status")
            /\ Keep /\ UNCHANGED <<snap, faults>>
         \/ PollGivesUp(g) /\ (UNCHANGED faults \/ Fault)
  BY DEF PollAsk, world, Stay
<1> QED BY <1>1, <1>2, <1>3 DEF PollGivesUp, PollEnds, Goto, Forget, Leave, Keep, See

\* The provider knows the order it is asked about.
LEMMA PollAsked ==
    ASSUME IInv, NEW g \in Poll, pc[g] = "asking"
    PROVE  /\ snap[g].order \in Hash /\ snap[g].order # None
           /\ outcome[snap[g].order] \in {"processing"} \cup Final
<1>1. snap[g] \in Session /\ Grounded(snap[g]) /\ snap[g].order # None
  BY PollBasics DEF PollKept
<1>2. snap[g].order \in Hash /\ outcome[snap[g].order] # None
  BY <1>1 DEF Grounded, Session
<1> QED BY <1>1, <1>2 DEF IInv, TypeOK

LEMMA PollAskKeeps ==
    ASSUME IInv, NEW g \in Poll, PollAsk(g) PROVE IInv' /\ OutcomeGrows /\ FrameOf(g)
<1>1. g \in Handler /\ g \notin Post /\ g \notin Chat /\ pc[g] = "asking" /\ Holds(g)
  BY PollBasics, PollAskFacts
<1>2. PICK told \in {"processing"} \cup Final :
         told = outcome[snap[g].order] /\ (told \in Final => Tells(told))
  BY <1>1, PollAsked DEF Tells
<1>3. TypeOK'
  <2>1. TypeOK
    BY DEF IInv
  <2>2. snap' \in [Handler -> Session \cup {None}]
    BY <2>1, PollAskFacts DEF TypeOK
  <2>3. seen' \in [Handler -> {None, "processing", NotVisible, "broadcast_pending",
                               "source_confirmed"} \cup Final]
    BY <1>2, <2>1, PollAskFacts DEF TypeOK
  <2>4. pc' \in [Handler ->
         {"new", "probing", "locking", "registering", "saving", "recovering", "saving_order",
          "asking", "saving_status", "running", "projecting", "answered", "conflict",
          "refused", "done"}] /\ fresh' \subseteq Handler
    BY <2>1, PollAskFacts DEF TypeOK
  <2> QED BY <2>1, <2>2, <2>3, <2>4, PollAskFacts DEF TypeOK
<1>4. OutcomeGrows /\ FrameOf(g)
  BY <1>1, PollAskFacts, SameOutcome DEF FrameOf, IInv, TypeOK
<1>5. Own(g)'
  <2>1. CASE pc' = [pc EXCEPT ![g] = "saving_status"] /\ seen' = [seen EXCEPT ![g] = told]
             /\ UNCHANGED <<fresh, snap>>
    <3>1. pc'[g] = "saving_status" /\ seen'[g] = told /\ Holds(g)'
      BY <1>1, <2>1 DEF Holds, IInv, TypeOK
    <3>2. Snapshot(g)'
      BY <1>1, <1>4, <2>1, <3>1, PollAskFacts, PollSnapshotStays
    <3>3. PollKept(g)'
      BY <1>2, <3>1, PollAskFacts DEF PollKept, Tells
    <3> QED BY <1>1, <3>2, <3>3 DEF Own
  <2>2. CASE pc' = [pc EXCEPT ![g] = "new"] /\ fresh' = fresh \ {g}
    <3>1. pc'[g] = "new"
      BY <1>1, <2>2 DEF IInv, TypeOK
    <3> QED BY <2>2, <3>1, PollEnded
  <2> QED BY <1>2, <2>1, <2>2, PollAskFacts
<1> QED BY <1>3, <1>4, <1>5, PollAskFacts, QuietGrounds, StepKeeps

LEMMA PollAskAgrees ==
    ASSUME IInv, Agreement, NEW g \in Poll, PollAsk(g) PROVE Agreement' /\ HashStays
<1>1. /\ OutcomeGrows /\ FrameOf(g) /\ g \in Handler /\ g \notin Post /\ g \notin Chat
      /\ UNCHANGED <<session, cp, outcome>> /\ pc[g] = "asking" /\ Holds(g)
  BY PollAskKeeps, PollAskFacts, PollBasics
<1>2. Agrees(g)'
  <2>1. CASE /\ pc' = [pc EXCEPT ![g] = "saving_status"] /\ UNCHANGED snap
             /\ seen' = [seen EXCEPT ![g] = outcome[snap[g].order]]
    <3>1. Sound(snap[g])' /\ snap'[g].hash \in {None, session'.hash}
      BY <1>1, <2>1, PollSnapshotAgrees
    <3>2. snap[g].order = snap[g].hash /\ snap[g].order # None
      BY <1>1, PollAsked DEF Agreement, Agrees, Sound
    <3>3. pc'[g] = "saving_status" /\ seen'[g] = outcome[snap[g].hash]
      BY <1>1, <2>1, <3>2 DEF IInv, TypeOK
    <3> QED BY <1>1, <2>1, <3>1, <3>2, <3>3 DEF Agrees
  <2>2. CASE pc' = [pc EXCEPT ![g] = "new"] /\ fresh' = fresh \ {g}
    <3>1. pc'[g] = "new"
      BY <1>1, <2>2 DEF IInv, TypeOK
    <3> QED BY <2>2, <3>1, PollEnded
  <2> QED BY <2>1, <2>2, PollAskFacts
<1> QED BY <1>1, <1>2, QuietAgrees

LEMMA PollSaveStatusFacts ==
    ASSUME IInv, NEW g \in Poll, PollSaveStatus(g)
    PROVE  /\ UNCHANGED <<outcome, chain, tx, cp, erased, lock, faults>> /\ pc[g] = "saving_status"
           /\ pc' = [pc EXCEPT ![g] = "new"]
           /\ snap' = [snap EXCEPT ![g] = None] /\ seen' = [seen EXCEPT ![g] = None]
           /\ \/ g \in fresh /\ session' = Told(session, seen[g]) /\ fresh' = {}
              \/ g \notin fresh /\ UNCHANGED <<session, fresh>>
BY DEF PollSaveStatus, PollEnds, Goto, Forget, Save, Keep, world, Stay

\* What the poll writes.
LEMMA ToldIs ==
    ASSUME NEW s \in Session, NEW v \in {"processing"} \cup Final
    PROVE  /\ Told(s, v) \in Session /\ Told(s, v).hash = s.hash /\ Told(s, v).order = s.order
           /\ Told(s, v).ostat = v
           /\ Told(s, v).bstat = IF v = "completed" THEN "confirmed" ELSE s.bstat
BY DEF Told, Session

LEMMA PollSaveStatusKeeps ==
    ASSUME IInv, NEW g \in Poll, PollSaveStatus(g) PROVE IInv' /\ OutcomeGrows /\ FrameOf(g)
<1>1. /\ g \in Handler /\ g \notin Post /\ g \notin Chat
      /\ session \in Session /\ Grounded(session)
  BY PollBasics, Typed DEF IInv, Kept
<1>2. PICK v \in {"processing"} \cup Final : v = seen[g] /\ (v \in Final => Tells(v))
  BY PollBasics, PollSaveStatusFacts DEF PollKept
<1>3. session' \in Session /\ Grounded(session')
  <2>1. CASE session' = Told(session, v)
    <3>1. /\ session' \in Session /\ session'.order = session.order /\ session'.ostat = v
          /\ session'.bstat = IF v = "completed" THEN "confirmed" ELSE session.bstat
      BY <1>1, <2>1, ToldIs
    <3> QED BY <1>1, <1>2, <3>1 DEF Grounded, Final
  <2>2. CASE session' = session
    BY <1>1, <2>2
  <2> QED BY <1>2, <2>1, <2>2, PollSaveStatusFacts
<1>4. TypeOK'
  BY <1>1, <1>3, PollSaveStatusFacts DEF IInv, TypeOK
<1>5. OutcomeGrows /\ FrameOf(g)
  BY <1>1, PollSaveStatusFacts, SameOutcome DEF FrameOf, IInv, TypeOK
<1>6. Grounded(session)' /\ Grounded(cp)'
  BY <1>3, <1>5, PollSaveStatusFacts, QuietGrounds DEF Grounded, Tells
<1>7. Own(g)'
  <2>1. pc'[g] = "new" /\ g \notin fresh'
    BY <1>1, PollSaveStatusFacts DEF IInv, TypeOK
  <2> QED BY <2>1, PollEnded
<1> QED BY <1>4, <1>5, <1>6, <1>7, StepKeeps

LEMMA PollSaveStatusAgrees ==
    ASSUME IInv, Agreement, NEW g \in Poll, PollSaveStatus(g) PROVE Agreement' /\ HashStays
<1>1. /\ OutcomeGrows /\ FrameOf(g) /\ g \in Handler
      /\ UNCHANGED <<cp, outcome>> /\ pc[g] = "saving_status" /\ session \in Session
  BY PollSaveStatusKeeps, PollSaveStatusFacts, PollBasics, Typed DEF IInv
<1>2. session'.hash = session.hash /\ Sound(session')
  <2>1. CASE g \in fresh
    <3>1. snap[g] = session
      BY <2>1, PollBasics DEF Snapshot
    <3>2. PICK v \in {"processing"} \cup Final : v = seen[g]
      BY <1>1, PollBasics DEF PollKept
    <3>3. session.hash # None /\ (v \in Final => v = outcome[session.hash])
      BY <1>1, <3>1, <3>2 DEF Agreement, Agrees
    <3>4. /\ session'.hash = session.hash /\ session'.order = session.order /\ session'.ostat = v
          /\ session'.bstat = IF v = "completed" THEN "confirmed" ELSE session.bstat
      <4>1. session' = Told(session, v)
        BY <2>1, <3>2, PollSaveStatusFacts
      <4> QED BY <1>1, <4>1, ToldIs
    <3> QED BY <3>3, <3>4 DEF Agreement, Sound, Final
  <2>2. CASE session' = session
    BY <2>2 DEF Agreement
  <2> QED BY <2>1, <2>2, PollSaveStatusFacts
<1>3. HashStays /\ Sound(session)' /\ Sound(cp)' /\ cp'.hash \in {None, session'.hash}
  BY <1>1, <1>2 DEF HashStays, Agreement, Sound
<1>4. Agrees(g)'
  <2>1. pc'[g] = "new" /\ g \notin fresh'
    BY <1>1, PollSaveStatusFacts DEF IInv, TypeOK
  <2> QED BY <2>1, PollEnded
<1> QED BY <1>1, <1>3, <1>4, StepAgrees

-----------------------------------------------------------------------------
(* POST cancel and the chain. *)

\* A new status of the session changes nothing that is kept.
LEMMA StatusIs ==
    ASSUME IInv, NEW v \in {"active", "cancelled"}, session' = [session EXCEPT !.status = v]
    PROVE  /\ session' \in Session /\ Grounded(session') /\ session'.hash = session.hash
           /\ HashStays
           /\ Agreement => Sound(session')
<1>1. /\ session' \in Session /\ session'.hash = session.hash /\ session'.order = session.order
      /\ session'.bstat = session.bstat /\ session'.ostat = session.ostat
  BY Typed DEF IInv, Session
<1> QED BY <1>1 DEF IInv, Kept, Agreement, Grounded, Sound, HashStays

LEMMA CancelKeeps ==
    ASSUME IInv, NEW x \in Cancel, CancelSwap(x)
    PROVE  IInv' /\ (Agreement => Agreement' /\ HashStays)
<1>1. x \in Handler /\ x \notin Post /\ x \notin Chat /\ x \notin Poll
  BY BroadcastAssumption DEF Handler
<1>2. /\ UNCHANGED <<outcome, chain, tx, cp, erased, lock, pc, snap, seen, faults>>
      /\ session' = [session EXCEPT !.status = "cancelled"] /\ fresh' = {}
  BY DEF CancelSwap, Save, world
<1>3. TypeOK'
  BY <1>2, StatusIs DEF IInv, TypeOK
<1>4. OutcomeGrows /\ FrameOf(x)
  BY <1>2, SameOutcome DEF FrameOf
<1>5. Grounded(session)' /\ Grounded(cp)'
  BY <1>2, <1>4, StatusIs, QuietGrounds DEF Grounded, Tells
<1>6. Own(x)' /\ Agrees(x)'
  BY <1>1, <1>2 DEF Own, Snapshot, Holds, Agrees
<1>7. IInv'
  BY <1>3, <1>4, <1>5, <1>6, StepKeeps
<1>8. ASSUME Agreement PROVE Agreement' /\ HashStays
  <2>1. HashStays /\ Sound(session)' /\ Sound(cp)' /\ cp'.hash \in {None, session'.hash}
    BY <1>2, <1>8, StatusIs DEF Agreement, Sound
  <2> QED BY <1>4, <1>6, <1>8, <2>1, StepAgrees
<1> QED BY <1>7, <1>8

\* No handler moves: None is none of them.
LEMMA WorldKeeps ==
    ASSUME IInv, NEW h \in Hash, ChainStep(h) \/ Settle(h)
    PROVE  IInv' /\ (Agreement => Agreement' /\ HashStays)
<1>1. UNCHANGED <<session, fresh, lock, tx, cp, erased, pc, snap, seen, faults>>
  BY DEF ChainStep, Settle, world
<1>2. TypeOK' /\ OutcomeGrows
  <2>1. CASE ChainStep(h)
    BY <2>1, <1>1, SameOutcome DEF IInv, TypeOK, ChainStep
  <2>2. CASE Settle(h)
    <3>1. /\ outcome[h] = "processing" /\ chain' = chain
          /\ \E v \in Final : outcome' = [outcome EXCEPT ![h] = v]
      BY <2>2 DEF Settle, world
    <3>2. TypeOK'
      BY <1>1, <3>1 DEF IInv, TypeOK
    <3>3. OutcomeGrows
      BY <3>1, BroadcastAssumption DEF IInv, TypeOK, OutcomeGrows, Final
    <3> QED BY <3>2, <3>3
  <2> QED BY <2>1, <2>2
<1>3. FrameOf(None) /\ None \notin Handler
  BY <1>1, BroadcastAssumption DEF FrameOf
<1>4. IInv'
  BY <1>1, <1>2, <1>3, QuietGrounds, StepKeeps
<1>5. Agreement => Agreement' /\ HashStays
  BY <1>1, <1>2, <1>3, QuietAgrees
<1> QED BY <1>4, <1>5

-----------------------------------------------------------------------------
(* Chat turns. *)

LEMMA ChatBasics ==
    ASSUME IInv, NEW t \in Chat
    PROVE  /\ t \in Handler /\ t \notin Post /\ t \notin Poll
           /\ Snapshot(t) /\ ChatKept(t) /\ t \notin fresh
           /\ Holds(t) <=> pc[t] \in {"locking", "running", "projecting"}
           /\ Holds(t) => snap[t] \in Session /\ Grounded(snap[t])
<1>1. t \in Handler /\ t \notin Post /\ t \notin Poll
  BY BroadcastAssumption DEF Handler
<1>2. Snapshot(t) /\ ChatKept(t)
  BY <1>1 DEF IInv, Kept, Own
<1>3. Holds(t) <=> pc[t] \in {"locking", "running", "projecting"}
  BY <1>1 DEF Holds
<1> QED BY <1>1, <1>2, <1>3 DEF Snapshot, ChatKept

\* A turn that is over leaves nothing behind.
LEMMA ChatEnded ==
    ASSUME IInv, NEW t \in Chat, pc'[t] = "done", t \notin fresh'
    PROVE  Own(t)' /\ Agrees(t)'
BY ChatBasics DEF Own, Snapshot, Holds, ChatKept, Agrees

\* One that goes on with the snapshot it has.
LEMMA ChatSnapshotStays ==
    ASSUME IInv, NEW t \in Chat, Holds(t), OutcomeGrows, UNCHANGED <<session, snap, fresh>>
    PROVE  /\ Snapshot(t)'
           /\ Agreement => Sound(snap[t])' /\ snap'[t].hash \in {None, session'.hash}
<1>1. PICK s \in Session : s = snap[t] /\ Grounded(s)
  BY ChatBasics
<1>2. Grounded(s)'
  BY <1>1, GroundedStays DEF Session
<1>3. Grounded(snap[t])'
  BY <1>1, <1>2 DEF Grounded
<1>4. ASSUME Agreement PROVE Sound(snap[t])' /\ snap'[t].hash \in {None, session'.hash}
  <2>1. Sound(s) /\ s.hash \in {None, session.hash}
    BY <1>1, <1>4, ChatBasics DEF Agreement, Agrees
  <2>2. Sound(s)'
    BY <2>1, SoundStays DEF Session
  <2> QED BY <1>1, <2>1, <2>2 DEF Sound
<1> QED BY <1>1, <1>3, <1>4, ChatBasics DEF Snapshot

LEMMA InputIs ==
    ASSUME IInv
    PROVE  /\ Input \in Session /\ Input.hash = session.hash /\ Input.order = session.order
           /\ Input.bstat = session.bstat /\ Input.ostat = None
BY Typed DEF Input, Session, IInv

LEMMA ChatReadKeeps ==
    ASSUME IInv, NEW t \in Chat, ChatRead(t)
    PROVE  IInv' /\ (Agreement => Agreement' /\ HashStays)
<1>1. t \in Handler /\ t \notin Post /\ t \notin Poll /\ t \notin fresh
  BY ChatBasics
<1>2. /\ UNCHANGED <<session, fresh, chain, tx, cp, erased, outcome, lock, seen, faults>>
      /\ snap' = [snap EXCEPT ![t] = Input] /\ pc' = [pc EXCEPT ![t] = "locking"]
  BY DEF ChatRead, Goto, world
<1>3. TypeOK'
  BY <1>1, <1>2, InputIs DEF IInv, TypeOK
<1>4. OutcomeGrows /\ FrameOf(t)
  BY <1>1, <1>2, SameOutcome DEF FrameOf, IInv, TypeOK
<1>5. snap'[t] = Input /\ pc'[t] = "locking"
  BY <1>1, <1>2 DEF IInv, TypeOK
<1>6. PICK s \in Session : /\ s = Input /\ s.hash = session.hash /\ s.order = session.order
                           /\ s.bstat = session.bstat /\ s.ostat \notin Final
  BY InputIs, BroadcastAssumption
<1>7. Own(t)'
  <2>1. Grounded(s)
    BY <1>6 DEF IInv, Kept, Grounded
  <2>2. Grounded(snap[t])'
    BY <1>2, <1>5, <1>6, <2>1 DEF Grounded, Tells
  <2>3. Snapshot(t)'
    BY <1>1, <1>2, <1>5, <1>6, <2>2 DEF Snapshot
  <2>4. ChatKept(t)'
    BY <1>1, <1>2, <1>5 DEF ChatKept
  <2> QED BY <1>1, <2>3, <2>4 DEF Own
<1>8. IInv'
  BY <1>2, <1>3, <1>4, <1>7, QuietGrounds, StepKeeps
<1>9. ASSUME Agreement PROVE Agreement' /\ HashStays
  <2>1. Sound(s)
    BY <1>6, <1>9 DEF Agreement, Sound
  <2>2. Sound(snap[t])' /\ snap'[t].hash \in {None, session'.hash}
    BY <1>2, <1>5, <1>6, <2>1 DEF Sound
  <2>3. Agrees(t)'
    BY <1>1, <1>5, <2>2 DEF Agrees
  <2> QED BY <1>2, <1>4, <1>9, <2>3, QuietAgrees
<1> QED BY <1>8, <1>9

\* The checkpoint with a snapshot merged into it.
LEMMA EnteredIs ==
    ASSUME NEW c \in Checkpoint, NEW s \in Session
    PROVE  /\ Entered(c, s) \in Checkpoint
           /\ Grounded(c) /\ Grounded(s) => Grounded(Entered(c, s))
           /\ s.hash # None => Entered(c, s).hash = s.hash
           /\ Sound(c) /\ Sound(s) /\ (c.hash = None \/ s.hash = None \/ c.hash = s.hash)
              => /\ Sound(Entered(c, s))
                 /\ Entered(c, s).hash \in {c.hash, s.hash}
<1> DEFINE r == Entered(c, s)
<1>1. /\ r.hash = IF s.hash # None \/ s.order # None THEN s.hash ELSE c.hash
      /\ r.bstat = IF s.hash # None THEN s.bstat ELSE c.bstat
      /\ r.order = IF s.order # None THEN s.order ELSE c.order
      /\ r.ostat = IF s.hash # None \/ s.order # None THEN None ELSE c.ostat
      /\ r.pending = (s.order = None /\ (s.pending \/ c.pending))
      /\ r = [hash |-> r.hash, bstat |-> r.bstat, order |-> r.order, ostat |-> r.ostat,
              pending |-> r.pending]
  BY DEF Entered
<1>2. /\ c.hash \in Hash \cup {None} /\ s.hash \in Hash \cup {None}
      /\ c.order \in Hash \cup {None} /\ s.order \in Hash \cup {None}
      /\ c.bstat \in {None, NotVisible, "broadcast_pending", "source_confirmed", "confirmed"}
      /\ s.bstat \in {None, NotVisible, "broadcast_pending", "source_confirmed", "confirmed"}
      /\ c.ostat \in {None, "processing"} \cup Final /\ c.pending \in BOOLEAN /\ s.pending \in BOOLEAN
  BY DEF Checkpoint, Session
<1>3. r \in Checkpoint
  <2>1. /\ r.hash \in Hash \cup {None} /\ r.order \in Hash \cup {None}
        /\ r.bstat \in {None, NotVisible, "broadcast_pending", "source_confirmed", "confirmed"}
        /\ r.ostat \in {None, "processing"} \cup Final
    BY <1>1, <1>2
  <2>2. r.pending \in BOOLEAN
    BY <1>1
  <2> QED BY <1>1, <2>1, <2>2 DEF Checkpoint
<1>4. None \notin Final
  BY BroadcastAssumption
<1> HIDE DEF r
<1>5. Grounded(c) /\ Grounded(s) => Grounded(r)
  BY <1>1, <1>4 DEF Grounded
<1>6. Sound(c) /\ Sound(s) /\ (c.hash = None \/ s.hash = None \/ c.hash = s.hash)
      => Sound(r) /\ r.hash \in {c.hash, s.hash}
  BY <1>1, <1>4 DEF Sound
<1> QED BY <1>1, <1>3, <1>5, <1>6 DEF r

LEMMA ChatEnterKeeps ==
    ASSUME IInv, NEW t \in Chat, ChatEnter(t)
    PROVE  IInv' /\ (Agreement => Agreement' /\ HashStays)
<1>1. /\ t \in Handler /\ t \notin Post /\ t \notin Poll /\ t \notin fresh /\ None \notin Handler
      /\ pc[t] = "locking" /\ Holds(t)
  BY ChatBasics, BroadcastAssumption DEF ChatEnter, Stay
<1>2. /\ UNCHANGED <<session, fresh, chain, tx, outcome, snap, seen, faults, erased>>
      /\ lock = None /\ lock' = t /\ cp' = Entered(cp, snap[t])
      /\ pc' = [pc EXCEPT ![t] = "running"]
  BY DEF ChatEnter, Goto
<1>3. PICK s \in Session : s = snap[t] /\ Grounded(s)
  BY <1>1, ChatBasics
<1>4. PICK c \in Checkpoint : c = cp /\ Grounded(c)
  BY Typed DEF IInv, Kept
<1>5. PICK r \in Checkpoint : /\ r = cp' /\ r = Entered(c, s) /\ Grounded(r)
                              /\ s.hash # None => r.hash # None
  BY <1>2, <1>3, <1>4, EnteredIs
<1>6. TypeOK'
  BY <1>1, <1>2, <1>5 DEF IInv, TypeOK
<1>7. OutcomeGrows /\ FrameOf(t)
  BY <1>1, <1>2, SameOutcome DEF FrameOf, IInv, TypeOK
<1>8. Grounded(session)' /\ Grounded(cp)'
  BY <1>2, <1>5, <1>7, QuietGrounds DEF Grounded, Tells
<1>9. pc'[t] = "running"
  BY <1>1, <1>2 DEF IInv, TypeOK
<1>10. Own(t)'
  <2>1. Snapshot(t)'
    BY <1>1, <1>2, <1>7, ChatSnapshotStays
  <2>2. ChatKept(t)'
    BY <1>1, <1>2, <1>3, <1>5, <1>9 DEF ChatKept
  <2> QED BY <1>1, <2>1, <2>2 DEF Own
<1>11. IInv'
  BY <1>6, <1>7, <1>8, <1>10, StepKeeps
<1>12. ASSUME Agreement PROVE Agreement' /\ HashStays
  <2>1. Sound(s) /\ s.hash \in {None, session.hash} /\ Sound(c) /\ c.hash \in {None, session.hash}
    BY <1>1, <1>3, <1>4, <1>12 DEF Agreement, Agrees
  <2>2. Sound(r) /\ r.hash \in {None, session.hash}
    BY <1>5, <2>1, EnteredIs
  <2>3. Sound(session)' /\ Sound(cp)' /\ cp'.hash \in {None, session'.hash} /\ HashStays
    BY <1>2, <1>5, <1>12, <2>2 DEF Agreement, Sound, HashStays
  <2>4. Agrees(t)'
    <3>1. Sound(snap[t])' /\ snap'[t].hash \in {None, session'.hash}
      BY <1>1, <1>2, <1>7, <1>12, ChatSnapshotStays
    <3> QED BY <1>1, <1>9, <3>1 DEF Agrees
  <2> QED BY <1>7, <1>12, <2>3, <2>4, StepAgrees
<1> QED BY <1>11, <1>12

\* A turn that has its answer: what it found agrees with the hash of the
\* checkpoint, if all did.
LEMMA ChatFoundKeeps ==
    ASSUME IInv, NEW t \in Chat, pc[t] = "running",
           pc' = [pc EXCEPT ![t] = "projecting"],
           UNCHANGED <<session, fresh, chain, tx, lock, snap, seen, erased>>,
           faults' \in 0 .. MaxFaults,
           OutcomeGrows, outcome' \in [Hash -> {None, "processing"} \cup Final],
           cp' \in Checkpoint, cp'.hash = cp.hash, Grounded(cp)', Agreement => Sound(cp)'
    PROVE  IInv' /\ (Agreement => Agreement' /\ HashStays)
<1>1. /\ t \in Handler /\ t \notin Post /\ t \notin Poll /\ t \notin fresh /\ None \notin Handler
      /\ ChatKept(t) /\ Holds(t)
  BY ChatBasics, BroadcastAssumption
<1>2. lock = t /\ (snap[t].hash # None => cp.hash # None)
  BY <1>1 DEF ChatKept
<1>3. TypeOK'
  BY <1>1 DEF IInv, TypeOK
<1>4. FrameOf(t)
  BY <1>1, <1>2 DEF FrameOf, IInv, TypeOK
<1>5. pc'[t] = "projecting"
  BY <1>1 DEF IInv, TypeOK
<1>6. Own(t)'
  <2>1. Snapshot(t)'
    BY <1>1, ChatSnapshotStays
  <2>2. ChatKept(t)'
    BY <1>1, <1>2, <1>5 DEF ChatKept
  <2> QED BY <1>1, <2>1, <2>2 DEF Own
<1>7. IInv'
  BY <1>3, <1>4, <1>6, QuietGrounds, StepKeeps
<1>8. ASSUME Agreement PROVE Agreement' /\ HashStays
  <2>1. Sound(session)'
    <3>1. PICK s : s = session /\ Sound(s) /\ s.hash \in Hash \cup {None}
      BY <1>8, Typed DEF Agreement, IInv
    <3>2. Sound(s)'
      BY <3>1, SoundStays
    <3> QED BY <3>1, <3>2 DEF Sound
  <2>2. cp'.hash \in {None, session'.hash} /\ HashStays
    BY <1>8 DEF Agreement, HashStays
  <2>3. Agrees(t)'
    <3>1. Sound(snap[t])' /\ snap'[t].hash \in {None, session'.hash}
      BY <1>1, <1>8, ChatSnapshotStays
    <3> QED BY <1>1, <1>5, <3>1 DEF Agrees
  <2> QED BY <1>4, <1>8, <2>1, <2>2, <2>3, StepAgrees
<1> QED BY <1>7, <1>8

LEMMA FindsIs ==
    ASSUME IInv, NEW h \in Hash, Finds(h), outcome'[h] \in {"processing"} \cup Final
    PROVE  /\ cp' \in Checkpoint /\ cp'.hash = cp.hash /\ cp'.order = h /\ cp'.ostat = outcome'[h]
           /\ cp'.bstat = IF outcome'[h] \in Final THEN "confirmed" ELSE cp.bstat
<1> DEFINE told == outcome'[h]
<1> DEFINE b == IF told \in Final THEN "confirmed" ELSE cp.bstat
<1>1. cp' = [cp EXCEPT !.order = h, !.ostat = told, !.pending = FALSE, !.bstat = b]
  BY DEF Finds
<1>2. cp \in Checkpoint
  BY Typed DEF IInv
<1>3. b \in {None, NotVisible, "broadcast_pending", "source_confirmed", "confirmed"}
  BY <1>2 DEF Checkpoint
<1>4. b = IF outcome'[h] \in Final THEN "confirmed" ELSE cp.bstat
  OBVIOUS
<1> HIDE DEF b
<1>5. /\ cp'.hash = cp.hash /\ cp'.order = h /\ cp'.ostat = outcome'[h] /\ cp'.bstat = b
      /\ cp' \in Checkpoint
  BY <1>1, <1>2, <1>3 DEF Checkpoint
<1> QED BY <1>4, <1>5

LEMMA ChatQueryKeeps ==
    ASSUME IInv, NEW t \in Chat, ChatQuery(t)
    PROVE  IInv' /\ (Agreement => Agreement' /\ HashStays)
<1>1. /\ pc[t] = "running" /\ pc' = [pc EXCEPT ![t] = "projecting"]
      /\ UNCHANGED <<session, fresh, chain, tx, lock, snap, seen, faults, erased>>
      /\ faults' \in 0 .. MaxFaults
  BY Typed DEF ChatQuery, Stay, Goto, IInv
<1>2. PICK h \in Hash :
         /\ h \in {cp.order, cp.hash} /\ h # None /\ Finds(h)
         /\ cp.order = None \/ h = cp.order
         /\ OutcomeGrows /\ outcome' \in [Hash -> {None, "processing"} \cup Final]
         /\ outcome'[h] \in {"processing"} \cup Final
  <2>1. CASE cp.order # None /\ UNCHANGED outcome /\ Finds(cp.order)
    <3>1. cp.order \in Hash /\ outcome[cp.order] # None
      BY <2>1, Typed DEF IInv, Kept, Grounded
    <3>2. outcome' \in [Hash -> {None, "processing"} \cup Final]
      BY <2>1 DEF IInv, TypeOK
    <3> QED BY <2>1, <3>1, <3>2, SameOutcome
  <2>2. CASE Recoverable /\ outcome' = Registered(cp.hash) /\ Finds(cp.hash)
    <3>1. cp.hash \in Hash /\ cp.hash # None /\ cp.order = None
      BY <2>2, Typed DEF Recoverable, IInv
    <3>2. PICK h \in Hash : h = cp.hash
      BY <3>1
    <3>3. /\ OutcomeGrows /\ outcome' \in [Hash -> {None, "processing"} \cup Final]
          /\ outcome'[h] # None
      BY <2>2, <3>2, RegisteringGrows DEF IInv
    <3> QED BY <2>2, <3>1, <3>2, <3>3
  <2> QED BY <2>1, <2>2 DEF ChatQuery
<1>3. /\ cp' \in Checkpoint /\ cp'.hash = cp.hash /\ cp'.order = h /\ cp'.ostat = outcome'[h]
      /\ cp'.bstat = IF outcome'[h] \in Final THEN "confirmed" ELSE cp.bstat
  BY <1>2, FindsIs
<1>4. PICK k \in Checkpoint : k = cp /\ Grounded(k)
  BY Typed DEF IInv, Kept
<1>5. Grounded(k)'
  BY <1>2, <1>4, GroundedStays DEF Checkpoint
<1>6. Grounded(cp)'
  <2>1. PICK told \in {"processing"} \cup Final : told = outcome'[h]
    BY <1>2
  <2>2. \E g \in Hash : outcome'[g] = told
    BY <2>1
  <2>3. cp.bstat = "confirmed" => \E v \in Final : \E g \in Hash : outcome'[g] = v
    BY <1>4, <1>5 DEF Grounded, Tells
  <2>4. cp'.bstat = "confirmed" => \E v \in Final : \E g \in Hash : outcome'[g] = v
    BY <1>3, <2>1, <2>2, <2>3
  <2>5. cp'.order # None => outcome'[cp'.order] # None
    BY <1>2, <1>3, BroadcastAssumption
  <2>6. cp'.ostat \in Final => \E g \in Hash : outcome'[g] = cp'.ostat
    BY <1>3, <2>1, <2>2
  <2> QED BY <2>4, <2>5, <2>6 DEF Grounded, Tells
<1>7. Agreement => Sound(cp)'
  <2> SUFFICES ASSUME Agreement PROVE Sound(cp)'
    OBVIOUS
  <2>1. h = cp.hash /\ Sound(k)
    BY <1>2, <1>4 DEF Agreement, Sound
  <2>2. Sound(k)'
    BY <1>2, <1>4, <2>1, SoundStays DEF Checkpoint
  <2>3. cp.bstat = "confirmed" => outcome'[h] \in Final
    BY <1>4, <2>1, <2>2 DEF Sound
  <2> QED BY <1>2, <1>3, <2>1, <2>3 DEF Sound
<1> QED BY <1>1, <1>2, <1>3, <1>6, <1>7, ChatFoundKeeps

LEMMA ChatAnswerKeeps ==
    ASSUME IInv, NEW t \in Chat, ChatAnswer(t)
    PROVE  IInv' /\ (Agreement => Agreement' /\ HashStays)
<1>1. /\ pc[t] = "running" /\ pc' = [pc EXCEPT ![t] = "projecting"]
      /\ UNCHANGED <<session, fresh, chain, tx, lock, snap, seen, erased>>
      /\ faults' \in 0 .. MaxFaults
      /\ cp' = [cp EXCEPT !.pending = FALSE]
      /\ outcome' \in {outcome, Registered(cp.hash)}
  <2>1. faults \in 0 .. MaxFaults /\ MaxFaults \in Nat
    BY Typed DEF IInv
  <2> QED BY <2>1 DEF ChatAnswer, Stay, Goto, Fault
<1>2. OutcomeGrows /\ outcome' \in [Hash -> {None, "processing"} \cup Final]
  BY <1>1, RegisteringGrows DEF IInv
<1>3. /\ cp' \in Checkpoint /\ cp'.hash = cp.hash /\ cp'.order = cp.order
      /\ cp'.bstat = cp.bstat /\ cp'.ostat = cp.ostat
  BY <1>1, Typed DEF IInv, Checkpoint
<1>4. PICK k \in Checkpoint : k = cp /\ Grounded(k) /\ k.hash \in Hash \cup {None}
  BY Typed DEF IInv, Kept
<1>5. Grounded(k)'
  BY <1>2, <1>4, GroundedStays DEF Checkpoint
<1>6. Grounded(cp)'
  BY <1>3, <1>4, <1>5 DEF Grounded, Tells
<1>7. Agreement => Sound(cp)'
  <2>1. Agreement => Sound(k)'
    BY <1>2, <1>4, SoundStays DEF Agreement
  <2> QED BY <1>3, <1>4, <2>1 DEF Sound
<1> QED BY <1>1, <1>2, <1>3, <1>6, <1>7, ChatFoundKeeps

LEMMA ProjectionIs ==
    ASSUME IInv, NEW status \in {session.status, "active"}
    PROVE  LET r == Projection(status)
           IN  /\ r \in Session /\ r.hash = cp.hash /\ r.bstat = cp.bstat
               /\ r.order = IF cp.order # None THEN cp.order ELSE session.order
               /\ r.ostat = IF cp.ostat # None THEN cp.ostat ELSE session.ostat
<1> DEFINE order == IF cp.order # None THEN cp.order ELSE session.order
<1> DEFINE ostat == IF cp.ostat # None THEN cp.ostat ELSE session.ostat
<1>1. /\ status \in {"active", "cancelled", NotVisible}
      /\ cp.hash \in Hash \cup {None} /\ order \in Hash \cup {None}
      /\ cp.bstat \in {None, NotVisible, "broadcast_pending", "source_confirmed", "confirmed"}
      /\ ostat \in {None, "processing"} \cup Final
  BY Typed DEF IInv, Session, Checkpoint
<1>2. Projection(status) = [status |-> status, hash |-> cp.hash, bstat |-> cp.bstat,
                            order |-> order, ostat |-> ostat, pending |-> FALSE]
  BY DEF Projection
<1> QED BY <1>1, <1>2 DEF Session

LEMMA ChatProjectFacts ==
    ASSUME IInv, NEW t \in Chat, ChatProject(t)
    PROVE  /\ UNCHANGED <<outcome, chain, tx, cp, faults>> /\ pc[t] = "projecting"
           /\ fresh' = {} /\ lock = t /\ lock' = None /\ erased' = (erased \/ Erases(t))
           /\ pc' = [pc EXCEPT ![t] = "done"]
           /\ snap' = [snap EXCEPT ![t] = None] /\ seen' = [seen EXCEPT ![t] = None]
           /\ \E status \in {session.status, "active"} : session' = Projection(status)
BY DEF ChatProject, Save, Goto, Free, Forget, Stay

LEMMA ChatProjectKeeps ==
    ASSUME IInv, NEW t \in Chat, ChatProject(t)
    PROVE  /\ IInv'
           /\ Agreement /\ ~erased' => Agreement' /\ HashStays
<1>1. t \in Handler /\ ChatKept(t) /\ pc[t] = "projecting"
  BY ChatBasics, ChatProjectFacts
<1>2. PICK r \in Session :
         /\ r = session' /\ r.hash = cp.hash /\ r.bstat = cp.bstat
         /\ r.order = IF cp.order # None THEN cp.order ELSE session.order
         /\ r.ostat = IF cp.ostat # None THEN cp.ostat ELSE session.ostat
  <2>1. PICK status \in {session.status, "active"} : session' = Projection(status)
    BY ChatProjectFacts
  <2> QED BY <2>1, ProjectionIs
<1>3. TypeOK'
  <2>1. erased' \in BOOLEAN
    BY ChatProjectFacts DEF Erases
  <2>2. /\ session' \in Session /\ pc' \in [Handler ->
           {"new", "probing", "locking", "registering", "saving", "recovering", "saving_order",
            "asking", "saving_status", "running", "projecting", "answered", "conflict",
            "refused", "done"}]
        /\ snap' \in [Handler -> Session \cup {None}]
        /\ seen' \in [Handler -> {None, "processing", NotVisible, "broadcast_pending",
                                  "source_confirmed"} \cup Final]
    BY <1>1, <1>2, ChatProjectFacts DEF IInv, TypeOK
  <2> QED BY <2>1, <2>2, ChatProjectFacts DEF IInv, TypeOK
<1>4. OutcomeGrows /\ FrameOf(t)
  BY <1>1, ChatProjectFacts, SameOutcome DEF FrameOf, IInv, TypeOK
<1>5. Grounded(session)' /\ Grounded(cp)'
  <2>1. Grounded(r)
    BY <1>2 DEF IInv, Kept, Grounded
  <2> QED BY <1>2, <1>4, <2>1, ChatProjectFacts, QuietGrounds DEF Grounded, Tells
<1>6. Own(t)' /\ Agrees(t)'
  <2>1. pc'[t] = "done" /\ t \notin fresh'
    BY <1>1, ChatProjectFacts DEF IInv, TypeOK
  <2> QED BY <2>1, ChatEnded
<1>7. IInv'
  BY <1>3, <1>4, <1>5, <1>6, StepKeeps
<1>8. ASSUME Agreement, ~erased' PROVE Agreement' /\ HashStays
  <2>1. r.hash = session.hash
    <3>1. cp.hash \in {None, session.hash}
      BY <1>8 DEF Agreement
    <3>2. ~Erases(t)
      BY <1>8, ChatProjectFacts
    <3>3. snap[t].hash # None => cp.hash # None
      BY <1>1 DEF ChatKept
    <3> QED BY <1>2, <3>1, <3>2, <3>3 DEF Erases
  <2>2. Sound(r)
    BY <1>2, <1>8, <2>1 DEF Agreement, Sound
  <2>3. Sound(session)' /\ Sound(cp)' /\ cp'.hash \in {None, session'.hash} /\ HashStays
    BY <1>2, <1>8, <2>1, <2>2, ChatProjectFacts DEF Agreement, Sound, HashStays
  <2> QED BY <1>4, <1>6, <1>8, <2>3, StepAgrees
<1> QED BY <1>7, <1>8

LEMMA ChatFailsKeeps ==
    ASSUME IInv, NEW t \in Chat, ChatFails(t)
    PROVE  IInv' /\ (Agreement => Agreement' /\ HashStays)
<1>1. t \in Handler /\ t \notin fresh
  BY ChatBasics
<1>2. /\ UNCHANGED <<outcome, chain, tx, cp, erased>> /\ lock = t /\ lock' = None
      /\ faults' \in 0 .. MaxFaults
      /\ pc' = [pc EXCEPT ![t] = "done"]
      /\ snap' = [snap EXCEPT ![t] = None] /\ seen' = [seen EXCEPT ![t] = None]
      /\ \/ session' = [session EXCEPT !.status = "active"] /\ fresh' = {}
         \/ UNCHANGED <<session, fresh>>
  <2>1. faults \in 0 .. MaxFaults /\ MaxFaults \in Nat
    BY Typed DEF IInv
  <2> QED BY <2>1 DEF ChatFails, Fault, Save, Keep, Goto, Free, Forget, world
<1>3. /\ session' \in Session /\ Grounded(session') /\ session'.hash = session.hash
      /\ Agreement => Sound(session')
  BY <1>2, StatusIs, Typed DEF IInv, Kept, Agreement
<1>4. TypeOK'
  BY <1>1, <1>2, <1>3 DEF IInv, TypeOK
<1>5. OutcomeGrows /\ FrameOf(t)
  BY <1>1, <1>2, SameOutcome DEF FrameOf, IInv, TypeOK
<1>6. Grounded(session)' /\ Grounded(cp)'
  BY <1>2, <1>3, <1>5, QuietGrounds DEF Grounded, Tells
<1>7. Own(t)' /\ Agrees(t)'
  <2>1. pc'[t] = "done" /\ t \notin fresh'
    BY <1>1, <1>2 DEF IInv, TypeOK
  <2> QED BY <2>1, ChatEnded
<1>8. IInv'
  BY <1>4, <1>5, <1>6, <1>7, StepKeeps
<1>9. ASSUME Agreement PROVE Agreement' /\ HashStays
  <2>1. HashStays /\ Sound(session)' /\ Sound(cp)' /\ cp'.hash \in {None, session'.hash}
    BY <1>2, <1>3, <1>9 DEF HashStays, Agreement, Sound
  <2> QED BY <1>5, <1>7, <1>9, <2>1, StepAgrees
<1> QED BY <1>8, <1>9

-----------------------------------------------------------------------------
(* The invariants. *)

LEMMA InitKeeps == Init => IInv /\ Agreement
<1> SUFFICES ASSUME Init PROVE IInv /\ Agreement
  OBVIOUS
<1>1. None # "confirmed" /\ None \notin Final
  BY BroadcastAssumption
<1>2. session = Prepared /\ Prepared \in Session /\ cp = Unsigned /\ Unsigned \in Checkpoint
  BY DEF Init, Prepared, Session, Unsigned, Checkpoint
<1>3. TypeOK
  <2>1. erased \in BOOLEAN
    BY DEF Init
  <2>2. faults \in 0 .. MaxFaults
    BY BroadcastAssumption DEF Init
  <2>3. seen \in [Handler -> {None, "processing", NotVisible, "broadcast_pending",
                              "source_confirmed"} \cup Final]
    BY DEF Init
  <2>4. snap \in [Handler -> Session \cup {None}]
    BY DEF Init
  <2>5. /\ pc \in [Handler ->
             {"new", "probing", "locking", "registering", "saving", "recovering", "saving_order",
              "asking", "saving_status", "running", "projecting", "answered", "conflict",
              "refused", "done"}]
        /\ outcome \in [Hash -> {None, "processing"} \cup Final]
        /\ chain \in [Hash -> {"unconfirmed", "confirmed", "failed"}]
    BY DEF Init
  <2> QED BY <1>2, <2>1, <2>2, <2>3, <2>4, <2>5 DEF Init, TypeOK
<1>4. /\ Grounded(session) /\ Grounded(cp) /\ Sound(session) /\ Sound(cp)
      /\ cp.hash \in {None, session.hash}
  BY <1>1, <1>2 DEF Prepared, Unsigned, Grounded, Sound
<1>5. ASSUME NEW c \in Handler PROVE Own(c) /\ Agrees(c)
  <2>1. pc[c] = "new" /\ fresh = {}
    BY DEF Init
  <2> QED BY <2>1 DEF Own, Agrees, Snapshot, Holds, PostKept, PollKept, ChatKept
<1> QED BY <1>3, <1>4, <1>5 DEF IInv, Kept, Agreement

LEMMA StutterKeeps ==
    ASSUME IInv, UNCHANGED vars PROVE IInv' /\ (Agreement => Agreement' /\ HashStays)
<1>1. TypeOK' /\ UNCHANGED <<session, cp, fresh, lock, tx, pc, snap, seen, outcome>>
  BY DEF vars, IInv, TypeOK
<1>2. FrameOf(None) /\ None \notin Handler
  BY <1>1, BroadcastAssumption DEF FrameOf
<1> QED BY <1>1, <1>2, SameOutcome, QuietGrounds, QuietAgrees, StepKeeps

LEMMA NextKeeps ==
    ASSUME IInv, [Next]_vars
    PROVE  /\ IInv'
           /\ Agreement /\ ~erased' => Agreement' /\ HashStays
<1>1. ASSUME NEW p \in Post, PostStep(p) PROVE IInv' /\ (Agreement => Agreement' /\ HashStays)
  <2>1. IInv'
    BY <1>1, PostCheckKeeps, PostProbeKeeps, PostEnterKeeps, PostRegisterKeeps, PostSaveKeeps
       DEF PostStep
  <2>2. Agreement => Agreement' /\ HashStays
    BY <1>1, PostCheckAgrees, PostProbeAgrees, PostEnterAgrees, PostRegisterAgrees, PostSaveAgrees
       DEF PostStep
  <2> QED BY <2>1, <2>2
<1>2. ASSUME NEW g \in Poll, PollStep(g) PROVE IInv' /\ (Agreement => Agreement' /\ HashStays)
  <2>1. IInv'
    BY <1>2, PollReadKeeps, PollRecoverKeeps, PollSaveOrderKeeps, PollAskKeeps,
       PollSaveStatusKeeps DEF PollStep
  <2>2. Agreement => Agreement' /\ HashStays
    BY <1>2, PollReadAgrees, PollRecoverAgrees, PollSaveOrderAgrees, PollAskAgrees,
       PollSaveStatusAgrees DEF PollStep
  <2> QED BY <2>1, <2>2
<1>3. ASSUME NEW t \in Chat, ChatStep(t)
      PROVE  IInv' /\ (Agreement /\ ~erased' => Agreement' /\ HashStays)
  BY <1>3, ChatReadKeeps, ChatEnterKeeps, ChatQueryKeeps, ChatAnswerKeeps, ChatProjectKeeps,
     ChatFailsKeeps DEF ChatStep
<1>4. CASE UNCHANGED vars
  BY <1>4, StutterKeeps
<1> QED BY <1>1, <1>2, <1>3, <1>4, CancelKeeps, WorldKeeps DEF Next

\* Only a projection changes the history, and only to TRUE.
LEMMA ErasedStays == erased /\ [Next]_vars => erased'
<1> SUFFICES ASSUME erased, [Next]_vars PROVE erased'
  OBVIOUS
<1>1. ASSUME NEW p \in Post, PostStep(p) PROVE erased'
  BY <1>1 DEF PostStep, PostCheck, PostProbe, PostEnter, PostRegister, PostSave, world
<1>2. ASSUME NEW g \in Poll, PollStep(g) PROVE erased'
  BY <1>2 DEF PollStep, PollRead, PollRecover, PollSaveOrder, PollAsk, PollSaveStatus, world
<1>3. ASSUME NEW t \in Chat, ChatStep(t) PROVE erased'
  BY <1>3 DEF ChatStep, ChatRead, ChatEnter, ChatQuery, ChatAnswer, ChatProject, ChatFails, world
<1> QED BY <1>1, <1>2, <1>3 DEF Next, CancelSwap, ChainStep, Settle, vars, world

LEMMA Inductive == Spec => [](IInv /\ (erased \/ Agreement))
<1>1. Init => IInv /\ (erased \/ Agreement)
  BY InitKeeps
<1>2. IInv /\ (erased \/ Agreement) /\ [Next]_vars => IInv' /\ (erased' \/ Agreement')
  BY NextKeeps, ErasedStays
<1> QED BY <1>1, <1>2, PTL DEF Spec

\* The record, the handlers' snapshots and the provider's orders keep their
\* types.
THEOREM TypeCorrect == Spec => []TypeOK
<1>1. IInv => TypeOK
  BY DEF IInv
<1> QED BY <1>1, Inductive, PTL

\* However POST, polls, turns and cancels interleave, an order on display is
\* registered with the provider, and until a turn erases the hash it belongs to
\* the hash on display.
THEOREM ShownOrderExists == Spec => []OrderIsRegistered
<1>1. IInv /\ (erased \/ Agreement) => OrderIsRegistered
  BY DEF IInv, Kept, Agreement, Grounded, Sound, OrderIsRegistered
<1> QED BY <1>1, Inductive, PTL

\* The first hash a session gets stays its hash, whatever an older snapshot or a
\* second POST says, unless a turn writes the None of the checkpoint over it.
THEOREM FirstHashIsKept == Spec => FirstHashWins
<1>1. IInv /\ (erased \/ Agreement) /\ [Next]_vars
      => [session.hash # None /\ ~erased' => session'.hash = session.hash]_vars
  BY NextKeeps, ErasedStays DEF HashStays
<1> QED BY <1>1, Inductive, PTL DEF Spec, FirstHashWins

\* No interleaving makes the answer of a POST wrong afterwards, before a hash is
\* erased: the hash it was answered about stays the session's, and a refused one
\* never becomes it.
THEOREM AnswersStand == Spec => []AnswerStands
<1>1. IInv /\ (erased \/ Agreement) => AnswerStands
  <2>1. ASSUME Agreement, NEW p \in Post
        PROVE  /\ pc[p] = "answered" => session.hash = tx[p]
               /\ pc[p] = "conflict" => session.hash \notin {tx[p], None}
    BY <2>1 DEF Agreement, Agrees, Handler
  <2> QED BY <2>1 DEF AnswerStands
<1> QED BY <1>1, Inductive, PTL

\* The source chain's receipt is never shown as completion: what is displayed as
\* confirmed or final is what the provider has settled, and until a turn erases
\* the hash it is so for the hash on display.
THEOREM CompletionIsSettled == Spec => []ConfirmedMeansSettled
<1>1. IInv /\ (erased \/ Agreement) => ConfirmedMeansSettled
  <2> SUFFICES ASSUME IInv, erased \/ Agreement PROVE ConfirmedMeansSettled
    OBVIOUS
  <2>1. Grounded(session) /\ (erased \/ Sound(session))
    BY DEF IInv, Kept, Agreement
  <2>2. session.ostat \in Final =>
           Tells(session.ostat) /\ (erased \/ session.ostat = outcome[session.hash])
    BY <2>1 DEF Grounded, Sound
  <2>3. session.bstat = "confirmed" =>
           (\E v \in Final : Tells(v)) /\ (erased \/ outcome[session.hash] \in Final)
    BY <2>1 DEF Grounded, Sound
  <2> QED BY <2>2, <2>3 DEF ConfirmedMeansSettled
<1> QED BY <1>1, Inductive, PTL

----------------------------------------------------------------------------
(* A poll asks the provider only about a swap that was not cancelled when  *)
(* it was read: an update that expects that revision undoes no cancel.     *)
Asked == \A g \in Poll : pc[g] \in {"asking", "saving_status"} => snap[g].status # "cancelled"

LEMMA OthersAsk ==
    ASSUME TypeOK, Asked, NEW c \in Handler \ Poll,
           \A b \in Handler : b # c => pc'[b] = pc[b] /\ snap'[b] = snap[b]
    PROVE  Asked'
BY BroadcastAssumption DEF Asked, Handler

LEMMA PollAsks ==
    ASSUME TypeOK, Asked, NEW g \in Poll, PollStep(g) PROVE Asked'
<1>1. g \in Handler /\ TypeOK
  BY DEF Handler
<1>2. \A b \in Handler : b # g => pc'[b] = pc[b] /\ snap'[b] = snap[b]
  BY <1>1 DEF TypeOK, PollStep, PollRead, PollRecover, PollSaveOrder, PollAsk, PollSaveStatus,
     PollGivesUp, PollEnds, Goto, Read, Forget
<1>3. pc'[g] \in {"asking", "saving_status"} => snap'[g].status # "cancelled"
  <2>1. CASE PollRead(g)
    BY <1>1, <2>1 DEF TypeOK, PollRead, Goto, Read, Asks
  <2>2. CASE PollRecover(g)
    BY <1>1, <2>2 DEF TypeOK, PollRecover, PollGivesUp, PollEnds, Goto
  <2>3. CASE PollSaveOrder(g)
    BY <1>1, <2>3 DEF TypeOK, PollSaveOrder, PollEnds, Goto, Asks
  <2>4. CASE PollAsk(g)
    BY <1>1, <2>4 DEF TypeOK, Asked, PollAsk, PollGivesUp, PollEnds, Goto, Stay
  <2>5. CASE PollSaveStatus(g)
    BY <1>1, <2>5 DEF TypeOK, PollSaveStatus, PollEnds, Goto
  <2> QED BY <2>1, <2>2, <2>3, <2>4, <2>5 DEF PollStep
<1> QED BY <1>2, <1>3 DEF Asked, Handler

LEMMA AskedKeeps == TypeOK /\ Asked /\ [Next]_vars => Asked'
<1> SUFFICES ASSUME TypeOK, Asked, [Next]_vars PROVE Asked'
  OBVIOUS
<1>1. ASSUME NEW p \in Post, PostStep(p) PROVE Asked'
  <2>1. p \in Handler \ Poll
    BY BroadcastAssumption DEF Handler
  <2>2. \A b \in Handler : b # p => pc'[b] = pc[b] /\ snap'[b] = snap[b]
    BY <1>1 DEF TypeOK, PostStep, PostCheck, PostProbe, PostEnter, PostRegister, PostSave,
       Goto, Read, Forget
  <2> QED BY <2>1, <2>2, OthersAsk
<1>2. ASSUME NEW t \in Chat, ChatStep(t) PROVE Asked'
  <2>1. t \in Handler \ Poll
    BY BroadcastAssumption DEF Handler
  <2>2. \A b \in Handler : b # t => pc'[b] = pc[b] /\ snap'[b] = snap[b]
    BY <1>2 DEF TypeOK, ChatStep, ChatRead, ChatEnter, ChatQuery, ChatAnswer, ChatProject,
       ChatFails, Goto, Forget
  <2> QED BY <2>1, <2>2, OthersAsk
<1>3. ASSUME NEW x \in Cancel, CancelSwap(x) PROVE Asked'
  <2>1. x \in Handler \ Poll
    BY BroadcastAssumption DEF Handler
  <2>2. \A b \in Handler : b # x => pc'[b] = pc[b] /\ snap'[b] = snap[b]
    BY <1>3 DEF TypeOK, CancelSwap, Goto
  <2> QED BY <2>1, <2>2, OthersAsk
<1>4. CASE UNCHANGED <<pc, snap>>
  BY <1>4 DEF Asked
<1> QED BY <1>1, <1>2, <1>3, <1>4, PollAsks DEF Next, ChainStep, Settle, vars

\* Only work under the lock of the conversation brings a cancelled swap back.
LEMMA CancelStays ==
    ASSUME IInv, Asked, [Next]_vars, session.status = "cancelled", session'.status # "cancelled"
    PROVE  lock # None
<1>0. session \in Session /\ None \notin Handler
  BY BroadcastAssumption DEF IInv, TypeOK
<1>1. ASSUME NEW p \in Post, PostStep(p) PROVE lock # None
  <2>1. PostSave(p)
    BY <1>1 DEF PostStep, PostCheck, PostProbe, PostEnter, PostRegister, Keep, Leave
  <2> QED BY <1>0, <2>1 DEF PostSave, Free, Handler
<1>2. ASSUME NEW t \in Chat, ChatStep(t) PROVE lock # None
  <2>1. ChatProject(t) \/ ChatFails(t)
    BY <1>2 DEF ChatStep, ChatRead, ChatEnter, ChatQuery, ChatAnswer
  <2> QED BY <1>0, <2>1 DEF ChatProject, ChatFails, Free, Handler
<1>3. ASSUME NEW g \in Poll, PollStep(g) PROVE FALSE
  <2>1. CASE PollSaveStatus(g)
    <3>1. g \in fresh /\ pc[g] = "saving_status"
      BY <2>1 DEF PollSaveStatus, Keep, Stay
    <3>2. snap[g] = session
      BY <3>1 DEF IInv, Kept, Own, Snapshot, Handler
    <3> QED BY <3>1, <3>2 DEF Asked
  <2>2. CASE PollSaveOrder(g)
    BY <1>0, <2>2 DEF PollSaveOrder, Session
  <2>3. CASE PollRead(g) \/ PollRecover(g) \/ PollAsk(g)
    BY <2>3 DEF PollRead, PollRecover, PollAsk, Keep, PollGivesUp, Leave
  <2> QED BY <1>3, <2>1, <2>2, <2>3 DEF PollStep
<1>4. ASSUME NEW x \in Cancel, CancelSwap(x) PROVE FALSE
  BY <1>0, <1>4 DEF CancelSwap, Save, Session
<1>5. CASE UNCHANGED session
  BY <1>5
<1> QED BY <1>1, <1>2, <1>3, <1>4, <1>5 DEF Next, ChainStep, Settle, vars

\* POST /v1/swap/{session_id}/cancel: however many polls had read the session
\* before, none of them undoes the cancellation.
THEOREM CancelWins == Spec => CancelSurvivesPoll
<1>1. Init => Asked
  BY DEF Init, Asked, Handler
<1>2. IInv /\ Asked /\ [Next]_vars => Asked'
  BY AskedKeeps DEF IInv
<1>3. IInv /\ Asked /\ [Next]_vars
      => [session.status = "cancelled" /\ session'.status # "cancelled" => lock # None]_vars
  BY CancelStays
<1> QED BY <1>1, <1>2, <1>3, Inductive, PTL DEF Spec, CancelSurvivesPoll

----------------------------------------------------------------------------
(* Until it is erased, a hash that was accepted for the card on display    *)
(* keeps the session closed; and a broadcast that will be saved read an    *)
(* open one.                                                               *)
Closed ==
    /\ tsession # None => {"card", "hash", "ready"} \subseteq DOMAIN tsession
    /\ tfresh \subseteq TransferPost
    /\ tfresh # {} => tsession # None /\ tsession.hash = None
    /\ ~erasedHash => /\ \E h : accepted \subseteq {h}
                      /\ tsession # None /\ accepted # {} => tsession.hash # None

LEMMA ProjectionKeepsHash ==
    ASSUME NEW s, {"card", "hash", "ready"} \subseteq DOMAIN s, NEW r
    PROVE  /\ {"card", "hash", "ready"} \subseteq DOMAIN T!Projected(s, r)
           /\ s.hash # None /\ r.cp.hash # None /\ r.kind # "transfer_prepare"
              => T!Projected(s, r).hash # None
<1> DEFINE hash == IF r.cp.hash = Absent THEN s.hash ELSE r.cp.hash
<1> DEFINE known == [s EXCEPT !.card = r.cp.card, !.hash = hash]
<1>1. /\ {"card", "hash", "ready"} \subseteq DOMAIN known
      /\ s.hash # None /\ r.cp.hash # None => known.hash # None
  BY DEF known
<1>2. T!Projected(s, r) =
        CASE r.kind = "transfer_prepare" -> [known EXCEPT !.hash = None, !.ready = TRUE]
          [] r.kind = "error" /\ ~r.active -> [known EXCEPT !.card = None, !.ready = FALSE]
          [] OTHER -> known
  BY DEF T!Projected
<1> HIDE DEF known
<1>3. CASE r.kind = "transfer_prepare"
  BY <1>1, <1>2, <1>3
<1>4. CASE r.kind = "error" /\ ~r.active
  BY <1>1, <1>2, <1>4
<1>5. CASE r.kind # "transfer_prepare" /\ ~(r.kind = "error" /\ ~r.active)
  BY <1>1, <1>2, <1>5
<1> QED BY <1>3, <1>4, <1>5

LEMMA ProjectKeepsClosed ==
    ASSUME Closed, NEW r, T!Project(r) PROVE Closed'
<1>1. CASE tsession = None
  BY <1>1 DEF Closed, T!Project
<1>2. CASE tsession # None
  <2>1. /\ tsession' = T!Projected(tsession, r) /\ tfresh' = {}
    BY <1>2 DEF T!Project, T!Save
  <2>2. /\ {"card", "hash", "ready"} \subseteq DOMAIN tsession'
        /\ tsession.hash # None /\ r.cp.hash # None /\ r.kind # "transfer_prepare"
           => tsession'.hash # None
    BY <1>2, <2>1, ProjectionKeepsHash DEF Closed
  <2>3. CASE r.kind = "transfer_prepare"
    <3>1. accepted' = {}
      BY <1>2, <2>3 DEF T!Project
    <3> QED BY <2>1, <2>2, <3>1 DEF Closed
  <2>4. CASE r.kind # "transfer_prepare"
    <3>1. /\ accepted' = accepted
          /\ ~erasedHash' => ~erasedHash /\ (tsession.hash = None \/ r.cp.hash # None)
      BY <1>2, <2>4 DEF T!Project
    <3> QED BY <1>2, <2>1, <2>2, <2>4, <3>1 DEF Closed
  <2> QED BY <2>3, <2>4
<1> QED BY <1>1, <1>2

LEMMA PostKeepsClosed ==
    ASSUME T!TransferAssumption, Closed, NEW p \in TransferPost, T!PostEnter(p) \/ T!PostSave(p)
    PROVE  Closed'
<1>1. CASE T!PostEnter(p)
  <2>1. UNCHANGED <<tsession, accepted, erasedHash>>
    BY <1>1 DEF T!PostEnter
  <2>2. \/ tfresh' = tfresh
        \/ tfresh' = tfresh \cup {p} /\ T!Verdict(tsession, Carries[p]) = "go"
    BY <1>1 DEF T!PostEnter
  <2>3. T!Verdict(tsession, Carries[p]) = "go" => tsession # None /\ tsession.hash = None
    BY DEF T!Verdict
  <2> QED BY <2>1, <2>2, <2>3 DEF Closed
<1>2. CASE T!PostSave(p)
  <2>1. CASE p \in tfresh
    <3>1. /\ tsession' = [tsession EXCEPT !.hash = Carries[p], !.ready = FALSE] /\ tfresh' = {}
          /\ accepted' = accepted \cup {Carries[p]} /\ erasedHash' = erasedHash
      BY <1>2, <2>1 DEF T!PostSave, T!Save
    <3>2. tsession # None /\ tsession.hash = None /\ (~erasedHash => accepted = {})
      BY <2>1 DEF Closed
    <3>3. Carries[p] # None
      BY DEF T!TransferAssumption
    <3>4. /\ {"card", "hash", "ready"} \subseteq DOMAIN tsession'
          /\ tsession'.hash = Carries[p] /\ (~erasedHash' => accepted' = {Carries[p]})
      BY <3>1, <3>2 DEF Closed
    <3> QED BY <3>1, <3>3, <3>4 DEF Closed
  <2>2. CASE p \notin tfresh
    BY <1>2, <2>2 DEF T!PostSave, Closed
  <2> QED BY <2>1, <2>2
<1> QED BY <1>1, <1>2

LEMMA StepKeepsClosed ==
    ASSUME T!TransferAssumption, Closed, [T!Next]_(T!vars) PROVE Closed'
<1>1. CASE UNCHANGED <<tsession, tfresh, accepted, erasedHash>>
  BY <1>1 DEF Closed
<1>2. ASSUME NEW p \in Prepare,
             T!PrepareCheck(p) \/ T!PrepareRun(p) \/ T!PrepareRead(p) \/ T!PrepareProject(p)
      PROVE  Closed'
  <2>1. CASE T!PrepareProject(p)
    <3>1. PICK r : r = tmem[p]
      OBVIOUS
    <3> QED BY <2>1, <3>1, ProjectKeepsClosed DEF T!PrepareProject
  <2> QED BY <1>1, <1>2, <2>1 DEF T!PrepareCheck, T!PrepareRun, T!PrepareRead
<1>3. ASSUME NEW c \in Talk, T!ChatRead(c) \/ T!ChatRun(c) \/ T!ChatProject(c) PROVE Closed'
  <2>1. CASE T!ChatProject(c)
    <3>1. PICK r : r = tmem[c]
      OBVIOUS
    <3> QED BY <2>1, <3>1, ProjectKeepsClosed DEF T!ChatProject
  <2> QED BY <1>1, <1>3, <2>1 DEF T!ChatRead, T!ChatRun
<1>4. ASSUME NEW p \in TransferPost, T!PostCheck(p) \/ T!PostEnter(p) \/ T!PostSave(p) PROVE Closed'
  BY <1>1, <1>4, PostKeepsClosed DEF T!PostCheck
<1>5. ASSUME NEW d \in Delete, T!DeleteSession(d) \/ T!DeleteThread(d) PROVE Closed'
  BY <1>1, <1>5 DEF T!DeleteSession, T!DeleteThread, Closed
<1>6. ASSUME NEW h \in T!Handler, T!Lost(h) PROVE Closed'
  BY <1>1, <1>6 DEF T!Lost
<1> QED BY <1>1, <1>2, <1>3, <1>4, <1>5, <1>6 DEF T!Next, T!vars

\* Of the hashes posted for one prepared transfer at most one is accepted, and
\* it stays accepted, whatever prepares, turns and deletions come between, unless
\* a projection writes the None of the checkpoint over it.
THEOREM OneHashPerCard ==
    ASSUME T!TransferAssumption
    PROVE  T!Spec => []T!OneBroadcastPerCard
<1>1. T!Init => Closed
  BY DEF T!Init, Closed
<1>2. Closed /\ [T!Next]_(T!vars) => Closed'
  BY StepKeepsClosed
<1>3. Closed => T!OneBroadcastPerCard
  <2> SUFFICES ASSUME Closed, ~erasedHash PROVE Cardinality(accepted) <= 1
    <3>1. T!Cardinality(accepted) = Cardinality(accepted)
      BY DEF T!Cardinality, Cardinality
    <3> QED BY <3>1 DEF Closed, T!OneBroadcastPerCard
  <2>1. PICK h : accepted \subseteq {h}
    BY DEF Closed
  <2>2. accepted = {} \/ accepted = {h}
    BY <2>1
  <2>3. Cardinality({}) = 0 /\ Cardinality({h}) = 1
    BY FS_EmptySet, FS_Singleton
  <2> QED BY <2>2, <2>3
<1> QED BY <1>1, <1>2, <1>3, PTL DEF T!Spec

\* docs/app-integration.md:291: a session of either kind never accepts two
\* broadcasts of one prepared transfer, unless the first was so erased.
THEOREM SessionsKeepOneHash ==
    ASSUME T!TransferAssumption
    PROVE  SessionsSpec => []OneBroadcastPerCard
<1>1. SessionsInit => T!Init
  BY DEF SessionsInit
<1>2. [SessionsNext]_allVars => [T!Next]_(T!vars)
  BY DEF SessionsNext, allVars, transferVars, T!vars
<1>3. T!Spec => []T!OneBroadcastPerCard
  BY OneHashPerCard
<1> QED BY <1>1, <1>2, <1>3, PTL DEF SessionsSpec, T!Spec, OneBroadcastPerCard
=============================================================================
