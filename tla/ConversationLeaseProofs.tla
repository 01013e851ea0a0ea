---------------------- MODULE ConversationLeaseProofs ----------------------
(***************************************************************************)
(* Proofs about ConversationLease for any clients, lease, renewal period   *)
(* and wait, and about the mutex it implements.                            *)
(***************************************************************************)
EXTENDS ConversationLease, TLAPS

LEMMA InitType == Init => TypeOK
BY LeaseAssumption DEF Init, TypeOK, Outside

LEMMA CountDownType ==
    ASSUME TypeOK, CountDown
    PROVE  /\ key' \in {key, None} /\ ttl' \in 0 .. Lease
           /\ key' = None <=> ttl' = 0
           /\ key' = key => ttl' = ttl - 1 \/ ttl = 0
           /\ key' # key => ttl = 1
<1>1. Lease \in Nat /\ ttl \in Nat /\ ttl <= Lease /\ (key = None <=> ttl = 0)
  BY LeaseAssumption DEF TypeOK
<1>2. CASE ttl > 1
  BY <1>1, <1>2 DEF CountDown
<1>3. CASE ~(ttl > 1)
  BY <1>1, <1>3 DEF CountDown, Free
<1> QED BY <1>2, <1>3

LEMMA NextType ==
    ASSUME TypeOK, [Next]_vars PROVE TypeOK'
<1>1. /\ {Lease, Period, Wait} \subseteq Nat \ {0} /\ None \notin Client /\ MaxFaults \in Nat
  BY LeaseAssumption
<1> USE <1>1 DEF TypeOK, Outside, Move, SetRenew, ResetAge, Own, Free, Fault, timing
<1>2. ASSUME NEW c \in Client, Step(c) PROVE TypeOK'
  <2>1. CASE Start(c)
    BY <2>1 DEF Start
  <2>2. CASE Acquire(c)
    BY <2>2 DEF Acquire
  <2>3. CASE TimeOut(c)
    BY <2>3 DEF TimeOut
  <2>4. CASE Renew(c)
    <3>1. CASE key = c
      BY <2>4, <3>1 DEF Renew
    <3>2. CASE key # c
      BY <2>4, <3>2 DEF Renew
    <3> QED BY <3>1, <3>2
  <2>5. CASE Leave(c)
    BY <2>5 DEF Leave
  <2>6. CASE Release(c)
    BY <2>6 DEF Release
  <2> QED BY <1>2, <2>1, <2>2, <2>3, <2>4, <2>5, <2>6 DEF Step, Enter
<1>3. ASSUME NEW c \in Client, Failure(c) PROVE TypeOK'
  <2>1. CASE AcquireFails(c)
    BY <2>1 DEF AcquireFails
  <2>2. CASE RenewFails(c)
    <3>1. CASE key = c
      BY <2>2, <3>1 DEF RenewFails
    <3>2. CASE key # c
      BY <2>2, <3>2 DEF RenewFails
    <3> QED BY <3>1, <3>2
  <2>3. CASE ReleaseFails(c)
    BY <2>3 DEF ReleaseFails
  <2>4. CASE Crash(c)
    BY <2>4 DEF Crash
  <2>5. CASE Stall(c)
    BY <2>5 DEF Stall
  <2> QED BY <1>3, <2>1, <2>2, <2>3, <2>4, <2>5 DEF Failure
<1>4. CASE Tick
  <2>1. key' \in Client \cup {None} /\ ttl' \in 0 .. Lease /\ (key' = None <=> ttl' = 0)
    BY <1>4, CountDownType DEF Tick
  <2>2. age' \in [Client -> 0 .. Period]
    BY <1>4 DEF Tick
  <2>3. waited' \in [Client -> 0 .. Wait]
    BY <1>4 DEF Tick
  <2> QED BY <1>4, <2>1, <2>2, <2>3 DEF Tick
<1>5. CASE UNCHANGED vars
  BY <1>5 DEF vars
<1> QED BY <1>2, <1>3, <1>4, <1>5 DEF Next

\* Type correctness: the key and its time to live agree at all times.
THEOREM TypeCorrect == Spec => []TypeOK
<1> QED BY InitType, NextType, PTL DEF Spec

-----------------------------------------------------------------------------
(* A renewing holder owns the key. *)

IInv == TypeOK /\ HealthyOwns

LEMMA InitHealthy == Init => IInv
BY InitType DEF Init, IInv, HealthyOwns, Sleeping

LEMMA NextHealthy ==
    ASSUME IInv, [Next]_vars PROVE IInv'
<1>1. TypeOK /\ TypeOK'
  BY NextType DEF IInv
<1>2. /\ {Lease, Period, Wait} \subseteq Nat \ {0} /\ Period < Lease /\ None \notin Client
  BY LeaseAssumption
<1>3. HealthyOwns
  BY DEF IInv
<1> SUFFICES ASSUME NEW d \in Client \ late', Sleeping(d)'
             PROVE  key' = d /\ ttl' + age'[d] >= Lease
  BY <1>1 DEF IInv, HealthyOwns
<1> USE <1>1, <1>2, <1>3 DEF TypeOK, Outside, HealthyOwns, Sleeping, Move, SetRenew,
                             ResetAge, Own, Free, Fault, timing
<1>4. ASSUME NEW c \in Client, Step(c) PROVE key' = d /\ ttl' + age'[d] >= Lease
  <2>1. CASE Start(c)
    BY <2>1 DEF Start
  <2>2. CASE Acquire(c)
    BY <2>2 DEF Acquire
  <2>3. CASE TimeOut(c)
    BY <2>3 DEF TimeOut
  <2>4. CASE Renew(c)
    <3>1. CASE key = c
      BY <2>4, <3>1 DEF Renew
    <3>2. CASE key # c
      BY <2>4, <3>2 DEF Renew
    <3> QED BY <3>1, <3>2
  <2>5. CASE Leave(c)
    BY <2>5 DEF Leave
  <2>6. CASE Release(c)
    BY <2>6 DEF Release
  <2> QED BY <1>4, <2>1, <2>2, <2>3, <2>4, <2>5, <2>6 DEF Step, Enter
<1>5. ASSUME NEW c \in Client, Failure(c) PROVE key' = d /\ ttl' + age'[d] >= Lease
  <2>1. CASE AcquireFails(c)
    BY <2>1 DEF AcquireFails
  <2>2. CASE RenewFails(c)
    <3>1. c # d
      BY <2>2 DEF RenewFails
    <3> QED BY <2>2, <3>1 DEF RenewFails
  <2>3. CASE ReleaseFails(c)
    BY <2>3 DEF ReleaseFails
  <2>4. CASE Crash(c)
    BY <2>4 DEF Crash
  <2>5. CASE Stall(c)
    BY <2>5 DEF Stall
  <2> QED BY <1>5, <2>1, <2>2, <2>3, <2>4, <2>5 DEF Failure
<1>6. CASE Tick
  <2>1. d \in Client \ late /\ Sleeping(d) /\ age[d] < Period
    BY <1>6 DEF Tick
  <2>2. key = d /\ ttl + age[d] >= Lease /\ age'[d] = age[d] + 1
    BY <1>6, <2>1 DEF Tick
  <2>3. ttl > 1
    BY <2>1, <2>2
  <2>4. key' = key /\ ttl' = ttl - 1
    BY <1>6, <2>3 DEF Tick, CountDown
  <2> QED BY <2>1, <2>2, <2>4
<1>7. CASE UNCHANGED vars
  BY <1>7 DEF vars
<1> QED BY <1>4, <1>5, <1>6, <1>7 DEF Next

\* A holder whose renewal task is alive and on time owns the key, so the healthy
\* bodies of one conversation never overlap.
THEOREM HealthyHolderOwns == Spec => []HealthyOwns
<1>1. IInv => HealthyOwns
  BY DEF IInv
<1> QED BY <1>1, InitHealthy, NextHealthy, PTL DEF Spec

-----------------------------------------------------------------------------
(* The key is freed by its owner or by time, and taken only when free. *)

LEMMA NextKey ==
    ASSUME TypeOK, [Next]_vars, NEW c \in Client, key = c, key' # c
    PROVE  key' = None /\ (ttl <= 1 \/ (pc[c] = "leaving" /\ pc'[c] # "leaving"))
<1> USE DEF Move, Own, Free, Fault, TypeOK
<1>1. CASE Tick
  BY <1>1, CountDownType DEF Tick
<1>2. ASSUME NEW d \in Client, Release(d) \/ ReleaseFails(d)
      PROVE  key' = None /\ pc[c] = "leaving" /\ pc'[c] # "leaving"
  <2>1. c = d
    BY <1>2 DEF Release, ReleaseFails
  <2> QED BY <1>2, <2>1 DEF Release, ReleaseFails
<1>3. ASSUME NEW d \in Client,
             \/ Start(d) \/ Acquire(d) \/ TimeOut(d) \/ Renew(d) \/ Leave(d)
             \/ AcquireFails(d) \/ RenewFails(d) \/ Crash(d) \/ Stall(d)
      PROVE  FALSE
  BY <1>3, LeaseAssumption
  DEF Start, Acquire, TimeOut, Renew, Leave, AcquireFails, RenewFails, Crash, Stall
<1>4. CASE UNCHANGED vars
  BY <1>4 DEF vars
<1> QED BY <1>1, <1>2, <1>3, <1>4 DEF Next, Step, Enter, Failure

\* A key is never taken from a client that holds it, nor deleted by another one.
THEOREM KeyFreedByOwner == Spec => KeyLeavesByOwner
<1>1. TypeOK /\ [Next]_vars =>
        [\A c \in Client :
           key = c /\ key' # c =>
             /\ key' = None
             /\ ttl <= 1 \/ (pc[c] = "leaving" /\ pc'[c] # "leaving")]_vars
  BY NextKey
<1> QED BY <1>1, TypeCorrect, PTL DEF Spec, KeyLeavesByOwner

-----------------------------------------------------------------------------
(* The lease implements the mutex. *)

LEMMA InitMutex == Init => Mutex!Init
BY DEF Init, Mutex!Init, Inside, Lost

\* A step that moves nobody in or out and takes no key from a body inside.
LEMMA MutexStutter ==
    ASSUME \A c \in Client : pc'[c] = "inside" <=> pc[c] = "inside",
           \A c \in Inside : key' = c <=> key = c
    PROVE  UNCHANGED Mutex!vars
<1>1. Inside' = Inside
  BY DEF Inside
<1>2. Lost' = Lost
  BY <1>1 DEF Lost, Inside
<1> QED BY <1>1, <1>2 DEF Mutex!vars

LEMMA NextMutex ==
    ASSUME TypeOK, [Next]_vars PROVE [Mutex!Next]_(Mutex!vars)
<1> USE LeaseAssumption DEF TypeOK, Outside, Move, Own, Free, Fault
<1>1. ASSUME NEW c \in Client, Acquire(c) PROVE Mutex!Enter(c)
  <2>1. key = None /\ key' = c /\ pc[c] = "waiting" /\ pc' = [pc EXCEPT ![c] = "inside"]
    BY <1>1 DEF Acquire
  <2>2. c \notin Inside /\ Inside' = Inside \cup {c}
    BY <2>1 DEF Inside
  <2>3. Lost = Inside
    BY <2>1 DEF Lost, Inside
  <2>4. Lost' = Inside
    BY <2>1, <2>2 DEF Lost, Inside
  <2> QED BY <2>2, <2>3, <2>4 DEF Mutex!Enter
<1>2. ASSUME NEW c \in Client, Leave(c) \/ (Crash(c) /\ pc[c] = "inside")
      PROVE  Mutex!Leave(c)
  <2>1. /\ UNCHANGED key /\ pc[c] = "inside"
        /\ \E s \in Outside : pc' = [pc EXCEPT ![c] = s]
    BY <1>2 DEF Leave, Crash
  <2>2. c \in Inside /\ Inside' = Inside \ {c}
    BY <2>1 DEF Inside
  <2>3. Lost' = Lost \ {c}
    BY <2>1, <2>2 DEF Lost
  <2> QED BY <2>2, <2>3 DEF Mutex!Leave
<1>3. CASE Tick
  <2>1. key' = key \/ key' = None
    BY <1>3, CountDownType DEF Tick
  <2>2. Inside' = Inside
    BY <1>3 DEF Tick, Inside
  <2>3. CASE key' # key /\ key \in Inside
    <3>1. Lost' = Inside /\ Lost = Inside \ {key}
      BY <2>1, <2>2, <2>3 DEF Lost, Inside
    <3>2. Mutex!Lose(key)
      BY <2>2, <2>3, <3>1 DEF Mutex!Lose
    <3> QED BY <2>3, <3>2 DEF Mutex!Next, Inside
  <2>4. CASE key' = key \/ key \notin Inside
    <3>1. Lost' = Lost
      BY <2>1, <2>2, <2>4 DEF Lost, Inside
    <3> QED BY <2>2, <3>1 DEF Mutex!vars
  <2> QED BY <2>3, <2>4
<1>4. ASSUME NEW c \in Client,
             \/ Start(c) \/ TimeOut(c) \/ Renew(c) \/ Release(c) \/ AcquireFails(c)
             \/ RenewFails(c) \/ ReleaseFails(c) \/ (Crash(c) /\ pc[c] # "inside") \/ Stall(c)
      PROVE  UNCHANGED Mutex!vars
  <2>1. \A d \in Client : pc'[d] = "inside" <=> pc[d] = "inside"
    BY <1>4
    DEF Start, TimeOut, Renew, Release, AcquireFails, RenewFails, ReleaseFails, Crash, Stall
  <2>2. \A d \in Inside : key' = d <=> key = d
    BY <1>4
    DEF Inside, Start, TimeOut, Renew, Release, AcquireFails, RenewFails, ReleaseFails,
        Crash, Stall
  <2> QED BY <2>1, <2>2, MutexStutter
<1>5. CASE UNCHANGED vars
  BY <1>5 DEF vars, Mutex!vars, Inside, Lost
<1> QED
  BY <1>1, <1>2, <1>3, <1>4, <1>5 DEF Next, Step, Enter, Failure, Mutex!Next

\* The lease implements ConversationMutex: a client enters only when every body
\* still inside has lost the key.
THEOREM LeaseImplementsMutex == Spec => KeepsMutex
<1> QED BY InitMutex, NextMutex, TypeCorrect, PTL DEF Spec, Mutex!Spec, KeepsMutex
=============================================================================
