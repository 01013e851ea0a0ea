------------------------- MODULE ConversationLease -------------------------
(***************************************************************************)
(* The Redis lease that serializes the work on one conversation: SET NX PX *)
(* with a polling waiter, a renewal task per holder, a release that checks *)
(* the token.  A client is one lease object (one token, used once).  Time  *)
(* passes in ticks.  Timers of a client in `late` (a stalled event loop, a *)
(* slow Redis) fire any time later; those of the others on time.           *)
(***************************************************************************)
EXTENDS Integers

CONSTANTS
    Client,
    None,
    Lease,      \* PX of the key, in ticks (120 s)
    Period,     \* sleep of the renewal task (a third of the lease)
    Wait,       \* how long __aenter__ polls (30 s)
    MaxFaults   \* bound: Redis commands that raise

ASSUME LeaseAssumption ==
    /\ None \notin Client
    /\ {Lease, Period, Wait} \subseteq Nat \ {0}
    /\ Period < Lease
    /\ MaxFaults \in Nat

VARIABLES
    key,        \* the token stored under the lock's key
    ttl,        \* ticks until the key expires
    pc,         \* where each client stands
    renew,      \* its renewal task
    age,        \* ticks since its key was set or renewed, up to Period
    waited,     \* ticks it has polled, up to Wait
    late,       \* clients whose timers are late
    faults

vars == <<key, ttl, pc, renew, age, waited, late, faults>>
timing == <<late, faults>>

Outside == {"new", "waiting", "leaving", "exited", "raised", "dead"}

Init ==
    /\ key = None /\ ttl = 0
    /\ pc = [c \in Client |-> "new"]
    /\ renew = [c \in Client |-> "off"]
    /\ age = [c \in Client |-> 0]
    /\ waited = [c \in Client |-> 0]
    /\ late = {} /\ faults = 0

Move(c, from, to) == pc[c] = from /\ pc' = [pc EXCEPT ![c] = to]
SetRenew(c, r) == renew' = [renew EXCEPT ![c] = r]
ResetAge(c) == age' = [age EXCEPT ![c] = 0]
Free == key' = None /\ ttl' = 0
Own(c) == key' = c /\ ttl' = Lease
Fault == faults < MaxFaults /\ faults' = faults + 1 /\ UNCHANGED late

-----------------------------------------------------------------------------
(* __aenter__ *)

Start(c) ==
    /\ Move(c, "new", "waiting")
    /\ UNCHANGED <<key, ttl, renew, age, waited, timing>>

\* SET without NX.
Overwrite(c) ==
    /\ Move(c, "waiting", "inside")
    /\ Own(c)
    /\ SetRenew(c, "sleeping") /\ ResetAge(c)
    /\ UNCHANGED <<waited, timing>>

Acquire(c) ==
    /\ Move(c, "waiting", "inside")
    /\ key = None
    /\ Own(c)
    /\ SetRenew(c, "sleeping") /\ ResetAge(c)
    /\ UNCHANGED <<waited, timing>>

\* A deadline that is never passed.
PollForever(c) ==
    /\ Move(c, "waiting", "raised")
    /\ key # None /\ waited[c] > Wait
    /\ UNCHANGED <<key, ttl, renew, age, waited, timing>>

\* The deadline is looked at only after a failed attempt.
TimeOut(c) ==
    /\ Move(c, "waiting", "raised")
    /\ key # None /\ waited[c] >= Wait
    /\ UNCHANGED <<key, ttl, renew, age, waited, timing>>

\* SET raises: it may have been executed, and nothing releases or renews it.
AcquireFails(c) ==
    /\ Move(c, "waiting", "raised")
    /\ Fault
    /\ \/ UNCHANGED <<key, ttl>>
       \/ key = None /\ Own(c)
    /\ UNCHANGED <<renew, age, waited>>

-----------------------------------------------------------------------------
(* _renew *)

\* A renewal that checks the token and does not extend the expiry.
CheckOnly(c) ==
    /\ pc[c] = "inside" /\ renew[c] = "sleeping" /\ age[c] >= Period
    /\ IF key = c
       THEN ResetAge(c) /\ UNCHANGED <<renew, ttl>>
       ELSE SetRenew(c, "stopped") /\ UNCHANGED <<age, ttl>>
    /\ UNCHANGED <<key, pc, waited, timing>>

Renew(c) ==
    /\ pc[c] = "inside" /\ renew[c] = "sleeping" /\ age[c] >= Period
    /\ IF key = c
       THEN ttl' = Lease /\ ResetAge(c) /\ UNCHANGED renew
       ELSE SetRenew(c, "stopped") /\ UNCHANGED <<age, ttl>>
    /\ UNCHANGED <<key, pc, waited, timing>>

\* The command raises and ends the task; the body is not told.
RenewFails(c) ==
    /\ pc[c] = "inside" /\ renew[c] = "sleeping" /\ age[c] >= Period
    /\ Fault
    /\ SetRenew(c, "raised")
    /\ ttl' \in IF key = c THEN {ttl, Lease} ELSE {ttl}
    /\ UNCHANGED <<key, pc, age, waited>>

-----------------------------------------------------------------------------
(* __aexit__ *)

\* The renewal is cancelled and awaited: an exception it ended with is raised
\* here, before the release.
Leave(c) ==
    /\ Move(c, "inside", IF renew[c] = "raised" THEN "raised" ELSE "leaving")
    /\ SetRenew(c, "off") /\ ResetAge(c)
    /\ UNCHANGED <<key, ttl, waited, timing>>

\* DEL without comparing the token.
DeleteAny(c) ==
    /\ Move(c, "leaving", "exited")
    /\ Free
    /\ UNCHANGED <<renew, age, waited, timing>>

Release(c) ==
    /\ Move(c, "leaving", "exited")
    /\ IF key = c THEN Free ELSE UNCHANGED <<key, ttl>>
    /\ UNCHANGED <<renew, age, waited, timing>>

ReleaseFails(c) ==
    /\ Move(c, "leaving", "raised")
    /\ Fault
    /\ \/ UNCHANGED <<key, ttl>>
       \/ key = c /\ Free
    /\ UNCHANGED <<renew, age, waited>>

-----------------------------------------------------------------------------
(* The environment. *)

Alive(c) == pc[c] \in {"waiting", "inside", "leaving"}

Crash(c) ==
    /\ Alive(c)
    /\ pc' = [pc EXCEPT ![c] = "dead"]
    /\ SetRenew(c, "off") /\ ResetAge(c)
    /\ UNCHANGED <<key, ttl, waited, timing>>

Stall(c) ==
    /\ Alive(c) /\ c \notin late
    /\ late' = late \cup {c}
    /\ UNCHANGED <<key, ttl, pc, renew, age, waited, faults>>

Sleeping(c) == pc[c] = "inside" /\ renew[c] = "sleeping"

\* A clock that counts past the expiry; a key set without PX.
Underflow == ttl' = ttl - 1 /\ UNCHANGED key
NeverExpire == UNCHANGED <<key, ttl>>

\* The key is gone when its time to live is over.
CountDown ==
    IF ttl > 1 THEN ttl' = ttl - 1 /\ UNCHANGED key ELSE Free

Tick ==
    /\ \A c \in Client \ late :
          /\ Sleeping(c) => age[c] < Period
          /\ pc[c] = "waiting" => waited[c] < Wait
    /\ CountDown
    /\ age' = [c \in Client |->
                 IF Sleeping(c) /\ age[c] < Period THEN age[c] + 1 ELSE age[c]]
    /\ waited' = [c \in Client |->
                 IF pc[c] = "waiting" /\ waited[c] < Wait THEN waited[c] + 1 ELSE waited[c]]
    /\ UNCHANGED <<pc, renew, timing>>

Enter(c) == Acquire(c) \/ TimeOut(c)
Step(c) == Start(c) \/ Enter(c) \/ Renew(c) \/ Leave(c) \/ Release(c)
Failure(c) == AcquireFails(c) \/ RenewFails(c) \/ ReleaseFails(c) \/ Crash(c) \/ Stall(c)

Next == Tick \/ \E c \in Client : Step(c) \/ Failure(c)

Spec == Init /\ [][Next]_vars

\* Time passes, a waiter polls, a finished body releases.  A body may run for
\* ever.
FairSpec ==
    /\ Spec
    /\ WF_vars(Tick)
    /\ \A c \in Client : WF_vars(Enter(c)) /\ WF_vars(Renew(c)) /\ WF_vars(Release(c))

-----------------------------------------------------------------------------
(* Properties. *)

TypeOK ==
    /\ key \in Client \cup {None}
    /\ ttl \in 0 .. Lease
    /\ key = None <=> ttl = 0
    /\ pc \in [Client -> Outside \cup {"inside"}]
    /\ renew \in [Client -> {"off", "sleeping", "stopped", "raised"}]
    /\ age \in [Client -> 0 .. Period]
    /\ waited \in [Client -> 0 .. Wait]
    /\ late \subseteq Client
    /\ faults \in 0 .. MaxFaults

\* While a body runs, its renewal task is alive and its timers are on time, the
\* key is its own and has at least the lease minus the time since the last
\* renewal to live: healthy turns of a conversation never overlap, whatever the
\* other clients do.
HealthyOwns ==
    \A c \in Client \ late :
        Sleeping(c) => key = c /\ ttl + age[c] >= Lease

\* The key of a client leaves Redis by its expiry or by that client's own
\* release, and is never taken over while it lives.
KeyLeavesByOwner ==
    [][\A c \in Client :
         key = c /\ key' # c =>
             /\ key' = None
             /\ ttl <= 1 \/ (pc[c] = "leaving" /\ pc'[c] # "leaving")]_vars

Inside == {c \in Client : pc[c] = "inside"}
Lost == {c \in Inside : key # c}

Mutex == INSTANCE ConversationMutex WITH inside <- Inside, lost <- Lost

\* The lease keeps the promise of ConversationMutex.
KeepsMutex == Mutex!Spec

\* Every waiter enters or is told within its wait that it did not.
WaiterAnswered == \A c \in Client : pc[c] = "waiting" ~> pc[c] # "waiting"

\* The key of a client that is gone, however it went, does not stay.
KeyReclaimed ==
    \A c \in Client : pc[c] \in Outside /\ key = c ~> key # c

\* README.md:175-176: "a renewable Redis lease serializes turns for the same
\* conversation_id".
Serialized == \A c, d \in Inside : c = d
=============================================================================
