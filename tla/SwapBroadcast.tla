--------------------------- MODULE SwapBroadcast ---------------------------
(***************************************************************************)
(* The life of a swap after its transaction was signed: POST broadcast and *)
(* chat turns work under the lock of the conversation, GET polls and       *)
(* cancel do not.  All of them share one session record, whose updates are *)
(* compare-and-set on its revision, and the swap provider.  The turns also *)
(* share the checkpoint of the conversation's graph: what the session said *)
(* when a turn read it is merged there, and the turn in the end writes the *)
(* checkpoint to the session.                                              *)
(*                                                                         *)
(* A read, a provider call and a write of a handler are separate steps.  A *)
(* revision is abstracted to what it is compared for: `fresh` holds the    *)
(* handlers that read the session after its last update.  The chain states *)
(* the observers tell apart but no handler does are merged: broadcast_seen *)
(* with broadcast_pending; unknown and dropped_or_replaced with            *)
(* not_propagated.  Likewise the session's status: the handlers look only  *)
(* for not_propagated and cancelled, all others are `active`.              *)
(***************************************************************************)
EXTENDS Naturals

CONSTANTS
    None,
    Hash,            \* transaction hashes
    Post,            \* POST broadcast requests, one hash each
    Submits,         \* the hashes they may carry: functions from Post to Hash
    Chat,            \* chat turns
    Poll,            \* GET pollers, each for ever
    Cancel,          \* POST cancel requests
    QuoteReference,  \* the provider takes the quote's reference (Bridgers) or
                     \* only that of the deposit order (OmniBridge)
    MaxFaults        \* bound: chain, provider and store calls that fail

Final == {"completed", "refunded"}
NotVisible == "not_propagated"
Handler == Post \cup Chat \cup Poll \cup Cancel

ASSUME BroadcastAssumption ==
    /\ None \notin Hash \cup Handler
    /\ \A word \in {"processing", "confirmed", NotVisible} \cup Final : None # word
    /\ Post \cap (Chat \cup Poll \cup Cancel) = {}
    /\ Chat \cap (Poll \cup Cancel) = {} /\ Poll \cap Cancel = {}
    /\ Submits \subseteq [Post -> Hash]
    /\ QuoteReference \in BOOLEAN
    /\ MaxFaults \in Nat

VARIABLES
    session,    \* the record of the session store
    fresh,      \* handlers whose snapshot has the current revision
    chain,      \* the source chain's view of each hash
    outcome,    \* the provider's order of each hash, None: not registered
    cp,         \* the checkpoint of the conversation
    lock,       \* the holder of the conversation
    tx,         \* the hash of each POST
    pc,
    snap,       \* the record a handler read last
    seen,       \* what the chain or the provider told it
    faults,
    erased      \* history: a turn that knew of no hash has erased a saved one

vars == <<session, fresh, chain, outcome, cp, lock, tx, pc, snap, seen, faults, erased>>
world == <<chain, tx, cp, erased>>

Session ==
    [status : {"active", "cancelled", NotVisible},
     hash : Hash \cup {None},
     bstat : {None, NotVisible, "broadcast_pending", "source_confirmed", "confirmed"},
     order : Hash \cup {None},
     ostat : {None, "processing"} \cup Final,
     pending : BOOLEAN]

Prepared ==
    [status |-> "active", hash |-> None, bstat |-> None, order |-> None,
     ostat |-> None, pending |-> TRUE]

\* The graph state a turn goes on with.  It has a hash and a broadcast status
\* from the start: the preparation of the swap writes a None for both.
Checkpoint ==
    [hash : Hash \cup {None},
     bstat : {None, NotVisible, "broadcast_pending", "source_confirmed", "confirmed"},
     order : Hash \cup {None},
     ostat : {None, "processing"} \cup Final,
     pending : BOOLEAN]

Unsigned == [hash |-> None, bstat |-> None, order |-> None, ostat |-> None, pending |-> TRUE]

Init ==
    /\ session = Prepared
    /\ fresh = {}
    /\ chain = [h \in Hash |-> "unconfirmed"]
    /\ outcome = [h \in Hash |-> None]
    /\ cp = Unsigned
    /\ lock = None
    /\ tx \in Submits
    /\ pc = [c \in Handler |-> "new"]
    /\ snap = [c \in Handler |-> None]
    /\ seen = [c \in Handler |-> None]
    /\ faults = 0
    /\ erased = FALSE

Stay(c, from) == pc[c] = from
Goto(c, to) == pc' = [pc EXCEPT ![c] = to]
Read(c) == snap' = [snap EXCEPT ![c] = session] /\ fresh' = fresh \cup {c}
Forget(c) == snap' = [snap EXCEPT ![c] = None] /\ seen' = [seen EXCEPT ![c] = None]
Leave(c) == UNCHANGED session /\ fresh' = fresh \ {c}
See(c, v) == seen' = [seen EXCEPT ![c] = v]
Save(s) == session' = s /\ fresh' = {}
Keep == UNCHANGED <<session, fresh>>
Free(c) == lock = c /\ lock' = None
Fault == faults < MaxFaults /\ faults' = faults + 1

\* register_broadcast: the reference is the prepared transaction's, else the
\* quote's.
Accepts(s) == s.pending \/ QuoteReference
Registered(h) == [outcome EXCEPT ![h] = IF @ = None THEN "processing" ELSE @]

-----------------------------------------------------------------------------
(* POST /v1/swap/{session_id}/broadcast *)

\* The check made before the probe and again under the lock.
Verdict(s, h) ==
    IF s.hash = None \/ (s.hash = h /\ s.status = NotVisible) THEN "go"
    ELSE IF s.hash = h THEN "answered" ELSE "conflict"

PostCheck(p) ==
    /\ Stay(p, "new")
    /\ LET v == Verdict(session, tx[p])
       IN  Goto(p, IF v = "go" THEN "probing" ELSE v)
    /\ UNCHANGED <<session, fresh, world, outcome, lock, snap, seen, faults>>

\* What is seen of a transaction: one that is not mined may be in the mempool or
\* nowhere, and on a chain without an observer every one counts as seen.
Observed(h) ==
    {"broadcast_pending"} \cup
    CASE chain[h] = "unconfirmed" -> {NotVisible}
      [] chain[h] = "confirmed" -> {"source_confirmed"}
      [] chain[h] = "failed" -> {}

\* An observer that fails leaves the hash not visible.
PostProbe(p) ==
    /\ Stay(p, "probing")
    /\ \/ /\ chain[tx[p]] = "failed"
          /\ Goto(p, "refused") /\ UNCHANGED <<seen, faults>>
       \/ /\ \E v \in Observed(tx[p]) : See(p, v)
          /\ Goto(p, "locking") /\ UNCHANGED faults
       \/ /\ Fault
          /\ See(p, NotVisible) /\ Goto(p, "locking")
    /\ UNCHANGED <<session, fresh, world, outcome, lock, snap>>

\* The lock without the second check.
EnterUnchecked(p) ==
    /\ Stay(p, "locking") /\ lock = None
    /\ lock' = p /\ Read(p)
    /\ Goto(p, IF seen[p] = NotVisible THEN "saving" ELSE "registering")
    /\ UNCHANGED <<session, world, outcome, seen, faults>>

PostEnter(p) ==
    /\ Stay(p, "locking") /\ lock = None
    /\ LET v == Verdict(session, tx[p])
       IN  IF v = "go"
           THEN /\ lock' = p /\ Read(p)
                /\ Goto(p, IF seen[p] = NotVisible THEN "saving" ELSE "registering")
                /\ UNCHANGED seen
           ELSE Goto(p, v) /\ Forget(p) /\ UNCHANGED <<lock, fresh>>
    /\ UNCHANGED <<session, world, outcome, faults>>

\* The order is taken as registered when the provider refused it.
RegisterAnyway(p) ==
    /\ Stay(p, "registering")
    /\ \/ outcome' = Registered(tx[p]) /\ UNCHANGED faults
       \/ Fault /\ UNCHANGED outcome
    /\ Goto(p, "saving")
    /\ UNCHANGED <<session, fresh, world, lock, snap, seen>>

\* A failing call may have reached the provider; the wallet is told to retry.
PostRegister(p) ==
    /\ Stay(p, "registering")
    /\ \/ /\ Accepts(snap[p])
          /\ outcome' = Registered(tx[p])
          /\ Goto(p, "saving")
          /\ Keep /\ UNCHANGED <<lock, snap, seen, faults>>
       \/ /\ \/ ~Accepts(snap[p]) /\ UNCHANGED <<outcome, faults>>
             \/ Fault /\ outcome' \in {outcome, Registered(tx[p])}
          /\ Goto(p, "refused") /\ Leave(p) /\ Free(p) /\ Forget(p)
    /\ UNCHANGED world

\* The receipt of the source chain taken for the swap's completion.
BroadcastConfirmed(s, h, b) ==
    [s EXCEPT !.status = "active", !.hash = h, !.order = h,
              !.bstat = IF b = "source_confirmed" THEN "confirmed" ELSE b]

\* What the update of POST writes.
Broadcast(s, h, b) ==
    IF b = NotVisible
    THEN [s EXCEPT !.status = b, !.hash = h, !.bstat = b, !.order = None]
    ELSE [s EXCEPT !.status = "active", !.hash = h, !.bstat = b, !.order = h]

PostSave(p) ==
    /\ Stay(p, "saving")
    /\ IF p \in fresh
       THEN Save(Broadcast(session, tx[p], seen[p])) /\ Goto(p, "answered")
       ELSE Leave(p) /\ Goto(p, "refused")
    /\ Free(p) /\ Forget(p)
    /\ UNCHANGED <<world, outcome, faults>>

-----------------------------------------------------------------------------
(* GET /v1/swap/{session_id} *)

Asks(s) == s.order # None /\ s.status # "cancelled" /\ s.ostat \notin Final
Recovers(s) == s.order = None /\ s.hash # None

\* A read that neither recovers nor asks changes nothing.
PollRead(g) ==
    /\ Stay(g, "new")
    /\ Recovers(session) \/ Asks(session)
    /\ Read(g)
    /\ Goto(g, IF Recovers(session) THEN "recovering" ELSE "asking")
    /\ UNCHANGED <<session, world, outcome, lock, seen, faults>>

PollEnds(g) == Goto(g, "new") /\ Forget(g)
PollGivesUp(g) == PollEnds(g) /\ Leave(g)

PollRecover(g) ==
    LET h == snap[g].hash IN
    /\ Stay(g, "recovering")
    /\ \/ /\ chain[h] = "confirmed" /\ Accepts(snap[g])
          /\ outcome' = Registered(h)
          /\ Goto(g, "saving_order")
          /\ Keep /\ UNCHANGED <<snap, seen, faults>>
       \/ /\ chain[h] # "confirmed" \/ ~Accepts(snap[g])
          /\ PollGivesUp(g)
          /\ UNCHANGED <<outcome, faults>>
       \/ /\ Fault
          /\ outcome' \in {outcome} \cup IF chain[h] = "confirmed" THEN {Registered(h)} ELSE {}
          /\ PollGivesUp(g)
    /\ UNCHANGED <<world, lock>>

\* On a conflict the winner's record is read instead.
PollSaveOrder(g) ==
    LET won == g \in fresh
        s == IF won THEN [session EXCEPT !.order = snap[g].hash] ELSE session
    IN
    /\ Stay(g, "saving_order")
    /\ session' = s
    /\ IF Asks(s)
       THEN /\ Goto(g, "asking") /\ snap' = [snap EXCEPT ![g] = s] /\ UNCHANGED seen
            /\ fresh' = IF won THEN {g} ELSE fresh \cup {g}
       ELSE PollEnds(g) /\ fresh' = IF won THEN {} ELSE fresh
    /\ UNCHANGED <<world, outcome, lock, faults>>

PollAsk(g) ==
    LET told == outcome[snap[g].order] IN
    /\ Stay(g, "asking")
    /\ \/ /\ told # snap[g].ostat
          /\ See(g, told) /\ Goto(g, "saving_status")
          /\ Keep /\ UNCHANGED <<snap, faults>>
       \/ told = snap[g].ostat /\ PollGivesUp(g) /\ UNCHANGED faults
       \/ Fault /\ PollGivesUp(g)
    /\ UNCHANGED <<world, outcome, lock>>

Told(s, v) ==
    [s EXCEPT !.ostat = v, !.status = "active", !.bstat = IF v = "completed" THEN "confirmed" ELSE @]

\* An update without the expected revision.
SaveBlindly(g) ==
    /\ Stay(g, "saving_status")
    /\ Save(Told(session, seen[g]))
    /\ PollEnds(g)
    /\ UNCHANGED <<world, outcome, lock, faults>>

\* Only the first answer of the provider is kept.
SaveOnce(g) ==
    /\ Stay(g, "saving_status")
    /\ IF g \in fresh /\ session.ostat = None THEN Save(Told(session, seen[g])) ELSE Keep
    /\ PollEnds(g)
    /\ UNCHANGED <<world, outcome, lock, faults>>

PollSaveStatus(g) ==
    /\ Stay(g, "saving_status")
    /\ IF g \in fresh THEN Save(Told(session, seen[g])) ELSE Keep
    /\ PollEnds(g)
    /\ UNCHANGED <<world, outcome, lock, faults>>

-----------------------------------------------------------------------------
(* POST /v1/swap/{session_id}/cancel *)

\* No revision is expected.  A cancel overtaken inside the store's own update
\* raises and writes nothing: it has not happened yet.
CancelSwap(x) ==
    /\ Stay(x, "new")
    /\ Save([session EXCEPT !.status = "cancelled"])
    /\ UNCHANGED <<world, outcome, lock, pc, snap, seen, faults>>

-----------------------------------------------------------------------------
(* POST /v1/agent/turn: the graph input is made from the session before the  *)
(* run takes the lock.                                                       *)

\* The status of the session and of its order are no part of the input.
Input == [session EXCEPT !.status = "active", !.ostat = None]

ChatRead(t) ==
    /\ Stay(t, "new")
    /\ snap' = [snap EXCEPT ![t] = Input]
    /\ Goto(t, "locking")
    /\ UNCHANGED <<session, fresh, world, outcome, lock, seen, faults>>

\* The hash of the session is left out of the input.
EnteredBare(c, s) ==
    [c EXCEPT !.order = IF s.order # None THEN s.order ELSE @, !.ostat = None]

\* The checkpoint c after the input made from session s: a hash and an order are
\* in the input only when the session has one, and an order brings the hash of
\* its session along.  Either resets the status found before.
Entered(c, s) ==
    [hash |-> IF s.hash # None \/ s.order # None THEN s.hash ELSE c.hash,
     bstat |-> IF s.hash # None THEN s.bstat ELSE c.bstat,
     order |-> IF s.order # None THEN s.order ELSE c.order,
     ostat |-> IF s.hash # None \/ s.order # None THEN None ELSE c.ostat,
     pending |-> s.order = None /\ (s.pending \/ c.pending)]

ChatEnter(t) ==
    /\ Stay(t, "locking") /\ lock = None
    /\ lock' = t
    /\ cp' = Entered(cp, snap[t])
    /\ Goto(t, "running")
    /\ UNCHANGED <<session, fresh, chain, tx, outcome, snap, seen, faults, erased>>

\* finalize_response, with the order h that query_swap_status has found: the
\* prepared transaction is dropped.
Finds(h) ==
    LET told == outcome'[h]
    IN  cp' = [cp EXCEPT !.order = h, !.ostat = told, !.pending = FALSE,
                        !.bstat = IF told \in Final THEN "confirmed" ELSE @]

\* A broadcast that was not visible is registered once the chain confirms it.
Recoverable ==
    /\ cp.order = None /\ cp.hash # None /\ cp.bstat = NotVisible
    /\ chain[cp.hash] = "confirmed" /\ Accepts(cp)

ChatQuery(t) ==
    /\ Stay(t, "running")
    /\ \/ cp.order # None /\ UNCHANGED outcome /\ Finds(cp.order)
       \/ Recoverable /\ outcome' = Registered(cp.hash) /\ Finds(cp.hash)
    /\ Goto(t, "projecting")
    /\ UNCHANGED <<session, fresh, chain, tx, lock, snap, seen, faults, erased>>

\* The model did not call the tool, or no order was found, or none whose status
\* the provider tells.
ChatAnswer(t) ==
    /\ Stay(t, "running")
    /\ \/ UNCHANGED <<outcome, faults>>
       \/ Recoverable /\ outcome' = Registered(cp.hash) /\ Fault
    /\ cp' = [cp EXCEPT !.pending = FALSE]
    /\ Goto(t, "projecting")
    /\ UNCHANGED <<session, fresh, chain, tx, lock, snap, seen, erased>>

\* What project_session writes: the hash and the broadcast status of the
\* checkpoint even when they are None, order and order status when it has one.
Projection(status) ==
    [status |-> status,
     hash |-> cp.hash,
     bstat |-> cp.bstat,
     order |-> IF cp.order # None THEN cp.order ELSE session.order,
     ostat |-> IF cp.ostat # None THEN cp.ostat ELSE session.ostat,
     pending |-> FALSE]

Erases(t) == snap[t].hash = None /\ cp.hash = None /\ session.hash # None

\* With quotes left in the graph state the session gets the status of the order,
\* or "quoted"; the update is made again on a conflict.
ChatProject(t) ==
    /\ Stay(t, "projecting")
    /\ \E status \in {session.status, "active"} : Save(Projection(status))
    /\ erased' = (erased \/ Erases(t))
    /\ Goto(t, "done")
    /\ Free(t) /\ Forget(t)
    /\ UNCHANGED <<chain, tx, outcome, cp, faults>>

\* The failure is written unless another update came between.
ChatFails(t) ==
    /\ pc[t] \in {"running", "projecting"}
    /\ Fault
    /\ Save([session EXCEPT !.status = "active"]) \/ Keep
    /\ Goto(t, "done")
    /\ Free(t) /\ Forget(t)
    /\ UNCHANGED <<world, outcome>>

-----------------------------------------------------------------------------
(* The chain and the provider. *)

ChainStep(h) ==
    /\ \E p \in Post : tx[p] = h
    /\ chain[h] = "unconfirmed"
    /\ \E v \in {"confirmed", "failed"} : chain' = [chain EXCEPT ![h] = v]
    /\ UNCHANGED <<session, fresh, outcome, cp, lock, tx, pc, snap, seen, faults, erased>>

Settle(h) ==
    /\ outcome[h] = "processing" /\ chain[h] = "confirmed"
    /\ \E v \in Final : outcome' = [outcome EXCEPT ![h] = v]
    /\ UNCHANGED <<session, fresh, world, lock, pc, snap, seen, faults>>

PostStep(p) == PostCheck(p) \/ PostProbe(p) \/ PostEnter(p) \/ PostRegister(p) \/ PostSave(p)
PollStep(g) ==
    PollRead(g) \/ PollRecover(g) \/ PollSaveOrder(g) \/ PollAsk(g) \/ PollSaveStatus(g)
ChatStep(t) ==
    ChatRead(t) \/ ChatEnter(t) \/ ChatQuery(t) \/ ChatAnswer(t) \/ ChatProject(t) \/ ChatFails(t)

Next ==
    \/ \E p \in Post : PostStep(p)
    \/ \E g \in Poll : PollStep(g)
    \/ \E t \in Chat : ChatStep(t)
    \/ \E x \in Cancel : CancelSwap(x)
    \/ \E h \in Hash : ChainStep(h) \/ Settle(h)

Spec == Init /\ [][Next]_vars

\* The client goes on polling and each poll is carried on; the provider settles
\* an order whose deposit is confirmed.  Nothing else has to happen.
FairSpec ==
    /\ Spec
    /\ \A g \in Poll : WF_vars(PollStep(g))
    /\ \A h \in Hash : WF_vars(Settle(h))

\* Every request that was started is carried on as well.
FullyFairSpec ==
    /\ FairSpec
    /\ \A p \in Post : WF_vars(PostStep(p))
    /\ \A t \in Chat : WF_vars(ChatStep(t))

-----------------------------------------------------------------------------
(* Properties. *)

TypeOK ==
    /\ session \in Session
    /\ fresh \subseteq Handler
    /\ chain \in [Hash -> {"unconfirmed", "confirmed", "failed"}]
    /\ outcome \in [Hash -> {None, "processing"} \cup Final]
    /\ cp \in Checkpoint
    /\ lock \in Post \cup Chat \cup {None}
    /\ tx \in Submits
    /\ pc \in [Handler ->
         {"new", "probing", "locking", "registering", "saving", "recovering", "saving_order",
          "asking", "saving_status", "running", "projecting", "answered", "conflict",
          "refused", "done"}]
    /\ snap \in [Handler -> Session \cup {None}]
    /\ seen \in [Handler -> {None, "processing", NotVisible, "broadcast_pending",
                             "source_confirmed"} \cup Final]
    /\ faults \in 0 .. MaxFaults
    /\ erased \in BOOLEAN

\* An order shown to the client is one the provider knows, whatever older record
\* a turn brings back; and until a turn has erased the hash it is the order of
\* the hash that the session shows.
OrderIsRegistered ==
    session.order # None =>
        /\ outcome[session.order] # None
        /\ erased \/ session.order = session.hash

\* The first hash that is saved stays: no POST, poll or cancel takes it away or
\* puts another in its place, and no turn that read it.  Only a turn that read
\* the session before a hash was saved, in a conversation whose checkpoint has
\* none, erases it.
FirstHashWins ==
    [][session.hash # None /\ ~erased' => session'.hash = session.hash]_vars

\* A POST that was answered without an error is about the hash of the session,
\* and one that was refused with a conflict is not, however long ago it read,
\* until a turn erases the hash.
AnswerStands ==
    \A p \in Post :
        /\ pc[p] = "answered" => session.hash = tx[p] \/ erased
        /\ pc[p] = "conflict" => session.hash \notin {tx[p], None} \/ erased

Tells(v) == \E h \in Hash : outcome[h] = v

\* The receipt of the source chain is never shown as the swap's completion: a
\* confirmed broadcast and a final order status come from an order that has
\* settled so, and until a turn has erased the hash from the order of that hash.
ConfirmedMeansSettled ==
    /\ session.bstat = "confirmed" =>
          /\ \E v \in Final : Tells(v)
          /\ erased \/ outcome[session.hash] \in Final
    /\ session.ostat \in Final =>
          /\ Tells(session.ostat)
          /\ erased \/ session.ostat = outcome[session.hash]

\* A poll that read the session before it was cancelled does not undo the
\* cancellation; only work under the lock of the conversation does.
CancelSurvivesPoll ==
    [][session.status = "cancelled" /\ session'.status # "cancelled" => lock # None]_vars

\* Whatever the races, a poller in the end shows the order's outcome for a hash
\* that is confirmed on chain, unless the swap was cancelled or a turn had erased
\* a hash: the order status of the first hash stays beside a second one.
StatusSettles ==
    \A h \in Hash :
        <>[](session.hash = h /\ chain[h] = "confirmed" /\ ~erased) =>
            <>[](\/ session.status = "cancelled"
                 \/ session.ostat \in Final /\ session.ostat = outcome[h])

\* app.py:803-805: "a passive GET can also self-heal a swap that was saved as
\* not_propagated at broadcast time but confirmed on-chain later."
SelfHeals ==
    \A h \in Hash :
        session.hash = h /\ session.order = None /\ chain[h] = "confirmed"
            ~> session.order = h

\* docs/mobile-integration.md:153-155: "Repeating an identical broadcast hash is
\* idempotent; a different hash for the same session is rejected."
OtherHashRejected ==
    \A p, q \in Post : pc[p] = "answered" /\ pc[q] = "answered" => tx[p] = tx[q]
=============================================================================
