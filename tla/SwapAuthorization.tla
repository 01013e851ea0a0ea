------------------------- MODULE SwapAuthorization -------------------------
(***************************************************************************)
(* From a quote to a prepared swap: the endpoints select-quote, confirm,   *)
(* approve-broadcast, continue and cancel, and the chat turns, that drive  *)
(* one graph through its two interrupts and project it into one session.   *)
(*                                                                         *)
(* A request reads the session, runs the graph under the lock of the       *)
(* conversation, and projects the result: three steps.  What is done under *)
(* the lock is one step, which ConversationLease justifies while no lease  *)
(* is lost.  A chat turn projects under the lock, the endpoints after it.  *)
(*                                                                         *)
(* Status and stage of the session are one field, but for `closed`: the    *)
(* stage is "cancelled".  Values of the status that no handler reads and   *)
(* no property names are merged ("failed").  All quotes stay on offer, and *)
(* the approval transaction is that of the session's quote.  There is no   *)
(* broadcast here: SwapBroadcast starts where this module ends.            *)
(***************************************************************************)
EXTENDS Naturals

CONSTANTS
    None,
    Quote,       \* quotes on offer, named by provider reference
    Native,      \* those that sell a chain's native coin: no allowance
    Hash,        \* hashes of approval transactions
    Slot,        \* requests the App may have in flight at once
    MaxOps,      \* bound: requests other than /continue
    MaxFaults    \* bound: provider, preflight and chain calls that fail

VARIABLES
    g,          \* the checkpoint of the graph
    session,    \* the record of the session store
    allowed,    \* quotes whose spender has a sufficient allowance
    receipt,    \* the chain's receipt of each approval
    approves,   \* the quote the wallet signed each approval for
    verdict,    \* what the user last answered: a quote, "rejected" or None
    pc, req, snap, res,   \* per slot: step, request, session read, result
    used, faults

slots == <<pc, req, snap, res>>
chain == <<allowed, receipt, approves>>
vars == <<g, session, chain, verdict, slots, used, faults>>

Confirmation == {"none", "requested", "lapsed", "approved", "rejected",
                 "expired", "stale"}
Stage == {"approval_required", "approval_pending", "approval_failed",
          "swap_ready", "failed"}
Status == Stage \cup {"quoted", "awaiting_confirmation", "confirmed",
                      "confirmation_expired", "approval_submitted",
                      "quote_selection_required", "cancelled"}

ASSUME AuthorizationAssumption ==
    /\ Native \subseteq Quote
    /\ None \notin Quote \cup Hash \cup Status
    /\ "unanswered" \notin Hash \cup {None}
    /\ MaxOps \in Nat /\ MaxFaults \in Nat

\* conf is the confirmation of the quote `for`, "lapsed" a requested one past
\* its deadline.  intr is what the graph waits for, "pending" a node that
\* raised and asks nothing.  resp is what the projection tells apart in the response.
\* word: the last chat message kept in the checkpoint asks to cancel.
Graph ==
    [quote : Quote \cup {None}, conf : Confirmation, for : Quote \cup {None},
     intr : {"none", "confirmation", "approval", "pending"}, ahash : Hash \cup {None},
     pend : Quote \cup {None}, stage : Stage \cup {None}, closed : BOOLEAN,
     resp : {"card", "cancelled", "error", "choose"},
     reset : BOOLEAN, word : BOOLEAN]

Session ==
    [quote : Quote \cup {None}, pend : Quote \cup {None},
     ahash : Hash \cup {None}, status : Status, closed : BOOLEAN]

Kind == {"select", "approve", "reject", "continue", "chat"}

\* A conversation with quotes on offer and nothing selected.
Init ==
    /\ g = [quote |-> None, conf |-> "none", for |-> None, intr |-> "none",
            ahash |-> None, pend |-> None, stage |-> None, closed |-> FALSE,
            resp |-> "card", reset |-> FALSE, word |-> FALSE]
    /\ session = [quote |-> None, pend |-> None, ahash |-> None,
                  status |-> "quoted", closed |-> FALSE]
    /\ allowed = {}
    /\ receipt = [h \in Hash |-> None]
    /\ approves = [h \in Hash |-> None]
    /\ verdict = None
    /\ pc = [c \in Slot |-> "idle"]
    /\ req = [c \in Slot |-> None]
    /\ snap = [c \in Slot |-> None]
    /\ res = [c \in Slot |-> None]
    /\ used = 0
    /\ faults = 0

----------------------------------------------------------------------------
(* The nodes of the lifecycle graph, as functions of the checkpoint.  `how` *)
(* is how the calls of a node end, "done" or one of Fault.                  *)

Fault == {"provider_fails", "preflight_fails", "raises"}

Cleared(s) == [s EXCEPT !.conf = "none", !.for = None]

PrepareSwap(s, h, how) ==
    CASE how = "done" ->
           [s EXCEPT !.pend = s.quote, !.ahash = h, !.stage = "swap_ready",
                     !.resp = "card", !.intr = "none"]
      [] how = "provider_fails" ->
           [s EXCEPT !.stage = "failed", !.resp = "error", !.intr = "none"]
      [] OTHER ->
           [s EXCEPT !.resp = "error", !.intr = "none"]

\* A stage for which the allowance is not read again once the approval is mined.
ApprovalStageOnce(q, h) ==
    CASE receipt[h] = None -> "approval_pending"
      [] receipt[h] = "failed" -> "approval_failed"
      [] OTHER -> None

\* The stage a submitted approval is in, None when nothing more is needed.
ApprovalStage(q, h) ==
    CASE receipt[h] = None -> "approval_pending"
      [] receipt[h] = "failed" -> "approval_failed"
      [] receipt[h] = "ok" /\ q \notin allowed -> "approval_required"
      [] OTHER -> None

\* The approval part of swap_allowance, for a token.
SwapApproval(s, answer, how) ==
    LET asks == s.quote \notin allowed /\ s.ahash = None
        h == IF asks THEN answer ELSE s.ahash
    IN CASE asks /\ answer = "unanswered" ->
              [s EXCEPT !.intr = "approval"]
         [] asks /\ answer = None ->
              [s EXCEPT !.stage = "approval_required", !.resp = "card",
                        !.intr = "none"]
         [] h \in Hash /\ ApprovalStage(s.quote, h) # None ->
              [s EXCEPT !.stage = ApprovalStage(s.quote, h), !.ahash = h,
                        !.resp = "card", !.intr = "none"]
         [] OTHER -> PrepareSwap(s, h, how)

\* swap_allowance.  The answer is "unanswered" unless the node is resumed.  A
\* call that raises leaves the node pending; the API takes a pending
\* swap_allowance for an approval interrupt when the stage says so.
SwapAllowance(s, answer, how) ==
    CASE s.quote = None ->
           [s EXCEPT !.resp = "choose", !.intr = "none"]
      [] s.quote # None /\ how = "raises" ->
           [s EXCEPT !.intr = IF s.intr = "approval" \/ s.stage = "approval_required"
                              THEN "approval" ELSE "pending"]
      [] s.quote \in Native /\ how # "raises" ->
           PrepareSwap(s, s.ahash, how)
      [] OTHER -> SwapApproval(s, answer, how)

\* confirmation_request and confirmation_wait up to its interrupt.
RequestConfirmation(s, how) ==
    CASE s.conf = "approved" /\ s.for = s.quote ->
           SwapAllowance([s EXCEPT !.closed = FALSE, !.intr = "none"],
                         "unanswered", how)
      [] s.conf = "approved" /\ s.for # s.quote ->
           [s EXCEPT !.conf = "stale", !.resp = "error", !.closed = FALSE,
                     !.intr = "none"]
      [] OTHER ->
           [s EXCEPT !.conf = "requested", !.for = s.quote, !.resp = "card",
                     !.closed = FALSE, !.intr = "confirmation"]

\* confirmation_wait resumed with an answer of the wallet.
AnswerConfirmation(s, approved, how) ==
    CASE s.for # s.quote ->
           [s EXCEPT !.conf = "stale", !.resp = "error", !.closed = FALSE,
                     !.intr = "none"]
      [] s.for = s.quote /\ s.conf = "lapsed" ->
           [s EXCEPT !.conf = "expired", !.resp = "error", !.closed = FALSE,
                     !.intr = "none"]
      [] s.for = s.quote /\ s.conf # "lapsed" /\ approved ->
           SwapAllowance([s EXCEPT !.conf = "approved", !.closed = FALSE,
                                   !.intr = "none"], "unanswered", how)
      [] OTHER ->
           [s EXCEPT !.conf = "rejected", !.resp = "cancelled", !.closed = TRUE,
                     !.intr = "none"]

\* intent reads the last message before it looks at the forced intent.
CancelByWord(s) ==
    [Cleared(s) EXCEPT !.quote = None, !.pend = None, !.resp = "cancelled",
                       !.closed = TRUE, !.intr = "none"]

\* A selection that leaves what was prepared before.
GraphSelectKeepsPending(s, q) ==
    LET t == [Cleared(s) EXCEPT !.quote = q, !.ahash = None, !.stage = None]
    IN IF s.word THEN CancelByWord(t) ELSE RequestConfirmation(t, "done")

\* The input of select-quote.
GraphSelect(s, q) ==
    LET t == [Cleared(s) EXCEPT !.quote = q, !.pend = None, !.ahash = None,
                                !.stage = None]
    IN IF s.word THEN CancelByWord(t) ELSE RequestConfirmation(t, "done")

\* A forced allowance that a rejected confirmation does not stop; one where the
\* quote of the checkpoint is kept, which a chat turn has dropped.
GraphAllowanceRejected(s, q, h, how) ==
    LET t == [s EXCEPT !.quote = q, !.ahash = h, !.intr = "none"]
    IN IF s.word THEN CancelByWord(t) ELSE SwapAllowance(t, "unanswered", how)

GraphAllowanceOwnQuote(s, q, h, how) ==
    LET t == [s EXCEPT !.ahash = h, !.intr = "none"]
    IN CASE s.word -> CancelByWord(t)
         [] ~s.word /\ s.conf = "rejected" -> t
         [] OTHER -> SwapAllowance(t, "unanswered", how)

\* The input of continue without an interrupt: session's quote and hash.
GraphAllowance(s, q, h, how) ==
    LET t == [s EXCEPT !.quote = q, !.ahash = h, !.intr = "none"]
    IN CASE s.word -> CancelByWord(t)
         [] ~s.word /\ s.conf = "rejected" -> t
         [] OTHER -> SwapAllowance(t, "unanswered", how)

\* The input of a chat turn and the ReAct entry; finalize_response drops the
\* prepared transaction.
GraphTalk(s, h, word) ==
    [s EXCEPT !.quote = None, !.pend = None, !.resp = "card", !.reset = FALSE,
              !.intr = "none", !.word = word,
              !.ahash = IF h # None THEN h ELSE s.ahash]

\* The continuation of run_graph with a default quote: a fresh swap.
GraphPrepare(s, q, reset, how) ==
    LET t == [s EXCEPT !.quote = q, !.reset = reset]
    IN IF s.conf = "rejected" THEN t ELSE RequestConfirmation(t, how)

\* A chat message that answers a confirmation: confirmation_wait parses it anew.
GraphReparse(s, word) ==
    [Cleared(s) EXCEPT !.quote = None, !.pend = None, !.resp = "card",
                       !.intr = "none", !.word = word]

----------------------------------------------------------------------------
(* project_session: the record `old` after the checkpoint s.  A status None  *)
(* keeps the old one.                                                      *)
Project(old, s, status) ==
    LET base == IF s.reset THEN [old EXCEPT !.quote = None, !.ahash = None] ELSE old
    IN [quote |-> IF s.quote # None THEN s.quote ELSE base.quote,
        pend |-> IF s.resp \in {"error", "cancelled"} THEN None ELSE s.pend,
        ahash |-> CASE s.resp = "error" -> None
                    [] s.resp # "error" /\ s.ahash # None -> s.ahash
                    [] s.resp = "cancelled" /\ s.ahash = None -> None
                    [] OTHER -> base.ahash,
        status |-> CASE status # None -> status
                     [] status = None /\ s.resp = "cancelled" -> "cancelled"
                     [] OTHER -> old.status,
        closed |-> s.resp = "cancelled"
                   \/ (s.resp # "error" /\ s.stage = None /\ s.closed)]

----------------------------------------------------------------------------
(* Requests.                                                               *)

\* What is answered from the snapshot alone.
Answered(kind, s) ==
    \/ kind = "approve" /\ (s.ahash # None \/ s.pend # None)
    \/ kind = "continue" /\ (s.status = "cancelled" \/ s.closed)

Begin(c, kind, q) ==
    /\ pc[c] = "idle"
    /\ ~Answered(kind, session)
    /\ kind # "continue" => used < MaxOps
    /\ used' = IF kind = "continue" THEN used ELSE used + 1
    /\ pc' = [pc EXCEPT ![c] = kind]
    /\ req' = [req EXCEPT ![c] = q]
    /\ snap' = [snap EXCEPT ![c] = session]
    /\ UNCHANGED <<g, session, chain, verdict, res, faults>>

\* How the calls of swap_allowance end, if it runs; a failure costs one of
\* MaxFaults.
Calls(how, runs) ==
    /\ how # "done" => runs /\ faults < MaxFaults
    /\ faults' = IF how = "done" THEN faults ELSE faults + 1

Idle(c) ==
    /\ pc' = [pc EXCEPT ![c] = "idle"]
    /\ req' = [req EXCEPT ![c] = None]
    /\ snap' = [snap EXCEPT ![c] = None]
    /\ res' = [res EXCEPT ![c] = None]

\* The lock is released: the result is projected unless the graph raised.
Release(c, status, how) ==
    IF how = "raises"
    THEN Idle(c)
    ELSE /\ pc' = [pc EXCEPT ![c] = "projecting"]
         /\ res' = [res EXCEPT ![c] = [g |-> g', status |-> status]]
         /\ UNCHANGED <<req, snap>>

Select(c) ==
    /\ pc[c] = "select"
    /\ g' = GraphSelect(g, req[c])
    /\ verdict' = None
    /\ Release(c, "awaiting_confirmation", "done")
    /\ UNCHANGED <<session, chain, used, faults>>

\* The graph does not wait for a confirmation: 409 to an approval, no work for
\* a continue while it waits for one.
Refuse(c) ==
    /\ \/ pc[c] = "approve" /\ g.intr # "confirmation"
       \/ pc[c] = "continue" /\ g.intr = "confirmation"
       \/ pc[c] = "chat" /\ g.intr = "approval" /\ snap[c].ahash = None
    /\ Idle(c)
    /\ UNCHANGED <<g, session, chain, verdict, used, faults>>

\* A status of an approval without the default.
ApproveStatusStage == g'.stage

ApproveStatus ==
    CASE g'.stage # None -> g'.stage
      [] g'.stage = None /\ g'.conf = "expired" -> "confirmation_expired"
      [] OTHER -> "confirmed"

Approve(c) ==
    /\ pc[c] = "approve"
    /\ g.intr = "confirmation"
    /\ \E how \in Fault \cup {"done"} :
         /\ Calls(how, g.conf = "requested" /\ g.for = g.quote)
         /\ g' = AnswerConfirmation(g, TRUE, how)
         /\ IF how # "raises" /\ g'.intr = "approval"
            THEN Idle(c) /\ session' = Project(session, g', "approval_required")
            ELSE Release(c, ApproveStatus, how) /\ UNCHANGED session
    /\ verdict' = IF g'.conf = "approved" THEN g.for ELSE verdict
    /\ UNCHANGED <<chain, used>>

\* Resumes whatever the graph waits for.
Reject(c) ==
    /\ pc[c] = "reject"
    /\ \E how \in Fault \cup {"done"} :
         /\ Calls(how, g.intr \in {"approval", "pending"} /\ g.quote # None)
         /\ g' = CASE g.intr = "confirmation" -> AnswerConfirmation(g, FALSE, how)
                   [] g.intr \in {"approval", "pending"} -> SwapAllowance(g, None, how)
                   [] OTHER -> g
         /\ Release(c, "cancelled", how)
    /\ verdict' = IF g.intr = "confirmation" /\ g'.conf = "rejected"
                  THEN "rejected" ELSE verdict
    /\ UNCHANGED <<session, chain, used>>

ContinueStatus ==
    CASE g'.stage # None -> g'.stage
      [] g'.stage = None /\ g'.resp = "choose" -> "quote_selection_required"
      [] OTHER -> "swap_ready"

Continue(c) ==
    /\ pc[c] = "continue"
    /\ g.intr # "confirmation"
    /\ \E how \in Fault \cup {"done"} :
         /\ Calls(how, \/ g.intr = "approval"
                       \/ snap[c].quote # None /\ ~g.word /\ g.conf # "rejected")
         /\ g' = IF g.intr = "approval"
                 THEN SwapAllowance(g, snap[c].ahash, how)
                 ELSE GraphAllowance(g, snap[c].quote, snap[c].ahash, how)
         /\ Release(c, ContinueStatus, how)
    /\ UNCHANGED <<session, chain, verdict, used>>

\* The projection of an endpoint, after the lock.
Projection(c) ==
    /\ pc[c] = "projecting"
    /\ session' = Project(session, res[c].g, res[c].status)
    /\ IF req[c] = None
       THEN Idle(c)
       ELSE pc' = [pc EXCEPT ![c] = "finishing"] /\ UNCHANGED <<req, snap, res>>
    /\ UNCHANGED <<g, chain, verdict, used, faults>>

\* The update with which select-quote ends.
FinishSelect(c) ==
    /\ pc[c] = "finishing"
    /\ session' = [session EXCEPT !.pend = None, !.ahash = None,
                                  !.status = "awaiting_confirmation",
                                  !.closed = FALSE]
    /\ Idle(c)
    /\ UNCHANGED <<g, chain, verdict, used, faults>>

----------------------------------------------------------------------------
(* Chat turns: the graph and the projection under one lock.                *)

\* The end of run_graph, from the record `old`.
ChatEnds(c, old, status, how) ==
    /\ Idle(c)
    /\ session' =
         IF how = "raises"
         THEN [old EXCEPT !.status = "failed", !.closed = FALSE]
         ELSE Project(old, g', CASE g'.intr # "none" -> "awaiting_confirmation"
                                 [] g'.intr = "none" /\ g'.resp = "error" -> "failed"
                                 [] OTHER -> status)
    /\ UNCHANGED <<chain, used>>

\* Anything but a swap: the status says "quoted" while candidates are kept.
ChatTalk(c) ==
    /\ g.intr \in {"none", "pending"}
    /\ \E word \in BOOLEAN, status \in {"quoted", None} :
         /\ g' = GraphTalk(g, snap[c].ahash, word)
         /\ ChatEnds(c, session, status, "done")
    /\ UNCHANGED <<verdict, faults>>

\* A swap the agent quoted (fresh: the confirmation cycle starts anew) or, from
\* candidates it had, a repeated one (the confirmation is kept).
ChatSwap(c) ==
    /\ g.intr \in {"none", "pending"}
    /\ \E q \in Quote, fresh \in BOOLEAN, how \in Fault \cup {"done"} :
         LET talk == [GraphTalk(g, snap[c].ahash, FALSE) EXCEPT !.quote = q]
             quoted == IF fresh THEN Cleared(talk) ELSE talk
         IN /\ Calls(how, quoted.conf = "approved" /\ quoted.for = q)
            /\ g' = GraphPrepare(quoted, q, TRUE, how)
            /\ ChatEnds(c, Project(session, quoted, "quoted"), None, how)
            /\ verdict' = IF fresh \/ g'.conf = "requested" THEN None ELSE verdict

\* The turn answers a confirmation, in time or too late.
ChatReparse(c) ==
    /\ g.intr = "confirmation"
    /\ \/ /\ g.conf = "lapsed"
          /\ g' = AnswerConfirmation(g, TRUE, "done")
          /\ ChatEnds(c, session, None, "done")
       \/ /\ g.conf = "requested"
          /\ \E word \in BOOLEAN :
               \/ g' = GraphReparse(g, word)
               \/ word /\ g' = CancelByWord(GraphReparse(g, word))
          /\ ChatEnds(c, session, None, "done")
       \/ /\ g.conf = "requested"
          /\ \E q \in Quote, reset \in {g.reset, TRUE} :
               LET quoted == [GraphReparse(g, FALSE) EXCEPT !.quote = q]
               IN /\ g' = GraphPrepare(quoted, q, reset, "done")
                  /\ ChatEnds(c, Project(session, quoted, "quoted"), None, "done")
    /\ verdict' = IF g.conf = "lapsed" THEN verdict ELSE None
    /\ UNCHANGED faults

\* The turn resumes an approval, but its answer names the hash by another key.
ChatResume(c) ==
    /\ g.intr = "approval"
    /\ snap[c].ahash # None
    /\ \E how \in Fault \cup {"done"} :
         /\ Calls(how, TRUE)
         /\ g' = SwapAllowance(g, None, how)
         /\ ChatEnds(c, session, None, how)
    /\ UNCHANGED verdict

Chat(c) ==
    /\ pc[c] = "chat"
    /\ ChatTalk(c) \/ ChatSwap(c) \/ ChatReparse(c) \/ ChatResume(c)

----------------------------------------------------------------------------
(* Single steps: approve-broadcast under the lock, cancel, time, the chain. *)

\* The wallet signs the approval on display and the App submits its hash; a
\* retry submits it again.
ApproveBroadcast(h) ==
    /\ used < MaxOps
    /\ \/ /\ approves[h] = None
          /\ session.quote \in Quote \ Native
          /\ g.intr = "approval" \/ session.status = "approval_required"
          /\ approves' = [approves EXCEPT ![h] = session.quote]
       \/ approves[h] # None /\ UNCHANGED approves
    /\ session' =
         CASE session.ahash = None ->
                [session EXCEPT !.ahash = h, !.status = "approval_submitted",
                                !.closed = FALSE]
           [] session.ahash = h /\ session.status = "approval_required" ->
                [session EXCEPT !.status = "approval_submitted", !.closed = FALSE]
           [] OTHER -> session
    /\ used' = used + 1
    /\ UNCHANGED <<g, allowed, receipt, verdict, slots, faults>>

Cancel ==
    /\ used < MaxOps
    /\ session' = [session EXCEPT !.status = "cancelled"]
    /\ used' = used + 1
    /\ UNCHANGED <<g, chain, verdict, slots, faults>>

\* The deadline of a requested confirmation passes.
Expire ==
    /\ g.conf = "requested"
    /\ g' = [g EXCEPT !.conf = "lapsed"]
    /\ UNCHANGED <<session, chain, verdict, slots, used, faults>>

\* An approval is mined; one for too small an amount leaves the allowance short.
Mine(h) ==
    /\ approves[h] # None
    /\ receipt[h] = None
    /\ \E outcome \in {"ok", "failed"} :
         /\ receipt' = [receipt EXCEPT ![h] = outcome]
         /\ \/ outcome = "ok" /\ allowed' = allowed \cup {approves[h]}
            \/ UNCHANGED allowed
    /\ UNCHANGED <<g, session, approves, verdict, slots, used, faults>>

Work(c) ==
    \/ Select(c) \/ Refuse(c) \/ Approve(c) \/ Reject(c) \/ Continue(c)
    \/ Chat(c) \/ Projection(c) \/ FinishSelect(c)

Next ==
    \/ \E c \in Slot : \/ \E q \in Quote : Begin(c, "select", q)
                       \/ \E kind \in Kind \ {"select"} : Begin(c, kind, None)
                       \/ Work(c)
    \/ \E h \in Hash : ApproveBroadcast(h) \/ Mine(h)
    \/ Cancel \/ Expire

\* A request goes on once it is taken; the App calls /continue again and again.
Fairness ==
    \A c \in Slot : WF_vars(Work(c)) /\ WF_vars(Begin(c, "continue", None))

Spec == Init /\ [][Next]_vars /\ Fairness

----------------------------------------------------------------------------
(* Properties.                                                             *)

TypeOK ==
    /\ g \in Graph
    /\ session \in Session
    /\ allowed \subseteq Quote
    /\ receipt \in [Hash -> {None, "ok", "failed"}]
    /\ approves \in [Hash -> Quote \cup {None}]
    /\ verdict \in Quote \cup {None, "rejected"}
    /\ pc \in [Slot -> Kind \cup {"idle", "projecting", "finishing"}]
    /\ req \in [Slot -> Quote \cup {None}]
    /\ snap \in [Slot -> Session \cup {None}]
    /\ res \in [Slot -> [g : Graph, status : Status] \cup {None}]
    /\ used \in 0..MaxOps
    /\ faults \in 0..MaxFaults

\* A rejected confirmation is a boundary: while the graph remembers it, no
\* transaction of the quote is prepared and the graph asks for nothing, whatever
\* requests were in flight (route_after_intent).
RejectionHolds == g.conf = "rejected" => g.pend = None /\ g.intr = "none"

\* The transaction the App is asked to sign is that of the quote it shows.
PendingOfQuote == session.pend \in {None, session.quote}

\* A swap is prepared only once the allowance is there: swap_allowance reads it
\* again after the approval is mined (docs/evm-wallet-actions.md).
PreparedAllowed ==
    [][g'.pend \notin {None, g.pend} => g'.pend \in allowed \cup Native]_vars

\* The swap of a confirmed quote whose allowance is there ends up prepared, if
\* the App keeps calling /continue and does not give it up meanwhile.
Confirmed ==
    /\ session.quote # None /\ verdict = session.quote
    /\ session.quote \in allowed \cup Native
    /\ session.ahash # None => receipt[session.ahash] = "ok"
    /\ session.status # "cancelled" /\ ~session.closed /\ ~g.word

ReadyInTheEnd == Confirmed ~> (session.pend = session.quote \/ ~Confirmed)

Quiet == \A c \in Slot : pc[c] = "idle"

\* "Approve submission already advanced the confirmation step" (confirm, which
\* answers a session with an approval hash from the record alone): with no
\* request in flight, such a session has no confirmation waiting in its graph.
ApprovalPastConfirmation ==
    Quiet /\ session.ahash # None => g.intr # "confirmation"

\* "Every explicit selection starts a fresh confirmation cycle" (select_quote).
SelectionAsks ==
    [][\A c \in Slot : pc[c] = "finishing" /\ pc'[c] = "idle"
          => g.intr = "confirmation" /\ g.conf \in {"requested", "lapsed"}]_vars

\* A prepared transaction is that of a quote whose confirmation the user
\* approved.
PreparedConfirmed ==
    [][g'.pend \notin {None, g.pend} => verdict' = g'.pend]_vars
============================================================================
