----------------------------- MODULE OrderStatus -----------------------------
(***************************************************************************)
(* Questions about a swap, answered by the nodes register_broadcast and    *)
(* status_poll of the lifecycle graph: what a turn copies from the session *)
(* into the checkpoint, what the nodes find out from the chain and the     *)
(* provider, and what is projected back.  Between the turns, and also      *)
(* during one, the App prepares and broadcasts, recovers and polls without *)
(* a turn (in detail: SwapBroadcast).                                      *)
(*                                                                         *)
(* A broadcast is visible at once and has its order, or it is invisible    *)
(* and has none.  An order is the one of the swap at hand; an order status *)
(* is what the provider said, or timed_out.                                *)
(***************************************************************************)
EXTENDS Naturals

CONSTANTS
    None,
    Keeps,         \* providers that need the reference of what was prepared
    Rebuilds,      \* the others
    MaxPolls,      \* runtime.max_poll_attempts
    MaxQuestions,  \* bound: questions
    MaxSwaps       \* bound: swaps

StatusAssumption ==
    /\ MaxPolls \in Nat \ {0} /\ MaxQuestions \in Nat /\ MaxSwaps \in Nat
    /\ Keeps \cap Rebuilds = {}
    /\ \A word \in {"completed", "confirmed", "timed_out"} : None # word

VARIABLES
    provider,
    source,     \* the transaction on the source chain
    exchange,   \* the order at the provider
    sess,       \* the session
    cp,         \* the checkpoint
    node,       \* the node that runs next, "idle" between questions
    said,       \* the status the turn shows
    questions, swaps,
    missed      \* history: questions that learned no status since an order was known

vars == <<provider, source, exchange, sess, cp, node, said, questions, swaps, missed>>

Settled == {"completed", "refunded"}
Terminal == Settled \cup {"timed_out"}
Visible == {"broadcast_seen", "source_confirmed", "confirmed"}

NoSwap == [pending |-> FALSE, sent |-> FALSE, bstatus |-> None, order |-> FALSE,
           status |-> None]

Init ==
    /\ provider \in Keeps \cup Rebuilds
    /\ source = "absent" /\ exchange = "none"
    /\ sess = NoSwap /\ cp = [swap |-> NoSwap, attempts |-> 0]
    /\ node = "idle" /\ said = None
    /\ questions = 0 /\ swaps = 0 /\ missed = 0

----------------------------------------------------------------------------
(* The chain, the provider, and the App without a turn.                     *)

SourceSeen == source = "absent" /\ sess.sent /\ source' = "seen"
SourceConfirmed == source = "seen" /\ source' = "confirmed"
Exchanged == exchange = "processing" /\ source = "confirmed" /\ exchange' \in Settled

World ==
    \/ (SourceSeen \/ SourceConfirmed) /\ UNCHANGED exchange
    \/ Exchanged /\ UNCHANGED source

\* A swap, prepared from the confirmation of its quote; what is left of the
\* one before is cleared, but not the attempts.
PrepareSwap ==
    /\ node = "idle" /\ swaps < MaxSwaps
    /\ ~sess.pending /\ (sess.sent => exchange \in Settled)
    /\ swaps' = swaps + 1
    /\ sess' = [NoSwap EXCEPT !.pending = TRUE]
    /\ cp' = [cp EXCEPT !.swap = sess']
    /\ source' = "absent" /\ exchange' = "none" /\ said' = None
    /\ UNCHANGED <<provider, node, questions, missed>>

\* POST broadcast, under the lock of the conversation.
Broadcast ==
    /\ node = "idle" /\ sess.pending /\ ~sess.sent
    /\ \/ /\ sess' = [sess EXCEPT !.sent = TRUE, !.bstatus = "not_propagated"]
          /\ UNCHANGED <<source, exchange>>
       \/ /\ sess' = [sess EXCEPT !.sent = TRUE, !.bstatus = "broadcast_seen", !.order = TRUE]
          /\ source' = "seen" /\ exchange' = "processing"
    /\ UNCHANGED <<provider, cp, node, said, questions, swaps, missed>>

\* What registers the order: the reference of the prepared transaction, without
\* it that of the quote.
Accepts(swap) == provider \in Rebuilds \/ swap.pending

Registered == exchange' = IF exchange = "none" THEN "processing" ELSE exchange

\* GET swap: recovers an order that was not registered.
AppRecovers ==
    /\ sess.sent /\ ~sess.order /\ source = "confirmed" /\ Accepts(sess)
    /\ Registered
    /\ sess' = [sess EXCEPT !.order = TRUE, !.bstatus = "source_confirmed"]
    /\ UNCHANGED <<provider, source, cp, node, said, questions, swaps, missed>>

\* GET swap: asks the provider unless the status is final.
AppPolls ==
    /\ sess.order /\ sess.status \notin Terminal
    /\ sess' = [sess EXCEPT !.status = exchange,
                            !.bstatus = IF exchange = "completed" THEN "confirmed" ELSE @]
    /\ UNCHANGED <<provider, source, exchange, cp, node, said, questions, swaps, missed>>

----------------------------------------------------------------------------
(* A question.                                                             *)

\* The checkpoint takes over the session but for the attempts.
TakenWithCount ==
    [cp EXCEPT !.swap = [sess EXCEPT !.pending = cp.swap.pending /\ ~sess.order,
                                     !.status = None]]

\* A known order starts the count again and drops what could be signed.
Taken ==
    IF sess.order
    THEN [swap |-> [sess EXCEPT !.pending = FALSE, !.status = None], attempts |-> 0]
    ELSE [cp EXCEPT !.swap.pending = @ \/ sess.pending,
                    !.swap.sent = @ \/ sess.sent,
                    !.swap.bstatus = IF sess.sent THEN sess.bstatus ELSE @]

Turn ==
    /\ node = "idle" /\ questions < MaxQuestions
    /\ questions' = questions + 1
    /\ cp' = Taken
    /\ missed' = IF sess.order THEN 0 ELSE missed
    /\ said' = None
    /\ node' = IF cp'.swap.sent /\ ~cp'.swap.order THEN "register" ELSE "poll"
    /\ UNCHANGED <<provider, source, exchange, sess, swaps>>

\* register_broadcast: a hash without an order was not visible when it was
\* broadcast, and nothing is registered.
RegisterBroadcast ==
    /\ node = "register" /\ node' = "poll"
    /\ said' = cp.swap.bstatus
    /\ UNCHANGED <<provider, source, exchange, sess, cp, questions, swaps, missed>>

\* What the provider says, up to the limit.
Timely(attempts) ==
    IF exchange' \notin Terminal /\ attempts >= MaxPolls THEN "timed_out" ELSE exchange'

\* The receipt on the source chain is not the completion of the swap.
Bstatus(swap, status) ==
    CASE status = "completed" -> "confirmed"
      [] status # "completed" /\ ~swap.order -> "source_confirmed"
      [] OTHER -> swap.bstatus

Ends(status) == node' = "project" /\ said' = status

\* _recover_stale_broadcast_order: its order counts only once its status is known.
Recoverable == cp.swap.sent /\ cp.swap.bstatus \notin Visible /\ ~cp.swap.order

StatusKnown ==
    LET status == Timely(cp.attempts + 1)
    IN /\ cp' = [swap |-> [cp.swap EXCEPT !.order = TRUE, !.status = status,
                                          !.bstatus = Bstatus(cp.swap, status)],
                 attempts |-> cp.attempts + 1]
       /\ Ends(status)
       /\ UNCHANGED missed

\* get_status raises; an answer of register_broadcast stays.
StatusFails ==
    /\ cp' = [cp EXCEPT !.attempts = @ + 1]
    /\ Ends(said)
    /\ missed' = missed + 1

\* status_poll: with an order, or after the recovery of one.
PollOrder ==
    /\ node = "poll"
    /\ \/ cp.swap.order /\ UNCHANGED exchange
       \/ Recoverable /\ source = "confirmed" /\ Accepts(cp.swap) /\ Registered
    /\ StatusKnown \/ StatusFails
    /\ UNCHANGED <<provider, source, sess, questions, swaps>>

\* status_poll: the chain does not show the transaction or cannot be asked, or
\* the provider refuses.
PollInvisible ==
    /\ node = "poll" /\ Recoverable
    /\ Ends(cp.swap.bstatus)
    /\ UNCHANGED <<provider, source, exchange, sess, cp, questions, swaps, missed>>

\* status_poll without an order and without a broadcast.
PollNothing ==
    /\ node = "poll" /\ ~cp.swap.order /\ ~cp.swap.sent
    /\ IF cp.swap.pending
       THEN Ends("swap_ready") /\ UNCHANGED <<cp, missed>>
       ELSE /\ Ends("unknown")
            /\ cp' = [cp EXCEPT !.attempts = @ + 1]
            /\ missed' = missed + 1
    /\ UNCHANGED <<provider, source, exchange, sess, questions, swaps>>

\* project_session, which may find a session that a poll has moved on.
Project ==
    /\ node = "project" /\ node' = "idle"
    /\ sess' = [pending |-> cp.swap.pending /\ (said = None \/ ~cp.swap.sent),
                sent |-> cp.swap.sent,
                bstatus |-> cp.swap.bstatus,
                order |-> sess.order \/ cp.swap.order,
                status |-> IF cp.swap.status = None THEN sess.status ELSE cp.swap.status]
    /\ UNCHANGED <<provider, source, exchange, cp, said, questions, swaps, missed>>

StatusStep ==
    \/ Turn \/ RegisterBroadcast \/ PollOrder \/ PollInvisible \/ PollNothing \/ Project

Next ==
    \/ World /\ UNCHANGED <<provider, sess, cp, node, said, questions, swaps, missed>>
    \/ PrepareSwap \/ Broadcast \/ AppRecovers \/ AppPolls
    \/ StatusStep

Spec == Init /\ [][Next]_vars

----------------------------------------------------------------------------

\* routes.py:126-130 and the comment of status_poll: a receipt on the source
\* chain is never shown as the completion of the swap, and asking often does not
\* turn a swap that is under way into one that timed out: only questions that
\* learned nothing count, and one of each swap, as the count is taken over to
\* the next swap.
StatusIsProviders ==
    \A swap \in {sess, cp.swap} :
        /\ swap.status = "completed" \/ swap.bstatus = "confirmed" => exchange = "completed"
        /\ swap.order => swap.sent /\ exchange # "none"
        /\ cp.swap.status = "timed_out" => missed + swaps >= MaxPolls
=============================================================================
