----------------------------- MODULE RunStream -----------------------------
(***************************************************************************)
(* One agent run: the background task run_graph that executes a turn and   *)
(* publishes its events, the run store that keeps the event log and the    *)
(* run status, the SSE generator that serves the log, and the client that  *)
(* reads it and reconnects with the id of the last frame it parsed.        *)
(*                                                                         *)
(* Events are numbered by their position in the log (the in-memory store   *)
(* does exactly that, Redis Streams give ids of the same order).  `log`    *)
(* keeps the kind of every event ever appended; `first` is the id of the   *)
(* oldest event the store still retains.                                   *)
(***************************************************************************)
EXTENDS Integers, Sequences, FiniteSets

CONSTANTS
    MaxUpdates,     \* bound: non-terminal frames one run emits
    MaxFaults,      \* bound: store or lock operations that raise
    MaxDrops,       \* bound: connections that break
    MaxRetries,     \* reconnects a client makes before it gives up (3)
    Page,           \* events one read returns at most (200)
    Retained        \* events the store keeps (RUN_EVENT_MAX_ENTRIES)

ASSUME BoundsAssumption ==
    /\ {MaxUpdates, MaxFaults, MaxDrops, MaxRetries} \subseteq Nat
    /\ {Page, Retained} \subseteq Nat \ {0}

VARIABLES
    status,     \* run status in the store
    log,        \* kinds of the events appended so far
    first,      \* id of the oldest retained event
    pc,         \* where run_graph stands
    target,     \* the terminal frame the run is about to publish
    session,    \* what the turn's session shows of this run
    faults,     \* failed store operations so far
    conn,       \* the SSE generator serving the client
    cursor,     \* the generator's cursor
    pending,    \* the ids it has read and not yielded, as <<next, last>>
    wire,       \* frames on their way to the client
    delivered,  \* ids of the frames the client has parsed, in order
    client,     \* the client's verdict on the run
    drops,      \* broken connections so far
    retries     \* reconnects so far

store == <<status, log, first>>
worker == <<pc, target, session, faults>>
server == <<conn, cursor, pending>>
reader == <<wire, delivered, client, drops, retries>>
vars == <<store, worker, server, reader>>

TerminalStatus == {"complete", "failed", "awaiting_confirmation"}
TerminalKind == {"complete", "error", "action_required"}
Kind == TerminalKind \cup {"update"}

\* Where an exception is still caught by run_graph's handlers.
InTry == {"acquire", "stream", "project", "frame", "settle"}
InHandler == {"error_frame", "conflict_frame", "error_status", "conflict_status",
              "error_session"}
Ended == {"ended", "dead"}

Acked == IF delivered = <<>> THEN 0 ELSE delivered[Len(delivered)]
Received == {delivered[i] : i \in DOMAIN delivered}
TerminalSeen == \E i \in Received : log[i] \in TerminalKind

Init ==
    /\ status = "queued" /\ log = <<>> /\ first = 1
    /\ pc = "queued" /\ target = "complete" /\ session = "stale" /\ faults = 0
    /\ conn = "read" /\ cursor = 0 /\ pending = <<1, 0>>
    /\ wire = <<>> /\ delivered = <<>> /\ client = "reading"
    /\ drops = 0 /\ retries = 0

-----------------------------------------------------------------------------
(* The run task. *)

\* A trim that also drops the event just added.
TrimTooFar(kind) ==
    /\ log' = Append(log, kind)
    /\ first' \in first .. Len(log) + 3
    /\ UNCHANGED status

\* XADD with an approximate MAXLEN: the store may drop the oldest events, and
\* never goes below the configured number.
Publish(kind) ==
    /\ log' = Append(log, kind)
    /\ first' \in first .. IF first > Len(log) + 2 - Retained
                           THEN first ELSE Len(log) + 2 - Retained
    /\ UNCHANGED status

SetStatus(s) == status' = s /\ UNCHANGED <<log, first>>

Goto(from, to) == pc = from /\ pc' = to

MarkRunning ==
    /\ Goto("queued", "acquire")
    /\ SetStatus("running")
    /\ UNCHANGED <<target, session, faults, server, reader>>

Acquire ==
    /\ Goto("acquire", "stream")
    /\ UNCHANGED <<store, target, session, faults, server, reader>>

\* The conversation lock was not free within its wait: an ordinary exception.
LockTimeout ==
    /\ Goto("acquire", "error_frame")
    /\ UNCHANGED <<store, target, session, faults, server, reader>>

Emit ==
    /\ Goto("stream", "stream")
    /\ Len(log) < MaxUpdates
    /\ Publish("update")
    /\ UNCHANGED <<target, session, faults, server, reader>>

\* A node, a model call or the checkpointer raised inside the execution.
GraphRaises ==
    /\ Goto("stream", "error_frame")
    /\ UNCHANGED <<store, target, session, faults, server, reader>>

\* An interrupt waits for a kind of answer this message is not.
InterruptConflict ==
    /\ Goto("stream", "conflict_frame")
    /\ UNCHANGED <<store, target, session, faults, server, reader>>

\* The terminal frame published without projecting the session.
EndsUnprojected(kind) ==
    /\ Goto("stream", "frame")
    /\ target' = kind
    /\ UNCHANGED <<store, session, faults, server, reader>>

GraphEnds(kind) ==
    /\ Goto("stream", "project")
    /\ target' = kind
    /\ UNCHANGED <<store, session, faults, server, reader>>

\* The session index is projected before the terminal frame is published.
ProjectSession ==
    /\ Goto("project", "frame")
    /\ session' = "projected"
    /\ UNCHANGED <<store, target, faults, server, reader>>

PublishTerminal ==
    /\ Goto("frame", "settle")
    /\ Publish(target)
    /\ UNCHANGED <<target, session, faults, server, reader>>

Outcome == IF target = "complete" THEN "complete" ELSE "awaiting_confirmation"

\* The status set before the frame is in the log.
SettleFirst ==
    /\ Goto("frame", "release")
    /\ SetStatus(Outcome)
    /\ UNCHANGED <<target, session, faults, server, reader>>

\* The error handler entered after a run that succeeded.
SettleAndFall ==
    /\ Goto("settle", "error_frame")
    /\ SetStatus(Outcome)
    /\ UNCHANGED <<target, session, faults, server, reader>>

SetTerminalStatus ==
    /\ Goto("settle", "release")
    /\ SetStatus(Outcome)
    /\ UNCHANGED <<target, session, faults, server, reader>>

PublishError ==
    /\ \/ Goto("error_frame", "error_status")
       \/ Goto("conflict_frame", "conflict_status")
    /\ Publish("error")
    /\ UNCHANGED <<target, session, faults, server, reader>>

SetFailed ==
    /\ \/ Goto("error_status", "error_session")
       \/ Goto("conflict_status", "release")
    /\ SetStatus("failed")
    /\ UNCHANGED <<target, session, faults, server, reader>>

\* The failure is projected with a compare-and-set whose conflict is ignored;
\* an interrupt conflict never comes here.
FailSession ==
    /\ Goto("error_session", "release")
    /\ session' \in {"failed", session}
    /\ UNCHANGED <<store, target, faults, server, reader>>

Release ==
    /\ Goto("release", "ended")
    /\ UNCHANGED <<store, target, session, faults, server, reader>>

\* What a store operation that raises may have done first: each is a write
\* followed by EXPIRE calls, or its reply is lost.
HalfDone ==
    \/ pc = "queued" /\ SetStatus("running")
    \/ pc = "stream" /\ Len(log) < MaxUpdates /\ Publish("update")
    \/ pc = "frame" /\ Publish(target)
    \/ pc = "settle" /\ SetStatus(Outcome)
    \/ pc \in {"error_frame", "conflict_frame"} /\ Publish("error")
    \/ pc \in {"error_status", "conflict_status"} /\ SetStatus("failed")

\* A store or lock operation raises (Redis unreachable, a second revision
\* conflict): inside the try block the handler publishes an error frame; a
\* failure before it, inside a handler or in the release escapes the task.
OperationFails ==
    /\ faults < MaxFaults
    /\ faults' = faults + 1
    /\ \/ pc \in InTry /\ pc' = "error_frame"
       \/ pc \in InHandler \cup {"queued", "release"} /\ pc' = "dead"
    /\ UNCHANGED store \/ HalfDone
    /\ session' \in IF pc \in {"project", "error_session"}
                    THEN {session, IF pc = "project" THEN "projected" ELSE "failed"}
                    ELSE {session}
    /\ UNCHANGED <<target, server, reader>>

\* The process is gone; no other replica re-executes the run.
Crash ==
    /\ pc \notin Ended
    /\ pc' = "dead"
    /\ UNCHANGED <<store, target, session, faults, server, reader>>

-----------------------------------------------------------------------------
(* The store's time to live, much longer than a run, refreshed by each append. *)

ExpireEvents ==
    /\ pc \in Ended
    /\ first' = Len(log) + 1
    /\ UNCHANGED <<status, log, worker, server, reader>>

ExpireRun ==
    /\ pc \in Ended
    /\ status' = "absent"
    /\ first' = Len(log) + 1
    /\ UNCHANGED <<log, worker, server, reader>>

-----------------------------------------------------------------------------
(* The SSE generator. *)

\* One read returns the retained events after the cursor, at most a page.
Read ==
    /\ conn = "read"
    /\ IF status = "absent"
       THEN conn' = "missing" /\ UNCHANGED pending
       ELSE LET from == IF cursor + 1 < first THEN first ELSE cursor + 1
                to == IF Len(log) < from + Page - 1 THEN Len(log) ELSE from + Page - 1
            IN pending' = <<from, to>> /\ conn' = "send"
    /\ UNCHANGED <<store, worker, cursor, reader>>

Yield ==
    /\ conn = "send"
    /\ pending[1] <= pending[2]
    /\ wire' = Append(wire, pending[1])
    /\ cursor' = pending[1]
    /\ pending' = <<pending[1] + 1, pending[2]>>
    /\ UNCHANGED <<store, worker, conn, delivered, client, drops, retries>>

\* A stream that ends on an empty read, whatever the status.
CloseWhenIdle ==
    /\ conn = "send"
    /\ pending[1] > pending[2]
    /\ conn' = IF status \in TerminalStatus \/ cursor = Len(log) THEN "closed" ELSE "read"
    /\ UNCHANGED <<store, worker, cursor, pending, reader>>

\* "failed" missing from the terminal statuses.
IgnoreFailed ==
    /\ conn = "send"
    /\ pending[1] > pending[2]
    /\ conn' = IF status \in TerminalStatus \ {"failed"} THEN "closed" ELSE "read"
    /\ UNCHANGED <<store, worker, cursor, pending, reader>>

\* The status is read only after the batch was yielded.
CheckStatus ==
    /\ conn = "send"
    /\ pending[1] > pending[2]
    /\ conn' = IF status \in TerminalStatus THEN "closed" ELSE "read"
    /\ UNCHANGED <<store, worker, cursor, pending, reader>>

-----------------------------------------------------------------------------
(* The client. *)

Receive ==
    /\ client = "reading"
    /\ wire # <<>>
    /\ delivered' = Append(delivered, Head(wire))
    /\ wire' = Tail(wire)
    /\ UNCHANGED <<store, worker, server, client, drops, retries>>

\* The stream ended: with the terminal frame the client is done.
EndOfStream ==
    /\ client = "reading"
    /\ conn = "closed" /\ wire = <<>>
    /\ IF TerminalSeen
       THEN client' = "done" /\ UNCHANGED conn
       ELSE conn' = "down" /\ UNCHANGED client
    /\ UNCHANGED <<store, worker, cursor, pending, wire, delivered, drops, retries>>

\* RUN_NOT_FOUND arrives after the frames before it.
NotFound ==
    /\ client = "reading"
    /\ conn = "missing" /\ wire = <<>>
    /\ client' = "not_found"
    /\ UNCHANGED <<store, worker, server, wire, delivered, drops, retries>>

\* The connection breaks and the frames in flight are lost.
Drop ==
    /\ client = "reading"
    /\ conn # "down" /\ drops < MaxDrops
    /\ drops' = drops + 1
    /\ conn' = "down" /\ wire' = <<>>
    /\ UNCHANGED <<store, worker, cursor, pending, delivered, client, retries>>

\* Last-Event-ID ignored; or taken from what the server sent, not from what
\* the client parsed.
FromStart == 0
FromSent == cursor

\* Last-Event-ID is the id of the last frame parsed.
ResumeFrom == Acked

\* A run that is gone answers 404, which costs a reconnect like a broken stream.
Reconnect ==
    /\ client = "reading"
    /\ conn = "down"
    /\ IF retries < MaxRetries
       THEN /\ retries' = retries + 1
            /\ IF status = "absent"
               THEN UNCHANGED server
               ELSE conn' = "read" /\ cursor' = ResumeFrom /\ pending' = <<1, 0>>
            /\ UNCHANGED client
       ELSE client' = "gave_up" /\ UNCHANGED <<retries, server>>
    /\ UNCHANGED <<store, worker, wire, delivered, drops>>

-----------------------------------------------------------------------------
RunTask ==
    \/ MarkRunning \/ Acquire \/ LockTimeout
    \/ Emit \/ GraphRaises \/ InterruptConflict
    \/ \E kind \in {"complete", "action_required"} : GraphEnds(kind)
    \/ ProjectSession \/ PublishTerminal \/ SetTerminalStatus
    \/ PublishError \/ SetFailed \/ FailSession \/ Release

Generator == Read \/ Yield \/ CheckStatus
ClientStep == Receive \/ EndOfStream \/ NotFound \/ Reconnect
Environment == OperationFails \/ Crash \/ ExpireEvents \/ ExpireRun \/ Drop

Next == RunTask \/ Generator \/ ClientStep \/ Environment

Spec == Init /\ [][Next]_vars

\* The event loop runs every ready task, and a client that wants the run's
\* outcome keeps reading.  Nothing is assumed of the environment.
FairSpec == Spec /\ WF_vars(RunTask) /\ WF_vars(Generator) /\ WF_vars(ClientStep)
-----------------------------------------------------------------------------
(* Properties. *)

TypeOK ==
    /\ status \in TerminalStatus \cup {"queued", "running", "absent"}
    /\ log \in Seq(Kind)
    /\ first \in 1 .. Len(log) + 1
    /\ pc \in InTry \cup InHandler \cup Ended \cup {"queued", "release"}
    /\ target \in {"complete", "action_required"}
    /\ session \in {"stale", "projected", "failed"}
    /\ conn \in {"read", "send", "closed", "missing", "down"}
    /\ cursor \in Nat
    /\ pending \in Nat \X Nat
    /\ wire \in Seq(Nat)
    /\ delivered \in Seq(Nat)
    /\ client \in {"reading", "done", "not_found", "gave_up"}
    /\ {faults, drops, retries} \subseteq Nat

\* Across reconnects, pages and broken connections the client parses every
\* frame at most once and in the order the run published it.
InOrderOnce ==
    \A i, j \in DOMAIN delivered : i < j => delivered[i] < delivered[j]

\* A frame the client has passed over was trimmed or expired in the store: the
\* cursor it resumes from never skips an event that is still retained.
NoGap == \A id \in 1 .. Acked : id \in Received \/ id < first

\* The run status turns terminal only after the frame that tells its outcome is
\* in the log, so a reader that finds the status terminal needs at most one more
\* read per page.  Without failed store operations that frame is also the last
\* one: status and stream tell one outcome.
FrameOf(s) == CASE s = "complete" -> "complete"
                [] s = "failed" -> "error"
                [] OTHER -> "action_required"

StatusFollowsFrame ==
    status \in TerminalStatus =>
        \E i \in DOMAIN log : log[i] = FrameOf(status) /\ (faults = 0 => i = Len(log))

\* A second terminal frame (an error after "complete") needs a store operation
\* that failed after the first frame was published.
OneOutcome ==
    \A i \in DOMAIN log : log[i] \in TerminalKind /\ i < Len(log) => faults > 0

\* A client that reacts to "complete" or "action_required" by reading the
\* session finds it already projected.
ProjectedBeforeFrame ==
    \A i \in Received : log[i] \in {"complete", "action_required"} => session # "stale"

\* A stream may close cleanly without the terminal frame (the status read races
\* the last append, or a page did not reach the end), but only once per page: a
\* client exhausts its retries only by broken connections beyond that.
Pages == (Len(log) + Page - 1) \div Page

GiveUpBound ==
    client = "gave_up" =>
        \/ drops + Pages > MaxRetries
        \/ status = "absent"
        \/ log # <<>> /\ first > Len(log)

\* Once a run has its terminal status, a client that keeps reading ends: with
\* the terminal frame, with RUN_NOT_FOUND or out of retries.
OutcomeReachesClient == status \in TerminalStatus ~> client # "reading"
=============================================================================
