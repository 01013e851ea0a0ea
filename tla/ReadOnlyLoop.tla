---------------------------- MODULE ReadOnlyLoop ----------------------------
(***************************************************************************)
(* The read-only agent of the lifecycle graph: agent, tool and observe     *)
(* nodes in a loop of at most MaxRounds rounds.  A model with native tools *)
(* asks for batches, which are cut to MaxParallel calls with the rest      *)
(* queued; a facade without a tool-capable backend and a plain model go    *)
(* through the structured planner, one call at a time.  A call stands for  *)
(* its signature (tool and arguments); what tools observe is arbitrary.    *)
(***************************************************************************)
EXTENDS Naturals, Sequences, SequencesExt

CONSTANTS
    Call, NameOf,   \* the calls a model may ask for, and the tool of each
    NoCall,
    MaxRounds, MaxParallel,  \* READ_ONLY_MAX_ROUNDS, READ_ONLY_MAX_PARALLEL_TOOLS
    MaxBatch        \* bound: calls of one model answer

ReadOnlyAssumption ==
    /\ NameOf \in [Call -> STRING]
    /\ NoCall \notin Call
    /\ MaxRounds \in Nat \ {0} /\ MaxParallel \in Nat \ {0} /\ MaxBatch \in Nat

VARIABLE rd   \* the read_* fields of the turn, and the node that runs next

Name == {NameOf[k] : k \in Call}

ReadIdle == [at |-> "idle", model |-> "planner", topic |-> "other", value |-> FALSE,
             count |-> 0, complete |-> FALSE, pending |-> FALSE,
             batch |-> <<>>, last |-> NoCall, queue |-> <<>>, done |-> {},
             facts |-> [n \in Name |-> "none"], result |-> FALSE,
             answer |-> "none"]

\* The read_* resets of the supervisor.  Whether the question is about a wallet
\* or a transaction, and asks what an asset is worth, is in the message.
ReadStart ==
    /\ rd.at = "idle"
    /\ \E m \in {"native", "facade", "planner"}, t \in {"wallet", "status", "other"},
          v \in BOOLEAN :
          rd' = [ReadIdle EXCEPT !.at = "agent", !.model = m, !.topic = t, !.value = v]

\* route_read_only.
Route(r) ==
    IF (r.answer # "none" /\ ~r.pending) \/ r.count >= MaxRounds \/ r.complete
    THEN "response"
    ELSE IF r.batch # <<>> THEN "tool" ELSE "agent"

Routed(r) == [r EXCEPT !.at = Route(r)]

Finished(r) == [r EXCEPT !.batch = <<>>, !.complete = TRUE, !.pending = FALSE]

Asking(r, calls) ==
    [r EXCEPT !.batch = calls, !.complete = FALSE, !.pending = TRUE]

\* A balance of a chain that is not supported or not named, a transaction
\* without a hash.
AgentRefuses ==
    /\ rd.at = "agent" /\ rd.count = 0 /\ rd.topic \in {"wallet", "status"}
    /\ rd' = Routed([Finished(rd) EXCEPT !.answer = "clarification"])

Deterministic == rd.topic = "status" \/ (rd.topic = "wallet" /\ rd.model = "planner")

\* A transaction is asked for by its hash in every round, a wallet until there
\* is a snapshot; without an address the planner decides on the latter.
AgentKnows ==
    /\ rd.at = "agent" /\ Deterministic
    /\ IF rd.topic = "wallet" /\ rd.facts["portfolio_snapshot"] # "none"
       THEN rd' = Routed(Finished(rd))
       ELSE \E k \in Call :
              /\ NameOf[k] = IF rd.topic = "wallet" THEN "portfolio_snapshot"
                             ELSE "transaction_status"
              /\ rd' = Routed(Asking(rd, <<k>>))

\* read_only_decision, put right for what the value of an asset or the intent
\* needs, or no call.
AgentPlans ==
    /\ rd.at = "agent" /\ rd.topic # "status"
    /\ rd.model = "facade" \/ (rd.model = "planner" /\ (rd.topic = "wallet" =>
                                   rd.facts["portfolio_snapshot"] = "none"))
    /\ \/ \E k \in Call : rd' = Routed(Asking(rd, <<k>>))
       \/ rd' = Routed(Finished(rd))

\* A queue that is left when its calls were made before.
TakeReusing(calls, rest) ==
    IF ToSet(calls) \subseteq rd.done
    THEN [Finished(rd) EXCEPT !.queue = rest,
                              !.answer = IF rd.result THEN "data" ELSE @]
    ELSE [Asking(rd, calls) EXCEPT !.queue = rest]

\* Calls that were all made before end the loop, unless they are a part of a
\* larger batch.
Take(calls, rest) ==
    IF rest = <<>> /\ rd.queue = <<>> /\ ToSet(calls) \subseteq rd.done
    THEN [Finished(rd) EXCEPT !.answer = IF rd.result THEN "data" ELSE @]
    ELSE [Asking(rd, calls) EXCEPT !.queue = rest]

\* chunk_read_batch.
FirstOf(calls) == SubSeq(calls, 1, IF Len(calls) < MaxParallel THEN Len(calls) ELSE MaxParallel)
RestOf(calls) == SubSeq(calls, MaxParallel + 1, Len(calls))

\* Calls that wait are run before the model is asked again.
AgentDrains ==
    /\ rd.at = "agent" /\ rd.model = "native" /\ rd.topic # "status" /\ rd.queue # <<>>
    /\ rd' = Routed(Take(FirstOf(rd.queue), RestOf(rd.queue)))

\* The model asks for calls, for one that is not allowed, or for none.
AgentInvokes ==
    /\ rd.at = "agent" /\ rd.model = "native" /\ rd.topic # "status" /\ rd.queue = <<>>
    /\ \/ \E calls \in SeqOf(Call, MaxBatch) \ {<<>>} :
             rd' = Routed(Take(FirstOf(calls), RestOf(calls)))
       \/ rd' = Routed([Finished(rd) EXCEPT !.answer = "error"])
       \/ rd' = Routed([Finished(rd) EXCEPT !.answer = IF rd.result THEN "data" ELSE @])

\* The facts hold the last observation of each tool.
Observed(calls, ok) ==
    [n \in Name |->
        LET mine == {i \in DOMAIN calls : NameOf[calls[i]] = n}
        IN IF mine = {} THEN rd.facts[n]
           ELSE IF (CHOOSE i \in mine : \A j \in mine : j <= i) \in ok THEN "ok" ELSE "failed"]

\* ToolNode runs the batch, or run_read_only_round the one call; a planned call
\* that observes a failure counts as completed all the same.
ToolRuns ==
    /\ rd.at = "tool"
    /\ \E ok \in SUBSET DOMAIN rd.batch :
          rd' = [rd EXCEPT !.at = "observe", !.count = @ + 1, !.last = Last(rd.batch),
                           !.facts = Observed(rd.batch, ok),
                           !.done = @ \cup {rd.batch[i] : i \in
                                        IF rd.model = "native" THEN ok ELSE DOMAIN rd.batch},
                           !.complete = FALSE, !.pending = TRUE, !.batch = <<>>]

\* A tool raises: the facts stay those of the earlier rounds.
ToolRaises ==
    /\ rd.at = "tool"
    /\ rd' = [rd EXCEPT !.at = "observe", !.count = @ + 1, !.last = Last(rd.batch),
                        !.batch = <<>>,
                        !.complete = IF rd.model = "native" THEN TRUE ELSE @,
                        !.pending = IF rd.model = "native" THEN FALSE ELSE @]

\* What an asset is worth can be told of either fact, else the last call counts.
IsKnown ==
    \/ rd.value /\ "ok" \in {rd.facts["wallet_balance"], rd.facts["price_lookup"]}
    \/ rd.facts[NameOf[rd.last]] = "ok"

\* read_only_observe: a native model is given the observation to go on with.
Observe ==
    /\ rd.at = "observe"
    /\ LET final == rd.count >= MaxRounds
           native == rd.model = "native" /\ rd.topic # "status"
           seen == [rd EXCEPT !.last = NoCall]
       IN \/ /\ ~IsKnown
             /\ \E a \in {"error", "clarification"} :
                   rd' = Routed([Finished(seen) EXCEPT !.answer = a])
          \/ /\ IsKnown /\ native /\ ~final
             /\ rd' = Routed([seen EXCEPT !.result = TRUE, !.answer = "none",
                                          !.complete = FALSE, !.pending = TRUE])
          \/ /\ IsKnown /\ (~native \/ final)
             /\ rd' = Routed([seen EXCEPT !.answer = "data", !.complete = final,
                                          !.pending = ~final])

ReadNext ==
    \/ AgentRefuses \/ AgentKnows \/ AgentPlans \/ AgentDrains \/ AgentInvokes
    \/ ToolRuns \/ ToolRaises \/ Observe

ReadResponds == rd.at = "response" /\ rd' = ReadIdle

ReadSpec == rd = ReadIdle /\ [][ReadStart \/ ReadNext \/ ReadResponds]_rd

----------------------------------------------------------------------------

ReadTypeOK ==
    /\ rd.at \in {"idle", "agent", "tool", "observe", "response"}
    /\ rd.count \in 0..MaxRounds
    /\ rd.batch \in Seq(Call) /\ Len(rd.batch) <= MaxParallel
    /\ rd.queue \in Seq(Call) /\ rd.last \in Call \cup {NoCall} /\ rd.done \subseteq Call
    /\ rd.facts \in [Name -> {"none", "ok", "failed"}]
    /\ {rd.complete, rd.pending, rd.result} \subseteq BOOLEAN
    /\ rd.answer \in {"none", "data", "error", "clarification"}
    /\ rd.at = "tool" => rd.batch # <<>>

\* Calls that were put off because a batch was too large are made, though the
\* same may have been asked before: they are left only when the rounds are used
\* up or a call failed.
QueueRuns ==
    rd.at = "response" /\ rd.queue # <<>> =>
        rd.count = MaxRounds \/ rd.answer \in {"error", "clarification"}
=============================================================================
