------------------------------ MODULE ReactTurn ------------------------------
(***************************************************************************)
(* The conversation graph: react_entry, then react_agent and react_tools   *)
(* in alternation, then finalize_response, over the checkpoint of one      *)
(* conversation whose turns follow each other (the App holds the lock of   *)
(* the conversation for a turn).  Between turns the user answers the       *)
(* confirmation and broadcasts.                                            *)
(*                                                                         *)
(* A message of the transcript is kept as what finalize_response tells     *)
(* apart: the observations of the turn, and whether a tool call was left   *)
(* without its ToolMessage.  The signature of a call is its tool, but for  *)
(* reads, whose arguments are ever new.  What the model answers, what a    *)
(* tool finds and what the render decision says are arbitrary.  What only  *)
(* the loop reads is cleared with the turn already, not by the next entry. *)
(* The App copies the session's transaction and order into the input of a  *)
(* turn and projects them back, so that one copy stands for both.  A chat  *)
(* message that meets the confirmation interrupt resumes the lifecycle     *)
(* graph instead (SwapAuthorization) and is no turn of this one.           *)
(***************************************************************************)
EXTENDS Naturals, Sequences, FiniteSetsExt, SequencesExt

CONSTANTS
    None,
    Quote,           \* quotes, as naturals: the greater one has the better output
    Order,           \* provider orders
    MaxReactSteps,   \* runtime.max_react_steps
    RecursionLimit,  \* supersteps of nodes LangGraph allows a run
    MaxCalls,        \* bound: tool calls of one turn, but for reads
    MaxTurns,        \* bound: turns
    MaxFaults        \* bound: model failures and crashes

ASSUME ReactAssumption ==
    /\ Quote \subseteq Nat
    /\ MaxReactSteps \in Nat \ {0}
    /\ RecursionLimit \in Nat /\ MaxCalls \in Nat
    /\ MaxTurns \in Nat /\ MaxFaults \in Nat
    /\ \A word \in {"swap", "failed", "answered"} : None # word

VARIABLES
    cp,       \* the fields of the checkpoint that outlive a turn
    pc,       \* the node that runs next, "idle" between turns
    steps,    \* react_steps
    hops,     \* supersteps of the run
    sigs,     \* react_tool_signatures
    calls,    \* tool calls of the last AI message that wait for their tools
    obs,      \* the tools' observations since the user's message
    resp,     \* the response of the turn
    outcome,  \* how the last turn ended
    turns, faults

vars == <<cp, pc, steps, hops, sigs, calls, obs, resp, outcome, turns, faults>>

\* The tools and what they can find, but for quotes and orders.
Finding ==
    [get_swap_quote |-> {"btc_picker"},
     prepare_transfer |-> {"prepared"},
     wallet_balance |-> {"assets", "coin", "no_coin"},
     request_client_action |->
        {"swap_keypad", "transfer_keypad", "keypad", "bare_swap_keypad",
         "bare_keypad", "btc_picker", "surface"},
     transfer_quick_replies |-> {"slot_chips", "coin_chips", "amount_chips", "no_chips"},
     swap_quick_replies |-> {"pairs"},
     query_swap_status |-> {"pickup"},
     read |-> {"fact"}]

Tool == DOMAIN Finding

\* Sets of findings, by what they put on the screen.
Labelled == {"swap_keypad", "bare_swap_keypad"}
Anchored == {"swap_keypad", "transfer_keypad", "keypad"}
Keypad == Anchored \cup {"bare_swap_keypad", "bare_keypad"}
Surface == Keypad \cup {"btc_picker", "surface"}
TransferChips == {"slot_chips", "coin_chips", "amount_chips"}
Chips == TransferChips \cup {"pairs"}
Balance == {"assets", "coin", "no_coin"}

Observation ==
    [tool : Tool, out : UNION {Finding[t] : t \in Tool}
                        \cup {"quotes", "order_open", "order_done", "failed"},
     q : SUBSET Quote]

Confirmation == [st : {"none", "requested", "rejected", "lapsed", "approved"},
                 for : Quote \cup {None}]
NoConfirmation == [st |-> "none", for |-> None]

Response ==
    [kind : {"react", "transfer_prepare"},
     action : Surface \cup {None, "address_risk", "swap_amount", "transfer_amount"},
     chips : Chips \cup {None, "source_chips"},
     portfolio : {None, "assets", "coin"},
     quotes : SUBSET Quote]

Init ==
    /\ cp = [pending |-> None, selected |-> None, cands |-> {}, requested |-> FALSE,
             conf |-> NoConfirmation, order |-> None, query |-> None,
             orphan |-> FALSE]
    /\ pc = "idle"
    /\ steps = 0 /\ hops = 0 /\ sigs = {} /\ calls = <<>> /\ obs = <<>>
    /\ resp = None /\ outcome = None
    /\ turns = 0 /\ faults = 0

----------------------------------------------------------------------------
(* The loop.                                                               *)

\* A superstep of the run, as long as LangGraph allows another one.
Superstep(node, next) ==
    /\ pc = node
    /\ hops < RecursionLimit
    /\ hops' = hops + 1
    /\ pc' = next

\* POST turn: an App that comes from an order's page names the order.
Turn(q) ==
    /\ pc = "idle" /\ turns < MaxTurns
    /\ cp.conf.st # "requested" \/ cp.order # None
    /\ turns' = turns + 1
    /\ cp' = [cp EXCEPT !.query = IF q = None THEN @ ELSE q]
    /\ pc' = "entry"
    /\ resp' = None /\ outcome' = None
    /\ UNCHANGED <<steps, hops, sigs, calls, obs, faults>>

ReactEntry ==
    /\ Superstep("entry", "agent")
    /\ steps' = 0 /\ sigs' = {}
    /\ cp' = [cp EXCEPT !.selected = None]
    /\ UNCHANGED <<calls, obs, resp, outcome, turns, faults>>

\* An answer without tool calls ends the loop.
Say ==
    /\ Superstep("agent", "finalize")
    /\ steps' = steps + 1 /\ sigs' = {}
    /\ UNCHANGED <<cp, calls, obs, resp, outcome, turns, faults>>

\* A loop without a step limit.
LimitNever == FALSE

LimitReached == steps + 1 > MaxReactSteps

AnswerAtLimit == LimitReached /\ Say

ModelAnswers == ~LimitReached /\ Say

\* Every call was already made in this turn: an answer replaces the calls.
ModelRepeats == ~LimitReached /\ sigs # {} /\ Say

\* A read always finds another argument to ask about, and its fact is only
\* ever read by the model.
Kept(batch) == SelectSeq(batch, LAMBDA t : t # "read")

ModelCalls(batch) ==
    /\ ~LimitReached
    /\ Len(obs) + Len(Kept(batch)) <= MaxCalls
    /\ ~(ToSet(Kept(batch)) \subseteq sigs) \/ "read" \in ToSet(batch)
    /\ Superstep("agent", "tools")
    /\ steps' = steps + 1
    /\ sigs' = sigs \cup ToSet(batch)
    /\ calls' = batch
    /\ UNCHANGED <<cp, obs, resp, outcome, turns, faults>>

\* The order a status query without an order number is about.
AskedOrder == IF cp.query # None THEN cp.query ELSE cp.order

Finds(t) ==
    {[tool |-> t, out |-> o, q |-> {}] : o \in Finding[t] \cup {"failed"}}
    \cup (IF t = "get_swap_quote"
          THEN {[tool |-> t, out |-> "quotes", q |-> s] : s \in SUBSET Quote \ {{}}}
          ELSE {})
    \cup (IF t = "query_swap_status" /\ AskedOrder # None
          THEN {[tool |-> t, out |-> o, q |-> {}] : o \in {"order_open", "order_done"}}
          ELSE {})

Failed(batch) == [i \in DOMAIN batch |-> [tool |-> batch[i], out |-> "failed", q |-> {}]]

\* run_react_tools: the batch answers, or times out or raises as a whole.
Observe(found) ==
    /\ Superstep("tools", "agent")
    /\ obs' = obs \o SelectSeq(found, LAMBDA o : o.tool # "read")
    /\ calls' = <<>>
    /\ cp' = [cp EXCEPT !.orphan = @ \/ Len(found) < Len(calls)]
    /\ UNCHANGED <<steps, sigs, resp, outcome, turns, faults>>

ToolsAnswer ==
    \E found \in [DOMAIN calls -> UNION {Finds(t) : t \in ToSet(calls)}] :
        /\ \A i \in DOMAIN calls : found[i].tool = calls[i]
        /\ Observe(found)

\* A timeout that leaves the calls without their messages.
ToolsForgetful == Observe(<<>>)

ToolsTimeOut == Observe(Failed(calls))

\* The run of the graph is over.
LeaveLoop(next, how) ==
    /\ pc' = next
    /\ outcome' = how
    /\ steps' = 0 /\ hops' = 0 /\ sigs' = {} /\ calls' = <<>> /\ obs' = <<>>

EndTurn(how) == LeaveLoop("idle", how)

\* GraphRecursionError.
OutOfSteps ==
    /\ pc \in {"entry", "agent", "tools", "finalize"}
    /\ hops >= RecursionLimit
    /\ EndTurn("failed")
    /\ UNCHANGED <<cp, resp, turns, faults>>

ModelFails ==
    /\ pc = "agent" /\ faults < MaxFaults
    /\ faults' = faults + 1
    /\ EndTurn("failed")
    /\ UNCHANGED <<cp, resp, turns>>

\* The process goes down: calls that wait for their tools stay unanswered.
Crash ==
    /\ pc \in {"entry", "agent", "tools", "finalize"} /\ faults < MaxFaults
    /\ faults' = faults + 1
    /\ cp' = [cp EXCEPT !.orphan = @ \/ calls # <<>>]
    /\ EndTurn("failed")
    /\ UNCHANGED <<resp, turns>>

----------------------------------------------------------------------------
(* finalize_response: what the observations of the turn put on the screen   *)
(* and into the checkpoint.  d is the render decision; a tapped pair names  *)
(* the source coin; risk says that the user typed a risky address.          *)

Saw(outs) == \E i \in DOMAIN obs : obs[i].out \in outs

Called(t) == \E i \in DOMAIN obs : obs[i].tool = t

\* The last observation whose finding is one of outs.
LatestObs(outs) ==
    LET seen == {i \in DOMAIN obs : obs[i].out \in outs}
    IN IF seen = {} THEN [tool |-> None, out |-> None, q |-> {}] ELSE obs[Max(seen)]

Latest(outs) == LatestObs(outs).out

\* _best_react_quote_result: the last request that found usable quotes.
Quotes == LatestObs({"quotes"}).q

Prepared == Saw({"prepared"})

ClientAction(risk) ==
    CASE risk -> "address_risk"
      [] ~risk /\ Saw({"btc_picker"}) -> "btc_picker"
      [] OTHER -> Latest(Surface)

\* A decision that could not be had is the one for plain text.
NoDecision == [intent |-> "other", pair |-> FALSE, recommend |-> FALSE]
Decision ==
    [intent : {"swap"}, pair : BOOLEAN, recommend : BOOLEAN]
    \cup {NoDecision, [NoDecision EXCEPT !.intent = "transfer"]}

NeedsDecision(a) ==
    /\ Quotes = {} /\ ~Prepared /\ ~Saw(Balance)
    /\ \/ a = None /\ ~Saw(Chips)
       \/ Called("transfer_quick_replies")
       \/ a \in {"keypad", "bare_keypad"}

SwapIntent(a, d) ==
    \/ Quotes # {}
    \/ Called("swap_quick_replies")
    \/ a \in Labelled
    \/ d.intent = "swap"

\* An amount keypad needs a coin; a swap takes that of the pair tapped.
KeypadCard(a, d, tapped) ==
    CASE a \notin Keypad -> a
      [] a \in Keypad /\ SwapIntent(a, d) /\ (tapped \/ a \in Anchored) -> "swap_amount"
      [] a \in Anchored /\ ~SwapIntent(a, d) -> "transfer_amount"
      [] OTHER -> None

\* The chips of the tools: a transfer's amount card takes no coin chips, a
\* swap without a quote no chips of a transfer.
ToolChips(a, d, tapped) ==
    CASE SwapIntent(a, d) /\ Quotes = {} -> Latest({"pairs"})
      [] ~(SwapIntent(a, d) /\ Quotes = {}) /\ KeypadCard(a, d, tapped) = "transfer_amount"
         /\ Latest(Chips) = "coin_chips" -> None
      [] OTHER -> Latest(Chips)

\* Amount chips open the keypad themselves.
Action(a, d, tapped) ==
    IF KeypadCard(a, d, tapped) = None /\ ToolChips(a, d, tapped) = "amount_chips"
    THEN "transfer_amount"
    ELSE KeypadCard(a, d, tapped)

\* The suggestions when no tool gave any: the next card of a transfer whose
\* recipient is known, pairs to swap, or the chains that hold the source coin.
OfferedChips(a, d, tapped, next, spread) ==
    IF ToolChips(a, d, tapped) # None THEN ToolChips(a, d, tapped)
    ELSE IF Action(a, d, tapped) # None THEN None
    ELSE CASE ~SwapIntent(a, d) /\ d.intent = "transfer" -> next
           [] SwapIntent(a, d) /\ Quotes = {} /\ d.recommend /\ ~d.pair -> "pairs"
           [] SwapIntent(a, d) /\ Quotes = {} /\ d.pair /\ spread -> "source_chips"
           [] OTHER -> None

\* A balance is a card of its own only when nothing else is on the screen.
PortfolioCard(action) ==
    IF action # None \/ Prepared \/ Latest(Balance) = "no_coin"
    THEN None
    ELSE Latest(Balance)

\* _default_quote.
Best(quotes) == IF quotes = {} THEN None ELSE Max(quotes)

\* A confirmation stays only while it asks for that very quote.
ConfirmationOf(q) ==
    IF cp.conf.st = "requested" /\ cp.conf.for = q THEN cp.conf ELSE NoConfirmation

\* The selection of another than the best quote.
SelectionOfLeast(s, a, d) ==
    IF Quotes = {} THEN s
    ELSE [s EXCEPT !.cands = Quotes, !.requested = TRUE, !.selected = Min(Quotes)]

\* With quotes of this turn, or when the user is taken to repeat a swap.
Selection(s, a, d) ==
    CASE Quotes # {} ->
           [s EXCEPT !.cands = Quotes, !.requested = TRUE, !.selected = Best(Quotes),
                     !.conf = ConfirmationOf(Best(Quotes))]
      [] Quotes = {} /\ SwapIntent(a, d) /\ d.intent = "swap" /\ s.requested ->
           [s EXCEPT !.selected = Best(s.cands)]
      [] OTHER -> s

\* The status is kept where its order belongs.
ReportedStatus(s) ==
    IF Saw({"order_open", "order_done"})
    THEN [s EXCEPT !.order = Latest({"order_open", "order_done"})] ELSE s

\* The order of the first status the turn found replaces the session's.
Reported(s) ==
    IF Saw({"order_open", "order_done"}) THEN [s EXCEPT !.order = AskedOrder] ELSE s

\* A prepared transaction of an earlier turn is dropped.
Card(s) == [s EXCEPT !.pending = IF Prepared THEN "transfer" ELSE None]

\* Going on whatever transaction the turn prepared.
GoesOnAnyway(s) == s.selected # None

\* The App goes on to the confirmation of a quote that was selected.
GoesOn(s) == s.selected # None /\ s.pending = None

FinalizeResponse(a, d, tapped, next, spread) ==
    LET action == Action(a, d, tapped)
        after == Card(Reported(Selection(cp, a, d)))
    IN /\ pc = "finalize" /\ hops < RecursionLimit
       /\ resp' = [kind |-> IF Prepared THEN "transfer_prepare" ELSE "react",
                   action |-> action,
                   chips |-> OfferedChips(a, d, tapped, next, spread),
                   portfolio |-> PortfolioCard(action),
                   quotes |-> Quotes]
       /\ cp' = after
       /\ IF GoesOn(after) THEN LeaveLoop("prepare", None) ELSE LeaveLoop("idle", "answered")
       /\ UNCHANGED <<turns, faults>>

\* What the choices depend on: a decision is asked for only when needed, a
\* tapped pair, the next card and the source chains matter to some of them.
Finalize ==
    \E risk \in BOOLEAN :
    LET a == ClientAction(risk)
    IN \E d \in IF NeedsDecision(a) THEN Decision ELSE {NoDecision},
          tapped \in IF a \in Keypad THEN BOOLEAN ELSE {FALSE} :
       \E next \in IF d.intent = "transfer" THEN TransferChips \cup {None} ELSE {None},
          spread \in IF d.pair THEN BOOLEAN ELSE {FALSE} :
          FinalizeResponse(a, d, tapped, next, spread)

\* The automatic swap_prepare: a new operation, whose confirmation is asked
\* for unless route_after_intent meets a rejected one.
SwapPrepare ==
    /\ pc = "prepare"
    /\ cp' = [cp EXCEPT !.order = None,
                        !.conf = IF @.st = "rejected" THEN @
                                 ELSE [st |-> "requested", for |-> cp.selected]]
    /\ EndTurn("answered")
    /\ UNCHANGED <<resp, turns, faults>>

----------------------------------------------------------------------------
(* Between the turns: the user answers the confirmation, signs, broadcasts. *)

Answer(st) ==
    /\ pc = "idle" /\ cp.conf.st = "requested"
    /\ cp' = [cp EXCEPT !.conf.st = st,
                        !.pending = IF st = "approved" THEN "swap" ELSE @]
    /\ UNCHANGED <<pc, steps, hops, sigs, calls, obs, resp, outcome, turns, faults>>

Broadcast(o) ==
    /\ pc = "idle" /\ cp.pending = "swap" /\ cp.order = None
    /\ cp' = [cp EXCEPT !.pending = None, !.order = o]
    /\ UNCHANGED <<pc, steps, hops, sigs, calls, obs, resp, outcome, turns, faults>>

Batch == {b \in UNION {[1..n -> Tool] : n \in 1..2} : Cardinality(ToSet(b)) = Len(b)}

RunStep ==
    \/ ReactEntry \/ AnswerAtLimit \/ ModelAnswers \/ ModelRepeats
    \/ \E b \in Batch : ModelCalls(b)
    \/ ToolsAnswer \/ ToolsTimeOut \/ OutOfSteps \/ Finalize \/ SwapPrepare

Next ==
    \/ \E q \in Order \cup {None} : Turn(q)
    \/ RunStep \/ ModelFails \/ Crash
    \/ \E st \in {"rejected", "lapsed", "approved"} : Answer(st)
    \/ \E o \in Order : Broadcast(o)

Spec == Init /\ [][Next]_vars

----------------------------------------------------------------------------

TypeOK ==
    /\ cp \in [pending : {None, "swap", "transfer"}, selected : Quote \cup {None},
               cands : SUBSET Quote, requested : BOOLEAN, conf : Confirmation,
               order : Order \cup {None}, query : Order \cup {None},
               orphan : BOOLEAN]
    /\ pc \in {"idle", "entry", "agent", "tools", "finalize", "prepare"}
    /\ steps \in 0..MaxReactSteps + 1
    /\ hops \in 0..RecursionLimit
    /\ sigs \subseteq Tool
    /\ calls \in Seq(Tool) /\ obs \in Seq(Observation)
    /\ resp \in Response \cup {None}
    /\ outcome \in {None, "answered", "failed"}
    /\ turns \in Nat /\ faults \in Nat

\* Whatever the model calls, repeats or finds, a turn is answered unless the
\* model raised or the process went down: the step limit stops the loop before
\* LangGraph's recursion limit does.
BudgetSuffices == outcome = "failed" => faults > 0

\* The model never sees a tool call without its ToolMessage, also after tools
\* that timed out or raised, as long as no process went down.
TranscriptPaired == cp.orphan => faults > 0

\* A prepared transaction and a confirmation that waits for its answer are
\* never on offer together.
NeverTwoCards == ~(cp.pending # None /\ cp.conf.st = "requested")

\* Quotes found in a turn are asked to be confirmed at its end, whatever
\* became of the confirmations of earlier quotes.
FreshQuoteAsks ==
    [][pc = "prepare" /\ outcome' = "answered" /\ resp.quotes # {} =>
          cp'.conf = [st |-> "requested", for |-> Best(resp.quotes)]]_vars
=============================================================================
