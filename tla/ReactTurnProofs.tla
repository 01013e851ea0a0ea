-------------------------- MODULE ReactTurnProofs --------------------------
(***************************************************************************)
(* Proofs about ReactTurn for every set of quotes and orders, every step   *)
(* limit and every number of calls, turns and faults.                      *)
(***************************************************************************)
EXTENDS ReactTurn, TLAPS

(* The budget of supersteps: react_entry takes one, every round of the     *)
(* model and its tools two, the answer at the limit and finalize_response  *)
(* one each.                                                               *)

Within ==
    /\ faults \in Nat /\ steps \in Nat
    /\ pc \in {"idle", "entry", "agent", "tools", "finalize", "prepare"}
    /\ pc \in {"idle", "entry", "prepare"} => hops = 0
    /\ pc = "agent" => steps <= MaxReactSteps /\ hops = 1 + 2 * steps
    /\ pc = "tools" => 1 <= steps /\ steps <= MaxReactSteps /\ hops = 2 * steps
    /\ pc = "finalize" => steps <= MaxReactSteps + 1 /\ hops = 2 * steps
    /\ BudgetSuffices

LEMMA LeavingStaysWithin ==
    ASSUME Within, NEW next \in {"idle", "prepare"}, NEW how \in {None, "answered"},
           LeaveLoop(next, how), faults' = faults
    PROVE  Within'
BY ReactAssumption DEF Within, LeaveLoop, BudgetSuffices

LEMMA FailingStaysWithin ==
    ASSUME Within, EndTurn("failed"), faults' = faults + 1
    PROVE  Within'
BY DEF Within, EndTurn, LeaveLoop, BudgetSuffices

LEMMA LoopStaysWithin ==
    ASSUME Within, ReactEntry \/ Say \/ (\E b \in Batch : ModelCalls(b))
                   \/ (\E found : Observe(found)),
           Say => steps <= MaxReactSteps
    PROVE  Within'
<1>0. MaxReactSteps \in Nat /\ faults' = faults /\ outcome' = outcome
  BY ReactAssumption DEF ReactEntry, Say, ModelCalls, Observe
<1>1. CASE ReactEntry
  BY <1>0, <1>1 DEF Within, ReactEntry, Superstep, BudgetSuffices
<1>2. CASE Say
  BY <1>0, <1>2 DEF Within, Say, Superstep, BudgetSuffices
<1>3. CASE \E b \in Batch : ModelCalls(b)
  BY <1>0, <1>3 DEF Within, ModelCalls, LimitReached, Superstep, BudgetSuffices
<1>4. CASE \E found : Observe(found)
  BY <1>0, <1>4 DEF Within, Observe, Superstep, BudgetSuffices
<1> QED BY <1>1, <1>2, <1>3, <1>4

\* With room for the limit's rounds, the recursion limit is never met.
LEMMA NeverOutOfSteps ==
    ASSUME Within, 2 * MaxReactSteps + 3 <= RecursionLimit
    PROVE  ~OutOfSteps
BY ReactAssumption DEF Within, OutOfSteps

LEMMA StepStaysWithin ==
    ASSUME Within, [Next]_vars, 2 * MaxReactSteps + 3 <= RecursionLimit
    PROVE  Within'
<1>0. MaxReactSteps \in Nat
  BY ReactAssumption
<1>1. CASE UNCHANGED vars
  BY <1>1 DEF Within, BudgetSuffices, vars
<1>2. CASE \E q \in Order \cup {None} : Turn(q)
  <2>1. pc = "idle" /\ pc' = "entry" /\ outcome' = None /\ UNCHANGED <<steps, hops, faults>>
    BY <1>2 DEF Turn
  <2> QED BY <2>1, ReactAssumption DEF Within, BudgetSuffices
<1>3. CASE RunStep
  <2>1. CASE ReactEntry \/ \E b \in Batch : ModelCalls(b)
    <3>1. ~Say \/ steps <= MaxReactSteps
      BY <2>1, <1>0 DEF ReactEntry, ModelCalls, LimitReached, Say, Superstep, Within
    <3> QED BY <2>1, <3>1, LoopStaysWithin
  <2>2. CASE AnswerAtLimit \/ ModelAnswers \/ ModelRepeats
    <3>1. Say /\ steps <= MaxReactSteps
      BY <2>2 DEF AnswerAtLimit, ModelAnswers, ModelRepeats, Say, Superstep, Within
    <3> QED BY <3>1, LoopStaysWithin
  <2>3. CASE ToolsAnswer \/ ToolsTimeOut
    <3>1. \E found : Observe(found)
      BY <2>3 DEF ToolsAnswer, ToolsTimeOut
    <3>2. pc = "tools" /\ (Say => pc = "agent")
      BY <3>1 DEF Observe, Superstep, Say
    <3> QED BY <3>1, <3>2, LoopStaysWithin
  <2>4. CASE OutOfSteps
    BY <2>4, NeverOutOfSteps
  <2>5. CASE Finalize
    <3>1. \E how \in {None, "answered"}, next \in {"idle", "prepare"} : LeaveLoop(next, how)
      BY <2>5 DEF Finalize, FinalizeResponse
    <3>2. faults' = faults
      BY <2>5 DEF Finalize, FinalizeResponse
    <3> QED BY <3>1, <3>2, LeavingStaysWithin
  <2>6. CASE SwapPrepare
    <3>1. LeaveLoop("idle", "answered") /\ faults' = faults
      BY <2>6 DEF SwapPrepare, EndTurn
    <3> QED BY <3>1, LeavingStaysWithin
  <2> QED BY <1>3, <2>1, <2>2, <2>3, <2>4, <2>5, <2>6 DEF RunStep
<1>4. CASE ModelFails \/ Crash
  BY <1>4, FailingStaysWithin DEF ModelFails, Crash
<1>5. CASE (\E st \in {"rejected", "lapsed", "approved"} : Answer(st)) \/ \E o \in Order : Broadcast(o)
  <2>1. UNCHANGED <<pc, steps, hops, faults, outcome>>
    BY <1>5 DEF Answer, Broadcast
  <2> QED BY <2>1 DEF Within, BudgetSuffices
<1> QED BY <1>1, <1>2, <1>3, <1>4, <1>5 DEF Next

\* runtime.max_react_steps ends the loop before LangGraph's limit does: a turn
\* fails only when the model raised or the process went down.
THEOREM TurnsAreAnswered ==
    ASSUME 2 * MaxReactSteps + 3 <= RecursionLimit
    PROVE  Spec => []BudgetSuffices
<1>1. Init => Within
  BY ReactAssumption DEF Init, Within, BudgetSuffices
<1>2. Within /\ [Next]_vars => Within'
  BY StepStaysWithin
<1>3. Within => BudgetSuffices
  BY DEF Within
<1> QED BY <1>1, <1>2, <1>3, PTL DEF Spec

-----------------------------------------------------------------------------
(* The fields of the checkpoint that the safety of the cards is about.      *)

Fields(s) ==
    /\ {"pending", "selected", "cands", "requested", "conf", "order", "query", "orphan"}
          \subseteq DOMAIN s
    /\ {"st", "for"} \subseteq DOMAIN s.conf

LEMMA SelectionFields ==
    ASSUME NEW s, NEW a, NEW d, Fields(s), Fields(cp), cp.conf = s.conf
    PROVE  /\ Fields(Selection(s, a, d))
           /\ Selection(s, a, d).pending = s.pending
           /\ Selection(s, a, d).orphan = s.orphan
           /\ s.conf.st # "requested" => Selection(s, a, d).conf.st # "requested"
           /\ Quotes # {} => /\ Selection(s, a, d).selected = Best(Quotes)
                             /\ Selection(s, a, d).conf.st \in {"none", "requested"}
<1> DEFINE drops == ConfirmationOf(Best(Quotes))
<1>1. /\ {"st", "for"} \subseteq DOMAIN drops
      /\ drops.st \in {"none", "requested"}
      /\ s.conf.st # "requested" => drops.st # "requested"
  BY DEF Fields, ConfirmationOf, NoConfirmation
<1>2. CASE Quotes # {}
  <2>1. Selection(s, a, d) = [s EXCEPT !.cands = Quotes, !.requested = TRUE,
                                       !.selected = Best(Quotes), !.conf = drops]
    BY <1>2 DEF Selection
  <2> HIDE DEF drops
  <2> QED BY <1>1, <2>1, <1>2 DEF Fields
<1>3. CASE Quotes = {} /\ SwapIntent(a, d) /\ d.intent = "swap" /\ s.requested
  <2>1. Selection(s, a, d) = [s EXCEPT !.selected = Best(s.cands)]
    BY <1>3 DEF Selection
  <2> QED BY <2>1, <1>3 DEF Fields
<1>4. CASE Quotes = {} /\ ~(SwapIntent(a, d) /\ d.intent = "swap" /\ s.requested)
  <2>1. Selection(s, a, d) = s
    BY <1>4 DEF Selection
  <2> QED BY <2>1, <1>4
<1> QED BY <1>2, <1>3, <1>4

LEMMA CardFields ==
    ASSUME NEW s, Fields(s)
    PROVE  /\ Fields(Card(Reported(s)))
           /\ Card(Reported(s)).conf = s.conf
           /\ Card(Reported(s)).selected = s.selected
           /\ Card(Reported(s)).orphan = s.orphan
<1>1. /\ Fields(Reported(s)) /\ Reported(s).conf = s.conf
      /\ Reported(s).selected = s.selected /\ Reported(s).orphan = s.orphan
  BY DEF Reported, Fields
<1>2. ASSUME NEW r, Fields(r)
      PROVE  /\ Fields(Card(r)) /\ Card(r).conf = r.conf
             /\ Card(r).selected = r.selected /\ Card(r).orphan = r.orphan
  BY <1>2 DEF Card, Fields
<1> QED BY <1>1, <1>2

(* A turn starts without a confirmation that waits, as its order is gone    *)
(* when one is asked for; only SwapPrepare asks for one, and only with no   *)
(* transaction on offer.  Calls wait for their tools between the nodes that *)
(* make and run them.                                                       *)

Cards ==
    /\ faults \in Nat
    /\ pc \in {"idle", "entry", "agent", "tools", "finalize", "prepare"}
    /\ Fields(cp)
    /\ calls \in Seq(Tool)
    /\ TranscriptPaired
    /\ cp.conf.st = "requested" =>
          pc = "idle" /\ cp.order = None /\ cp.pending = None
    /\ pc = "prepare" =>
          /\ cp.pending = None /\ outcome # "answered"
          /\ resp.quotes # {} => /\ cp.selected = Best(resp.quotes)
                                 /\ cp.conf.st # "rejected"

LEMMA BatchOfTools ==
    ASSUME NEW b \in Batch PROVE b \in Seq(Tool)
<1>1. PICK n \in 1..2 : b \in [1..n -> Tool]
  BY DEF Batch
<1> QED BY <1>1

LEMMA AnswersAll ==
    ASSUME calls \in Seq(Tool), NEW found, DOMAIN found = DOMAIN calls,
           found = [i \in DOMAIN found |-> found[i]]
    PROVE  Len(found) = Len(calls)
<1>1. DOMAIN calls = 1..Len(calls) /\ Len(calls) \in Nat
  OBVIOUS
<1> DEFINE V == {found[i] : i \in DOMAIN found}
<1>2. found \in [1..Len(calls) -> V]
  BY <1>1
<1>3. found \in Seq(V)
  BY <1>1, <1>2
<1> HIDE DEF V
<1> QED BY <1>1, <1>2, <1>3

LEMMA ObserveKeepsCards ==
    ASSUME Cards, NEW found, Observe(found), Len(found) = Len(calls), calls' = <<>>
    PROVE  Cards'
<1>1. Len(calls) \in Nat /\ pc = "tools" /\ pc' = "agent" /\ faults' = faults
  BY DEF Cards, Observe, Superstep
<1> DEFINE lost == cp.orphan \/ Len(found) < Len(calls)
<1>2. cp' = [cp EXCEPT !.orphan = lost] /\ (lost => cp.orphan)
  BY <1>1 DEF Observe
<1> HIDE DEF lost
<1>3. /\ Fields(cp') /\ (cp'.orphan => cp.orphan)
      /\ cp'.conf = cp.conf /\ cp'.order = cp.order /\ cp'.pending = cp.pending
  BY <1>2 DEF Fields, Cards
<1> QED BY <1>1, <1>3 DEF Cards, TranscriptPaired

LEMMA FinalizeKeepsCards ==
    ASSUME Cards, NEW a, NEW d, NEW tapped, NEW next, NEW spread,
           FinalizeResponse(a, d, tapped, next, spread)
    PROVE  Cards'
<1> DEFINE chosen == Selection(cp, a, d)
<1> DEFINE after == Card(Reported(chosen))
<1>1. /\ pc = "finalize" /\ cp' = after /\ faults' = faults /\ calls' = <<>>
      /\ resp'.quotes = Quotes
      /\ \/ pc' = "prepare" /\ outcome' = None /\ GoesOn(after)
         \/ pc' = "idle"
  BY DEF FinalizeResponse, LeaveLoop
<1>2. /\ Fields(chosen) /\ chosen.orphan = cp.orphan
      /\ chosen.conf.st # "requested"
      /\ Quotes # {} => chosen.selected = Best(Quotes) /\ chosen.conf.st \in {"none", "requested"}
  BY <1>1, SelectionFields DEF Cards
<1> HIDE DEF chosen
<1>3. /\ Fields(after) /\ after.conf = chosen.conf
      /\ after.selected = chosen.selected /\ after.orphan = chosen.orphan
  BY <1>2, CardFields
<1> HIDE DEF after
<1>4. /\ Fields(cp') /\ cp'.orphan = cp.orphan /\ cp'.conf.st # "requested"
      /\ Quotes # {} => cp'.selected = Best(Quotes) /\ cp'.conf.st # "rejected"
  BY <1>1, <1>2, <1>3
<1>5. TranscriptPaired' /\ calls' \in Seq(Tool) /\ faults' \in Nat
  BY <1>1, <1>4 DEF Cards, TranscriptPaired
<1>6. CASE pc' = "idle"
  BY <1>4, <1>5, <1>6 DEF Cards
<1>7. CASE pc' = "prepare" /\ outcome' = None /\ GoesOn(after)
  <2>1. cp'.pending = None /\ outcome' # "answered"
    BY <1>1, <1>7, ReactAssumption DEF GoesOn
  <2> QED BY <1>1, <1>4, <1>5, <1>7, <2>1 DEF Cards, Best
<1> QED BY <1>1, <1>6, <1>7

LEMMA StepKeepsCards ==
    ASSUME Cards, [Next]_vars
    PROVE  Cards'
<1>1. CASE UNCHANGED vars
  BY <1>1 DEF Cards, TranscriptPaired, Best, vars
<1>2. ASSUME NEW q \in Order \cup {None}, Turn(q) PROVE Cards'
  <2> DEFINE asked == IF q = None THEN cp.query ELSE q
  <2>1. /\ pc = "idle" /\ pc' = "entry" /\ UNCHANGED <<calls, faults>>
        /\ cp' = [cp EXCEPT !.query = asked] /\ (cp.conf.st # "requested" \/ cp.order # None)
    BY <1>2 DEF Turn
  <2> HIDE DEF asked
  <2>2. Fields(cp') /\ cp'.orphan = cp.orphan /\ cp'.conf = cp.conf
    BY <2>1 DEF Cards, Fields
  <2> QED BY <2>1, <2>2 DEF Cards, TranscriptPaired
<1>3. CASE RunStep
  <2>1. CASE ReactEntry
    <3>1. /\ pc = "entry" /\ pc' = "agent" /\ UNCHANGED <<calls, faults>>
          /\ cp' = [cp EXCEPT !.selected = None]
      BY <2>1 DEF ReactEntry, Superstep
    <3>2. Fields(cp') /\ cp'.orphan = cp.orphan /\ cp'.conf = cp.conf
      BY <3>1 DEF Cards, Fields
    <3> QED BY <3>1, <3>2 DEF Cards, TranscriptPaired
  <2>2. CASE AnswerAtLimit \/ ModelAnswers \/ ModelRepeats
    <3>1. pc = "agent" /\ pc' = "finalize" /\ UNCHANGED <<cp, calls, faults>>
      BY <2>2 DEF AnswerAtLimit, ModelAnswers, ModelRepeats, Say, Superstep
    <3> QED BY <3>1 DEF Cards, TranscriptPaired
  <2>3. ASSUME NEW b \in Batch, ModelCalls(b) PROVE Cards'
    <3>1. pc = "agent" /\ pc' = "tools" /\ UNCHANGED <<cp, faults>> /\ calls' = b
      BY <2>3 DEF ModelCalls, Superstep
    <3> QED BY <3>1, BatchOfTools DEF Cards, TranscriptPaired
  <2>4. CASE ToolsAnswer
    <3>1. PICK found \in [DOMAIN calls -> UNION {Finds(t) : t \in ToSet(calls)}] : Observe(found)
      BY <2>4 DEF ToolsAnswer
    <3>2. Len(found) = Len(calls)
      BY AnswersAll DEF Cards
    <3> QED BY <3>1, <3>2, ObserveKeepsCards DEF Observe
  <2>5. CASE ToolsTimeOut
    <3> DEFINE found == Failed(calls)
    <3>1. Observe(found)
      BY <2>5 DEF ToolsTimeOut
    <3>2. DOMAIN found = DOMAIN calls /\ found = [i \in DOMAIN found |-> found[i]]
      BY DEF Failed
    <3> HIDE DEF found
    <3>3. Len(found) = Len(calls)
      BY <3>2, AnswersAll DEF Cards
    <3> QED BY <3>1, <3>3, ObserveKeepsCards DEF Observe
  <2>6. CASE OutOfSteps
    <3>1. pc' = "idle" /\ UNCHANGED <<cp, faults>> /\ calls' = <<>> /\ pc \notin {"idle", "prepare"}
      BY <2>6 DEF OutOfSteps, EndTurn, LeaveLoop
    <3> QED BY <3>1 DEF Cards, TranscriptPaired
  <2>7. CASE Finalize
    BY <2>7, FinalizeKeepsCards DEF Finalize
  <2>8. CASE SwapPrepare
    <3> DEFINE asked == IF cp.conf.st = "rejected" THEN cp.conf
                        ELSE [st |-> "requested", for |-> cp.selected]
    <3>1. /\ pc = "prepare" /\ pc' = "idle" /\ faults' = faults /\ calls' = <<>>
          /\ cp' = [cp EXCEPT !.order = None, !.conf = asked]
      BY <2>8 DEF SwapPrepare, EndTurn, LeaveLoop
    <3>2. {"st", "for"} \subseteq DOMAIN asked
      BY DEF Cards, Fields
    <3> HIDE DEF asked
    <3>3. /\ Fields(cp') /\ cp'.orphan = cp.orphan /\ cp'.pending = cp.pending
          /\ cp'.order = None
      BY <3>1, <3>2 DEF Cards, Fields
    <3> QED BY <3>1, <3>3 DEF Cards, TranscriptPaired
  <2> QED BY <1>3, <2>1, <2>2, <2>3, <2>4, <2>5, <2>6, <2>7, <2>8 DEF RunStep
<1>4. CASE ModelFails
  <2>1. pc = "agent" /\ pc' = "idle" /\ cp' = cp /\ calls' = <<>> /\ faults' = faults + 1
    BY <1>4 DEF ModelFails, EndTurn, LeaveLoop
  <2> QED BY <2>1 DEF Cards, TranscriptPaired
<1>5. CASE Crash
  <2> DEFINE lost == cp.orphan \/ calls # <<>>
  <2>1. /\ pc \notin {"idle", "prepare"} /\ pc' = "idle" /\ calls' = <<>> /\ faults' = faults + 1
        /\ cp' = [cp EXCEPT !.orphan = lost]
    BY <1>5 DEF Crash, EndTurn, LeaveLoop
  <2> HIDE DEF lost
  <2>2. Fields(cp') /\ cp'.conf = cp.conf
    BY <2>1 DEF Cards, Fields
  <2>3. faults' > 0 /\ faults' \in Nat
    BY <2>1 DEF Cards
  <2> QED BY <2>1, <2>2, <2>3 DEF Cards, TranscriptPaired
<1>6. ASSUME NEW st \in {"rejected", "lapsed", "approved"}, Answer(st) PROVE Cards'
  <2> DEFINE signed == IF st = "approved" THEN "swap" ELSE cp.pending
  <2>1. /\ pc = "idle" /\ UNCHANGED <<pc, calls, faults>>
        /\ cp' = [cp EXCEPT !.conf.st = st, !.pending = signed]
    BY <1>6 DEF Answer
  <2> HIDE DEF signed
  <2>2. Fields(cp') /\ cp'.orphan = cp.orphan /\ cp'.conf.st = st
    BY <2>1 DEF Cards, Fields
  <2> QED BY <2>1, <2>2 DEF Cards, TranscriptPaired
<1>7. ASSUME NEW o \in Order, Broadcast(o) PROVE Cards'
  <2>1. /\ pc = "idle" /\ UNCHANGED <<pc, calls, faults>> /\ cp.pending # None
        /\ cp' = [cp EXCEPT !.pending = None, !.order = o]
    BY <1>7, ReactAssumption DEF Broadcast
  <2>2. Fields(cp') /\ cp'.orphan = cp.orphan /\ cp'.conf = cp.conf
    BY <2>1 DEF Cards, Fields
  <2> QED BY <2>1, <2>2 DEF Cards, TranscriptPaired
<1> QED BY <1>1, <1>2, <1>3, <1>4, <1>5, <1>6, <1>7 DEF Next

LEMMA CardsHold == Spec => []Cards
<1>1. Init => Cards
  BY ReactAssumption DEF Init, Cards, Fields, NoConfirmation, TranscriptPaired
<1>2. Cards /\ [Next]_vars => Cards'
  BY StepKeepsCards
<1> QED BY <1>1, <1>2, PTL DEF Spec

\* run_react_tools answers every call of the model, whatever its tools do: a
\* call without its ToolMessage is left only by a process that went down.
THEOREM CallsAreAnswered == Spec => []TranscriptPaired
<1>1. Cards => TranscriptPaired
  BY DEF Cards
<1> QED BY <1>1, CardsHold, PTL

\* Of a prepared transaction and a confirmation that waits for its answer, one
\* at most is on offer, after any sequence of turns, answers and broadcasts.
THEOREM OneCardAtATime == Spec => []NeverTwoCards
<1>1. Cards => NeverTwoCards
  BY DEF Cards, NeverTwoCards
<1> QED BY <1>1, CardsHold, PTL

\* The automatic swap_prepare after a turn that found quotes asks for the
\* confirmation of the best of them: finalize_response has dropped a rejected
\* confirmation, which route_after_intent would stop at.
THEOREM QuotesAreAskedFor == Spec => FreshQuoteAsks
<1> DEFINE Asks == pc = "prepare" /\ outcome' = "answered" /\ resp.quotes # {} =>
                     cp'.conf = [st |-> "requested", for |-> Best(resp.quotes)]
<1>1. Cards /\ [Next]_vars => [Asks]_vars
  <2> SUFFICES ASSUME Cards, Next, pc = "prepare", outcome' = "answered", resp.quotes # {}
               PROVE  cp'.conf = [st |-> "requested", for |-> Best(resp.quotes)]
    OBVIOUS
  <2>1. cp.selected = Best(resp.quotes) /\ cp.conf.st # "rejected" /\ "conf" \in DOMAIN cp
    BY DEF Cards, Fields
  <2>2. SwapPrepare
    BY DEF Next, RunStep, Turn, ReactEntry, AnswerAtLimit, ModelAnswers, ModelRepeats, Say,
           ModelCalls, ToolsAnswer, ToolsTimeOut, Observe, OutOfSteps, Finalize,
           FinalizeResponse, ModelFails, Crash, Answer, Broadcast, Superstep
  <2> QED BY <2>1, <2>2 DEF SwapPrepare
<1>2. Spec => [][Asks]_vars
  BY <1>1, CardsHold, PTL DEF Spec
<1> QED BY <1>2 DEF FreshQuoteAsks
=============================================================================
