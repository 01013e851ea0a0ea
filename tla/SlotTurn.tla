------------------------------ MODULE SlotTurn ------------------------------
(***************************************************************************)
(* The slot-filling graph: supervisor, intent, then the resolution and the *)
(* quotes of a swap, the preparation of a transfer, or a read, over the    *)
(* checkpoint of one conversation.  It answers every turn when the graphs  *)
(* are not split, and in the split graphs a chat message that arrives      *)
(* while a confirmation waits (confirmation_wait reparses it).             *)
(*                                                                         *)
(* A slot is filled by what a message says of it, by a resolver, or from   *)
(* the last request.  A sum keeps, next to its value, the coin it was said *)
(* for, and token metadata the coin it describes: the code has no such     *)
(* marks, the properties need them.  What the model understands, what      *)
(* providers list, price and quote is arbitrary.  A quote is identified by *)
(* its provider and its request.  Of swap_request the model keeps what the *)
(* user asked for: the coins and the sums said, not the amount a sum in    *)
(* dollars came to nor the source address, which no quote follows.         *)
(***************************************************************************)
EXTENDS Naturals, Sequences, FiniteSets, SequencesExt

CONSTANTS
    None,
    Symbol, Chain, Amount, Provider,
    NativeOf,     \* the only chain whose own coin a symbol is, or None
    BtcChain,     \* the chain whose source address the user must pick
    WalletChain,  \* the chain of the connected account
    MaxSaid,      \* bound: for each turn, the slots its message may speak of
    MaxOrders,    \* bound: broadcasts
    MaxHistory    \* operations that operation_history keeps

VARIABLES
    cp,      \* the fields of the checkpoint that outlive a turn
    pc,      \* the node that runs next, "idle" between turns
    said,    \* the intent the supervisor decided on
    turns,
    placed,    \* the kinds of what was broadcast, in order
    abandoned  \* a message that was not understood replaced the task of an
               \* operation under way

vars == <<cp, pc, said, turns, placed, abandoned>>

\* What the code does not keep.
marks == <<placed, abandoned>>

CoinName == (Symbol \cup {None}) \X (Chain \cup {None})

Side == [sym : Symbol \cup {None}, chain : Chain \cup {None}, tok : CoinName \cup {None}]
NoSide == [sym |-> None, chain |-> None, tok |-> None]

Sum == [n : Amount, of : CoinName, by : {"user", "price"}]

\* Of a transfer only src, in and to are used.
Slots == [src : Side, dst : Side, in : Sum \cup {None}, out : Sum \cup {None},
          usd : BOOLEAN, from : BOOLEAN, to : BOOLEAN]
NoSlots == [src |-> NoSide, dst |-> NoSide, in |-> None, out |-> None,
            usd |-> FALSE, from |-> FALSE, to |-> FALSE]

RequestType == [src : Side, dst : Side, in : Sum \cup {None}, out : Sum \cup {None}]

Task == [kind : {"swap", "transfer"}, status : {"collecting", "ready", "cancelled"},
         slots : Slots, pin : Provider \cup {None}]

SlotAssumption ==
    /\ NativeOf \in [Symbol -> Chain \cup {None}]
    /\ BtcChain \in Chain \cup {None} /\ WalletChain \in Chain
    /\ None \notin Symbol \cup Chain \cup Amount \cup Provider
    /\ None \notin Nat \cup Task \cup RequestType
    /\ MaxOrders \in Nat
    /\ MaxHistory \in Nat \ {0}
    /\ MaxSaid \in Seq(Nat)

NewTask(kind) == [kind |-> kind, status |-> "collecting", slots |-> NoSlots, pin |-> None]

NoConfirmation == [st |-> "none", for |-> None]

Init ==
    /\ cp = [task |-> None, selected |-> None, cands |-> {}, conf |-> NoConfirmation,
             pending |-> None, hash |-> None, order |-> None, request |-> None,
             query |-> None, hist |-> <<>>]
    /\ pc = "idle" /\ said = None
    /\ turns = 0 /\ placed = <<>> /\ abandoned = FALSE

----------------------------------------------------------------------------
(* What one message says: a field it does not speak of is None or FALSE.   *)

Native(sym, chain) == sym # None /\ NativeOf[sym] # None /\ NativeOf[sym] = chain

Coin(side) == <<side.sym, side.chain>>

\* A symbol, a chain, both, or a chip with the token's contract.
SideSaid ==
    {[sym |-> s, chain |-> c, tok |-> None] : s \in Symbol \cup {None}, c \in Chain \cup {None}}
    \cup {[sym |-> x[1], chain |-> x[2], tok |-> x] :
             x \in {y \in Symbol \X Chain : ~Native(y[1], y[2])}}

\* _task_patch, and the hints taken from the message: a value in dollars only
\* counts without an amount.
SwapPatch ==
    {p \in [src : SideSaid, dst : SideSaid, in : Amount \cup {None},
            out : Amount \cup {None}, usd : BOOLEAN, from : BOOLEAN, to : {FALSE}] :
        p.usd => p.in = None /\ p.out = None}

TransferPatch ==
    [src : SideSaid, dst : {NoSide}, in : Amount \cup {None}, out : {None},
     usd : {FALSE}, from : {FALSE}, to : BOOLEAN]

\* The number of slots a message speaks of; a chip fills a side.
Weight(p) ==
    LET one(b) == IF b THEN 1 ELSE 0
    IN one(p.src.sym # None) + one(p.src.chain # None /\ p.src.tok = None)
       + one(p.dst.sym # None) + one(p.dst.chain # None /\ p.dst.tok = None)
       + one(p.in # None) + one(p.out # None) + one(p.usd) + one(p.from) + one(p.to)

SaidOf(patches) == [i \in DOMAIN MaxSaid |-> {p \in patches : Weight(p) <= MaxSaid[i]}]
SaidOfSwap == SaidOf(SwapPatch)
SaidOfTransfer == SaidOf(TransferPatch)

LastTurn == Len(MaxSaid)

----------------------------------------------------------------------------
(* merge_task_patch.                                                       *)

\* Token metadata goes with the symbol and the chain it was resolved for.
MergeSide(side, p) ==
    LET sym == IF p.sym = None THEN side.sym ELSE p.sym
        chain == IF p.chain = None THEN side.chain ELSE p.chain
        kept == IF <<sym, chain>> = Coin(side) THEN side.tok ELSE None
    IN [sym |-> sym, chain |-> chain, tok |-> IF p.tok = None THEN kept ELSE p.tok]

\* A symbol that is the coin of one chain only takes that chain.
PinNative(side, p) ==
    LET m == MergeSide(side, p)
    IN IF m.tok = None /\ m.sym # None /\ NativeOf[m.sym] # None
       THEN [p EXCEPT !.chain = NativeOf[m.sym]]
       ELSE p

\* The source asset is another one, not merely known better.
Switched(old, new) ==
    \/ old.sym # None /\ new.sym # old.sym
    \/ old.chain # None /\ new.chain # old.chain
    \/ old.tok # None /\ new.tok # old.tok

\* A coin that is known better now is still the one the sum was said for.
Bound(sum, side) ==
    IF sum = None THEN None
    ELSE [sum EXCEPT !.of = [i \in {1, 2} |-> IF @[i] = None THEN Coin(side)[i] ELSE @[i]]]

Said(n, side) == [n |-> n, of |-> Coin(side), by |-> "user"]

\* The amounts of a swap once the sides have become src and dst.  A sum that
\* was restated unchanged is no change, but belongs to the side of now.
MergeSums(slots, p, src, dst, switched) ==
    LET changed(old, n) == n # None /\ (old = None \/ old.n # n)
        inNew == changed(slots.in, p.in)
        outNew == changed(slots.out, p.out)
        usd == CASE inNew \/ outNew -> FALSE
                 [] ~inNew /\ ~outNew /\ p.usd -> TRUE
                 [] OTHER -> slots.usd /\ ~(switched /\ p.in = None /\ p.out = None)
        in == CASE outNew \/ p.usd -> None
                [] ~outNew /\ inNew -> Said(p.in, src)
                [] ~inNew /\ ~outNew /\ ~p.usd /\ p.in # None ->
                       [slots.in EXCEPT !.of = Coin(src)]
                [] OTHER -> IF switched THEN None ELSE slots.in
        out == CASE inNew \/ p.usd -> None
                 [] ~inNew /\ outNew -> Said(p.out, dst)
                 [] ~inNew /\ ~outNew /\ usd /\ dst # slots.dst -> None
                 [] ~inNew /\ ~outNew /\ ~p.usd /\ p.out # None
                    /\ ~(usd /\ dst # slots.dst) -> [slots.out EXCEPT !.of = Coin(dst)]
                 [] OTHER -> IF switched THEN None ELSE slots.out
    IN [slots EXCEPT !.src = src, !.dst = dst, !.usd = usd,
                     !.in = Bound(in, src), !.out = Bound(out, dst)]

\* A merge that takes an amount along to whatever the source becomes.
MergeSwapCarries(slots, p) ==
    LET src == MergeSide(slots.src, PinNative(slots.src, p.src))
        dst == MergeSide(slots.dst, PinNative(slots.dst, p.dst))
    IN MergeSums(slots, p, src, dst, FALSE)

MergeSwap(slots, p) ==
    LET src == MergeSide(slots.src, PinNative(slots.src, p.src))
        dst == MergeSide(slots.dst, PinNative(slots.dst, p.dst))
    IN MergeSums(slots, p, src, dst, Switched(slots.src, src))

\* Another symbol takes neither the amount nor the chain of the old one.
MergeTransfer(slots, p) ==
    LET other == slots.src.sym # None /\ p.src.sym \notin {None, slots.src.sym}
        m == MergeSide(slots.src, p.src)
        home == IF Native(p.src.sym, WalletChain) THEN WalletChain ELSE None
        src == IF other /\ p.src.chain = None THEN [m EXCEPT !.chain = home] ELSE m
        in == CASE p.in # None -> Said(p.in, src)
                [] p.in = None /\ other -> None
                [] OTHER -> slots.in
    IN [slots EXCEPT !.src = src, !.in = Bound(in, src), !.to = @ \/ p.to]

\* _swap_draft_from_request: an empty draft starts from the last request.
FromRequest(req) ==
    [NoSlots EXCEPT !.src = req.src, !.dst = req.dst, !.in = req.in, !.out = req.out,
                    !.from = req.src.chain = BtcChain]

\* What the user asked for, which quotes and confirmations are about.
Request(slots) ==
    [src |-> slots.src, dst |-> slots.dst, in |-> slots.in,
     out |-> IF slots.usd THEN None ELSE slots.out]

----------------------------------------------------------------------------
(* The resolvers.                                                          *)

Known(side) ==
    side.sym # None /\ side.chain # None
    /\ (side.tok # None \/ Native(side.sym, side.chain))

Unresolved(side) == side.sym # None /\ side.chain # None /\ ~Known(side)

WithToken(side, found) ==
    IF found /\ Unresolved(side) THEN [side EXCEPT !.tok = Coin(side)] ELSE side

WithTokens(slots, s, d) ==
    [slots EXCEPT !.src = WithToken(@, s), !.dst = WithToken(@, d)]

Found(slots) == {WithTokens(slots, s, d) : s \in BOOLEAN, d \in BOOLEAN}

\* _resolve_swap_assets: each side that is named and not known finds one token,
\* several or none, and a provider that raises is an error all the same.
Resolutions(slots) ==
    IF ~Unresolved(slots.src) /\ ~Unresolved(slots.dst)
    THEN {[slots |-> slots, err |-> FALSE, many |-> FALSE]}
    ELSE {r \in [slots : Found(slots), err : BOOLEAN, many : BOOLEAN] :
            LET open == Unresolved(r.slots.src) \/ Unresolved(r.slots.dst)
            IN (open => r.err \/ r.many) /\ (r.many => open)}

\* _resolve_swap_target_value: dollars become an amount of the destination.
Conversions(slots) ==
    IF ~slots.usd \/ ~Known(slots.dst)
    THEN {[slots |-> slots, err |-> FALSE]}
    ELSE {[slots |-> slots, err |-> TRUE]}
         \cup {[slots |-> [slots EXCEPT !.in = None,
                              !.out = [n |-> n, of |-> Coin(slots.dst), by |-> "price"]],
                err |-> FALSE] : n \in Amount}

\* _swap_draft_request.
Quotable(slots) ==
    /\ Known(slots.src) /\ Known(slots.dst)
    /\ slots.in # None \/ slots.out # None
    /\ Coin(slots.src) # Coin(slots.dst)

\* _swap_requires_btc_source_selection.
NeedsSource(slots) == slots.src.chain = BtcChain /\ BtcChain # None /\ ~slots.from

\* _transfer_draft_request, after _resolve_transfer_asset.  Without a symbol the
\* transfer is one of the chain's coin.
TransferReady(slots) ==
    LET chain == IF slots.src.chain # None THEN slots.src.chain
                 ELSE IF slots.src.sym # None /\ NativeOf[slots.src.sym] # None
                      THEN NativeOf[slots.src.sym] ELSE WalletChain
    IN /\ slots.in # None /\ slots.to
       /\ slots.src.sym = None \/ slots.src.tok # None \/ Native(slots.src.sym, chain)

----------------------------------------------------------------------------
(* The turn.                                                               *)

\* An operation that was broadcast, quoted, confirmed or prepared.
Active(c) ==
    c.order # None \/ c.hash # None \/ c.selected # None
    \/ c.conf.st # "none" \/ c.pending # None

\* _operation_snapshot.
Archived(c) ==
    IF c.order = None /\ c.hash = None /\ c.selected = None THEN c.hist
    ELSE LET h == Append(c.hist, [kind |-> IF c.task = None THEN "swap" ELSE c.task.kind,
                                  order |-> c.order, hash |-> c.hash,
                                  selected |-> c.selected])
         IN SubSeq(h, IF Len(h) > MaxHistory THEN Len(h) - MaxHistory + 1 ELSE 1, Len(h))

Cleared(c) ==
    [c EXCEPT !.selected = None, !.cands = {}, !.conf = NoConfirmation,
              !.pending = None, !.hash = None, !.order = None, !.query = None]

\* A reset that archives what it has just cleared.
ResetFirst(c) == [Cleared(c) EXCEPT !.hist = Archived(Cleared(c))]

\* operation_reset.
Reset(c) == [Cleared(c) EXCEPT !.hist = Archived(c)]

\* A change of the slots that leaves the quote on offer.
InvalidatedLate(c, kind) == [c EXCEPT !.conf = NoConfirmation, !.pending = None]

\* task_invalidation.
Invalidated(c, kind) ==
    IF kind = "transfer"
    THEN [c EXCEPT !.conf = NoConfirmation, !.pending = None]
    ELSE [c EXCEPT !.conf = NoConfirmation, !.pending = None, !.selected = None,
                   !.cands = {}, !.request = None]

\* The task a message of this kind goes on with.
TaskFor(kind) ==
    IF cp.task = None \/ cp.task.kind # kind \/ cp.task.status = "cancelled"
    THEN NewTask(kind) ELSE cp.task

\* A new request for the same kind starts over; a message the supervisor could
\* not place goes on with the task as it is.
Base(kind) ==
    IF Active(cp) /\ \/ cp.task = None \/ cp.task.kind # kind
                     \/ cp.task.status = "cancelled" \/ said # "clarify"
    THEN Reset(cp) ELSE cp

\* The kind of task the intent node works on.
TaskKind ==
    CASE said \in {"swap", "transfer"} -> said
      [] said = "clarify" /\ cp.task # None -> cp.task.kind
      [] OTHER -> None

Hydrated(c, i) ==
    LET swaps == {k \in DOMAIN c.hist : c.hist[k].kind = "swap"
                                        /\ (c.hist[k].order # None \/ c.hist[k].hash # None)}
        last == c.hist[CHOOSE k \in swaps : \A j \in swaps : j <= k]
    IN IF i = "status" /\ c.order = None /\ c.hash = None /\ swaps # {}
       THEN [c EXCEPT !.order = last.order, !.hash = last.hash, !.selected = last.selected]
       ELSE c

\* A reparse after which there is no record of a confirmation at all.
ReparsedBare(c) ==
    IF c.conf.st = "requested"
    THEN [c EXCEPT !.conf = None, !.selected = None, !.cands = {},
                   !.request = None, !.pending = None]
    ELSE c

\* confirmation_wait: a message in place of an answer drops what was asked.
Reparsed(c) ==
    IF c.conf.st = "requested"
    THEN [c EXCEPT !.conf = NoConfirmation, !.selected = None, !.cands = {},
                   !.request = None, !.pending = None]
    ELSE c

\* The supervisor: the model decides, or raises, which is "clarify" too.
Supervisor(i) ==
    /\ pc = "idle" /\ turns < LastTurn
    /\ i = "cancel" => cp.task # None \/ cp.request # None \/ cp.selected # None
    /\ turns' = turns + 1
    /\ cp' = Hydrated(Reparsed(cp), i)
    /\ said' = i
    /\ pc' = "intent"
    /\ UNCHANGED marks

\* What was decided is of no use after the intent node.
Goto(node) == pc' = node /\ said' = None

EndTurn == Goto("idle")

\* "cancel" in so many words.
CancelTask ==
    /\ pc = "intent" /\ said = "cancel"
    /\ cp' = [cp EXCEPT !.task = IF @ = None THEN None ELSE [@ EXCEPT !.status = "cancelled"],
                        !.request = None, !.cands = {}, !.selected = None,
                        !.conf = NoConfirmation, !.pending = None]
    /\ EndTurn
    /\ UNCHANGED <<turns, marks>>

\* There is no task to go on with.
Clarify ==
    /\ pc = "intent" /\ TaskKind = None /\ said = "clarify"
    /\ EndTurn
    /\ UNCHANGED <<cp, turns, marks>>

\* A message of this kind is about something else than the operation under way.
Abandons(kind) == Active(cp) /\ cp.task # None /\ cp.task.kind # kind

\* The extraction raises: the task may be another one, nothing else changed.
\* The reset such a task calls for was worked out, and is not returned.
ExtractionFails ==
    /\ pc = "intent" /\ TaskKind # None
    /\ cp' = [cp EXCEPT !.task = TaskFor(TaskKind)]
    /\ abandoned' = (abandoned \/ Abandons(TaskKind))
    /\ EndTurn
    /\ UNCHANGED <<turns, placed>>

\* The checkpoint after the patch, and the task's provider.
Merged(kind, p, pin) ==
    LET task == TaskFor(kind)
        slots == IF kind = "swap" THEN MergeSwap(task.slots, p) ELSE MergeTransfer(task.slots, p)
        base == IF slots = task.slots THEN Base(kind) ELSE Invalidated(Base(kind), kind)
    IN [base EXCEPT !.task = [task EXCEPT !.slots = slots,
                                          !.pin = IF pin = None THEN @ ELSE pin]]

\* The draft the resolvers work on; the source address is not a change.
Draft(c, from) ==
    LET slots == IF c.task.slots = NoSlots /\ cp.request # None
                 THEN FromRequest(cp.request) ELSE c.task.slots
    IN [slots EXCEPT !.from = @ \/ from]

\* What a message can make of the task.
SwapMerges == {[c |-> Merged("swap", p, pin), from |-> p.from] :
                   p \in SaidOfSwap[turns], pin \in Provider \cup {None}}
TransferMerges == {Merged("transfer", p, None) : p \in SaidOfTransfer[turns]}

Progress(c, slots, status) == [c EXCEPT !.task.slots = slots, !.task.status = status]

\* The intent node for a swap: errors come first, then a token or a source
\* address or another slot to ask for, then the quotes.
SwapFails(c, v) ==
    /\ v.err
    /\ cp' = Progress(c, v.slots, "collecting")
    /\ EndTurn

SwapAsksChoice(c, r, v) ==
    /\ ~v.err /\ (r.many \/ NeedsSource(v.slots))
    /\ cp' = Progress(c, v.slots, "collecting")
    /\ EndTurn

SwapAsksSlots(c, r, v) ==
    /\ ~v.err /\ ~r.many /\ ~NeedsSource(v.slots) /\ ~Quotable(v.slots)
    /\ cp' = Progress(c, v.slots, "collecting")
    /\ EndTurn

SwapIsReady(c, r, v) ==
    /\ ~v.err /\ ~r.many /\ ~NeedsSource(v.slots) /\ Quotable(v.slots)
    /\ cp' = [Progress(c, v.slots, "ready") EXCEPT !.request = Request(v.slots)]
    /\ Goto("quotes")

IntentSwap ==
    /\ pc = "intent" /\ TaskKind = "swap"
    /\ \E m \in SwapMerges : \E r \in Resolutions(Draft(m.c, m.from)) :
       \E v \in IF r.err THEN {[slots |-> r.slots, err |-> TRUE]} ELSE Conversions(r.slots) :
          \/ SwapFails(m.c, v)
          \/ SwapAsksChoice(m.c, r, v)
          \/ SwapAsksSlots(m.c, r, v)
          \/ SwapIsReady(m.c, r, v)
    /\ UNCHANGED <<turns, marks>>

\* A transfer that was broadcast leaves its hash and what was prepared behind.
LeftBehind(c) ==
    IF cp.hash = None /\ cp.query = None THEN c
    ELSE [c EXCEPT !.hash = None, !.query = None, !.pending = None]

\* The intent node for a transfer.
IntentTransfer ==
    /\ pc = "intent" /\ TaskKind = "transfer"
    /\ \E m \in TransferMerges : \E found \in BOOLEAN :
          LET slots == [m.task.slots EXCEPT !.src = WithToken(@, found)]
          IN IF TransferReady(slots)
             THEN cp' = Progress(LeftBehind(m), slots, "ready") /\ Goto("transfer")
             ELSE cp' = Progress(LeftBehind(m), slots, "collecting") /\ EndTurn
    /\ UNCHANGED <<turns, marks>>

\* A transaction is the one the message names (0), else what was broadcast,
\* else the last one asked for.
IntentTransaction ==
    /\ pc = "intent" /\ said = "transaction"
    /\ \E named \in {None, 0} :
          LET asked == CASE named # None -> named
                         [] named = None /\ cp.hash # None -> cp.hash
                         [] OTHER -> cp.query
          IN /\ cp' = [cp EXCEPT !.query = asked]
             /\ IF asked = None /\ cp.pending = None THEN EndTurn ELSE Goto("read")
    /\ UNCHANGED <<turns, marks>>

\* Another read goes to the read-only agent (ReadOnlyLoop), unless what it is
\* about is missing.
IntentRead ==
    /\ pc = "intent" /\ said = "read"
    /\ Goto("read") \/ EndTurn
    /\ UNCHANGED <<cp, turns, marks>>

ReadAnswers ==
    /\ pc = "read"
    /\ EndTurn
    /\ UNCHANGED <<cp, turns, marks>>

\* route_after_intent for a question about the swap: with an order or a hash it
\* is polled, a quote without either goes on to its allowance.
IntentStatus ==
    /\ pc = "intent" /\ said = "status"
    /\ EndTurn
    /\ \/ UNCHANGED cp
       \/ /\ cp.conf.st # "rejected" /\ cp.order = None /\ cp.hash = None
          /\ cp.selected # None /\ cp.pending = None
          /\ cp' = [cp EXCEPT !.pending = "swap"]
    /\ UNCHANGED <<turns, marks>>

\* The transfer node: the builder and the preflight succeed, or nothing changes.
Transfer ==
    /\ pc = "transfer"
    /\ \/ cp' = [cp EXCEPT !.pending = "transfer"] /\ EndTurn
       \/ UNCHANGED cp /\ EndTurn
    /\ UNCHANGED <<turns, marks>>

\* resolve_swap and _pinned_swap_provider.
Available == IF cp.task.pin = None THEN Provider ELSE {cp.task.pin}

\* Of several quotes the one selected before wins, should it be none of them.
SelectedOf(quotes) ==
    CASE Cardinality(quotes) = 1 -> quotes
      [] Cardinality(quotes) # 1 /\ cp.selected # None -> {cp.selected}
      [] OTHER -> quotes

\* quote_provider for every provider, then quote_response: some answer with a
\* usable quote, some with one worth nothing, some not at all.
Quotes ==
    /\ pc = "quotes"
    /\ \E answered \in SUBSET Available :
          LET quotes == cp.cands \cup {[prov |-> x, req |-> cp.request] : x \in answered}
          IN IF quotes = {}
             THEN /\ cp' = [cp EXCEPT !.selected = None]
                  /\ EndTurn
             ELSE \E q \in SelectedOf(quotes) :
                  /\ cp' = [cp EXCEPT !.cands = quotes, !.selected = q]
                  /\ Goto(IF cp.pending = None THEN "continue" ELSE "idle")
    /\ UNCHANGED <<turns, marks>>

\* The App goes on to the confirmation, unless it meets a broadcast, a rejected
\* confirmation or one for other figures; one that was given already prepares.
Continue ==
    /\ pc = "continue" /\ EndTurn
    /\ \/ /\ cp.hash # None \/ cp.conf.st = "rejected"
          /\ UNCHANGED cp
       \/ /\ cp.hash = None /\ cp.conf.st \in {"none", "lapsed"}
          /\ cp' = [cp EXCEPT !.conf = [st |-> "requested", for |-> cp.selected]]
       \/ /\ cp.hash = None /\ cp.conf.st = "approved"
          /\ \/ cp' = [cp EXCEPT !.conf.st = "lapsed"]
             \/ cp' = [cp EXCEPT !.pending = "swap"]
             \/ UNCHANGED cp
    /\ UNCHANGED <<turns, marks>>

\* The process goes down between two nodes: their writes are kept.
Crash ==
    /\ pc \in {"intent", "quotes", "transfer", "read", "continue"}
    /\ EndTurn
    /\ UNCHANGED <<cp, turns, marks>>

----------------------------------------------------------------------------
(* Between the turns: the confirmation is answered or runs out, and what is *)
(* prepared is broadcast.                                                  *)

Answer ==
    /\ pc = "idle" /\ cp.conf.st = "requested"
    /\ \/ cp' = [cp EXCEPT !.conf.st = "lapsed"]
       \/ cp' = [cp EXCEPT !.conf.st = "rejected",
                           !.task = IF @ = None THEN None
                                    ELSE [@ EXCEPT !.status = "cancelled"]]
       \/ \E p \in {"swap", None} : cp' = [cp EXCEPT !.conf.st = "approved", !.pending = p]
    /\ UNCHANGED <<pc, said, turns, marks>>

Broadcast ==
    /\ pc = "idle" /\ cp.pending # None /\ cp.hash = None /\ Len(placed) < MaxOrders
    /\ placed' = Append(placed, cp.pending)
    /\ cp' = [cp EXCEPT !.hash = Len(placed'),
                        !.order = IF cp.pending = "swap" THEN Len(placed') ELSE @]
    /\ UNCHANGED <<pc, said, turns, abandoned>>

TurnStep ==
    \/ CancelTask \/ Clarify \/ ExtractionFails
    \/ IntentSwap \/ IntentTransfer \/ IntentTransaction \/ IntentRead \/ IntentStatus
    \/ Transfer \/ Quotes \/ Continue

Next ==
    \/ \E i \in {"swap", "transfer", "clarify", "status", "transaction", "read", "cancel"} :
          Supervisor(i)
    \/ TurnStep \/ ReadAnswers \/ Crash
    \/ Answer \/ Broadcast

Spec == Init /\ [][Next]_vars

----------------------------------------------------------------------------

QuoteType == [prov : Provider, req : RequestType]

TypeOK ==
    /\ cp.task \in Task \cup {None}
    /\ cp.request \in RequestType \cup {None}
    /\ cp.selected \in QuoteType \cup {None} /\ cp.cands \subseteq QuoteType
    /\ cp.conf \in [st : {"none", "requested", "approved", "rejected", "lapsed"},
                    for : QuoteType \cup {None}]
    /\ cp.pending \in {None, "swap", "transfer"}
    /\ cp.hash \in (1..MaxOrders) \cup {None} /\ cp.order \in (1..MaxOrders) \cup {None}
    /\ Len(cp.hist) <= MaxHistory
    /\ pc \in {"idle", "intent", "quotes", "transfer", "read", "continue"}
    /\ cp.query \in (0..MaxOrders) \cup {None}
    /\ said \in {None, "swap", "transfer", "clarify", "status", "transaction", "read", "cancel"}
    /\ turns \in 0..LastTurn
    /\ placed \in Seq({"swap", "transfer"}) /\ Len(placed) <= MaxOrders
    /\ abandoned \in BOOLEAN

\* Whatever a conversation fills in, corrects and resolves in whichever order,
\* what was derived for one coin is never used for another: token metadata
\* describes the coin on its side, the amount to give was said for the coin
\* that is given, and an amount converted from dollars is one of the coin that
\* is bought now.
SlotsAgree ==
    cp.task # None =>
        LET s == cp.task.slots
        IN /\ \A side \in {s.src, s.dst} : side.tok \in {None, Coin(side)}
           /\ s.in # None => /\ s.in.of[1] = s.src.sym
                             /\ cp.task.kind = "swap" => s.in.of[2] = s.src.chain
           /\ s.out # None /\ s.out.by = "price" => s.out.of = Coin(s.dst)

\* The confirmation at the end of a chat turn is asked for a quote of what the
\* slots say now, not for one of an earlier state of the task or of a swap that a
\* question brought back from the history.  A task that was abandoned is another
\* matter: the swap in the checkpoint is not the one of the task any more.
AskedForSlots ==
    [][cp'.conf.st = "requested" /\ cp.conf.st # "requested" /\ ~abandoned =>
          cp'.conf.for.req = Request(cp.task.slots)]_vars

\* A swap order that was placed is the one of the checkpoint or in the history,
\* as long as the history has room: no reset, correction, cancellation or crash
\* in between loses what a question about the swap would be answered from.  A
\* task that was abandoned may: its order has no hash once a transfer took it.
OrderKept ==
    ~abandoned =>
        \A o \in DOMAIN placed :
            placed[o] = "swap" =>
                \/ o = cp.order
                \/ \E i \in DOMAIN cp.hist : cp.hist[i].order = o
                \/ Len(cp.hist) = MaxHistory
=============================================================================
