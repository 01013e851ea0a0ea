--------------------------- MODULE SlotTurnProofs ---------------------------
(***************************************************************************)
(* Proofs about the slot-filling graph and its read-only loop: for all     *)
(* symbols, chains, amounts and providers, whatever the messages say and   *)
(* whatever number of turns, broadcasts, rounds and calls.                 *)
(***************************************************************************)
EXTENDS ChatTurn, WellFoundedInduction, TLAPS

(***************************************************************************)
(* What a message says of a side, and what a side becomes.                 *)
(***************************************************************************)

\* Token metadata is that of the coin it came with.
SaidSide(p) ==
    p \in S!Side /\ (p.tok # None => p.tok = S!Coin(p) /\ p.sym # None /\ p.chain # None)

\* Token metadata describes the coin on its side.
SideAgrees(s) == s.tok \in {None, S!Coin(s)}

LEMMA SaidSides ==
    ASSUME S!SlotAssumption, NEW p \in S!SideSaid PROVE SaidSide(p)
BY DEF S!SlotAssumption, S!SideSaid, SaidSide, S!Side, S!Coin, S!CoinName

LEMMA MergedSide ==
    ASSUME NEW s \in S!Side, SideAgrees(s), NEW p, SaidSide(p)
    PROVE  /\ S!MergeSide(s, p) \in S!Side /\ SideAgrees(S!MergeSide(s, p))
           /\ p.sym = None => S!MergeSide(s, p).sym = s.sym
           /\ p.chain = None => S!MergeSide(s, p).chain = s.chain
           /\ p.sym # None => S!MergeSide(s, p).sym = p.sym
           /\ p.tok = None /\ S!MergeSide(s, p).tok # None => S!Coin(S!MergeSide(s, p)) = S!Coin(s)
BY DEF S!MergeSide, SaidSide, SideAgrees, S!Side, S!Coin, S!CoinName

LEMMA PinnedSide ==
    ASSUME S!SlotAssumption, NEW s \in S!Side, SideAgrees(s), NEW p, SaidSide(p)
    PROVE  SaidSide(S!PinNative(s, p))
<1> DEFINE m == S!MergeSide(s, p)
<1>1. m \in S!Side /\ (m.tok = None => p.tok = None)
  BY MergedSide DEF S!MergeSide
<1> HIDE DEF m
<1>2. CASE m.tok = None /\ m.sym # None /\ NativeOf[m.sym] # None
  <2>1. S!PinNative(s, p) = [p EXCEPT !.chain = NativeOf[m.sym]]
    BY <1>2 DEF S!PinNative, m
  <2>2. NativeOf[m.sym] \in Chain \cup {None}
    BY <1>1, <1>2 DEF S!SlotAssumption, S!Side
  <2> QED BY <1>1, <1>2, <2>1, <2>2 DEF SaidSide, S!Side
<1>3. CASE ~(m.tok = None /\ m.sym # None /\ NativeOf[m.sym] # None)
  <2>1. S!PinNative(s, p) = p
    BY <1>3 DEF S!PinNative, m
  <2> QED BY <2>1
<1> QED BY <1>2, <1>3

LEMMA FoundToken ==
    ASSUME NEW s \in S!Side, SideAgrees(s), NEW found
    PROVE  /\ S!WithToken(s, found) \in S!Side /\ SideAgrees(S!WithToken(s, found))
           /\ S!Coin(S!WithToken(s, found)) = S!Coin(s)
           /\ S!Known(s) => S!WithToken(s, found) = s
BY DEF S!WithToken, S!Unresolved, S!Side, SideAgrees, S!Coin, S!CoinName

LEMMA BoundSum ==
    ASSUME NEW sum \in S!Sum \cup {None}, NEW side \in S!Side
    PROVE  /\ S!Bound(sum, side) \in S!Sum \cup {None}
           /\ sum = None => S!Bound(sum, side) = None
           /\ sum # None =>
                /\ S!Bound(sum, side).by = sum.by
                /\ sum.of = S!Coin(side) => S!Bound(sum, side).of = S!Coin(side)
                /\ sum.of[1] \in {None, side.sym} => S!Bound(sum, side).of[1] = side.sym
                /\ sum.of[2] \in {None, side.chain} => S!Bound(sum, side).of[2] = side.chain
<1>1. CASE sum = None
  BY <1>1 DEF S!Bound
<1>2. CASE sum # None
  <2> DEFINE of == [i \in {1, 2} |-> IF sum.of[i] = None THEN S!Coin(side)[i] ELSE sum.of[i]]
  <2>1. sum \in S!Sum /\ S!Bound(sum, side) = [sum EXCEPT !.of = of]
    BY <1>2 DEF S!Bound
  <2>2. sum.of \in S!CoinName /\ S!Coin(side) \in S!CoinName
    BY <2>1 DEF S!Sum, S!Side, S!Coin, S!CoinName
  <2>3. of = <<of[1], of[2]>>
    OBVIOUS
  <2>4. /\ of[1] = IF sum.of[1] = None THEN side.sym ELSE sum.of[1]
        /\ of[2] = IF sum.of[2] = None THEN side.chain ELSE sum.of[2]
    BY DEF S!Coin
  <2> HIDE DEF of
  <2>5. of \in S!CoinName
    BY <2>2, <2>3, <2>4 DEF S!CoinName, S!Side
  <2>6. sum.of = S!Coin(side) => of = S!Coin(side)
    BY <2>3, <2>4 DEF S!Coin
  <2> QED BY <1>2, <2>1, <2>4, <2>5, <2>6 DEF S!Sum
<1> QED BY <1>1, <1>2

(***************************************************************************)
(* The merge of a message into the slots.                                  *)
(***************************************************************************)

\* What was derived for one coin is not used for another: SlotsAgree, and that
\* an amount is converted from dollars only while the value in dollars stands,
\* which leaves no amount to give.
SlotsFit(job, s) ==
    /\ SideAgrees(s.src) /\ SideAgrees(s.dst)
    /\ s.in # None => s.in.of[1] = s.src.sym /\ (job = "swap" => s.in.of[2] = s.src.chain)
    /\ s.out # None /\ s.out.by = "price" => s.usd /\ s.out.of = S!Coin(s.dst)
    /\ job = "swap" /\ s.usd => s.in = None

\* The sums of a swap before they are bound to the sides of now.
SumsFit(in, out, usd, src, dst) ==
    /\ in \in S!Sum \cup {None} /\ out \in S!Sum \cup {None} /\ usd \in BOOLEAN
    /\ in # None => in.of[1] \in {None, src.sym} /\ in.of[2] \in {None, src.chain}
    /\ out # None /\ out.by = "price" => usd /\ out.of = S!Coin(dst)
    /\ usd => in = None

LEMMA SaidSum ==
    ASSUME NEW n \in SlotAmount, NEW side \in S!Side
    PROVE  /\ S!Said(n, side) \in S!Sum /\ S!Said(n, side).by = "user"
           /\ S!Said(n, side).of = S!Coin(side)
           /\ S!Coin(side)[1] = side.sym /\ S!Coin(side)[2] = side.chain
BY DEF S!Said, S!Sum, S!Side, S!Coin, S!CoinName

LEMMA RestatedSum ==
    ASSUME NEW sum \in S!Sum, NEW side \in S!Side
    PROVE  LET new == [sum EXCEPT !.of = S!Coin(side)]
           IN new \in S!Sum /\ new.by = sum.by /\ new.of = S!Coin(side)
BY DEF S!Sum, S!Side, S!Coin, S!CoinName

LEMMA SlotsBound ==
    ASSUME NEW slots \in S!Slots, NEW src \in S!Side, NEW dst \in S!Side,
           SideAgrees(src), SideAgrees(dst), NEW in, NEW out, NEW usd,
           SumsFit(in, out, usd, src, dst)
    PROVE  LET new == [slots EXCEPT !.src = src, !.dst = dst, !.usd = usd,
                                    !.in = S!Bound(in, src), !.out = S!Bound(out, dst)]
           IN new \in S!Slots /\ SlotsFit("swap", new)
<1> DEFINE i == S!Bound(in, src)
           o == S!Bound(out, dst)
<1>1. /\ i \in S!Sum \cup {None} /\ o \in S!Sum \cup {None}
      /\ in = None => i = None
      /\ in # None => i.of[1] = src.sym /\ i.of[2] = src.chain
      /\ out = None => o = None
      /\ out # None => o.by = out.by
      /\ out # None /\ out.of = S!Coin(dst) => o.of = S!Coin(dst)
  BY BoundSum DEF SumsFit
<1> HIDE DEF i, o
<1> DEFINE new == [slots EXCEPT !.src = src, !.dst = dst, !.usd = usd, !.in = i, !.out = o]
<1>2. new \in S!Slots /\ new.src = src /\ new.dst = dst /\ new.usd = usd
      /\ new.in = i /\ new.out = o
  BY <1>1 DEF SumsFit, S!Slots
<1> HIDE DEF new
<1>3. SlotsFit("swap", new)
  BY <1>1, <1>2 DEF SumsFit, SlotsFit
<1> QED BY <1>2, <1>3 DEF new, i, o

LEMMA MergedSums ==
    ASSUME NEW slots \in S!Slots, SlotsFit("swap", slots), NEW p \in S!SwapPatch,
           NEW src \in S!Side, NEW dst \in S!Side, SideAgrees(src), SideAgrees(dst),
           NEW switched \in BOOLEAN,
           ~switched => slots.src.sym \in {None, src.sym} /\ slots.src.chain \in {None, src.chain}
    PROVE  LET new == S!MergeSums(slots, p, src, dst, switched)
           IN new \in S!Slots /\ SlotsFit("swap", new)
<1> DEFINE changed(old, n) == n # None /\ (old = None \/ old.n # n)
           inNew == changed(slots.in, p.in)
           outNew == changed(slots.out, p.out)
           usd == CASE inNew \/ outNew -> FALSE
                    [] ~inNew /\ ~outNew /\ p.usd -> TRUE
                    [] OTHER -> slots.usd /\ ~(switched /\ p.in = None /\ p.out = None)
           in == CASE outNew \/ p.usd -> None
                   [] ~outNew /\ inNew -> S!Said(p.in, src)
                   [] ~inNew /\ ~outNew /\ ~p.usd /\ p.in # None ->
                          [slots.in EXCEPT !.of = S!Coin(src)]
                   [] OTHER -> IF switched THEN None ELSE slots.in
           out == CASE inNew \/ p.usd -> None
                    [] ~inNew /\ outNew -> S!Said(p.out, dst)
                    [] ~inNew /\ ~outNew /\ usd /\ dst # slots.dst -> None
                    [] ~inNew /\ ~outNew /\ ~p.usd /\ p.out # None
                       /\ ~(usd /\ dst # slots.dst) -> [slots.out EXCEPT !.of = S!Coin(dst)]
                    [] OTHER -> IF switched THEN None ELSE slots.out
<1>1. /\ p.in \in SlotAmount \cup {None} /\ p.out \in SlotAmount \cup {None} /\ p.usd \in BOOLEAN
      /\ p.usd => p.in = None /\ p.out = None
  BY DEF S!SwapPatch
<1>2. /\ slots.in \in S!Sum \cup {None} /\ slots.out \in S!Sum \cup {None} /\ slots.usd \in BOOLEAN
      /\ slots.src \in S!Side /\ slots.dst \in S!Side
  BY DEF S!Slots
<1>3. /\ slots.in # None => slots.in.of[1] = slots.src.sym /\ slots.in.of[2] = slots.src.chain
      /\ slots.out # None /\ slots.out.by = "price" => slots.usd /\ slots.out.of = S!Coin(slots.dst)
      /\ slots.usd => slots.in = None
  BY DEF SlotsFit
<1>4. SumsFit(in, out, usd, src, dst)
  <2>1. CASE inNew
    <3>1. p.in \in SlotAmount /\ ~p.usd /\ p.in # None
      BY <1>1, <2>1
    <3>2. usd = FALSE /\ out = None /\ (in = None \/ in = S!Said(p.in, src))
      BY <2>1, <3>1
    <3> HIDE DEF usd, in, out, inNew, outNew
    <3> QED BY <3>1, <3>2, SaidSum DEF SumsFit
  <2>2. CASE ~inNew /\ outNew
    <3>1. p.out \in SlotAmount /\ ~p.usd
      BY <1>1, <2>2
    <3>2. usd = FALSE /\ in = None /\ out = S!Said(p.out, dst)
      BY <2>2, <3>1
    <3> HIDE DEF usd, in, out, inNew, outNew
    <3> QED BY <3>1, <3>2, SaidSum DEF SumsFit
  <2>3. CASE ~inNew /\ ~outNew /\ p.usd
    <3>1. usd = TRUE /\ in = None /\ out = None
      BY <2>3, <1>1
    <3> HIDE DEF usd, in, out, inNew, outNew
    <3> QED BY <3>1 DEF SumsFit
  <2>4. CASE ~inNew /\ ~outNew /\ ~p.usd
    <3>1. usd = (slots.usd /\ ~(switched /\ p.in = None /\ p.out = None))
      BY <2>4, <1>1, <1>2
    <3>2. /\ p.in # None => slots.in # None
          /\ p.out # None => slots.out # None
      BY <2>4
    <3>3. /\ p.in # None => in = [slots.in EXCEPT !.of = S!Coin(src)]
          /\ p.in = None => in = IF switched THEN None ELSE slots.in
      BY <2>4
    <3>4. /\ usd /\ dst # slots.dst => out = None
          /\ ~(usd /\ dst # slots.dst) /\ p.out # None =>
                out = [slots.out EXCEPT !.of = S!Coin(dst)]
          /\ ~(usd /\ dst # slots.dst) /\ p.out = None =>
                out = IF switched THEN None ELSE slots.out
      BY <2>4
    <3> HIDE DEF usd, in, out, inNew, outNew
    <3>5. /\ in \in S!Sum \cup {None}
          /\ in # None => in.of[1] \in {None, src.sym} /\ in.of[2] \in {None, src.chain}
      <4>1. CASE p.in # None
        <5>1. slots.in \in S!Sum /\ in = [slots.in EXCEPT !.of = S!Coin(src)]
          BY <1>2, <3>2, <3>3, <4>1
        <5>2. in \in S!Sum /\ in.of = S!Coin(src)
          BY <5>1, RestatedSum
        <5> QED BY <5>2 DEF S!Coin
      <4>2. CASE p.in = None
        BY <1>2, <1>3, <3>3, <4>2
      <4> QED BY <4>1, <4>2
    <3>6. out \in S!Sum \cup {None} /\ usd \in BOOLEAN
      BY <1>2, <3>1, <3>2, <3>4, RestatedSum
    <3>7. out # None /\ out.by = "price" => usd /\ out.of = S!Coin(dst)
      <4>1. CASE p.out # None
        BY <1>2, <1>3, <3>1, <3>2, <3>4, <4>1, RestatedSum
      <4>2. CASE p.out = None
        BY <1>2, <1>3, <3>1, <3>4, <4>2
      <4> QED BY <4>1, <4>2
    <3>8. usd => in = None
      BY <1>3, <3>1, <3>2, <3>3
    <3> QED BY <3>5, <3>6, <3>7, <3>8 DEF SumsFit
  <2> QED BY <2>1, <2>2, <2>3, <2>4
<1>5. S!MergeSums(slots, p, src, dst, switched)
        = [slots EXCEPT !.src = src, !.dst = dst, !.usd = usd,
                        !.in = S!Bound(in, src), !.out = S!Bound(out, dst)]
  BY DEF S!MergeSums
<1> HIDE DEF usd, in, out
<1> DEFINE new == [slots EXCEPT !.src = src, !.dst = dst, !.usd = usd,
                                !.in = S!Bound(in, src), !.out = S!Bound(out, dst)]
<1>6. new \in S!Slots /\ SlotsFit("swap", new)
  BY <1>4, SlotsBound
<1> HIDE DEF new
<1>7. S!MergeSums(slots, p, src, dst, switched) = new
  BY <1>5 DEF new
<1> QED BY <1>6, <1>7

LEMMA MergedSwap ==
    ASSUME S!SlotAssumption, NEW slots \in S!Slots, SlotsFit("swap", slots), NEW p \in S!SwapPatch
    PROVE  S!MergeSwap(slots, p) \in S!Slots /\ SlotsFit("swap", S!MergeSwap(slots, p))
<1>1. /\ slots.src \in S!Side /\ slots.dst \in S!Side
      /\ SideAgrees(slots.src) /\ SideAgrees(slots.dst)
      /\ SaidSide(p.src) /\ SaidSide(p.dst)
  BY SaidSides DEF S!Slots, SlotsFit, S!SwapPatch
<1> DEFINE ps == S!PinNative(slots.src, p.src)
           pd == S!PinNative(slots.dst, p.dst)
           src == S!MergeSide(slots.src, ps)
           dst == S!MergeSide(slots.dst, pd)
           switched == S!Switched(slots.src, src)
<1>2. SaidSide(ps) /\ SaidSide(pd)
  BY <1>1, PinnedSide
<1> HIDE DEF ps, pd
<1>3. src \in S!Side /\ dst \in S!Side /\ SideAgrees(src) /\ SideAgrees(dst)
  BY <1>1, <1>2, MergedSide
<1>4. S!MergeSwap(slots, p) = S!MergeSums(slots, p, src, dst, switched)
  BY DEF S!MergeSwap, ps, pd
<1> HIDE DEF src, dst
<1>5. switched \in BOOLEAN
      /\ (~switched => slots.src.sym \in {None, src.sym} /\ slots.src.chain \in {None, src.chain})
  BY DEF S!Switched
<1> HIDE DEF switched
<1> QED BY <1>3, <1>4, <1>5, MergedSums

LEMMA MergedTransfer ==
    ASSUME S!SlotAssumption, NEW slots \in S!Slots, SlotsFit("transfer", slots),
           NEW p \in S!TransferPatch
    PROVE  S!MergeTransfer(slots, p) \in S!Slots /\ SlotsFit("transfer", S!MergeTransfer(slots, p))
<1> DEFINE other == slots.src.sym # None /\ p.src.sym \notin {None, slots.src.sym}
           m == S!MergeSide(slots.src, p.src)
           home == IF S!Native(p.src.sym, WalletChain) THEN WalletChain ELSE None
           src == IF other /\ p.src.chain = None THEN [m EXCEPT !.chain = home] ELSE m
           in == CASE p.in # None -> S!Said(p.in, src)
                   [] p.in = None /\ other -> None
                   [] OTHER -> slots.in
           i == S!Bound(in, src)
<1>1. /\ slots.src \in S!Side /\ SideAgrees(slots.src) /\ SideAgrees(slots.dst)
      /\ SaidSide(p.src) /\ p.in \in SlotAmount \cup {None} /\ p.to \in BOOLEAN
      /\ slots.in \in S!Sum \cup {None} /\ slots.to \in BOOLEAN
      /\ slots.in # None => slots.in.of[1] = slots.src.sym
      /\ slots.out # None /\ slots.out.by = "price" => slots.usd /\ slots.out.of = S!Coin(slots.dst)
  BY SaidSides DEF S!Slots, SlotsFit, S!TransferPatch
<1>2. /\ m \in S!Side /\ SideAgrees(m)
      /\ p.src.sym = None => m.sym = slots.src.sym
      /\ p.src.sym # None => m.sym = p.src.sym
      /\ other /\ p.src.chain = None => m.tok = None
  <2>1. other /\ p.src.tok = None => S!Coin(m) # S!Coin(slots.src)
    BY <1>1, MergedSide DEF S!Coin
  <2>2. p.src.chain = None => p.src.tok = None
    BY <1>1 DEF SaidSide
  <2> HIDE DEF other, m
  <2> QED BY <1>1, <2>1, <2>2, MergedSide DEF m
<1> HIDE DEF m
<1>3. home \in Chain \cup {None}
  BY DEF S!SlotAssumption
<1> HIDE DEF home
<1>4. src \in S!Side /\ SideAgrees(src) /\ src.sym = m.sym
  BY <1>2, <1>3 DEF S!Side, SideAgrees
<1>5. ~other => slots.src.sym \in {None, src.sym}
  BY <1>2, <1>4
<1> HIDE DEF src
<1>6. in \in S!Sum \cup {None} /\ (in # None => in.of[1] \in {None, src.sym})
  BY <1>1, <1>4, <1>5, SaidSum
<1> HIDE DEF in
<1>7. i \in S!Sum \cup {None} /\ (in = None => i = None)
      /\ (in # None => i.of[1] = src.sym)
  BY <1>4, <1>6, BoundSum
<1> HIDE DEF i
<1> DEFINE new == [slots EXCEPT !.src = src, !.in = i, !.to = @ \/ p.to]
<1>8. S!MergeTransfer(slots, p) = new
  BY DEF S!MergeTransfer, i, in, src, home, m
<1>9. /\ new \in S!Slots /\ new.src = src /\ new.in = i /\ new.dst = slots.dst
      /\ new.out = slots.out /\ new.usd = slots.usd
  BY <1>1, <1>4, <1>7 DEF S!Slots
<1> HIDE DEF new
<1> QED BY <1>1, <1>4, <1>7, <1>8, <1>9 DEF SlotsFit

(***************************************************************************)
(* The request, the resolvers and the prices.                              *)
(***************************************************************************)

\* The slots only change what quotes do not follow.
SameRequest(s, t) ==
    S!Known(s.src) /\ S!Known(s.dst) /\ (s.usd => s.in = None) => S!Request(t) = S!Request(s)

LEMMA RequestFits ==
    ASSUME NEW s \in S!Slots, SlotsFit("swap", s)
    PROVE  S!Request(s) \in S!RequestType /\ SlotsFit("swap", S!FromRequest(S!Request(s)))
<1> DEFINE r == S!Request(s)
           d == S!FromRequest(r)
<1>1. /\ r \in S!RequestType /\ r.src = s.src /\ r.dst = s.dst /\ r.in = s.in
      /\ r.out = IF s.usd THEN None ELSE s.out
  BY DEF S!Request, S!RequestType, S!Slots
<1> HIDE DEF r
<1>2. /\ d.src = s.src /\ d.dst = s.dst /\ d.in = s.in /\ d.usd = FALSE
      /\ d.out = IF s.usd THEN None ELSE s.out
  BY <1>1 DEF S!FromRequest, S!NoSlots
<1> HIDE DEF d
<1> QED BY <1>1, <1>2 DEF SlotsFit, r, d

LEMMA FromRequestFits ==
    ASSUME NEW r \in S!RequestType
    PROVE  /\ S!FromRequest(r) \in S!Slots /\ S!Request(S!FromRequest(r)) = r
           /\ S!FromRequest(r).src = r.src /\ S!FromRequest(r).dst = r.dst
           /\ S!FromRequest(r).usd = FALSE
<1> DEFINE d == S!FromRequest(r)
<1>1. /\ d.src = r.src /\ d.dst = r.dst /\ d.in = r.in /\ d.out = r.out /\ d.usd = FALSE
      /\ d \in S!Slots
  BY DEF S!FromRequest, S!NoSlots, S!RequestType, S!Slots
<1> HIDE DEF d
<1>2. S!Request(d) = [src |-> r.src, dst |-> r.dst, in |-> r.in, out |-> r.out]
  BY <1>1 DEF S!Request
<1>3. r = [src |-> r.src, dst |-> r.dst, in |-> r.in, out |-> r.out]
  BY DEF S!RequestType
<1> QED BY <1>1, <1>2, <1>3 DEF d

LEMMA ResolvedSlots ==
    ASSUME NEW s \in S!Slots, SlotsFit("swap", s), NEW r \in S!Resolutions(s)
    PROVE  /\ r.slots \in S!Slots /\ SlotsFit("swap", r.slots) /\ SameRequest(s, r.slots)
           /\ S!Known(s.src) /\ S!Known(s.dst) => r.slots = s
<1>1. CASE r.slots = s
  BY <1>1 DEF SameRequest
<1>2. CASE r.slots # s
  <2>9. r.slots \in S!Found(s)
    BY <1>2 DEF S!Resolutions
  <2>1. PICK a \in BOOLEAN, b \in BOOLEAN : r.slots = S!WithTokens(s, a, b)
    BY <2>9 DEF S!Found
  <2> DEFINE src == S!WithToken(s.src, a)
             dst == S!WithToken(s.dst, b)
  <2>2. /\ s.src \in S!Side /\ s.dst \in S!Side /\ SideAgrees(s.src) /\ SideAgrees(s.dst)
    BY DEF S!Slots, SlotsFit
  <2>3. /\ src \in S!Side /\ dst \in S!Side /\ SideAgrees(src) /\ SideAgrees(dst)
        /\ S!Coin(src) = S!Coin(s.src) /\ S!Coin(dst) = S!Coin(s.dst)
        /\ S!Known(s.src) => src = s.src
        /\ S!Known(s.dst) => dst = s.dst
    BY <2>2, FoundToken
  <2>4. src.sym = s.src.sym /\ src.chain = s.src.chain
    BY <2>3 DEF S!Coin
  <2> HIDE DEF src, dst
  <2>5. r.slots = [s EXCEPT !.src = src, !.dst = dst]
    BY <2>1 DEF S!WithTokens, src, dst
  <2>6. /\ r.slots \in S!Slots /\ r.slots.src = src /\ r.slots.dst = dst
        /\ r.slots.in = s.in /\ r.slots.out = s.out /\ r.slots.usd = s.usd
    BY <2>3, <2>5 DEF S!Slots
  <2>7. SlotsFit("swap", r.slots)
    BY <2>3, <2>4, <2>6 DEF SlotsFit
  <2>8. S!Known(s.src) /\ S!Known(s.dst) => r.slots = s
    BY <2>3, <2>5 DEF S!Slots
  <2> QED BY <2>6, <2>7, <2>8 DEF SameRequest
<1> QED BY <1>1, <1>2

LEMMA ConvertedSlots ==
    ASSUME NEW s \in S!Slots, SlotsFit("swap", s), NEW v \in S!Conversions(s)
    PROVE  v.slots \in S!Slots /\ SlotsFit("swap", v.slots) /\ SameRequest(s, v.slots)
           /\ v.slots.src = s.src /\ v.slots.dst = s.dst
<1>1. CASE v.slots = s
  BY <1>1 DEF SameRequest
<1>2. CASE v.slots # s
  <2> DEFINE priced(n) == [s EXCEPT !.in = None,
                                    !.out = [n |-> n, of |-> S!Coin(s.dst), by |-> "price"]]
             priceds == {[slots |-> priced(n), err |-> FALSE] : n \in SlotAmount}
  <2>0. S!Conversions(s) = IF ~s.usd \/ ~S!Known(s.dst) THEN {[slots |-> s, err |-> FALSE]}
                           ELSE {[slots |-> s, err |-> TRUE]} \cup priceds
    BY DEF S!Conversions
  <2>1. s.usd /\ S!Known(s.dst) /\ v \in priceds
    <3> HIDE DEF priceds
    <3> QED BY <1>2, <2>0
  <2>2. PICK n \in SlotAmount : v = [slots |-> priced(n), err |-> FALSE]
    <3> HIDE DEF priced
    <3> QED BY <2>1
  <2>9. v.slots = priced(n)
    BY <2>2
  <2> DEFINE out == [n |-> n, of |-> S!Coin(s.dst), by |-> "price"]
  <2>3. out \in S!Sum /\ out.of = S!Coin(s.dst)
    BY DEF S!Sum, S!Slots, S!Side, S!Coin, S!CoinName
  <2> HIDE DEF out
  <2>4. /\ v.slots \in S!Slots /\ v.slots.src = s.src /\ v.slots.dst = s.dst
        /\ v.slots.in = None /\ v.slots.out = out /\ v.slots.usd = s.usd
    BY <2>9, <2>3 DEF S!Slots, out
  <2>5. SlotsFit("swap", v.slots)
    BY <2>1, <2>3, <2>4 DEF SlotsFit
  <2>6. SameRequest(s, v.slots)
    BY <2>1, <2>4 DEF SameRequest, S!Request
  <2> QED BY <2>4, <2>5, <2>6
<1> QED BY <1>1, <1>2

LEMMA WorkedSlots ==
    ASSUME NEW s \in S!Slots, SlotsFit("swap", s), NEW r \in S!Resolutions(s),
           NEW v \in IF r.err THEN {[slots |-> r.slots, err |-> TRUE]} ELSE S!Conversions(r.slots)
    PROVE  v.slots \in S!Slots /\ SlotsFit("swap", v.slots) /\ SameRequest(s, v.slots)
<1>2. /\ r.slots \in S!Slots /\ SlotsFit("swap", r.slots) /\ SameRequest(s, r.slots)
      /\ S!Known(s.src) /\ S!Known(s.dst) => r.slots = s
  BY ResolvedSlots
<1>3. CASE r.err
  BY <1>2, <1>3
<1>4. CASE ~r.err
  <2>1. v.slots \in S!Slots /\ SlotsFit("swap", v.slots) /\ SameRequest(r.slots, v.slots)
    BY <1>2, <1>4, ConvertedSlots
  <2> QED BY <1>2, <2>1 DEF SameRequest
<1> QED BY <1>3, <1>4

(***************************************************************************)
(* The checkpoint.                                                         *)
(***************************************************************************)

OrderNo == (1..MaxBroadcasts) \cup {None}

Operation == [kind : {"swap", "transfer"}, order : OrderNo, hash : OrderNo,
              selected : S!QuoteType \cup {None}]

Approval == [st : {"none", "requested", "approved", "rejected", "lapsed"},
             for : S!QuoteType \cup {None}]

Checkpoint ==
    [task : S!Task \cup {None}, selected : S!QuoteType \cup {None}, cands : SUBSET S!QuoteType,
     conf : Approval, pending : {None, "swap", "transfer"}, hash : OrderNo,
     order : OrderNo, request : S!RequestType \cup {None}, query : (0..MaxBroadcasts) \cup {None},
     hist : Seq(Operation)]

\* The slots of a checkpoint, and what a draft could start from.
CheckpointFits(c) ==
    /\ c.task # None => SlotsFit(c.task.kind, c.task.slots)
    /\ c.request # None => SlotsFit("swap", S!FromRequest(c.request))

Sound(c) == c \in Checkpoint /\ Len(c.hist) <= MaxHistory /\ CheckpointFits(c)

LEMMA NewTaskFits ==
    ASSUME NEW job \in {"swap", "transfer"}
    PROVE  /\ S!NewTask(job) \in S!Task /\ S!NewTask(job).kind = job
           /\ S!NewTask(job).slots = S!NoSlots /\ SlotsFit(job, S!NoSlots)
           /\ S!NoSlots \in S!Slots
BY DEF S!NewTask, S!NoSlots, S!NoSide, S!Task, S!Slots, S!Side, SlotsFit, SideAgrees

LEMMA ArchivedSound ==
    ASSUME S!SlotAssumption, NEW c \in Checkpoint, Len(c.hist) <= MaxHistory
    PROVE  /\ S!Archived(c) \in Seq(Operation) /\ Len(S!Archived(c)) <= MaxHistory
           /\ \/ S!Archived(c) = c.hist /\ c.order = None
              \/ \E e \in Operation :
                    /\ e.kind = (IF c.task = None THEN "swap" ELSE c.task.kind)
                    /\ e.order = c.order /\ e.hash = c.hash
                    /\ \/ Len(c.hist) < MaxHistory /\ S!Archived(c) = Append(c.hist, e)
                       \/ /\ Len(c.hist) = MaxHistory /\ Len(S!Archived(c)) = MaxHistory
                          /\ \A i \in 1..MaxHistory :
                                S!Archived(c)[i] = IF i = MaxHistory THEN e ELSE c.hist[i + 1]
<1>1. MaxHistory \in Nat \ {0}
  BY DEF S!SlotAssumption
<1>2. CASE c.order = None /\ c.hash = None /\ c.selected = None
  BY <1>2 DEF S!Archived, Checkpoint
<1>3. CASE ~(c.order = None /\ c.hash = None /\ c.selected = None)
  <2> DEFINE e == [kind |-> IF c.task = None THEN "swap" ELSE c.task.kind,
                   order |-> c.order, hash |-> c.hash, selected |-> c.selected]
             h == Append(c.hist, e)
             from == IF Len(h) > MaxHistory THEN Len(h) - MaxHistory + 1 ELSE 1
  <2>1. e \in Operation
    BY DEF Operation, Checkpoint, S!Task
  <2>2. S!Archived(c) = SubSeq(h, from, Len(h))
    BY <1>3 DEF S!Archived
  <2>3. e.kind = (IF c.task = None THEN "swap" ELSE c.task.kind)
        /\ e.order = c.order /\ e.hash = c.hash
    OBVIOUS
  <2> HIDE DEF e
  <2>4. c.hist \in Seq(Operation)
    BY DEF Checkpoint
  <2>5. h \in Seq(Operation) /\ Len(h) = Len(c.hist) + 1
        /\ \A i \in 1..Len(h) : h[i] = IF i = Len(h) THEN e ELSE c.hist[i]
    BY <2>1, <2>4
  <2>6. CASE Len(c.hist) < MaxHistory
    <3>1. from = 1
      BY <1>1, <2>4, <2>5, <2>6
    <3>2. SubSeq(h, 1, Len(h)) = h
      BY <2>5
    <3>3. S!Archived(c) = h
      BY <2>2, <3>1, <3>2
    <3> HIDE DEF from
    <3>4. h \in Seq(Operation) /\ Len(h) <= MaxHistory
      BY <1>1, <2>4, <2>5, <2>6
    <3>5. S!Archived(c) = Append(c.hist, e)
      BY <3>3
    <3> HIDE DEF h
    <3> QED BY <2>1, <2>3, <2>6, <3>3, <3>4, <3>5
  <2>7. CASE Len(c.hist) = MaxHistory
    <3>1. from = 2 /\ Len(h) = MaxHistory + 1
      BY <1>1, <2>4, <2>5, <2>7
    <3> HIDE DEF h, from
    <3> DEFINE a == SubSeq(h, 2, MaxHistory + 1)
    <3>2. /\ a \in Seq(Operation) /\ Len(a) = MaxHistory
          /\ \A i \in 1..MaxHistory : a[i] = h[i + 1]
      BY <1>1, <2>5, <3>1
    <3>3. \A i \in 1..MaxHistory : a[i] = IF i = MaxHistory THEN e ELSE c.hist[i + 1]
      BY <1>1, <2>5, <3>1, <3>2
    <3>4. S!Archived(c) = a
      BY <2>2, <3>1
    <3> HIDE DEF a
    <3> QED BY <2>1, <2>3, <2>7, <3>2, <3>3, <3>4
  <2> QED BY <1>1, <2>4, <2>6, <2>7
<1> QED BY <1>2, <1>3

\* A checkpoint in which the operation is the one of the task: a swap has an
\* order and a hash or neither, and nothing was selected for a transfer.
Paired(r) == r.order = None <=> r.hash = None

Coherent(c) ==
    /\ c.task = None => ~S!Active(c) /\ c.cands = {} /\ c.hist = <<>>
    /\ c.pending # None => c.task # None /\ c.task.kind = c.pending
    /\ c.conf.st # "none" => c.task # None /\ c.task.kind = "swap"
    /\ c.task # None /\ c.task.kind = "transfer" /\ c.order = None => c.selected = None
    /\ c.task # None /\ c.task.kind = "swap" => Paired(c)
    /\ \A i \in DOMAIN c.hist : c.hist[i].kind = "swap" => Paired(c.hist[i])

\* Quotes are of the request, and the slots of a swap that is being filled still
\* come to it.
RequestStands(c) ==
    /\ c.request # None /\ S!Known(c.request.src) /\ S!Known(c.request.dst)
    /\ c.task # None /\ c.task.kind = "swap" /\ c.task.slots # S!NoSlots =>
          S!Request(c.task.slots) = c.request

Quoted(c) ==
    /\ \A q \in c.cands : q.req = c.request
    /\ c.cands # {} => RequestStands(c)
    /\ c.selected # None /\ c.order = None /\ c.hash = None =>
          c.selected.req = c.request /\ RequestStands(c)

\* A swap order is the one of the checkpoint or in the history.
KeptIn(c, o) ==
    o = c.order \/ (\E i \in DOMAIN c.hist : c.hist[i].order = o) \/ Len(c.hist) = MaxHistory

\* One checkpoint follows from another without an order being lost.
Retains(c, d) == \A o \in Nat : KeptIn(c, o) => KeptIn(d, o)

LEMMA SameHistoryRetains ==
    ASSUME NEW c, NEW d, d.order = c.order, d.hist = c.hist PROVE Retains(c, d)
BY DEF Retains, KeptIn

LEMMA ClearedFields ==
    ASSUME NEW c \in Checkpoint
    PROVE  /\ S!Cleared(c) \in Checkpoint /\ S!Cleared(c).task = c.task
           /\ S!Cleared(c).request = c.request /\ S!Cleared(c).hist = c.hist
           /\ S!Cleared(c).selected = None /\ S!Cleared(c).cands = {}
           /\ S!Cleared(c).conf.st = "none" /\ S!Cleared(c).pending = None
           /\ S!Cleared(c).hash = None /\ S!Cleared(c).order = None
BY DEF S!Cleared, Checkpoint, S!NoConfirmation, Approval, OrderNo

LEMMA ResetFields ==
    ASSUME S!SlotAssumption, NEW c \in Checkpoint, Sound(c)
    PROVE  /\ Sound(S!Reset(c)) /\ S!Reset(c).task = c.task /\ S!Reset(c).request = c.request
           /\ S!Reset(c).selected = None /\ S!Reset(c).cands = {}
           /\ S!Reset(c).conf.st = "none" /\ S!Reset(c).pending = None
           /\ S!Reset(c).hash = None /\ S!Reset(c).order = None
           /\ S!Reset(c).hist = S!Archived(c)
<1>1. S!Archived(c) \in Seq(Operation) /\ Len(S!Archived(c)) <= MaxHistory
  BY ArchivedSound DEF Sound
<1>2. S!Reset(c) = [S!Cleared(c) EXCEPT !.hist = S!Archived(c)]
  BY DEF S!Reset
<1>3. /\ S!Reset(c) \in Checkpoint /\ S!Reset(c).task = c.task /\ S!Reset(c).request = c.request
      /\ S!Reset(c).selected = None /\ S!Reset(c).cands = {}
      /\ S!Reset(c).conf.st = "none" /\ S!Reset(c).pending = None
      /\ S!Reset(c).hash = None /\ S!Reset(c).order = None
      /\ S!Reset(c).hist = S!Archived(c)
  BY <1>1, <1>2, ClearedFields DEF Checkpoint
<1> QED BY <1>1, <1>3 DEF Sound, CheckpointFits

LEMMA ResetRetains ==
    ASSUME S!SlotAssumption, NEW c \in Checkpoint, Sound(c) PROVE Retains(c, S!Reset(c))
<1>1. S!Reset(c).hist = S!Archived(c) /\ c.hist \in Seq(Operation) /\ Len(c.hist) <= MaxHistory
  BY ResetFields DEF Sound, Checkpoint
<1>2. MaxHistory \in Nat \ {0} /\ \A o \in Nat : o # None
  BY DEF S!SlotAssumption
<1> SUFFICES ASSUME NEW o \in Nat, KeptIn(c, o) PROVE KeptIn(S!Reset(c), o)
  BY DEF Retains
<1>3. CASE S!Archived(c) = c.hist /\ c.order = None
  BY <1>1, <1>2, <1>3 DEF KeptIn
<1>4. ASSUME NEW e \in Operation, e.order = c.order, Len(c.hist) < MaxHistory,
             S!Archived(c) = Append(c.hist, e)
      PROVE  KeptIn(S!Reset(c), o)
  <2>1. /\ DOMAIN S!Archived(c) = 1..(Len(c.hist) + 1) /\ DOMAIN c.hist = 1..Len(c.hist)
        /\ \A i \in 1..Len(c.hist) : S!Archived(c)[i] = c.hist[i]
        /\ S!Archived(c)[Len(c.hist) + 1] = e
    BY <1>1, <1>4
  <2>2. Len(c.hist) + 1 \in 1..(Len(c.hist) + 1)
        /\ \A i \in 1..Len(c.hist) : i \in 1..(Len(c.hist) + 1)
    BY <1>1
  <2> QED BY <1>1, <1>4, <2>1, <2>2 DEF KeptIn
<1>5. CASE Len(S!Archived(c)) = MaxHistory
  BY <1>1, <1>5 DEF KeptIn
<1> QED BY <1>3, <1>4, <1>5, ArchivedSound DEF Sound

LEMMA ResetCoherent ==
    ASSUME S!SlotAssumption, NEW c \in Checkpoint, Sound(c), Coherent(c),
           NEW i \in DOMAIN S!Archived(c),
           S!Archived(c)[i].kind = "swap", c.task # None
    PROVE  Paired(S!Archived(c)[i])
<1>1. c.hist \in Seq(Operation) /\ Len(c.hist) <= MaxHistory /\ MaxHistory \in Nat \ {0}
  BY DEF Sound, Checkpoint, S!SlotAssumption
<1>2. CASE S!Archived(c) = c.hist
  BY <1>2 DEF Coherent
<1>3. ASSUME NEW e \in Operation, e.kind = c.task.kind, e.order = c.order, e.hash = c.hash,
             \/ Len(c.hist) < MaxHistory /\ S!Archived(c) = Append(c.hist, e)
             \/ /\ Len(c.hist) = MaxHistory /\ Len(S!Archived(c)) = MaxHistory
                /\ \A k \in 1..MaxHistory :
                      S!Archived(c)[k] = IF k = MaxHistory THEN e ELSE c.hist[k + 1]
      PROVE  Paired(S!Archived(c)[i])
  <2>1. e.kind = "swap" => Paired(e)
    BY <1>3 DEF Coherent, Paired
  <2>2. S!Archived(c)[i] = e \/ \E k \in DOMAIN c.hist : S!Archived(c)[i] = c.hist[k]
    <3>1. S!Archived(c) \in Seq(Operation)
      BY ArchivedSound DEF Sound
    <3>2. i \in 1..Len(S!Archived(c)) /\ DOMAIN c.hist = 1..Len(c.hist)
      BY <1>1, <3>1
    <3>3. CASE S!Archived(c) = Append(c.hist, e)
      <4>1. \A k \in 1..(Len(c.hist) + 1) :
               Append(c.hist, e)[k] = IF k = Len(c.hist) + 1 THEN e ELSE c.hist[k]
        BY <1>1
      <4>2. Len(Append(c.hist, e)) = Len(c.hist) + 1 /\ Len(c.hist) \in Nat
        BY <1>1
      <4>3. i \in 1..(Len(c.hist) + 1)
        BY <3>2, <3>3, <4>2
      <4>4. i = Len(c.hist) + 1 \/ i \in 1..Len(c.hist)
        BY <4>2, <4>3
      <4> QED BY <3>2, <3>3, <4>1, <4>3, <4>4
    <3>4. CASE /\ Len(c.hist) = MaxHistory /\ Len(S!Archived(c)) = MaxHistory
               /\ \A k \in 1..MaxHistory :
                     S!Archived(c)[k] = IF k = MaxHistory THEN e ELSE c.hist[k + 1]
      <4>1. i \in 1..MaxHistory /\ (i = MaxHistory \/ i + 1 \in 1..Len(c.hist))
        BY <1>1, <3>2, <3>4
      <4> QED BY <3>2, <3>4, <4>1
    <3> QED BY <1>3, <3>3, <3>4
  <2> QED BY <2>1, <2>2 DEF Coherent
<1> QED BY <1>2, <1>3, ArchivedSound DEF Sound

(***************************************************************************)
(* The supervisor.                                                         *)
(***************************************************************************)

LEMMA FirstOne ==
    ASSUME NEW D \in SUBSET Nat, D # {} PROVE \E m \in D : \A d \in D : m <= d
<1> DEFINE Less == OpToRel(<, Nat)
<1>1. IsWellFoundedOn(Less, Nat)
  BY NatLessThanWellFounded
<1>2. \A x, y \in Nat : <<x, y>> \in Less <=> x < y
  BY DEF OpToRel
<1> HIDE DEF Less
<1>3. PICK m \in D : \A d \in D : ~ (<<d, m>> \in Less)
  BY <1>1, WFMin
<1>4. ASSUME NEW d \in D PROVE m <= d
  <2>1. ~ (<<d, m>> \in Less) /\ d \in Nat /\ m \in Nat
    BY <1>3
  <2>2. <<d, m>> \in Less <=> d < m
    BY <1>2, <2>1
  <2>3. ~ (d < m)
    BY <2>1, <2>2
  <2> QED BY <2>1, <2>3
<1> QED BY <1>4

LEMMA LastOne ==
    ASSUME NEW n \in Nat, NEW Ks \in SUBSET (1..n), Ks # {}
    PROVE  \E k \in Ks : \A j \in Ks : j <= k
<1> DEFINE D == {n - k : k \in Ks}
<1>1. \A k \in Ks : k \in Nat /\ n - k \in Nat /\ n - k \in D
  OBVIOUS
<1>2. D \in SUBSET Nat /\ D # {}
  BY <1>1
<1>3. \A d \in D : \E k \in Ks : d = n - k
  OBVIOUS
<1> HIDE DEF D
<1>4. PICK m \in D : \A d \in D : m <= d
  BY <1>2, FirstOne
<1>5. PICK k \in Ks : m = n - k
  BY <1>3
<1>6. ASSUME NEW j \in Ks PROVE j <= k
  <2>1. m <= n - j
    BY <1>1, <1>4
  <2> QED BY <1>1, <1>5, <2>1
<1> QED BY <1>6

LEMMA ReparsedFields ==
    ASSUME NEW c \in Checkpoint, Sound(c)
    PROVE  /\ Sound(S!Reparsed(c)) /\ Retains(c, S!Reparsed(c)) /\ S!Reparsed(c).task = c.task
           /\ Coherent(c) => Coherent(S!Reparsed(c))
           /\ Quoted(c) => Quoted(S!Reparsed(c))
<1>1. CASE c.conf.st # "requested"
  BY <1>1, SameHistoryRetains DEF S!Reparsed
<1>2. CASE c.conf.st = "requested"
  <2> DEFINE d == S!Reparsed(c)
  <2>1. d = [c EXCEPT !.conf = S!NoConfirmation, !.selected = None, !.cands = {},
                      !.request = None, !.pending = None]
    BY <1>2 DEF S!Reparsed
  <2>2. S!NoConfirmation \in Approval /\ S!NoConfirmation.st = "none"
    BY DEF S!NoConfirmation, Approval
  <2>3. /\ d \in Checkpoint /\ d.task = c.task /\ d.hist = c.hist /\ d.order = c.order
        /\ d.hash = c.hash /\ d.conf.st = "none" /\ d.selected = None /\ d.cands = {}
        /\ d.request = None /\ d.pending = None
    BY <2>1, <2>2 DEF Checkpoint
  <2> HIDE DEF d
  <2>4. Sound(d) /\ Retains(c, d)
    BY <2>3, SameHistoryRetains DEF Sound, CheckpointFits
  <2>5. Coherent(c) => Coherent(d)
    BY <1>2, <2>3 DEF Coherent, Paired
  <2>6. Quoted(d)
    BY <2>3 DEF Quoted
  <2> QED BY <2>3, <2>4, <2>5, <2>6 DEF d
<1> QED BY <1>1, <1>2

LEMMA HydratedFields ==
    ASSUME S!SlotAssumption, NEW c \in Checkpoint, Sound(c), NEW i
    PROVE  /\ Sound(S!Hydrated(c, i)) /\ Retains(c, S!Hydrated(c, i))
           /\ Coherent(c) => Coherent(S!Hydrated(c, i))
           /\ Coherent(c) /\ Quoted(c) => Quoted(S!Hydrated(c, i))
<1> DEFINE past == {k \in DOMAIN c.hist : c.hist[k].kind = "swap"
                                          /\ (c.hist[k].order # None \/ c.hist[k].hash # None)}
           k0 == CHOOSE k \in past : \A j \in past : j <= k
           last == c.hist[k0]
           d == S!Hydrated(c, i)
<1>1. CASE ~(i = "status" /\ c.order = None /\ c.hash = None /\ past # {})
  BY <1>1, SameHistoryRetains DEF S!Hydrated
<1>2. CASE i = "status" /\ c.order = None /\ c.hash = None /\ past # {}
  <2>1. c.hist \in Seq(Operation) /\ Len(c.hist) \in Nat /\ DOMAIN c.hist = 1..Len(c.hist)
    BY DEF Checkpoint
  <2>2. k0 \in past
    <3>1. past \in SUBSET (1..Len(c.hist)) /\ past # {}
      BY <1>2, <2>1
    <3> HIDE DEF past
    <3> QED BY <2>1, <3>1, LastOne
  <2>3. /\ last \in Operation /\ last.kind = "swap" /\ k0 \in DOMAIN c.hist
        /\ last.order # None \/ last.hash # None
    <3>1. k0 \in 1..Len(c.hist) /\ c.hist[k0].kind = "swap"
          /\ (c.hist[k0].order # None \/ c.hist[k0].hash # None)
      BY <2>1, <2>2
    <3> HIDE DEF k0
    <3> QED BY <2>1, <3>1
  <2>4. d = [c EXCEPT !.order = last.order, !.hash = last.hash, !.selected = last.selected]
    BY <1>2 DEF S!Hydrated
  <2>5. /\ last.order \in OrderNo /\ last.hash \in OrderNo
        /\ last.selected \in S!QuoteType \cup {None}
        /\ Coherent(c) => Paired(last)
    BY <2>3 DEF Operation, Coherent
  <2> HIDE DEF last, past, k0
  <2>6. /\ d \in Checkpoint /\ d.task = c.task /\ d.hist = c.hist
        /\ d.order = last.order /\ d.hash = last.hash /\ d.selected = last.selected
        /\ d.conf = c.conf /\ d.pending = c.pending /\ d.request = c.request
        /\ d.cands = c.cands
    BY <2>4, <2>5 DEF Checkpoint
  <2> HIDE DEF d
  <2>7. Sound(d)
    BY <2>6 DEF Sound, CheckpointFits
  <2>8. Retains(c, d)
    <3>1. \A o \in Nat : o # None
      BY DEF S!SlotAssumption
    <3> QED BY <1>2, <2>6, <3>1 DEF Retains, KeptIn
  <2>9. c.hist # <<>>
    BY <2>1, <2>3 DEF last
  <2>10. Coherent(c) => Coherent(d)
    <3>1. Coherent(c) => c.task # None
      BY <2>9 DEF Coherent
    <3> QED BY <2>3, <2>5, <2>6, <3>1 DEF Coherent, Paired
  <2>11. Coherent(c) /\ Quoted(c) => Quoted(d)
    BY <2>3, <2>5, <2>6 DEF Quoted, Paired, RequestStands
  <2> QED BY <2>7, <2>8, <2>10, <2>11 DEF d
<1> QED BY <1>1, <1>2

(***************************************************************************)
(* The intent node.                                                        *)
(***************************************************************************)

LEMMA TaskForFits ==
    ASSUME S!SlotAssumption, Sound(scp), NEW job \in {"swap", "transfer"}
    PROVE  /\ S!TaskFor(job) \in S!Task /\ S!TaskFor(job).kind = job
           /\ SlotsFit(job, S!TaskFor(job).slots) /\ S!TaskFor(job).slots \in S!Slots
           /\ \/ S!TaskFor(job).slots = S!NoSlots
              \/ scp.task # None /\ scp.task.kind = job /\ S!TaskFor(job) = scp.task
<1>1. CASE scp.task = None \/ scp.task.kind # job \/ scp.task.status = "cancelled"
  <2>1. S!TaskFor(job) = S!NewTask(job)
    BY <1>1 DEF S!TaskFor
  <2> QED BY <2>1, NewTaskFits
<1>2. CASE ~(scp.task = None \/ scp.task.kind # job \/ scp.task.status = "cancelled")
  <2>1. S!TaskFor(job) = scp.task /\ scp.task # None /\ scp.task.kind = job
    BY <1>2 DEF S!TaskFor
  <2>2. scp.task \in S!Task
    BY <2>1 DEF Sound, Checkpoint
  <2> QED BY <2>1, <2>2 DEF Sound, CheckpointFits, S!Task
<1> QED BY <1>1, <1>2

\* What the base of a merge has in common with the checkpoint it comes from.
LEMMA BaseFields ==
    ASSUME S!SlotAssumption, Sound(scp), NEW job \in {"swap", "transfer"}
    PROVE  LET b == S!Base(job)
           IN /\ Sound(b) /\ b \in Checkpoint /\ b.request = scp.request /\ Retains(scp, b)
              /\ \/ /\ b = scp
                    /\ S!Active(scp) => scp.task # None /\ scp.task.kind = job
                 \/ b.cands = {} /\ b.selected = None /\ ~S!Active(b)
              /\ Coherent(scp) =>
                    \A i \in DOMAIN b.hist : b.hist[i].kind = "swap" => Paired(b.hist[i])
<1>1. CASE S!Base(job) = scp
  <2>1. S!Active(scp) => scp.task # None /\ scp.task.kind = job
    <3>1. CASE S!Active(scp) /\ ~(scp.task # None /\ scp.task.kind = job)
      <4>1. S!Base(job) = S!Reset(scp)
        BY <3>1 DEF S!Base
      <4>2. ~S!Active(S!Reset(scp))
        BY ResetFields DEF Sound, S!Active
      <4> QED BY <1>1, <3>1, <4>1, <4>2
    <3> QED BY <3>1
  <2> QED BY <1>1, <2>1, SameHistoryRetains DEF Sound, Coherent
<1>2. CASE S!Base(job) # scp
  <2>1. S!Base(job) = S!Reset(scp) /\ S!Active(scp)
    BY <1>2 DEF S!Base
  <2> DEFINE b == S!Reset(scp)
  <2>2. /\ Sound(b) /\ b.request = scp.request /\ Retains(scp, b) /\ b.cands = {}
        /\ b.selected = None /\ ~S!Active(b) /\ b.hist = S!Archived(scp)
    BY ResetFields, ResetRetains DEF Sound, S!Active
  <2> HIDE DEF b
  <2>3. Coherent(scp) => scp.task # None
    BY <2>1 DEF Coherent
  <2>4. Coherent(scp) => \A i \in DOMAIN b.hist : b.hist[i].kind = "swap" => Paired(b.hist[i])
    BY <2>2, <2>3, ResetCoherent DEF Sound
  <2> QED BY <2>1, <2>2, <2>4 DEF Sound, b
<1> QED BY <1>1, <1>2

LEMMA InvalidatedFields ==
    ASSUME NEW c \in Checkpoint, Sound(c), NEW job
    PROVE  LET d == S!Invalidated(c, job)
           IN /\ d \in Checkpoint /\ Sound(d) /\ d.task = c.task /\ d.hist = c.hist
              /\ d.order = c.order /\ d.hash = c.hash
              /\ d.conf.st = "none" /\ d.pending = None
              /\ job = "transfer" => /\ d.selected = c.selected /\ d.cands = c.cands
                                     /\ d.request = c.request
              /\ job # "transfer" => d.selected = None /\ d.cands = {}
BY DEF S!Invalidated, Sound, CheckpointFits, Checkpoint, Approval, S!NoConfirmation

\* A message is merged into the task of its kind, over the base.
LEMMA MergedFields ==
    ASSUME S!SlotAssumption, Sound(scp), NEW job \in {"swap", "transfer"},
           NEW p \in IF job = "swap" THEN S!SwapPatch ELSE S!TransferPatch,
           NEW pin \in Provider \cup {None}
    PROVE  LET c == S!Merged(job, p, pin)
           IN /\ c \in Checkpoint /\ Sound(c) /\ c.task \in S!Task /\ c.task.kind = job
              /\ Retains(scp, c)
              /\ Coherent(scp) => Coherent(c)
              /\ Coherent(scp) /\ Quoted(scp) => Quoted(c)
              /\ c.cands # {} \/ c.selected # None => c.request = scp.request
              /\ c.conf.st \in {"none", scp.conf.st}
<1> DEFINE task == S!TaskFor(job)
           slots == IF job = "swap" THEN S!MergeSwap(task.slots, p)
                    ELSE S!MergeTransfer(task.slots, p)
           new == [task EXCEPT !.slots = slots, !.pin = IF pin = None THEN @ ELSE pin]
           b == S!Base(job)
           over == IF slots = task.slots THEN b ELSE S!Invalidated(b, job)
           c == S!Merged(job, p, pin)
<1>1. /\ task \in S!Task /\ task.kind = job /\ SlotsFit(job, task.slots) /\ task.slots \in S!Slots
      /\ \/ task.slots = S!NoSlots
         \/ scp.task # None /\ scp.task.kind = job /\ task = scp.task
  BY TaskForFits
<1> HIDE DEF task
<1>2. slots \in S!Slots /\ SlotsFit(job, slots)
  BY <1>1, MergedSwap, MergedTransfer
<1> HIDE DEF slots
<1>3. new \in S!Task /\ new.kind = job /\ new.slots = slots
  BY <1>1, <1>2 DEF S!Task
<1> HIDE DEF new
<1>4. /\ Sound(b) /\ b \in Checkpoint /\ b.request = scp.request /\ Retains(scp, b)
      /\ \/ b = scp /\ (S!Active(scp) => scp.task # None /\ scp.task.kind = job)
         \/ b.cands = {} /\ b.selected = None /\ ~S!Active(b)
      /\ Coherent(scp) => \A i \in DOMAIN b.hist : b.hist[i].kind = "swap" => Paired(b.hist[i])
  BY BaseFields
<1> HIDE DEF b
<1>5. /\ over \in Checkpoint /\ Sound(over) /\ over.hist = b.hist
      /\ over.order = b.order /\ over.hash = b.hash
      /\ over.conf.st \in {"none", b.conf.st} /\ over.pending \in {None, b.pending}
      /\ over.selected \in {None, b.selected} /\ over.cands \in {{}, b.cands}
      /\ job = "swap" /\ slots # task.slots => over.selected = None /\ over.cands = {}
      /\ job = "transfer" \/ slots = task.slots => over.request = b.request
  BY <1>4, InvalidatedFields
<1> HIDE DEF over
<1>6. c = [over EXCEPT !.task = new]
  BY DEF S!Merged, over, new, slots, b, task
<1>7. /\ c \in Checkpoint /\ c.task = new /\ c.hist = b.hist /\ c.order = b.order
      /\ c.hash = b.hash /\ c.conf = over.conf /\ c.pending = over.pending
      /\ c.selected = over.selected /\ c.cands = over.cands /\ c.request = over.request
  BY <1>3, <1>5, <1>6 DEF Checkpoint
<1> HIDE DEF c
<1>8. Sound(c)
  BY <1>2, <1>3, <1>5, <1>7 DEF Sound, CheckpointFits
<1>9. Retains(scp, c)
  BY <1>4, <1>7 DEF Retains, KeptIn
<1>10. c.task # None
  BY <1>3, <1>7 DEF S!SlotAssumption
<1>11. ASSUME Coherent(scp) PROVE Coherent(c)
  <2>1. CASE b = scp /\ scp.task # None /\ scp.task.kind = job
    BY <1>3, <1>4, <1>5, <1>7, <1>10, <1>11, <2>1 DEF Coherent, Paired
  <2>2. CASE ~S!Active(b)
    BY <1>3, <1>4, <1>5, <1>7, <1>10, <1>11, <2>2 DEF Coherent, Paired, S!Active
  <2> QED BY <1>4, <2>1, <2>2
<1>12. c.cands # {} \/ c.selected # None => c.request = scp.request
  BY <1>4, <1>5, <1>7
<1>13. ASSUME Coherent(scp), Quoted(scp) PROVE Quoted(c)
  <2>1. CASE c.cands = {} /\ c.selected = None
    BY <2>1 DEF Quoted
  <2>2. CASE ~(c.cands = {} /\ c.selected = None)
    <3>1. /\ b = scp /\ c.request = scp.request /\ c.cands \in {{}, scp.cands}
          /\ c.selected \in {None, scp.selected} /\ c.order = scp.order /\ c.hash = scp.hash
      BY <1>4, <1>5, <1>7, <1>12, <2>2
    <3>2. job = "swap" => slots = task.slots
      BY <1>5, <1>7, <2>2
    <3>3. RequestStands(scp) => RequestStands(c)
      BY <1>1, <1>3, <1>7, <3>1, <3>2 DEF RequestStands
    <3> QED BY <1>13, <3>1, <3>3 DEF Quoted
  <2> QED BY <2>1, <2>2
<1>14. c.conf.st \in {"none", scp.conf.st}
  BY <1>4, <1>5, <1>7 DEF S!Active
<1> QED BY <1>3, <1>7, <1>8, <1>9, <1>11, <1>12, <1>13, <1>14 DEF c

(***************************************************************************)
(* The invariant: what the nodes may rely on, and that a checkpoint whose  *)
(* operation was not abandoned is coherent and holds every swap order.     *)
(***************************************************************************)

Places ==
    /\ spc \in {"idle", "intent", "quotes", "transfer", "read", "continue"}
    /\ said \in {None, "swap", "transfer", "clarify", "status", "transaction", "read", "cancel"}
    /\ sturns \in 0..S!LastTurn
    /\ placed \in Seq({"swap", "transfer"}) /\ Len(placed) <= MaxBroadcasts
    /\ abandoned \in BOOLEAN

AtNode ==
    /\ spc # "idle" => sturns \in 1..S!LastTurn
    /\ spc \in {"quotes", "continue"} =>
           /\ scp.task # None /\ scp.task.kind = "swap"
           /\ scp.request # None /\ scp.request = S!Request(scp.task.slots)
           /\ S!Known(scp.request.src) /\ S!Known(scp.request.dst)
    /\ spc = "transfer" /\ ~abandoned => scp.task # None /\ scp.task.kind = "transfer"
    /\ spc = "continue" /\ ~abandoned /\ scp.hash = None => scp.selected.req = scp.request

Together ==
    ~abandoned =>
        /\ Coherent(scp) /\ Quoted(scp)
        /\ \A o \in DOMAIN placed : placed[o] = "swap" => KeptIn(scp, o)

SlotInv == scp \in Checkpoint /\ Sound(scp) /\ Places /\ AtNode /\ Together

LEMMA InitSlotInv == ASSUME S!SlotAssumption, S!Init PROVE SlotInv
<1>1. MaxSaid \in Seq(Nat) /\ S!LastTurn \in Nat /\ 0 \in 0..S!LastTurn /\ MaxBroadcasts \in Nat
  BY DEF S!SlotAssumption, S!LastTurn
<1>2. /\ scp \in Checkpoint /\ scp.task = None /\ scp.request = None /\ scp.hist = <<>>
      /\ scp.selected = None /\ scp.cands = {} /\ scp.conf.st = "none" /\ scp.pending = None
      /\ scp.hash = None /\ scp.order = None
  BY DEF S!Init, Checkpoint, S!NoConfirmation, Approval, OrderNo
<1>3. Sound(scp)
  BY <1>2 DEF Sound, CheckpointFits, S!SlotAssumption
<1>4. Places /\ AtNode
  <2>1. placed \in Seq({"swap", "transfer"}) /\ Len(placed) = 0
    BY DEF S!Init
  <2>2. spc = "idle" /\ said = None /\ sturns = 0 /\ abandoned = FALSE
    BY DEF S!Init
  <2>3. Len(placed) <= MaxBroadcasts
    BY <1>1, <2>1
  <2>4. Places
    BY <1>1, <2>1, <2>2, <2>3 DEF Places
  <2> QED BY <2>2, <2>4 DEF AtNode
<1>5. Together
  <2>1. placed = <<>> /\ DOMAIN placed = {} /\ DOMAIN scp.hist = {}
    BY <1>2 DEF S!Init
  <2>2. Coherent(scp) /\ Quoted(scp)
    BY <1>2, <2>1 DEF Coherent, Quoted, S!Active
  <2> QED BY <2>1, <2>2 DEF Together
<1> QED BY <1>2, <1>3, <1>4, <1>5 DEF SlotInv

\* What every step of a turn comes to.
LEMMA StepKeeps ==
    ASSUME SlotInv, scp' \in Checkpoint, Sound(scp'), Places', AtNode', UNCHANGED placed,
           ~abandoned' => ~abandoned,
           ~abandoned' => Retains(scp, scp') /\ Coherent(scp') /\ Quoted(scp')
    PROVE  SlotInv'
<1>1. DOMAIN placed \in SUBSET Nat
  BY DEF SlotInv, Places
<1>2. Together'
  BY <1>1 DEF SlotInv, Together, Retains
<1> QED BY <1>2 DEF SlotInv

LEMMA EndsTurn ==
    ASSUME SlotInv, S!EndTurn, UNCHANGED <<sturns, placed>>, abandoned' \in BOOLEAN
    PROVE  Places' /\ AtNode'
BY DEF SlotInv, Places, AtNode, S!EndTurn, S!Goto

LEMMA SameCheckpoint ==
    ASSUME SlotInv, UNCHANGED <<scp, placed, abandoned>>, Places', AtNode' PROVE SlotInv'
BY DEF SlotInv, Together

LEMMA SupervisorKeeps ==
    ASSUME S!SlotAssumption, SlotInv,
           NEW i \in {"swap", "transfer", "clarify", "status", "transaction", "read", "cancel"},
           S!Supervisor(i)
    PROVE  SlotInv'
<1> DEFINE c == S!Reparsed(scp)
           d == S!Hydrated(c, i)
<1>1. /\ spc' = "intent" /\ said' = i /\ sturns < S!LastTurn /\ sturns' = sturns + 1
      /\ scp' = d /\ UNCHANGED <<placed, abandoned>>
  BY DEF S!Supervisor, S!marks
<1>2. /\ Sound(c) /\ Retains(scp, c)
      /\ Coherent(scp) => Coherent(c)
      /\ Quoted(scp) => Quoted(c)
  BY ReparsedFields DEF SlotInv
<1> HIDE DEF c
<1>3. /\ Sound(d) /\ Retains(c, d)
      /\ Coherent(c) => Coherent(d)
      /\ Coherent(c) /\ Quoted(c) => Quoted(d)
  BY <1>2, HydratedFields DEF Sound
<1> HIDE DEF d
<1>4. Places' /\ AtNode'
  BY <1>1 DEF SlotInv, Places, AtNode, S!LastTurn, S!SlotAssumption
<1>5. ~abandoned => Retains(scp, d) /\ Coherent(d) /\ Quoted(d)
  BY <1>2, <1>3 DEF SlotInv, Together, Retains
<1> QED BY <1>1, <1>3, <1>4, <1>5, StepKeeps DEF Sound

LEMMA CancelTaskKeeps ==
    ASSUME S!SlotAssumption, SlotInv, S!CancelTask PROVE SlotInv'
<1> DEFINE task == IF scp.task = None THEN None ELSE [scp.task EXCEPT !.status = "cancelled"]
<1>1. /\ S!EndTurn /\ UNCHANGED <<sturns, placed, abandoned>>
      /\ scp' = [scp EXCEPT !.task = task, !.request = None, !.cands = {}, !.selected = None,
                            !.conf = S!NoConfirmation, !.pending = None]
  BY DEF S!CancelTask, S!marks
<1>2. scp \in Checkpoint /\ Sound(scp) /\ abandoned \in BOOLEAN
  BY DEF SlotInv, Places
<1>3. /\ task \in S!Task \cup {None} /\ (task = None <=> scp.task = None)
      /\ scp.task # None => task.kind = scp.task.kind /\ task.slots = scp.task.slots
  BY <1>2 DEF Checkpoint, S!Task, S!SlotAssumption
<1> HIDE DEF task
<1>4. S!NoConfirmation \in Approval /\ S!NoConfirmation.st = "none"
  BY DEF S!NoConfirmation, Approval
<1>5. /\ scp' \in Checkpoint /\ scp'.task = task /\ scp'.request = None /\ scp'.cands = {}
      /\ scp'.selected = None /\ scp'.conf.st = "none" /\ scp'.pending = None
      /\ scp'.hash = scp.hash /\ scp'.order = scp.order /\ scp'.hist = scp.hist
  BY <1>1, <1>2, <1>3, <1>4 DEF Checkpoint
<1>6. Sound(scp')
  BY <1>2, <1>3, <1>5 DEF Sound, CheckpointFits
<1>7. Retains(scp, scp') /\ Quoted(scp')
  BY <1>5, SameHistoryRetains DEF Quoted
<1>8. ~abandoned => Coherent(scp')
  BY <1>3, <1>5 DEF SlotInv, Together, Coherent, S!Active, Paired
<1> QED BY <1>1, <1>2, <1>5, <1>6, <1>7, <1>8, EndsTurn, StepKeeps

LEMMA TaskKinds ==
    ASSUME SlotInv, S!TaskKind # None
    PROVE  S!TaskKind \in {"swap", "transfer"}
BY DEF S!TaskKind, SlotInv, Checkpoint, S!Task

LEMMA ExtractionFailsKeeps ==
    ASSUME S!SlotAssumption, SlotInv, S!ExtractionFails PROVE SlotInv'
<1> DEFINE task == S!TaskFor(S!TaskKind)
<1>1. /\ S!EndTurn /\ UNCHANGED <<sturns, placed>> /\ scp' = [scp EXCEPT !.task = task]
      /\ abandoned' = (abandoned \/ S!Abandons(S!TaskKind)) /\ S!TaskKind \in {"swap", "transfer"}
  BY TaskKinds DEF S!ExtractionFails
<1>2. scp \in Checkpoint /\ Sound(scp) /\ abandoned \in BOOLEAN
  BY DEF SlotInv, Places
<1>3. /\ task \in S!Task /\ task.kind = S!TaskKind /\ SlotsFit(S!TaskKind, task.slots)
      /\ task.slots = S!NoSlots \/ task = scp.task
  BY <1>1, <1>2, TaskForFits
<1>4. task # None
  BY <1>3 DEF S!SlotAssumption
<1> HIDE DEF task
<1>5. /\ scp' \in Checkpoint /\ scp'.task = task /\ scp'.request = scp.request
      /\ scp'.cands = scp.cands /\ scp'.selected = scp.selected /\ scp'.conf = scp.conf
      /\ scp'.pending = scp.pending /\ scp'.hash = scp.hash /\ scp'.order = scp.order
      /\ scp'.hist = scp.hist
  BY <1>1, <1>2, <1>3 DEF Checkpoint
<1>6. Sound(scp')
  BY <1>2, <1>3, <1>5 DEF Sound, CheckpointFits
<1>7. abandoned' \in BOOLEAN /\ (~abandoned' => ~abandoned /\ ~S!Abandons(S!TaskKind))
  BY <1>1, <1>2 DEF S!Abandons, S!Active
<1>8. ASSUME ~abandoned' PROVE Retains(scp, scp') /\ Coherent(scp') /\ Quoted(scp')
  <2>1. Coherent(scp) /\ Quoted(scp)
    BY <1>7, <1>8 DEF SlotInv, Together
  <2>2. S!Active(scp) => scp.task # None /\ scp.task.kind = task.kind
    BY <1>3, <1>7, <1>8, <2>1 DEF S!Abandons, Coherent
  <2>3. Coherent(scp')
    <3>1. CASE S!Active(scp)
      BY <1>4, <1>5, <2>1, <2>2, <3>1 DEF Coherent, Paired
    <3>2. CASE ~S!Active(scp)
      BY <1>4, <1>5, <2>1, <3>2 DEF Coherent, Paired, S!Active
    <3> QED BY <3>1, <3>2
  <2>4. Quoted(scp')
    BY <1>3, <1>5, <2>1 DEF Quoted, RequestStands
  <2> QED BY <1>5, <2>3, <2>4, SameHistoryRetains
<1> QED BY <1>1, <1>5, <1>6, <1>7, <1>8, EndsTurn, StepKeeps

\* Slots that are put into the task of a checkpoint.
Progressed(d, c, slots) ==
    /\ d \in Checkpoint /\ Sound(d) /\ d.task \in S!Task
    /\ d.task.kind = c.task.kind /\ d.task.slots = slots
    /\ d.request = c.request /\ d.hist = c.hist /\ d.order = c.order
    /\ d.hash = c.hash /\ d.conf = c.conf /\ d.pending = c.pending
    /\ d.selected = c.selected /\ d.cands = c.cands

LEMMA ProgressFields ==
    ASSUME NEW c \in Checkpoint, Sound(c), c.task \in S!Task, NEW slots \in S!Slots,
           SlotsFit(c.task.kind, slots), NEW status \in {"collecting", "ready"}
    PROVE  LET d == S!Progress(c, slots, status)
           IN /\ d \in Checkpoint /\ Sound(d) /\ d.task \in S!Task
              /\ d = [c EXCEPT !.task = d.task]
              /\ d.task.kind = c.task.kind /\ d.task.slots = slots
              /\ d.request = c.request /\ d.hist = c.hist /\ d.order = c.order
              /\ d.hash = c.hash /\ d.conf = c.conf /\ d.pending = c.pending
              /\ d.selected = c.selected /\ d.cands = c.cands
<1> DEFINE task == [c.task EXCEPT !.slots = slots, !.status = status]
           d == S!Progress(c, slots, status)
<1>1. task \in S!Task /\ task.kind = c.task.kind /\ task.slots = slots
  BY DEF S!Task
<1>2. d = [c EXCEPT !.task = task]
  BY DEF S!Progress, Checkpoint, S!Task
<1> HIDE DEF task
<1>3. /\ d \in Checkpoint /\ d.task = task
      /\ d.request = c.request /\ d.hist = c.hist /\ d.order = c.order
      /\ d.hash = c.hash /\ d.conf = c.conf /\ d.pending = c.pending
      /\ d.selected = c.selected /\ d.cands = c.cands
  BY <1>1, <1>2 DEF Checkpoint
<1> HIDE DEF d
<1>4. Sound(d)
  BY <1>1, <1>3 DEF Sound, CheckpointFits
<1> QED BY <1>1, <1>2, <1>3, <1>4 DEF d

\* The draft of a swap comes to the request its quotes are of.
LEMMA DraftFields ==
    ASSUME Sound(scp), NEW c \in Checkpoint, Sound(c), c.task \in S!Task, c.task.kind = "swap",
           c.task # None, NEW from \in BOOLEAN
    PROVE  LET d == S!Draft(c, from)
           IN /\ d \in S!Slots /\ SlotsFit("swap", d)
              /\ RequestStands(c) /\ c.request = scp.request =>
                    /\ S!Request(d) = c.request /\ S!Known(d.src) /\ S!Known(d.dst)
                    /\ d.usd => d.in = None
<1> DEFINE s == IF c.task.slots = S!NoSlots /\ scp.request # None
                THEN S!FromRequest(scp.request) ELSE c.task.slots
           d == S!Draft(c, from)
<1>1. c.task.slots \in S!Slots /\ SlotsFit("swap", c.task.slots)
  BY DEF Sound, CheckpointFits, S!Task
<1>2. scp.request # None => /\ scp.request \in S!RequestType
                            /\ S!FromRequest(scp.request) \in S!Slots
                            /\ SlotsFit("swap", S!FromRequest(scp.request))
                            /\ S!Request(S!FromRequest(scp.request)) = scp.request
  BY FromRequestFits DEF Sound, CheckpointFits, Checkpoint
<1>3. s \in S!Slots /\ SlotsFit("swap", s)
  BY <1>1, <1>2
<1>4. RequestStands(c) /\ c.request = scp.request => S!Request(s) = c.request
  BY <1>2 DEF RequestStands
<1> HIDE DEF s
<1>5. d = [s EXCEPT !.from = @ \/ from]
  BY DEF S!Draft, s
<1>6. /\ d \in S!Slots /\ d.src = s.src /\ d.dst = s.dst /\ d.in = s.in /\ d.out = s.out
      /\ d.usd = s.usd
  BY <1>3, <1>5 DEF S!Slots
<1> HIDE DEF d
<1>7. SlotsFit("swap", d) /\ S!Request(d) = S!Request(s) /\ (d.usd => d.in = None)
  BY <1>3, <1>6 DEF SlotsFit, S!Request
<1>8. S!Request(s).src = s.src /\ S!Request(s).dst = s.dst
  BY DEF S!Request
<1>9. RequestStands(c) => S!Known(c.request.src) /\ S!Known(c.request.dst)
  BY DEF RequestStands
<1> QED BY <1>4, <1>6, <1>7, <1>8, <1>9 DEF d

LEMMA SaidPatches ==
    ASSUME S!SlotAssumption, SlotInv, spc = "intent"
    PROVE  /\ S!SaidOfSwap[sturns] \subseteq S!SwapPatch
           /\ S!SaidOfTransfer[sturns] \subseteq S!TransferPatch
<1>1. sturns \in DOMAIN MaxSaid
  BY DEF SlotInv, AtNode, Places, S!LastTurn, S!SlotAssumption
<1> QED BY <1>1 DEF S!SaidOfSwap, S!SaidOfTransfer, S!SaidOf

LEMMA IntentSwapKeeps ==
    ASSUME S!SlotAssumption, SlotInv, S!IntentSwap PROVE SlotInv'
<1>1. spc = "intent" /\ UNCHANGED <<sturns, placed, abandoned>>
  BY DEF S!IntentSwap, S!marks
<1>2. PICK m \in S!SwapMerges : \E r \in S!Resolutions(S!Draft(m.c, m.from)) :
         \E v \in IF r.err THEN {[slots |-> r.slots, err |-> TRUE]} ELSE S!Conversions(r.slots) :
            \/ S!SwapFails(m.c, v)
            \/ S!SwapAsksChoice(m.c, r, v)
            \/ S!SwapAsksSlots(m.c, r, v)
            \/ S!SwapIsReady(m.c, r, v)
  BY DEF S!IntentSwap
<1>3. PICK r \in S!Resolutions(S!Draft(m.c, m.from)) :
         \E v \in IF r.err THEN {[slots |-> r.slots, err |-> TRUE]} ELSE S!Conversions(r.slots) :
            \/ S!SwapFails(m.c, v)
            \/ S!SwapAsksChoice(m.c, r, v)
            \/ S!SwapAsksSlots(m.c, r, v)
            \/ S!SwapIsReady(m.c, r, v)
  BY <1>2
<1>4. PICK v \in IF r.err THEN {[slots |-> r.slots, err |-> TRUE]} ELSE S!Conversions(r.slots) :
            \/ S!SwapFails(m.c, v)
            \/ S!SwapAsksChoice(m.c, r, v)
            \/ S!SwapAsksSlots(m.c, r, v)
            \/ S!SwapIsReady(m.c, r, v)
  BY <1>3
<1>5. PICK p \in S!SwapPatch, pin \in Provider \cup {None} :
         m = [c |-> S!Merged("swap", p, pin), from |-> p.from]
  BY <1>1, SaidPatches DEF S!SwapMerges
<1> DEFINE c == m.c
           s == S!Draft(m.c, m.from)
           asks == S!Progress(c, v.slots, "collecting")
           ready == S!Progress(c, v.slots, "ready")
<1>6. c = S!Merged("swap", p, pin) /\ m.from = p.from /\ p.from \in BOOLEAN
  BY <1>5 DEF S!SwapPatch
<1>7. /\ c \in Checkpoint /\ Sound(c) /\ c.task \in S!Task /\ c.task.kind = "swap"
      /\ Retains(scp, c)
      /\ Coherent(scp) => Coherent(c)
      /\ Coherent(scp) /\ Quoted(scp) => Quoted(c)
      /\ c.cands # {} \/ c.selected # None => c.request = scp.request
  BY <1>6, MergedFields DEF SlotInv
<1>8. c.task # None
  BY <1>7 DEF S!SlotAssumption
<1> HIDE DEF c
<1>9. /\ s \in S!Slots /\ SlotsFit("swap", s)
      /\ RequestStands(c) /\ c.request = scp.request =>
            /\ S!Request(s) = c.request /\ S!Known(s.src) /\ S!Known(s.dst)
            /\ s.usd => s.in = None
  BY <1>6, <1>7, <1>8, DraftFields DEF SlotInv, c
<1> HIDE DEF s
<1>10. r \in S!Resolutions(s)
  BY DEF s
<1>11. v.slots \in S!Slots /\ SlotsFit("swap", v.slots) /\ SameRequest(s, v.slots)
  BY <1>9, <1>10, WorkedSlots
<1>12. RequestStands(c) /\ c.request = scp.request => S!Request(v.slots) = c.request
  BY <1>9, <1>11 DEF SameRequest
<1>13. /\ asks \in Checkpoint /\ Sound(asks) /\ asks.task \in S!Task
       /\ asks.task.kind = "swap" /\ asks.task.slots = v.slots
       /\ asks.request = c.request /\ asks.hist = c.hist /\ asks.order = c.order
       /\ asks.hash = c.hash /\ asks.conf = c.conf /\ asks.pending = c.pending
       /\ asks.selected = c.selected /\ asks.cands = c.cands
  BY <1>7, <1>11, ProgressFields
<1>14. /\ ready \in Checkpoint /\ Sound(ready) /\ ready.task \in S!Task
       /\ ready.task.kind = "swap" /\ ready.task.slots = v.slots
       /\ ready.request = c.request /\ ready.hist = c.hist /\ ready.order = c.order
       /\ ready.hash = c.hash /\ ready.conf = c.conf /\ ready.pending = c.pending
       /\ ready.selected = c.selected /\ ready.cands = c.cands
  BY <1>7, <1>11, ProgressFields
<1>15. asks.task # None /\ ready.task # None
  BY <1>13, <1>14 DEF S!SlotAssumption
<1> HIDE DEF asks, ready
<1>16. CASE scp' = asks /\ S!EndTurn
  <2>1. ASSUME ~abandoned PROVE Coherent(asks) /\ Quoted(asks)
    <3>1. Coherent(c) /\ Quoted(c)
      BY <1>7, <2>1 DEF SlotInv, Together
    <3>2. Coherent(asks)
      BY <1>7, <1>8, <1>13, <1>15, <3>1 DEF Coherent, Paired
    <3>3. Quoted(asks)
      BY <1>7, <1>12, <1>13, <3>1 DEF Quoted, RequestStands
    <3> QED BY <3>2, <3>3
  <2>2. Retains(scp, asks)
    BY <1>7, <1>13 DEF Retains, KeptIn
  <2>3. abandoned' \in BOOLEAN
    BY <1>1 DEF SlotInv, Places
  <2> QED BY <1>1, <1>13, <1>16, <2>1, <2>2, <2>3, EndsTurn, StepKeeps
<1>17. CASE /\ scp' = [ready EXCEPT !.request = S!Request(v.slots)]
            /\ S!Quotable(v.slots) /\ S!Goto("quotes")
  <2> DEFINE q == S!Request(v.slots)
             d == [ready EXCEPT !.request = q]
  <2>1. q \in S!RequestType /\ SlotsFit("swap", S!FromRequest(q)) /\ q # None
        /\ q.src = v.slots.src /\ q.dst = v.slots.dst
    BY <1>11, RequestFits DEF S!Request, S!SlotAssumption
  <2>2. S!Known(v.slots.src) /\ S!Known(v.slots.dst)
    BY <1>17 DEF S!Quotable
  <2> HIDE DEF q
  <2>3. /\ d \in Checkpoint /\ d.task = ready.task /\ d.request = q
        /\ d.hist = c.hist /\ d.order = c.order
        /\ d.hash = c.hash /\ d.conf = c.conf /\ d.pending = c.pending
        /\ d.selected = c.selected /\ d.cands = c.cands
    BY <1>14, <2>1 DEF Checkpoint
  <2>4. scp' = d
    BY <1>17 DEF q
  <2> HIDE DEF d
  <2>5. Sound(d)
    BY <1>7, <1>14, <2>1, <2>3 DEF Sound, CheckpointFits
  <2>6. Retains(scp, d)
    BY <1>7, <2>3 DEF Retains, KeptIn
  <2>7. ASSUME ~abandoned PROVE Coherent(d) /\ Quoted(d)
    <3>1. Coherent(c) /\ Quoted(c)
      BY <1>7, <2>7 DEF SlotInv, Together
    <3>2. Coherent(d)
      BY <1>7, <1>8, <1>14, <1>15, <2>3, <3>1 DEF Coherent, Paired
    <3>3. RequestStands(d)
      BY <1>14, <2>1, <2>2, <2>3 DEF RequestStands, q
    <3>4. RequestStands(c) /\ c.request = scp.request => d.request = c.request
      BY <1>12, <2>3 DEF q
    <3> QED BY <1>7, <2>3, <3>1, <3>2, <3>3, <3>4 DEF Quoted
  <2>8. Places' /\ AtNode'
    <3>1. sturns \in 1..S!LastTurn
      BY <1>1 DEF SlotInv, AtNode
    <3>2. spc' = "quotes" /\ said' = None
      BY <1>17 DEF S!Goto
    <3>3. d.request = S!Request(d.task.slots)
      BY <1>14, <2>3 DEF q
    <3> QED BY <1>1, <1>14, <1>15, <2>1, <2>2, <2>3, <2>4, <3>1, <3>2, <3>3
            DEF SlotInv, Places, AtNode
  <2> QED BY <1>1, <2>3, <2>4, <2>5, <2>6, <2>7, <2>8, StepKeeps
<1>18. \/ scp' = asks /\ S!EndTurn
       \/ /\ scp' = [ready EXCEPT !.request = S!Request(v.slots)]
          /\ S!Quotable(v.slots) /\ S!Goto("quotes")
  BY <1>4 DEF S!SwapFails, S!SwapAsksChoice, S!SwapAsksSlots, S!SwapIsReady, asks, ready, c
<1> QED BY <1>16, <1>17, <1>18

LEMMA IntentTransferKeeps ==
    ASSUME S!SlotAssumption, SlotInv, S!IntentTransfer PROVE SlotInv'
<1>1. spc = "intent" /\ UNCHANGED <<sturns, placed, abandoned>>
  BY DEF S!IntentTransfer, S!marks
<1> DEFINE Located(m, found) == [m.task.slots EXCEPT !.src = S!WithToken(@, found)]
<1>2. PICK m \in S!TransferMerges, found \in BOOLEAN :
         \/ scp' = S!Progress(S!LeftBehind(m), Located(m, found), "ready") /\ S!Goto("transfer")
         \/ scp' = S!Progress(S!LeftBehind(m), Located(m, found), "collecting") /\ S!EndTurn
  BY DEF S!IntentTransfer
<1>3. PICK p \in S!TransferPatch : m = S!Merged("transfer", p, None)
  BY <1>1, SaidPatches DEF S!TransferMerges
<1>4. /\ m \in Checkpoint /\ Sound(m) /\ m.task \in S!Task /\ m.task.kind = "transfer"
      /\ Retains(scp, m)
      /\ Coherent(scp) => Coherent(m)
      /\ Coherent(scp) /\ Quoted(scp) => Quoted(m)
  BY <1>3, MergedFields DEF SlotInv
<1> DEFINE slots == Located(m, found)
           c == S!LeftBehind(m)
           ready == S!Progress(c, slots, "ready")
           asks == S!Progress(c, slots, "collecting")
<1>5. slots \in S!Slots /\ SlotsFit("transfer", slots)
  <2> DEFINE s == m.task.slots
             src == S!WithToken(s.src, found)
  <2>1. s \in S!Slots /\ SlotsFit("transfer", s)
    BY <1>4 DEF Sound, CheckpointFits, S!Task, S!SlotAssumption
  <2>2. s.src \in S!Side /\ SideAgrees(s.src)
    BY <2>1 DEF S!Slots, SlotsFit
  <2>3. src \in S!Side /\ SideAgrees(src) /\ src.sym = s.src.sym
    BY <2>2, FoundToken DEF S!Coin
  <2> HIDE DEF src
  <2>4. slots = [s EXCEPT !.src = src]
    BY DEF src
  <2>5. /\ slots \in S!Slots /\ slots.src = src /\ slots.dst = s.dst /\ slots.in = s.in
        /\ slots.out = s.out /\ slots.usd = s.usd
    BY <2>1, <2>3, <2>4 DEF S!Slots
  <2> HIDE DEF slots
  <2> QED BY <2>1, <2>3, <2>5 DEF SlotsFit
<1> HIDE DEF slots
<1>6. /\ c \in Checkpoint /\ c.task = m.task /\ c.hist = m.hist /\ c.order = m.order
      /\ c.hash \in {None, m.hash} /\ c.pending \in {None, m.pending} /\ c.conf = m.conf
      /\ c.selected = m.selected /\ c.cands = m.cands /\ c.request = m.request
  BY <1>4 DEF S!LeftBehind, Checkpoint, OrderNo
<1> HIDE DEF c
<1>7. Sound(c)
  BY <1>4, <1>6 DEF Sound, CheckpointFits
<1>8. Progressed(ready, c, slots)
  BY <1>4, <1>5, <1>6, <1>7, ProgressFields DEF Progressed
<1>9. Progressed(asks, c, slots)
  BY <1>4, <1>5, <1>6, <1>7, ProgressFields DEF Progressed
<1>10. PICK d \in {ready, asks} : scp' = d /\ \/ d = ready /\ S!Goto("transfer")
                                              \/ d = asks /\ S!EndTurn
  BY <1>2 DEF ready, asks, c, slots
<1>11. Progressed(d, c, slots)
  BY <1>8, <1>9, <1>10
<1> HIDE DEF ready, asks
<1>12. /\ d \in Checkpoint /\ Sound(d) /\ d.task \in S!Task /\ d.task # None
       /\ d.task.kind = "transfer" /\ m.task # None
       /\ d.request = m.request /\ d.hist = m.hist /\ d.order = m.order
       /\ d.hash \in {None, m.hash} /\ d.conf = m.conf /\ d.pending \in {None, m.pending}
       /\ d.selected = m.selected /\ d.cands = m.cands
  BY <1>4, <1>6, <1>11 DEF Progressed, S!SlotAssumption
<1>13. ASSUME ~abandoned PROVE Coherent(d) /\ Quoted(d)
  <2>1. Coherent(m) /\ Quoted(m)
    BY <1>4, <1>13 DEF SlotInv, Together
  <2>2. Coherent(d)
    BY <1>4, <1>12, <2>1 DEF Coherent, Paired
  <2>3. RequestStands(m) => RequestStands(d)
    BY <1>12 DEF RequestStands
  <2>4. ~(d.selected # None /\ d.order = None)
    BY <1>12, <2>2 DEF Coherent
  <2> QED BY <1>12, <2>1, <2>2, <2>3, <2>4 DEF Quoted
<1>14. Retains(scp, d)
  BY <1>4, <1>12 DEF Retains, KeptIn
<1>15. sturns \in 1..S!LastTurn
  BY <1>1 DEF SlotInv, AtNode
<1>16. Places' /\ AtNode'
  BY <1>1, <1>10, <1>12, <1>15 DEF SlotInv, Places, AtNode, S!Goto, S!EndTurn
<1> QED BY <1>1, <1>10, <1>12, <1>13, <1>14, <1>16, StepKeeps

\* Only what is pending changes.
LEMMA PendingFields ==
    ASSUME NEW c \in Checkpoint, Sound(c), NEW p \in {None, "swap", "transfer"}
    PROVE  LET d == [c EXCEPT !.pending = p]
           IN /\ d \in Checkpoint /\ Sound(d) /\ Retains(c, d) /\ (Quoted(c) => Quoted(d))
              /\ Coherent(c) /\ (p # None => c.task # None /\ c.task.kind = p) => Coherent(d)
<1> DEFINE d == [c EXCEPT !.pending = p]
<1>1. /\ d \in Checkpoint /\ d.task = c.task /\ d.hist = c.hist /\ d.order = c.order
      /\ d.hash = c.hash /\ d.conf = c.conf /\ d.selected = c.selected
      /\ d.cands = c.cands /\ d.request = c.request /\ d.pending = p
  BY DEF Checkpoint
<1> HIDE DEF d
<1>2. Sound(d) /\ Retains(c, d)
  BY <1>1, SameHistoryRetains DEF Sound, CheckpointFits
<1>3. Quoted(c) => Quoted(d)
  BY <1>1 DEF Quoted, RequestStands
<1>4. Coherent(c) /\ (p # None => c.task # None /\ c.task.kind = p) => Coherent(d)
  BY <1>1 DEF Coherent, Paired, S!Active
<1> QED BY <1>1, <1>2, <1>3, <1>4 DEF d

\* Only the confirmation changes.
LEMMA ConfirmationFields ==
    ASSUME NEW c \in Checkpoint, Sound(c), NEW f \in Approval
    PROVE  LET d == [c EXCEPT !.conf = f]
           IN /\ d \in Checkpoint /\ Sound(d) /\ Retains(c, d) /\ (Quoted(c) => Quoted(d))
              /\ d.task = c.task
              /\ Coherent(c) /\ c.task # None /\ c.task.kind = "swap" => Coherent(d)
<1> DEFINE d == [c EXCEPT !.conf = f]
<1>1. /\ d \in Checkpoint /\ d.task = c.task /\ d.hist = c.hist /\ d.order = c.order
      /\ d.hash = c.hash /\ d.conf = f /\ d.selected = c.selected
      /\ d.cands = c.cands /\ d.request = c.request /\ d.pending = c.pending
  BY DEF Checkpoint
<1> HIDE DEF d
<1>2. Sound(d) /\ Retains(c, d)
  BY <1>1, SameHistoryRetains DEF Sound, CheckpointFits
<1>3. Quoted(c) => Quoted(d)
  BY <1>1 DEF Quoted, RequestStands
<1>4. Coherent(c) /\ c.task # None /\ c.task.kind = "swap" => Coherent(d)
  BY <1>1 DEF Coherent, Paired
<1> QED BY <1>1, <1>2, <1>3, <1>4 DEF d

LEMMA IntentTransactionKeeps ==
    ASSUME S!SlotAssumption, SlotInv, S!IntentTransaction PROVE SlotInv'
<1>1. spc = "intent" /\ UNCHANGED <<sturns, placed, abandoned>>
  BY DEF S!IntentTransaction, S!marks
<1>2. PICK named \in {None, 0} :
         LET about == CASE named # None -> named
                        [] named = None /\ scp.hash # None -> scp.hash
                        [] OTHER -> scp.query
         IN /\ scp' = [scp EXCEPT !.query = about]
            /\ IF about = None /\ scp.pending = None THEN S!EndTurn ELSE S!Goto("read")
  BY DEF S!IntentTransaction
<1> DEFINE about == CASE named # None -> named
                      [] named = None /\ scp.hash # None -> scp.hash
                      [] OTHER -> scp.query
<1>3. scp \in Checkpoint /\ Sound(scp) /\ MaxBroadcasts \in Nat
  BY DEF SlotInv, S!SlotAssumption
<1>4. about \in (0..MaxBroadcasts) \cup {None}
  BY <1>3 DEF Checkpoint, OrderNo
<1>5. scp' = [scp EXCEPT !.query = about] /\ (S!EndTurn \/ S!Goto("read"))
  BY <1>2
<1> HIDE DEF about
<1>6. /\ scp' \in Checkpoint /\ scp'.task = scp.task /\ scp'.hist = scp.hist
      /\ scp'.order = scp.order /\ scp'.hash = scp.hash /\ scp'.conf = scp.conf
      /\ scp'.selected = scp.selected /\ scp'.cands = scp.cands /\ scp'.request = scp.request
      /\ scp'.pending = scp.pending
  BY <1>3, <1>4, <1>5 DEF Checkpoint
<1>7. Sound(scp') /\ Retains(scp, scp')
  BY <1>3, <1>6, SameHistoryRetains DEF Sound, CheckpointFits
<1>8. ~abandoned => Coherent(scp') /\ Quoted(scp')
  BY <1>6 DEF SlotInv, Together, Coherent, Quoted, RequestStands, Paired, S!Active
<1>9. Places' /\ AtNode'
  BY <1>1, <1>5 DEF SlotInv, Places, AtNode, S!EndTurn, S!Goto
<1> QED BY <1>1, <1>6, <1>7, <1>8, <1>9, StepKeeps

LEMMA IntentStatusKeeps ==
    ASSUME S!SlotAssumption, SlotInv, S!IntentStatus PROVE SlotInv'
<1>1. S!EndTurn /\ UNCHANGED <<sturns, placed, abandoned>> /\ abandoned' \in BOOLEAN
  BY DEF S!IntentStatus, S!marks, SlotInv, Places
<1>2. Places' /\ AtNode'
  BY <1>1, EndsTurn
<1>3. CASE UNCHANGED scp
  BY <1>1, <1>2, <1>3, SameCheckpoint
<1>4. CASE scp.order = None /\ scp.selected # None /\ scp' = [scp EXCEPT !.pending = "swap"]
  <2>1. scp \in Checkpoint /\ Sound(scp)
    BY DEF SlotInv
  <2>2. ASSUME ~abandoned PROVE scp.task # None /\ scp.task.kind = "swap"
    BY <1>4, <2>1, <2>2 DEF SlotInv, Together, Coherent, S!Active, Checkpoint, S!Task
  <2>3. /\ scp' \in Checkpoint /\ Sound(scp') /\ Retains(scp, scp') /\ (Quoted(scp) => Quoted(scp'))
        /\ Coherent(scp) /\ scp.task # None /\ scp.task.kind = "swap" => Coherent(scp')
    BY <1>4, <2>1, PendingFields
  <2>4. ~abandoned => Retains(scp, scp') /\ Coherent(scp') /\ Quoted(scp')
    BY <2>2, <2>3 DEF SlotInv, Together
  <2> QED BY <1>1, <1>2, <2>3, <2>4, StepKeeps
<1> QED BY <1>3, <1>4 DEF S!IntentStatus

LEMMA TransferKeeps ==
    ASSUME S!SlotAssumption, SlotInv, S!Transfer PROVE SlotInv'
<1>1. /\ spc = "transfer" /\ S!EndTurn /\ UNCHANGED <<sturns, placed, abandoned>>
      /\ abandoned' \in BOOLEAN
  BY DEF S!Transfer, S!marks, SlotInv, Places
<1>2. Places' /\ AtNode'
  BY <1>1, EndsTurn
<1>3. CASE UNCHANGED scp
  BY <1>1, <1>2, <1>3, SameCheckpoint
<1>4. CASE scp' = [scp EXCEPT !.pending = "transfer"]
  <2>1. scp \in Checkpoint /\ Sound(scp)
    BY DEF SlotInv
  <2>2. ~abandoned => scp.task # None /\ scp.task.kind = "transfer"
    BY <1>1 DEF SlotInv, AtNode
  <2>3. /\ scp' \in Checkpoint /\ Sound(scp') /\ Retains(scp, scp') /\ (Quoted(scp) => Quoted(scp'))
        /\ Coherent(scp) /\ scp.task # None /\ scp.task.kind = "transfer" => Coherent(scp')
    BY <1>4, <2>1, PendingFields
  <2>4. ~abandoned => Retains(scp, scp') /\ Coherent(scp') /\ Quoted(scp')
    BY <2>2, <2>3 DEF SlotInv, Together
  <2> QED BY <1>1, <1>2, <2>3, <2>4, StepKeeps
<1> QED BY <1>3, <1>4 DEF S!Transfer

(***************************************************************************)
(* The quotes, the confirmation and the broadcast.                         *)
(***************************************************************************)

LEMMA QuotesKeep ==
    ASSUME S!SlotAssumption, SlotInv, S!Quotes PROVE SlotInv'
<1>1. spc = "quotes" /\ UNCHANGED <<sturns, placed, abandoned>>
  BY DEF S!Quotes, S!marks
<1> DEFINE Offers(answered) == {[prov |-> x, req |-> scp.request] : x \in answered}
<1>2. PICK answered \in SUBSET S!Available :
         LET quotes == scp.cands \cup Offers(answered)
         IN IF quotes = {}
            THEN /\ scp' = [scp EXCEPT !.selected = None]
                 /\ S!EndTurn
            ELSE \E q \in S!SelectedOf(quotes) :
                 /\ scp' = [scp EXCEPT !.cands = quotes, !.selected = q]
                 /\ S!Goto(IF scp.pending = None THEN "continue" ELSE "idle")
  BY DEF S!Quotes
<1>3. /\ scp \in Checkpoint /\ Sound(scp) /\ sturns \in 1..S!LastTurn
      /\ scp.task \in S!Task /\ scp.task # None /\ scp.task.kind = "swap"
      /\ scp.request \in S!RequestType /\ scp.request # None
      /\ scp.request = S!Request(scp.task.slots)
      /\ S!Known(scp.request.src) /\ S!Known(scp.request.dst)
  BY <1>1 DEF SlotInv, AtNode, Checkpoint
<1>4. RequestStands(scp)
  BY <1>3 DEF RequestStands
<1> DEFINE offers == Offers(answered)
           quotes == scp.cands \cup offers
<1>5. offers \subseteq S!QuoteType /\ \A q \in offers : q.req = scp.request
  <2>1. S!Available \subseteq Provider
    BY <1>3 DEF S!Available, S!Task
  <2> QED BY <1>3, <2>1 DEF S!QuoteType
<1> HIDE DEF offers
<1>6. quotes \in SUBSET S!QuoteType
  BY <1>3, <1>5 DEF Checkpoint
<1>7. ~abandoned => Coherent(scp) /\ Quoted(scp) /\ \A q \in quotes : q.req = scp.request
  BY <1>5 DEF SlotInv, Together, Quoted
<1>8. CASE quotes = {}
  <2>1. scp' = [scp EXCEPT !.selected = None] /\ S!EndTurn
    BY <1>2, <1>8 DEF offers
  <2>2. /\ scp' \in Checkpoint /\ scp'.task = scp.task /\ scp'.hist = scp.hist
        /\ scp'.order = scp.order /\ scp'.hash = scp.hash /\ scp'.conf = scp.conf
        /\ scp'.selected = None /\ scp'.cands = scp.cands /\ scp'.request = scp.request
        /\ scp'.pending = scp.pending
    BY <1>3, <2>1 DEF Checkpoint
  <2>3. Sound(scp') /\ Retains(scp, scp')
    BY <1>3, <2>2, SameHistoryRetains DEF Sound, CheckpointFits
  <2>4. Quoted(scp')
    BY <1>8, <2>2 DEF Quoted
  <2>5. Coherent(scp) => Coherent(scp')
    BY <1>3, <2>2 DEF Coherent, Paired
  <2>6. abandoned' \in BOOLEAN
    BY <1>1 DEF SlotInv, Places
  <2> QED BY <1>1, <1>7, <2>1, <2>2, <2>3, <2>4, <2>5, <2>6, EndsTurn, StepKeeps
<1>9. CASE quotes # {}
  <2>1. PICK q \in S!SelectedOf(quotes) :
           /\ scp' = [scp EXCEPT !.cands = quotes, !.selected = q]
           /\ S!Goto(IF scp.pending = None THEN "continue" ELSE "idle")
    BY <1>2, <1>9 DEF offers
  <2> HIDE DEF quotes
  <2>2. q \in quotes \/ (scp.selected # None /\ q = scp.selected)
    BY DEF S!SelectedOf
  <2>3. q \in S!QuoteType
    BY <1>3, <1>6, <2>2 DEF Checkpoint
  <2>4. /\ scp' \in Checkpoint /\ scp'.task = scp.task /\ scp'.hist = scp.hist
        /\ scp'.order = scp.order /\ scp'.hash = scp.hash /\ scp'.conf = scp.conf
        /\ scp'.selected = q /\ scp'.cands = quotes /\ scp'.request = scp.request
        /\ scp'.pending = scp.pending
    BY <1>3, <1>6, <2>1, <2>3 DEF Checkpoint
  <2>5. Sound(scp') /\ Retains(scp, scp')
    BY <1>3, <2>4, SameHistoryRetains DEF Sound, CheckpointFits
  <2>6. ASSUME ~abandoned, scp.hash = None PROVE q.req = scp.request
    <3>1. scp.order = None
      BY <1>3, <1>7, <2>6 DEF Coherent, Paired
    <3> QED BY <1>7, <2>2, <2>6, <3>1 DEF Quoted
  <2>7. RequestStands(scp')
    BY <1>4, <2>4 DEF RequestStands
  <2>8. ~abandoned => Coherent(scp')
    BY <1>3, <1>7, <2>4 DEF Coherent, Paired
  <2>9. ~abandoned => Quoted(scp')
    BY <1>7, <2>4, <2>6, <2>7 DEF Quoted
  <2>10. Places' /\ AtNode'
    BY <1>1, <1>3, <2>1, <2>4, <2>6 DEF SlotInv, Places, AtNode, S!Goto
  <2> QED BY <1>1, <2>4, <2>5, <2>8, <2>9, <2>10, StepKeeps
<1> QED BY <1>8, <1>9

LEMMA ContinueKeeps ==
    ASSUME S!SlotAssumption, SlotInv, S!Continue PROVE SlotInv'
<1>1. /\ spc = "continue" /\ S!EndTurn /\ UNCHANGED <<sturns, placed, abandoned>>
      /\ abandoned' \in BOOLEAN
  BY DEF S!Continue, S!marks, SlotInv, Places
<1>2. Places' /\ AtNode'
  BY <1>1, EndsTurn
<1>3. /\ scp \in Checkpoint /\ Sound(scp) /\ scp.task # None /\ scp.task.kind = "swap"
      /\ scp.conf \in Approval /\ scp.selected \in S!QuoteType \cup {None}
  BY <1>1 DEF SlotInv, AtNode, Checkpoint
<1>4. CASE UNCHANGED scp
  BY <1>1, <1>2, <1>4, SameCheckpoint
<1>5. ASSUME NEW f \in Approval, scp' = [scp EXCEPT !.conf = f] PROVE SlotInv'
  BY <1>1, <1>2, <1>3, <1>5, ConfirmationFields, StepKeeps DEF SlotInv, Together
<1>6. CASE scp' = [scp EXCEPT !.pending = "swap"]
  BY <1>1, <1>2, <1>3, <1>6, PendingFields, StepKeeps DEF SlotInv, Together
<1>7. [st |-> "requested", for |-> scp.selected] \in Approval
      /\ [scp.conf EXCEPT !.st = "lapsed"] \in Approval
  BY <1>3 DEF Approval
<1>8. [scp EXCEPT !.conf.st = "lapsed"] = [scp EXCEPT !.conf = [scp.conf EXCEPT !.st = "lapsed"]]
  BY <1>3 DEF Checkpoint, Approval
<1> QED BY <1>4, <1>5, <1>6, <1>7, <1>8 DEF S!Continue

LEMMA AnswerKeeps ==
    ASSUME S!SlotAssumption, SlotInv, S!Answer PROVE SlotInv'
<1>1. /\ spc = "idle" /\ scp.conf.st = "requested"
      /\ UNCHANGED <<spc, said, sturns, placed, abandoned>>
  BY DEF S!Answer, S!marks
<1>2. /\ scp \in Checkpoint /\ Sound(scp) /\ scp.conf \in Approval
      /\ Places' /\ AtNode'
  BY <1>1 DEF SlotInv, Checkpoint, Places, AtNode
<1>3. ~abandoned => /\ Coherent(scp) /\ Quoted(scp)
                    /\ scp.task # None /\ scp.task.kind = "swap"
  BY <1>1 DEF SlotInv, Together, Coherent
<1> DEFINE f(st) == [scp.conf EXCEPT !.st = st]
           d(st) == [scp EXCEPT !.conf = f(st)]
<1>4. \A st \in {"lapsed", "rejected", "approved"} :
         /\ [scp EXCEPT !.conf.st = st] = d(st) /\ f(st) \in Approval
  BY <1>2 DEF Checkpoint, Approval
<1> HIDE DEF f
<1>5. \A st \in {"lapsed", "rejected", "approved"} :
         /\ d(st) \in Checkpoint /\ Sound(d(st)) /\ Retains(scp, d(st)) /\ d(st).task = scp.task
         /\ ~abandoned => Coherent(d(st)) /\ Quoted(d(st))
  BY <1>2, <1>3, <1>4, ConfirmationFields
<1>6. CASE scp' = [scp EXCEPT !.conf.st = "lapsed"]
  BY <1>1, <1>2, <1>4, <1>5, <1>6, StepKeeps
<1>7. ASSUME NEW p \in {"swap", None}, scp' = [scp EXCEPT !.conf.st = "approved", !.pending = p]
      PROVE  SlotInv'
  <2> DEFINE e == d("approved")
  <2>1. scp' = [e EXCEPT !.pending = p]
    BY <1>2, <1>4, <1>7 DEF Checkpoint, Approval
  <2>2. /\ e \in Checkpoint /\ Sound(e) /\ Retains(scp, e) /\ e.task = scp.task
        /\ ~abandoned => Coherent(e) /\ Quoted(e)
    BY <1>5
  <2> HIDE DEF e
  <2>3. /\ scp' \in Checkpoint /\ Sound(scp') /\ Retains(e, scp') /\ (Quoted(e) => Quoted(scp'))
        /\ Coherent(e) /\ (p # None => e.task # None /\ e.task.kind = p) => Coherent(scp')
    BY <2>1, <2>2, PendingFields
  <2>4. ~abandoned => Retains(scp, scp') /\ Coherent(scp') /\ Quoted(scp')
    BY <1>3, <2>2, <2>3 DEF Retains
  <2> QED BY <1>1, <1>2, <2>3, <2>4, StepKeeps
<1>8. CASE scp' = [scp EXCEPT !.conf.st = "rejected",
                              !.task = IF @ = None THEN None ELSE [@ EXCEPT !.status = "cancelled"]]
  <2> DEFINE e == d("rejected")
             task == IF scp.task = None THEN None ELSE [scp.task EXCEPT !.status = "cancelled"]
  <2>1. e \in Checkpoint /\ Sound(e) /\ e.task = scp.task
        /\ Retains(scp, e) /\ (~abandoned => Coherent(e) /\ Quoted(e))
    BY <1>5
  <2>2. scp' = [e EXCEPT !.task = task]
    BY <1>2, <1>4, <1>8 DEF Checkpoint, Approval
  <2> HIDE DEF e
  <2>3. /\ task \in S!Task \cup {None} /\ (task = None <=> scp.task = None)
        /\ scp.task # None => task.kind = scp.task.kind /\ task.slots = scp.task.slots
    BY <1>2 DEF Checkpoint, S!Task, S!SlotAssumption
  <2> HIDE DEF task
  <2>4. /\ scp' \in Checkpoint /\ scp'.task = task /\ scp'.hist = e.hist
        /\ scp'.order = e.order /\ scp'.hash = e.hash /\ scp'.conf = e.conf
        /\ scp'.selected = e.selected /\ scp'.cands = e.cands /\ scp'.request = e.request
        /\ scp'.pending = e.pending
    BY <2>1, <2>2, <2>3 DEF Checkpoint
  <2>5. Sound(scp') /\ Retains(scp, scp')
    BY <2>1, <2>3, <2>4 DEF Sound, CheckpointFits, Retains, KeptIn
  <2>6. ~abandoned => Coherent(scp')
    BY <1>3, <2>1, <2>3, <2>4 DEF Coherent, Paired
  <2>7. ~abandoned => Quoted(scp')
    BY <1>3, <2>1, <2>3, <2>4 DEF Quoted, RequestStands
  <2> QED BY <1>1, <1>2, <2>4, <2>5, <2>6, <2>7, StepKeeps
<1> QED BY <1>6, <1>7, <1>8 DEF S!Answer

LEMMA BroadcastKeeps ==
    ASSUME S!SlotAssumption, SlotInv, S!Broadcast PROVE SlotInv'
<1> DEFINE n == Len(placed) + 1
           number == IF scp.pending = "swap" THEN n ELSE scp.order
<1>1. /\ spc = "idle" /\ scp.pending # None /\ scp.hash = None /\ Len(placed) < MaxBroadcasts
      /\ placed' = Append(placed, scp.pending) /\ UNCHANGED <<spc, said, sturns, abandoned>>
  BY DEF S!Broadcast
<1>2. /\ scp \in Checkpoint /\ Sound(scp) /\ scp.pending \in {"swap", "transfer"}
      /\ placed \in Seq({"swap", "transfer"}) /\ MaxBroadcasts \in Nat
      /\ \A o \in Nat : o # None
  BY <1>1 DEF SlotInv, Places, Checkpoint, S!SlotAssumption
<1>3. /\ placed' \in Seq({"swap", "transfer"}) /\ Len(placed') = n /\ n \in 1..MaxBroadcasts
      /\ DOMAIN placed' = DOMAIN placed \cup {n} /\ placed'[n] = scp.pending
      /\ \A o \in DOMAIN placed : placed'[o] = placed[o] /\ o \in Nat
  BY <1>1, <1>2
<1>4. scp' = [scp EXCEPT !.hash = n, !.order = number]
  BY <1>3 DEF S!Broadcast
<1>5. n # None /\ n \in OrderNo /\ number \in OrderNo
  BY <1>2, <1>3 DEF Checkpoint, OrderNo
<1> HIDE DEF n
<1>6. /\ scp' \in Checkpoint /\ scp'.task = scp.task /\ scp'.hist = scp.hist
      /\ scp'.order = number /\ scp'.hash = n /\ scp'.conf = scp.conf
      /\ scp'.selected = scp.selected /\ scp'.cands = scp.cands /\ scp'.request = scp.request
      /\ scp'.pending = scp.pending
  BY <1>2, <1>4, <1>5 DEF Checkpoint
<1>7. Sound(scp')
  BY <1>2, <1>6 DEF Sound, CheckpointFits
<1>8. Places' /\ AtNode'
  BY <1>1, <1>3 DEF SlotInv, Places, AtNode
<1>9. ASSUME ~abandoned PROVE /\ Coherent(scp') /\ Quoted(scp')
                              /\ \A o \in DOMAIN placed' : placed'[o] = "swap" => KeptIn(scp', o)
  <2>1. /\ Coherent(scp) /\ Quoted(scp)
        /\ \A o \in DOMAIN placed : placed[o] = "swap" => KeptIn(scp, o)
    BY <1>9 DEF SlotInv, Together
  <2>2. scp.task # None /\ scp.task.kind = scp.pending
    BY <1>1, <2>1 DEF Coherent
  <2>3. scp.pending = "swap" => scp.order = None
    BY <1>1, <2>1, <2>2 DEF Coherent, Paired
  <2>4. Coherent(scp')
    BY <1>2, <1>5, <1>6, <2>1, <2>2 DEF Coherent, Paired
  <2>5. Quoted(scp')
    BY <1>5, <1>6, <2>1 DEF Quoted, RequestStands
  <2>6. ASSUME NEW o \in DOMAIN placed', placed'[o] = "swap" PROVE KeptIn(scp', o)
    <3>1. CASE o = n
      BY <1>3, <1>6, <2>6, <3>1 DEF KeptIn
    <3>2. CASE o # n
      <4>1. o \in DOMAIN placed /\ KeptIn(scp, o) /\ o # None
        BY <1>2, <1>3, <2>1, <2>6, <3>2
      <4> QED BY <1>6, <2>3, <4>1 DEF KeptIn
    <3> QED BY <3>1, <3>2
  <2> QED BY <2>4, <2>5, <2>6
<1>10. Together'
  BY <1>1, <1>9 DEF Together
<1> QED BY <1>6, <1>7, <1>8, <1>10 DEF SlotInv

LEMMA NextKeeps == ASSUME S!SlotAssumption, SlotInv, [S!Next]_(S!vars) PROVE SlotInv'
<1>1. CASE UNCHANGED S!vars
  BY <1>1 DEF S!vars, SlotInv, Places, AtNode, Together
<1>2. ASSUME S!EndTurn, UNCHANGED <<scp, sturns, S!marks>>
      PROVE  SlotInv'
  <2>1. abandoned' \in BOOLEAN /\ UNCHANGED <<sturns, placed, abandoned>>
    BY <1>2 DEF S!marks, SlotInv, Places
  <2> QED BY <1>2, <2>1, EndsTurn, SameCheckpoint
<1>3. CASE S!Clarify \/ S!ReadAnswers \/ S!Crash
  BY <1>2, <1>3 DEF S!Clarify, S!ReadAnswers, S!Crash
<1>4. CASE S!IntentRead
  <2>1. /\ spc = "intent" /\ UNCHANGED <<scp, sturns, placed, abandoned>>
        /\ S!Goto("read") \/ S!EndTurn
    BY <1>4 DEF S!IntentRead, S!marks
  <2>2. Places' /\ AtNode'
    BY <2>1 DEF SlotInv, Places, AtNode, S!EndTurn, S!Goto
  <2> QED BY <2>1, <2>2, SameCheckpoint
<1>5. CASE S!TurnStep
  BY <1>3, <1>4, <1>5, CancelTaskKeeps, ExtractionFailsKeeps, IntentSwapKeeps,
     IntentTransferKeeps, IntentTransactionKeeps, IntentStatusKeeps, TransferKeeps,
     QuotesKeep, ContinueKeeps DEF S!TurnStep
<1> QED BY <1>1, <1>3, <1>5, SupervisorKeeps, AnswerKeeps, BroadcastKeeps DEF S!Next

\* The invariant gives the ones the runs check.
LEMMA InvGives ==
    ASSUME S!SlotAssumption, SlotInv PROVE S!TypeOK /\ S!SlotsAgree /\ S!OrderKept
<1>1. S!TypeOK
  BY DEF SlotInv, Sound, Checkpoint, Approval, OrderNo, Places, S!TypeOK
<1>2. S!SlotsAgree
  <2> DEFINE s == scp.task.slots
  <2> SUFFICES ASSUME scp.task # None
      PROVE  /\ \A side \in {s.src, s.dst} : side.tok \in {None, S!Coin(side)}
             /\ s.in # None => /\ s.in.of[1] = s.src.sym
                               /\ scp.task.kind = "swap" => s.in.of[2] = s.src.chain
             /\ s.out # None /\ s.out.by = "price" => s.out.of = S!Coin(s.dst)
    BY DEF S!SlotsAgree
  <2> QED BY DEF SlotInv, Sound, CheckpointFits, SlotsFit, SideAgrees
<1>3. S!OrderKept
  BY DEF SlotInv, Together, KeptIn, S!OrderKept
<1> QED BY <1>1, <1>2, <1>3


\* A confirmation is asked for by one step alone.
Asks == scp'.conf.st = "requested" /\ scp.conf.st # "requested"

LEMMA IntentAsksNothing ==
    ASSUME S!SlotAssumption, SlotInv, S!IntentSwap \/ S!IntentTransfer PROVE ~Asks
<1>1. spc = "intent" /\ scp \in Checkpoint /\ Sound(scp)
  BY DEF SlotInv, S!IntentSwap, S!IntentTransfer
<1>2. CASE S!IntentSwap
  <2>1. PICK m \in S!SwapMerges : \E r \in S!Resolutions(S!Draft(m.c, m.from)) :
           \E v \in IF r.err THEN {[slots |-> r.slots, err |-> TRUE]} ELSE S!Conversions(r.slots) :
              \/ S!SwapFails(m.c, v)
              \/ S!SwapAsksChoice(m.c, r, v)
              \/ S!SwapAsksSlots(m.c, r, v)
              \/ S!SwapIsReady(m.c, r, v)
    BY <1>2 DEF S!IntentSwap
  <2>2. PICK p \in S!SwapPatch, pin \in Provider \cup {None} :
           m = [c |-> S!Merged("swap", p, pin), from |-> p.from]
    BY <1>1, SaidPatches DEF S!SwapMerges
  <2> DEFINE c == S!Merged("swap", p, pin)
  <2>3. c \in Checkpoint /\ c.task \in S!Task /\ c.conf.st \in {"none", scp.conf.st} /\ m.c = c
    BY <1>1, <2>2, MergedFields
  <2> HIDE DEF c
  <2>4. PICK r, v : \/ S!SwapFails(c, v) \/ S!SwapAsksChoice(c, r, v)
                    \/ S!SwapAsksSlots(c, r, v) \/ S!SwapIsReady(c, r, v)
    BY <2>1, <2>3
  <2>5. PICK task, q : \/ scp' = [c EXCEPT !.task = task]
                      \/ scp' = [c EXCEPT !.task = task, !.request = q]
    <3>1. PICK st, q : \/ scp' = S!Progress(c, v.slots, st)
                      \/ scp' = [S!Progress(c, v.slots, st) EXCEPT !.request = q]
      BY <2>4 DEF S!SwapFails, S!SwapAsksChoice, S!SwapAsksSlots, S!SwapIsReady
    <3> DEFINE task == [c.task EXCEPT !.slots = v.slots, !.status = st]
    <3>2. /\ S!Progress(c, v.slots, st) = [c EXCEPT !.task = task]
          /\ [S!Progress(c, v.slots, st) EXCEPT !.request = q]
               = [c EXCEPT !.task = task, !.request = q]
      BY <2>3 DEF S!Progress, Checkpoint, S!Task
    <3> HIDE DEF task
    <3> QED BY <3>1, <3>2
  <2>7. scp'.conf = c.conf
    BY <2>3, <2>5 DEF Checkpoint
  <2> QED BY <2>3, <2>7 DEF Asks
<1>3. CASE S!IntentTransfer
  <2>1. PICK m \in S!TransferMerges : \E slots, st : scp' = S!Progress(S!LeftBehind(m), slots, st)
    <3>1. PICK m \in S!TransferMerges, found \in BOOLEAN :
             LET slots == [m.task.slots EXCEPT !.src = S!WithToken(@, found)]
             IN IF S!TransferReady(slots)
                THEN scp' = S!Progress(S!LeftBehind(m), slots, "ready") /\ S!Goto("transfer")
                ELSE scp' = S!Progress(S!LeftBehind(m), slots, "collecting") /\ S!EndTurn
      BY <1>3 DEF S!IntentTransfer
    <3> QED BY <3>1
  <2>2. PICK p \in S!TransferPatch : m = S!Merged("transfer", p, None)
    BY <1>1, SaidPatches DEF S!TransferMerges
  <2>3. m \in Checkpoint /\ m.conf.st \in {"none", scp.conf.st}
    BY <1>1, <2>2, MergedFields
  <2>4. \A slots, st : S!Progress(S!LeftBehind(m), slots, st).conf = m.conf
    BY <2>3 DEF S!Progress, S!LeftBehind, Checkpoint
  <2> QED BY <2>1, <2>3, <2>4 DEF Asks
<1> QED BY <1>2, <1>3

LEMMA OnlyContinueAsks ==
    ASSUME S!SlotAssumption, SlotInv, [S!Next]_(S!vars), Asks PROVE S!Continue
<1>1. scp \in Checkpoint /\ scp.conf \in Approval
  BY DEF SlotInv, Checkpoint
<1>2. \A i \in {"swap", "transfer", "clarify", "status", "transaction", "read", "cancel"} :
         ~S!Supervisor(i)
  <2> SUFFICES ASSUME NEW i, scp' = S!Hydrated(S!Reparsed(scp), i) PROVE FALSE
    BY DEF S!Supervisor
  <2>1. S!Reparsed(scp) \in Checkpoint /\ S!Reparsed(scp).conf.st \in {"none", scp.conf.st}
    BY <1>1 DEF S!Reparsed, Checkpoint, S!NoConfirmation, Approval
  <2>2. S!Hydrated(S!Reparsed(scp), i).conf = S!Reparsed(scp).conf
    BY <2>1 DEF S!Hydrated, Checkpoint
  <2> QED BY <2>1, <2>2 DEF Asks
<1>3. ~S!CancelTask /\ ~S!ExtractionFails
  <2>1. ~S!ExtractionFails
    BY <1>1 DEF S!ExtractionFails, Asks, Checkpoint
  <2>2. ~S!CancelTask
    <3> SUFFICES ASSUME S!CancelTask PROVE scp'.conf = S!NoConfirmation
      BY DEF Asks, S!NoConfirmation
    <3>1. PICK task : scp' = [scp EXCEPT !.task = task, !.request = None, !.cands = {},
                                         !.selected = None, !.conf = S!NoConfirmation,
                                         !.pending = None]
      BY DEF S!CancelTask
    <3> QED BY <1>1, <3>1 DEF Checkpoint
  <2> QED BY <2>1, <2>2
<1>4. ~S!IntentTransaction /\ ~S!IntentStatus /\ ~S!Transfer /\ ~S!Quotes
  <2>2. ~S!IntentTransaction
    BY <1>1 DEF S!IntentTransaction, Asks, Checkpoint
  <2>3. ~S!IntentStatus /\ ~S!Transfer
    BY <1>1 DEF S!IntentStatus, S!Transfer, Asks, Checkpoint
  <2>4. ~S!Quotes
    <3> SUFFICES ASSUME S!Quotes PROVE scp'.conf = scp.conf
      BY DEF Asks
    <3>1. PICK quotes, q : \/ scp' = [scp EXCEPT !.selected = None]
                          \/ scp' = [scp EXCEPT !.cands = quotes, !.selected = q]
      BY DEF S!Quotes
    <3> QED BY <1>1, <3>1 DEF Checkpoint
  <2> QED BY <2>2, <2>3, <2>4
<1>5. ~S!Answer /\ ~S!Broadcast
  BY <1>1 DEF S!Answer, S!Broadcast, Asks, Checkpoint
<1>6. ~S!Clarify /\ ~S!IntentRead /\ ~S!ReadAnswers /\ ~S!Crash /\ scp' # scp
  BY DEF S!Clarify, S!IntentRead, S!ReadAnswers, S!Crash, Asks
<1> QED BY <1>2, <1>3, <1>4, <1>5, <1>6, IntentAsksNothing DEF S!Next, S!TurnStep, S!vars

LEMMA AsksForSlots ==
    ASSUME S!SlotAssumption, SlotInv, [S!Next]_(S!vars)
    PROVE  scp'.conf.st = "requested" /\ scp.conf.st # "requested" /\ ~abandoned =>
                scp'.conf.for.req = S!Request(scp.task.slots)
<1> SUFFICES ASSUME Asks, ~abandoned PROVE scp'.conf.for.req = S!Request(scp.task.slots)
  BY DEF Asks
<1>1. scp \in Checkpoint /\ S!Continue
  BY OnlyContinueAsks DEF SlotInv
<1>2. /\ spc = "continue" /\ scp.hash = None
      /\ scp' = [scp EXCEPT !.conf = [st |-> "requested", for |-> scp.selected]]
  BY <1>1 DEF S!Continue, Asks, Checkpoint, Approval
<1>3. scp'.conf.for = scp.selected
  BY <1>1, <1>2 DEF Checkpoint
<1> QED BY <1>2, <1>3 DEF SlotInv, AtNode

(***************************************************************************)
(* The read-only loop.                                                     *)
(***************************************************************************)

Reading ==
    [at : {"idle", "agent", "tool", "observe", "response"},
     model : {"native", "facade", "planner"}, topic : {"wallet", "status", "other"},
     value : BOOLEAN, count : 0..MaxRounds, complete : BOOLEAN, pending : BOOLEAN,
     batch : Seq(ReadCall), last : ReadCall \cup {NoCall}, queue : Seq(ReadCall),
     done : SUBSET ReadCall,
     facts : [L!Name -> {"none", "ok", "failed"}], result : BOOLEAN,
     answer : {"none", "data", "error", "clarification"}]

\* Only a native model that is asked, which it is not of a transaction, puts
\* calls off.
Bounded(r) ==
    /\ r \in Reading /\ Len(r.batch) <= MaxParallel
    /\ r.queue # <<>> => r.model = "native" /\ r.topic # "status"

\* Calls that wait are not left but for a failure.
Goes(r) ==
    r.queue # <<>> => r.answer \in {"error", "clarification"}
                      \/ (~r.complete /\ (r.answer = "none" \/ r.pending))

ReadInv ==
    /\ Bounded(rd)
    /\ rd.at = "tool" => rd.batch # <<>> /\ rd.count < MaxRounds
    /\ L!QueueRuns

\* Where a round goes on.
LEMMA RoutedInv ==
    ASSUME L!ReadOnlyAssumption, NEW r, Bounded(r), Goes(r), rd' = L!Routed(r) PROVE ReadInv'
<1>1. r \in Reading /\ r.count \in 0..MaxRounds /\ MaxRounds \in Nat
  BY DEF Bounded, Reading, L!ReadOnlyAssumption
<1>2. /\ L!Route(r) \in {"response", "tool", "agent"}
      /\ L!Route(r) = "tool" => r.batch # <<>> /\ r.count < MaxRounds
      /\ L!Route(r) = "response" =>
            r.count >= MaxRounds \/ r.complete \/ (r.answer # "none" /\ ~r.pending)
  BY <1>1 DEF L!Route
<1>3. /\ rd' \in Reading /\ rd'.at = L!Route(r) /\ rd'.batch = r.batch /\ rd'.queue = r.queue
      /\ rd'.count = r.count /\ rd'.answer = r.answer /\ rd'.model = r.model
      /\ rd'.topic = r.topic
  BY <1>1, <1>2 DEF L!Routed, Reading
<1>4. Bounded(rd')
  BY <1>3 DEF Bounded
<1>5. L!QueueRuns'
  BY <1>1, <1>2, <1>3 DEF Goes, L!QueueRuns
<1> QED BY <1>2, <1>3, <1>4, <1>5 DEF ReadInv

LEMMA FinishedFields ==
    ASSUME L!ReadOnlyAssumption, NEW r, Bounded(r),
           NEW reply \in {"none", "data", "error", "clarification"}
    PROVE  LET f == [L!Finished(r) EXCEPT !.answer = reply]
           IN /\ Bounded(f) /\ f.queue = r.queue /\ f.answer = reply
              /\ Bounded(L!Finished(r)) /\ L!Finished(r).queue = r.queue
              /\ f.complete = TRUE
<1>1. <<>> \in Seq(ReadCall) /\ Len(<<>>) <= MaxParallel
  BY DEF L!ReadOnlyAssumption
<1> QED BY <1>1 DEF L!Finished, Bounded, Reading

LEMMA AskingFields ==
    ASSUME NEW r, Bounded(r), NEW wanted \in Seq(ReadCall), Len(wanted) <= MaxParallel
    PROVE  LET a == L!Asking(r, wanted)
           IN Bounded(a) /\ Goes(a) /\ a.queue = r.queue /\ a.model = r.model /\ a.topic = r.topic
BY DEF L!Asking, Bounded, Reading, Goes

LEMMA OneCall ==
    ASSUME L!ReadOnlyAssumption, NEW k \in ReadCall
    PROVE  <<k>> \in Seq(ReadCall) /\ Len(<<k>>) <= MaxParallel
BY DEF L!ReadOnlyAssumption

\* What chunk_read_batch makes of the calls.
LEMMA Chunks ==
    ASSUME L!ReadOnlyAssumption, NEW wanted \in Seq(ReadCall)
    PROVE  /\ L!FirstOf(wanted) \in Seq(ReadCall) /\ Len(L!FirstOf(wanted)) <= MaxParallel
           /\ L!RestOf(wanted) \in Seq(ReadCall)
<1>1. MaxParallel \in Nat /\ MaxParallel >= 1 /\ Len(wanted) \in Nat
  BY DEF L!ReadOnlyAssumption
<1> DEFINE n == IF Len(wanted) < MaxParallel THEN Len(wanted) ELSE MaxParallel
<1>2. n \in 0..Len(wanted) /\ n <= MaxParallel
  BY <1>1
<1>3. L!FirstOf(wanted) = SubSeq(wanted, 1, n)
  BY DEF L!FirstOf
<1> HIDE DEF n
<1>4. SubSeq(wanted, 1, n) \in Seq(ReadCall) /\ Len(SubSeq(wanted, 1, n)) = n
  BY <1>1, <1>2
<1>5. L!RestOf(wanted) \in Seq(ReadCall)
  BY <1>1 DEF L!RestOf
<1> QED BY <1>2, <1>3, <1>4, <1>5

LEMMA TakeFields ==
    ASSUME L!ReadOnlyAssumption, Bounded(rd), rd.model = "native", rd.topic # "status",
           NEW wanted \in Seq(ReadCall)
    PROVE  LET t == L!Take(L!FirstOf(wanted), L!RestOf(wanted)) IN Bounded(t) /\ Goes(t)
<1> DEFINE first == L!FirstOf(wanted)
           rest == L!RestOf(wanted)
           t == L!Take(first, rest)
<1>1. first \in Seq(ReadCall) /\ Len(first) <= MaxParallel /\ rest \in Seq(ReadCall)
  BY Chunks
<1> SUFFICES Bounded(t) /\ Goes(t)
  OBVIOUS
<1> HIDE DEF first, rest
<1>2. CASE rest = <<>> /\ rd.queue = <<>> /\ L!ToSet(first) \subseteq rd.done
  <2> DEFINE reply == IF rd.result THEN "data" ELSE rd.answer
             f == [L!Finished(rd) EXCEPT !.answer = reply]
  <2>1. reply \in {"none", "data", "error", "clarification"}
    BY DEF Bounded, Reading
  <2>2. [L!Finished(rd) EXCEPT !.answer = IF rd.result THEN "data" ELSE @] = f
    BY DEF L!Finished, Bounded, Reading
  <2> HIDE DEF reply
  <2>3. Bounded(f) /\ f.queue = rd.queue
    BY <2>1, FinishedFields
  <2>4. t = f
    BY <1>2, <2>2 DEF L!Take
  <2> HIDE DEF f, t
  <2>5. Bounded(t) /\ Goes(t)
    BY <1>2, <2>3, <2>4 DEF Goes
  <2> QED BY <2>5
<1>3. CASE ~(rest = <<>> /\ rd.queue = <<>> /\ L!ToSet(first) \subseteq rd.done)
  <2>1. t = [L!Asking(rd, first) EXCEPT !.queue = rest]
    BY <1>3 DEF L!Take
  <2> HIDE DEF t
  <2>2. Bounded(L!Asking(rd, first)) /\ Goes(L!Asking(rd, first))
        /\ L!Asking(rd, first).model = "native" /\ L!Asking(rd, first).topic # "status"
        /\ L!Asking(rd, first).complete = FALSE /\ L!Asking(rd, first).pending = TRUE
    BY <1>1 DEF L!Asking, Bounded, Reading, Goes
  <2>3. Bounded(t) /\ Goes(t)
    BY <1>1, <2>1, <2>2 DEF Bounded, Reading, Goes
  <2> QED BY <2>3
<1> QED BY <1>2, <1>3

LEMMA AgentKeeps ==
    ASSUME L!ReadOnlyAssumption, ReadInv,
           L!AgentRefuses \/ L!AgentKnows \/ L!AgentPlans \/ L!AgentDrains \/ L!AgentInvokes
    PROVE  ReadInv'
<1>1. Bounded(rd) /\ rd.queue \in Seq(ReadCall)
  BY DEF ReadInv, Bounded, Reading
<1>2. ASSUME NEW k \in ReadCall, rd' = L!Routed(L!Asking(rd, <<k>>)) PROVE ReadInv'
  BY <1>1, <1>2, OneCall, AskingFields, RoutedInv
<1>3. ASSUME rd' = L!Routed(L!Finished(rd)), rd.queue = <<>> PROVE ReadInv'
  BY <1>1, <1>3, FinishedFields, RoutedInv DEF Goes
<1>4. ASSUME NEW a \in {"none", "data", "error", "clarification"},
             rd' = L!Routed([L!Finished(rd) EXCEPT !.answer = a]),
             a \in {"error", "clarification"} \/ rd.queue = <<>>
      PROVE  ReadInv'
  BY <1>1, <1>4, FinishedFields, RoutedInv DEF Goes
<1>5. ASSUME NEW wanted \in Seq(ReadCall),
             rd' = L!Routed(L!Take(L!FirstOf(wanted), L!RestOf(wanted))),
             rd.model = "native", rd.topic # "status"
      PROVE  ReadInv'
  BY <1>1, <1>5, TakeFields, RoutedInv
<1>6. CASE L!AgentRefuses
  BY <1>4, <1>6 DEF L!AgentRefuses
<1>7. CASE L!AgentKnows
  <2>1. rd.queue = <<>>
    BY <1>1, <1>7 DEF L!AgentKnows, L!Deterministic, Bounded
  <2> QED BY <1>2, <1>3, <1>7, <2>1 DEF L!AgentKnows
<1>8. CASE L!AgentPlans
  <2>1. rd.queue = <<>>
    BY <1>1, <1>8 DEF L!AgentPlans, Bounded
  <2> QED BY <1>2, <1>3, <1>8, <2>1 DEF L!AgentPlans
<1>9. CASE L!AgentDrains
  BY <1>1, <1>5, <1>9 DEF L!AgentDrains
<1>10. CASE L!AgentInvokes
  <2>1. rd.model = "native" /\ rd.topic # "status" /\ rd.queue = <<>>
    BY <1>10 DEF L!AgentInvokes
  <2>2. L!SeqOf(ReadCall, MaxBatch) \subseteq Seq(ReadCall)
    BY DEF L!SeqOf
  <2>3. [L!Finished(rd) EXCEPT !.answer = IF rd.result THEN "data" ELSE @]
          = [L!Finished(rd) EXCEPT !.answer = IF rd.result THEN "data" ELSE rd.answer]
        /\ (IF rd.result THEN "data" ELSE rd.answer) \in {"none", "data", "error", "clarification"}
    BY <1>1 DEF L!Finished, Bounded, Reading
  <2>4. CASE \E wanted \in L!SeqOf(ReadCall, MaxBatch) \ {<<>>} :
                rd' = L!Routed(L!Take(L!FirstOf(wanted), L!RestOf(wanted)))
    BY <1>5, <2>1, <2>2, <2>4
  <2>5. CASE rd' = L!Routed([L!Finished(rd) EXCEPT !.answer = "error"])
    BY <1>4, <2>5
  <2>6. CASE rd' = L!Routed([L!Finished(rd) EXCEPT !.answer = IF rd.result THEN "data" ELSE @])
    BY <1>4, <2>1, <2>3, <2>6
  <2> QED BY <1>10, <2>4, <2>5, <2>6 DEF L!AgentInvokes
<1> QED BY <1>6, <1>7, <1>8, <1>9, <1>10

LEMMA ToolKeeps ==
    ASSUME L!ReadOnlyAssumption, ReadInv, L!ToolRuns \/ L!ToolRaises PROVE ReadInv'
<1>1. /\ rd \in Reading /\ Bounded(rd) /\ rd.at = "tool" /\ rd.batch # <<>>
      /\ rd.count + 1 \in 0..MaxRounds
  <2>1. rd \in Reading /\ Bounded(rd) /\ rd.at = "tool" /\ rd.batch # <<>> /\ rd.count < MaxRounds
    BY DEF ReadInv, Bounded, L!ToolRuns, L!ToolRaises
  <2>2. rd.count \in 0..MaxRounds /\ MaxRounds \in Nat
    BY <2>1 DEF Reading, L!ReadOnlyAssumption
  <2> QED BY <2>1, <2>2
<1>2. L!Last(rd.batch) \in ReadCall /\ <<>> \in Seq(ReadCall) /\ Len(<<>>) <= MaxParallel
      /\ \A i \in DOMAIN rd.batch : rd.batch[i] \in ReadCall
  BY <1>1 DEF L!Last, Reading, L!ReadOnlyAssumption
<1>3. \A ok : L!Observed(rd.batch, ok) \in [L!Name -> {"none", "ok", "failed"}]
  BY <1>1 DEF L!Observed, Reading
<1>4. CASE L!ToolRuns
  <2>1. PICK ok \in SUBSET DOMAIN rd.batch :
           rd' = [rd EXCEPT !.at = "observe", !.count = @ + 1, !.last = L!Last(rd.batch),
                            !.facts = L!Observed(rd.batch, ok),
                            !.done = @ \cup {rd.batch[i] : i \in
                                         IF rd.model = "native" THEN ok ELSE DOMAIN rd.batch},
                            !.complete = FALSE, !.pending = TRUE, !.batch = <<>>]
    BY <1>4 DEF L!ToolRuns
  <2> DEFINE facts == L!Observed(rd.batch, ok)
             made == {rd.batch[i] : i \in IF rd.model = "native" THEN ok ELSE DOMAIN rd.batch}
             last == L!Last(rd.batch)
  <2>2. facts \in [L!Name -> {"none", "ok", "failed"}] /\ made \subseteq ReadCall
        /\ last \in ReadCall \cup {NoCall}
    BY <1>2, <1>3
  <2>3. rd' = [rd EXCEPT !.at = "observe", !.count = @ + 1, !.last = last, !.facts = facts,
                         !.done = @ \cup made, !.complete = FALSE, !.pending = TRUE,
                         !.batch = <<>>]
    BY <2>1
  <2> HIDE DEF facts, made, last
  <2>4. rd' \in Reading /\ rd'.at = "observe" /\ rd'.batch = <<>> /\ rd'.queue = rd.queue
        /\ rd'.model = rd.model /\ rd'.topic = rd.topic
    BY <1>1, <1>2, <2>2, <2>3 DEF Reading
  <2> QED BY <1>1, <1>2, <2>4 DEF ReadInv, Bounded, L!QueueRuns
<1>5. CASE L!ToolRaises
  <2>1. rd' \in Reading /\ rd'.at = "observe" /\ rd'.batch = <<>> /\ rd'.queue = rd.queue
        /\ rd'.model = rd.model /\ rd'.topic = rd.topic
    BY <1>1, <1>2, <1>5 DEF L!ToolRaises, Reading
  <2> QED BY <1>1, <1>2, <2>1 DEF ReadInv, Bounded, L!QueueRuns
<1> QED BY <1>4, <1>5

LEMMA ObserveKeeps ==
    ASSUME L!ReadOnlyAssumption, ReadInv, L!Observe PROVE ReadInv'
<1> DEFINE final == rd.count >= MaxRounds
           isNative == rd.model = "native" /\ rd.topic # "status"
           r == [rd EXCEPT !.last = NoCall]
<1>1. Bounded(rd) /\ MaxRounds \in Nat /\ rd.count \in 0..MaxRounds
  BY DEF ReadInv, Bounded, Reading, L!ReadOnlyAssumption
<1>2. /\ Bounded(r) /\ r.count = rd.count /\ r.queue = rd.queue
      /\ r.queue # <<>> => isNative
  BY <1>1 DEF Bounded, Reading
<1>3. \/ \E a \in {"error", "clarification"} : rd' = L!Routed([L!Finished(r) EXCEPT !.answer = a])
      \/ rd' = L!Routed([r EXCEPT !.result = TRUE, !.answer = "none", !.complete = FALSE,
                                  !.pending = TRUE])
      \/ /\ ~isNative \/ final
         /\ rd' = L!Routed([r EXCEPT !.answer = "data", !.complete = final, !.pending = ~final])
  BY DEF L!Observe
<1> HIDE DEF r
<1>4. CASE \E a \in {"error", "clarification"} : rd' = L!Routed([L!Finished(r) EXCEPT !.answer = a])
  <2>1. PICK a \in {"error", "clarification"} : rd' = L!Routed([L!Finished(r) EXCEPT !.answer = a])
    BY <1>4
  <2> DEFINE f == [L!Finished(r) EXCEPT !.answer = a]
  <2>2. Bounded(f) /\ f.answer = a
    BY <1>2, FinishedFields
  <2> QED BY <2>1, <2>2, RoutedInv DEF Goes
<1>5. CASE rd' = L!Routed([r EXCEPT !.result = TRUE, !.answer = "none", !.complete = FALSE,
                                    !.pending = TRUE])
  <2> DEFINE s == [r EXCEPT !.result = TRUE, !.answer = "none", !.complete = FALSE,
                            !.pending = TRUE]
  <2>1. Bounded(s) /\ Goes(s)
    BY <1>2 DEF Bounded, Reading, Goes
  <2> QED BY <1>5, <2>1, RoutedInv
<1>6. CASE /\ ~isNative \/ final
           /\ rd' = L!Routed([r EXCEPT !.answer = "data", !.complete = final, !.pending = ~final])
  <2> DEFINE s == [r EXCEPT !.answer = "data", !.complete = final, !.pending = ~final]
  <2>0. final \in BOOLEAN /\ (final <=> rd.count >= MaxRounds)
    OBVIOUS
  <2> HIDE DEF final
  <2>1. /\ Bounded(s) /\ s.queue = rd.queue /\ s.count = rd.count /\ s.at = r.at
        /\ s.complete = final /\ s.pending = ~final
    BY <1>2, <2>0 DEF Bounded, Reading
  <2>2. CASE ~final
    <3>1. Goes(s)
      BY <1>2, <1>6, <2>1, <2>2 DEF Goes
    <3> QED BY <1>6, <2>1, <3>1, RoutedInv
  <2>3. CASE final
    <3>1. rd' = L!Routed(s) /\ L!Route(s) = "response" /\ rd.count = MaxRounds
      BY <1>1, <1>6, <2>0, <2>1, <2>3 DEF L!Route
    <3> HIDE DEF s
    <3>2. /\ Bounded(rd') /\ rd'.at = "response" /\ rd'.count = MaxRounds
      BY <2>1, <3>1 DEF Bounded, Reading, L!Routed
    <3> QED BY <3>2 DEF ReadInv, L!QueueRuns
  <2> QED BY <2>2, <2>3
<1> QED BY <1>3, <1>4, <1>5, <1>6

LEMMA IdleInv ==
    ASSUME L!ReadOnlyAssumption
    PROVE  /\ L!ReadIdle \in Reading /\ Bounded(L!ReadIdle)
           /\ L!ReadIdle.at = "idle" /\ L!ReadIdle.queue = <<>>
<1>1. <<>> \in Seq(ReadCall) /\ Len(<<>>) <= MaxParallel /\ 0 \in 0..MaxRounds
  BY DEF L!ReadOnlyAssumption
<1>2. L!ReadIdle \in Reading /\ L!ReadIdle.batch = <<>>
      /\ L!ReadIdle.at = "idle" /\ L!ReadIdle.queue = <<>>
  BY <1>1 DEF L!ReadIdle, Reading
<1> QED BY <1>1, <1>2 DEF Bounded

LEMMA ReadKeeps ==
    ASSUME L!ReadOnlyAssumption, ReadInv,
           L!ReadStart \/ L!ReadNext \/ rd' = L!ReadIdle \/ UNCHANGED rd
    PROVE  ReadInv'
<1>1. CASE rd' = L!ReadIdle
  BY <1>1, IdleInv DEF ReadInv, L!QueueRuns
<1>2. CASE UNCHANGED rd
  BY <1>2 DEF ReadInv, L!QueueRuns
<1>3. CASE L!ReadStart
  <2>1. PICK m \in {"native", "facade", "planner"}, t \in {"wallet", "status", "other"},
             v \in BOOLEAN :
           rd' = [L!ReadIdle EXCEPT !.at = "agent", !.model = m, !.topic = t, !.value = v]
    BY <1>3 DEF L!ReadStart
  <2>2. /\ rd' \in Reading /\ rd'.at = "agent" /\ rd'.queue = <<>> /\ rd'.batch = L!ReadIdle.batch
    BY <2>1, IdleInv DEF Reading
  <2> QED BY <2>2, IdleInv DEF ReadInv, Bounded, L!QueueRuns
<1> QED BY <1>1, <1>2, <1>3, AgentKeeps, ToolKeeps, ObserveKeeps DEF L!ReadNext

(***************************************************************************)
(* The theorems.                                                           *)
(***************************************************************************)

LEMMA SlotInvariant ==
    ASSUME S!SlotAssumption PROVE S!Spec => []SlotInv
<1>1. S!Init => SlotInv
  BY InitSlotInv
<1>2. SlotInv /\ [S!Next]_(S!vars) => SlotInv'
  BY NextKeeps
<1> QED BY <1>1, <1>2, PTL DEF S!Spec

\* The slot-filling graph on its own: whatever a conversation fills in, corrects
\* and resolves, what was derived for one coin is never used for another.
THEOREM SlotsStayWithTheirCoins ==
    ASSUME S!SlotAssumption PROVE S!Spec => [](S!TypeOK /\ S!SlotsAgree)
<1>1. S!Spec => []SlotInv
  BY SlotInvariant
<1>2. SlotInv => S!TypeOK /\ S!SlotsAgree
  BY InvGives
<1> QED BY <1>1, <1>2, PTL

\* Of the turns that do not abandon a task: a swap order that was placed is in
\* the checkpoint or in the history while that has room.
THEOREM OrdersAreKept ==
    ASSUME S!SlotAssumption PROVE S!Spec => []S!OrderKept
<1>1. S!Spec => []SlotInv
  BY SlotInvariant
<1>2. SlotInv => S!OrderKept
  BY InvGives
<1> QED BY <1>1, <1>2, PTL

\* Of the same turns: a confirmation is asked for a quote of what the slots say.
THEOREM ConfirmationsAreOfTheSlots ==
    ASSUME S!SlotAssumption PROVE S!Spec => S!AskedForSlots
<1>1. S!Spec => []SlotInv
  BY SlotInvariant
<1>2. SlotInv /\ [S!Next]_(S!vars) =>
         [scp'.conf.st = "requested" /\ scp.conf.st # "requested" /\ ~abandoned =>
               scp'.conf.for.req = S!Request(scp.task.slots)]_(S!vars)
  BY AsksForSlots
<1> QED BY <1>1, <1>2, PTL DEF S!Spec, S!AskedForSlots

\* A step of the slot-filling graph in ChatTurn is one of the graph on its own;
\* the read that the loop answers is a single one there.
LEMMA SlotSteps == ASSUME [ChatNext]_<<world, chatVars>> PROVE [S!Next]_(S!vars)
<1>1. CASE world = "slots" /\ SlotNext
  <2>1. CASE /\ InLoop /\ L!ReadResponds /\ S!EndTurn
             /\ UNCHANGED <<scp, sturns, placed, abandoned>>
    BY <2>1 DEF InLoop, S!ReadAnswers, S!Next, S!marks
  <2>2. CASE UNCHANGED slotVars
    BY <2>2 DEF slotVars, S!vars
  <2> QED BY <1>1, <2>1, <2>2 DEF SlotNext, S!Next
<1>2. CASE UNCHANGED slotVars
  BY <1>2 DEF slotVars, S!vars
<1> QED BY <1>1, <1>2 DEF ChatNext, chatVars

LEMMA ChatsAreSlotTurns ==
    ASSUME S!SlotAssumption PROVE ChatSpec => S!Spec
<1>1. ChatInit => S!Init
  BY DEF ChatInit
<1>2. [ChatNext]_<<world, chatVars>> => [S!Next]_(S!vars)
  BY SlotSteps
<1> QED BY <1>1, <1>2, PTL DEF ChatSpec, S!Spec

LEMMA LoopInvariant ==
    ASSUME L!ReadOnlyAssumption PROVE ChatSpec => []ReadInv
<1>1. ChatInit => ReadInv
  BY IdleInv DEF ChatInit, ReadInv, L!QueueRuns
<1>2. ReadInv /\ [ChatNext]_<<world, chatVars>> => ReadInv'
  BY ReadKeeps DEF ChatNext, SlotNext, L!ReadResponds, chatVars
<1> QED BY <1>1, <1>2, PTL DEF ChatSpec

\* Of a chat turn: the types of the slot-filling graph and of its loop.
THEOREM ChatTypesHold ==
    ASSUME S!SlotAssumption, L!ReadOnlyAssumption PROVE ChatSpec => []SlotTypeOK
<1>1. ChatSpec => []S!TypeOK
  BY ChatsAreSlotTurns, SlotsStayWithTheirCoins, PTL
<1>2. ReadInv => L!ReadTypeOK
  BY DEF ReadInv, Bounded, Reading, L!ReadTypeOK
<1>3. S!TypeOK /\ L!ReadTypeOK => SlotTypeOK
  BY DEF SlotTypeOK
<1> QED BY <1>1, <1>2, <1>3, LoopInvariant, PTL

\* merge_task_patch and the resolvers, in a chat turn.
THEOREM ChatsKeepCoins ==
    ASSUME S!SlotAssumption PROVE ChatSpec => []SlotsAgree
<1>1. S!SlotsAgree => SlotsAgree
  BY DEF SlotsAgree
<1> QED BY <1>1, ChatsAreSlotTurns, SlotsStayWithTheirCoins, PTL

\* The resets of the intent node, in a chat turn.
THEOREM ChatsKeepOrders ==
    ASSUME S!SlotAssumption PROVE ChatSpec => []OrderKept
<1>1. S!OrderKept => OrderKept
  BY DEF OrderKept
<1> QED BY <1>1, ChatsAreSlotTurns, OrdersAreKept, PTL

\* What a chat turn asks to confirm is a quote of what the slots say.
THEOREM ChatsAskForSlots ==
    ASSUME S!SlotAssumption PROVE ChatSpec => AskedForSlots
BY ChatsAreSlotTurns, ConfirmationsAreOfTheSlots, PTL DEF AskedForSlots

\* chunk_read_batch and the agent: the calls that a too large batch leaves over
\* are made, unless the rounds are used up or a call failed.
THEOREM PutOffCallsAreMade ==
    ASSUME L!ReadOnlyAssumption PROVE ChatSpec => []QueueRuns
<1>1. ReadInv => QueueRuns
  BY DEF ReadInv, QueueRuns
<1> QED BY <1>1, LoopInvariant, PTL
=============================================================================
