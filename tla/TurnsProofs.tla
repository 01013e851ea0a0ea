----------------------------- MODULE TurnsProofs -----------------------------
(***************************************************************************)
(* Proofs about the worlds of Turns that are not the chat graph: what the  *)
(* status of an order shows, that a swap that is alone has an order of its *)
(* own, that loads of a catalog coalesce, and that what the builder offers *)
(* for signing can be signed and paid.  The graph itself is in             *)
(* SlotTurnProofs and ReactTurnProofs, the store in SessionStoreProofs.    *)
(***************************************************************************)
EXTENDS Turns, FiniteSetTheorems, WellFoundedInduction, TLAPS

(***************************************************************************)
(* The status of an order, for every limit of polls and every number of    *)
(* questions and swaps.                                                    *)
(***************************************************************************)

SwapRecord ==
    [pending : BOOLEAN, sent : BOOLEAN, order : BOOLEAN,
     bstatus : {None, "not_propagated", "broadcast_seen", "source_confirmed", "confirmed"},
     status : {None, "none", "processing", "completed", "refunded", "timed_out"}]

StatusTypes ==
    /\ exchange \in {"none", "processing"} \cup T!Settled
    /\ sess \in SwapRecord
    /\ tcp \in [swap : SwapRecord, attempts : Nat]
    /\ node \in {"idle", "register", "poll", "project"}
    /\ swaps \in Nat /\ missed \in Nat

(* A record of a swap says no more than the provider.                      *)
TrueOf(swap) ==
    /\ swap.status = "completed" \/ swap.bstatus = "confirmed" => exchange = "completed"
    /\ swap.order => swap.sent /\ exchange # "none"
    /\ swap.sent \/ swap.pending => swaps > 0

(* The attempts: every swap adds one of its questions to those that learned *)
(* nothing; one about a swap whose order is not known yet is not counted.   *)
Counted(known) ==
    /\ tcp.attempts <= missed + swaps
    /\ ~known /\ swaps > 0 => tcp.attempts < missed + swaps

AskingFor ==
    /\ node = "idle" => Counted(sess.order)
    /\ node \in {"register", "poll"} => Counted(FALSE)
    /\ node = "project" => Counted(tcp.swap.order)
    /\ node # "idle" /\ sess.sent => tcp.swap.sent
    /\ tcp.swap.sent \/ exchange # "none" => sess.sent
    /\ tcp.swap.status = "timed_out" => missed + swaps >= MaxPolls

StatusInv == StatusTypes /\ TrueOf(sess) /\ TrueOf(tcp.swap) /\ AskingFor

\* The exchange of a swap goes on and never back.
Advances ==
    /\ exchange' \in {"none", "processing"} \cup T!Settled
    /\ exchange # "none" => exchange' # "none"
    /\ exchange = "completed" => exchange' = "completed"

LEMMA TrueStays ==
    ASSUME NEW swap, TrueOf(swap), StatusTypes, Advances, swaps' = swaps
    PROVE  TrueOf(swap)'
BY DEF TrueOf, Advances

LEMMA WorldKeeps ==
    ASSUME StatusInv, T!World, UNCHANGED <<sess, tcp, node, swaps, missed>> PROVE StatusInv'
<1>1. Advances
  BY DEF T!World, T!Exchanged, Advances, StatusInv, StatusTypes, T!Settled
<1>2. TrueOf(sess)' /\ TrueOf(tcp.swap)'
  BY <1>1 DEF StatusInv, TrueOf, Advances
<1>3. StatusTypes'
  BY <1>1 DEF StatusInv, StatusTypes, Advances
<1>4. exchange' # "none" => exchange # "none"
  BY DEF T!World, T!Exchanged, T!Settled
<1> QED BY <1>2, <1>3, <1>4 DEF StatusInv, AskingFor, Counted

LEMMA PrepareKeeps ==
    ASSUME T!StatusAssumption, StatusInv, T!PrepareSwap PROVE StatusInv'
<1> DEFINE new == [T!NoSwap EXCEPT !.pending = TRUE]
<1>1. /\ node = "idle" /\ sess' = new /\ tcp' = [tcp EXCEPT !.swap = new]
      /\ exchange' = "none" /\ swaps' = swaps + 1 /\ UNCHANGED <<node, missed>>
  BY DEF T!PrepareSwap
<1>2. /\ new \in SwapRecord /\ ~new.sent /\ ~new.order
      /\ new.status = None /\ new.bstatus = None
  BY DEF T!NoSwap, SwapRecord
<1> HIDE DEF new
<1>3. StatusTypes' /\ tcp'.swap = new /\ tcp'.attempts = tcp.attempts
  BY <1>1, <1>2 DEF StatusInv, StatusTypes
<1>4. None # "completed" /\ None # "confirmed" /\ None # "timed_out"
  BY DEF T!StatusAssumption
<1>5. TrueOf(sess)' /\ TrueOf(tcp.swap)'
  BY <1>1, <1>2, <1>3, <1>4 DEF StatusInv, StatusTypes, TrueOf
<1>6. AskingFor'
  BY <1>1, <1>2, <1>3, <1>4 DEF StatusInv, StatusTypes, AskingFor, Counted
<1> QED BY <1>3, <1>5, <1>6 DEF StatusInv

LEMMA BroadcastKeeps ==
    ASSUME StatusInv, T!Broadcast PROVE StatusInv'
<1>1. /\ node = "idle" /\ ~sess.sent /\ sess.pending /\ UNCHANGED <<tcp, node, swaps, missed>>
      /\ \/ /\ sess' = [sess EXCEPT !.sent = TRUE, !.bstatus = "not_propagated"]
            /\ exchange' = exchange
         \/ /\ sess' = [sess EXCEPT !.sent = TRUE, !.bstatus = "broadcast_seen", !.order = TRUE]
            /\ exchange' = "processing"
  BY DEF T!Broadcast
<1>2. /\ sess \in SwapRecord /\ ~sess.order /\ swaps > 0
      /\ exchange = "none" /\ ~tcp.swap.sent
  BY <1>1 DEF StatusInv, TrueOf, StatusTypes, AskingFor
<1>3. /\ exchange' \in {"none", "processing"}
      /\ sess' \in SwapRecord /\ sess'.sent /\ sess'.status = sess.status
      /\ sess'.bstatus # "confirmed"
      /\ sess'.order => exchange' # "none"
  BY <1>1, <1>2 DEF SwapRecord
<1>4. TrueOf(sess)' /\ TrueOf(tcp.swap)'
  BY <1>1, <1>2, <1>3 DEF StatusInv, TrueOf
<1>5. StatusTypes'
  BY <1>1, <1>3 DEF StatusInv, StatusTypes
<1>6. AskingFor'
  BY <1>1, <1>2, <1>3 DEF StatusInv, StatusTypes, AskingFor, Counted
<1> QED BY <1>4, <1>5, <1>6 DEF StatusInv

LEMMA AppKeeps ==
    ASSUME T!StatusAssumption, StatusInv, T!AppRecovers \/ T!AppPolls PROVE StatusInv'
<1>1. StatusTypes /\ sess \in SwapRecord
  BY DEF StatusInv, StatusTypes
<1>2. /\ UNCHANGED <<tcp, node, swaps, missed>> /\ Advances
      /\ exchange' # "none" /\ sess.sent
      /\ sess' \in SwapRecord /\ sess'.sent = sess.sent
      /\ sess'.order /\ (sess'.status = sess.status \/ sess'.status = exchange')
      /\ sess'.bstatus = "confirmed" =>
            sess.bstatus = "confirmed" \/ exchange' = "completed"
  <2>1. CASE T!AppRecovers
    <3>1. /\ sess' = [sess EXCEPT !.order = TRUE, !.bstatus = "source_confirmed"]
          /\ exchange' = IF exchange = "none" THEN "processing" ELSE exchange
          /\ sess.sent /\ UNCHANGED <<tcp, node, swaps, missed>>
      BY <2>1 DEF T!AppRecovers, T!Registered
    <3>2. Advances /\ exchange' # "none"
      BY <1>1, <3>1 DEF StatusTypes, Advances
    <3> QED BY <1>1, <3>1, <3>2 DEF SwapRecord
  <2>2. CASE T!AppPolls
    <3> DEFINE b == IF exchange = "completed" THEN "confirmed" ELSE sess.bstatus
    <3>1. /\ sess' = [sess EXCEPT !.status = exchange, !.bstatus = b]
          /\ sess.order /\ exchange' = exchange /\ UNCHANGED <<tcp, node, swaps, missed>>
      BY <2>2 DEF T!AppPolls
    <3>2. b \in {None, "not_propagated", "broadcast_seen", "source_confirmed", "confirmed"}
          /\ (b = "confirmed" => sess.bstatus = "confirmed" \/ exchange = "completed")
          /\ exchange \in {"none", "processing", "completed", "refunded"}
      BY <1>1 DEF SwapRecord, StatusTypes, T!Settled
    <3> HIDE DEF b
    <3>3. Advances /\ exchange' # "none" /\ sess.sent
      BY <1>1, <3>1 DEF StatusTypes, Advances, StatusInv, TrueOf
    <3> QED BY <1>1, <3>1, <3>2, <3>3 DEF SwapRecord
  <2> QED BY <2>1, <2>2
<1>3. TrueOf(sess)' /\ TrueOf(tcp.swap)'
  BY <1>2, TrueStays DEF StatusInv, TrueOf, Advances
<1>4. StatusTypes' /\ AskingFor'
  BY <1>1, <1>2 DEF StatusInv, StatusTypes, AskingFor, Counted, Advances
<1> QED BY <1>3, <1>4 DEF StatusInv

LEMMA TurnKeeps ==
    ASSUME T!StatusAssumption, StatusInv, T!Turn PROVE StatusInv'
<1>1. /\ node = "idle" /\ node' \in {"register", "poll"} /\ tcp' = T!Taken
      /\ missed' = (IF sess.order THEN 0 ELSE missed) /\ UNCHANGED <<exchange, sess, swaps>>
      /\ sess \in SwapRecord /\ tcp \in [swap : SwapRecord, attempts : Nat]
  BY DEF T!Turn, StatusInv, StatusTypes
<1>2. None # "completed" /\ None # "timed_out"
  BY DEF T!StatusAssumption
<1>3. CASE sess.order
  <2> DEFINE new == [sess EXCEPT !.pending = FALSE, !.status = None]
  <2>1. tcp' = [swap |-> new, attempts |-> 0]
    BY <1>1, <1>3 DEF T!Taken
  <2>2. /\ new \in SwapRecord /\ new.status = None /\ new.bstatus = sess.bstatus
        /\ new.order /\ new.sent = sess.sent
    BY <1>1, <1>3 DEF SwapRecord
  <2> HIDE DEF new
  <2>3. StatusTypes' /\ missed' = 0
    BY <1>1, <1>3, <2>1, <2>2 DEF StatusInv, StatusTypes
  <2>4. TrueOf(sess)' /\ TrueOf(tcp.swap)'
    BY <1>1, <1>2, <1>3, <2>1, <2>2 DEF StatusInv, TrueOf
  <2>5. AskingFor'
    BY <1>1, <1>2, <1>3, <2>1, <2>2, <2>3 DEF StatusInv, StatusTypes, AskingFor, Counted, TrueOf
  <2> QED BY <2>3, <2>4, <2>5 DEF StatusInv
<1>4. CASE ~sess.order
  <2> DEFINE b == IF sess.sent THEN sess.bstatus ELSE tcp.swap.bstatus
  <2> DEFINE pend == tcp.swap.pending \/ sess.pending
  <2> DEFINE sent == tcp.swap.sent \/ sess.sent
  <2>1. tcp' = [tcp EXCEPT !.swap.pending = pend, !.swap.sent = sent, !.swap.bstatus = b]
    BY <1>1, <1>4 DEF T!Taken
  <2>2. /\ b \in {None, "not_propagated", "broadcast_seen", "source_confirmed", "confirmed"}
        /\ b \in {sess.bstatus, tcp.swap.bstatus}
        /\ pend \in BOOLEAN /\ sent \in BOOLEAN
        /\ (sent <=> (tcp.swap.sent \/ sess.sent))
        /\ (pend <=> (tcp.swap.pending \/ sess.pending))
        /\ (~sess.sent => b = tcp.swap.bstatus) /\ (sess.sent => b = sess.bstatus)
    BY <1>1 DEF SwapRecord
  <2> HIDE DEF b, pend, sent
  <2> DEFINE new == [tcp.swap EXCEPT !.pending = pend, !.sent = sent, !.bstatus = b]
  <2>a. /\ new \in SwapRecord /\ new.sent = sent /\ new.bstatus = b /\ new.pending = pend
        /\ new.order = tcp.swap.order /\ new.status = tcp.swap.status
    BY <1>1, <2>2 DEF SwapRecord
  <2>b. tcp' = [swap |-> new, attempts |-> tcp.attempts]
    BY <1>1, <2>1
  <2> HIDE DEF new
  <2>3. /\ tcp' \in [swap : SwapRecord, attempts : Nat] /\ tcp'.attempts = tcp.attempts
        /\ tcp'.swap.sent = sent /\ tcp'.swap.bstatus = b /\ tcp'.swap.pending = pend
        /\ tcp'.swap.order = tcp.swap.order /\ tcp'.swap.status = tcp.swap.status
    BY <1>1, <2>a, <2>b
  <2>4. StatusTypes' /\ missed' = missed
    BY <1>1, <1>4, <2>3 DEF StatusInv, StatusTypes
  <2>5. TrueOf(sess)'
    BY <1>1 DEF StatusInv, TrueOf
  <2>6. TrueOf(tcp.swap)'
    BY <1>1, <2>2, <2>3 DEF StatusInv, TrueOf
  <2>7. AskingFor'
    BY <1>1, <1>4, <2>2, <2>3, <2>4 DEF StatusInv, StatusTypes, AskingFor, Counted
  <2> QED BY <2>4, <2>5, <2>6, <2>7 DEF StatusInv
<1> QED BY <1>3, <1>4

LEMMA KnownKeeps ==
    ASSUME T!StatusAssumption, StatusInv, T!PollOrder, T!StatusKnown PROVE StatusInv'
<1>1. /\ node = "poll" /\ node' = "project" /\ UNCHANGED <<sess, swaps, missed>>
      /\ sess \in SwapRecord /\ tcp \in [swap : SwapRecord, attempts : Nat]
      /\ MaxPolls \in Nat
  BY DEF T!PollOrder, T!StatusKnown, T!Ends, StatusInv, StatusTypes, T!StatusAssumption
<1>2. /\ Advances /\ exchange' # "none" /\ tcp.swap.sent /\ sess.sent /\ swaps > 0
  BY <1>1 DEF T!PollOrder, T!Recoverable, T!Registered, T!Settled, StatusInv, StatusTypes,
              TrueOf, AskingFor, Advances
<1> DEFINE status == T!Timely(tcp.attempts + 1)
<1> DEFINE b == T!Bstatus(tcp.swap, status)
<1> DEFINE new == [tcp.swap EXCEPT !.order = TRUE, !.status = status, !.bstatus = b]
<1>3. /\ status \in {"none", "processing", "completed", "refunded", "timed_out"}
      /\ status = "completed" => exchange' = "completed"
      /\ status = "timed_out" => tcp.attempts + 1 >= MaxPolls
  BY <1>2 DEF T!Timely, Advances, T!Settled, T!Terminal
<1>4. /\ b \in {None, "not_propagated", "broadcast_seen", "source_confirmed", "confirmed"}
      /\ b = "confirmed" => status = "completed" \/ tcp.swap.bstatus = "confirmed"
  <2>1. tcp.swap.bstatus \in
            {None, "not_propagated", "broadcast_seen", "source_confirmed", "confirmed"}
    BY <1>1 DEF SwapRecord
  <2> HIDE DEF status
  <2> QED BY <2>1 DEF T!Bstatus
<1>5. tcp' = [swap |-> new, attempts |-> tcp.attempts + 1]
  BY DEF T!StatusKnown
<1> HIDE DEF status, b
<1>6. /\ new \in SwapRecord /\ new.sent /\ new.order /\ new.status = status /\ new.bstatus = b
  BY <1>1, <1>2, <1>3, <1>4 DEF SwapRecord
<1> HIDE DEF new
<1>7. StatusTypes' /\ tcp'.swap = new /\ tcp'.attempts = tcp.attempts + 1
  BY <1>1, <1>2, <1>5, <1>6 DEF StatusInv, StatusTypes, Advances
<1>8. TrueOf(sess)'
  BY <1>1, <1>2, TrueStays DEF StatusInv
<1>9. TrueOf(tcp.swap)'
  BY <1>1, <1>2, <1>3, <1>4, <1>6, <1>7 DEF StatusInv, TrueOf, StatusTypes, Advances
<1>10. AskingFor'
  BY <1>1, <1>2, <1>3, <1>6, <1>7 DEF StatusInv, StatusTypes, AskingFor, Counted
<1> QED BY <1>7, <1>8, <1>9, <1>10 DEF StatusInv

LEMMA FailsKeeps ==
    ASSUME T!StatusAssumption, StatusInv, T!PollOrder, T!StatusFails PROVE StatusInv'
<1>1. /\ node = "poll" /\ node' = "project" /\ UNCHANGED <<sess, swaps>>
      /\ missed' = missed + 1 /\ tcp' = [tcp EXCEPT !.attempts = @ + 1]
      /\ sess \in SwapRecord /\ tcp \in [swap : SwapRecord, attempts : Nat]
  BY DEF T!PollOrder, T!StatusFails, T!Ends, StatusInv, StatusTypes
<1>2. Advances /\ tcp.swap.sent /\ sess.sent
  BY <1>1 DEF T!PollOrder, T!Recoverable, T!Registered, T!Settled, StatusInv, StatusTypes,
              TrueOf, AskingFor, Advances
<1>3. StatusTypes' /\ tcp'.swap = tcp.swap /\ tcp'.attempts = tcp.attempts + 1
  BY <1>1, <1>2 DEF StatusInv, StatusTypes, Advances
<1>4. TrueOf(sess)' /\ TrueOf(tcp.swap)'
  BY <1>1, <1>2, <1>3 DEF StatusInv, TrueOf, Advances
<1>5. AskingFor'
  BY <1>1, <1>2, <1>3 DEF StatusInv, StatusTypes, AskingFor, Counted, T!StatusAssumption
<1> QED BY <1>3, <1>4, <1>5 DEF StatusInv

(* The nodes that ask nobody.                                              *)
LEMMA QuietKeeps ==
    ASSUME T!StatusAssumption, StatusInv,
           T!RegisterBroadcast \/ T!PollInvisible \/ T!PollNothing
    PROVE  StatusInv'
<1>1. /\ UNCHANGED <<exchange, sess, swaps>> /\ node \in {"register", "poll"}
      /\ node' \in {"poll", "project"}
      /\ \/ UNCHANGED <<tcp, missed>>
         \/ tcp' = [tcp EXCEPT !.attempts = @ + 1] /\ missed' = missed + 1
      /\ sess \in SwapRecord /\ tcp \in [swap : SwapRecord, attempts : Nat]
      /\ node' = "poll" => UNCHANGED <<tcp, missed>>
  BY DEF T!RegisterBroadcast, T!PollInvisible, T!PollNothing, T!Ends, StatusInv, StatusTypes
<1>2. /\ tcp' \in [swap : SwapRecord, attempts : Nat] /\ tcp'.swap = tcp.swap
      /\ \/ tcp'.attempts = tcp.attempts /\ missed' = missed
         \/ tcp'.attempts = tcp.attempts + 1 /\ missed' = missed + 1
  BY <1>1
<1>3. StatusTypes'
  BY <1>1, <1>2 DEF StatusInv, StatusTypes
<1>4. TrueOf(sess)' /\ TrueOf(tcp.swap)'
  BY <1>1, <1>2 DEF StatusInv, TrueOf
<1>5. AskingFor'
  BY <1>1, <1>2, <1>3 DEF StatusInv, StatusTypes, AskingFor, Counted, T!StatusAssumption
<1> QED BY <1>3, <1>4, <1>5 DEF StatusInv

LEMMA ProjectKeeps ==
    ASSUME T!StatusAssumption, StatusInv, T!Project PROVE StatusInv'
<1>1. /\ node = "project" /\ node' = "idle" /\ UNCHANGED <<exchange, tcp, swaps, missed>>
      /\ sess \in SwapRecord /\ tcp \in [swap : SwapRecord, attempts : Nat]
  BY DEF T!Project, StatusInv, StatusTypes
<1>2. /\ sess' \in SwapRecord /\ sess'.sent = tcp.swap.sent /\ sess'.bstatus = tcp.swap.bstatus
      /\ (sess'.order <=> (sess.order \/ tcp.swap.order))
      /\ sess'.status \in {sess.status, tcp.swap.status}
      /\ sess'.pending => tcp.swap.pending
  BY <1>1 DEF T!Project, SwapRecord
<1>3. StatusTypes'
  BY <1>1, <1>2 DEF StatusInv, StatusTypes
<1>4. TrueOf(sess)' /\ TrueOf(tcp.swap)'
  BY <1>1, <1>2 DEF StatusInv, TrueOf, AskingFor
<1>5. AskingFor'
  BY <1>1, <1>2 DEF StatusInv, StatusTypes, TrueOf, AskingFor, Counted
<1> QED BY <1>3, <1>4, <1>5 DEF StatusInv

LEMMA InitHolds ==
    ASSUME T!StatusAssumption, T!Init PROVE StatusInv
<1>1. None # "completed" /\ None # "confirmed" /\ None # "timed_out"
  BY DEF T!StatusAssumption
<1>2. T!NoSwap \in SwapRecord
  BY DEF T!NoSwap, SwapRecord
<1>3. TrueOf(sess) /\ TrueOf(tcp.swap)
  BY <1>1 DEF T!Init, T!NoSwap, TrueOf
<1> QED BY <1>1, <1>2, <1>3 DEF T!Init, T!NoSwap, StatusInv, StatusTypes, AskingFor, Counted

LEMMA StepKeeps ==
    ASSUME T!StatusAssumption, StatusInv, [T!Next]_(T!vars) PROVE StatusInv'
<1>1. CASE T!World /\ UNCHANGED <<exchanger, sess, tcp, node, saidStatus, questions, swaps, missed>>
  BY <1>1, WorldKeeps
<1>2. CASE T!PrepareSwap
  BY <1>2, PrepareKeeps
<1>3. CASE T!Broadcast
  BY <1>3, BroadcastKeeps
<1>4. CASE T!AppRecovers \/ T!AppPolls
  BY <1>4, AppKeeps
<1>5. CASE T!Turn
  BY <1>5, TurnKeeps
<1>6. CASE T!RegisterBroadcast \/ T!PollInvisible \/ T!PollNothing
  BY <1>6, QuietKeeps
<1>7. CASE T!PollOrder
  <2>1. T!StatusKnown \/ T!StatusFails
    BY <1>7 DEF T!PollOrder
  <2> QED BY <1>7, <2>1, KnownKeeps, FailsKeeps
<1>8. CASE T!Project
  BY <1>8, ProjectKeeps
<1>9. CASE UNCHANGED T!vars
  BY <1>9 DEF T!vars, StatusInv, StatusTypes, TrueOf, AskingFor, Counted
<1> QED BY <1>1, <1>2, <1>3, <1>4, <1>5, <1>6, <1>7, <1>8, <1>9 DEF T!Next, T!StatusStep

(* routes.py:126-130 and status_poll: session and checkpoint never show a  *)
(* completion that the provider did not report nor an order it does not    *)
(* have, and a swap is timed out only after MaxPolls questions, one of     *)
(* each swap, that learned nothing.                                        *)
THEOREM StatusIsTheProviders ==
    ASSUME T!StatusAssumption PROVE T!Spec => []T!StatusIsProviders
<1>1. T!Init => StatusInv
  BY InitHolds
<1>2. StatusInv /\ [T!Next]_(T!vars) => StatusInv'
  BY StepKeeps
<1>3. StatusInv => T!StatusIsProviders
  BY DEF StatusInv, TrueOf, AskingFor, T!StatusIsProviders
<1> QED BY <1>1, <1>2, <1>3, PTL DEF T!Spec

\* The same of the worlds of Turns.
THEOREM TurnsShowProviders ==
    ASSUME T!StatusAssumption PROVE TurnsSpec => []StatusIsProviders
<1>1. TurnsInit => T!Init
  BY DEF TurnsInit
<1>2. [TurnsNext]_allVars => [T!Next]_(T!vars)
  BY DEF TurnsNext, allVars, statusVars, T!vars
<1>3. T!Spec => []T!StatusIsProviders
  BY StatusIsTheProviders
<1>4. T!StatusIsProviders => StatusIsProviders
  BY DEF StatusIsProviders
<1> QED BY <1>1, <1>2, <1>3, <1>4, PTL DEF TurnsSpec, T!Spec

(***************************************************************************)
(* Swaps at one provider.  A quote, a call and an order only ever stand    *)
(* for what was asked, so that with a swap that is alone with its amount   *)
(* whatever has this amount is the swap's.                                 *)
(***************************************************************************)
AskedFor(who, amount) == \E a \in asked : a.by = who /\ a.req.amount = amount

PaidFor(amount, recipient) ==
    \E a \in asked : a.req.amount = amount /\ a.req.recipient = recipient

RefFor(s, amount) ==
    [amount |-> amount, sender |-> IF provider = "bridgers" THEN Sender[s] ELSE None]

SomeOrder == [of : Swap, amount : Amount, recipient : Recipient, hash : Swap \cup {None}]

OrderTypes ==
    /\ provider \in {"omnibridge", "bridgers"} /\ honors \in BOOLEAN
    /\ memory \in [O!Reference -> O!Request \cup {None}]
    /\ asked \subseteq [by : Swap, req : O!Request]
    /\ quote \in [Swap -> O!Request \cup {None}]
    /\ ostage \in [Swap -> {"new", "quoted", "preparing", "prepared", "registering",
                            "registered"}]
    /\ call \in [Swap -> O!PostCall \cup {None}]
    /\ late \subseteq O!PostCall
    /\ pays \in [Swap -> Recipient \cup {None}]
    /\ order \in [Swap -> Nat \cup {None}]
    /\ orders \in Seq(SomeOrder)
    /\ replies \in [O!Reference -> Nat \cup {None}]

Recalled ==
    \A k \in O!Reference : memory[k] # None =>
        memory[k].amount = k.amount /\ PaidFor(k.amount, memory[k].recipient)

QuoteAsked(s) ==
    /\ quote[s] = None <=> ostage[s] = "new"
    /\ quote[s] # None =>
          AskedFor(s, quote[s].amount) /\ PaidFor(quote[s].amount, quote[s].recipient)

CallFor(c) ==
    /\ AskedFor(c.of, c.amount) /\ PaidFor(c.amount, c.recipient)
    /\ c.ref = RefFor(c.of, c.amount)
    /\ c.kind = "registering" /\ provider = "omnibridge" =>
          c.order \in DOMAIN orders /\ orders[c.order].amount = c.amount

CallOf(s) ==
    call[s] # None =>
        /\ CallFor(call[s]) /\ call[s].of = s /\ call[s].kind = ostage[s]
        /\ call[s].amount = quote[s].amount /\ call[s].order = order[s]

OrderFor(i) ==
    /\ AskedFor(orders[i].of, orders[i].amount)
    /\ PaidFor(orders[i].amount, orders[i].recipient)
    /\ provider = "bridgers" => orders[i].hash = orders[i].of
    /\ honors => replies[RefFor(orders[i].of, orders[i].amount)] # None

RepliesFor ==
    \A k \in O!Reference : replies[k] # None =>
        replies[k] \in DOMAIN orders /\ orders[replies[k]].amount = k.amount

OneOfEach ==
    honors => \A i, j \in DOMAIN orders :
        orders[i].of = orders[j].of /\ orders[i].amount = orders[j].amount => i = j

OrdersGood == (\A i \in DOMAIN orders : OrderFor(i)) /\ RepliesFor /\ OneOfEach

Signed == {"prepared", "registering", "registered"}

Tracks(s) ==
    /\ pays[s] # None => ostage[s] \in Signed /\ PaidFor(quote[s].amount, pays[s])
    /\ order[s] # None => /\ ostage[s] \in Signed /\ order[s] \in DOMAIN orders
                          /\ orders[order[s]].amount = quote[s].amount
    /\ provider = "omnibridge" /\ ostage[s] \in Signed => order[s] # None
    /\ ostage[s] = "registered" =>
          order[s] # None /\ (O!Alone(s) => orders[order[s]].hash = s)

OrderInv ==
    /\ OrderTypes /\ Recalled /\ OrdersGood
    /\ \A c \in late : CallFor(c)
    /\ \A s \in Swap : QuoteAsked(s) /\ CallOf(s) /\ Tracks(s)

LEMMA RefTypes ==
    ASSUME NEW s \in Swap, NEW amount \in Amount
    PROVE  RefFor(s, amount) \in O!Reference /\ RefFor(s, amount).amount = amount
BY DEF RefFor, O!Reference

LEMMA OrdersInit == ASSUME O!OrdersAssumption, O!Init PROVE OrderInv
<1>1. OrderTypes
  BY DEF O!OrdersAssumption, O!Init, OrderTypes
<1>2. Recalled /\ OrdersGood
  BY DEF O!Init, Recalled, OrdersGood, RepliesFor, OneOfEach
<1>3. \A s \in Swap : QuoteAsked(s) /\ CallOf(s) /\ Tracks(s)
  BY DEF O!Init, QuoteAsked, CallOf, Tracks, Signed
<1> QED BY <1>1, <1>2, <1>3 DEF O!Init, OrderInv

\* What is asked stays asked.
LEMMA AsksGrow ==
    ASSUME asked \subseteq asked'
    PROVE  /\ \A who, amount : AskedFor(who, amount) => AskedFor(who, amount)'
           /\ \A amount, recipient : PaidFor(amount, recipient) => PaidFor(amount, recipient)'
BY DEF AskedFor, PaidFor

\* A swap that goes on as it is.
LEMMA SwapStays ==
    ASSUME NEW s \in Swap, asked \subseteq asked', provider' = provider,
           quote'[s] = quote[s], ostage'[s] = ostage[s],
           QuoteAsked(s)
    PROVE  QuoteAsked(s)' /\ (quote[s] # None /\ O!Alone(s)' => O!Alone(s))
BY DEF QuoteAsked, AskedFor, PaidFor, O!Alone

LEMMA CallStays ==
    ASSUME OrderTypes, NEW c \in O!PostCall, CallFor(c), asked \subseteq asked',
           provider' = provider,
           DOMAIN orders \subseteq DOMAIN orders',
           \A i \in DOMAIN orders : orders'[i].amount = orders[i].amount
    PROVE  CallFor(c)'
BY DEF CallFor, AskedFor, PaidFor, RefFor, O!PostCall

\* Quotes and probes.
LEMMA AsksKeep ==
    ASSUME O!OrdersAssumption, OrderInv, NEW s \in Swap, NEW r \in O!Request,
           O!GetQuote(s, r) \/ O!Probe(s, r)
    PROVE  OrderInv'
<1>1. /\ memory' = [memory EXCEPT ![O!Ref(s, r)] = r]
      /\ asked' = asked \cup {[by |-> s, req |-> r]}
      /\ ostage[s] \in {"new", "quoted"}
      /\ \/ quote' = [quote EXCEPT ![s] = r] /\ ostage' = [ostage EXCEPT ![s] = "quoted"]
         \/ UNCHANGED <<quote, ostage>>
      /\ UNCHANGED <<provider, honors, call, late, pays, order, orders, replies>>
  BY DEF O!GetQuote, O!Probe, O!Remember, O!To, O!setting
<1>2. r # None /\ r.amount \in Amount /\ r.recipient \in Recipient
  BY DEF O!OrdersAssumption, O!Request
<1>3. O!Ref(s, r) \in O!Reference /\ O!Ref(s, r).amount = r.amount
  BY <1>2 DEF O!Ref, O!Reference
<1>q. [by |-> s, req |-> r] \in [by : Swap, req : O!Request] /\ [by |-> s, req |-> r] \in asked'
  BY <1>1
<1>4. OrderTypes'
  <2>1. memory' \in [O!Reference -> O!Request \cup {None}]
    BY <1>1, <1>3 DEF OrderInv, OrderTypes
  <2>2. asked' \subseteq [by : Swap, req : O!Request]
    BY <1>1, <1>q DEF OrderInv, OrderTypes
  <2>3. /\ quote' \in [Swap -> O!Request \cup {None}]
        /\ ostage' \in [Swap -> {"new", "quoted", "preparing", "prepared", "registering",
                                "registered"}]
    BY <1>1 DEF OrderInv, OrderTypes
  <2> QED BY <1>1, <2>1, <2>2, <2>3 DEF OrderInv, OrderTypes
<1>5. asked \subseteq asked' /\ AskedFor(s, r.amount)' /\ PaidFor(r.amount, r.recipient)'
  BY <1>1, <1>q DEF AskedFor, PaidFor
<1>6. Recalled'
  <2>1. memory \in [O!Reference -> O!Request \cup {None}]
    BY DEF OrderInv, OrderTypes
  <2>2. \A k \in O!Reference : memory'[k] = IF k = O!Ref(s, r) THEN r ELSE memory[k]
    BY <1>1, <2>1
  <2> QED BY <1>3, <1>5, <2>2, AsksGrow DEF OrderInv, Recalled
<1>7. OrdersGood'
  BY <1>1, <1>5, AsksGrow DEF OrderInv, OrdersGood, OrderFor, RepliesFor, OneOfEach, RefFor
<1>8. \A c \in late' : CallFor(c)'
  BY <1>1, <1>5, CallStays DEF OrderInv, OrderTypes
<1>9. ASSUME NEW t \in Swap PROVE (QuoteAsked(t) /\ CallOf(t) /\ Tracks(t))'
  <2>1. QuoteAsked(t) /\ CallOf(t) /\ Tracks(t) /\ OrderTypes
    BY DEF OrderInv
  <2>2. CASE quote'[t] = quote[t] /\ ostage'[t] = ostage[t]
    <3>1. QuoteAsked(t)' /\ (quote[t] # None /\ O!Alone(t)' => O!Alone(t))
      BY <1>1, <1>5, <2>1, <2>2, SwapStays
    <3>2. CallOf(t)'
      <4>1. call[t] # None => call[t] \in O!PostCall
        BY <2>1 DEF OrderTypes
      <4> QED BY <1>1, <1>5, <2>1, <2>2, <4>1, CallStays DEF CallOf
    <3>3. Tracks(t)'
      BY <1>1, <1>5, <2>1, <2>2, <3>1, AsksGrow DEF Tracks, QuoteAsked, Signed
    <3> QED BY <3>1, <3>2, <3>3
  <2>3. CASE t = s /\ quote'[t] = r /\ ostage'[t] = "quoted"
    <3>1. QuoteAsked(t)'
      BY <1>2, <1>5, <2>3 DEF QuoteAsked
    <3>2. call[t] = None
      <4>1. call[t] # None => call[t].kind \in {"preparing", "registering"}
        BY <2>1 DEF OrderTypes, O!PostCall
      <4> QED BY <1>1, <2>1, <2>3, <4>1 DEF CallOf
    <3>3. pays[t] = None /\ order[t] = None
      BY <1>1, <2>1, <2>3 DEF Tracks, Signed
    <3> QED BY <1>1, <2>3, <3>1, <3>2, <3>3 DEF CallOf, Tracks, Signed
  <2>4. \/ quote'[t] = quote[t] /\ ostage'[t] = ostage[t]
        \/ t = s /\ quote'[t] = r /\ ostage'[t] = "quoted"
    BY <1>1, <2>1 DEF OrderTypes
  <2> QED BY <2>2, <2>3, <2>4
<1> QED BY <1>4, <1>6, <1>7, <1>8, <1>9 DEF OrderInv

\* A POST asks for what the quote says: a quote of the same reference that the
\* provider remembers has the same amount.
LEMMA PostKeeps ==
    ASSUME O!OrdersAssumption, OrderInv, NEW s \in Swap, O!Prepare(s) \/ O!Register(s)
    PROVE  OrderInv'
<1>1. PICK to \in {"preparing", "registering"} :
        /\ \/ ostage[s] = "quoted" /\ to = "preparing"
           \/ ostage[s] = "prepared" /\ to = "registering"
        /\ ostage' = [ostage EXCEPT ![s] = to]
        /\ call' = [call EXCEPT ![s] =
                      [of |-> s, kind |-> to, ref |-> O!Ref(s, quote[s]),
                       amount |-> quote[s].amount, recipient |-> O!Meta(s).recipient,
                       order |-> order[s], tries |-> 1]]
        /\ UNCHANGED <<provider, honors, memory, asked, quote, late, pays, order, orders,
                       replies>>
  BY DEF O!Prepare, O!Register, O!Post, O!To, O!setting
<1>2. OrderTypes /\ QuoteAsked(s) /\ Tracks(s)
  BY DEF OrderInv
<1>3. /\ quote[s] \in O!Request /\ quote[s].amount \in Amount /\ quote[s].recipient \in Recipient
      /\ AskedFor(s, quote[s].amount) /\ PaidFor(quote[s].amount, quote[s].recipient)
  BY <1>1, <1>2 DEF OrderTypes, QuoteAsked, O!Request
<1>4. O!Ref(s, quote[s]) = RefFor(s, quote[s].amount)
  BY DEF O!Ref, RefFor
<1>5. O!Ref(s, quote[s]) \in O!Reference /\ O!Ref(s, quote[s]).amount = quote[s].amount
  BY <1>3, <1>4, RefTypes
<1>6. O!Meta(s).recipient \in Recipient /\ PaidFor(quote[s].amount, O!Meta(s).recipient)
  <2>1. memory[O!Ref(s, quote[s])] \in O!Request \cup {None}
    BY <1>2, <1>5 DEF OrderTypes
  <2>2. memory[O!Ref(s, quote[s])] # None =>
            PaidFor(quote[s].amount, memory[O!Ref(s, quote[s])].recipient)
    BY <1>5 DEF OrderInv, Recalled
  <2> QED BY <1>3, <2>1, <2>2 DEF O!Meta, O!Request
<1>7. PICK post \in O!PostCall :
        /\ call' = [call EXCEPT ![s] = post]
        /\ post.of = s /\ post.kind = to /\ post.ref = RefFor(s, quote[s].amount)
        /\ post.amount = quote[s].amount /\ post.recipient = O!Meta(s).recipient
        /\ post.order = order[s]
  <2> DEFINE new == [of |-> s, kind |-> to, ref |-> O!Ref(s, quote[s]),
                     amount |-> quote[s].amount, recipient |-> O!Meta(s).recipient,
                     order |-> order[s], tries |-> 1]
  <2>1. order[s] \in Nat \cup {None}
    BY <1>2 DEF OrderTypes
  <2>2. new \in O!PostCall
    BY <1>1, <1>3, <1>5, <1>6, <2>1 DEF O!PostCall
  <2>3. /\ new.of = s /\ new.kind = to /\ new.ref = RefFor(s, quote[s].amount)
        /\ new.amount = quote[s].amount /\ new.recipient = O!Meta(s).recipient
        /\ new.order = order[s] /\ call' = [call EXCEPT ![s] = new]
    BY <1>1, <1>4
  <2> HIDE DEF new
  <2> QED BY <2>2, <2>3
<1>9. CallFor(post)
  BY <1>1, <1>2, <1>3, <1>6, <1>7 DEF CallFor, Tracks, Signed
<1>10. OrderTypes'
  BY <1>1, <1>2, <1>7 DEF OrderTypes
<1>11. Recalled' /\ OrdersGood' /\ \A c \in late' : CallFor(c)'
  BY <1>1 DEF OrderInv, Recalled, OrdersGood, OrderFor, RepliesFor, OneOfEach, RefFor,
              CallFor, AskedFor, PaidFor
<1>12. ASSUME NEW t \in Swap PROVE (QuoteAsked(t) /\ CallOf(t) /\ Tracks(t))'
  <2>1. QuoteAsked(t) /\ CallOf(t) /\ Tracks(t)
    BY DEF OrderInv
  <2>2. CASE t # s
    <3>1. ostage'[t] = ostage[t] /\ call'[t] = call[t]
      BY <1>1, <1>2, <1>7, <2>2 DEF OrderTypes
    <3> QED BY <1>1, <2>1, <3>1 DEF QuoteAsked, CallOf, Tracks, CallFor, RefFor, AskedFor,
                                   PaidFor, O!Alone
  <2>3. CASE t = s
    <3>1. ostage'[s] = to /\ call'[s] = post /\ to \in {"preparing", "registering"}
      BY <1>1, <1>2, <1>7 DEF OrderTypes
    <3>2. QuoteAsked(t)'
      BY <1>1, <2>1, <2>3, <3>1 DEF QuoteAsked, AskedFor, PaidFor
    <3>3. CallFor(post)'
      BY <1>1, <1>9 DEF CallFor, RefFor, AskedFor, PaidFor
    <3>4. CallOf(t)'
      BY <1>1, <1>7, <2>3, <3>1, <3>3 DEF CallOf
    <3>5. Tracks(t)'
      BY <1>1, <2>1, <2>3, <3>1 DEF Tracks, Signed, PaidFor
    <3> QED BY <3>2, <3>4, <3>5
  <2> QED BY <2>2, <2>3
<1> QED BY <1>10, <1>11, <1>12 DEF OrderInv

\* An order that is there keeps all but its hash, which a registration at
\* OmniBridge writes.
Preserved(c) ==
    /\ DOMAIN orders \subseteq DOMAIN orders'
    /\ \A i \in DOMAIN orders :
          /\ orders'[i].of = orders[i].of /\ orders'[i].amount = orders[i].amount
          /\ orders'[i].recipient = orders[i].recipient
          /\ \/ orders'[i].hash = orders[i].hash
             \/ orders'[i].hash = c.of /\ c.amount = orders[i].amount

OrdersTyped == orders \in Seq(SomeOrder) /\ replies \in [O!Reference -> Nat \cup {None}]

LEMMA NewOrder ==
    ASSUME O!OrdersAssumption, OrderInv, NEW c \in O!PostCall, CallFor(c), O!Executes(c),
           UNCHANGED <<provider, honors, asked>>, O!Creates(c), ~O!Replayed(c)
    PROVE  /\ OrdersTyped' /\ OrdersGood' /\ Preserved(c)
           /\ O!Answer(c) \in DOMAIN orders' /\ orders'[O!Answer(c)].amount = c.amount
           /\ c.kind = "registering" => orders'[O!Answer(c)].hash = orders'[O!Answer(c)].of
<1> DEFINE n == Len(orders) + 1
<1> DEFINE new == [of |-> c.of, amount |-> c.amount, recipient |-> c.recipient,
                   hash |-> IF c.kind = "registering" THEN c.of ELSE None]
<1>1. orders' = Append(orders, new) /\ replies' = [replies EXCEPT ![c.ref] = Len(orders')]
  BY DEF O!Executes
<1>2. /\ OrderTypes /\ OrdersGood /\ orders \in Seq(SomeOrder)
      /\ replies \in [O!Reference -> Nat \cup {None}] /\ None \notin Nat
  BY DEF OrderInv, OrderTypes, O!OrdersAssumption
<1>3. /\ new \in SomeOrder /\ new.of = c.of /\ new.amount = c.amount
      /\ new.recipient = c.recipient
      /\ provider = "bridgers" \/ c.kind = "registering" => new.hash = c.of
  BY DEF O!PostCall, SomeOrder, O!Creates
<1>4. c.ref \in O!Reference /\ c.ref.amount = c.amount /\ c.ref = RefFor(c.of, c.amount)
  BY RefTypes DEF CallFor, O!PostCall
<1> HIDE DEF new
<1>5. /\ orders' \in Seq(SomeOrder) /\ n \in Nat /\ Len(orders') = n /\ n \notin DOMAIN orders
      /\ DOMAIN orders' = DOMAIN orders \cup {n} /\ orders'[n] = new
      /\ \A i \in DOMAIN orders : orders'[i] = orders[i]
  BY <1>1, <1>2, <1>3
<1> HIDE DEF n
<1>6. \A k \in O!Reference : replies'[k] = IF k = c.ref THEN n ELSE replies[k]
  BY <1>1, <1>2, <1>4, <1>5
<1>7. OrdersTyped'
  BY <1>1, <1>2, <1>4, <1>5 DEF OrdersTyped
<1>8. Preserved(c) /\ O!Answer(c) = n
  BY <1>5 DEF Preserved, O!Answer
<1>9. ASSUME NEW i \in DOMAIN orders' PROVE OrderFor(i)'
  <2>1. CASE i = n
    <3>1. AskedFor(c.of, c.amount)' /\ PaidFor(c.amount, c.recipient)'
      BY DEF CallFor, AskedFor, PaidFor
    <3>2. RefFor(c.of, c.amount)' = c.ref
      BY <1>4 DEF RefFor
    <3>3. orders'[i].of = c.of /\ orders'[i].amount = c.amount /\ orders'[i].recipient = c.recipient
          /\ (provider' = "bridgers" => orders'[i].hash = orders'[i].of)
      BY <1>3, <1>5, <2>1
    <3> QED BY <1>2, <1>4, <1>5, <1>6, <3>1, <3>2, <3>3
         DEF OrderFor, AskedFor, PaidFor, RefFor
  <2>2. CASE i \in DOMAIN orders
    <3>1. OrderFor(i) /\ orders'[i] = orders[i] /\ orders[i].of \in Swap
          /\ orders[i].amount \in Amount
      <4>1. orders[i] \in SomeOrder
        BY <1>2, <2>2
      <4>2. OrderFor(i)
        BY <1>2, <2>2 DEF OrdersGood
      <4> QED BY <1>5, <2>2, <4>1, <4>2 DEF SomeOrder
    <3>2. RefFor(orders[i].of, orders[i].amount) \in O!Reference
      BY <3>1, RefTypes
    <3>3. honors => replies'[RefFor(orders[i].of, orders[i].amount)] # None
      BY <1>2, <1>5, <1>6, <3>1, <3>2 DEF OrderFor
    <3> QED BY <3>1, <3>3 DEF OrderFor, AskedFor, PaidFor, RefFor
  <2> QED BY <1>5, <2>1, <2>2
<1>10. RepliesFor'
  BY <1>2, <1>3, <1>4, <1>5, <1>6 DEF OrdersGood, RepliesFor
<1>11. OneOfEach'
  <2> SUFFICES ASSUME honors, NEW i \in DOMAIN orders', NEW j \in DOMAIN orders',
                      orders'[i].of = orders'[j].of, orders'[i].amount = orders'[j].amount
               PROVE  i = j
    BY DEF OneOfEach
  <2>1. ASSUME NEW e \in DOMAIN orders PROVE orders[e].of # c.of \/ orders[e].amount # c.amount
    BY <1>2, <1>4 DEF OrdersGood, OrderFor, O!Replayed
  <2> QED BY <1>2, <1>3, <1>5, <2>1 DEF OrdersGood, OneOfEach
<1>12. OrdersGood'
  BY <1>9, <1>10, <1>11 DEF OrdersGood
<1> QED BY <1>3, <1>5, <1>7, <1>8, <1>12

LEMMA HashAttached ==
    ASSUME O!OrdersAssumption, OrderInv, NEW c \in O!PostCall, CallFor(c), O!Executes(c),
           UNCHANGED <<provider, honors, asked>>, c.kind = "registering", ~O!Creates(c)
    PROVE  /\ OrdersTyped' /\ OrdersGood' /\ Preserved(c)
           /\ orders'[c.order].hash = c.of
<1>1. /\ orders' = [orders EXCEPT ![c.order].hash = c.of] /\ replies' = replies
      /\ provider = "omnibridge"
  BY DEF O!Executes, O!Creates, OrderInv, OrderTypes
<1>2. c.order \in DOMAIN orders /\ orders[c.order].amount = c.amount /\ c.of \in Swap
  BY <1>1 DEF CallFor, O!PostCall
<1>3. OrderTypes /\ OrdersGood /\ orders \in Seq(SomeOrder)
  BY DEF OrderInv, OrderTypes
<1> DEFINE new == [orders[c.order] EXCEPT !.hash = c.of]
<1>4. /\ orders[c.order] \in SomeOrder
      /\ orders' = [orders EXCEPT ![c.order] = new]
  BY <1>1, <1>2, <1>3
<1>5. /\ new \in SomeOrder /\ new.hash = c.of /\ new.of = orders[c.order].of
      /\ new.amount = orders[c.order].amount /\ new.recipient = orders[c.order].recipient
  BY <1>2, <1>4 DEF SomeOrder
<1> HIDE DEF new
<1>6. /\ orders' \in Seq(SomeOrder) /\ DOMAIN orders' = DOMAIN orders
      /\ \A i \in DOMAIN orders : orders'[i] = IF i = c.order THEN new ELSE orders[i]
  BY <1>2, <1>3, <1>4, <1>5
<1>7. Preserved(c) /\ OrdersTyped'
  BY <1>1, <1>2, <1>3, <1>5, <1>6 DEF Preserved, OrdersTyped, OrderTypes
<1>8. \A i \in DOMAIN orders :
          /\ orders'[i].of = orders[i].of /\ orders'[i].amount = orders[i].amount
          /\ orders'[i].recipient = orders[i].recipient
  BY <1>7 DEF Preserved
<1>9. \A i \in DOMAIN orders' : OrderFor(i)'
  BY <1>1, <1>3, <1>6, <1>8 DEF OrdersGood, OrderFor, AskedFor, PaidFor, RefFor
<1>10. RepliesFor' /\ OneOfEach'
  BY <1>1, <1>3, <1>6, <1>8 DEF OrdersGood, RepliesFor, OneOfEach
<1>11. OrdersGood'
  BY <1>9, <1>10 DEF OrdersGood
<1> QED BY <1>2, <1>5, <1>6, <1>7, <1>11

\* A request that the provider executes, for the first time or again.
LEMMA ExecutesKeeps ==
    ASSUME O!OrdersAssumption, OrderInv, NEW c \in O!PostCall, CallFor(c), O!Executes(c),
           UNCHANGED <<provider, honors, asked>>
    PROVE  /\ OrdersTyped' /\ OrdersGood' /\ Preserved(c)
           /\ O!Creates(c) =>
                O!Answer(c) \in DOMAIN orders' /\ orders'[O!Answer(c)].amount = c.amount
           /\ c.kind = "registering" =>
                IF O!Creates(c) THEN orders'[O!Answer(c)].hash = orders'[O!Answer(c)].of
                ELSE orders'[c.order].hash = c.of
<1>1. CASE O!Creates(c) /\ ~O!Replayed(c)
  BY <1>1, NewOrder
<1>2. CASE c.kind = "registering" /\ ~O!Creates(c)
  BY <1>2, HashAttached
<1>3. CASE (O!Creates(c) /\ O!Replayed(c)) \/ (~O!Creates(c) /\ c.kind # "registering")
  <2>1. UNCHANGED <<orders, replies>>
    BY <1>3 DEF O!Executes
  <2>2. OrdersTyped' /\ OrdersGood' /\ Preserved(c)
    BY <2>1 DEF OrderInv, OrderTypes, OrdersTyped, OrdersGood, OrderFor, RepliesFor, OneOfEach,
                Preserved, AskedFor, PaidFor, RefFor
  <2>3. CASE O!Creates(c)
    <3>1. c.ref \in O!Reference /\ c.ref.amount = c.amount
      BY RefTypes DEF CallFor, O!PostCall
    <3>2. O!Answer(c) \in DOMAIN orders' /\ orders'[O!Answer(c)].amount = c.amount
      BY <1>3, <2>1, <2>3, <3>1 DEF O!Replayed, O!Answer, OrderInv, OrdersGood, RepliesFor
    <3>3. c.kind = "registering" => provider = "bridgers"
      BY <2>3 DEF O!Creates, OrderInv, OrderTypes
    <3>4. c.kind = "registering" => orders'[O!Answer(c)].hash = orders'[O!Answer(c)].of
      BY <2>1, <3>2, <3>3 DEF OrderInv, OrdersGood, OrderFor
    <3> QED BY <2>2, <2>3, <3>2, <3>4
  <2> QED BY <1>3, <2>2, <2>3
<1> QED BY <1>1, <1>2, <1>3

\* What the orders of others and of earlier calls go through in a step.
OrdersGoOn ==
    /\ OrdersTyped' /\ OrdersGood' /\ DOMAIN orders \subseteq DOMAIN orders'
    /\ \A i \in DOMAIN orders :
          /\ orders'[i].of = orders[i].of /\ orders'[i].amount = orders[i].amount
          /\ orders'[i].recipient = orders[i].recipient
          /\ \/ orders'[i].hash = orders[i].hash
             \/ AskedFor(orders'[i].hash, orders[i].amount)

LEMMA ExecutingGoesOn ==
    ASSUME O!OrdersAssumption, OrderInv, NEW c \in O!PostCall, CallFor(c), O!Executes(c),
           UNCHANGED <<provider, honors, asked>>
    PROVE  OrdersGoOn
<1>1. OrdersTyped' /\ OrdersGood' /\ Preserved(c)
  BY ExecutesKeeps
<1>2. AskedFor(c.of, c.amount)
  BY DEF CallFor
<1> QED BY <1>1, <1>2 DEF Preserved, OrdersGoOn

LEMMA LeavingGoesOn ==
    ASSUME OrderInv, UNCHANGED <<provider, honors, asked, orders, replies>>
    PROVE  OrdersGoOn
BY DEF OrderInv, OrderTypes, OrdersTyped, OrdersGood, OrderFor, RepliesFor, OneOfEach,
       OrdersGoOn, AskedFor, PaidFor, RefFor

LEMMA AloneAsks ==
    ASSUME NEW s \in Swap, O!Alone(s)
    PROVE  /\ \A who : AskedFor(who, quote[s].amount) => who = s
           /\ \A recipient : PaidFor(quote[s].amount, recipient) =>
                  recipient = quote[s].recipient
BY DEF O!Alone, AskedFor, PaidFor

SameCall(c, d) ==
    /\ c.of = d.of /\ c.kind = d.kind /\ c.ref = d.ref /\ c.amount = d.amount
    /\ c.recipient = d.recipient /\ c.order = d.order

\* A swap whose call ends with nothing, goes on, or that has none.
SwapGoesOn(s) ==
    \/ /\ ostage'[s] = ostage[s]
       /\ call'[s] # None => call[s] # None /\ SameCall(call'[s], call[s])
    \/ /\ call'[s] = None
       /\ \/ ostage[s] = "preparing" /\ ostage'[s] = "quoted"
          \/ ostage[s] = "registering" /\ ostage'[s] = "prepared"

LEMMA GoodCallStays ==
    ASSUME OrderInv, OrdersGoOn, UNCHANGED <<provider, asked>>, NEW c, NEW d, CallFor(d),
           SameCall(c, d)
    PROVE  CallFor(c)'
BY DEF CallFor, SameCall, OrdersGoOn, AskedFor, PaidFor, RefFor

LEMMA SwapKeeps ==
    ASSUME OrderInv, OrdersGoOn, UNCHANGED <<provider, honors, asked, quote>>,
           NEW s \in Swap, pays'[s] = pays[s], order'[s] = order[s], SwapGoesOn(s)
    PROVE  (QuoteAsked(s) /\ CallOf(s) /\ Tracks(s))'
<1>1. QuoteAsked(s) /\ CallOf(s) /\ Tracks(s)
  BY DEF OrderInv
<1>2. QuoteAsked(s)'
  BY <1>1 DEF QuoteAsked, SwapGoesOn, AskedFor, PaidFor
<1>3. CallOf(s)'
  <2> SUFFICES ASSUME call'[s] # None PROVE CallOf(s)'
    BY DEF CallOf
  <2>1. call[s] # None /\ SameCall(call'[s], call[s]) /\ ostage'[s] = ostage[s]
    BY DEF SwapGoesOn
  <2>2. CallFor(call[s])
    BY <1>1, <2>1 DEF CallOf
  <2>3. CallFor(call[s])'
    BY <2>1, <2>2 DEF CallFor, SameCall, OrdersGoOn, AskedFor, PaidFor, RefFor
  <2> QED BY <1>1, <2>1, <2>3 DEF CallOf, SameCall
<1>4. Tracks(s)'
  <2>1. order[s] # None => /\ order[s] \in DOMAIN orders'
                           /\ orders'[order[s]].amount = quote[s].amount
    BY <1>1 DEF Tracks, OrdersGoOn
  <2>2. ostage[s] = "registered" /\ O!Alone(s) => orders'[order[s]].hash = s
    BY <1>1, AloneAsks DEF Tracks, OrdersGoOn
  <2>3. O!Alone(s)' => O!Alone(s)
    BY DEF O!Alone
  <2> QED BY <1>1, <2>1, <2>2, <2>3 DEF Tracks, SwapGoesOn, Signed, PaidFor
<1> QED BY <1>2, <1>3, <1>4

\* The steps that end no call with an answer.
LEMMA GoingOnKeeps ==
    ASSUME O!OrdersAssumption, OrderInv, OrdersGoOn,
           UNCHANGED <<provider, honors, asked, quote, pays, order>>,
           memory' = memory \/ memory' = [k \in O!Reference |-> None],
           ostage' \in [Swap -> {"new", "quoted", "preparing", "prepared", "registering",
                                 "registered"}],
           call' \in [Swap -> O!PostCall \cup {None}],
           \A c \in late' : c \in O!PostCall /\ \E d : CallFor(d) /\ SameCall(c, d),
           \A s \in Swap : SwapGoesOn(s)
    PROVE  OrderInv'
<1>1. memory' \in [O!Reference -> O!Request \cup {None}] /\ OrderTypes
  BY DEF OrderInv, OrderTypes
<1>2. OrderTypes'
  BY <1>1 DEF OrderTypes, OrdersGoOn, OrdersTyped
<1>3. Recalled'
  BY DEF OrderInv, Recalled, PaidFor
<1>4. OrdersGood'
  BY DEF OrdersGoOn
<1>5. \A c \in late' : CallFor(c)'
  <2> SUFFICES ASSUME NEW c \in late' PROVE CallFor(c)'
    OBVIOUS
  <2>1. PICK d : CallFor(d) /\ SameCall(c, d)
    OBVIOUS
  <2> QED BY <2>1, GoodCallStays
<1>6. \A s \in Swap : (QuoteAsked(s) /\ CallOf(s) /\ Tracks(s))'
  BY SwapKeeps
<1> QED BY <1>2, <1>3, <1>4, <1>5, <1>6 DEF OrderInv

\* A call that fails is tried again or leaves the session where it was.
LEMMA AgainGoesOn ==
    ASSUME OrderInv, NEW s \in Swap, call[s] # None, O!Again(s) \/ O!Fails(s)
    PROVE  /\ ostage' \in [Swap -> {"new", "quoted", "preparing", "prepared", "registering",
                                    "registered"}]
           /\ call' \in [Swap -> O!PostCall \cup {None}]
           /\ \A t \in Swap : SwapGoesOn(t)
<1>1. OrderTypes /\ CallOf(s) /\ call[s] \in O!PostCall
  BY DEF OrderInv, OrderTypes
<1>2. CASE O!Fails(s)
  <2>1. /\ call' = [call EXCEPT ![s] = None]
        /\ ostage' = [ostage EXCEPT ![s] = IF call[s].kind = "preparing" THEN "quoted"
                                           ELSE "prepared"]
    BY <1>2 DEF O!Fails, O!To, O!Undone
  <2>2. call[s].kind = ostage[s] /\ call[s].kind \in {"preparing", "registering"}
    BY <1>1 DEF CallOf, O!PostCall
  <2> QED BY <1>1, <2>1, <2>2 DEF OrderTypes, SwapGoesOn, SameCall
<1>3. CASE call' = [call EXCEPT ![s].tries = @ + 1] /\ UNCHANGED ostage
  <2> DEFINE new == [call[s] EXCEPT !.tries = @ + 1]
  <2>1. new \in O!PostCall /\ SameCall(new, call[s])
    BY <1>1 DEF O!PostCall, SameCall
  <2>2. call' = [call EXCEPT ![s] = new]
    BY <1>1, <1>3 DEF OrderTypes
  <2> HIDE DEF new
  <2> QED BY <1>1, <1>3, <2>1, <2>2 DEF OrderTypes, SwapGoesOn, SameCall
<1> QED BY <1>2, <1>3 DEF O!Again

LEMMA LostKeeps ==
    ASSUME O!OrdersAssumption, OrderInv, NEW s \in Swap,
           O!AnswerLost(s) \/ O!RequestLost(s) \/ O!Rejected(s)
    PROVE  OrderInv'
<1>1. /\ call[s] # None /\ (O!Again(s) \/ O!Fails(s))
      /\ UNCHANGED <<provider, honors, memory, asked, quote, pays, order>>
      /\ O!Executes(call[s]) \/ UNCHANGED <<orders, replies>>
      /\ late' = late \/ late' = late \cup {[call[s] EXCEPT !.tries = 1]}
  BY DEF O!AnswerLost, O!RequestLost, O!Rejected, O!setting
<1>2. call[s] \in O!PostCall /\ CallFor(call[s])
  BY <1>1 DEF OrderInv, OrderTypes, CallOf
<1>3. OrdersGoOn
  BY <1>1, <1>2, ExecutingGoesOn, LeavingGoesOn
<1>4. [call[s] EXCEPT !.tries = 1] \in O!PostCall /\ SameCall([call[s] EXCEPT !.tries = 1], call[s])
  BY <1>2 DEF O!PostCall, SameCall
<1>5. \A c \in late' : c \in O!PostCall /\ \E d : CallFor(d) /\ SameCall(c, d)
  BY <1>1, <1>2, <1>4 DEF OrderInv, OrderTypes, SameCall
<1> QED BY <1>1, <1>3, <1>5, AgainGoesOn, GoingOnKeeps

LEMMA LateKeeps ==
    ASSUME O!OrdersAssumption, OrderInv, NEW c \in late, O!ExecutedLate(c)
    PROVE  OrderInv'
<1>1. /\ c \in O!PostCall /\ CallFor(c) /\ O!Executes(c) /\ late' \subseteq late
      /\ UNCHANGED <<provider, honors, memory, asked, quote, ostage, call, pays, order>>
  BY DEF O!ExecutedLate, O!setting, OrderInv, OrderTypes
<1>2. OrdersGoOn
  BY <1>1, ExecutingGoesOn
<1>3. \A e \in late' : e \in O!PostCall /\ \E d : CallFor(d) /\ SameCall(e, d)
  BY <1>1 DEF OrderInv, OrderTypes, SameCall
<1>4. \A s \in Swap : SwapGoesOn(s)
  BY <1>1 DEF SwapGoesOn, SameCall
<1> QED BY <1>1, <1>2, <1>3, <1>4, GoingOnKeeps DEF OrderInv, OrderTypes

LEMMA RestartKeeps ==
    ASSUME O!OrdersAssumption, OrderInv, O!Restart
    PROVE  OrderInv'
<1>1. /\ memory' = [k \in O!Reference |-> None] /\ call' = [s \in Swap |-> None]
      /\ ostage' = [s \in Swap |-> IF call[s] = None THEN ostage[s] ELSE O!Undone(s)]
      /\ UNCHANGED <<provider, honors, asked, quote, late, pays, order, orders, replies>>
  BY DEF O!Restart, O!setting
<1>2. OrdersGoOn
  BY <1>1, LeavingGoesOn
<1>3. ASSUME NEW s \in Swap, call[s] # None
      PROVE  \/ ostage[s] = "preparing" /\ O!Undone(s) = "quoted"
             \/ ostage[s] = "registering" /\ O!Undone(s) = "prepared"
  BY <1>3 DEF OrderInv, OrderTypes, CallOf, O!PostCall, O!Undone
<1>4. \A s \in Swap : SwapGoesOn(s)
  <2> TAKE s \in Swap
  <2>1. call'[s] = None /\ ostage'[s] = IF call[s] = None THEN ostage[s] ELSE O!Undone(s)
    BY <1>1
  <2> QED BY <1>3, <2>1 DEF SwapGoesOn
<1>5. \A e \in late' : e \in O!PostCall /\ \E d : CallFor(d) /\ SameCall(e, d)
  BY <1>1 DEF OrderInv, OrderTypes, SameCall
<1>6. /\ ostage' \in [Swap -> {"new", "quoted", "preparing", "prepared", "registering",
                               "registered"}]
      /\ call' \in [Swap -> O!PostCall \cup {None}]
  BY <1>1, <1>3 DEF OrderInv, OrderTypes
<1> QED BY <1>1, <1>2, <1>4, <1>5, <1>6, GoingOnKeeps

\* The answer of a call: the order it stands for, and whom what is signed pays.
LEMMA AnswerKeeps ==
    ASSUME O!OrdersAssumption, OrderInv, NEW s \in Swap, O!Answered(s)
    PROVE  OrderInv'
<1>1. PICK post \in O!PostCall :
        /\ post = call[s] /\ O!Executes(post) /\ CallFor(post) /\ post.of = s
        /\ post.kind = ostage[s] /\ post.amount = quote[s].amount /\ post.order = order[s]
  BY DEF O!Answered, OrderInv, OrderTypes, CallOf
<1>2. /\ UNCHANGED <<provider, honors, memory, asked, quote, late>>
      /\ call' = [call EXCEPT ![s] = None]
      /\ ostage' = [ostage EXCEPT ![s] = IF post.kind = "preparing" THEN "prepared"
                                         ELSE "registered"]
      /\ order' = IF O!Creates(post) THEN [order EXCEPT ![s] = O!Answer(post)] ELSE order
      /\ pays' = IF post.kind # "preparing" THEN pays
                 ELSE [pays EXCEPT ![s] = IF O!Creates(post) THEN orders'[O!Answer(post)].recipient
                                          ELSE post.recipient]
  BY <1>1 DEF O!Answered, O!To, O!setting
<1>3. /\ OrdersGoOn /\ OrderTypes /\ QuoteAsked(s) /\ Tracks(s) /\ None \notin Nat
      /\ post.kind \in {"preparing", "registering"} /\ post.amount \in Amount
  BY <1>1, <1>2, ExecutingGoesOn DEF OrderInv, O!OrdersAssumption, O!PostCall
<1>4. /\ O!Creates(post) =>
           O!Answer(post) \in DOMAIN orders' /\ orders'[O!Answer(post)].amount = post.amount
      /\ post.kind = "registering" =>
                IF O!Creates(post) THEN orders'[O!Answer(post)].hash = orders'[O!Answer(post)].of
                ELSE orders'[post.order].hash = post.of
  BY <1>1, <1>2, ExecutesKeeps
<1> DEFINE reply == O!Answer(post)
<1> HIDE DEF reply
<1>5. OrdersTyped' /\ OrdersGood'
  BY <1>3 DEF OrdersGoOn
<1>6. O!Creates(post) =>
        /\ reply \in Nat /\ reply \in DOMAIN orders' /\ orders'[reply] \in SomeOrder
        /\ orders'[reply].amount = post.amount
        /\ PaidFor(post.amount, orders'[reply].recipient)
        /\ AskedFor(orders'[reply].of, post.amount)
  <2>1. O!Creates(post) => reply \in DOMAIN orders' /\ orders'[reply].amount = post.amount
    BY <1>4 DEF reply
  <2>2. orders' \in Seq(SomeOrder)
    BY <1>5 DEF OrdersTyped
  <2>3. reply \in DOMAIN orders' =>
            /\ PaidFor(orders'[reply].amount, orders'[reply].recipient)
            /\ AskedFor(orders'[reply].of, orders'[reply].amount)
    BY <1>2, <1>5 DEF OrdersGood, OrderFor, PaidFor, AskedFor
  <2> QED BY <2>1, <2>2, <2>3
<1> DEFINE payee == IF O!Creates(post) THEN orders'[reply].recipient ELSE post.recipient
<1>7. payee \in Recipient /\ PaidFor(post.amount, payee)
  BY <1>1, <1>6 DEF SomeOrder, CallFor, O!PostCall
<1>8. pays' = IF post.kind # "preparing" THEN pays ELSE [pays EXCEPT ![s] = payee]
  BY <1>2 DEF reply
<1>9. order' = IF O!Creates(post) THEN [order EXCEPT ![s] = reply] ELSE order
  BY <1>2 DEF reply
<1> HIDE DEF payee
<1>10. OrderTypes'
  <2>1. pays' \in [Swap -> Recipient \cup {None}]
    BY <1>3, <1>7, <1>8 DEF OrderTypes
  <2>2. order' \in [Swap -> Nat \cup {None}]
    BY <1>3, <1>6, <1>9 DEF OrderTypes
  <2>3. call' \in [Swap -> O!PostCall \cup {None}]
    BY <1>2, <1>3 DEF OrderTypes
  <2>4. ostage' \in [Swap -> {"new", "quoted", "preparing", "prepared", "registering",
                              "registered"}]
    BY <1>2, <1>3 DEF OrderTypes
  <2> QED BY <1>2, <1>3, <1>5, <2>1, <2>2, <2>3, <2>4 DEF OrderTypes, OrdersTyped
<1>11. Recalled' /\ \A c \in late' : CallFor(c)'
  <2>1. Recalled'
    BY <1>2 DEF OrderInv, Recalled, PaidFor
  <2> QED BY <1>2, <1>3, <2>1 DEF OrderInv, CallFor, OrdersGoOn, AskedFor, PaidFor, RefFor
<1>12. ASSUME NEW t \in Swap PROVE (QuoteAsked(t) /\ CallOf(t) /\ Tracks(t))'
  <2>1. CASE t # s
    <3>1. ostage'[t] = ostage[t] /\ call'[t] = call[t] /\ pays'[t] = pays[t] /\ order'[t] = order[t]
      BY <1>2, <1>3, <1>8, <1>9, <2>1 DEF OrderTypes
    <3> QED BY <1>2, <1>3, <3>1, SwapKeeps DEF SwapGoesOn, SameCall
  <2>2. CASE t = s
    <3>1. call'[s] = None
      BY <1>2, <1>3 DEF OrderTypes
    <3>2. CallOf(t)'
      BY <2>2, <3>1 DEF CallOf
    <3>3. /\ post.kind = "preparing" => ostage'[s] = "prepared"
          /\ post.kind = "registering" => ostage'[s] = "registered"
      BY <1>2, <1>3 DEF OrderTypes
    <3>4. QuoteAsked(t)'
      BY <1>1, <1>2, <1>3, <2>2, <3>3 DEF QuoteAsked, AskedFor, PaidFor
    <3>5. pays'[s] # None => PaidFor(quote[s].amount, pays'[s])
      BY <1>1, <1>3, <1>7, <1>8 DEF Tracks, OrderTypes
    <3>6. order'[s] # None => /\ order'[s] \in DOMAIN orders'
                              /\ orders'[order'[s]].amount = quote[s].amount
      BY <1>1, <1>3, <1>6, <1>9 DEF Tracks, OrderTypes, OrdersGoOn
    <3>7. /\ O!Creates(post) => order'[s] = reply /\ order'[s] # None
          /\ ~O!Creates(post) => order'[s] = order[s]
      BY <1>3, <1>6, <1>9 DEF OrderTypes
    <3>8. provider = "omnibridge" => order'[s] # None
      BY <1>1, <1>3, <3>7 DEF O!Creates, Tracks, Signed
    <3>9. post.kind = "registering" => order'[s] # None
      BY <1>3, <3>7, <3>8 DEF O!Creates, OrderTypes
    <3>10. post.kind = "registering" /\ O!Alone(s) => orders'[order'[s]].hash = s
      BY <1>1, <1>4, <1>6, <3>7, AloneAsks DEF reply
    <3>11. O!Alone(s)' => O!Alone(s)
      BY <1>2 DEF O!Alone
    <3>12. Tracks(t)'
      BY <1>2, <1>3, <2>2, <3>3, <3>5, <3>6, <3>8, <3>9, <3>10, <3>11
         DEF Tracks, Signed, PaidFor
    <3> QED BY <3>2, <3>4, <3>12
  <2> QED BY <2>1, <2>2
<1> QED BY <1>5, <1>10, <1>11, <1>12 DEF OrderInv

LEMMA OrdersStep ==
    ASSUME O!OrdersAssumption, OrderInv, [O!Next]_(O!vars) PROVE OrderInv'
<1>1. CASE \E s \in Swap, r \in O!Request : O!GetQuote(s, r) \/ O!Probe(s, r)
  BY <1>1, AsksKeep
<1>2. CASE \E s \in Swap : O!Prepare(s) \/ O!Register(s)
  BY <1>2, PostKeeps
<1>3. CASE \E s \in Swap : O!Answered(s) \/ O!AnswerLost(s) \/ O!RequestLost(s) \/ O!Rejected(s)
  BY <1>3, AnswerKeeps, LostKeeps
<1>4. CASE \E c \in late : O!ExecutedLate(c)
  BY <1>4, LateKeeps
<1>5. CASE O!Restart
  BY <1>5, RestartKeeps
<1>6. CASE UNCHANGED O!vars
  <2>1. UNCHANGED <<provider, honors, memory, asked, quote, ostage, call, late, pays, order,
                    orders, replies>>
    BY <1>6 DEF O!vars
  <2>2. OrdersGoOn
    BY <2>1, LeavingGoesOn
  <2>3. \A s \in Swap : SwapGoesOn(s)
    BY <2>1 DEF SwapGoesOn, SameCall
  <2>4. \A c \in late' : c \in O!PostCall /\ \E d : CallFor(d) /\ SameCall(c, d)
    BY <2>1 DEF OrderInv, OrderTypes, SameCall
  <2> QED BY <2>1, <2>2, <2>3, <2>4, GoingOnKeeps DEF OrderInv, OrderTypes
<1> QED BY <1>1, <1>2, <1>3, <1>4, <1>5, <1>6 DEF O!Next

LEMMA OneAtMost ==
    ASSUME NEW K, \A i, j \in K : i = j PROVE O!Cardinality(K) <= 1
<1>c. O!Cardinality(K) = Cardinality(K)
  BY DEF O!Cardinality, Cardinality
<1>1. CASE K = {}
  BY <1>1, <1>c, FS_EmptySet
<1>2. CASE K # {}
  <2>1. PICK i : i \in K
    BY <1>2
  <2>2. K = {i}
    BY <2>1
  <2>3. Cardinality({i}) = 1
    BY FS_Singleton
  <2> QED BY <1>c, <2>2, <2>3
<1> QED BY <1>1, <1>2

LEMMA OrderIsOwn == ASSUME OrderInv PROVE O!OwnOrder
<1> SUFFICES ASSUME NEW s \in Swap, quote[s] # None, O!Alone(s)
             PROVE  /\ pays[s] # None => pays[s] = quote[s].recipient
                    /\ order[s] # None => /\ orders[order[s]].of = s
                                          /\ orders[order[s]].recipient = quote[s].recipient
                    /\ ostage[s] = "registered" => orders[order[s]].hash = s
                    /\ honors => O!Cardinality({i \in DOMAIN orders :
                         <<orders[i].of, orders[i].amount>> = <<s, quote[s].amount>>}) <= 1
  BY DEF O!OwnOrder
<1>1. Tracks(s) /\ OrdersGood
  BY DEF OrderInv
<1>2. pays[s] # None => pays[s] = quote[s].recipient
  BY <1>1, AloneAsks DEF Tracks
<1>3. order[s] # None => /\ orders[order[s]].of = s
                        /\ orders[order[s]].recipient = quote[s].recipient
  BY <1>1, AloneAsks DEF Tracks, OrdersGood, OrderFor
<1>4. honors => O!Cardinality({i \in DOMAIN orders :
                         <<orders[i].of, orders[i].amount>> = <<s, quote[s].amount>>}) <= 1
  BY <1>1, OneAtMost DEF OrdersGood, OneOfEach
<1> QED BY <1>1, <1>2, <1>3, <1>4 DEF Tracks

\* A swap that is alone with its amount pays its recipient and tracks an order
\* of its own, whatever is lost, repeated, late or restarted.
THEOREM OrdersAreOwn ==
    ASSUME O!OrdersAssumption PROVE O!Spec => []O!OwnOrder
<1>1. O!Init => OrderInv
  BY OrdersInit
<1>2. OrderInv /\ [O!Next]_(O!vars) => OrderInv'
  BY OrdersStep
<1>3. OrderInv => O!OwnOrder
  BY OrderIsOwn
<1> QED BY <1>1, <1>2, <1>3, PTL DEF O!Spec

\* The same of the worlds of Turns.
THEOREM TurnsOwnOrders ==
    ASSUME O!OrdersAssumption PROVE TurnsSpec => []OwnOrder
<1>1. TurnsInit => O!Init
  BY DEF TurnsInit
<1>2. [TurnsNext]_allVars => [O!Next]_(O!vars)
  BY DEF TurnsNext, allVars, orderVars, O!vars
<1>3. O!Spec => []O!OwnOrder
  BY OrdersAreOwn
<1>4. O!OwnOrder => OwnOrder
  BY DEF OwnOrder
<1> QED BY <1>1, <1>2, <1>3, <1>4, PTL DEF TurnsSpec, O!Spec

(***************************************************************************)
(* The catalogs' cache.  As long as the lock of a key is not dropped, who  *)
(* waits or loads for the key has its lock, and who loads holds it.        *)
(***************************************************************************)
CacheTypes ==
    /\ entries \in Seq(Key) /\ Len(entries) <= MaxEntries
    /\ stale \subseteq Key /\ dropped \subseteq Key
    /\ lockOf \in [Key -> Caller \cup {None}]
    /\ holder \in [Caller -> Caller \cup {None}]
    /\ waitsFor \in [Caller -> Caller \cup {None}]
    /\ at \in [Caller -> {"new", "waiting", "loading", "answered", "raised"}]

\* A lock has the name of a caller that has called.
Unnamed(c) ==
    at[c] = "new" => /\ holder[c] = None
                     /\ \A e \in Caller : waitsFor[e] # c
                     /\ \A k \in Key : lockOf[k] # c

Locked(c) ==
    /\ at[c] \in {"waiting", "loading"} =>
          /\ waitsFor[c] # None
          /\ KeyOf[c] \notin dropped => waitsFor[c] = lockOf[KeyOf[c]]
    /\ at[c] = "loading" =>
          /\ holder[waitsFor[c]] = c
          /\ KeyOf[c] \notin dropped => ~C!Fresh(KeyOf[c])

CacheInv == CacheTypes /\ \A c \in Caller : Unnamed(c) /\ Locked(c)

LEMMA CacheInit == ASSUME C!CacheAssumption, C!Init PROVE CacheInv
<1>1. CacheTypes
  BY DEF C!CacheAssumption, C!Init, CacheTypes
<1>2. \A c \in Caller : Unnamed(c) /\ Locked(c)
  BY DEF C!CacheAssumption, C!Init, Unnamed, Locked
<1> QED BY <1>1, <1>2 DEF CacheInv

LEMMA AloneLoads ==
    ASSUME CacheInv, NEW c \in Caller, NEW e \in Caller, at[c] = "loading", at[e] = "loading",
           KeyOf[e] = KeyOf[c], KeyOf[c] \notin dropped
    PROVE  e = c
BY DEF CacheInv, Locked

LEMMA CallKeeps ==
    ASSUME C!CacheAssumption, CacheInv, NEW c \in Caller, C!Call(c) PROVE CacheInv'
<1> DEFINE l == C!LockFor(c)
<1>1. /\ CacheTypes /\ KeyOf[c] \in Key /\ None \notin Caller /\ at[c] = "new"
      /\ UNCHANGED <<entries, stale, dropped>> /\ Unnamed(c)
  BY DEF C!CacheAssumption, CacheInv, C!Call
<1>2. CASE C!Fresh(KeyOf[c])
  <2>1. at' = [at EXCEPT ![c] = "answered"] /\ UNCHANGED <<lockOf, holder, waitsFor>>
    BY <1>2 DEF C!Call, C!Go
  <2>2. CacheTypes'
    BY <1>1, <2>1 DEF CacheTypes
  <2>3. \A e \in Caller : Unnamed(e)' /\ Locked(e)'
    BY <1>1, <2>1 DEF CacheInv, CacheTypes, Unnamed, Locked, C!Fresh
  <2> QED BY <2>2, <2>3 DEF CacheInv
<1>3. CASE ~C!Fresh(KeyOf[c])
  <2>1. /\ lockOf' = [lockOf EXCEPT ![KeyOf[c]] = l]
        /\ waitsFor' = [waitsFor EXCEPT ![c] = l]
        /\ \/ /\ holder[l] = None /\ at' = [at EXCEPT ![c] = "loading"]
              /\ holder' = [holder EXCEPT ![l] = c]
           \/ holder[l] # None /\ at' = [at EXCEPT ![c] = "waiting"] /\ holder' = holder
    BY <1>3 DEF C!Call, C!Go
  <2>2. /\ l \in Caller /\ l # None
        /\ lockOf[KeyOf[c]] # None => l = lockOf[KeyOf[c]]
        /\ lockOf[KeyOf[c]] = None => l = c
    BY <1>1 DEF C!LockFor, CacheTypes
  <2> HIDE DEF l
  <2>3. CacheTypes'
    BY <1>1, <2>1, <2>2 DEF CacheTypes
  <2>4. ASSUME NEW e \in Caller PROVE Unnamed(e)'
    <3> SUFFICES ASSUME at'[e] = "new"
                 PROVE  /\ holder'[e] = None /\ \A d \in Caller : waitsFor'[d] # e
                        /\ \A k \in Key : lockOf'[k] # e
      BY DEF Unnamed
    <3>1. e # c /\ at[e] = "new"
      BY <1>1, <2>1 DEF CacheTypes
    <3>2. holder[e] = None /\ (\A d \in Caller : waitsFor[d] # e) /\ \A k \in Key : lockOf[k] # e
      BY <3>1 DEF CacheInv, Unnamed
    <3>3. l # e
      BY <1>1, <2>2, <3>1, <3>2
    <3> QED BY <1>1, <2>1, <2>2, <3>1, <3>2, <3>3 DEF CacheTypes
  <2>5. ASSUME NEW e \in Caller PROVE Locked(e)'
    <3>1. CASE e = c
      <4>1. waitsFor'[e] = l /\ lockOf'[KeyOf[e]] = l
        BY <1>1, <2>1, <2>2, <3>1 DEF CacheTypes
      <4>2. at'[e] = "loading" => holder'[l] = e
        BY <1>1, <2>1, <2>2, <3>1 DEF CacheTypes
      <4>3. C!Fresh(KeyOf[e])' = C!Fresh(KeyOf[e])
        BY <1>1 DEF C!Fresh
      <4> QED BY <1>3, <2>2, <3>1, <4>1, <4>2, <4>3 DEF Locked
    <3>2. CASE e # c
      <4>1. at'[e] = at[e] /\ waitsFor'[e] = waitsFor[e] /\ Locked(e)
        BY <1>1, <2>1, <3>2 DEF CacheTypes, CacheInv
      <4>2. C!Fresh(KeyOf[e])' = C!Fresh(KeyOf[e]) /\ dropped' = dropped
        BY <1>1 DEF C!Fresh
      <4>3. at[e] = "loading" => holder'[waitsFor[e]] = e
        <5> SUFFICES ASSUME at[e] = "loading" PROVE holder'[waitsFor[e]] = e
          OBVIOUS
        <5>1. holder[waitsFor[e]] = e /\ waitsFor[e] \in Caller
          BY <1>1, <4>1 DEF Locked, CacheTypes
        <5>2. e # None
          BY <1>1
        <5> QED BY <1>1, <2>1, <2>2, <5>1, <5>2 DEF CacheTypes
      <4>4. at[e] \in {"waiting", "loading"} /\ KeyOf[e] \notin dropped =>
               waitsFor[e] = lockOf'[KeyOf[e]]
        <5>1. KeyOf[e] \in Key
          BY DEF C!CacheAssumption
        <5> QED BY <1>1, <2>1, <2>2, <4>1, <5>1 DEF Locked, CacheTypes
      <4> QED BY <4>1, <4>2, <4>3, <4>4 DEF Locked
    <3> QED BY <3>1, <3>2
  <2> QED BY <2>3, <2>4, <2>5 DEF CacheInv
<1> QED BY <1>2, <1>3

LEMMA WakeKeeps ==
    ASSUME C!CacheAssumption, CacheInv, NEW c \in Caller, C!Wake(c) PROVE CacheInv'
<1>1. /\ CacheTypes /\ None \notin Caller /\ at[c] = "waiting" /\ holder[waitsFor[c]] = None
      /\ UNCHANGED <<entries, stale, lockOf, waitsFor, dropped>>
      /\ \/ at' = [at EXCEPT ![c] = "answered"] /\ holder' = holder
         \/ /\ at' = [at EXCEPT ![c] = "loading"] /\ ~C!Fresh(KeyOf[c])
            /\ holder' = [holder EXCEPT ![waitsFor[c]] = c]
  BY DEF C!CacheAssumption, CacheInv, C!Wake, C!Go
<1>2. waitsFor[c] \in Caller /\ Locked(c)
  BY <1>1 DEF CacheInv, CacheTypes, Locked
<1>3. CacheTypes'
  BY <1>1, <1>2 DEF CacheTypes
<1>4. ASSUME NEW e \in Caller PROVE Unnamed(e)'
  BY <1>1, <1>2 DEF CacheInv, CacheTypes, Unnamed
<1>5. ASSUME NEW e \in Caller PROVE Locked(e)'
  <2>1. Locked(e) /\ C!Fresh(KeyOf[e])' = C!Fresh(KeyOf[e])
    BY <1>1 DEF CacheInv, C!Fresh
  <2>2. CASE e = c
    BY <1>1, <1>2, <2>1, <2>2 DEF CacheTypes, Locked
  <2>3. CASE e # c
    <3>1. at'[e] = at[e]
      BY <1>1, <2>3 DEF CacheTypes
    <3>2. at[e] = "loading" => holder'[waitsFor[e]] = e
      BY <1>1, <1>2, <2>1 DEF CacheTypes, Locked
    <3> QED BY <1>1, <2>1, <3>1, <3>2 DEF Locked
  <2> QED BY <2>2, <2>3
<1> QED BY <1>3, <1>4, <1>5 DEF CacheInv

\* A caller that leaves gives up the lock it holds.
LEMMA LeaveKeeps ==
    ASSUME C!CacheAssumption, CacheInv, NEW c \in Caller, at[c] \in {"waiting", "loading"},
           NEW place \in {"answered", "raised"}, C!Leave(c, place)
    PROVE  /\ at' \in [Caller -> {"new", "waiting", "loading", "answered", "raised"}]
           /\ holder' \in [Caller -> Caller \cup {None}]
           /\ at'[c] = place /\ \A e \in Caller \ {c} : at'[e] = at[e]
           /\ \A e \in Caller \ {c} : at[e] = "loading" => holder'[waitsFor[e]] = e
           /\ \A e \in Caller : holder[e] = None => holder'[e] = None
<1>1. CacheTypes /\ waitsFor[c] \in Caller
  BY DEF CacheInv, CacheTypes, Locked
<1>2. /\ at' = [at EXCEPT ![c] = place]
      /\ holder' = [holder EXCEPT ![waitsFor[c]] = IF @ = c THEN None ELSE @]
  BY DEF C!Leave, C!Go
<1>3. \A l \in Caller : holder'[l] = holder[l] \/ (holder[l] = c /\ holder'[l] = None)
  BY <1>1, <1>2 DEF CacheTypes
<1>4. holder' \in [Caller -> Caller \cup {None}]
  BY <1>1, <1>2, <1>3 DEF CacheTypes
<1>5. \A e \in Caller \ {c} : at[e] = "loading" => holder'[waitsFor[e]] = e
  BY <1>1, <1>3 DEF CacheInv, CacheTypes, Locked
<1> QED BY <1>1, <1>2, <1>3, <1>4, <1>5 DEF CacheTypes

LEMMA GiveUpKeeps ==
    ASSUME C!CacheAssumption, CacheInv, NEW c \in Caller, C!GiveUp(c) PROVE CacheInv'
<1>1. /\ at[c] \in {"waiting", "loading"} /\ C!Leave(c, "raised")
      /\ UNCHANGED <<entries, stale, lockOf, waitsFor, dropped>>
  BY DEF C!GiveUp
<1>2. /\ at' \in [Caller -> {"new", "waiting", "loading", "answered", "raised"}]
      /\ holder' \in [Caller -> Caller \cup {None}]
      /\ at'[c] = "raised" /\ \A e \in Caller \ {c} : at'[e] = at[e]
      /\ \A e \in Caller \ {c} : at[e] = "loading" => holder'[waitsFor[e]] = e
      /\ \A e \in Caller : holder[e] = None => holder'[e] = None
  BY <1>1, LeaveKeeps
<1>3. CacheTypes'
  BY <1>1, <1>2 DEF CacheInv, CacheTypes
<1>4. \A e \in Caller : Unnamed(e)' /\ Locked(e)'
  BY <1>1, <1>2 DEF CacheInv, Unnamed, Locked, C!Fresh
<1> QED BY <1>3, <1>4 DEF CacheInv

LEMMA FirstOne ==
    ASSUME NEW D \in SUBSET Nat, D # {} PROVE \E m \in D : \A d \in D : m <= d
<1> DEFINE Less == OpToRel(<, Nat)
<1>1. IsWellFoundedOn(Less, Nat)
  BY NatLessThanWellFounded
<1>2. \A x, y \in Nat : <<x, y>> \in Less <=> x < y
  BY DEF OpToRel
<1> HIDE DEF Less
<1>3. PICK m \in D : \A d \in D : ~ (<<d, m>> \in Less)
  BY <1>1, WFMin
<1>4. ASSUME NEW d \in D PROVE m <= d
  <2>1. ~ (<<d, m>> \in Less) /\ d \in Nat /\ m \in Nat
    BY <1>3
  <2>2. <<d, m>> \in Less <=> d < m
    BY <1>2, <2>1
  <2>3. ~ (d < m)
    BY <2>1, <2>2
  <2> QED BY <2>1, <2>3
<1> QED BY <1>4

\* A key is taken out of the entries at its first place.
LEMMA KeyRemoved ==
    ASSUME NEW es \in Seq(Key), NEW k \in Key
    PROVE  /\ C!RemoveFirst(es, k) \in Seq(Key) /\ Len(C!RemoveFirst(es, k)) <= Len(es)
           /\ C!ToSet(C!RemoveFirst(es, k)) \subseteq C!ToSet(es)
<1> DEFINE D == {i \in 1..Len(es) : es[i] = k}
<1>1. CASE D = {}
  <2>1. ~ \E i \in 1..Len(es) : es[i] = k
    BY <1>1
  <2>2. C!RemoveFirst(es, k) = es
    BY <2>1 DEF C!RemoveFirst
  <2> QED BY <2>2
<1>2. CASE D # {}
  <2>n. D \in SUBSET Nat
    OBVIOUS
  <2>1. \E m \in D : \A d \in D : m <= d
    BY <1>2, <2>n, FirstOne
  <2>2. \E m \in D : \A d \in D : m =< d
    BY <2>1
  <2>3. C!Min(D) \in D
    BY <2>2 DEF C!Min
  <2>4. C!SelectInSeq(es, LAMBDA v : v = k) = C!Min(D)
    BY <1>2 DEF C!SelectInSeq
  <2>5. C!RemoveFirst(es, k) = C!RemoveAt(es, C!Min(D))
    BY <1>2, <2>4 DEF C!RemoveFirst
  <2>6. PICK m \in 1..Len(es) : m = C!Min(D)
    BY <2>3
  <2> HIDE DEF D
  <2>7. C!RemoveFirst(es, k) = SubSeq(es, 1, m - 1) \o SubSeq(es, m + 1, Len(es))
    BY <2>5, <2>6 DEF C!RemoveAt
  <2>8. /\ SubSeq(es, 1, m - 1) \in Seq(Key) /\ Len(SubSeq(es, 1, m - 1)) = m - 1
        /\ \A i \in 1..(m - 1) : SubSeq(es, 1, m - 1)[i] = es[i]
    OBVIOUS
  <2>9. /\ SubSeq(es, m + 1, Len(es)) \in Seq(Key)
        /\ Len(SubSeq(es, m + 1, Len(es))) = Len(es) - m
        /\ \A i \in 1..(Len(es) - m) : SubSeq(es, m + 1, Len(es))[i] = es[m + i]
    OBVIOUS
  <2> DEFINE a == SubSeq(es, 1, m - 1)
  <2> DEFINE b == SubSeq(es, m + 1, Len(es))
  <2>10. /\ a \in Seq(Key) /\ Len(a) = m - 1 /\ \A i \in 1..Len(a) : a[i] = es[i]
         /\ b \in Seq(Key) /\ Len(b) = Len(es) - m /\ \A i \in 1..Len(b) : b[i] = es[m + i]
    BY <2>8, <2>9
  <2>11. C!RemoveFirst(es, k) = a \o b
    BY <2>7
  <2> HIDE DEF a, b
  <2>12. /\ a \o b \in Seq(Key) /\ Len(a \o b) = Len(es) - 1
         /\ \A i \in 1..Len(a \o b) : (a \o b)[i] = IF i <= Len(a) THEN a[i] ELSE b[i - Len(a)]
    <3>t. a \in Seq(Key) /\ b \in Seq(Key)
      BY <2>10
    <3>1. a \o b \in Seq(Key) /\ Len(a \o b) = Len(a) + Len(b)
      BY <3>t
    <3>2. Len(a) \in Nat /\ Len(b) \in Nat /\ Len(es) \in Nat
      BY <2>10
    <3>3. ASSUME NEW i \in 1..Len(a \o b)
          PROVE  /\ i <= Len(a) => (a \o b)[i] = a[i]
                 /\ ~(i <= Len(a)) => (a \o b)[i] = b[i - Len(a)]
      BY <3>t, <3>1, <3>2
    <3> QED BY <2>10, <3>1, <3>2, <3>3
  <2>13. ASSUME NEW i \in 1..Len(a \o b) PROVE (a \o b)[i] \in C!ToSet(es)
    <3>1. CASE i <= Len(a)
      <4>1. i \in 1..Len(a) /\ i \in DOMAIN es /\ (a \o b)[i] = es[i]
        BY <2>10, <2>12, <3>1
      <4> QED BY <4>1 DEF C!ToSet
    <3>2. CASE ~(i <= Len(a))
      <4>1. i - Len(a) \in 1..Len(b) /\ m + (i - Len(a)) \in DOMAIN es
        BY <2>10, <2>12, <3>2
      <4> QED BY <2>10, <2>12, <3>2, <4>1 DEF C!ToSet
    <3> QED BY <3>1, <3>2
  <2>14. C!ToSet(a \o b) \subseteq C!ToSet(es)
    BY <2>12, <2>13 DEF C!ToSet
  <2> QED BY <2>11, <2>12, <2>14
<1> QED BY <1>1, <1>2

LEMMA StoreKeeps ==
    ASSUME C!CacheAssumption, CacheInv, NEW c \in Caller, C!Store(c) PROVE CacheInv'
<1> DEFINE full == Len(entries) >= MaxEntries
<1> DEFINE kept == IF full THEN Tail(entries) ELSE entries
<1>1. /\ at[c] = "loading" /\ C!Leave(c, "answered") /\ waitsFor' = waitsFor
      /\ entries' = Append(C!RemoveFirst(kept, KeyOf[c]), KeyOf[c])
      /\ stale' = stale \cap (C!ToSet(entries') \ {KeyOf[c]})
      /\ \/ /\ full /\ lockOf' = [lockOf EXCEPT ![Head(entries)] = None]
            /\ dropped' = IF C!Users(Head(entries)) \ {c} = {} THEN dropped
                          ELSE dropped \cup {Head(entries)}
         \/ UNCHANGED <<lockOf, dropped>>
  BY DEF C!Store
<1>2. CacheTypes /\ KeyOf[c] \in Key /\ MaxEntries \in Nat \ {0} /\ None \notin Caller
  BY DEF CacheInv, C!CacheAssumption
<1>3. /\ at' \in [Caller -> {"new", "waiting", "loading", "answered", "raised"}]
      /\ holder' \in [Caller -> Caller \cup {None}]
      /\ at'[c] = "answered" /\ \A e \in Caller \ {c} : at'[e] = at[e]
      /\ \A e \in Caller \ {c} : at[e] = "loading" => holder'[waitsFor[e]] = e
      /\ \A e \in Caller : holder[e] = None => holder'[e] = None
  BY <1>1, LeaveKeeps
<1>4. full => Head(entries) \in Key
  BY <1>2 DEF CacheTypes
<1>5. /\ kept \in Seq(Key) /\ Len(kept) <= MaxEntries - 1
      /\ C!ToSet(kept) \subseteq C!ToSet(entries)
  <2>1. CASE full
    <3>1. /\ Tail(entries) \in Seq(Key) /\ Len(Tail(entries)) = Len(entries) - 1
          /\ \A i \in 1..(Len(entries) - 1) : Tail(entries)[i] = entries[i + 1]
      BY <1>2, <2>1 DEF CacheTypes
    <3>2. Len(entries) \in Nat /\ DOMAIN entries = 1..Len(entries)
      BY <1>2 DEF CacheTypes
    <3>3. C!ToSet(Tail(entries)) \subseteq C!ToSet(entries)
      BY <3>1, <3>2 DEF C!ToSet
    <3> QED BY <1>2, <2>1, <3>1, <3>2, <3>3 DEF CacheTypes
  <2>2. CASE ~full
    BY <1>2, <2>2 DEF CacheTypes
  <2> QED BY <2>1, <2>2
<1> HIDE DEF kept
<1> DEFINE rest == C!RemoveFirst(kept, KeyOf[c])
<1>6. rest \in Seq(Key) /\ Len(rest) <= MaxEntries - 1 /\ C!ToSet(rest) \subseteq C!ToSet(entries)
  BY <1>2, <1>5, KeyRemoved
<1>7. entries' = Append(rest, KeyOf[c])
  BY <1>1
<1> HIDE DEF rest
<1>8. /\ entries' \in Seq(Key) /\ Len(entries') = Len(rest) + 1
      /\ \A i \in 1..Len(entries') :
            \/ entries'[i] = KeyOf[c]
            \/ i \in 1..Len(rest) /\ entries'[i] = rest[i]
  <2>1. /\ Append(rest, KeyOf[c]) \in Seq(Key) /\ Len(Append(rest, KeyOf[c])) = Len(rest) + 1
        /\ Len(rest) \in Nat
    BY <1>2, <1>6
  <2>2. ASSUME NEW i \in 1..(Len(rest) + 1)
        PROVE  \/ Append(rest, KeyOf[c])[i] = KeyOf[c]
               \/ i \in 1..Len(rest) /\ Append(rest, KeyOf[c])[i] = rest[i]
    BY <1>2, <1>6, <2>1
  <2>3. entries' \in Seq(Key) /\ Len(entries') = Len(rest) + 1
    BY <1>7, <2>1
  <2>4. ASSUME NEW i \in 1..Len(entries')
        PROVE  \/ entries'[i] = KeyOf[c]
               \/ i \in 1..Len(rest) /\ entries'[i] = rest[i]
    <3>1. i \in 1..(Len(rest) + 1)
      BY <2>3
    <3> QED BY <1>7, <2>2, <3>1
  <2> QED BY <2>3, <2>4
<1>9. C!ToSet(entries') \subseteq C!ToSet(entries) \cup {KeyOf[c]}
  <2>1. C!ToSet(entries') \subseteq C!ToSet(rest) \cup {KeyOf[c]}
    <3>1. DOMAIN entries' = 1..Len(entries') /\ DOMAIN rest = 1..Len(rest)
      BY <1>6, <1>8
    <3> QED BY <1>8, <3>1 DEF C!ToSet
  <2> QED BY <1>6, <2>1
<1>10. CacheTypes'
  <2>1. Len(entries') <= MaxEntries
    BY <1>2, <1>6, <1>8
  <2>2. /\ lockOf' \in [Key -> Caller \cup {None}] /\ dropped' \subseteq Key
    BY <1>1, <1>2, <1>4 DEF CacheTypes
  <2> QED BY <1>1, <1>2, <1>3, <1>8, <2>1, <2>2 DEF CacheTypes
<1>11. ASSUME NEW e \in Caller PROVE Unnamed(e)'
  <2> SUFFICES ASSUME at'[e] = "new" PROVE Unnamed(e)'
    BY DEF Unnamed
  <2>1. e # c /\ at[e] = "new"
    BY <1>3
  <2>2. holder'[e] = None /\ \A d \in Caller : waitsFor'[d] # e
    BY <1>1, <1>3, <2>1 DEF CacheInv, Unnamed
  <2>3. \A k \in Key : lockOf'[k] \in {lockOf[k], None}
    BY <1>1, <1>2, <1>4 DEF CacheTypes
  <2>4. \A k \in Key : lockOf'[k] # e
    BY <1>2, <2>1, <2>3 DEF CacheInv, Unnamed
  <2> QED BY <2>2, <2>4 DEF Unnamed
<1>12. ASSUME NEW e \in Caller PROVE Locked(e)'
  <2> SUFFICES ASSUME at'[e] \in {"waiting", "loading"} PROVE Locked(e)'
    BY DEF Locked
  <2>1. e # c /\ at'[e] = at[e] /\ Locked(e) /\ dropped \subseteq dropped'
    BY <1>1, <1>3 DEF CacheInv
  <2>2. KeyOf[e] \notin dropped' => lockOf'[KeyOf[e]] = lockOf[KeyOf[e]]
    <3>1. CASE UNCHANGED lockOf
      BY <3>1
    <3>2. CASE /\ full /\ lockOf' = [lockOf EXCEPT ![Head(entries)] = None]
               /\ dropped' = IF C!Users(Head(entries)) \ {c} = {} THEN dropped
                             ELSE dropped \cup {Head(entries)}
      <4> SUFFICES ASSUME KeyOf[e] \notin dropped' PROVE KeyOf[e] # Head(entries)
        BY <1>2, <1>4, <3>2 DEF CacheTypes
      <4>1. KeyOf[e] = Head(entries) => e \in C!Users(Head(entries))
        BY <2>1 DEF C!Users, Locked
      <4> QED BY <2>1, <3>2, <4>1
    <3> QED BY <1>1, <3>1, <3>2
  <2>3. at[e] = "loading" /\ KeyOf[e] \notin dropped' => ~C!Fresh(KeyOf[e])'
    <3> SUFFICES ASSUME at[e] = "loading", KeyOf[e] \notin dropped', C!Fresh(KeyOf[e])'
                 PROVE  FALSE
      OBVIOUS
    <3>1. KeyOf[e] # KeyOf[c]
      BY <1>1, <2>1, AloneLoads
    <3>2. KeyOf[e] \in C!ToSet(entries) /\ ~C!Fresh(KeyOf[e])
      BY <1>9, <2>1, <3>1 DEF C!Fresh, Locked
    <3>3. KeyOf[e] \in stale
      BY <3>2 DEF C!Fresh
    <3>4. KeyOf[e] \in C!ToSet(entries') /\ KeyOf[e] \notin stale'
      BY DEF C!Fresh
    <3> QED BY <1>1, <3>1, <3>3, <3>4
  <2> QED BY <1>1, <1>3, <2>1, <2>2, <2>3 DEF Locked
<1> QED BY <1>10, <1>11, <1>12 DEF CacheInv

LEMMA ExpireKeeps ==
    ASSUME CacheInv, C!Expire PROVE CacheInv'
<1>1. /\ UNCHANGED <<entries, lockOf, holder, waitsFor, at, dropped>> /\ stale \subseteq stale'
      /\ \E i \in DOMAIN entries : stale' = stale \cup {entries[i]}
  BY DEF C!Expire
<1>2. CacheTypes'
  BY <1>1 DEF CacheInv, CacheTypes
<1>3. \A k : C!Fresh(k)' => C!Fresh(k)
  BY <1>1 DEF C!Fresh
<1> QED BY <1>1, <1>2, <1>3 DEF CacheInv, Unnamed, Locked

LEMMA CacheStep ==
    ASSUME C!CacheAssumption, CacheInv, [C!Next]_(C!vars) PROVE CacheInv'
<1>1. CASE \E c \in Caller : C!Call(c) \/ C!Wake(c) \/ C!Store(c) \/ C!GiveUp(c)
  BY <1>1, CallKeeps, WakeKeeps, StoreKeeps, GiveUpKeeps
<1>2. CASE C!Expire
  BY <1>2, ExpireKeeps
<1>3. CASE UNCHANGED C!vars
  BY <1>3 DEF C!vars, CacheInv, CacheTypes, Unnamed, Locked, C!Fresh
<1> QED BY <1>1, <1>2, <1>3 DEF C!Next

\* A key is loaded once at a time and not while it is fresh, unless its lock was
\* dropped; the cache keeps its size.
THEOREM LoadsCoalesce ==
    ASSUME C!CacheAssumption PROVE C!Spec => []C!Coalesced
<1>1. C!Init => CacheInv
  BY CacheInit
<1>2. CacheInv /\ [C!Next]_(C!vars) => CacheInv'
  BY CacheStep
<1>3. CacheInv => C!Coalesced
  BY AloneLoads DEF CacheInv, CacheTypes, Locked, C!Coalesced
<1> QED BY <1>1, <1>2, <1>3, PTL DEF C!Spec

\* The same of the worlds of Turns.
THEOREM TurnsCoalesce ==
    ASSUME C!CacheAssumption PROVE TurnsSpec => []Coalesced
<1>1. TurnsInit => C!Init
  BY DEF TurnsInit
<1>2. [TurnsNext]_allVars => [C!Next]_(C!vars)
  BY DEF TurnsNext, allVars, cacheVars, C!vars
<1>3. C!Spec => []C!Coalesced
  BY LoadsCoalesce
<1>4. C!Coalesced => Coalesced
  BY DEF Coalesced
<1> QED BY <1>1, <1>2, <1>3, <1>4, PTL DEF TurnsSpec, C!Spec

----------------------------------------------------------------------------
(***************************************************************************)
(* "build": sums over the coins, fees, the transaction that is offered.    *)
(***************************************************************************)

\* f sums v up to its place n.
Sums(f, v, n) == f = [i \in 0..n |-> IF i = 0 THEN 0 ELSE f[i - 1] + v[i]]

LEMMA SumsExist ==
    ASSUME NEW v \in Seq(Nat), NEW n \in 0..Len(v)
    PROVE  \E f : Sums(f, v, n)
<1> DEFINE Bad == {k \in 0..Len(v) : ~ \E f \in [0..k -> Nat] : Sums(f, v, k)}
<1>1. SUFFICES Bad = {}
  <2>1. n \notin Bad
    BY <1>1
  <2> QED BY <2>1
<1>2. SUFFICES ASSUME Bad # {} PROVE FALSE
  OBVIOUS
<1>3. PICK m \in Bad : \A d \in Bad : m <= d
  <2>1. Bad \in SUBSET Nat
    OBVIOUS
  <2> HIDE DEF Bad
  <2> QED BY <1>2, <2>1, FirstOne
<1>4. CASE m = 0
  <2> DEFINE f == [i \in 0..0 |-> 0]
  <2>1. f \in [0..0 -> Nat] /\ Sums(f, v, 0)
    BY DEF Sums
  <2> QED BY <1>4, <2>1
<1>5. CASE m # 0
  <2>1. m \in 1..Len(v) /\ m - 1 \in 0..Len(v) /\ m - 1 \notin Bad /\ v[m] \in Nat
    <3>1. m \in 0..Len(v) /\ Len(v) \in Nat
      OBVIOUS
    <3>2. m \in 1..Len(v) /\ m - 1 \in 0..Len(v) /\ v[m] \in Nat /\ ~(m <= m - 1)
      BY <1>5, <3>1
    <3> HIDE DEF Bad
    <3> QED BY <1>3, <3>2
  <2>2. PICK f \in [0 .. m - 1 -> Nat] : Sums(f, v, m - 1)
    BY <2>1
  <2> DEFINE h == [i \in 0..m |-> IF i = m THEN f[m - 1] + v[m] ELSE f[i]]
  <2>3. h \in [0..m -> Nat]
    BY <2>1
  <2>4. \A i \in 0 .. m - 1 : f[i] = IF i = 0 THEN 0 ELSE f[i - 1] + v[i]
    BY <2>2 DEF Sums
  <2>5. ASSUME NEW i \in 0..m PROVE h[i] = IF i = 0 THEN 0 ELSE h[i - 1] + v[i]
    <3>1. CASE i = m
      <4>1. h[i] = f[m - 1] + v[m] /\ h[m - 1] = f[m - 1]
        BY <2>1, <3>1
      <4> HIDE DEF h
      <4> QED BY <2>1, <3>1, <4>1
    <3>2. CASE i # m
      <4>1. i \in 0 .. m - 1 /\ (i # 0 => i - 1 \in 0 .. m - 1)
        BY <2>1, <3>2
      <4>2. h[i] = f[i] /\ (i # 0 => h[i - 1] = f[i - 1])
        BY <2>1, <4>1
      <4> HIDE DEF h
      <4> QED BY <2>4, <4>1, <4>2
    <3> QED BY <3>1, <3>2
  <2>6. Sums(h, v, m)
    BY <2>3, <2>5 DEF Sums
  <2> QED BY <1>3, <2>3, <2>6
<1> QED BY <1>4, <1>5

LEMMA SumsAre ==
    ASSUME NEW v \in Seq(Nat), NEW f, Sums(f, v, Len(v)), NEW n \in 0..Len(v)
    PROVE  f[n] \in Nat
<1> DEFINE Bad == {k \in 0..Len(v) : f[k] \notin Nat}
<1>1. SUFFICES ASSUME Bad # {} PROVE FALSE
  OBVIOUS
<1>2. PICK m \in Bad : \A d \in Bad : m <= d
  <2>1. Bad \in SUBSET Nat
    OBVIOUS
  <2> HIDE DEF Bad
  <2> QED BY <1>1, <2>1, FirstOne
<1>3. f[m] = IF m = 0 THEN 0 ELSE f[m - 1] + v[m]
  BY <1>2 DEF Sums
<1>4. m # 0 => m - 1 \in 0..Len(v) /\ f[m - 1] \in Nat /\ v[m] \in Nat
  BY <1>2
<1> QED BY <1>2, <1>3, <1>4

\* What Sum computes, for every sequence of natural numbers.
LEMMA SumIs ==
    ASSUME NEW v \in Seq(Nat)
    PROVE  /\ B!Sum(v) \in Nat
           /\ \E f : Sums(f, v, Len(v)) /\ B!Sum(v) = f[Len(v)]
<1> DEFINE f == CHOOSE f : Sums(f, v, Len(v))
<1>1. Len(v) \in 0..Len(v)
  OBVIOUS
<1>2. Sums(f, v, Len(v))
  BY <1>1, SumsExist
<1>3. B!Sum(v) = f[Len(v)]
  BY DEF B!Sum, Sums
<1> QED BY <1>1, <1>2, <1>3, SumsAre

LEMMA SizesKnown ==
    ASSUME NEW a \in B!Family
    PROVE  B!INPUT_VBYTES[a] \in Nat /\ B!OUTPUT_VBYTES[a] \in Nat
BY DEF B!Family, B!INPUT_VBYTES, B!OUTPUT_VBYTES

CoinsOf == [value : Nat, family : B!Family]

LEMMA TotalIs == ASSUME NEW coins \in Seq(CoinsOf) PROVE B!Total(coins) \in Nat
<1> DEFINE v == [i \in DOMAIN coins |-> coins[i].value]
<1>0. \A i \in DOMAIN coins : coins[i].value \in Nat
  <2>1. \A i \in DOMAIN coins : coins[i] \in CoinsOf
    OBVIOUS
  <2> QED BY <2>1 DEF CoinsOf
<1>1. v \in Seq(Nat)
  BY <1>0
<1>2. B!Total(coins) = B!Sum(v)
  BY DEF B!Total
<1> HIDE DEF v
<1> QED BY <1>1, <1>2, SumIs

LEMMA InputsAre == ASSUME NEW coins \in Seq(CoinsOf) PROVE B!InputsVbytes(coins) \in Nat
<1> DEFINE v == [i \in DOMAIN coins |-> B!INPUT_VBYTES[coins[i].family]]
<1>1. \A i \in DOMAIN coins : B!INPUT_VBYTES[coins[i].family] \in Nat
  <2>1. \A i \in DOMAIN coins : coins[i] \in CoinsOf
    OBVIOUS
  <2>2. \A i \in DOMAIN coins : coins[i].family \in B!Family
    BY <2>1 DEF CoinsOf
  <2> QED BY <2>2, SizesKnown
<1>2. v \in Seq(Nat)
  BY <1>1
<1>3. B!InputsVbytes(coins) = B!Sum(v)
  BY DEF B!InputsVbytes
<1> HIDE DEF v
<1> QED BY <1>2, <1>3, SumIs

\* A second output has its own size.
LEMMA OutputsAre ==
    ASSUME NEW a \in B!Family, NEW b \in B!Family
    PROVE  /\ B!OutputsVbytes(<<a>>) = B!OUTPUT_VBYTES[a]
           /\ B!OutputsVbytes(<<a, b>>) = B!OUTPUT_VBYTES[a] + B!OUTPUT_VBYTES[b]
<1>0. B!OUTPUT_VBYTES[a] \in Nat /\ B!OUTPUT_VBYTES[b] \in Nat
  BY SizesKnown
<1>1. B!OutputsVbytes(<<a>>) = B!OUTPUT_VBYTES[a]
  <2> DEFINE v == [i \in DOMAIN <<a>> |-> B!OUTPUT_VBYTES[<<a>>[i]]]
  <2>1. v \in Seq(Nat) /\ Len(v) = 1 /\ v[1] = B!OUTPUT_VBYTES[a]
    BY <1>0
  <2>2. B!OutputsVbytes(<<a>>) = B!Sum(v)
    BY DEF B!OutputsVbytes
  <2> HIDE DEF v
  <2>3. PICK f : Sums(f, v, 1) /\ B!Sum(v) = f[1]
    BY <2>1, SumIs
  <2>4. f[0] = 0 /\ f[1] = f[0] + v[1]
    BY <2>3 DEF Sums
  <2> QED BY <1>0, <2>1, <2>2, <2>3, <2>4
<1>2. B!OutputsVbytes(<<a, b>>) = B!OUTPUT_VBYTES[a] + B!OUTPUT_VBYTES[b]
  <2> DEFINE v == [i \in DOMAIN <<a, b>> |-> B!OUTPUT_VBYTES[<<a, b>>[i]]]
  <2>1. v \in Seq(Nat) /\ Len(v) = 2 /\ v[1] = B!OUTPUT_VBYTES[a] /\ v[2] = B!OUTPUT_VBYTES[b]
    BY <1>0
  <2>2. B!OutputsVbytes(<<a, b>>) = B!Sum(v)
    BY DEF B!OutputsVbytes
  <2> HIDE DEF v
  <2>3. PICK f : Sums(f, v, 2) /\ B!Sum(v) = f[2]
    BY <2>1, SumIs
  <2>4. f[0] = 0 /\ f[1] = f[0] + v[1] /\ f[2] = f[1] + v[2]
    BY <2>3 DEF Sums
  <2> QED BY <1>0, <2>1, <2>2, <2>3, <2>4
<1> QED BY <1>1, <1>2

LEMMA QuotientGrows ==
    ASSUME NEW m \in Nat, NEW n \in Nat, m <= n, NEW d \in Nat \ {0}
    PROVE  m \div d \in Nat /\ n \div d \in Nat /\ m \div d <= n \div d
<1>1. m \div d \in Nat /\ d * (m \div d) <= m
  OBVIOUS
<1>2. n \div d \in Nat /\ n < d * ((n \div d) + 1)
  OBVIOUS
<1>3. \A p, q \in Nat : p >= q + 1 => d * p >= d * (q + 1)
  OBVIOUS
<1> QED BY <1>1, <1>2, <1>3

LEMMA ProductGrows ==
    ASSUME NEW m \in Nat, NEW n \in Nat, m <= n, NEW d \in Nat
    PROVE  m * d \in Nat /\ n * d \in Nat /\ m * d <= n * d
OBVIOUS

\* The fee of a transaction, and what change adds to it.
LEMMA FeeIs ==
    ASSUME B!BuildAssumption, NEW inputs \in Seq(CoinsOf), NEW rate \in Rates,
           NEW outputs \in Outputs, NEW memo \in MemoSizes \cup {None}
    PROVE  /\ B!FeeFor(inputs, rate, outputs, memo) \in Nat
           /\ B!FeeFor(inputs, rate, <<outputs[1]>>, memo) \in Nat
           /\ B!FeeFor(inputs, rate, <<outputs[1]>>, memo) <= B!FeeFor(inputs, rate, outputs, memo)
<1>1. /\ rate[1] \in Nat /\ rate[2] \in Nat \ {0}
      /\ outputs[1] \in B!Family /\ outputs[2] \in B!Family /\ outputs = <<outputs[1], outputs[2]>>
  BY DEF B!BuildAssumption
<1>2. B!MemoVbytes(memo) \in Nat
  <2>1. CASE memo = None
    BY <2>1 DEF B!MemoVbytes
  <2>2. CASE memo # None
    <3>1. memo \in Nat
      BY <2>2 DEF B!BuildAssumption
    <3> QED BY <2>2, <3>1 DEF B!MemoVbytes
  <2> QED BY <2>1, <2>2
<1>3. /\ B!OutputsVbytes(<<outputs[1]>>) = B!OUTPUT_VBYTES[outputs[1]]
      /\ B!OutputsVbytes(outputs) = B!OUTPUT_VBYTES[outputs[1]] + B!OUTPUT_VBYTES[outputs[2]]
  BY <1>1, OutputsAre
<1>4. B!OUTPUT_VBYTES[outputs[1]] \in Nat /\ B!OUTPUT_VBYTES[outputs[2]] \in Nat
  BY <1>1, SizesKnown
<1>5. B!InputsVbytes(inputs) \in Nat
  BY InputsAre
<1> DEFINE One == 11 + B!InputsVbytes(inputs) + B!OutputsVbytes(<<outputs[1]>>) + B!MemoVbytes(memo)
           Both == 11 + B!InputsVbytes(inputs) + B!OutputsVbytes(outputs) + B!MemoVbytes(memo)
<1>6. One \in Nat /\ Both \in Nat /\ One <= Both
  <2>1. \A i, m, o, p \in Nat : /\ 11 + i + o + m \in Nat /\ 11 + i + (o + p) + m \in Nat
                               /\ 11 + i + o + m <= 11 + i + (o + p) + m
    OBVIOUS
  <2> QED BY <1>2, <1>3, <1>4, <1>5, <2>1, Zenon
<1>7. /\ B!FeeFor(inputs, rate, <<outputs[1]>>, memo) = (One * rate[1] + rate[2] - 1) \div rate[2]
      /\ B!FeeFor(inputs, rate, outputs, memo) = (Both * rate[1] + rate[2] - 1) \div rate[2]
  BY DEF B!FeeFor, B!OVERHEAD_VBYTES
<1> HIDE DEF One, Both
<1>8. One * rate[1] \in Nat /\ Both * rate[1] \in Nat /\ One * rate[1] <= Both * rate[1]
  BY <1>1, <1>6, ProductGrows
<1>9. /\ One * rate[1] + rate[2] - 1 \in Nat /\ Both * rate[1] + rate[2] - 1 \in Nat
      /\ One * rate[1] + rate[2] - 1 <= Both * rate[1] + rate[2] - 1
  BY <1>1, <1>8
<1> QED BY <1>1, <1>7, <1>9, QuotientGrows

LEMMA RequestIs ==
    ASSUME B!BuildAssumption, NEW r \in B!Request
    PROVE  /\ r.model \in {"utxo", "evm", "account", "none"}
           /\ r.by \in {"transfer", "order", "call"} /\ r.token \in BOOLEAN
           /\ r.amount \in Nat /\ r.checked \in Nat
           /\ r.model = "utxo" => /\ r.coins \in Seq(CoinsOf) /\ r.outputs \in Outputs
                                  /\ r.rate \in Rates /\ r.memo \in MemoSizes \cup {None}
                                  /\ ~r.token
           /\ r.model = "none" => r.by # "transfer" /\ ~r.token
<1> DEFINE Checks == Amounts \cup {B!Placeholder}
           By == {"transfer", "order", "call"}
           Coins == [model : {"utxo"}, by : By, token : {FALSE}, amount : Amounts, checked : Checks,
                     memo : MemoSizes \cup {None}, coins : CoinSets, outputs : Outputs, rate : Rates]
           Others == [model : {"evm", "account", "none"}, by : By, token : BOOLEAN,
                      amount : Amounts, checked : Checks]
<1>1. r \in Coins \cup Others /\ (r.model = "none" => r.by # "transfer" /\ ~r.token)
  BY Zenon DEF B!Request
<1>2. Amounts \subseteq Nat /\ Checks \subseteq Nat /\ CoinSets \subseteq Seq(CoinsOf)
  <2>1. CoinSets \subseteq Seq(CoinsOf)
    BY Zenon DEF B!BuildAssumption, CoinsOf
  <2> QED BY <2>1 DEF B!BuildAssumption, B!Placeholder
<1> HIDE DEF Checks
<1>3. CASE r \in Coins
  <2>1. /\ r.model = "utxo" /\ r.by \in By /\ r.token = FALSE /\ r.amount \in Amounts
        /\ r.checked \in Checks /\ r.memo \in MemoSizes \cup {None} /\ r.coins \in CoinSets
        /\ r.outputs \in Outputs /\ r.rate \in Rates
    BY <1>3
  <2> QED BY <1>1, <1>2, <2>1
<1>4. CASE r \in Others
  <2>1. /\ r.model \in {"evm", "account", "none"} /\ r.by \in By /\ r.token \in BOOLEAN
        /\ r.amount \in Amounts /\ r.checked \in Checks
    BY <1>4
  <2> QED BY <1>1, <1>2, <2>1
<1> QED BY <1>1, <1>3, <1>4

\* What a transaction of coins has to pay.
Due(t, r) ==
    B!FeeFor(t.inputs, r.rate, IF t.change = 0 THEN <<r.outputs[1]>> ELSE r.outputs, r.memo)

CoinsPay(t, r) ==
    LET paid == B!Total(t.inputs) - t.amount - t.change
    IN /\ t.memo = r.memo
       /\ t.change # 0 => t.change >= B!DUST_LIMIT /\ paid = Due(t, r)
       /\ paid \in Due(t, r) .. B!FeeFor(t.inputs, r.rate, r.outputs, r.memo) + B!DUST_LIMIT - 1
       /\ t.fee = Due(t, r) /\ t.fee \in Nat

LEMMA SpendPays ==
    ASSUME B!BuildAssumption, NEW r \in B!Request, r.model = "utxo",
           NEW inputs \in Seq(CoinsOf), B!Enough(inputs, r)
    PROVE  /\ CoinsPay(B!Spend(inputs, r), r)
           /\ B!Spend(inputs, r).amount = r.amount /\ B!Spend(inputs, r).form = "coins"
<1> DEFINE t == B!Spend(inputs, r)
           with == B!FeeFor(inputs, r.rate, r.outputs, r.memo)
           without == B!FeeFor(inputs, r.rate, <<r.outputs[1]>>, r.memo)
           total == B!Total(inputs)
           end == B!Settle(inputs, r.amount, r.rate, r.outputs, r.memo)
<1>1. total \in Nat /\ r.amount \in Nat
  BY TotalIs, RequestIs
<1>2. with \in Nat /\ without \in Nat /\ without <= with
  BY FeeIs, RequestIs
<1>3. /\ t.form = "coins" /\ t.inputs = inputs /\ t.amount = r.amount /\ t.memo = r.memo
      /\ t.fee = end.fee /\ t.change = end.change
  BY DEF B!Spend
<1>4. end = IF total - r.amount - with >= B!DUST_LIMIT
            THEN [fee |-> with, change |-> total - r.amount - with]
            ELSE IF total - r.amount - without >= 0 THEN [fee |-> without, change |-> 0]
            ELSE [fee |-> with, change |-> 0]
  BY DEF B!Settle
<1>5. total >= r.amount + end.fee
  BY DEF B!Enough
<1>6. Due(t, r) = IF t.change = 0 THEN without ELSE with
  BY <1>3 DEF Due
<1>7. B!FeeFor(t.inputs, r.rate, r.outputs, r.memo) = with /\ B!Total(t.inputs) = total
  BY <1>3
<1> HIDE DEF t, with, without, total, end
<1>8. CASE total - r.amount - with >= B!DUST_LIMIT
  <2>1. end.fee = with /\ end.change = total - r.amount - with
    BY <1>4, <1>8
  <2>2. t.change >= B!DUST_LIMIT /\ t.change # 0 /\ Due(t, r) = with
    BY <1>1, <1>2, <1>3, <1>6, <1>8, <2>1 DEF B!DUST_LIMIT
  <2> QED BY <1>1, <1>2, <1>3, <1>7, <2>1, <2>2 DEF CoinsPay, B!DUST_LIMIT, t
<1>9. CASE ~(total - r.amount - with >= B!DUST_LIMIT)
  <2>1. total - r.amount - without >= 0
    BY <1>1, <1>2, <1>4, <1>5, <1>9
  <2>2. end.fee = without /\ end.change = 0
    BY <1>4, <1>9, <2>1
  <2>3. t.change = 0 /\ Due(t, r) = without
    BY <1>3, <1>6, <2>2
  <2> QED BY <1>1, <1>2, <1>3, <1>7, <1>9, <2>1, <2>2, <2>3 DEF CoinsPay, B!DUST_LIMIT, t
<1> QED BY <1>8, <1>9

LEMMA SelectedCoins ==
    ASSUME B!BuildAssumption, NEW r \in B!Request, r.model = "utxo", NEW inputs \in B!Selections(r)
    PROVE  inputs \in Seq(CoinsOf) /\ B!Enough(inputs, r)
<1>1. r.coins \in Seq(CoinsOf)
  BY RequestIs
<1>2. PICK s \in B!LargestFirst(r.coins), k \in 1..Len(r.coins) : inputs = SubSeq(s, 1, k)
  BY DEF B!Selections
<1>3. PICK p \in B!Bijection(DOMAIN r.coins, DOMAIN r.coins) :
         s = [i \in DOMAIN r.coins |-> r.coins[p[i]]]
  BY DEF B!LargestFirst
<1>4. p \in [DOMAIN r.coins -> DOMAIN r.coins]
  BY DEF B!Bijection, B!Injection
<1>5. s \in Seq(CoinsOf) /\ Len(s) = Len(r.coins)
  <2>1. DOMAIN r.coins = 1..Len(r.coins) /\ Len(r.coins) \in Nat
    BY <1>1
  <2>2. \A i \in 1..Len(r.coins) : p[i] \in 1..Len(r.coins)
    BY <1>4, <2>1
  <2>3. \A i \in 1..Len(r.coins) : r.coins[p[i]] \in CoinsOf
    BY <1>1, <2>2
  <2> QED BY <1>3, <2>1, <2>3
<1>6. inputs \in Seq(CoinsOf)
  BY <1>2, <1>5
<1> QED BY <1>6 DEF B!Selections

----------------------------------------------------------------------------
(* The invariant of "build": what each stage has established.              *)

Checking ==
    {"checking", "pricing", "simulating", "reading_native", "reading_token", "balancing",
     "offering"}

\* The transaction is that of the request, in the form of its chain.
Formed ==
    /\ tx.amount = req.amount
    /\ IF req.model = "utxo" THEN tx.form = "coins" /\ CoinsPay(tx, req)
       ELSE tx = B!Payment(IF req.model = "account" THEN "node-built" ELSE "calldata")

\* The estimate is the fee of the coins that were selected, or adds up.
GasEstimate == [amount : Nat, gas : Nat, price : Nat, tip : Nat, raised : BOOLEAN]

Estimated ==
    fee # None =>
        /\ fee.amount \in Nat
        /\ req.model = "utxo" => fee.amount = tx.fee
        /\ req.model = "evm" =>
               /\ fee \in GasEstimate
               /\ fee.amount = fee.gas * fee.price /\ fee.price >= fee.tip

\* No balance that could be read is short.
Covered ==
    /\ native # None /\ fee # None =>
           native >= fee.amount + (IF req.token THEN 0 ELSE req.checked)
    /\ req.token => held # None /\ held >= req.checked

Staged ==
    /\ stage \in {"new", "building", "answered"} \cup Checking
    /\ stage # "answered" => answer = None
    /\ stage \in {"building"} \cup Checking => req \in B!Request
    /\ native \in Nat \cup {None} /\ held \in Nat \cup {None}
    /\ stage \in {"new", "building", "checking", "pricing"} => fee = None
    /\ stage \in {"new", "building"} => native = None
    /\ stage = "simulating" => req.model = "evm"

BuildInv ==
    /\ Staged
    /\ stage \in Checking => Formed /\ Estimated
    /\ stage = "offering" /\ failed = {} => Covered
    /\ B!OfferPays

----------------------------------------------------------------------------
(* The estimates.                                                          *)

LEMMA LargestIs ==
    ASSUME NEW a \in Nat, NEW b \in Nat, NEW c \in Nat
    PROVE  /\ B!Max({a, b, c}) \in {a, b, c}
           /\ B!Max({a, b, c}) >= a /\ B!Max({a, b, c}) >= b /\ B!Max({a, b, c}) >= c
<1>1. \E m \in {a, b, c} : \A y \in {a, b, c} : m >= y
  <2>1. CASE a >= b /\ a >= c
    BY <2>1
  <2>2. CASE b >= a /\ b >= c
    BY <2>2
  <2>3. CASE c >= a /\ c >= b
    BY <2>3
  <2> QED BY <2>1, <2>2, <2>3
<1> DEFINE m == B!Max({a, b, c})
<1>2. m \in {a, b, c} /\ \A y \in {a, b, c} : m >= y
  BY <1>1, Zenon DEF B!Max
<1> QED BY <1>2

LEMMA LargerIs ==
    ASSUME NEW a \in Nat, NEW b \in Nat
    PROVE  B!Max({a, b}) \in {a, b} /\ B!Max({a, b}) >= a /\ B!Max({a, b}) >= b
<1>1. {a, b} = {a, b, b}
  OBVIOUS
<1> QED BY <1>1, LargestIs

LEMMA SmallerIs ==
    ASSUME NEW a \in Nat, NEW b \in Nat
    PROVE  B!Min({a, b}) \in {a, b} /\ B!Min({a, b}) <= a /\ B!Min({a, b}) <= b
<1>1. \E m \in {a, b} : \A y \in {a, b} : m <= y
  <2>1. CASE a <= b
    BY <2>1
  <2>2. CASE b <= a
    BY <2>2
  <2> QED BY <2>1, <2>2
<1> DEFINE m == B!Min({a, b})
<1>2. m \in {a, b} /\ \A y \in {a, b} : m <= y
  BY <1>1, Zenon DEF B!Min
<1> QED BY <1>2

\* The tip is below the price, for every answer of the oracles.
LEMMA EvmIs ==
    ASSUME None \notin Nat, NEW g \in Nat, NEW p \in Nat \ {0}, NEW t \in Nat,
           NEW b \in Nat \cup {None}
    PROVE  LET e == B!EvmEstimate(g, p, t, b)
           IN e \in GasEstimate /\ e.amount = e.gas * e.price /\ e.price >= e.tip
<1> DEFINE tenth == p \div 10
           wanted == IF t > 0 THEN t ELSE B!Max({1, tenth})
           capped == B!Min({wanted, p})
           tip == IF capped > 0 THEN capped ELSE 1
           price == IF b = None THEN p ELSE B!Max({p, 2 * b, b + tip})
           e == B!EvmEstimate(g, p, t, b)
<1>1. tenth \in Nat
  OBVIOUS
<1> HIDE DEF tenth
<1>2. wanted \in Nat /\ wanted >= 1
  BY <1>1, LargerIs
<1> HIDE DEF wanted
<1>3. capped \in Nat /\ capped >= 1 /\ capped <= p
  BY <1>2, SmallerIs
<1> HIDE DEF capped
<1>4. tip \in Nat /\ tip <= p
  BY <1>3
<1>5. e = [amount |-> g * price, gas |-> g, price |-> price, tip |-> tip, raised |-> FALSE]
  BY DEF B!EvmEstimate, B!Estimate, tenth, wanted, capped
<1> HIDE DEF tip
<1>6. price \in Nat /\ price >= p
  <2>1. CASE b = None
    BY <2>1
  <2>2. CASE b # None
    <3>1. b \in Nat /\ 2 * b \in Nat /\ b + tip \in Nat
      BY <1>4, <2>2
    <3>2. price = B!Max({p, 2 * b, b + tip})
      BY <2>2
    <3> QED BY <3>1, <3>2, LargestIs
  <2> QED BY <2>1, <2>2
<1> HIDE DEF price, e
<1>7. g * price \in Nat /\ price >= tip
  BY <1>4, <1>6
<1> QED BY <1>4, <1>5, <1>6, <1>7 DEF GasEstimate, e

\* The wallet provider's answers only raise the gas.
LEMMA RaisedIs ==
    ASSUME None \notin Nat, NEW g \in Nat, NEW okx \in Nat \cup {None},
           NEW sim \in Nat \cup {None}
    PROVE  B!Max(({okx, sim} \ {None}) \cup {g}) \in Nat
<1> DEFINE o == IF okx = None THEN g ELSE okx
           s == IF sim = None THEN g ELSE sim
<1>1. ({okx, sim} \ {None}) \cup {g} = {o, s, g}
  OBVIOUS
<1>2. o \in Nat /\ s \in Nat
  OBVIOUS
<1> HIDE DEF o, s
<1> QED BY <1>1, <1>2, LargestIs

----------------------------------------------------------------------------
(* One action at a time.                                                   *)

LEMMA NotYet ==
    ASSUME B!BuildAssumption
    PROVE  (answer = None => B!OfferPays) /\ (answer' = None => B!OfferPays')
BY DEF B!BuildAssumption, B!OfferPays

LEMMA BuildStarts == ASSUME B!BuildAssumption, B!Init PROVE BuildInv
BY NotYet DEF B!Init, BuildInv, Staged, Checking

\* An answer that offers nothing.
LEMMA Answered ==
    ASSUME BuildInv, stage' = "answered", answer' \notin {"transfer_prepare", "swap_ready"},
           UNCHANGED <<native, held>>
    PROVE  BuildInv'
BY DEF BuildInv, Staged, Checking, B!OfferPays

\* Two actions before the offer that keep the transaction.
LEMMA TxStays ==
    ASSUME Formed, UNCHANGED <<req, tx>> PROVE Formed'
BY Zenon DEF Formed, B!Payment

LEMMA FeeStays ==
    ASSUME Estimated, UNCHANGED <<req, tx, fee>> PROVE Estimated'
BY DEF Estimated

LEMMA BuildKeeps ==
    ASSUME B!BuildAssumption, BuildInv, B!Build PROVE BuildInv'
<1>1. /\ stage = "building" /\ stage' = "checking" /\ req \in B!Request /\ fee = None /\ fee' = None
      /\ UNCHANGED <<req, fee, failed, native, held, answer>> /\ native = None /\ held \in Nat \cup {None}
      /\ answer = None
  BY DEF B!Build, B!Move, BuildInv, Staged
<1>2. Formed'
  <2>1. CASE req.model = "utxo"
    <3>1. PICK inputs \in B!Selections(req) : tx' = B!Spend(inputs, req)
      BY <2>1 DEF B!Build
    <3>2. inputs \in Seq(CoinsOf) /\ B!Enough(inputs, req)
      BY <1>1, <2>1, SelectedCoins
    <3>3. CoinsPay(tx', req) /\ tx'.amount = req.amount /\ tx'.form = "coins"
      BY <1>1, <2>1, <3>1, <3>2, SpendPays
    <3> QED BY <1>1, <2>1, <3>3, Zenon DEF Formed
  <2>2. CASE req.model # "utxo"
    <3>1. /\ req.model \in {"evm", "account"}
          /\ tx' = B!Payment(IF req.model = "evm" THEN "calldata" ELSE "node-built")
      BY <2>2 DEF B!Build
    <3>2. tx'.amount = req.amount
      BY <3>1 DEF B!Payment
    <3>3. tx' = B!Payment(IF req.model = "account" THEN "node-built" ELSE "calldata")
      BY <3>1
    <3> QED BY <1>1, <2>2, <3>2, <3>3 DEF Formed, B!Payment
  <2> QED BY <2>1, <2>2
<1>3. Estimated'
  BY <1>1 DEF Estimated
<1>4. Staged'
  BY <1>1 DEF Staged, Checking
<1> QED BY <1>1, <1>2, <1>3, <1>4, NotYet DEF BuildInv, Checking

LEMMA CallsKeep ==
    ASSUME B!BuildAssumption, BuildInv, B!BuildCall \/ B!KeepCall PROVE BuildInv'
<1>1. /\ stage = "building" /\ req \in B!Request /\ fee = None /\ fee' = None
      /\ UNCHANGED <<req, fee, failed, native, held, answer>> /\ native = None
      /\ held \in Nat \cup {None} /\ answer = None
      /\ stage' = IF req.model = "none" THEN "offering" ELSE "checking"
      /\ req.model \in {"account", "evm", "none"}
      /\ tx' = B!Payment(IF req.model = "account" THEN "node-built" ELSE "calldata")
  BY DEF B!BuildCall, B!KeepCall, B!Move, BuildInv, Staged
<1>2. Formed'
  <2>1. tx'.amount = req.amount
    BY <1>1 DEF B!Payment
  <2> QED BY <1>1, <2>1 DEF Formed, B!Payment
<1>3. Estimated'
  BY <1>1 DEF Estimated
<1>4. Staged'
  BY <1>1 DEF Staged, Checking
<1>5. stage' = "offering" => Covered'
  BY <1>1, RequestIs DEF Covered
<1> QED BY <1>1, <1>2, <1>3, <1>4, <1>5, NotYet DEF BuildInv, Checking

LEMMA AcceptKeeps ==
    ASSUME B!BuildAssumption, BuildInv, B!Accept PROVE BuildInv'
<1>1. /\ stage = "new" /\ stage' = "building" /\ req' \in B!Request
      /\ UNCHANGED <<tx, fee, failed, native, held, answer>> /\ answer = None
  BY DEF B!Accept, B!Move, BuildInv, Staged
<1>2. Staged'
  BY <1>1 DEF BuildInv, Staged, Checking, B!Request
<1> QED BY <1>1, <1>2, NotYet DEF BuildInv, Checking

LEMMA FactsKeep ==
    ASSUME B!BuildAssumption, BuildInv, B!CheckFacts PROVE BuildInv'
<1>1. /\ stage = "checking" /\ stage' = "pricing" /\ answer = None
      /\ UNCHANGED <<req, tx, fee, native, held, answer>>
  BY DEF B!CheckFacts, B!Move, BuildInv, Staged
<1>2. Formed' /\ Estimated'
  BY <1>1, TxStays, FeeStays DEF BuildInv, Checking
<1>3. Staged'
  BY <1>1 DEF BuildInv, Staged, Checking
<1> QED BY <1>1, <1>2, <1>3, NotYet DEF BuildInv, Checking

LEMMA FeeKeeps ==
    ASSUME B!BuildAssumption, BuildInv, B!CheckFee PROVE BuildInv'
<1>1. /\ stage = "pricing" /\ stage' = IF req.model = "evm" THEN "simulating" ELSE "reading_native"
      /\ UNCHANGED <<req, tx, failed, native, held, answer>> /\ fee' \in B!Fees \cup {None}
      /\ req \in B!Request /\ Formed /\ answer = None
  BY DEF B!CheckFee, B!Move, BuildInv, Staged, Checking
<1>2. Formed'
  BY <1>1, TxStays
<1>3. ASSUME fee' \in B!Fees
      PROVE  /\ fee'.amount \in Nat
             /\ req.model = "utxo" => fee'.amount = tx.fee
             /\ req.model = "evm" =>
                    /\ fee' \in GasEstimate
                    /\ fee'.amount = fee'.gas * fee'.price /\ fee'.price >= fee'.tip
  <2>1. CASE req.model = "utxo"
    <3>1. fee' = B!Estimate(tx.fee, None, None, None)
      BY <1>3, <2>1 DEF B!Fees
    <3>2. fee'.amount = tx.fee
      BY <3>1 DEF B!Estimate
    <3>3. tx.fee \in Nat
      BY <1>1, <2>1 DEF Formed, CoinsPay
    <3> QED BY <2>1, <3>2, <3>3
  <2>2. CASE req.model = "account"
    <3>1. PICK g \in Gas : fee' = B!Estimate(g, None, None, None)
      BY <1>3, <2>2 DEF B!Fees
    <3>2. fee'.amount = g /\ g \in Nat
      BY <3>1 DEF B!Estimate, B!BuildAssumption
    <3> QED BY <2>2, <3>2
  <2>3. CASE req.model \notin {"utxo", "account"}
    <3>1. PICK g \in Gas, p \in Price, t \in Price \cup {0}, b \in Price \cup {None} :
             fee' = B!EvmEstimate(g, p, t, b)
      BY <1>3, <2>3 DEF B!Fees
    <3>2. g \in Nat /\ p \in Nat \ {0} /\ t \in Nat /\ b \in Nat \cup {None} /\ None \notin Nat
      <4>1. Gas \subseteq Nat /\ Price \subseteq Nat \ {0} /\ None \notin Nat
        BY DEF B!BuildAssumption
      <4> QED BY <4>1
    <3> DEFINE e == B!EvmEstimate(g, p, t, b)
    <3>3. e \in GasEstimate /\ e.amount = e.gas * e.price /\ e.price >= e.tip
      BY <3>2, EvmIs
    <3> HIDE DEF e
    <3>4. fee' = e /\ e.amount \in Nat
      BY <3>1, <3>3 DEF GasEstimate, e
    <3> QED BY <2>3, <3>3, <3>4
  <2> QED BY <2>1, <2>2, <2>3
<1>4. Estimated'
  BY <1>1, <1>3 DEF Estimated
<1>5. Staged'
  BY <1>1 DEF BuildInv, Staged, Checking
<1> QED BY <1>1, <1>2, <1>4, <1>5, NotYet DEF BuildInv, Checking

LEMMA GasKeeps ==
    ASSUME B!BuildAssumption, BuildInv, B!CheckGas PROVE BuildInv'
<1>1. /\ stage = "simulating" /\ stage' = "reading_native" /\ req.model = "evm"
      /\ UNCHANGED <<req, tx, native, held, answer>> /\ Formed /\ Estimated /\ answer = None
  BY DEF B!CheckGas, B!Move, BuildInv, Staged, Checking
<1>2. PICK okx \in Gas \cup {None}, sim \in Gas \cup {None} :
         fee' = IF fee # None /\ {okx, sim} \ {None} # {}
                THEN [fee EXCEPT !.gas = B!Max(({okx, sim} \ {None}) \cup {fee.gas}),
                                 !.amount = B!Max(({okx, sim} \ {None}) \cup {fee.gas}) * fee.price,
                                 !.raised = TRUE]
                ELSE fee
  BY DEF B!CheckGas
<1>3. Estimated'
  <2>1. CASE fee' = fee
    BY <1>1, <2>1, FeeStays
  <2>2. CASE fee' # fee
    <3> DEFINE gas == B!Max(({okx, sim} \ {None}) \cup {fee.gas})
    <3>1. fee # None /\ fee' = [fee EXCEPT !.gas = gas, !.amount = gas * fee.price, !.raised = TRUE]
      BY <1>2, <2>2
    <3>2. fee \in GasEstimate /\ fee.price >= fee.tip
      BY <1>1, <3>1 DEF Estimated
    <3>3. gas \in Nat
      <4>1. okx \in Nat \cup {None} /\ sim \in Nat \cup {None} /\ None \notin Nat
        BY DEF B!BuildAssumption
      <4>2. fee.gas \in Nat
        BY <3>2 DEF GasEstimate
      <4> QED BY <4>1, <4>2, RaisedIs
    <3> HIDE DEF gas
    <3>4. fee.price \in Nat /\ gas * fee.price \in Nat
      BY <3>2, <3>3 DEF GasEstimate
    <3>5. /\ fee' \in GasEstimate /\ fee'.gas = gas /\ fee'.amount = gas * fee.price
          /\ fee'.price = fee.price /\ fee'.tip = fee.tip
      BY <3>1, <3>2, <3>3, <3>4 DEF GasEstimate
    <3> QED BY <1>1, <3>2, <3>4, <3>5 DEF Estimated
  <2> QED BY <2>1, <2>2
<1>4. Formed'
  BY <1>1, TxStays
<1>5. Staged'
  BY <1>1 DEF BuildInv, Staged, Checking
<1> QED BY <1>1, <1>3, <1>4, <1>5, NotYet DEF BuildInv, Checking

LEMMA BalancesKeep ==
    ASSUME B!BuildAssumption, BuildInv, B!CheckNative \/ B!CheckHeld PROVE BuildInv'
<1>1. /\ stage \in {"reading_native", "reading_token"} /\ stage' \in {"reading_token", "balancing"}
      /\ UNCHANGED <<req, tx, fee, answer>> /\ Formed /\ Estimated /\ answer = None
      /\ req \in B!Request
  BY DEF B!CheckNative, B!CheckHeld, B!Move, BuildInv, Staged, Checking
<1>2. native' \in Nat \cup {None} /\ held' \in Nat \cup {None}
  <2>1. CASE B!CheckNative
    <3>1. req.model = "utxo" => B!Total(req.coins) \in Nat
      BY <1>1, RequestIs, TotalIs
    <3> QED BY <2>1, <3>1 DEF B!CheckNative, B!BuildAssumption, BuildInv, Staged
  <2>2. CASE B!CheckHeld
    BY <2>2 DEF B!CheckHeld, B!BuildAssumption, BuildInv, Staged
  <2> QED BY <2>1, <2>2
<1>3. Formed' /\ Estimated'
  BY <1>1, TxStays, FeeStays
<1>4. Staged'
  BY <1>1, <1>2 DEF BuildInv, Staged, Checking
<1> QED BY <1>1, <1>3, <1>4, NotYet DEF BuildInv, Checking

LEMMA BalanceKeeps ==
    ASSUME B!BuildAssumption, BuildInv, B!Balance PROVE BuildInv'
<1>1. /\ stage = "balancing" /\ stage' = "offering" /\ UNCHANGED <<req, tx, fee, native, held, answer>>
      /\ Formed /\ Estimated /\ answer = None /\ req \in B!Request
      /\ native \in Nat \cup {None} /\ held \in Nat \cup {None}
      /\ failed' = failed
           \cup {n \in {"balance"} : B!Short}
           \cup {n \in {"token_balance"} : req.token /\ (held = None \/ held < req.checked)}
           \cup {n \in {"gas_balance"} : req.token /\ native # None /\ native < B!FeeAmount}
  BY DEF B!Balance, B!Move, BuildInv, Staged, Checking
<1>2. req.token \in BOOLEAN /\ req.checked \in Nat
  BY <1>1, RequestIs
<1>3. ASSUME failed' = {} PROVE Covered
  <2>1. /\ ~B!Short /\ ~(req.token /\ (held = None \/ held < req.checked))
        /\ ~(req.token /\ native # None /\ native < B!FeeAmount)
    BY <1>1, <1>3
  <2>2. ASSUME native # None, fee # None
        PROVE  native >= fee.amount + (IF req.token THEN 0 ELSE req.checked)
    <3>1. native \in Nat /\ fee.amount \in Nat /\ B!FeeAmount = fee.amount
      BY <1>1, <2>2 DEF Estimated, B!FeeAmount
    <3> QED BY <1>2, <2>1, <2>2, <3>1 DEF B!Short
  <2>3. req.token => held # None /\ held >= req.checked
    BY <1>1, <1>2, <2>1
  <2> QED BY <2>2, <2>3 DEF Covered
<1>4. failed' = {} => Covered'
  BY <1>1, <1>3 DEF Covered
<1>5. Formed' /\ Estimated'
  BY <1>1, TxStays, FeeStays
<1>6. Staged'
  BY <1>1 DEF BuildInv, Staged, Checking
<1> QED BY <1>1, <1>4, <1>5, <1>6, NotYet DEF BuildInv, Checking

LEMMA OfferKeeps ==
    ASSUME B!BuildAssumption, BuildInv, NEW card \in {"transfer_prepare", "swap_ready"},
           B!Offer(card)
    PROVE  BuildInv'
<1>1. /\ stage = "offering" /\ stage' = "answered" /\ UNCHANGED <<req, fee, failed, native, held>>
      /\ Formed /\ Estimated /\ req \in B!Request /\ native \in Nat \cup {None}
      /\ held \in Nat \cup {None}
  BY DEF B!Offer, B!Move, BuildInv, Staged, Checking
<1>2. CASE failed # {}
  <2>1. answer' = "TRANSACTION_PREFLIGHT_FAILED"
    BY <1>2 DEF B!Offer
  <2> QED BY <1>1, <2>1, Answered
<1>3. CASE failed = {}
  <2>1. Covered
    BY <1>1, <1>3 DEF BuildInv
  <2>2. tx' = IF req.model = "evm" /\ fee # None
              THEN [tx EXCEPT !.gas = fee.gas, !.price = fee.price, !.tip = fee.tip] ELSE tx
    BY <1>3 DEF B!Offer
  <2>3. req.model \in {"utxo", "evm", "account", "none"}
    BY <1>1, RequestIs
  <2>4. CASE req.model = "evm"
    <3>1. tx = [form |-> "calldata", amount |-> req.amount, gas |-> None, price |-> None,
                tip |-> None]
      BY <1>1, <2>4 DEF Formed, B!Payment
    <3>2. tx'.amount = req.amount /\ tx'.form = "calldata"
      BY <2>2, <3>1
    <3>3. ASSUME fee # None
          PROVE  /\ tx'.gas = fee.gas /\ tx'.price = fee.price /\ tx'.tip = fee.tip
                 /\ fee.amount = fee.gas * fee.price /\ fee.price >= fee.tip
      <4>1. tx' = [form |-> "calldata", amount |-> req.amount, gas |-> fee.gas,
                   price |-> fee.price, tip |-> fee.tip]
        BY <2>2, <2>4, <3>1, <3>3
      <4> QED BY <1>1, <2>4, <3>3, <4>1 DEF Estimated
    <3>4. B!PaysWithGas'
      BY <1>1, <3>3 DEF B!PaysWithGas
    <3>5. B!OfferPays'
      BY <1>1, <2>1, <2>4, <3>2, <3>4 DEF B!OfferPays, Covered
    <3> QED BY <1>1, <3>5 DEF BuildInv, Staged, Checking
  <2>5. CASE req.model = "utxo"
    <3>1. tx' = tx /\ tx.amount = req.amount /\ tx.form = "coins" /\ CoinsPay(tx, req)
      BY <1>1, <2>2, <2>5 DEF Formed
    <3>2. B!PaysWithCoins
      BY <1>1, <2>5, <3>1 DEF B!PaysWithCoins, CoinsPay, Due, Estimated
    <3>3. B!PaysWithCoins'
      BY <1>1, <3>1, <3>2 DEF B!PaysWithCoins
    <3>4. B!OfferPays'
      BY <1>1, <2>1, <2>5, <3>1, <3>3 DEF B!OfferPays, Covered
    <3> QED BY <1>1, <3>4 DEF BuildInv, Staged, Checking
  <2>6. CASE req.model \in {"account", "none"}
    <3>1. /\ tx' = tx /\ tx.amount = req.amount
          /\ tx.form = IF req.model = "account" THEN "node-built" ELSE "calldata"
      BY <1>1, <2>2, <2>6 DEF Formed, B!Payment
    <3>2. B!OfferPays'
      BY <1>1, <2>1, <2>6, <3>1 DEF B!OfferPays, Covered
    <3> QED BY <1>1, <3>2 DEF BuildInv, Staged, Checking
  <2> QED BY <2>3, <2>4, <2>5, <2>6
<1> QED BY <1>2, <1>3

LEMMA BuildStep ==
    ASSUME B!BuildAssumption, BuildInv, [B!Next]_(B!vars) PROVE BuildInv'
<1>1. CASE B!Refuse \/ B!PrepareFails
  <2>1. /\ stage' = "answered" /\ UNCHANGED <<native, held>>
        /\ answer' \notin {"transfer_prepare", "swap_ready"}
    BY <1>1 DEF B!Refuse, B!PrepareFails, B!Move
  <2> QED BY <2>1, Answered
<1>2. CASE B!BuildFails \/ B!BalanceRaises
  <2>1. /\ stage' = "answered" /\ UNCHANGED <<native, held>>
        /\ answer' \notin {"transfer_prepare", "swap_ready"}
    BY <1>2 DEF B!BuildFails, B!BalanceRaises, B!Raise
  <2> QED BY <2>1, Answered
<1>3. CASE B!Accept
  BY <1>3, AcceptKeeps
<1>4. CASE B!BuildTransfer \/ B!BuildDeposit
  BY <1>4, BuildKeeps DEF B!BuildTransfer, B!BuildDeposit
<1>5. CASE B!BuildCall \/ B!KeepCall
  BY <1>5, CallsKeep
<1>6. CASE B!CheckFacts \/ B!CheckFee \/ B!CheckGas
  BY <1>6, FactsKeep, FeeKeeps, GasKeeps
<1>7. CASE B!CheckNative \/ B!CheckHeld \/ B!Balance
  BY <1>7, BalancesKeep, BalanceKeeps
<1>8. CASE B!OfferTransfer \/ B!OfferSwap
  BY <1>8, OfferKeeps DEF B!OfferTransfer, B!OfferSwap
<1>9. CASE UNCHANGED B!vars
  <2>1. UNCHANGED <<stage, req, tx, fee, failed, native, held, answer>>
    BY <1>9 DEF B!vars
  <2>2. /\ Staged' = Staged /\ (stage' \in Checking) = (stage \in Checking)
        /\ (stage' = "offering" /\ failed' = {}) = (stage = "offering" /\ failed = {})
    BY <2>1, Zenon DEF Staged, B!Request
  <2>3. Covered' = Covered
    BY <2>1, Zenon DEF Covered
  <2>4. B!OfferPays' = B!OfferPays
    BY <2>1, Zenon DEF B!OfferPays, B!PaysWithCoins, B!PaysWithGas
  <2> QED BY <2>1, <2>2, <2>3, <2>4, TxStays, FeeStays DEF BuildInv
<1> QED BY <1>1, <1>2, <1>3, <1>4, <1>5, <1>6, <1>7, <1>8, <1>9 DEF B!Next

\* What is offered for signing can be signed and paid, whatever the coins, rates
\* and balances are.
THEOREM OffersArePaid ==
    ASSUME B!BuildAssumption PROVE B!Spec => []B!OfferPays
<1>1. B!Init => BuildInv
  BY BuildStarts
<1>2. BuildInv /\ [B!Next]_(B!vars) => BuildInv'
  BY BuildStep
<1>3. BuildInv => B!OfferPays
  BY DEF BuildInv
<1> QED BY <1>1, <1>2, <1>3, PTL DEF B!Spec

\* The same of the worlds of Turns.
THEOREM TurnsOfferPays ==
    ASSUME B!BuildAssumption PROVE TurnsSpec => []OfferPays
<1>1. TurnsInit => B!Init
  BY DEF TurnsInit
<1>2. [TurnsNext]_allVars => [B!Next]_(B!vars)
  BY DEF TurnsNext, allVars, buildVars, B!vars
<1>3. B!Spec => []B!OfferPays
  BY OffersArePaid
<1>4. B!OfferPays => OfferPays
  BY DEF OfferPays
<1> QED BY <1>1, <1>2, <1>3, <1>4, PTL DEF TurnsSpec, B!Spec

----------------------------------------------------------------------------

\* The chat turns of Turns are those of ChatTurn: what is proved of them there
\* holds whatever the other worlds do.
THEOREM TurnsAreChats == TurnsSpec => ChatSpec
<1>1. TurnsInit => ChatInit
  BY DEF TurnsInit
<1>2. [TurnsNext]_allVars => [ChatNext]_<<world, chatVars>>
  BY DEF TurnsNext, allVars
<1> QED BY <1>1, <1>2, PTL DEF TurnsSpec, ChatSpec
=============================================================================
