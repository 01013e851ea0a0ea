------------------------------ MODULE SwapOrders ------------------------------
(***************************************************************************)
(* Swaps of several users at one provider: quotes, the order or            *)
(* transaction that is prepared from them, and the registration of the     *)
(* broadcast.  The provider object is shared by all sessions of a process  *)
(* and remembers a quote under its reference, a digest of what the quote   *)
(* was asked with; a session keeps its quote with the fields to prepare it *)
(* without that memory.  OmniBridge prepares a deposit order and attaches  *)
(* the hash to it, Bridgers prepares calldata and creates the order with   *)
(* the hash.                                                               *)
(*                                                                         *)
(* HttpJsonTransport repeats a POST whose answer did not arrive; the       *)
(* provider may have executed it, or execute it later.  Whether it honors  *)
(* the Idempotency-Key is not known.  The coins of all swaps are the same, *)
(* the hash of a swap is the swap, rates and bounds are not told apart.    *)
(***************************************************************************)
EXTENDS Naturals, Sequences, FiniteSets

CONSTANTS
    None,
    Swap, Sender,  \* swaps, and the address of the user of each
    Amount, Recipient,
    MaxAttempts,   \* HttpJsonTransport.max_attempts
    Honors,        \* whether the provider may honor the Idempotency-Key: a set
    MaxAsked,      \* bound: different quotes
    MaxLate,       \* bound: requests that may still be executed
    MaxOrders,     \* bound: orders at the provider
    MaxRestarts    \* bound: restarts of the process

VARIABLES
    provider, honors,
    memory,    \* _quotes of the provider object
    asked,     \* history: what quotes were asked for, and by which swap
    quote,     \* the quote of the session
    stage,
    call,      \* the POST of a swap that is under way
    late,      \* requests that were given up and may still be executed
    pays,      \* whom the order or transaction to be signed pays
    order,     \* the order the session tracks
    orders,    \* at the provider
    replies,   \* the order an Idempotency-Key stands for
    restarts

vars == <<provider, honors, memory, asked, quote, stage, call, late, pays,
          order, orders, replies, restarts>>
setting == <<provider, honors>>

Request == [amount : Amount, recipient : Recipient]

\* What the digest of the quote payload tells apart: the payload of OmniBridge
\* has coins and amount, that of Bridgers the sender as well.
Reference == [amount : Amount, sender : {Sender[s] : s \in Swap} \cup {None}]

PostCall == [of : Swap, kind : {"preparing", "registering"}, ref : Reference,
             amount : Amount, recipient : Recipient, order : Nat \cup {None}, tries : Nat]

OrdersAssumption ==
    /\ None \notin Swap \cup Recipient \cup {Sender[s] : s \in Swap}
    /\ None \notin Nat \cup Request \cup PostCall
    /\ MaxAttempts \in Nat \ {0}
    /\ {MaxAsked, MaxLate, MaxOrders, MaxRestarts} \subseteq Nat
    /\ Honors \subseteq BOOLEAN

\* A digest of the coins only.
RefOfCoins(s, r) == [amount |-> CHOOSE a \in Amount : TRUE,
                     sender |-> IF provider = "bridgers" THEN Sender[s] ELSE None]

Ref(s, r) == [amount |-> r.amount,
              sender |-> IF provider = "bridgers" THEN Sender[s] ELSE None]

Init ==
    /\ provider \in {"omnibridge", "bridgers"} /\ honors \in Honors
    /\ memory = [k \in Reference |-> None] /\ asked = {}
    /\ quote = [s \in Swap |-> None] /\ stage = [s \in Swap |-> "new"]
    /\ call = [s \in Swap |-> None] /\ late = {}
    /\ pays = [s \in Swap |-> None] /\ order = [s \in Swap |-> None]
    /\ orders = <<>> /\ replies = [k \in Reference |-> None]
    /\ restarts = 0

To(s, next) == stage' = [stage EXCEPT ![s] = next]

----------------------------------------------------------------------------
(* Quotes.                                                                 *)

Remember(s, r) ==
    /\ memory' = [memory EXCEPT ![Ref(s, r)] = r]
    /\ asked' = asked \cup {[by |-> s, req |-> r]}
    /\ Cardinality(asked') <= MaxAsked

GetQuote(s, r) ==
    /\ stage[s] \in {"new", "quoted"} /\ To(s, "quoted")
    /\ Remember(s, r)
    /\ quote' = [quote EXCEPT ![s] = r]
    /\ UNCHANGED <<setting, call, late, pays, order, orders, replies, restarts>>

\* Bridgers finds the input of an exact output by quotes of other amounts.
Probe(s, r) ==
    /\ provider = "bridgers" /\ stage[s] \in {"new", "quoted"}
    /\ Remember(s, r)
    /\ UNCHANGED <<setting, quote, stage, call, late, pays, order, orders, replies, restarts>>

\* Without the memory the quote of the session serves.
Meta(s) ==
    LET known == memory[Ref(s, quote[s])]
    IN IF known # None THEN known ELSE quote[s]

----------------------------------------------------------------------------
(* Calls of the provider.                                                  *)

Post(s, from, to) ==
    /\ stage[s] = from /\ To(s, to)
    /\ call' = [call EXCEPT ![s] =
                   [of |-> s, kind |-> to, ref |-> Ref(s, quote[s]),
                    amount |-> quote[s].amount, recipient |-> Meta(s).recipient,
                    order |-> order[s], tries |-> 1]]
    /\ UNCHANGED <<setting, memory, asked, quote, late, pays, order, orders, replies, restarts>>

Prepare(s) == Post(s, "quoted", "preparing")

\* The wallet has broadcast.
Register(s) == Post(s, "prepared", "registering")

\* accountExchange of OmniBridge, updateDataAndStatus of Bridgers.
Creates(c) ==
    c.kind = IF provider = "omnibridge" THEN "preparing" ELSE "registering"

Replayed(c) == honors /\ replies[c.ref] # None

Executes(c) ==
    CASE Creates(c) /\ ~Replayed(c) ->
           /\ Len(orders) < MaxOrders
           /\ orders' = Append(orders, [of |-> c.of, amount |-> c.amount, recipient |-> c.recipient,
                                        hash |-> IF c.kind = "registering" THEN c.of ELSE None])
           /\ replies' = [replies EXCEPT ![c.ref] = Len(orders')]
      [] c.kind = "registering" /\ ~Creates(c) ->
           /\ orders' = [orders EXCEPT ![c.order].hash = c.of]
           /\ UNCHANGED replies
      [] OTHER -> UNCHANGED <<orders, replies>>

\* The order of the answer.
Answer(c) == IF Replayed(c) THEN replies[c.ref] ELSE Len(orders')

Answered(s) ==
    LET post == call[s]
    IN /\ post # None /\ Executes(post)
       /\ call' = [call EXCEPT ![s] = None]
       /\ To(s, IF post.kind = "preparing" THEN "prepared" ELSE "registered")
       /\ order' = IF Creates(post) THEN [order EXCEPT ![s] = Answer(post)] ELSE order
       /\ pays' = IF post.kind # "preparing" THEN pays
                  ELSE [pays EXCEPT ![s] = IF Creates(post) THEN orders'[Answer(post)].recipient
                                           ELSE post.recipient]
       /\ UNCHANGED <<setting, memory, asked, quote, late, restarts>>

\* A handler that fails leaves the session where it was.
Undone(s) == IF call[s].kind = "preparing" THEN "quoted" ELSE "prepared"

Fails(s) == call' = [call EXCEPT ![s] = None] /\ To(s, Undone(s))

\* Every POST is tried again, or the error is raised.
Again(s) ==
    IF call[s].tries < MaxAttempts
    THEN call' = [call EXCEPT ![s].tries = @ + 1] /\ UNCHANGED stage
    ELSE Fails(s)

AnswerLost(s) ==
    /\ call[s] # None
    /\ Executes(call[s]) /\ Again(s)
    /\ UNCHANGED <<setting, memory, asked, quote, late, pays, order, restarts>>

RequestLost(s) ==
    /\ call[s] # None
    /\ late' \in {late, late \cup {[call[s] EXCEPT !.tries = 1]}}
    /\ Cardinality(late') <= MaxLate
    /\ Again(s)
    /\ UNCHANGED <<setting, memory, asked, quote, pays, order, orders, replies, restarts>>

\* An HTTP status or a resCode that is an error, a response without its order.
Rejected(s) ==
    /\ call[s] # None
    /\ Fails(s)
    /\ UNCHANGED <<setting, memory, asked, quote, late, pays, order, orders, replies, restarts>>

ExecutedLate(c) ==
    /\ c \in late /\ late' = late \ {c}
    /\ Executes(c)
    /\ UNCHANGED <<setting, memory, asked, quote, stage, call, pays, order, restarts>>

Restart ==
    /\ restarts < MaxRestarts /\ restarts' = restarts + 1
    /\ memory' = [k \in Reference |-> None]
    /\ call' = [s \in Swap |-> None]
    /\ stage' = [s \in Swap |-> IF call[s] = None THEN stage[s] ELSE Undone(s)]
    /\ UNCHANGED <<setting, asked, quote, late, pays, order, orders, replies>>

Next ==
    \/ \E s \in Swap, r \in Request : GetQuote(s, r) \/ Probe(s, r)
    \/ \E s \in Swap : Prepare(s) \/ Register(s)
    \/ \E s \in Swap : Answered(s) \/ AnswerLost(s) \/ RequestLost(s) \/ Rejected(s)
    \/ \E c \in late : ExecutedLate(c)
    \/ Restart

Spec == Init /\ [][Next]_vars

----------------------------------------------------------------------------

\* docs/app-integration.md:234: the user must check recipient_address before the
\* approval.  What is signed pays the recipient of the quote that was confirmed.
PaysItsRecipient ==
    \A s \in Swap : pays[s] # None => pays[s] = quote[s].recipient

\* Nobody else asked this provider about the same amount, nor did this swap for
\* another recipient.
Alone(s) ==
    \A a \in asked : a.req.amount = quote[s].amount => a = [by |-> s, req |-> quote[s]]

\* A swap that is alone with its amount pays its recipient and tracks an order of
\* its own with its own hash, through lost and late requests, retries, quotes and
\* probes of other amounts and restarts; an honored key keeps it at one order.
OwnOrder ==
    \A s \in Swap : quote[s] # None /\ Alone(s) =>
        /\ pays[s] # None => pays[s] = quote[s].recipient
        /\ order[s] # None => /\ orders[order[s]].of = s
                              /\ orders[order[s]].recipient = quote[s].recipient
        /\ stage[s] = "registered" => orders[order[s]].hash = s
        /\ honors => Cardinality({i \in DOMAIN orders :
                         <<orders[i].of, orders[i].amount>> = <<s, quote[s].amount>>}) <= 1
=============================================================================
