-------------------------------- MODULE Turns --------------------------------
(***************************************************************************)
(* A chat turn and what its nodes call, each a world of its own, of which  *)
(* one takes the steps: "react" and "slots" are the graphs of ChatTurn; in *)
(* "build" the transaction of a transfer is built, in "orders" users swap  *)
(* at one provider, in "status" a user asks how the swap is going, in      *)
(* "cache" callers ask for catalogs, and in "store" requests update a      *)
(* session.                                                                *)
(***************************************************************************)
EXTENDS ChatTurn

CONSTANTS
    CoinSets, Outputs, Rates, Amounts, MemoSizes, Balances, TokenBalances, Gas, Price,
    Swap, Sender, Amount, Recipient, MaxAttempts, Honors, MaxAsked, MaxLate, MaxOrders,
    MaxRestarts,
    Keeps, Rebuilds, MaxPolls, MaxQuestions, MaxSwaps,
    Caller, Key, KeyOf, MaxEntries,
    Updater, Field, Value, Blank, MaxRevision

VARIABLES
    stage, req, tx, fee, failed, native, held, answer,
    provider, honors, memory, asked, quote, ostage, call, late, pays, order, orders,
    replies, restarts,
    exchanger, source, exchange, sess, tcp, node, saidStatus, questions, swaps, missed,
    entries, stale, lockOf, holder, waitsFor, at, dropped,
    kind, row, born, writer, seen, update, base, told

B == INSTANCE TransferBuild

O == INSTANCE SwapOrders WITH stage <- ostage

T == INSTANCE OrderStatus WITH provider <- exchanger, cp <- tcp, said <- saidStatus

C == INSTANCE ProviderCache

R == INSTANCE SessionStore WITH Caller <- Updater, call <- update

buildVars == <<stage, req, tx, fee, failed, native, held, answer>>
orderVars == <<provider, honors, memory, asked, quote, ostage, call, late, pays, order,
               orders, replies, restarts>>
statusVars == <<exchanger, source, exchange, sess, tcp, node, saidStatus, questions, swaps,
                missed>>
cacheVars == <<entries, stale, lockOf, holder, waitsFor, at, dropped>>
storeVars == <<kind, row, born, writer, seen, update, base, told>>

TurnsInit ==
    /\ world \in {"react", "slots", "build", "orders", "status", "cache", "store"}
    /\ ChatInit /\ B!Init /\ C!Init /\ O!Init /\ T!Init /\ R!Init

TurnsNext ==
    \/ /\ ChatNext
       /\ UNCHANGED <<buildVars, orderVars, statusVars, cacheVars, storeVars>>
    \/ /\ world = "build" /\ B!Next
       /\ UNCHANGED <<world, chatVars, orderVars, statusVars, cacheVars, storeVars>>
    \/ /\ world = "orders" /\ O!Next
       /\ UNCHANGED <<world, chatVars, buildVars, statusVars, cacheVars, storeVars>>
    \/ /\ world = "status" /\ T!Next
       /\ UNCHANGED <<world, chatVars, buildVars, orderVars, cacheVars, storeVars>>
    \/ /\ world = "cache" /\ C!Next
       /\ UNCHANGED <<world, chatVars, buildVars, orderVars, statusVars, storeVars>>
    \/ /\ world = "store" /\ R!Next
       /\ UNCHANGED <<world, chatVars, buildVars, orderVars, statusVars, cacheVars>>

allVars == <<world, chatVars, buildVars, orderVars, statusVars, cacheVars, storeVars>>

TurnsSpec == TurnsInit /\ [][TurnsNext]_allVars

----------------------------------------------------------------------------

\* What is offered for signing can be signed on its chain and paid.
OfferPays == world = "build" => B!OfferPays

\* A swap that is alone with its amount has an order of its own.
OwnOrder == world = "orders" => O!OwnOrder

\* docs/app-integration.md:234 has the user check recipient_address before the
\* approval: what OmniBridge is then paid for goes to that address.
PaysItsRecipient == world = "orders" /\ provider = "omnibridge" => O!PaysItsRecipient

\* What is shown of an order is what its provider said.
StatusIsProviders == world = "status" => T!StatusIsProviders

\* Of the catalogs' cache: one load at a time.
Coalesced == world = "cache" => C!Coalesced

\* The session store is the atomic record its callers take it for.
StoreIsAtomic == R!StoreIsAtomic
=============================================================================
