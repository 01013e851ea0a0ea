# wallet-agent: specifications, model checking and proofs

`wallet-agent` is a FastAPI service in front of LangGraph graphs: a chat turn
runs a graph in a background task, streams its progress over SSE, and projects
the result into a *session*, the record of the wallet operation (swap or
transfer) that the App renders and acts on through REST endpoints. State lives
in four places that no transaction spans: the run store (Redis Streams), the
checkpoint of the graph, the session store (SQL, compare-and-set on a
revision), and the outside world (chain, swap provider).

This directory models the parts where those four meet. TLC checks every run
listed in `PROJECT.json`; `tlapm` checks every module whose name ends in
`Proofs`. Section 3 says what each module stands for, 4 what the runs show, 6
what is proved and how, 7 what is left out and what was noticed on the way.

## 1. Inventory

All paths are under `src/src/wallet_agent/` unless they start with `demo-next`.

| component | state it keeps | operations | hard because | correct when |
|---|---|---|---|---|
| run execution (`api/app.py` `run_graph`) and SSE (`stream`, `persistence/runtime.py`, `demo-next/app/page.tsx` `readStream`) | run status, event log, the reader's cursor | run, append, set status, read, yield, reconnect | status and log are read apart, the store fails or trims, the process may die | every retained frame once and in order; the outcome is in the log before the status says so; the session is projected before the client is told |
| conversation lock (`persistence/runtime.py`) | Redis key with a time to live, one renewal task per holder | enter, renew, leave | expiry against a slow or dead holder | nobody enters while a holder still owns the key; no key stays for ever |
| swap broadcast and order tracking (`api/app.py` `broadcast`, `get_swap`, `cancel`, `project_session`; `graph/nodes.py` `react_query_swap_status`) | the session record, the provider's orders | POST broadcast, GET poll, cancel, chat turn | three writers, only two of them under the lock, each between a read and a compare-and-set with a remote call in the middle | the first hash stays, orders shown exist, the outcome is shown in the end |
| swap authorization (`graph/nodes.py` confirmation, allowance and prepare nodes, `graph/routes.py`; `api/app.py` `confirm`, `select_quote`, `approve_broadcast`, `continue_swap`) | graph checkpoint with interrupts, session | request and answer a confirmation, check the allowance, prepare | the graph is resumed, re-entered and projected by five endpoints | no prepared transaction without a confirmation of that quote |
| questions about a swap (`graph/nodes.py` `register_broadcast`, `status_poll`) | checkpoint, session, count of attempts | copy the session, recover the order, ask the provider, project | the count and what was recovered outlive the question they belong to | what is shown is what the provider said |
| transfer (`api/app.py` `prepare_transfer`, `broadcast_transfer`; `graph/nodes.py` `transfer`, `_transaction_preflight`) | session, checkpoint | prepare, broadcast, build and check the transaction | like the swap's; fee and balance are read apart from what is signed | a prepared transfer is broadcast once; what is offered can be paid |
| graph routing and ReAct loop (`graph/build.py`, `graph/nodes.py` `react_agent`, `react_tools`, `finalize_response`) | messages, tool calls, budgets, the cards of the conversation | model call, tools, finalize | limits against loops, batches that fail, what a new quote does to an old card | every turn answers; one card at a time |
| slot-filling graph, task memory and reducers (`graph/nodes.py` `intent`, resolvers; `graph/tasks.py`, `graph/state.py`) | the task, its slots, quotes, bounded history | fill, correct, resolve, invalidate, reset, archive | a slot is derived from others that change later | what was derived for one coin is never used for another; no order is forgotten |
| read-only agent (`graph/read_only.py`, its nodes in `graph/nodes.py`) | plan, queue of calls, facts, budget | plan, tool, observe | cut batches, repeated calls, failing tools | a queued call is run or reused |
| session store (`persistence/store.py`) | rows with a revision | save, get, update, delete | the SQL store reads and writes back apart, also from several processes | an update changes the record as it is then; one that expects a revision finds it |
| providers (`providers/bridgers.py`, `omnibridge.py`, `http.py`) | quotes remembered by reference, order ids | quote, prepare, register, status | one object serves all users; a POST is repeated | a swap has an order of its own, made out to its recipient |
| provider caches (`providers/cache.py`) | entries and locks by key | get or load, evict | eviction while a loader runs | one load at a time |
| checkpoint stores (`persistence/checkpoints.py`) | a lazily opened connection | open, delegate | concurrent first use | one connection |
| chain adapters (`chains/`) | none | balances, fees, building of transactions | units, dust, gas | with the transfer |
| model registry (`models/`), market data (`okx/`, `prices/`, `portfolio.py`), authentication, inspection, observability | caches and clients | queries, conversions | mostly external data | not modelled, see section 7 |

How they interact: `turn` reads the session, builds the graph input, creates
the run and starts `run_graph`; `run_graph` takes the conversation lock, runs
the graph (which calls providers, chains and models), projects the session,
appends the terminal frame and settles the run status. The REST endpoints
`confirm`, `select_quote`, `approve_broadcast`, `continue` and `broadcast` take
the same lock; `GET /v1/swap` and `cancel` do not. `PROJECT.json` lists each
hazard of this code at the line where it bites and the properties that answer
to it.

## 2. Plan

| | modules | composed with | state |
|---|---|---|---|
| 1 | `RunStream`: how the outcome of a turn reaches the client | | checked, proved |
| 2 | `ConversationMutex`, `ConversationLease`: what serializes turns | the second refines the first | checked, proved |
| 3 | `AtomicSession`, `SessionStore`: the record that swap and transfer share | the second refines the first; `MCTurns` | checked, proved |
| 4 | `SwapBroadcast`: the signed swap until its final status | `Sessions` | checked, proved but for liveness |
| 5 | `SwapAuthorization`: from a quote to a prepared transaction | | checked, proved but for liveness |
| 6 | `TransferSession`: the same for a transfer, with the deletion of its conversation | `Sessions` | checked, proved |
| 7 | `ReactTurn`: the conversation graph | `ChatTurn` | checked, proved |
| 8 | `SlotTurn` with `ReadOnlyLoop`: the slot-filling graph | `ChatTurn`, where a read enters the loop | checked, proved |
| 9 | `TransferBuild`: from a request or a prepared swap to the transaction on offer | `Turns` | checked, proved |
| 10 | `SwapOrders`: several users at one provider | `Turns` | checked, proved |
| 11 | `OrderStatus`: questions about a swap over several swaps | `Turns` | checked, proved |
| 12 | `ProviderCache`: the coalescing cache | `Turns` | checked, proved |

Every invariant and every action property of a passing run is a theorem; the
liveness properties are not (section 6). What would come next is about the
model: the reads of a later turn inside `ReadOnlyLoop`, the handlers of
`OrderStatus` split where they await, and the swap's prepare with the
allowance read apart. No module that carries theorems, or is used by one,
declares a `RECURSIVE` operator.

## 3. Modules

**RunStream** models one run. The log is a sequence of event kinds, an event's
id its position. `MarkRunning` ... `Release` are the consecutive awaits of
`run_graph`, so a store failure or a crash can hit between any two;
`OperationFails` is a store or lock operation that raises, before or after it
took effect (`HalfDone`), and goes where Python's `except`/`finally` send it.
`Read`, `Yield`, `CheckStatus` are the generator of
`/v1/agent/stream/{run_id}`; `Receive`, `EndOfStream`, `Reconnect` the reader
of the demo client, whose protocol `docs/app-integration.md` and
`docs/mobile-integration.md` ask of every App. A frame in flight is lost when
the connection breaks. The content of frames is not modelled; nor is the mode
without a graph (`app.state.graph is None`), which exists for tests of the API.

**ConversationLease** models `_RedisLease`: one client per lease object, the
key's time to live in ticks, the renewal task of a holder. A client in `late`
has a stalled event loop, so its timers may fire any time later; the others
fire on time. Each Redis command may raise, with or without its effect.
**ConversationMutex** is the abstract lock; `KeepsMutex` is the refinement
(`inside` = running bodies, `lost` = those whose key is not theirs any more).

**AtomicSession** says what the callers of the session store rely on: one
record, changed in one step, which only takes an update that expects a revision
from a caller whose copy is the record (`fresh`). `SwapBroadcast` and
`TransferSession` read and save their record in these steps. **SessionStore**
is `persistence/store.py` seen from one session: `UpdateMemory` is the
in-memory store's call under its lock; in SQL `UpdateReads` gets the row and
checks the expected revision, `UpdateWrites` is the conditional UPDATE, which
keeps the row locked (`writer`) until `Commit`. `Fails` is an exception or a
cancellation at any point before the commit, and a commit's answer may be lost.
Session ids are drawn by the server and saved once, so a deleted record does
not come back.

**SwapBroadcast** models the handlers that share one swap session after the
transaction was signed. Every handler is split where it awaits: read, chain
probe, lock, provider call, save. A revision is abstracted to the set `fresh`
of handlers that read the record after its last update: an update that expects
a revision succeeds exactly when its handler is fresh. `snap` is the record a
handler holds. `cp` is the checkpoint of the conversation's graph, as far as a turn
takes it to the session: `Entered` is what the input of a turn makes of it (a
hash is in the input only when the session had one), `Finds` what a found order
adds, `Projection` what `project_session` writes. The hash and the broadcast
status of the checkpoint are written even when they are None, and they are None
from the start: the automatic prepare of a fresh swap puts them there
(`app.py:2445-2455`), and `POST broadcast` never touches the checkpoint. So a
turn that read the session before a hash was saved takes the hash away and
leaves the order. `erased` remembers that this happened. Of the status of the
record the handlers only ask whether it is `not_propagated` or `cancelled`; all
other values are `active`, and the stage, which nobody reads, is left out. The
prepared transaction is a Boolean (`pending`), the order is named by its hash.
`QuoteReference` tells the two providers apart: Bridgers registers a hash under
the quote's reference, OmniBridge only under that of the prepared deposit order.
Provider and chain are environment actions; provider status values are
`processing` and two final ones. A chain without an observer takes every hash
for seen (`Observed`).

**MCSwapBroadcast** gives two POSTs the same hash or two hashes. **Sessions**
makes a session one of a swap or one of a transfer, and **MCSessions** gives it
small sets.

**SwapAuthorization** models one conversation from a quote on offer to a
prepared swap. `g` is the graph's checkpoint (selected quote, confirmation with
its status and the quote it was asked for, the interrupt, approval hash,
prepared transaction, authorization stage, the last response's kind and the two
inputs that outlive a turn: `reset` = `operation_reset`, `word` = the last
message in `request` asks to cancel). The nodes are functions of the
checkpoint: `RequestConfirmation`, `AnswerConfirmation`
(`confirmation_request`, `confirmation_wait`), `SwapAllowance` with
`SwapApproval`, `ApprovalStage` and `PrepareSwap` (the branches of
`swap_allowance`), `CancelByWord` (`intent`). `GraphSelect`, `GraphAllowance`,
`GraphTalk`, `GraphPrepare`, `GraphReparse` are the ways an endpoint or a chat
turn enters them, with the input it passes. A request is `Begin` (session read,
early returns), its step under the lock (`Select`, `Approve`, `Reject`,
`Continue`, `Chat`), and `Projection` after it, for select-quote also
`FinishSelect`. A chat turn, and a confirm that ends in the approval interrupt,
project under the lock. `Project` is `project_session`.

What is abstracted: the session's status and stage are one field, except that a
stage `cancelled` is kept as `closed`; a quote stays on offer once it was; the
approval on display is that of the session's quote; a node that raised leaves
`pending`, which no endpoint but a reject resumes; each remote call of
`swap_allowance` may fail, charged to `MaxFaults`; the deadline of a
confirmation is the action `Expire`; nothing is broadcast (then `SwapBroadcast`
takes over), the stores do not fail, and what the model in the chat decides
(talk, quote a swap, reuse a quote) is free.

**TransferSession** models one conversation about plain transfers: `POST
/v1/transfer/prepare`, chat turns that prepare a transfer or speak of something
else, `POST .../broadcast` and the deletion of the conversation. Each is split
where it awaits: `PrepareCheck`, `PrepareRun`, `PrepareRead` (the projection
reads after the lock was released) and `PrepareProject`; `ChatRead`, `ChatRun`,
`ChatProject`; `PostCheck` (the first look at the hash and the probe),
`PostEnter` (the second look, under the lock) and `PostSave`; `DeleteSession`
and `DeleteThread`. A prepared transfer is a card with a number, `accepted` is
the history of hashes saved for the card of the session. `fresh` is as in
`SwapBroadcast`; `Lost` ends a request with its process. The checkpoint's hash
is `Absent` in a conversation that begins with the transfer, and None in one
that had a swap or a reset before: the first is not projected, the second is,
over a hash that was saved meanwhile (`erased`).

**ReactTurn** models the graph of the split mode: `ReactEntry`, rounds of
`react_agent` and `react_tools`, `finalize_response`, and the lifecycle node
that asks for the confirmation of the quotes of the turn. `hops` counts
LangGraph's supersteps next to `steps`, the code's own limit. A message of the
transcript is kept as what `finalize_response` tells apart; the tools observe
arbitrary results, time out or raise as a whole batch. `Answer` and `Broadcast`
are the user between turns. A crash leaves the checkpoint of the last
superstep.

**SlotTurn** models the graph that answers every turn when the graphs are not
split, and the reparse of a message that meets a confirmation: `Supervisor`,
the intent node with its reset, correction and cancellation, the resolution of
coins, amounts and addresses, `quotes`, the transfer, the archive of
operations. What a message says of each slot is a nondeterministic choice; the
code's invalidation of what depends on a slot is the model's. A sum carries the
coin it was said for, and token metadata the coin it describes; the code keeps
no such marks, the properties need them. Neither does it know of `abandoned`,
which remembers that the extraction of a message failed after the reset of the
operation was due (section 7): of such a thread only `SlotsAgree` speaks.

**ReadOnlyLoop** models the nodes `read_only_agent`, `read_only_tool` and
`read_only_observe`: which of the three kinds of models plans, the cut of a
batch with its queue, calls that were made before, replans, facts and the round
limit. **ChatTurn** is the deployment's choice between `ReactTurn` (`react`) and
`SlotTurn` (`slots`), and enters the loop where `SlotTurn` reaches a read in the
first turn of a conversation; a read in a later turn, or about a transaction, is
the single step `ReadAnswers`.

**TransferBuild** models the `transfer` node and the end of `swap_allowance`: a
request, or what a provider prepared (`order` or `call`data), becomes a
transaction by the kind of chain (`BuildTransfer`, `BuildDeposit`, `BuildCall`,
`KeepCall`), then `_transaction_preflight` goes on check by check: facts, fee,
gas of the wallet provider and its simulation, native balance, token balance,
comparison, card. Bitcoin's selection of coins, the fee of their real size with
a memo, the dust limit, and EVM's gas price are computed as in the adapters, in
integers. Coins of equal value may come in any order (`LargestFirst`; the
code's order is that of the node). Balances may differ from the coins that were
selected: they are read later.

**SwapOrders** models one provider object that several users share: `GetQuote`
and `Probe` (a quote nobody keeps) write its memory under a digest, `Prepare`
reads it, `Register` reports the broadcast. A POST may be answered, its answer
or the request may be lost (then it is repeated up to three times), or it may
be executed after it was given up. Whether the provider honors the idempotency
key is a choice at the start. A restart forgets the memory.

**OrderStatus** models questions like "how is my swap going" over several swaps
of a conversation: the turn copies the session into the checkpoint,
`register_broadcast` and `status_poll` find out, the projection writes back,
and in between the App prepares, broadcasts, recovers and polls. `attempts` is
the code's counter; `missed` counts the questions that really learned nothing.
Unlike in `SwapBroadcast` a handler of the App is one step here.

**ProviderCache** models `AsyncTTLCache`: a caller finds a fresh entry, waits
for the key's lock, loads and stores, or its loader fails; at capacity the
oldest entry goes with its lock. `dropped` remembers the keys this happened to
under a caller.

**Turns** puts seven worlds next to each other: `react` and `slots` of
`ChatTurn`, `build`, `orders`, `status`, `cache`, `store`. One is chosen in the
initial state and only it takes steps; a property speaks of its own world.
**MCTurns** gives it small sets, one initial choice of what the worlds at rest
leave alone (`MCInit`), and starts with one of the interchangeable swaps and
values (`Representative`).

## 4. Runs

| run | asks | result |
|---|---|---|
| `run_stream` | does the outcome of a run reach its client, once and in order? | holds |
| `lease` | does the lease keep the promise of the abstract lock, and does everybody get an answer? | holds |
| `lease_serial` | does the lease serialize turns, as the repository's README says? | **violated**: a renewal that raises stops silently, the body goes on without the lease |
| `swap_broadcast` | do broadcasts, chat, polls and cancel on one session agree on hash, order and outcome, until a turn has erased a saved hash, and is what is shown then still what a provider said? is a prepared transfer broadcast once, whatever prepares, chat turns and a deletion do in between? | holds |
| `turns` | does a turn answer within its budget, with a paired transcript and one card; do slots, quotes and confirmation agree and is no order lost; does a queued read run; can the transaction on offer be signed and paid; does a swap that is alone keep an order of its own; is a status what the provider said; is a catalog loaded once at a time; is the session store the atomic record its callers take it for? | holds |
| `shared_quote` | does what is signed pay the recipient that the user approved? | **violated** with OmniBridge: two users with the same coins and amount share one remembered quote |
| `swap_broadcast_omni` | does a passive GET heal a swap that was saved as not visible? | **violated** with OmniBridge: a chat turn drops the reference the registration needs |
| `swap_broadcast_other_hash` | is a second hash for one session refused, as `docs/mobile-integration.md` says? | **violated**: a turn that read the session before the first hash was saved erases it, then a second one is accepted |
| `swap_authorization` | does a rejection hold, does the transaction on display belong to the quote on display, is nothing prepared before its allowance, does a confirmed swap become ready? | holds |
| `swap_authorization_approval` | is a session with an approval hash past its confirmation, as `confirm` assumes? | **violated**: the hash of one swap survives into the next one of the conversation, whose confirmation nobody can then answer |
| `swap_authorization_select` | does every selection ask for a confirmation? | **violated**: the last chat message cancels the selection, the session says it awaits one |
| `swap_authorization_unconfirmed` | is what is prepared always what was confirmed? | **violated**: a continue after a confirmation that was dropped prepares the session's quote |

Bounds. `RunStream`: two updates and a terminal frame, pages of two and a
retention of two make a run span two pages and lose frames to trimming; one
fault reaches every handler; two broken connections and a page boundary reach
both sides of the three retries. `ConversationLease`: three clients give a
waiter behind a waiter; a lease of two ticks with a period of one lets a late
client lose its key; one raising command is enough for every failure path.
`SwapBroadcast`: two hashes and two POSTs give a retry and a conflict, one of
each other handler gives every pair of writers, one fault reaches each failing
call. `TransferSession`: two POSTs with different hashes, one prepare, two chat
turns, one deletion and two cards give a hash between a card and the next, and
a run that projects after the deletion; both kinds of
checkpoint give a turn that erases a hash and one that does not. `SwapAuthorization`: two quotes, one of
a native coin, give both branches of the allowance and a stale confirmation;
two hashes give a second approval after a failed one; five requests besides
`continue`, which is not bounded, are a selection, an answer, an approval and
two chat turns between them, and one failing call reaches each exit. The run
has one request in flight, with the approvals, the cancel and time interleaved
between its steps. With two, `PendingOfQuote` fails in about eight steps and
the code does not exclude it: a continue reads the session, a chat turn quotes
another swap, the continue puts the older quote into that swap's checkpoint and
both project. The other properties hold with two requests as well (checked apart
with three requests), and the theorems cover any number. The three violations
need three to six requests and no fault.

`ReactTurn`: two steps of the loop and a recursion limit of 7 = 2 * 2 + 3 are
the tightest that suffice (the code's 8 and 25 are looser; the theorem covers
all); two turns and two quotes give an old card and a better new quote; two
calls besides reads make a batch; the first turn does not come from the page of
an order, which then has none to be about. `SlotTurn`: two symbols and two
chains, one of which has a coin of its own; messages that speak of one, two and
one slot: a correction that changes two slots at once after one was filled; two
broadcasts with a history of two. `ReadOnlyLoop`: three rounds, batches of
three cut to two calls: the queue is used, and the round limit meets a full
queue (the code's limits are four rounds and four calls, the same cases with more of
both).
`TransferBuild`: up to three coins of two values and two families of addresses,
amounts that leave change above, at and below the dust limit or cannot be paid,
a fractional fee rate, a memo that needs the longer push. Coins come address by
address, each the largest first, as the adapter asks for them. `SwapOrders`:
two users, two amounts, two recipients, one late request, one restart, two
orders; the two swaps, amounts and recipients are interchangeable, so that runs
start with one of them (`FirstAsked`). `OrderStatus`: three polls allowed and
four questions over two swaps, so that the count of the first swap matters for
the second. `ProviderCache`: three callers of one key, two of another, room for
one entry. `SessionStore`: two requests, two fields and two revisions: both
updates of a race read before either writes, and a deletion or another update
comes between. `PaysItsRecipient` needs two quotes and one prepare.

Deadlock checking is off in every run because each system really stops: a run
ends, a lease is used once, requests are answered.

## 5. Fairness

`RunStream`: the event loop runs a ready task, the generator and a client that
wants the outcome go on; nothing is assumed of failures, expiry or crashes.
`ConversationLease`: time passes, a waiter polls, a renewal and a release that
are due happen; a body may run for ever, a late client too. `SwapBroadcast`: the
App polls and each poll is carried on (as `app-integration.md` tells it to), the
provider settles an order whose deposit is confirmed. Nothing is assumed of
broadcasts, turns and cancels, and the chain is not fair: a transaction may stay
unseen. In `swap_broadcast_omni` alone every request that was started is carried
on too (`FullyFairSpec`), so that its counterexample is not one of a request
that stopped. `SwapAuthorization`: a
request that was taken goes on, and the App sends `continue` again and again,
as `docs/app-integration.md` has it do until `swap_ready`; nothing is assumed
of users, chat, approvals or the chain, so `ReadyInTheEnd` speaks of swaps that
are confirmed and allowed and stay so. The other modules state safety only:
their turns end by the bounds of the code (`BudgetSuffices` says so of the
ReAct loop without fairness: no behaviour reaches the recursion limit).

## 6. Proofs

All 27 invariants and the 8 action properties and refinements of the passing
runs are theorems, for every value of the constants; PROJECT.json says which
theorem states which property. A property that a run reaches through an
`INSTANCE` has two theorems: one of the module on its own (`OrdersAreOwn`), one
of the composition the run checks (`TurnsOwnOrders`), whose steps are steps of
the module or leave its variables alone.

**RunStreamProofs** proves seven properties for all bounds, page sizes and
retentions. Delivery rests on `StreamInv`: `WireInv` (frames in flight increase
and lie between what was parsed and the cursor), `CursorInv` (what was read and
not yielded follows the cursor without a retained gap) and `Coverage` (every id
up to a frame is parsed, in flight, or no longer retained). `NoGap` alone is
not inductive: a reconnect sets the cursor from what the client parsed, and the
frames between must still be accounted for. The outcome rests on `OutcomeInv`,
which says per program counter which terminal frame the log already holds, and
on `faults = 0` for what is clean. `GiveUpBound` needs to know why a retry that
no broken connection explains is rare: `BoundInv` says that each connection
that closed before the terminal frame consumed a page (`Progress`), that after
a terminal status the last frame is a terminal one (`EndInv`), and that the
cursor is what the wire ends with (`CaughtUp`); so the clean closes are at most
one per page of the log.

**ConversationLeaseProofs** proves three properties and the refinement for
every set of clients and all lease, period and wait lengths. `HealthyOwns` is
inductive together with `TypeOK`: a tick takes one from `ttl` and adds one to
`age` of a holder on time, and `Period < Lease` (an assumption the code's third
of the lease justifies) keeps the key alive until the renewal. The refinement
needs that a client outside owns nothing that a body relies on.

**SwapAuthorizationProofs** proves three properties for every set of quotes,
hashes and requests in flight. As the nodes are functions of the checkpoint,
each proof has one lemma per function and a short case analysis of the actions.
Type correctness is inductive with `SlotsOK` (a request that was taken holds
the session it read, a projection its result). `RejectionHolds` is not
inductive: a user may say no while something is prepared, unless the graph
never asks while something is; `Bounded` adds that a checkpoint waiting for a
confirmation has no prepared transaction, which select and chat turns establish
by dropping it first. `PreparedAllowed` follows from the types alone: `Kept`
says of every function that what it prepares is what was prepared or is
allowed, because `swap_allowance` reads the allowance on each way to `prepare`.
`OfferIsOfQuote` is about requests that do not overlap
(`Spec /\ []OneAtATime => []PendingOfQuote`; with overlapping ones the code
does not have the property, see section 4): `Offered` says that checkpoint and
session speak of one quote, except while the result of a run is on its way to
the session. The hypothesis is what the run has with its one slot.

**SessionsProofs** proves types and five properties of the swap's session for
all sets of hashes and requests and every number of faults, and one of the
transfer's. The properties have a part that holds whatever a turn erases, and a
part that holds until one has, and so has the invariant. `IInv` is `TypeOK` and
`Kept`: session and checkpoint are `Grounded` (an order is one the provider
knows, a confirmed broadcast and a final status are some order's), and so is
what each handler holds at its place in the code (`Snapshot` of every record in
a hand; `PostKept`, `PollKept`, `ChatKept`). `Agreement` is the second layer: the
records are `Sound` (their order is their hash's, what they show as final is
what became of that order), the checkpoint's hash is the session's or none, and
each handler `Agrees` with the session (its record is of the session's hash or
from before it; a fresh handler's is the session). Every step keeps the first
layer; it keeps the second unless it erases a hash, and a history variable once
true stays true (`ErasedStays`): so `[](IInv /\ (erased \/ Agreement))`.
`StillTrue` says that what the provider told a handler stays true, because
orders are never forgotten and a settled one never changes (`OutcomeGrows`).
`OrderIsRegistered` alone is not inductive: a handler about to save must already
know that the provider has the order. `CancelWins` needs in addition that a poll
that asks the provider read a session that was not cancelled (`Asked`): its
update expects the revision it read, so a cancel in between refuses it. For the
transfer, `Closed` adds to `OneHashPerCard`, until a hash was erased, that
whoever is fresh is a broadcast that read an open session: then nothing was
accepted before, and a save by compare-and-set accepts one hash. Types are not
needed beyond the domain of the record, which `Closed` states.

**SessionStoreProofs** proves that the store implements `AtomicSession`
(`StoreIsAtomic`) for all callers, fields and revisions. `record` is the data
of the committed row, `fresh` the callers whose revision is the row's. A read
for an update is a read of the abstract record, the conditional UPDATE a
stutter, the commit the update. The invariant: revisions only grow
(`CopiesAreOld`), so what an update has read is the row as long as the two have
one revision (`BaseIsRow`), and it is the row while the update holds it
(`WriterHolds`). Without the condition in the UPDATE the last does not follow
from the second.

**ReactTurnProofs** proves the four properties of the conversation graph for
all limits and sets. `Within` ties the supersteps to the code's steps at every
node (1 + 2 * steps at the agent), from which the recursion limit is out of
reach when `2 * MaxReactSteps + 3 <= RecursionLimit`: the hypothesis of the
theorem, true of the default (8 and LangGraph's 25) and not of every value
`config.py` accepts. `Cards` says that a waiting confirmation means an idle
graph with neither a prepared transaction nor an order, and what the turn holds
where it asks for one.

**SlotTurnProofs** proves the types and three properties of the slot-filling
graph and `QueueRuns` of its read-only loop, for all coins, chains, amounts,
providers and lengths of a conversation. `SlotInv` has the checkpoint's types,
`Sound` (sums, metadata and recipients are of the coins of their slots),
`Places` (what stands at each place of a turn), `AtNode` (what each node may
rely on) and `Together`, of a thread that abandoned nothing: `Coherent` (the
status of the task, what is on offer and what was broadcast fit each other),
`Quoted` (quotes and confirmation are of the slots) and `KeptIn` (an order that
was placed is in the checkpoint or in the history). Without `~abandoned` it is
not inductive, and TLC shows the behaviours of section 7. `ReadInv` bounds the
loop and says that calls that wait are left only for a failure.

**TurnsProofs** has the other worlds.
- `StatusInv`: both copies of the swap claim no more than the exchange
  (`TrueOf`), and each swap adds at most one to the attempts that learned
  nothing (`Counted`, strictly fewer while no order is known), by the place in
  the turn (`AskingFor`).
- `OrderInv`: a remembered quote, a call in flight or late, a reply and an
  order only ever stand for what somebody asked (`Recalled`, `QuoteAsked`,
  `CallOf`, `CallFor`, `OrdersGood`), so whatever has the amount of a swap that
  is alone with it is that swap's; `Tracks` ties a swap to its order. The
  property speaks of swaps and orders only and says nothing of what a late
  request may still carry, without which no step preserves it.
- `CacheInv`: as long as a key's lock was not dropped, whoever waits or loads
  for the key has its lock, and who loads holds it (`Locked`).
- `BuildInv`: what each stage has established. `Formed`: the transaction is that
  of the request, and with coins `CoinsPay`, which holds of every selection that
  is `Enough` (`SpendPays`: by the branches of `Settle`; the fee of fewer
  outputs is not larger, `FeeIs`). `Estimated`: the estimate adds up and its tip
  is below its price (`EvmIs`), also once the gas limit was raised
  (`RaisedIs`). `Covered`: no balance that was read is short.
- `TurnsAreChats`: a behaviour of the composition is one of `ChatTurn`.

Sums over coins are recursive functions, and the induction theorems of the
library take an operator, which no backend here instantiates. The lemmas that
need induction take the least element of the set of counterexamples instead
(`FirstOne`): `SumsExist` and `SumsAre` for sums, and the places of a
transcript or a queue.

Assumptions. Theorems assume what the modules name of their constants
(`BroadcastAssumption`, `BuildAssumption`, ...), and TLC evaluates these in the
runs. Most of them are types and the names of values being apart (`None` is no
number, no task, no request). Those that say something of the system: a renewal
period shorter than the lease; a gas price above zero (section 7); `2 *
MaxReactSteps + 3 <= RecursionLimit`, an assumption of one theorem;
`[]OneAtATime`, of one more.

Only model-checked is liveness, as TLAPS here has no ENABLED:
`OutcomeReachesClient`, `WaiterAnswered`, `KeyReclaimed`, `StatusSettles`,
`ReadyInTheEnd`. That the loops of the code compute `Selections`, `Sum` and the
folds of `SlotTurn` is by their definition here.

Attempts at these proofs corrected the models where they could not be reasoned
about: guards of a `CASE` that overlapped (`ReadOnlyLoop.Route`,
`ReactTurn.ToolChips` and `OfferedChips`, `TransferBuild.MemoVbytes`), a call
in `SwapOrders` without a type of its own (`PostCall`), an entry of the cache
removed by a filter of sequences (`RemoveFirst` now), sums and the order of
coins that no prover could unfold.

## 7. Not modelled

| left out | why |
|---|---|
| formatting, localization, prompts, model output, classification of intents, observability | what the model says and understands is an input of every module |
| price conversion and listing of coins, address conversion, pins of a provider, sender addresses of other chains | values that the properties do not tell apart; the checks on them are facts that hold or fail in `TransferBuild` |
| market data, portfolio, explorer queries, inspection, conversation lists | read-only views of external data |
| authentication and signatures of requests | decided on single requests |
| model registry | which model answered is told apart nowhere; its trace is for logs |
| checkpoint savers | they delegate to LangGraph and open a connection on first use; the SQLite saver does so without a lock, which at worst leaks a connection |
| connection pool, schema migration and listing of the session store | the first two run before a session is touched, the last reads many |
| the in-memory run store and lock | the cases of the Redis ones without trimming, expiry and failures |
| the status question of a transfer, Solana's builder | the first only reads the chain; the second builds like TRON's native transfer |
| evaluation harness | simulators; of the demo only its stream reader is modelled |

Code that no behaviour reaches has no action: the `prepare` node of the
lifecycle graph behind `swap_allowance` (which prepares itself), the fallback
by reference in the supervisor (its names do not match the node's), the branch
of `register_broadcast` for a broadcast that is visible and has no order.

Noticed while modelling, beyond the runs that refute a statement of the
repository:

- Of a swap that names what it buys, the request carries the placeholder amount
  1 (`nodes.py:5268`); the preflight of the prepared swap checks the balance
  for it and not for the amount of the quote (`nodes.py:10856`), so a card may
  be offered that the wallet cannot pay. `OfferPays` states what is left: the
  placeholder and the fee are there.
- The details of a failed balance check read `fee.amount_raw` (`nodes.py:5099`)
  of what is a dictionary once the gas limit was raised: the answer is an
  exception instead of the failed check (`BalanceRaises`). In `swap_allowance`
  nobody catches it.
- `config.py:44` accepts up to 32 ReAct steps; with 12 or more LangGraph's
  recursion limit of 25 is met first and the turn ends in an exception (the
  hypothesis of `TurnsAreAnswered`).
- The reset of an operation is computed before the slots of a message are
  extracted (`nodes.py:9166-9201`), and when the extraction raises, the early
  return (`nodes.py:9244`) replaces the task and drops the reset. The swap that
  was broadcast stays in the state; if the clarified message then leaves the
  task behind (`nodes.py:9403-9424`), its hash goes, its selected quote does
  not, and that quote is preferred to the new ones (`nodes.py:10374-10384`): in
  seven turns the App asks to confirm the quote of swap A while the slots say B.
  In six an order is lost without being archived. `OrderKept` and
  `AskedForSlots` are stated of threads in which this did not happen
  (`~abandoned`).
- An EVM node that reports the gas price 0 and no base fee gets a tip of 1 above
  that price (`evm.py:211-214`, `222`), which no node accepts; the proofs assume
  `Price \subseteq Nat \ {0}`.
- A crash between the agent and its tools leaves calls without answers in the
  transcript (`TranscriptPaired` excludes it by `faults`).
- The count of status questions survives the operation it counted
  (`StatusIsProviders` allows one per swap), and an order that was recovered is
  dropped when the provider's status cannot be read.
- `app.py:150-151` says of the final order states that nothing is left to poll
  once they are reached. A chat turn that asked the provider before a poll saved
  the final status writes the older one over it (`app.py:2186-2198` after a
  conflict): a finished swap is shown in flight until the next poll.
- After a turn has erased the hash of a swap (`swap_broadcast_other_hash`), the
  order and its status stay, and a second broadcast replaces the order and not
  the status: a final status of the first hash is shown with the second, and no
  poll asks again. `FirstHashWins`, `AnswerStands`, the second halves of
  `OrderIsRegistered` and `ConfirmedMeansSettled`, and `StatusSettles` are
  stated until then.
- A transfer's broadcast looks at the hash again under the lock, not at the
  card: a hash posted for one card may be saved for the next. The same hash
  posted again after a chat turn dropped the card is answered 409, although
  `docs/app-integration.md:291` calls it idempotent. In a conversation whose
  checkpoint has an explicit None, a late projection erases the hash of a
  transfer as it does that of a swap, and a second one is accepted
  (`OneBroadcastPerCard` is stated of conversations in which it did not happen).
- Deleting a conversation deletes the first session of its thread only, and a
  run in flight writes the checkpoint again.
- A wallet-read tool that raises after an earlier call of the same tool
  succeeded is answered from the older fact; calls still queued at the round
  limit are dropped (`QueueRuns` allows that).
- An update that expects no revision is never refused by the in-memory store,
  which the tests use, and may be by the SQL store, when another one commits
  between its read and its write: `cancel` (`app.py:3040`) and the renaming of
  a conversation (`app.py:1904`) do not catch the conflict. `StoreIsAtomic`
  allows the refusal; nothing is lost by it.
- Locks of keys whose loader always fails stay in the cache's table.
- Coins are selected by value, not by what they are worth after their own fee:
  a payment may be refused that other coins could make; the fee of a selection
  never falls below the rate.
