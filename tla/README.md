# Verification of WSTF

TLA+ models of the WSTF chain node (`src/`, TypeScript), the TLC runs that check them on small
instances, and theorems about them that the TLA+ proof system checks. Paths below are relative
to the node's code, `src/src/`, unless they name a document of the repository.

## The system

The node is one Node.js process. A transaction is validated, admitted to the mempool, executed
as a program of instructions, and included in a block; blocks form a tree of which the heaviest
branch counts. Around this core sit stores (tokens, variables, organisations, approvals,
markets), a fast path that predicts the fate of a transaction before it is mined, a journal that
writes state diffs to other chains, readers that follow the chain, and a runner that pays out
bridge requests elsewhere.

Nothing is multi-threaded. What interleaves are async functions: each `await` lets another call
run, and most stores are only reached through awaits. State lives in memory except where the
RocksDB adapter or a snapshot is used.

### Components

| component | state it keeps | operations | what makes it correct |
|---|---|---|---|
| `markets` | orders, price levels, cached best prices, escrow, trades, grids | create market, place, cancel, match, create and cancel grids | levels agree with orders; escrow covers them; best price first, older first; no trade beyond a limit; closed orders stay closed |
| `chain`, `block` | headers, bodies, chainwork, height index, tip, program state | validateBlock, putBlock, processBlock, initGenesis | parents stored before children; chainwork adds up; the tip is the heaviest stored block |
| `sync` | peers, header chain, block downloads, orphan pool | locator, HEADERS, BLOCKS, new blocks, orphan re-check | a block is handed on after its parent; a download ends |
| `p2p` | listed peers, seen items, rate limits | handshake, INV, DATA, relay, stop | an item is taken and relayed once |
| `mempool` | transactions by hash and by sender and nonce, orphaned list | add, remove, evict, reconcile after block and reorg | the indexes agree within the limits; what leaves has a reason |
| `fastpath`, `trust` | pending index, ring of recent transactions, confirmation tiers | onAdmit, onCommit, push, check, track, handleReorg | a preflight overlooks nothing it knows; a tier is earned and kept |
| `executor`, `instructions`, `tx`, `validator` | none of their own; reads and writes of one program | executeProgram, validateTxV2 | a failed program writes nothing |
| `tokens` | tokens, balances, allowances, NFT instances, SFT classes | deploy, mint, burn, transfer, approve, pause | supply equals the sum of balances; one owner at a time |
| `vars` | namespaces, records with versions, access lists | set, delete, batch, grant, revoke | versions are consecutive, an atomic batch that nothing disturbs is all or nothing |
| `accounts` | organisations, units, roles, members; approval policies and requests | create, update, sign, reject, execute | a request is approved by a quorum of its policy; ended requests stay |
| `economics`, `paymaster` | balances, fees, rent records; deposits and vouchers | charge, collect, reactivate, sponsor, revoke, expire | no money appears or is lost; no voucher over its gas |
| `journal` | pending blocks, writers, checkpoint | addKDepthBlock, processReadyBatches, flush | in one run of the process a final block is journalled once and counted |
| `events` | event log, clients of the stream, kept events | addEvents, removeByBlock, addClient, broadcast, heartbeat | a client gets each event it asked for |
| `indexer`, `mirror` | indexed transactions and changes; cached values | index, roll back, fetch, refresh, invalidate | a query tells what the chain tells, at the height it names |
| `service/bridge-runner` | executions under way | start, stop, handle, execute, report | what is reported was done; no execution is left behind |
| `runner` | calls under way, rates, processed ids | poll, admit, run, submit | a call is run at most once, within the limits |
| `storage` | key-value data, snapshots | batch, export, import | a verified import is the snapshot |

The remaining directories (`rpc`, `cli`, `sdk`, `frontend`, `explorer`, `apps`, `compiler-api`,
`observability`, `config`, `crypto`, `bench`, `examples`, `scripts`, `programs`, `registry`,
`auth`, `identity`, `service/connector`) present, configure, encode or exercise the parts above,
or keep one map each.

### How they interact

`validateBlock` calls the transaction validators and `executeProgram` for each transaction,
writes the results to the shared program state, stores the block and asks `ForkChoice` for the
tip. `executeProgram` dispatches to instruction modules, and market instructions go to the
handlers of `markets/exec.ts`, which work on one market store for the whole process. The sync
service hands blocks on by an event and reads the chain store. `runner/unified.ts` gives the
mempool a way to announce a transaction to every peer, and the gossip service a handler that
puts what peers send into the mempool. The reconciler tells mempool and pending index of blocks
and reorgs, and puts what it reinserts into both. That the pending index hears of every
submission and removal too, which its comments ask for, is wired nowhere in the source: in the
models it is the caller that tells it. Ring, tracker, indexer and event log are made to listen
to blocks and reorgs, and nothing in the source connects them either. The journal receives
blocks once they are K deep. The instruction runner polls the event log. Several parts, then,
are called by tests or by nobody: for these the order of calls is that of the tests and of their
own comments.

## Modules

| module | models | checked by | proved in |
|---|---|---|---|
| `OrderBook` | `markets/exec.ts` up to line 630, `markets/store.ts` | `MCMarketGrid` | `MarketProofs` |
| `MarketGrid` | the rest of `markets/exec.ts`: grids, over `OrderBook` | `MCMarketGrid` | `MarketProofs` |
| `Chain` | `chain/blockValidator.ts`, `chain/store.ts`, `chain/forkChoice.ts` | `MCChain` | `ChainProofs` |
| `BestChain` | what `Chain` promises, in one action | `MCChain` (as `ImplementsBestChain`) | `ChainProofs` |
| `Mempool` | `mempool/*.ts` with `fastpath/pending/pendingIndex.ts` | `MCNode` | `ChainProofs` |
| `FastPath` | `recentTxRing.ts`, `trust/confirmationTracker.ts`, `fastpath/preflight/service.ts`, listening to `Mempool` | `MCNode` | `ChainProofs` |
| `Indexer`, `EventLogs` | `indexer/indexer.ts`, `events/logs/store.ts`, listening too | `MCNode` | `ListenerProofs` |
| `Sync` | `sync/service.ts` | `MCSync` | `PeerProofs` |
| `Gossip` | `p2p/service.ts`, `p2p/peer.ts`, the wiring in `runner/unified.ts` | `MCSync` | `PeerProofs` |
| `Bridge` | `service/bridge-runner/runner.ts` | `MCBridge` | `ServiceProofs` |
| `Journal` | `journal/collector.ts`, `journal/finalizer.ts` | `MCJournal` | `StoreProofs` |
| `Paymaster`, `Economics` | `paymaster/validator.ts`; `economics/balances.ts`, `fees.ts`, `rent.ts` | `MCPaymaster` | `MoneyProofs` |
| `Orgs`, `Approvals`, `Accounts` | `executor/modules/sys-org.ts`, `sys-approval.ts`, `accounts/approvalsTypes.ts`; the programs of `executor/engine.ts` made of them | `MCAccounts` | `ChainProofs` |
| `InstructionRunner` | `runner/instruction/service.ts`, `policy.ts` | `MCAccounts` | `ServiceProofs` |
| `Tokens` | `tokens/handlers.ts`, `tokens/store.ts` | `MCTokens` | `MoneyProofs` |
| `Vars` | `vars/store.ts`, `vars/service.ts` | `MCVars` | `StoreProofs` |
| `Storage`, `Mirror` | `storage/memory.ts`, `storage/snapshot.ts`; `mirror/cache.ts` over it | `MCReaders` | `ServiceProofs` |
| `EventStream` | `events/sse.service.ts` | `MCReaders` | `ServiceProofs` |
| `Filters` | an array's `filter`, for `MarketGrid`, `Sync`, `Journal`, `Indexer` and `EventLogs` | with them | `CollectionProofs` |

A definition named `...Bug` is a mutant of the definition it is named after: a mistake that
could have been made in that place. Each property is violated when one of the mutants takes the
place of its original; nothing else uses them.

Some MC modules hold parts that do not touch each other (`Sync` and `Gossip`, `Accounts` and
`InstructionRunner`, the two halves of `MCPaymaster`, the three readers of `MCReaders`). A
behaviour then shows one part, chosen in its initial state and never changed, and the other
keeps its initial state, in which none of the actions that fairness speaks of is enabled.
`Mempool` and the modules above it look at several configurations in the same way: `node` is
chosen from `Nodes` and says who uses the node and who listens to it (`with`).

### OrderBook

State: the market, the table of orders, the price levels of both sides (sum and queue of order
ids), the cached best prices, what each trader has locked, the table of trades by id, and the
block height. `tape` lists the trades in the order they were executed and belongs to the
properties only. An action is a handler (`CreateMarket`, `PlaceOrder`, `CancelOrder`) or, for
the matching loop of `matchOrders`, one turn of it (`MatchStep`) and its end (`MatchEnd`,
`MatchEndCancel`), so that the invariants hold at every turn and not only between handlers.
`call` is the loop's local state: trades left, trade index and the order an ioc or fok placement
waits for. An `outcome` of `throw` is the exception a fok order raises after its trades were
executed, which the handlers do not undo.

Prices and sizes are positive, as the parsing of amounts in front of the handlers makes them.
Owner and market checks that only compare identities are left out with the second market: the
book of one market never reads another.

### MarketGrid

Adds the table of grids and `work`, the local state of a grid handler under way. `GridCreate`
locks what all levels will need, `GridPlace` rests one order a turn, whether or not it crosses,
and the cancellation takes one order out a turn. The base is locked exactly, the quote only
covered, since each level rounds for itself. What a level or a trader's orders come to is a sum
over a finite set (`SumFunctionOnSet`), the form in which a sum can be reasoned about for any
book. Orders and grids take identifiers from one counter. The lot size is not enforced for
grids, and a half width smaller than the number of levels puts all of them at the centre: both
are in the model. Orders of size zero, which a grid smaller than its level count would make, are
not enumerated (`GridSizeAssumption`): such an order is in a level and never leaves it by a
trade.

### Chain

State: `headers`, `metas` (chainwork), `index` (height index), `tip`, the one program state
`cell`, and for each call of `validateBlock` in flight a `job`: how far it came, its block, what
it has read. A step is what happens between two awaits: the checks, the read and the write of
the body's execution, the four puts of `putBlock`, the choice of the tip and `setTip`. The tree
of blocks is a constant: parent, height, work, time, whether the header is mined, and what the
body does to the state (`Kind`): nothing, write, read, or carry a false effects root. The
program state is the block that last wrote, and an honest effects root is computed on the state
of the block's own branch.

The check of a block's time against the clock, the limit on its size and the transaction root do
not depend on the state, and a block that fails them is like one that is not mined.

`BestChain` has one variable, the blocks accepted so far with their work, and one action: accept
a block whose parent was accepted. The refinement mapping counts a stored block as accepted from
the moment the tip has at least its work.

### Mempool

State: the store's transactions and its index by sender, the orphan list of the reconciler, the
pending index (pending set, next nonce, slots by sender and nonce, lists by state) and the chain
the node follows. Actions: `Submit`, `StoreOrphan`, `Commit`, `Reorg`, `FullSync`. A block holds
of each sender the next nonces in order, which is what `validateTxV2` demands. Block and reorg
handlers run to their end without an await that gives way, so each is one action. A transaction
names the states it touches (`Touches`, `tx.states`) and, apart from them, the versions it
expects (`Expects`, `tx.expected`): the lists by state follow the first, conflicts and
invalidations compare the second, and a touched state of which it expects nothing is listed with
the version `''`. A preflight is given the same two.

### FastPath, Indexer, EventLogs

Each extends the one before and conjoins to every action of `Mempool` what its listener does: of
a reorg the orphaned blocks are told first, then the new ones. `ring` is the slots with their
three indexes, `tracker` the tiers and the transactions by block; the hash of a block is the
chain up to it. `ix` is the indexer with its two limits and its lists by sender, state, height;
`logs` the event log with its lists by transaction, label (key, emitter and first topic alike)
and height. Left out: timestamps, statistics and emitted events, the index by instruction (the
code is that of the one by state), reads, leases of preflight, and the CROSS_CHAIN tier, which
hangs on a map of the finalizer that nobody fills (`journal/finalizer.ts:162`).

### Sync

State: the machine's state, registered peers and what each is waited for, the header chain with
what came of the bodies, the queue and the pending downloads, the orphan pool; `work` and
`arriving` are messages whose handling stands at an `await` of `hasBlock`. Blocks, their
parents, what headers are refused and the branch of each peer are constants. Actions are the
public methods (`Start`, `Stop`, `RegisterPeer`, `RemovePeer`, `CreateHeaderRequest`,
`CreateBlockRequest`), the messages of peers, asked for or not, the steps after an await, and
`StoreBlock`, the listener that stores what it was handed and has the orphans checked. The
genesis header, the contents of the locator and timeouts (`sync/types.ts:60` declares one that
nothing reads) are left out.

### Gossip

State: the service, each connection, the list of peers, the chunk being read, what was seen,
handlers awaited, the pool, and counts of announcements for the properties. A chunk is read
message by message and nothing runs between; a message may be refused by the rate limits (their
counters are abstracted to that choice) or malformed. `Data` marks an item as seen and calls the
handler, which returns or throws later; then comes the relay. `SubmitLocally` is a submission at
the node itself. Of the messages' encodings, partial messages and management calls nothing is
modelled.

### Bridge

State: whether the service runs, its subscriptions, the executions (`job`, one for each call of
`handleBridgeRequest`), `activeBridges`, the loop of `stop`, and of the two chains what became
of each transfer, the provider's balance, and the results reported. A job's step is what it does
between two awaits. An event may be delivered again, a report may be lost, a transfer may fail,
be reverted, go through while the wait for it fails, or never be mined.

### Journal

State: the queue, the calls of `processReadyBatches` and `flush` that are between two awaits
(`flights`), the interval timers, the counters, the finalizer's checkpoint and the one it last
emitted. `Tick` and `Flush` take a batch; `WriteOk` and `WriteFails` are the answer of one
writer, `BatchReturns` and `FlushReturns` the rest of the call; `Restart` ends the process and
loads the emitted checkpoint. A write that fails may have landed. `added`, `landed` and
`settled` are of the process that runs; `ends`, where settled journals ended, outlives it. A
journal is the heights it covers: which of their changes it carries, up to
`maxEntriesPerJournal`, is left out.

### Paymaster and Economics

`Paymaster` keeps the accounts, the vouchers in the order they were made, the usage log and the
height. Methods that only read have no action; the properties quantify over their arguments
instead. `net` adds up what the balance updates asked for.

`Economics` keeps the native balances, the fees, and the rent records as objects: the map, the
iteration of a collection and a call that awaits hold references to them. A call (`ChargeFee`,
`CollectRent`, `Reactivate`) is split where it awaits a debit or a balance. Gas and prices are
inputs; quotes, configuration and statistics are left out. A record says whether its debit was
awaited when another record of its state was registered (`overtaken`). `RegistrationsStand` lets
such a record take its place again. The mark is the record's and not the call's: once the old
record is back, a later collection, which knows nothing of the registration, collects it and
puts it back as well.

### Orgs, Approvals, Accounts

`Orgs` and `Approvals` define a handler per instruction as an operator that yields the set of
writes it may ask for. `Accounts` executes programs of them as the engine does: every handler
reads the state the program began with, and the writes are applied at its end, the last one of
an identifier counting. `RequestsAdvance` is accordingly about what a program leaves of a
request: one signature or one change of status more than it found, however many of its
instructions were accepted. The state is one map from identifiers to records. Names, metadata,
memos and the list of rejections are abstracted.

### InstructionRunner

State: the log it polls, the polls under way and where each stands, the ids taken as processed,
runs, the counts of the rate windows, the places taken, statistics. A poll awaits the caller's
tier, the run, and the submission of its result, one call after the other, while the next polls
begin. Payloads, tiers, allow lists and sizes are a nondeterministic refusal; window ends are an
action (`HourPasses`).

### Tokens and Vars

`Tokens` has one token whose type is chosen by its deployment, one class and one instance. A
step of a call is the check of what it last read and its next store call, so that two calls
interleave at every await. `overlapped` and `issued` belong to the properties. What a call is
told of an approval or an operator is `may`, and `MovesFromItsOwner` asks of it that the store
held it when it was read. The addresses are finitely many and the zero address is none of them
(`TokensAssumption`); the mark of a missing record is told apart from records
(`NoneIsNoRecord`).

`Vars` keeps namespaces, access lists (as objects that a grant changes in place and an update
replaces), records with versions, and the calls between two awaits. `may` is what a call's
permission check answered: `granted`, `denied`, or `throws`, which a namespace made without
default permissions does where another denies. A check that throws ends its batch. `acked`,
`granted` and `raced` belong to the properties. Reads, values, expiry of records and changes of
the organisation store are left out.

### Storage, Mirror, EventStream

`Storage` keeps the data in the order of insertion. A block is a batch written one operation at
an await; an export counts the keys on one snapshot and cuts chunks from another; the importer
receives chunks in any order, again, damaged, or never. `Mirror` is a cache over the same data:
fetches note the height, read key by key and set what they read; refreshes, invalidations,
ageing and eviction come in between. `hung` is the loop of `set` that does not end (below).
`EventStream` keeps the clients with what each got and what is buffered, the events still kept,
and the intervals; a write is sent, refused or throws. Snapshot metadata, pruning, statistics
and the RocksDB adapter, which delegates to the store in memory, are left out.

## Runs

Every run passes, its properties included.

| run | question | bounds |
|---|---|---|
| `order_book` | Do levels, best prices, escrow, fills and orders agree at every turn, does matching follow priority, and does a cancelled grid leave the book? | 3 orders, 2 traders, 2 prices, 2 sizes, all useful flag sets, 2 trades a call, 2 heights, identifiers up to 4; an arithmetic grid with a bid and an ask, a geometric one with a level that has no price |
| `chain` | Does a node that takes one block at a time follow the heaviest chain? | 10 blocks, 1 call, window of 3 headers |
| `chain_async` | What survives when two calls interleave at every await, and when may the tip lose work? | 6 blocks, 2 calls |
| `mempool` | Do the indexes agree within their limits, does a preflight overlook nothing, do the listeners tell what the chain tells, and does only what should move? | 4 transactions in five nodes: pools of 2, blocks of 2, chains of 2 or 3 blocks, reorgs of depth 2, ring of 2, index of 2 |
| `paymaster` | Do gas, balances, usage and vouchers agree; do balances, fees and rent? | 1 paymaster, 2 vouchers, 3 uses, 3 blocks; 2 calls, 2 states, 3 records, 2 collections, credits up to 2, a fee of 2, a rent of 1 every second block |
| `journal` | Is every block of one run of the process written once, counted and settled, and where does the next run begin? | 3 blocks, batches of 2, 3 chains (one without a writer), 2 flights, 2 timers, 1 restart |
| `bridge` | Was what is reported done, and is every event handled to its end, unless it waits for a transfer no block holds? | 2 requests, 2 executions, 2 starts, 1 lost report, money for one request at a time |
| `sync` | Are blocks handed on after their parents, and does a download end? Is an item taken and relayed once, and does stop return? | 3 blocks (one refused), 2 peers, 2 requests for headers, 1 stray message, 1 coming or going; 2 connections with a chunk of up to 2 messages each, a transaction and a name |
| `accounts` | Does a gate grant only what the store does, is a request approved by a quorum, does a program leave it one step further? Is a logged call run once, counted, settled? | 1 organisation, 2 roles, 2 units, 2 addresses, 1 policy of each kind, 1 request, programs of 2 instructions, 4 identifiers in use, versions below 1, times up to 2; 2 calls, 2 polls, limits of 1 |
| `tokens` | Do balances and supply agree, is an instance moved only by its owner or one the store entitled? | 4 calls of an FT or NFT, 5 of an SFT, 2 in flight, 2 addresses, amounts of 1, supplies without a maximum and of 1 |
| `vars` | Are versions consecutive, undisturbed or refused batches whole and grants kept? | 3 calls, 2 at a time, 2 namespaces, 1 key, times up to 2 |
| `storage` | Is a verified import the snapshot, is the cache sound, does a client get its events? | 3 keys, 2 blocks, 3 chunks received; 2 entries, 2 fetches in flight, 3 started; 3 client ids, 2 addresses, 5 events and twice the clients, buffers of 2, 2 intervals |

Why the bounds suffice. Three orders are the least with which an order meets two others: two at
one price show time priority, two at different prices show price priority and a partial fill
that moves to the next level. Two prices and two sizes give crossing and resting books, whole
and partial fills; a budget below the number of crossing pairs stops the loop early. Ten blocks
hold two branches that overtake each other twice, and one block for each way to be refused. Two
calls are the least that race, and each pair of steps of two calls is a pair of some larger
number; the same holds of two fetches, two executions and two polls. Two transactions of one
sender and one of another make a nonce conflict, a nonce gap and a conflict over a state, and a
pool, a ring or an index of two is full when the third arrives. Two vouchers let one be spent,
expired or revoked while the other is chosen. Three blocks in batches of two leave a full batch
and a rest. Two connections are a sender and another to relay to; the second also sends the same
item. Two instructions are the least of which one overwrites the other's write; two signers the
least of a quorum.

Deadlock is not checked where the bounds end every behaviour (all but `journal`, and
`order_book`, where a cancellation can always be tried): the number of blocks, calls and uses is
used up in the end.

### Fairness

`Journal` assumes that a running interval fires and that an awaited writer answers, with a
result or an exception, for each batch of its own; nothing of `AddBlock`, `Start`, `Flush` or
`Stop`. `Bridge` assumes that every await returns but that of `tx.wait()` (`runner.ts:599`),
which has no timeout and returns only after a block of the other chain holds the transfer, of
which nothing is assumed; nor is anything of `stop`, whose loop goes on as long as executions
come. `Sync` assumes that its caller goes on asking for bodies and that a registered peer
answers what it was asked for (it may leave instead). `Gossip` assumes that a chunk is read to
its end, that a destroyed socket reports its close, that a server without connections closes,
and that a handler returns or throws. `InstructionRunner` assumes that its timer fires and that
awaits return, except that of an HTTP body, whose timeout was cleared with the headers; and,
since the model has few polls, that there are more of them than calls behind HTTP
(`RunnerAssumption`), as the program has an unlimited number. The other modules state no
liveness.

## What the code does and the text does not say

Seen while modelling. All of it is in the models; the properties are stated so as to hold with
it, and say so where they make an exception.

Markets:
- `markets/exec.ts:546`: trades with equal ids overwrite each other in a table that
  `markets/store.ts:119` calls append-only. `FillsMatchTape` therefore compares fills with the
  history.
- `exec.ts:592`: price improvement stays locked, against the comment at `:589`; so
  `EscrowCoversOrders` states that quote is covered, and only base is exact.
- `exec.ts:536`: of two orders of equal height the bid counts as the maker whichever came first,
  against the comment two lines above it.
- `exec.ts:313`: a placement matches only ioc and fok orders, so a crossed book may rest until
  somebody calls the matching handler; grids rest crossing as well.
- A grid smaller than its level count (`exec.ts:783`) makes orders of size zero; the share of
  bid levels that are left out is not placed.

Chain:
- `chain/forkChoice.ts:45` compares with a tip that `:61` may replace after another call set a
  better one. `TipLosesOnlyToOverlap` says that nothing else costs the tip work.
- `chain/blockValidator.ts:129`, `:207`: a block of another branch is judged by the state that
  the current branch left, and by its times, so that a reorg to an honest branch can be refused.

Mempool and the parts that follow it:
- `mempool/reconciler.ts:225`: `storeOrphanedTx` has no caller, so orphaned transactions are not
  put back, against `:6`.
- `reconciler.ts:146`: a transaction that is invalidated leaves the store and stays in the
  pending index; so do (`:124`) the earlier ones when a block holds several of one sender, since
  only the last nonce of each sender is committed there.
- `reconciler.ts:288`: a full sync starts the base nonces from nothing, so that the next nonce
  can fall behind the chain until the next block.
- `reconciler.ts:271`, `fastpath/pending/pendingIndex.ts:104`: a pending transaction is listed
  under the states it touches, and a check looks up the states it expects. A conflict over a
  state that the pending one expects and does not touch is overlooked, and nothing demands that
  the one be part of the other. `ConflictsAreSeen` is about touched states.
- `recentTxRing.ts`: entries of orphaned blocks stay, so that a preflight refuses to have the
  transaction again; the index by id is lost with an older entry of a transaction pushed twice
  (`:129`); a query with a limit returns the first it comes to, not the latest.
- `trust/confirmationTracker.ts`: `complete` is emitted again at each later tier; a transaction
  admitted again after its inclusion loses its tier for good.
- `indexer.ts:178`: with a transaction at height 0, or a limit of 1, the eviction loop does not
  end (`IndexerAssumption` excludes the limit). `events/logs/store.ts` applies the limit of a
  query before it sorts.

Sync and gossip:
- `sync/service.ts:198`: an honest peer that answers a locator made from the store sends the
  same headers again, so that HEADERS does not end by an empty answer. A new block whose parent
  is stored but whose header is unknown is dropped (`:498`); the first peer that keeps silent
  blocks the others (`:415`); a body nobody asked for makes its queued hash pending for good
  (`:374`, `:310`); a late empty answer turns IDLE into SYNCED. `DownloadsFinish` is stated up
  to these.
- A transaction a peer sends is announced by the pool to every peer, the sender included
  (`mempool/service.ts:57`), and relayed again (`p2p/service.ts:161`): `GossipOnce` allows one
  announcement of each kind. One submitted locally is not marked as seen, and is taken and
  relayed when a peer sends it. `handleGetData` serves nothing.
- An item is marked before its handler is awaited; if that throws, nobody relays the item, and
  the rejection ends the process. `stop` disconnects only listed peers and waits for all
  connections (`p2p/service.ts:218`). `start` returns before the interval that forgets rate
  limits (`:62`). After an early message destroyed the socket the rest of the chunk is still
  read, so a hello in it lists a destroyed peer.

Bridge and journal:
- `runner.ts:120`: `stop` reports executions as cancelled that go on and pay; `StagesInOrder`
  sets these reports aside. A request whose event is delivered twice is paid twice, the
  liquidity check asks for `minDstAmount` while `amount` is sent, and emergencyStop,
  maxAmountPerBridge, dailyVolumeLimit and requiredConfirmations are read nowhere.
- `runner.ts:599`: `tx.wait()` has no timeout. An execution whose transfer is never mined stays
  active for ever, and `stop` reports it as cancelled.
- `journal/finalizer.ts:202`: `lastHeight` is the last height of the batch that returned last,
  not the height below which everything is settled, and a flush does not move it. A restart then
  asks for too few or too many blocks: some are written again, others never. `JournalAddsUp` is
  about one run, and says of a restart only that it begins where a settled journal ended.
- `journal/collector.ts:127`: a journal takes the first `maxEntriesPerJournal` changes of its
  blocks, the rest are in no journal, and neither the journal nor the counters tell.
- `journal/collector.ts:59`: a second `start` leaves an interval `stop` cannot clear; so do
  those of the event stream and, for polls, of the instruction runner.

Money:
- `paymaster/validator.ts:198`, `:240`, `:279`: revoking a voucher that ended already lowers
  `activeVouchers` again, and one that is found expired at `:240` or `:279` never does, so that
  the count drifts, below zero included.
- `economics/balances.ts:75`: a transfer to oneself adds the amount (a test,
  `integration/edge-cases.test.ts:411`, knows); only the miner's share of a fee is credited.
  Rent is charged once per `collectEvery` blocks, and skipped heights are not made up. A record
  registered while a debit is awaited is lost to the old one put back (`rent.ts:129`);
  overlapping collections charge twice; a reactivation decides on a balance read before.

Organisations and approvals:
- Handlers of one program read the state it began with, and the last write counts: a request is
  executed twice by one program, two updates of one expected version both succeed. Of two
  signatures in one program, or of a signature and then a rejection or a cancellation, both are
  accepted and the first is lost (`executor/engine.ts:94`, `chain/blockValidator.ts:207`); so is
  a rejection before a signature. `RequestsAdvance` does not refuse this.
  `chain/blockValidator.ts:207` stores the raw buffer of a write, where the handlers read it
  back as `data.get('data')` (`executor/modules/sys-org.ts:108`); the models take what was
  written as what is read, which the modules are written for.
- `ORG_UNIT_CREATE` overwrites an existing unit, units may form cycles, roles, units and
  policies of another organisation are not told apart, and the permission gate ignores whether
  the organisation is active, inheritance and parents of units: it grants less than the store,
  never more.
- A deactivated policy still lets signers sign; anybody may execute, after the expiry too; a
  rejection does not look at the expiry; the order of a sequential policy is not enforced;
  nobody can sign for a role, nor reject a tiered request; the threshold of an update is not
  validated.

Tokens and variables:
- `tokens/store.ts:208`: overlapping transfers each write the balance they computed, against
  `chaos.test.ts:1013`; `HoldersHaveTheSupply` speaks of calls that do not overlap. A burnt
  instance keeps its approval, by which it can be burnt again or moved; a mint that loses on the
  version leaves its instance; allowances do not expire; a burn ignores the pause.
- `tokens/handlers.ts:639`: an approval is not tied to the owner who gave it, and is cleared an
  await after the move. A caller may move an instance by the approval of an earlier owner, or by
  one withdrawn after it was read; `MovesFromItsOwner` allows both.
- `vars/store.ts:359`: an atomic batch that is disturbed reports success though written in part,
  against `vars/types.ts:207`; a variable deleted and made again starts at version 0 again, so
  that an old expected version fits (`README.md:897`: "no silent OCC overwrite"); a write
  without an expected version overwrites; an update that overlaps a grant can undo it (`raced`);
  anyone can create any namespace.
- `vars/store.ts:511`: in a namespace that the service made without default permissions
  (`vars/service.ts:218`), `checkPermission` throws where it should deny. An atomic batch whose
  grant ends after its validation, by a revocation, an update or its expiry, then rejects after
  a part of it was written. `AtomicBatchesAreWhole` is about batches nothing disturbs.

Runner, readers and storage:
- Rejected calls and those whose trust service fails stay processed and are never tried again;
  counts of a window are consumed by calls then refused and by dry runs; the first call of a
  window is admitted whatever the limit; `updateConfig` drops programs set since; calls older
  than the last 100 are missed; an HTTP body that never ends holds its place for good.
- `storage/types.ts:52` calls a batch atomic, but it is an await per operation, so that a
  snapshot may hold half a block. Chunks are not checked against their total, a chunk with a
  wrong hash is written anyway, and the state root depends on the order of insertion. A hash is
  over keys and values without anything between them (`storage/snapshot.ts:184`), so that bytes
  moved from a value to the next key would verify: in the model a hash is the entries
  themselves, and `ImportIsTheExport` says what it says of hashes that tell entries apart.
- `mirror/cache.ts`: a set of a key that is cached leaves a node in the list that eviction
  cannot remove, and the `while` loop of a later set then never ends; a value invalidated during
  its fetch can come back.
- `events/sse.service.ts`: a write that returns false counts as not delivered; a broadcast
  overtakes the buffer, so that a client that reconnects with its last id loses what was
  buffered; a failed flush puts its event in the buffer twice, and duplicates push others out; a
  client is answered ok though its replay has removed it. `StreamIsWhole` is stated up to these.

## Proofs

All theorems hold for every value of the constants that satisfies the modules' assumptions, and
no step of them is taken on trust.

A proof that a step keeps an invariant has one lemma per action, or per group of actions that
change the same things, and one step per part of the invariant that the action can disturb.
Actions that await something are where the invariant is stronger than the property: it says what
a call may rely on when it goes on.

### CollectionProofs

What the other proofs share. `Filters` defines the kept elements of a sequence by their places;
`FilteredEnumerates` says that these are all the places that pass the test, in order. Sums over
finite sets are the fold of the community modules. That a sum does not depend on the order of
the fold (`SumSplit`), is unchanged by equal values (`SumSame`), and what one more, one other or
one zero value does to it, would be inductions over the set; each is proved from a smallest
counterexample instead (`LeastElement`), a set of least cardinality for which it fails. The same
argument gives a fold over a sequence its trace (`FoldsLead`), and a sequence that lists a
finite set each of its elements once. So are `StepByStep` and `SeqsByAppending`, for what is
shown from one number, or one longer sequence, to the next. The last part is about filters of
what is appended, of filters, and of tests that agree.

### MarketProofs

For any traders, prices, sizes, flags, budgets, grid parameters and any length of history.

The first part is about `Spec`, the book without grids: `TypeCorrectness` (`TypeOK`),
`TradesWithinLimits` (`NoTradeThrough`) and `ClosedOrdersAreFinal` (`TerminalOrdersAreFinal`).
`TypeOK` is not inductive: a turn of the loop looks up the orders at the heads of two queues,
and has to know that queues hold orders that exist. The invariant is

Inv == TypeOK /\ Queues(levels, orders) /\ ClosedIffEmpty /\ TapeOK

where `Queues` says that every queue holds distinct live orders of its own side and price,
`ClosedIffEmpty` that an order is closed exactly when nothing of it is left, and `TapeOK` that
trades name orders and keep their limits. For each operator on levels (`LevelAdd`,
`LevelRemove`, `LevelReduce`) and each change of an order a lemma shows that `Queues` is kept;
then one lemma per action shows that `Inv` is. An order found in a queue is live, so no step
changes a closed one.

The second part is about `GridSpec`, book and grids together: `BookIsTrue`
(`BookMirrorsOrders`), `EscrowIsEnough` (`EscrowCoversOrders`), `CancelledGridsLeave`
(`CancelledGridsAreOut`), `GridTradesWithinLimits` (`NoTradeThrough`), `PriorityHolds`
(`PriceTimePriority`), `GridOrdersAreFinal` (`TerminalOrdersAreFinal`) and `LoopsEndClean`
(`MatchingEndsClean`). They follow from

GridInv == BookInv /\ TopKnown /\ Covered /\ GridTyped /\ WorkOK /\ GridsApart

- `BookInv` adds to `Inv` that each level mirrors the live orders of its price (`Mirror`: all of
  them, older first, with their sum), that the fills of an order are the trades that name it
  (`FillsMatchTape`), and that the order a placement waits for was not cancelled.
- `TopKnown`: the cached best prices are those of the levels, except while a grid is being
  created, whose handler refreshes them once at its end. Priority needs this: the loop takes its
  prices from the cache.
- `Covered`: what a trader locked is what the live orders owe and, while a grid of the trader is
  created, what the levels still to be placed will. Without the second summand no single turn of
  the creation keeps the equality.
- `WorkOK` and `GridsApart`: orders of a grid are its owner's and of no other grid; a creation
  has made orders no grid lists yet; a cancellation still has before it every order of its grid
  that is live. The last is what makes a cancelled grid be out of the book at the end.

### ChainProofs

For any tree of blocks and any number of concurrent calls: `TypeCorrectness`, `BranchesAreSound`
(`BranchesAddUp`, that is `StoredIsRooted` and `ChainworkAddsUp`) and `TipLosesToNoOther`
(`TipLosesOnlyToOverlap`). The invariant `IInv` adds to the first two what a call knows between
two awaits (`JobsAddUp`: from the moment it found the parent's meta, the parent stays with that
chainwork; what it put stays put) and that the genesis block stays. For the third, what
`chooseTip` compared is kept with the call until its `setTip`.

For one call at a time (`OneCall`: no two validators differ): `TipIsHeaviest`
(`TipHasMostWork`), `TipOnlyGains` (`TipNeverLosesWork`) and `Refinement`
(`ImplementsBestChain`). `TipInv` adds that every stored block but the one in flight has at most
the work of the tip. The assumption is needed: with two calls the tip loses work in the case
`TipLosesOnlyToOverlap` describes.

`IndexHasNoGap` (`IndexCoversTip`) needs that a stored header is in the index or its call has
still to put it there, and that the heights of stored headers have no gap (`IndexInv`). It holds
with overlapping calls, since an entry of the index is only ever replaced.

For programs of account instructions: `GateIsWithinStore` (`GateWithinStore`),
`ApprovalsHaveQuorums` (`ApprovedByQuorum`) and `RequestsOnlyAdvance` (`RequestsAdvance`). The
invariant (`AccountsInvariant`) is small: types, and that the policy of a request exists and
that nobody signed it twice (`RequestsSound`). What is hard is what one program may write: the
writes are those some handler yields for the state the program began with (`Fits`), so that a
program of any length changes a record either not at all or to what one instruction asks for
(`StepsFit`); that is also all `RequestsOnlyAdvance` says of a program with several accepted
instructions. A quorum counts different signers, which the invariant provides.

For a node, at any configuration, any transactions, senders and limits: `NodeIndexesAlwaysAgree`
(`NodeIndexesAgree`), `PreflightAlwaysForesees` (`PreflightForesees`) and
`NodeAlwaysFollowsChain` (`NodeFollowsChain`). The first two follow from

FastIInv == PoolIInv /\ RingOK

- `PoolIInv`: the pool and its index by sender agree within their limits (`PoolOK`); the pending
  index is one of `GoodIxs`, in which a list of a state that was never full has every pending
  transaction of the state; and the next nonces are not behind the chain (`NoncesAreNew`),
  except at a node with full syncs.
- `RingOK`: a queue holds, in their order, the youngest slots of its sender or state. Slots are
  compared by their age, the distance from the head, so that a push at any place of the ring is
  the same: everything gets older by one and the oldest leaves.

The handlers of blocks and reorgs are folds over blocks, senders and transactions. For each such
fold a lemma says that there is a trace, a function from places to intermediate states, that
begins with the first, follows the handler at each place and ends with the fold's value; that
every state of the trace is good is then shown from the least place where it is not.

The third needs what the chain is and what the tracker was told:

NodeIInv == FastIInv /\ Once(chain) /\ Tells(tracker, chain) /\ TracksAsAsked

- `Once`: each block brings transactions that were not on the chain before, since the nonces of
  a sender follow each other. So the blocks that a reorg takes out hold nothing that the others
  hold, a transaction is in one block of the chain only, and what the tracker has under two
  hashes of the chain is of one block.
- `Tells`: a transaction with a tier from INCLUDED on is kept under the hash of a block of the
  chain that holds it, and is deep enough for K_DEPTH or not. Without the list under the hash a
  reorg would not find the transaction; the mutant `MarkIncludedBug` breaks this.
- A step leaves the chain, or puts one or two blocks above its first n (`Grown`). In the second
  case the tracker forgets the orphaned hashes, which are those above n (`ReorgedGood`), and is
  then told of the new blocks, by which no tier sinks (`ToldGood`).

`RecentIsSeen` was stated first with a limit for the lists the query reads; the proof showed
that it was not true for every value of the limits, and it now counts what touches the states,
as the query does.

### ListenerProofs

`ListenersAlwaysTellTheChain` (`ListenersTellTheChain`), for any node, transactions, events and
limits. It joins two independent parts to what is known of the node, and one fact about its
chain:

ListenersIInv == NodeIInv /\ Sole(chain) /\ IxFollow /\ LogsFollow

- `Sole`: no place of the chain holds what another holds, also within a block. `Once` tells it
  of different blocks; that a new block repeats nothing follows from the nonces of each sender.
- `LogsFollow`: the lists of the log by transaction, label and height are those that
  `LogsOn(chain)`, what the blocks emit one after the other, has when filtered, no list by
  height is empty, and the count is its length. Adding a transaction appends to both sides
  (`Kept` is nothing beyond the limit of events, as in the code); removing the blocks above the
  fork, one by one, filters both by height.
- `IxFollow`: the index is exact as a set (`ListsHold`: the lists by sender, state and height
  hold the transactions it has) and in order (`HoldsNewest`): above the height `from` a list is
  the whole block, below it is empty, and at `from` it is the end of the block that is left. So
  the transaction the eviction takes, the first of the list at `from`, is the oldest of the
  chain that is left, and `from` can move on to the next height only. A block that does not fit
  in the index evicts its own first transactions, which the invariant allows. The changes are
  the last of `ChangesOn(chain)` (`ChangesTell`) and both their lists are filters of them, so
  that an eviction takes the first of each list.

`HoldsNewest` says more than the property: with `NewestOnly` alone an eviction could find an
empty list at `from`, remove nothing and let the index grow beyond its limit. That it finds one
transaction is also what lets `AddTx` model the loop of `addTx` by a single eviction.

### PeerProofs

`BlocksFollowTheirParents` (`ParentsFirst`), for any tree, peers, limits and bounds. What is
handed on has a parent that is stored or was handed on before (`HandedAfterParents`). To keep
it, each header in the chain has its parent known or earlier in the chain
(`HeadersAfterParents`), and a message whose handling awaits `hasBlock` still begins with a
child of a stored block when it goes on (`WorkIsTrue`): nothing leaves the store. The types say
that the pending downloads are a finite set of at most `MaxConcurrent`.

`GossipSuppressesDuplicates` (`GossipOnce`), for any connections, items and chunks. An item not
seen has no source, handler or relay (`UnseenIsUntouched`); one that was seen has one source and
is not relayed to it (`SeenHasOneSource`); while a handler is awaited it is the only one of its
item and nothing was relayed (`AwaitedAlone`). The last part is the reason that the two awaits
of an item cannot both end in a relay.

### ServiceProofs

The services beside the chain, one section each. They share lemmas about sets that grow and
shrink by one.

`BridgeBooksAreTrue` (`BridgesAreTrue`), for any requests, amounts and bounds. The invariant
relates reports, which never change, with the jobs that made them: a transfer exists only once
its job came to it, and a job about to report fulfilment has been paid (`TransfersFollow`);
reports of fulfilment are not more than the paid jobs that are done (`SettledCover`), which is a
count, because a request whose event came twice has two jobs; every report that `stop` did not
make was made by a job that came as far (`SaidByJobs`), and of a request with one job the
reports are in order (`SaidInOrder`). Entries of `activeBridges` are jobs under way
(`EntriesRun`), and the only job of a request has an entry as long as it runs (`AloneIsStored`).

`RunsAreCounted` (`RunsAddUp`), for any calls, programs, polls and limits. A logged call is held
by one poll at a time (`OneHolder`), has a run that is as far as that poll (`RunsByStage`), and
is begun once if its run was not rejected and submitted at most as often (`HistoryOfRuns`); the
window of a caller counts its runs at least, and the limit at most (`WindowsCover`); the places
taken are the polls that are running (`CountsAreRunning`), which is what keeps the concurrency
limits true.

`ImportsAreExports` (`ImportIsTheExport`), for any keys, snapshots and chunk sizes. The
invariant is about the snapshot that is cut (`OutTypes`) and, in an import that was verified so
far, the chunks that arrived: all they hold is in the target or about to be written, nothing
else is, and chunks that came in order are a prefix of the snapshot (`Arrived`). That chunks put
side by side are the snapshot is arithmetic of places (`Multiples` and the lemmas after it).

`CachesAreSound` (`CacheIsSound`), for any entries, limits and fetches in flight. No block up to
the height of an entry wrote its key after the value it holds (`CacheOK`), and none up to the
height a fetch noted wrote a key after what the fetch has read of it (`FetchesOK`), since the
store holds what the last block wrote (`Stamped`). The list of the cache holds every cached key,
and until a key was set again no other.

`StreamsAreWhole` (`StreamIsWhole`), for any clients, addresses, buffers and filters. What a
client was told is what it is owed: the events since it came that its filter passes (`Told`,
`Owed`). They rise and are complete as long as no write was refused; after that what was told
and what waits in the buffer are owed, and complete unless the buffer overflowed. Clients and
the listing by address say the same (`Agree`).

### StoreProofs

`JournalIsExact` (`JournalAddsUp`), for any heights, chains, batch sizes and checkpoint
intervals. Every block added is in the queue, in one flight or settled, and in one place only
(`Accounted`, `OneFlight`); the counters are the writes since the checkpoint they began with,
and no more than what landed (`Counted`). The height of a checkpoint, of the one emitted and of
the one resumed at is where a journal ended that was settled (`Resumes`). Assumed is that the
configuration names no chain with a writer twice (`EachChainOnce`, which the default of one
adapter satisfies): nothing in the code checks it, and a chain named twice gets every journal
twice.

`ReportsAreKept` (`ReportedIsStored`) and `BatchesAreWhole` (`AtomicBatchesAreWhole`), for any
namespaces, keys, callers and calls in flight. The versions acknowledged of a variable are those
from 0 to the stored one, each once and in order (`VersionTypes`); access lists are objects of
one namespace each (`ListsApart`), the list that a change holds is still the one of its
namespace unless changes raced (`ListsCurrent`), and a grant that was acknowledged is in the
list unless a race undid it (`GrantsAreKept`). While an atomic batch is alone, what it validated
holds: every operation may be written, so that no check throws while it executes, and what it
has not written yet fits (`BatchFits`); before that, and when it is refused, it wrote nothing
(`NothingWritten`).

### MoneyProofs

`SponsorshipsAreTrue` (`SponsorshipsAddUp`) and `EndedVouchersPayNothing` (`EndedVouchersStay`),
for any paymasters, senders and vouchers. `SponsorInv` adds to the types that what was sponsored
is the sum of what a paymaster's vouchers have paid, that balances are what went in and out
(`AccountsOK`), and that a voucher for a single use that is active was not used (`VouchersOK`),
without which the use that comes next could be the second.

`MoneyIsNotLost` (`EconomyAddsUp`), for any number of overlapping calls, addresses, states and
records. `EconomyInv` says:

- balances, what the services took and what calls are about to say (`Due`) sum up to what was
  issued;
- every stored record is of its state, is found by the iteration, and stands (`RefsOK`): it is
  the newest of its state, or its debit was awaited when another was registered;
- what a collection has still to come to is active, stored, and after its place in the iteration
  (`Ahead`), except the record whose debit it awaits; that record stands, since a registration
  during the await marks it (`JobOK`).

The last part is what a collection keeps while records are added, replaced, paused and
reactivated under its iteration. An earlier statement of `RegistrationsStand` kept the mark with
the call; the proof did not go through, and three collections refute it, as told under
*Paymaster and Economics*.

`SupplyIsTrue` (`SupplyAddsUp`) and `InstancesMoveFromTheirOwner` (`MovesFromItsOwner`), for any
holders, instances, quantities and maxima and any number of calls in flight. `TokenInv` is about
the store and about what each call has read:

- a version of the token, of its class or of an instance is one state of it: a call whose
  version is the stored one has read what is stored (`SameToken`, `SameClass`, `SameItem`). This
  is the idea of the store's optimistic concurrency, and with it what a call checked on its copy
  holds of the record it replaces (`Checked`), although other calls ran in between;
- supplies stay within their maximum (`Within`), and are what was issued (`IssuedIn`);
- while no two calls overlapped, the balances are the supply and what the one call under way has
  written ahead of it (`OneByOne`). With overlapping calls the balances do lose updates, as told
  above.

`MovesFromItsOwner` is about steps. Whoever moves an instance found it with the owner it has, by its
version, and is this owner or was told that it may (`OwnerWasFound`); and it is told so only by a
step that finds an approval or an operator in the store (`AnswersAreTrue`).

### Model-checked only

Liveness (`BatchesSettle`, `EventsAreHandled`, `DownloadsFinish`, `GossipSettles`,
`CallsSettle`), which the prover does not reach. All other properties of the runs are theorems.
Theorems that quantify over an operator (the induction theorems of the library) cannot be used
with the provers at hand, nor can definitions that are `RECURSIVE`; the models are written
without them, with functions and folds.

Not modelled yet and worth it next: `deployer.ts` (token templates), the locks and the authority
of the executor, and the connector's gate.

## Not modelled

- Signatures, hashes, proof of work and encodings are data of the models, as are the gas table
  and prices; byte sizes of mempool and journal are left out.
- Operations nothing calls: `remove`, `clear` and `clearOrphanedTxs` of the mempool, the retry
  queue of the finalizer (`finalizer.ts:209`), `removeProgram` of the instruction runner.
- Earlier versions that the node does not construct: `fastpath/hotWindow.ts`, `policyEngine.ts`,
  `pendingIndex.ts`, `preflight.ts`, `confirmationTracker.ts`, `statusService.ts`; the in-memory
  `ApprovalsStore`; the second engine under `core/instruction-engine`.
- `tokens/deployer.ts` repeats the handlers behind templates. The bridge registry keeps routes,
  statistics and scores. `identity`, `auth`, `apps`, `registry`, `accounts/service.ts` and
  `usernames.ts` are a check and a put on one map each; `events/hardening.ts` counts requests
  and `connector/gate.ts` checks sessions.
- Statistics that nothing reads, request handling, configuration, the SDK, the command line, the
  frontend and benchmarks.

`PROJECT.json` lists every component with its status, and under `hazards` the places where the
code can go wrong in a way a test would hardly reach.
