# Verification of the trading system and of the thread and message managers

This directory holds TLA+ models of the concurrent programs of this repository,
the TLC runs that model-check them and the TLAPS proofs about them.  The largest
part is the low-latency exchange and trading client in
`src/Building_lowlatency_application_cpp/Chapter10`; two programs outside it are
modelled too, the thread pool of `src/thread_pool.cpp` and the PPS manager of
`src/testPPS/pps_qnx_claude_app1_with_buffer.cpp`.  File names below are relative
to Chapter 10 unless they begin with `src/` or are one of these two.

The repository collects one person's study of C++ performance: about 500 files,
of which Chapter 10 is the only complete program, with threads, sockets,
protocols and recovery.  The earlier chapters of the same book are earlier states
of the same files; most other directories are exercises, measurements and
listings of textbooks (see *Not modelled*).

## 1. Inventory

### 1.1 How the parts interact

    trading client (one process per client)            exchange (one process)

    TradeEngine --requests--> OrderGateway ===TCP===> OrderServer + FIFOSequencer
        ^  ^                      |                        |            ^
        |  +------responses-------+                        | requests   | responses
        |                                                  v            |
        |                                             MatchingEngine + MEOrderBooks
        |                                                  |
        | updates                                          | updates
        |                                                  v
    MarketDataConsumer <==incremental multicast==== MarketDataPublisher
                       <==snapshot multicast======= SnapshotSynthesizer
                                                           ^ (updates, numbered)
                                                           +-- MarketDataPublisher

Every box is one thread that spins; every single arrow is an `LFQueue`; every
double arrow is a socket.  Each thread logs through a `Logger` with an `LFQueue`
and a thread of its own.  Orders and price levels come from `MemPool`s.  Inside
the TradeEngine thread a strategy (market maker or liquidity taker) works on
`MarketOrderBook`s, an `OrderManager`, a `PositionKeeper` and a `RiskManager`.

The thread pool and the PPS manager stand alone:

    callers of async() --tasks--> blocking_queue --> workers  (mtx_, cond_)

    publish() --messages--> PPSWriter thread --write--> PPS objects
    subscribers <--callbacks-- PPSReader thread <--pulse, read--+

### 1.2 Components

| Component | State | Operations | What is hard | What makes it correct |
|---|---|---|---|---|
| SPSC queue (`common/lockfree_queue.h`) | slots, two indices, a count, all separate atomics | getNextToWriteTo, updateWriteIndex, getNextToRead, updateReadIndex, size | two threads without a lock; count and indices move one after the other; no check for a full ring; one caller reads a slot after giving it back | messages once, whole, in order; the ASSERT never fires; the count agrees with the indices; what is sent is consumed |
| Object pool (`common/memory_pool.h`) | free flags, next index | allocate, deallocate | a circular scan with an abort | the next block is free; it aborts only when it must |
| Matching engine, order books (`exchange/matcher`) | per book: hash map of orders, hash map of levels, two circular lists, head pointers; the response and update being built | add (with a loop of fills), cancel | lists re-tied by hand in seven places; orders disappear under the loop that matches them; long sequences of legal calls | price-time priority; sorted lists; an uncrossed book; conserved quantity; an order ends once |
| Order entry (`trading/order_gw`, `common/tcp_*`, `exchange/order_server`) | sequence numbers on both ends, send and receive buffers, socket of each client, pending batch | gateway loop, poll, accept, sendAndRecv, recvCallback, sequenceAndPulish, response loop | non-blocking sends that fail, hang-ups, restarts, several clients in one pass, an unstable sort | requests and responses in order without gaps; every request answered |
| Market data (`exchange/market_data`, `common/mcast_socket.cpp`, `trading/market_data`) | next number, snapshot book, outgoing snapshot; at the consumer: expected number, recovery flag, queued messages | publish, addToSnapshot, publishSnapshot, recvCallback, queueMessage, checkSnapshotSync | lossy streams, two threads that publish the same history, a recovery that races with live updates | a snapshot is the book at its number; nothing twice or out of order; gaps covered by a recovery; a recovery ends and restores the book |
| Logger (`common/logging.h`) | queue, flag, file | log, flushQueue, destructor | a destructor that polls the count of a queue that may be lapped | a closed logger has written everything; shutdown ends |
| Trading strategy (`trading/strategy`) | one order per ticker and side, its state, positions, P&L, features | moveOrders, newOrder, cancelOrder, onOrderUpdate, addFill, checkPreTradeRisk | fills racing cancels; positions that lag behind fills; responses filed by side | position limit over what was really traded; one order per side; agreement with the exchange when nothing is under way; no order stuck |
| Client-side book (`trading/strategy/market_order_book.*`) | as MEOrderBook, plus best bid and offer | onMarketUpdate (ADD, MODIFY, CANCEL, CLEAR), updateBBO | lists tied a second time by code of its own; flags found before the update is applied | the copy is the exchange's book; a quote is the best level |
| Thread pool (`src/thread_pool.cpp`) | task queue with its own mutex, flags, workers, condition variable | init, async, spawn, terminate, cancel | a predicate that pops; a queue and a notification outside the pool's mutex | a task runs once; terminate() runs what was queued; both ends return |
| PPS manager (`pps_qnx_claude_app1_with_buffer.cpp`) | message queue, descriptors, subscriptions, buffer pool, flags | publish, writerLoop, subscribe, readerLoop, readAndNotify, stop | changes between a read and the re-arming of its notification; failing calls; expiring subscribers; a flag without its mutex | an object stays watched and is watched once; nothing goes backwards; what is published to a watched object is seen; stop() ends |
| Start-up, threads, sockets, time | none worth a model | system calls | pure I/O | - |
| `src/Mutex&LockFree`, `src/SPSC` | FIFOs with cached cursors, exchange buffer, drop-oldest ring | push, pop | weak memory, two writers of a cursor | FIFO order |
| `src/Cpp_concurrency_in_action`, `src/HazardPointer_RCU` | stacks, queues, pools, hazard pointers | push, pop, reclaim | use after free | no node freed in use |
| Design patterns, benchmarks, exercises | little | - | - | - |

`PROJECT.json` lists the same components with their files, and under *hazards*
40 places where this code is hard to test, each with the properties that cover it
or the reason why none does.

## 2. The modules

    Fifo  <--implements-- LFQueue <--EXTENDS-- Logger <--EXTENDS-- LoggerProofs
                                                 (theorems about both)
                          MemPool <--EXTENDS-- MemPoolProofs
    MEOrderBook <--EXTENDS-- MatchingEngine --implements--> PriceTimeBook
                                  ^--EXTENDS-- ClientBook <--EXTENDS-- MatchingEngineProofs
                                                 (theorems about both)
    OrderEntry    <--EXTENDS-- OrderEntryProofs     (uses queues as FIFOs,
                                                     the engine as environment)
    MarketData    <--EXTENDS-- MarketDataProofs     (uses queues as FIFOs,
                                                     the engine as environment)
    TradingOrders <--EXTENDS-- TradingOrdersProofs  (the engine as environment)
    ThreadPool    <--EXTENDS-- ThreadPoolProofs
    PpsManager    <--EXTENDS-- PpsManagerProofs

The split follows one idea: the queues are checked and proved once, at the grain
of single atomic accesses (`LFQueue`), and shown to implement a FIFO (`Fifo`);
the modules above them then use FIFOs and take one handler as one step.  This is
sound for a paced queue, which the refinement assumes, and for what happens in
one thread between two queue operations, which nobody else can see.

### 2.1 LFQueue, Fifo

One step per atomic access: `BeginWrite`, `EndWrite` (the caller's assignment to
the slot: a torn value can be read in between), `StoreWriteIndex`, `CountWrite`;
`Poll`, `TestSize`, `Use`, `StoreReadIndex`, `AssertCounted`, `CountRead`,
`CopyReleased`.  Three constants tell the callers of the class apart:

* `ChecksSize`: whether the loop tests `size()` as well.  `MatchingEngine::run`,
  `OrderGateway::run` and `TradeEngine::run` do not.
* `LateCopy`: `MarketDataPublisher::run` reads the slot again after
  `updateReadIndex()`.
* `Paced`: the traffic never leaves more than `Size - 1` messages waiting.  The
  class does not enforce it; the program relies on queues of 256 Ki elements.
  With `Paced = FALSE` the model shows what a lap does.

A message is its number, so order, loss and duplication are all visible.

### 2.2 MemPool

Flags and index as in the code.  `allocate` hands out the block of the index and
begins `updateNextFreeIndex()`; each turn of its loop is a `Turn`, which ends at a
free block, wraps with `Following` at the end of the store, and aborts when it is
back where it began.  `held` is what callers own, and `turns` counts the turns of
the last scan; both are history.

### 2.3 MEOrderBook, MatchingEngine, PriceTimeBook

A book is a record and its methods are operators from a book to a book.  The list
of price levels keeps its `prev`/`next` links, because re-tying them is the
hazard; the list of orders of one level is a sequence, because only appending
and unlinking happen there.  The whole of `addOrdersAtPrice` is translated,
including the comparison of line 61 that forgets the side, and a level is found by
`price % MaxPriceLevels` and by nothing else, as the code does.  A pointer to a level
that was deallocated, a walk that cannot end, or a pool that gave its last block
away sets `fault`, an absorbing state: what an undefined behaviour does
afterwards is not explored.

Two kinds of orders break the order of the levels of the code as written: one that
is filed at a level of another price with the same index (`Collides`), and one whose
place line 61 has looked for in the wrong direction (`Misties`: an ask better than
the best of two levels or more).  The history variable `spoiled` remembers of each
book that such an order has come; what is said of the order of levels is said of a
book until then, with no condition on the prices, and what is said of quantities
and of orders that have ended is said of all.  `AsksSorted` says it of asks
without that reserve, and is violated.  `NothingDangles` says that `fault` is not
reached before either but by using up the pool of levels.

`MatchingEngine` takes one request at a time.  A NEW is `add`, any number of
`match` and one `rest`, because responses and updates are consumed by other
threads while the loop goes on.  `asked` and `view` are history variables: what a
client sent and what it was told.

`PriceTimeBook` is the promise: an incoming order trades with the best, then the
oldest resting order for as long as prices cross, and what is left rests.
`ImplementsPriceTime` maps the linked lists to a set of orders: `Shown(book)` is what
rests, `Coming` the order being matched.

`BookWellFormed` joins what must hold of both sides of a book: no pointer to
nothing, sorted circular lists, every order in the level of its price, and time priority within it.

The check of the code itself, in `toString()` (`me_order_book.cpp:238`-`:241`), is not
modelled: it changes nothing, and on bids it begins at the least price
(`me_order_book.cpp:262`), so that it calls every bid unsorted.

### 2.4 OrderEntry

`run` counts the processes of a client; a socket is `<<client, run>>`, so that a
restart is a new connection to the same server.  The gateway: `SendRequest`,
`GatewaySendAndRecv`, `Restart`.  The server thread is a loop with a program
counter: `poll`, one `serve` per socket, `sequenceAndPulish`, one `SendResponse`
per response, `ResponsesDone`.  `Match` is the matching engine: it answers the
sender and may tell another client of a fill.

`Serve` covers one `sendAndRecv()`: any number of the messages in flight have
arrived, `recvCallback` handles each of them, and then the send buffer goes out,
is refused, or is taken in part.  `Passed` says how much of it the kernel has: all
of a buffer that was sent, none of one that was refused or that the process did
not come to send because the sequencer was full in the callback, and some of it
before the ASSERT on a partial send (`tcp_socket.cpp:84`).  A refused send empties
the buffer all the same (`tcp_socket.cpp:86`).

The two log lines with a wrong number of arguments (`order_server.cpp:37`, `:83`)
are taken as repaired: as written, `log()` ends the process at the first request.
`StableUpTo` is the size up to which `std::sort` keeps equal elements in order:
16 in libstdc++ (insertion sort below that); 17 requests with one time were
compiled and seen to change order.

### 2.5 MarketData

The publisher numbers updates, sends them and passes them on to the synthesizer,
which applies them, and every so often publishes a snapshot as datagrams, cut
where `publishSnapshot` calls `sendAndRecv`.  Either stream may lose a datagram.
The consumer's `recvCallback` handles the messages of one datagram in turn;
`queueMessage` and `checkSnapshotSync` are translated as they stand, including
that incrementals go into the snapshot's map (`market_data_consumer.cpp:107`),
that everything after the collection stands inside the loop (`:154`-`:213`), and
that the loop goes on over the map it has cleared (`:210`), which the process
survives or not: a free choice.  `OnMessage` is one message; `Handled` takes a
datagram through it, and gives the set of states the free choice leads to.

`DistinctIds = FALSE` is `generateNewMarketOrderId` as written, which returns 1 for
every order (`me_order_book.h:37`): the synthesizer's ASSERT
(`snapshot_synthesizer.cpp:25`) then ends the exchange at the second order that is
live at the same time (`NoAssertFires` is then false).  The runs take ids that count
up, because a history of one order at a
time has little to lose; `SnapshotIsBookAtItsNumber` and `GapsOnlyByRecovery` are proved
for both.
`books` is a history variable: the engine's book after each update, to which the
orders of a snapshot's datagrams are compared.

The constructor of `SnapshotSynthesizer` does not initialise `ticker_orders_`
(`snapshot_synthesizer.cpp:4`-`:9`, `snapshot_synthesizer.h:21`); it is an array of
arrays of pointers in an object made by `new`, and `Init` takes them to be null.  An
entry that is not would end the exchange at line 25.

### 2.6 Logger

`LFQueue` with `ChecksSize`, not paced, under three more variables: the flag, and
where the flush thread and the owner are.  `Drain` is the inner loop (any step of
the queue's consumer), `DrainEnds` its end, `Rest` the flush, the sleep and the
test of the flag; `Destroy`, `Stop`, `Join` are the destructor.  Nobody logs once
the destructor runs.

### 2.7 ClientBook

EXTENDS `MatchingEngine`: each step of the engine that publishes an update is
followed, in the same step, by the client's `onMarketUpdate`.  That is no loss of
interleavings, because the client's book is a function of the updates it has
handled: comparing it with the engine's book of the same moment is comparing the
two after the same prefix.  The list code of `MarketOrderBook` differs from that
of `MEOrderBook` in the first comparison, which tests the side; `InsertLevel` is
what they share.  `replica` holds the `MarketOrder` objects, each known by the
engine's order it was made for, and their levels; `oid_to_order_` is the array of
pointers to them.  The two are told apart because an ADD whose id is in use
overwrites the pointer of the order before and leaves its object in the lists.  A
MODIFY or CANCEL follows the pointer of its id (`ObjectFor`), whatever order it
leads to; a null pointer that is followed sets `replica.fault`.  The history
variable `overwritten` remembers that an ADD has come with an id in use: the copy
agrees with the engine's book until then (or until the engine's book is `spoiled`).
With ids as written that is the second live order, and from then on a quote may differ
from what the book offers (`QuoteIsTotal` is false).  The run takes ids that count up, so
that the lists of levels and orders grow; the theorems are for both.

`OneTicker` names the case that the runs and the
theorems take: the engine finds a book by client id where it means the ticker
(`matching_engine.cpp:54`), so that the orders of a ticker are in one book only when
there is one client.  `updateBBO` is computed for the flags found before the update,
as in the code.

### 2.8 TradingOrders

Variables: the manager's order of each side, the next id, the position; the two
queues; the exchange's side of this client (`resting`); and two history
variables, what was really traded and what the exchange has not filled of each
side's order.  Actions: `onOrderBookUpdate` (market maker) or `onTradeUpdate`
(liquidity taker), both through `moveOrders` with its risk checks;
`onOrderUpdate` with `addFill`; and at the exchange `AcceptNew`, `Cancel`,
`Fill`.  Two constants say which of two defects are there:

* `SendsNew = FALSE` is `newOrder()` as written, which fills in a request and
  never sends it (`order_manager.cpp:19`).  No order then reaches the exchange and
  each side stays PENDING_NEW for ever (`PendingEnds` is false).
* `SignedSides = FALSE` is `addFill()` as written, which uses `sideToIndex` (0 or
  2) where it means `sideToValue` (-1 or 1).  Buys then count twice and sells not
  at all, and sells go beyond the limit (`PositionLimit` is false).

The run takes `addFill()` as written and a `newOrder()`
that sends, since nothing else in the component happens otherwise.  What
`trading_orders` checks is true of the code as written too, and proved for both
values of both constants: `LongLimit` (a position that counts buys twice is on the
safe side of it), `AgreesWhenQuiet` (each fill is counted once with the sign the code
gives it; an order that is pending while nothing is under way was never sent), and
`SentEnds`, which is about orders whose request was sent.

The prices come from the features, and are free; the
test of the loss works on an uninitialised `open_vwap_` and may come out either
way at each call (`losing`).

### 2.9 ThreadPool

One step per critical section, but two for a worker that finds nothing (`Look`,
`Sleep`): it holds `mtx_` from its test until it sleeps.  `async()` is three
steps (`Delegate` under `mtx_`, `emplace` under the queue's mutex, `notify_one`
without a lock), `terminate()` is `terminate`, `notify_all`, `join`, and `cancel()`
has `clear` besides.  `Decide` is the unlocked test behind the wait.  Spurious
wake-ups are steps of their own and not fair.

### 2.10 PpsManager

Writer, reader and owner each have a program counter; the two mutexes are
`QueueLocked` and `SubsLocked`, conditions on it.  PPS and ionotify are external:
an object keeps the last message written; a descriptor has something to read
when its object was written since it was opened or last read; an armed descriptor
sends one pulse at the next write.  `ionotify()` with `_NOTIFY_ACTION_POLLARM` on a
descriptor that has something to read does not arm it and sends no pulse, but
returns the condition (`Arm`).  The code drops that value: line 541 tests only
whether it is negative, line 650 not at all.  So an object that is written between
its read and its re-arming, or that has something to read when it is opened, is
watched no more, and `Unwatched` names that state.  Whether PPS counts what an object
held before it was opened as something to read is left open.  `open`, `read`,
`write` and either `ionotify` fail up to `MaxFaults` times: a message that cannot be
written is `lost`, and a descriptor of which a read or the re-arming failed is not
armed.  `Forget` lets a subscriber's weak pointer expire.

## 3. The runs

Runs with *pass* hold; runs with *violation* check one property that a message
or comment of the code states and that TLC refutes.

| Run | Bounds | States | Shows |
|---|---|---|---|
| queue_publisher | ring of 3, 7 messages, paced, size() tested, late copy | 345 | delivery once, whole, in order; the late copy is intact; the ASSERT holds; refinement of `Fifo`; every message is consumed |
| logger | ring of 3, 8 elements, not paced | 48,619 | a closed logger has written as many elements as were pushed, each in its place, torn or the one a lap later at worst; a lapped one never closes; every other one does |
| matching_book | 1 client, bids at 2 and 3, asks at 1, 3 and 6 (2 and 6 share an entry of 4), quantities 1..2, 4 orders, cancels at will | 255,900 | the properties of the books, refinement of `PriceTimeBook`, the client's copy and its quotes, until a level is misplaced; quantities and ended orders whatever happens |
| matching_sorted (violation) | asks at 1..3, 3 orders | - | a new best ask on top of two levels leaves the list unsorted (`me_order_book.cpp:61`) |
| pool | 6 blocks | 1,531 | the next block is free, the scan ends in one turn of the store, the pool aborts on its last block |
| order_entry_lossy | 1 client, 2 requests per process, 2 processes, a sequencer of 1, failing and partial sends | 23,865 | order in both directions, that a lost send silences its direction, and that everything else is answered |
| order_entry_two | 2 clients, 2 requests each, receive times {1, 2}, a sequencer of 3 | 134,610 | order of each client under the sequencer's sort; a response always has a socket |
| market_data | 2 orders, 4 updates, 2 lost datagrams | 193,628 | a snapshot is the book at its number; order, gaps and end of recoveries |
| market_data_recovery (violation) | 1 order, 2 updates, 1 loss | - | a recovery passes on nothing of the snapshot (`market_data_consumer.cpp:154`) |
| trading_orders | 2 prices, clip 2, limit 3, 4 orders, both strategies | 316,288 | the limit for what is bought, one order per side, responses meet their order, agreement when quiet, no order that was sent stays pending |
| thread_pool | 2 workers, 3 tasks, terminate or cancel | 182,787 | a task once, terminate() complete, the one way to a stranded task, both ends return |
| pps_manager | 1 object, 2 subscribers, 3 messages, 2 failing calls, a pool of 2 to 3 buffers | 241,580 | an object is watched once, and no more only by a failed call or in one gap; nothing backwards; what is published is seen while the object is watched; stop() ends but for one gap |

### 3.1 Why the bounds are enough

* A ring of 3 has an empty, a partly filled and a full state under pacing, and
  7 messages take both indices round it twice.  The proofs cover every size.
* Two bid prices make a new best level and a new worst one; three ask prices make
  one in between, a new best on top of two levels, which line 61 misplaces
  (`matching_sorted` shows it without the reserve of `spoiled`).  The bid 2 and the
  ask 6 share an entry, so that an order is filed at a level of another price.
  4 orders allow one taker against three makers, partial fills and cancels in
  between.
* 6 blocks make every relation of the scan's start, the free blocks and the wrap.
  The theorem covers every number.
* 2 requests and 2 processes make a request before and after a loss, and a
  restart before and after the server knows the client.  A sequencer of 1 fills
  up; one of 3 sorts batches of every mix of two clients.
* 2 orders and 4 updates make ADD, MODIFY and CANCEL of both, a snapshot in
  every place between them, losses of an incremental, of a snapshot's datagram,
  or of both.
* 8 elements lap a ring of 3 twice.
* A limit of 3 with a clip of 2 is one the check must refuse and one that two
  orders of a side could break; 4 orders replace an order of each side after a
  fill that overtook its cancel.  The theorems cover every limit, clip and count.
* Two workers and three tasks: one worker sleeps while the other works, and a
  task is queued behind another.  The theorems cover every number of both.
* One object, since objects meet only in the queue and in the channel, where the
  proofs cover any number of them; three messages for one before, one between
  and one after a read.

### 3.2 Fairness

All threads are loops that never block: they spin on `getNextToRead()`,
`epoll_wait` with timeout 0 and `MSG_DONTWAIT`.  A thread the operating system
schedules now and then therefore takes its next step, which is weak fairness of
each thread's steps.  Nothing obliges a client to send.  TCP delivers what it has
accepted while the connection stands, so a server that reads a socket again and
again does not find it empty for ever: strong fairness of reading all that has
arrived, per socket.  Multicast promises nothing, so losses are not fair either
way; they are bounded by `MaxLosses`.  The engine's thread goes on with the request
it has begun: weak fairness of `GoesOn`, which names the steps `match` and `rest` by
what they do to the request.  The snapshot's timer comes round every
60 seconds: weak fairness of `publishSnapshot`.  The flush thread and the
destructor of the logger sleep and go on.  In `TradingOrders` the exchange and the
trade engine work off their queues; no update of the market and no fill is owed.
In `ThreadPool` and `PpsManager` the threads that do not wait go on, one that
waits on a condition variable is woken by a notification only, and a step that
needs a mutex waits until it is free: every holder gives it back within its next
steps, and no property of progress depends on who gets it first.  Nothing makes
an owner stop a pool or a manager.

What liveness then means: `EveryRequestAnswered` excludes the cases the other
properties show to be hopeless (a failed send, a restart, an ended server).
`RecoveryEnds` rests on the bound on updates: incrementals that arrive during a
snapshot hide its end in the common map, so that on a feed that never pauses for
the length of a snapshot a recovery may be put off for ever.

## 4. What is proved

TLAPS checks every theorem below for all values of the constants.

**LoggerProofs**, first half, about `LFQueue`, from `SizeAssumption` (Size is a
positive natural number):

* `RingInvariant` (assumes `Paced`): the inductive invariant `Ring`.
  `FifoDelivery` alone is not inductive: it says nothing of the slots not read
  yet.  `Ring` adds that the `Waiting` slots from `next_read_index_` on hold the
  next messages in order, that the slot being filled is none of them, that the
  slot the consumer has just released is exactly `Size - 1` places ahead and so
  out of the producer's reach for one more message, and what each program
  counter implies.  One lemma per action shows that it is preserved.
* `FifoDeliveryHolds`, `LateCopyIntactHolds`, `CountMatchesIndicesHolds` follow.
* `FifoImplemented` (assumes `Paced`): the step that publishes a slot is
  `Enqueue`, the use of a slot is `Dequeue`, all others stutter.
* `CountedInvariant`, `TypeCorrect` and `AssertNeverFires` need no pacing: a
  consumer that has seen size() > 0 is the only one to count down.
  `AssertNeverFires` assumes `ChecksSize`, and must: a loop that trusts
  `getNextToRead()` can consume an element that is published and not yet counted.

**LoggerProofs**, second half, about `Logger`, from `SizeAssumption`, without pacing,
for the loop of flushQueue() (`Flushes`: it tests size() and keeps no copy):
`LoggerSafety`, the inductive invariant `LogInv`.  Its core is that `Overcount`, by
which the count exceeds what the indices show, is never negative and never falls;
while it is 0, a weakened `Ring` (`WholeRing`) describes the slots, in which the
one slot that both threads are at in a full ring may hold the old element, half
of the new one, or the new one.  A count of 0 with no call in progress then means
that nothing waits and no lap was lost.  `ClosedLogIsWritten` and `LapHangs`
follow.

**MemPoolProofs**, from `NumElemsAssumption`: `PoolInvariant`, that flags and owners
agree, and that the blocks which the scan in progress has passed are in use and as many
as the turns it has taken, which counts them round the end of the store; and from it
`PoolServesHolds`.

**TradingOrdersProofs**, from `LimitsAssumption`, `InvalidAssumption` and
`SwitchesAssumption`: `TradingSafety`, the inductive invariant `TradingInv`.  None of
the properties is inductive: each speaks of one end, and what the other end will
hear is in the queues.  `TradingInv` says that a side's order is in one place
(`OnePlace`: a request on its way, an order of the book, or an end that the
responses on their way tell of), that the fills on their way are a `Chain` that
takes the manager's quantity down to the exchange's, that an order the manager
waits for is `Somewhere`, that the position lags behind what was traded by exactly
the fills on their way (`PositionLags`), and that the limit has room for what is
left of the orders that are out (`RoomLeft`).  The proof has a lemma for what
appending to and taking from a queue does to each of these, one per action and
side, and one per action for the arithmetic.  From it: `OneOrder`,
`ResponsesMatched`, `LimitKept`, `QuietAgreement`, none of which assumes anything of
`SignedSides` or `SendsNew`: `LimitKept` says `LongLimit` of the code as written, and
`PositionLimit` besides where fills count with their sign.

**ThreadPoolProofs**, from `PoolAssumption`, for any sets of workers and tasks:
`PoolSafety`, the inductive invariant `PoolInv`: `EachTaskOnce` is nearly inductive
itself; `HandsKnown` adds that only a worker that has left the wait holds a task,
and that one that found none has seen the pool ending, from when on only late
tasks wait; `EndsOneWay` that stop and cancel exclude each other.  From it
`TasksKept` and `TerminateComplete`; `GapIsTheOnlyWay` is an action property.

**PpsManagerProofs**, from `PpsAssumption`, for any objects, subscribers, buffers,
messages and faults: `PpsSafety`, the inductive invariant `PpsInv`:
`WatchedOnce` (an object has an armed descriptor, or one pulse under way, or is in the
reader's hand, or none of them) needs that pulses and the reader's work are about
subscribed objects (`PulsesKnown`) and that the pulse of stop() follows its flag; the order of
messages is a chain of inequalities from the queue over the writer's hand and the
object to the reader's hand and the subscriber (`QueueOrdered`, `SeenOrdered`).
From it the action properties `WatchKept`, which goes through every step that could end the
watch of an object, and `OrderKept`.

**MatchingEngineProofs**, from the assumptions of `MEOrderBook` and
`MatchingEngine`: the level map has at least one entry, a client id is a ticker id
(the code indexes its books by client id), quantities are positive, and `Null` is
none of the values it stands beside.  Any prices are allowed: also those that share
an entry of the level map, and those that line 61 ties in the wrong order.
`EngineSafety` is the inductive invariant `EngineInv`.  `QuantityConserved` alone is
not inductive: a fill takes the maker off a list and looks it up in the map of
orders, and nothing says that the two agree.  `EngineInv` adds

* `BooksInOrder`: unless the book has met a dangling pointer, its heads and links
  name levels that exist, every order of a level's list is in the map of orders and
  the other way round, and each list goes up in priority and in order id;
* `OwnOrders`, `IdsInTurn`, `TakerIsLast`: a book has orders of its own client only, a
  client uses its ids in turn, and the order being matched is the last one sent and
  not in the book yet, so that it never matches against itself.

The first part of the module shows for each method of a book (`addOrdersAtPrice`,
`addOrder`, `removeOrdersAtPrice`, `removeOrder`, a fill) that it leaves a book in
order or finds a dangling pointer, and has a lemma per action.  From it:
`NothingLost`, `FirstComeFirstServed` (time priority within every level), and the
action property `EndedForGood`.

The second part is about the order of the levels, for any prices and the code as written.
It lasts until a level is misplaced (`spoiled`, see 2.3): an order filed at a level of
another price, since the code takes a remainder for an index and never compares the
price (`me_order_book.h:39`), or an ask whose place line 61 has looked for in the wrong
direction.  `EngineInv` does not carry these properties: it says that
the links lead to levels, not that following them leads to all the levels of the
side.  The inductive invariant is `SortedInv`, which adds that each book that is not
spoiled is `InLine`: the
levels of a side form a `Ring` (what follows a level is the next worse one, or the best
when there is none, and prev is the inverse of next), each level stands at the index of
its price, its orders have its price and side, and no bid level reaches an ask level.
`Ring` is stated without a walk, by comparing costs, so that inserting and removing
(`RingGrows`, `RingShrinks` and the lemmas of the two methods) are arguments about one link; `RingWalk`
then shows by counting that the walk of `SideSorted` meets each level once.
`SearchedAsMeant` shows that a search which line 61 does not send the wrong way finds
the place that one with the side tested throughout would find, also where the two
comparisons differ and there is one level only; `RestsApart` that an order that comes to rest
crosses nothing, because the loop of `checkForMatch` has stopped at the best level.  From
it: `NobodyLeftToTrade`, `BooksStaySound` (`fault` is set by the last block of the pool
of levels and by nothing else, because a ring has no loose end and a walk along it is back
after as many steps as there are levels) and `BooksWellFormed`.

`EngineImplementsPriceTime`: `add` is `Arrive`, a fill is `Trade` with the oldest of the
best orders, because the head of the ring is the best level (`MakerIsBest`) and the
first order of its list the oldest; `rest` is `Settle`, `cancel` is `Cancel`, and a
rejected cancel stutters.  `Clients # {}` is assumed, for the mapping looks at one client.

The third part is about `ClientBook`.  `CopyOf` says what a client makes of a book: the
object made for an order for the order, the same levels and links, the objects for the
lists.  Each method of `MarketOrderBook` is shown to do to the copy what the engine's does
to the book (`AddOrderCopied`, `FillCopied`, `RemoveOrderCopied`), so that `ClientInv` keeps
`replica = CopyOf(EngineBook)`.  It needs that the table leads from the id of every live
order to its object (`FilesMatch`), which an ADD leaves true unless it comes with an id
in use: the invariant lasts until `overwritten`, for ids as written or counted up.  It
assumes `OneTicker` (see 2.7).
The quotes need an argument of their own, since `updateBBO` computes only the side whose
best level the update touches, as it was before: `QuoteStays` shows that in every other
case the best level and its orders are the same after the update, so that the old quote is
still right.  From it: `ReplicasAgree`, `QuotesAreTrue`, `ReplicaStaysSound`.  The lemma
`ClientRunsEngine` gives the engine's theorems to the composition.

**OrderEntryProofs**, from `ClientsAssumption`, `CountsAssumption`, `FlagsAssumption`
and `NoSocketAssumption`, for any number of clients, requests, restarts, kernel times
and pending requests: `OrderEntrySafety`, the inductive invariant `OrderEntryInv`.
The properties speak of what has arrived; what will arrive is in buffers, on wires
and in the sequencer.  The invariant follows a request from the gateway's buffer to
the engine (`RequestsOnTheWay`, `ServerWaits`, `Pending`, `NoneSkipped`) and a response
from the engine to the strategy (`ResponsesQueued`, `ResponsesOnTheWay`,
`GatewayWaits`): on each leg the numbers go up, and the receiver's counter stands
between what it has passed on and what is still to come.  A lost number is on no leg
and not below the counter (`LostRequestsAreGone`, `LostResponsesAreGone`), and no
socket is read twice in a pass (`SocketLists`), which is why the requests of a client
in one batch have one receive time.  From it: `ResponsesArriveInOrder`, `LostForGood`,
`EveryResponseHasASocket`, and `EveryRequestOnce`, which holds however the sort breaks
ties.  `RequestsArriveInOrder` has one hypothesis more, that no batch is larger than
`StableUpTo`.  It cannot be dropped: `ME_MAX_PENDING_REQUESTS` is 1024, the sort is
stable up to 16, and beyond that the property is false.

**MarketDataProofs**, from `BoundsAssumption`, for any number of orders, updates and
losses: `MarketDataSafety`, the inductive invariant `MarketDataInv`.
`GapsOnlyByRecovery` speaks of what the consumer has passed on; that the next message
will fit depends on what is still in the publisher's buffer and on the wire.
`MarketDataInv` adds that these go up from datagram to datagram and come after what
was passed on (`IncrementalsGoUp`), that the consumer waits for the successor of the
last update it passed on or of a snapshot it has adopted (`ConsumerWaits`), that no
SNAPSHOT_END under way or collected carries a number the synthesizer has not reached
(`SnapshotsReached`), that what the synthesizer has still to read is what was
published after the number it is at (`SynthesizerLags`), and that the synthesizer's
orders are the engine's book at that number (`BooksFollow`): the ASSERTs let no other
update through, and with ids of their own they let every update through.
A datagram is handled message by message (`HandledSteps`); `OneMessage` says what one
message can do to the consumer, and `HandledFine` carries `Fine` through the datagram.
From it: `GapsCovered`, and `SnapshotsTrue`, for ids as written too: two orders that share
one are never in a snapshot together, because the ASSERT of the second ADD ends the
exchange before.

The last three modules need induction, over the steps of a walk along the levels, over
the messages of one read or datagram, and over a list of updates that is replayed.  The library's induction rules take an operator as parameter
and cannot be instantiated here; `Least` (from `WFMin`, which takes a set) gives the
least counterexample instead, and `Induction`, `Recursion` and `Iteration` are drawn
from it.  The handlers that work through a list (`Received`, `Accepted`, `Without`, `Handled`,
`Filled`) are written as recursive functions, about which these lemmas can speak.

### 4.1 Only model-checked

* Liveness under fairness and anything with ENABLED, which TLAPS does not reach:
  `EveryMessageConsumed`, `MatchingEnds`, `EveryRequestAnswered`, `RecoveryEnds`,
  `ShutdownEnds`, `SentEnds`, `EndingEnds`, `PublishedIsSeen`, `StopEndsOrHangs`.
* What `Total` adds up: the theorem on quotes uses no more than that equal lists have
  equal totals.

Every invariant and every action property of a passing run is stated by a theorem;
where a theorem has a hypothesis that a run's constants are chosen to meet, it is named above.

## 5. Where code and text disagree

Shown by a run and listed as findings:

1. `me_order_book.cpp:61` - the first comparison lacks the side.
2. `market_data_consumer.cpp:154` - the loop of line 136 ends after line 213.

Stated in a module and false of the code, which TLC shows in seconds with the cfg named,
changed as said:

* `order_manager.cpp:19` - a new order is never sent: `PendingEnds` under
  `TradingOrders.cfg` with `SendsNew = FALSE`.
* `position_keeper.h:33` - an index is taken for a sign: `PositionLimit` under
  `TradingOrders.cfg`.
* `me_order_book.h:37` - the market order id never counts up: `NoAssertFires` under
  `MarketDataFeed.cfg`, and `QuoteIsTotal` under `ClientBook.cfg`, with
  `DistinctIds = FALSE`.
* `pps_qnx_claude_app1_with_buffer.cpp:650` - the value of `ionotify()` is dropped:
  `NextUpdateIsSeen` under `PpsManager.cfg` (with `MaxFaults = 0` it is quicker).  Line
  647 says "Re-arm the notification for next update".
* `lockfree_queue.h:33` - the slot is published before it is counted, and three
  loops (matching engine, gateway, trade engine) consume without testing the
  count: `AssertHolds` under `LFQueuePublisher.cfg` with `ChecksSize = FALSE`.
* `fifo_sequencer.h:37` - an unstable sort over equal times in a FIFO sequencer:
  `RequestsInOrder` under `OrderEntryTwo.cfg` with `StableUpTo = 1`.

Other places where the code does not do what its text, its neighbours or its
messages say, met while modelling:

* `order_server.cpp:37`, `:83` - wrong number of log arguments, which is fatal.
* `order_server.cpp:59` - memcpy over an overlapping range, of the wrong length.
* `matching_engine.cpp:54` - the book is chosen by client id, not by ticker.
* `me_order_book.h:40` - two prices that are equal mod 256 share a level.
* `me_order_book.cpp:262` - the check of the order of bids begins at the least price.
* `snapshot_synthesizer.cpp:4` - `ticker_orders_` is never initialised.
* `market_data_consumer.cpp:210` - the map is cleared under the loop over it.
* `market_data_consumer.cpp:59` - a lost datagram with no later one is not noticed.
* `market_order_book.cpp:58` - CLEAR leaves freed levels in the price hash map;
  not reachable as long as a recovery passes nothing on.
* `market_order_book.cpp:24` - the first order of an empty side sets no quote.
* `TradeEngine::stop()` logs from a second thread on a queue with one producer.
* A ring that is full, and not yet lapped, already lets the producer overwrite the
  element being read: `ClosedIsWritten` has to allow for it.
* `src/thread_pool.cpp:214` - a notification can fall between a worker's test and
  its sleep; and a task that passes the test of async() before terminate() and is
  queued after it is never run, so that its future never becomes ready.
* `pps_qnx_claude_app1_with_buffer.cpp` - stop() clears the flag without
  `queue_mutex_` and can hang (line 357); what is queued at that time is dropped;
  a failed read leaves the descriptor unarmed (652); the views call
  `shared_from_this()` in their constructors (762, 806), where no owner exists yet;
  callbacks run under `sub_mutex_`, so one that subscribes would lock it twice.
* `src/SPSC/SPSC.h:73` can lose a wake-up, `src/Mutex&LockFree/fifo5.h:106` stores
  into the wrong cursor, and in `src/Mutex&LockFree/RingBuffer_Gemini.cpp:63` two
  threads write one cursor.

## 6. Not modelled

Within the modelled components:

* Contents of messages beyond what properties tell apart; formats, logging, P&L.
* Weak memory: `LFQueue` uses sequentially consistent atomics only, and its slots
  are published through them; the pool and the PPS manager use mutexes and
  default atomics.
* Byte streams: sockets carry whole messages.  A half message waits in
  `rcv_buffer_` as it would on the wire, as long as line 59 of
  `order_server.cpp` behaves as memmove would.
* Several tickers in `MarketData`, `ClientBook` and `TradingOrders`: each is
  treated alike and independently but for the CLEAR a snapshot begins with and
  the counter of order ids.  TRADE updates are left out of `MarketData`: they
  change no order of anyone.
* Reordered or duplicated datagrams: the code treats any unexpected number as a
  gap, as it does a loss.
* CLEAR at the client's book, which nothing passes on.
* What the order of levels comes to once a level was misplaced, beyond what holds all
  the same (`EngineSafety`), and pools at their limit
  inside the books but for the abort (the pool itself is modelled).
* Restart of the exchange, start-up and the fixed sleeps of shutdown.

Components left out altogether:

* Chapters 4 and 6 to 9 are earlier states of the files of Chapter 10, often the
  same text: a model of them would be the same model.
* `thread_utils.h`, `socket_utils.*`, `time_utils.h` and the two `main` files wrap
  system calls.
* The other files of `src/testPPS` are drafts of the PPS manager.
* The FIFOs of `src/Mutex&LockFree` and the queue of `src/SPSC` are variants of
  designs that are modelled; what sets them apart is memory ordering and speed.
* `src/Cpp_concurrency_in_action`, `src/HazardPointer_RCU`, `src/OSTEP`, `src/CSAPP`
  (with the library `csapp.c` of its book) and the other book directories hold
  listings and exercises that no program uses.
* Benchmarks, design-pattern sketches and the single files at the top have no
  protocol and hardly any state.
