------------------------------ MODULE MarketData ------------------------------
(***************************************************************************)
(* The market data path of Chapter10: the MarketDataPublisher thread, the  *)
(* SnapshotSynthesizer thread (exchange/market_data), the two multicast    *)
(* streams (common/mcast_socket.cpp) and the MarketDataConsumer thread of  *)
(* a trading client (trading/market_data/market_data_consumer.cpp).  The   *)
(* matching engine is the environment: it makes orders live, changes their *)
(* quantity and ends them, in one book.                                    *)
(*                                                                         *)
(* A message is [seq, type, id, qty]; SNAPSHOT_START and SNAPSHOT_END      *)
(* carry the number of the last incremental in the place of the id.  A     *)
(* datagram is a sequence of messages and arrives whole or not at all.     *)
(***************************************************************************)
EXTENDS Integers, Sequences

CONSTANTS
    MaxOrders,    \* bound: orders the matching engine makes live
    MaxUpdates,   \* bound: incremental updates
    MaxLosses,    \* bound: datagrams lost
    DistinctIds   \* BOOLEAN: market order ids differ; FALSE is the code as
                  \* written, which gives every order the id 1

ASSUME BoundsAssumption == {MaxOrders, MaxUpdates, MaxLosses} \subseteq Nat
ASSUME IdsAssumption == DistinctIds \in BOOLEAN

VARIABLES
    live,                  \* the orders of the matching engine: quantities, 0 for none
    next_order,
    next_inc_seq_num_,
    inc_buffer,            \* outbound_data_ of incremental_socket_
    snapshot_md_updates_,  \* the queue from the publisher to the synthesizer
    ticker_orders_,        \* the synthesizer's orders: quantities, 0 for nullptr
    last_inc_seq_num_,
    snapshot,              \* the datagrams publishSnapshot() has still to send
    aborted,               \* an ASSERT of addToSnapshot() has ended the exchange
    inc_wire,
    snapshot_wire,
    losses,
    consumer,              \* [next_exp, in_recovery, queued, joined, alive]
    published,             \* history: every incremental update
    books,                 \* history: the engine's orders before the first and after
                           \* every update
    received,              \* history: what the consumer gave to the trade engine
    adopted                \* history: the numbers recoveries have ended with

exchange == <<live, next_order, books>>
synthesizer == <<ticker_orders_, last_inc_seq_num_, snapshot, aborted>>
history == <<received, adopted>>
vars == <<exchange, next_inc_seq_num_, inc_buffer, snapshot_md_updates_, synthesizer,
          inc_wire, snapshot_wire, losses, consumer, published, history>>

Orders == 1 .. MaxOrders
Qtys == 0 .. 2
Message(seq, type, id, qty) == [seq |-> seq, type |-> type, id |-> id, qty |-> qty]
Types == {"ADD", "MODIFY", "CANCEL", "CLEAR", "SNAPSHOT_START", "SNAPSHOT_END"}
Messages == [seq : Nat, type : Types, id : Nat, qty : Qtys]

\* MEOrderBook::generateNewMarketOrderId().
generateNewMarketOrderId(order) == IF DistinctIds THEN order ELSE 1

\* The constructor of SnapshotSynthesizer leaves ticker_orders_ alone.  The object
\* has 64 MB and is allocated once, at the start: such an allocation is mapped
\* anew, and its pages are zero, so that every pointer is null.
Init ==
    /\ live = [o \in Orders |-> 0]
    /\ next_order = 1
    /\ next_inc_seq_num_ = 1
    /\ inc_buffer = << >>
    /\ snapshot_md_updates_ = << >>
    /\ ticker_orders_ = [id \in Orders |-> 0]
    /\ last_inc_seq_num_ = 0
    /\ snapshot = << >>
    /\ aborted = FALSE
    /\ inc_wire = << >>
    /\ snapshot_wire = << >>
    /\ losses = 0
    /\ consumer = [next_exp |-> 1, in_recovery |-> FALSE, queued |-> {}, joined |-> FALSE,
                   alive |-> TRUE]
    /\ published = << >>
    /\ books = <<live>>
    /\ received = << >>
    /\ adopted = {}

-----------------------------------------------------------------------------
(* The publisher thread: one turn of its loop for each update of the       *)
(* matching engine, then sendAndRecv() when it finds no more.              *)

Publish(type, order, qty) ==
    LET m == Message(next_inc_seq_num_, type, generateNewMarketOrderId(order), qty)
    IN  /\ ~aborted
        /\ next_inc_seq_num_ <= MaxUpdates
        /\ inc_buffer' = Append(inc_buffer, m)
        /\ snapshot_md_updates_' = Append(snapshot_md_updates_, m)
        /\ next_inc_seq_num_' = next_inc_seq_num_ + 1
        /\ published' = Append(published, m)
        /\ live' = [live EXCEPT ![order] = qty]
        /\ books' = Append(books, live')
        /\ UNCHANGED <<synthesizer, inc_wire, snapshot_wire, losses, consumer, history>>

\* Orders become live with quantity 2, may be filled down to 1, and end.  The
\* TRADE update before a fill changes no order of anyone and is left out.
PublishAdd ==
    /\ next_order <= MaxOrders
    /\ Publish("ADD", next_order, 2)
    /\ next_order' = next_order + 1

PublishModify ==
    /\ \E o \in Orders : live[o] = 2 /\ Publish("MODIFY", o, 1)
    /\ UNCHANGED next_order

PublishCancel ==
    /\ \E o \in Orders : live[o] > 0 /\ Publish("CANCEL", o, 0)
    /\ UNCHANGED next_order

\* The updates of one turn go out in one datagram, which may be lost.
FlushIncremental ==
    /\ ~aborted
    /\ inc_buffer # << >>
    /\ \/ inc_wire' = Append(inc_wire, inc_buffer) /\ UNCHANGED losses
       \/ losses < MaxLosses /\ losses' = losses + 1 /\ UNCHANGED inc_wire
    /\ inc_buffer' = << >>
    /\ UNCHANGED <<exchange, next_inc_seq_num_, snapshot_md_updates_, synthesizer,
                   snapshot_wire, consumer, published, history>>

-----------------------------------------------------------------------------
(* The snapshot synthesizer thread.                                        *)

\* Mutant: a MODIFY leaves the order as it was.
AppliedWithoutModify(orders, m) ==
    IF m.type = "MODIFY" THEN orders ELSE [orders EXCEPT ![m.id] = m.qty]

Applied(orders, m) == [orders EXCEPT ![m.id] = m.qty]

\* The ASSERTs of addToSnapshot(): an ADD finds no order under its id, a
\* MODIFY or CANCEL finds one, and the numbers have no gap.
Acceptable(orders, last, m) ==
    /\ (m.type = "ADD") <=> (orders[m.id] = 0)
    /\ m.seq = last + 1

addToSnapshot ==
    /\ ~aborted
    /\ snapshot = << >>
    /\ snapshot_md_updates_ # << >>
    /\ LET m == Head(snapshot_md_updates_)
       IN  IF Acceptable(ticker_orders_, last_inc_seq_num_, m)
           THEN /\ ticker_orders_' = Applied(ticker_orders_, m)
                /\ last_inc_seq_num_' = m.seq
                /\ UNCHANGED aborted
           ELSE aborted' = TRUE /\ UNCHANGED <<ticker_orders_, last_inc_seq_num_>>
    /\ snapshot_md_updates_' = Tail(snapshot_md_updates_)
    /\ UNCHANGED <<exchange, next_inc_seq_num_, inc_buffer, snapshot, inc_wire, snapshot_wire,
                   losses, consumer, published, history>>

\* The ids that have an order, in the order of the synthesizer's array.
Filled(orders) ==
    LET ids[id \in 0 .. MaxOrders] ==
          IF id = 0 THEN << >>
          ELSE IF orders[id] > 0 THEN Append(ids[id - 1], id) ELSE ids[id - 1]
    IN  ids[MaxOrders]

\* The datagrams of a snapshot: the buffer is sent after every order, so that the
\* first one also holds what precedes the first order.
Datagrams(orders, last) ==
    LET ids   == Filled(orders)
        k     == Len(ids)
        start == <<Message(0, "SNAPSHOT_START", last, 0), Message(1, "CLEAR", 0, 0)>>
        end   == Message(k + 2, "SNAPSHOT_END", last, 0)
    IN  [d \in 1 .. k + 1 |->
            (IF d = 1 THEN start ELSE << >>) \o
            <<IF d <= k THEN Message(d + 1, "ADD", ids[d], orders[ids[d]]) ELSE end>>]

\* Every 60 seconds: the snapshots of the model are as far apart as it takes
\* the consumer to read one.
publishSnapshot ==
    /\ ~aborted
    /\ snapshot = << >>
    /\ snapshot_wire = << >>
    /\ snapshot' = Datagrams(ticker_orders_, last_inc_seq_num_)
    /\ UNCHANGED <<exchange, next_inc_seq_num_, inc_buffer, snapshot_md_updates_,
                   ticker_orders_, last_inc_seq_num_, aborted, inc_wire, snapshot_wire,
                   losses, consumer, published, history>>

\* One sendAndRecv() of publishSnapshot().  Who has not joined gets nothing.
FlushSnapshot ==
    /\ ~aborted
    /\ snapshot # << >>
    /\ \/ /\ snapshot_wire' = IF consumer.joined THEN Append(snapshot_wire, Head(snapshot))
                              ELSE snapshot_wire
          /\ UNCHANGED losses
       \/ /\ consumer.joined /\ losses < MaxLosses
          /\ losses' = losses + 1
          /\ UNCHANGED snapshot_wire
    /\ snapshot' = Tail(snapshot)
    /\ UNCHANGED <<exchange, next_inc_seq_num_, inc_buffer, snapshot_md_updates_,
                   ticker_orders_, last_inc_seq_num_, aborted, inc_wire, consumer,
                   published, history>>

-----------------------------------------------------------------------------
(* The consumer thread.  c is its state in the course of recvCallback(),   *)
(* with out, the messages it has passed on so far; the methods give the    *)
(* set of states they may lead to.                                         *)

startSnapshotSync(c) == [c EXCEPT !.in_recovery = TRUE, !.queued = {}, !.joined = TRUE]

\* Mutant: a message that comes again does not end the collection.
QueuedForGood(c, is_snapshot, m) == {q \in c.queued : q.seq # m.seq} \cup {m}

\* snapshot_queued_msgs_, a map from numbers to messages, takes incrementals
\* too: incremental_queued_msgs_ is never filled.
Queued(c, is_snapshot, m) ==
    LET others == {q \in c.queued : q.seq # m.seq}
    IN  IF is_snapshot /\ others # c.queued THEN {m} ELSE others \cup {m}

FirstQueued(queued) == CHOOSE m \in queued : \A q \in queued : m.seq <= q.seq
LastQueued(queued) == CHOOSE m \in queued : \A q \in queued : m.seq >= q.seq

ResumeAt(m) == m.id + 1

\* All of checkSnapshotSync() happens in the first turn of its loop, at
\* SNAPSHOT_START: with SNAPSHOT_END last, the recovery is over before any
\* snapshot message was collected or any gap was looked for.  The loop then
\* goes on over the map it has cleared, which the process survives or not.
checkSnapshotSync(c) ==
    IF FirstQueued(c.queued).type # "SNAPSHOT_START" THEN {[c EXCEPT !.queued = {}]}
    ELSE IF LastQueued(c.queued).type # "SNAPSHOT_END" THEN {c}
    ELSE {[c EXCEPT !.next_exp = ResumeAt(LastQueued(c.queued)), !.in_recovery = FALSE,
                    !.queued = {}, !.joined = FALSE, !.alive = survives,
                    !.ends = @ \cup {LastQueued(c.queued).id}] : survives \in BOOLEAN}

queueMessage(c, is_snapshot, m) ==
    checkSnapshotSync([c EXCEPT !.queued = Queued(c, is_snapshot, m)])

\* Mutant: a gap is not noticed.
GapOverlooked(c, m) == m.seq < c.next_exp

Gap(c, m) == m.seq # c.next_exp

\* One message of recvCallback().
OnMessage(c, is_snapshot, m) ==
    IF ~c.alive THEN {c}
    ELSE IF c.in_recovery THEN queueMessage(c, is_snapshot, m)
    ELSE IF Gap(c, m) THEN queueMessage(startSnapshotSync(c), is_snapshot, m)
    ELSE IF is_snapshot THEN {c}
    ELSE {[c EXCEPT !.next_exp = m.seq + 1, !.out = Append(@, m)]}

\* The states recvCallback() may be in once it has handled a datagram.
Handled(is_snapshot, datagram) ==
    LET with == [next_exp |-> consumer.next_exp, in_recovery |-> consumer.in_recovery,
                 queued |-> consumer.queued, joined |-> consumer.joined,
                 alive |-> consumer.alive, out |-> received, ends |-> adopted]
        after[i \in 0 .. Len(datagram)] ==
            IF i = 0 THEN {with}
            ELSE UNION {OnMessage(c, is_snapshot, datagram[i]) : c \in after[i - 1]}
    IN  after[Len(datagram)]

Receive(is_snapshot, datagram) ==
    \E c \in Handled(is_snapshot, datagram) :
        /\ consumer' = [next_exp |-> c.next_exp, in_recovery |-> c.in_recovery,
                        queued |-> c.queued, joined |-> c.joined, alive |-> c.alive]
        /\ received' = c.out
        /\ adopted' = c.ends

ReceiveIncremental ==
    /\ consumer.alive
    /\ inc_wire # << >>
    /\ Receive(FALSE, Head(inc_wire))
    /\ inc_wire' = Tail(inc_wire)
    /\ UNCHANGED <<exchange, next_inc_seq_num_, inc_buffer, snapshot_md_updates_, synthesizer,
                   snapshot_wire, losses, published>>

\* leave() closes the socket: what it still holds is gone.
ReceiveSnapshot ==
    /\ consumer.alive
    /\ snapshot_wire # << >>
    /\ IF consumer.in_recovery
       THEN Receive(TRUE, Head(snapshot_wire))
       ELSE UNCHANGED <<consumer, history>>
    /\ snapshot_wire' = IF consumer'.joined THEN Tail(snapshot_wire) ELSE << >>
    /\ UNCHANGED <<exchange, next_inc_seq_num_, inc_buffer, snapshot_md_updates_, synthesizer,
                   inc_wire, losses, published>>

Next ==
    \/ PublishAdd \/ PublishModify \/ PublishCancel \/ FlushIncremental
    \/ addToSnapshot \/ publishSnapshot \/ FlushSnapshot
    \/ ReceiveIncremental \/ ReceiveSnapshot

Spec == Init /\ [][Next]_vars

\* The threads spin, and the 60 seconds pass again and again.
Fairness ==
    /\ WF_vars(FlushIncremental) /\ WF_vars(addToSnapshot)
    /\ WF_vars(publishSnapshot) /\ WF_vars(FlushSnapshot)
    /\ WF_vars(ReceiveIncremental) /\ WF_vars(ReceiveSnapshot)

FairSpec == Spec /\ Fairness

-----------------------------------------------------------------------------
(* Properties *)

TypeOK ==
    /\ live \in [Orders -> Qtys]
    /\ next_order \in 1 .. MaxOrders + 1
    /\ next_inc_seq_num_ \in 1 .. MaxUpdates + 1
    /\ {inc_buffer, snapshot_md_updates_, published, received} \subseteq Seq(Messages)
    /\ ticker_orders_ \in [Orders -> Qtys]
    /\ last_inc_seq_num_ \in 0 .. MaxUpdates
    /\ {snapshot, inc_wire, snapshot_wire} \subseteq Seq(Seq(Messages))
    /\ aborted \in BOOLEAN
    /\ losses \in 0 .. MaxLosses
    /\ consumer \in [next_exp : 1 .. MaxUpdates + 1, in_recovery : BOOLEAN,
                     queued : SUBSET Messages, joined : BOOLEAN, alive : BOOLEAN]
    /\ adopted \subseteq 0 .. MaxUpdates
    /\ books \in Seq([Orders -> Qtys])

\* An order of the engine and its quantity, as the market sees it.
OnMarket(book) ==
    {[id |-> generateNewMarketOrderId(o), qty |-> book[o]] : o \in {p \in Orders : book[p] > 0}}

\* The engine's orders after n updates.
BookAfter(n) == books[n + 1]

Within(datagrams) == UNION {{datagrams[d][i] : i \in DOMAIN datagrams[d]} : d \in DOMAIN datagrams}
LastMessage(datagrams) ==
    LET final == datagrams[Len(datagrams)] IN final[Len(final)]

\* What is applied in one thread and what is published by another agree: a
\* snapshot, when it is made, shows the engine's book as it was after the number
\* of updates that it carries, every order once and none hidden behind another,
\* however far the synthesizer lags behind the publisher.
SnapshotIsBookAtItsNumber ==
    [][snapshot = << >> /\ snapshot' # << >> =>
         LET orders == {m \in Within(snapshot') : m.type = "ADD"}
             book   == BookAfter(LastMessage(snapshot').id)
         IN  /\ {[id |-> m.id, qty |-> m.qty] : m \in orders} = OnMarket(book)
             /\ \A m, k \in orders : m.id = k.id => m = k
             /\ \A o, p \in Orders :
                   book[o] > 0 /\ book[p] > 0
                     /\ generateNewMarketOrderId(o) = generateNewMarketOrderId(p) => o = p]_vars

\* What the ASSERTs of addToSnapshot() claim of the updates they get: an ADD finds
\* no order there (snapshot_synthesizer.cpp:25, "but order already exists"), the
\* others find theirs, and no number is missing.  It is not so of ids as written, with
\* two orders live.
NoAssertFires == ~aborted

\* Whatever was lost and however often the consumer recovered, what it passes
\* on are incrementals as they were published, none twice or after a later
\* one; those missing before one of them, from the first on, are covered by
\* the number of a snapshot the consumer has recovered to.  Until it has
\* recovered nothing is missing.
GapsOnlyByRecovery ==
    \A i \in DOMAIN received :
        LET before == IF i = 1 THEN 0 ELSE received[i - 1].seq
            seq    == received[i].seq
        IN  /\ before < seq /\ seq <= Len(published)
            /\ received[i] = published[seq]
            /\ seq = before + 1 \/ seq - 1 \in adopted

\* The orders that a list of incrementals leaves, by their ids.
Replayed(list) ==
    LET book[i \in 0 .. Len(list)] ==
          IF i = 0 THEN [id \in Orders |-> 0]
          ELSE [book[i - 1] EXCEPT ![list[i].id] = list[i].qty]
    IN  book[Len(list)]

\* "Recovered % snapshot and % incremental orders" (market_data_consumer.cpp:208):
\* outside a recovery, what the consumer has passed on makes the book that the
\* exchange had before the number the consumer now expects.
RecoveryRestoresBook ==
    consumer.alive /\ ~consumer.in_recovery =>
        LET replayed == Replayed(received)
        IN  {[id |-> i, qty |-> replayed[i]] : i \in {j \in Orders : replayed[j] > 0}}
              = OnMarket(BookAfter(consumer.next_exp - 1))

\* A recovery ends: once the market is quiet for a whole snapshot, the
\* consumer finds one it can use, or it has died on its way out of the loop.
RecoveryEnds == consumer.in_recovery ~> (~consumer.in_recovery \/ ~consumer.alive)
=============================================================================
