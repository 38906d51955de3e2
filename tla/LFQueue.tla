------------------------------- MODULE LFQueue -------------------------------
(***************************************************************************)
(* thu::LFQueue<T> (Chapter10/common/lockfree_queue.h) with its one        *)
(* producer thread and its one consumer thread.  Every atomic access of    *)
(* the class is a step of its own, and so are the writing and the reading  *)
(* of the slot between the calls, because the two threads run on           *)
(* different cores without any lock.                                       *)
(*                                                                         *)
(* A message is the number of its send (1, 2, ...); its payload is left    *)
(* out.  The class is used by three kinds of consumer loop, which the      *)
(* constants ChecksSize and LateCopy tell apart:                           *)
(*   - MatchingEngine::run, OrderGateway::run and TradeEngine::run trust   *)
(*     getNextToRead() alone (ChecksSize = FALSE);                         *)
(*   - OrderServer::run, SnapshotSynthesizer::run and Logger::flushQueue   *)
(*     also require size() to be positive (ChecksSize = TRUE);             *)
(*   - MarketDataPublisher::run requires size() and then reads the slot a  *)
(*     second time after it has given it back (LateCopy = TRUE).           *)
(* Nothing in the class stops a producer from lapping its consumer.  Paced *)
(* says that the traffic never leaves more than Size - 1 messages waiting, *)
(* which the program relies on by making its queues large.                 *)
(***************************************************************************)
EXTENDS Integers, Sequences

CONSTANTS
    Size,        \* store_.size()
    MaxSent,     \* bound: number of messages the producer sends
    Paced,       \* BOOLEAN: at most Size - 1 messages are ever waiting
    ChecksSize,  \* BOOLEAN: the consumer loop tests size()
    LateCopy     \* BOOLEAN: the consumer reads the slot again after the release

ASSUME SizeAssumption == Size \in Nat \ {0}
ASSUME BoundAssumption == MaxSent \in Nat
ASSUME ModeAssumption == {Paced, ChecksSize, LateCopy} \subseteq BOOLEAN

VARIABLES
    store_,             \* the slots
    next_write_index_,
    next_read_index_,
    num_elements_,
    writer,             \* where the producer thread is
    reader,             \* where the consumer thread is
    item,               \* the slot getNextToRead() pointed the consumer to
    sent,               \* history: messages published by the producer
    got,                \* history: what the consumer read, in order
    copied              \* history: what the second read of a slot returned

indices == <<next_write_index_, next_read_index_>>
vars == <<store_, indices, num_elements_, writer, reader, item, sent, got, copied>>

\* The content of a slot that is not a whole message: its initial T(), or a
\* message the producer is still copying in.
Torn == 0

Slots == 0 .. Size - 1

\* Between getNextToRead() and the end of its use, the consumer holds a slot.
Holding == reader \in {"found", "use", "advance"}

\* Messages the indices still give the consumer.  Equal indices are an empty
\* ring to a consumer that asks, and a whole ring to one that holds a slot.
Waiting ==
    IF next_read_index_ = next_write_index_ THEN IF Holding THEN Size ELSE 0
    ELSE IF next_read_index_ < next_write_index_
         THEN next_write_index_ - next_read_index_
         ELSE next_write_index_ + Size - next_read_index_

TypeOK ==
    /\ store_ \in [Slots -> Nat]
    /\ next_write_index_ \in Slots
    /\ next_read_index_ \in Slots
    /\ num_elements_ \in Nat
    /\ writer \in {"idle", "writing", "written", "published"}
    /\ reader \in {"poll", "found", "use", "advance", "assert", "count", "copy", "aborted"}
    /\ item \in Slots
    /\ sent \in Nat
    /\ got \in Seq(Nat)
    /\ copied \in Seq(Nat)

Init ==
    /\ store_ = [i \in Slots |-> Torn]
    /\ next_write_index_ = 0
    /\ next_read_index_ = 0
    /\ num_elements_ = 0
    /\ writer = "idle"
    /\ reader = "poll"
    /\ item = 0
    /\ sent = 0
    /\ got = << >>
    /\ copied = << >>

\* A failed ASSERT ends the process, and with it both threads.
Running == reader # "aborted"

\* Mutant: the ring wraps one slot early.
SuccessorWrapsEarly(i) == (i + 1) % (Size - 1)

Successor(i) == (i + 1) % Size

-----------------------------------------------------------------------------
(* The producer: getNextToWriteTo(), an assignment to the slot, and        *)
(* updateWriteIndex(), which publishes the slot before it counts it.       *)

BeginWrite ==
    /\ Running
    /\ writer = "idle"
    /\ sent < MaxSent
    /\ Paced => Waiting < Size - 1
    /\ store_' = [store_ EXCEPT ![next_write_index_] = Torn]
    /\ writer' = "writing"
    /\ UNCHANGED <<indices, num_elements_, reader, item, sent, got, copied>>

EndWrite ==
    /\ Running
    /\ writer = "writing"
    /\ store_' = [store_ EXCEPT ![next_write_index_] = sent + 1]
    /\ writer' = "written"
    /\ UNCHANGED <<indices, num_elements_, reader, item, sent, got, copied>>

StoreWriteIndex ==
    /\ Running
    /\ writer = "written"
    /\ next_write_index_' = Successor(next_write_index_)
    /\ sent' = sent + 1
    /\ writer' = "published"
    /\ UNCHANGED <<store_, next_read_index_, num_elements_, reader, item, got, copied>>

\* Mutant: the slot is published and never counted.
CountWriteForgotten ==
    /\ Running
    /\ writer = "published"
    /\ writer' = "idle"
    /\ UNCHANGED <<store_, indices, num_elements_, reader, item, sent, got, copied>>

CountWrite ==
    /\ Running
    /\ writer = "published"
    /\ num_elements_' = num_elements_ + 1
    /\ writer' = "idle"
    /\ UNCHANGED <<store_, indices, reader, item, sent, got, copied>>

-----------------------------------------------------------------------------
(* The consumer: getNextToRead(), size() where the loop tests it, the use  *)
(* of the slot, and updateReadIndex(), which gives the slot back, asserts  *)
(* that something was counted, and only then counts it out.                *)

Poll ==
    /\ reader = "poll"
    /\ next_read_index_ # next_write_index_
    /\ item' = next_read_index_
    /\ reader' = IF ChecksSize THEN "found" ELSE "use"
    /\ UNCHANGED <<store_, indices, num_elements_, writer, sent, got, copied>>

\* Mutant: the loop does not look at size().
TestSizeDropped ==
    /\ reader = "found"
    /\ reader' = "use"
    /\ UNCHANGED <<store_, indices, num_elements_, writer, item, sent, got, copied>>

TestSize ==
    /\ reader = "found"
    /\ reader' = IF num_elements_ # 0 THEN "use" ELSE "poll"
    /\ UNCHANGED <<store_, indices, num_elements_, writer, item, sent, got, copied>>

Use ==
    /\ reader = "use"
    /\ got' = Append(got, store_[item])
    /\ reader' = "advance"
    /\ UNCHANGED <<store_, indices, num_elements_, writer, item, sent, copied>>

\* Mutant: updateReadIndex() leaves the index where it is.
StoreReadIndexForgotten ==
    /\ reader = "advance"
    /\ reader' = "assert"
    /\ UNCHANGED <<store_, indices, num_elements_, writer, item, sent, got, copied>>

StoreReadIndex ==
    /\ reader = "advance"
    /\ next_read_index_' = Successor(next_read_index_)
    /\ reader' = "assert"
    /\ UNCHANGED <<store_, next_write_index_, num_elements_, writer, item, sent, got, copied>>

AssertCounted ==
    /\ reader = "assert"
    /\ reader' = IF num_elements_ # 0 THEN "count" ELSE "aborted"
    /\ UNCHANGED <<store_, indices, num_elements_, writer, item, sent, got, copied>>

CountRead ==
    /\ reader = "count"
    /\ num_elements_' = num_elements_ - 1
    /\ reader' = IF LateCopy THEN "copy" ELSE "poll"
    /\ UNCHANGED <<store_, indices, writer, item, sent, got, copied>>

\* Mutant: the second read asks for the slot again instead of keeping it.
CopyNextSlot ==
    /\ reader = "copy"
    /\ copied' = Append(copied, store_[next_read_index_])
    /\ reader' = "poll"
    /\ UNCHANGED <<store_, indices, num_elements_, writer, item, sent, got>>

CopyReleased ==
    /\ reader = "copy"
    /\ copied' = Append(copied, store_[item])
    /\ reader' = "poll"
    /\ UNCHANGED <<store_, indices, num_elements_, writer, item, sent, got>>

-----------------------------------------------------------------------------
Produce == BeginWrite \/ EndWrite \/ StoreWriteIndex \/ CountWrite

Consume == \/ Poll \/ TestSize \/ Use
           \/ StoreReadIndex \/ AssertCounted \/ CountRead \/ CopyReleased

Next == Produce \/ Consume

Spec == Init /\ [][Next]_vars

\* Both threads spin and are never blocked: a call that has begun goes on, and
\* the consumer loop goes round.  Nothing obliges the producer to send.
Fairness ==
    /\ WF_vars(EndWrite \/ StoreWriteIndex \/ CountWrite)
    /\ WF_vars(Consume)

FairSpec == Spec /\ Fairness

-----------------------------------------------------------------------------
(* Properties *)

\* What the consumer reads are the messages 1, 2, 3, ... in the order sent,
\* whole, each once, and never before updateWriteIndex() published it: the
\* two threads share slots and indices without a lock.
FifoDelivery ==
    /\ Len(got) <= sent
    /\ \A i \in 1 .. Len(got) : got[i] = i

\* MarketDataPublisher::run copies *market_update into the snapshot queue
\* after updateReadIndex() has offered the slot to the producer again; the
\* copy still is the message that was sent out on the incremental stream.
LateCopyIntact ==
    /\ Len(copied) <= Len(got)
    /\ \A i \in 1 .. Len(copied) : copied[i] = got[i]

\* By how much num_elements_ exceeds what the indices say, once the calls in
\* progress are allowed for.
Overcount ==
    (num_elements_ + (IF writer = "published" THEN 1 ELSE 0))
        - (Waiting + (IF reader \in {"assert", "count", "aborted"} THEN 1 ELSE 0))

\* size() and the two indices are separate atomics that are updated one after
\* the other; while the traffic is paced they differ by the calls in progress
\* and by nothing else, so that the error never accumulates.
CountMatchesIndices == Overcount = 0

\* "Read an invalid element in: " (lockfree_queue.h:42): updateReadIndex()
\* never finds the element it gives back uncounted.
AssertHolds == reader # "aborted"

\* Every message that is published is consumed in the end, although the index
\* the consumer polls and the count it tests become visible one by one.
EveryMessageConsumed ==
    \A n \in 1 .. MaxSent : (sent >= n) ~> (Len(got) >= n)

\* The queue implements the FIFO it promises.
Promise == INSTANCE Fifo WITH
    Capacity  <- Size - 1,
    queue     <- [i \in 1 .. sent - Len(got) |-> Len(got) + i],
    delivered <- got

ImplementsFifo == Promise!Spec
=============================================================================
