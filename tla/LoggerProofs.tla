---------------------------- MODULE LoggerProofs ----------------------------
(***************************************************************************)
(* Theorems about LFQueue and about the Logger on it, for every ring size  *)
(* and number of elements.                                                 *)
(*                                                                         *)
(* For a paced queue the inductive invariant Ring says what each slot      *)
(* holds: the Waiting slots from next_read_index_ on hold the next         *)
(* messages in order, and the slot the producer is filling is neither one  *)
(* of them nor the slot the consumer has just released.                    *)
(*                                                                         *)
(* The queue of the logger is one that nothing keeps from being lapped.    *)
(* Its inductive invariant LogInv says that the count never falls short of *)
(* what the indices show, and that it shows no more than they do for as    *)
(* long as no lap was lost; in that case the slots hold the elements not   *)
(* yet read, but for the one being read, which a producer one lap on may   *)
(* be overwriting.                                                         *)
(***************************************************************************)
EXTENDS Logger, SequenceTheorems, TLAPS

USE DEF Slots

\* The slot k places after the next one to read.
Ahead(k) == IF next_read_index_ + k < Size
            THEN next_read_index_ + k
            ELSE next_read_index_ + k - Size

Used == IF reader = "advance" THEN 1 ELSE 0

\* The consumer has given back the slot it still knows by item.
Released == reader \in {"assert", "count", "copy", "aborted"}

RoomKept ==
    /\ Waiting \in 0 .. Size - 1
    /\ writer \in {"writing", "written"} => Waiting < Size - 1
    /\ next_write_index_ = Ahead(Waiting)

SlotsHold ==
    /\ sent = Len(got) + Waiting - Used
    /\ \A k \in 0 .. Waiting - 1 : store_[Ahead(k)] = sent - Waiting + k + 1
    /\ writer = "written" => store_[next_write_index_] = sent + 1

HeldItem ==
    /\ Holding => item = next_read_index_ /\ Waiting > 0
    /\ reader = "advance" => Len(got) > 0
    /\ reader = "count" => num_elements_ > 0
    /\ Released =>
        /\ item = Ahead(Size - 1)
        /\ Len(got) > 0
        /\ store_[item] = got[Len(got)]

CopiesLag ==
    LateCopy => Len(copied) = Len(got) - (IF reader = "advance" \/ Released THEN 1 ELSE 0)

NoCopies == ~LateCopy => copied = << >> /\ reader # "copy"

Ring ==
    /\ TypeOK
    /\ CountMatchesIndices
    /\ RoomKept
    /\ SlotsHold
    /\ HeldItem
    /\ CopiesLag
    /\ NoCopies
    /\ FifoDelivery
    /\ LateCopyIntact

\* Cyclic successor without the modulo of updateWriteIndex().
LEMMA SuccessorWraps ==
    \A i \in Slots : Successor(i) = IF i + 1 = Size THEN 0 ELSE i + 1
<1>1. SUFFICES ASSUME NEW i \in Slots
      PROVE Successor(i) = IF i + 1 = Size THEN 0 ELSE i + 1
  OBVIOUS
<1>2. CASE i + 1 = Size
  BY <1>2, SizeAssumption DEF Successor
<1>3. CASE i + 1 # Size
  BY <1>3, SizeAssumption DEF Successor
<1>4. QED BY <1>2, <1>3

\* The next index is an index.
LEMMA SuccessorInSlots == \A i \in Slots : Successor(i) \in Slots
BY SuccessorWraps, SizeAssumption

\* In the initial state nothing is sent and nothing is read.
LEMMA RingInit == Init => Ring
<1>1. SUFFICES ASSUME Init PROVE Ring
  OBVIOUS
<1>2. Waiting = 0
  BY <1>1 DEF Init, Waiting, Holding
<1>3. TypeOK
  BY <1>1, SizeAssumption DEF Init, TypeOK, Torn
<1>4. CountMatchesIndices
  <2>1. num_elements_ = 0 /\ writer # "published" /\ reader = "poll"
    BY <1>1 DEF Init
  <2>2. QED BY <1>2, <2>1 DEF CountMatchesIndices, Overcount
<1>5. RoomKept /\ SlotsHold
  BY <1>1, <1>2, SizeAssumption DEF Init, RoomKept, SlotsHold, Ahead, Used
<1>6. HeldItem /\ CopiesLag /\ NoCopies /\ FifoDelivery /\ LateCopyIntact
  BY <1>1 DEF Init, HeldItem, Holding, Released, CopiesLag, NoCopies,
              FifoDelivery, LateCopyIntact
<1>7. QED BY <1>3, <1>4, <1>5, <1>6 DEF Ring

-----------------------------------------------------------------------------
(* The producer's steps.                                                   *)

\* getNextToWriteTo() is called when the ring has room.
LEMMA BeginWriteKeepsRing == ASSUME Paced = TRUE, Ring, BeginWrite PROVE Ring'
<1>0. TypeOK BY DEF Ring
<1>1. /\ Waiting' = Waiting
      /\ \A k \in 0 .. Size : Ahead(k)' = Ahead(k)
  BY DEF BeginWrite, Waiting, Holding, Ahead, indices
<1>2. Waiting \in 0 .. Size - 2
  BY SizeAssumption DEF BeginWrite, Ring, RoomKept
<1>3. /\ \A k \in 0 .. Waiting - 1 : store_'[Ahead(k)] = store_[Ahead(k)]
      /\ store_'[Ahead(Size - 1)] = store_[Ahead(Size - 1)]
  BY <1>0, <1>2, SizeAssumption DEF BeginWrite, Ring, RoomKept, Ahead, TypeOK
<1>4. TypeOK'
  BY <1>0 DEF BeginWrite, TypeOK, Torn, indices
<1>5. CountMatchesIndices'
  BY <1>1 DEF BeginWrite, Ring, CountMatchesIndices, Overcount, indices
<1>6. RoomKept'
  BY <1>0, <1>1, <1>2, SizeAssumption DEF BeginWrite, Ring, RoomKept, indices
<1>7. SlotsHold'
  BY <1>0, <1>1, <1>2, <1>3, SizeAssumption DEF BeginWrite, Ring, SlotsHold, Used, indices
<1>8. HeldItem'
  BY <1>0, <1>1, <1>3, SizeAssumption
     DEF BeginWrite, Ring, HeldItem, Holding, Released, indices
<1>9. CopiesLag' /\ NoCopies' /\ FifoDelivery' /\ LateCopyIntact'
  BY DEF BeginWrite, Ring, CopiesLag, NoCopies, FifoDelivery, LateCopyIntact, Released
<1>10. QED BY <1>4, <1>5, <1>6, <1>7, <1>8, <1>9 DEF Ring

\* The message is put into the slot, which no reader sees.
LEMMA EndWriteKeepsRing == ASSUME Paced = TRUE, Ring, EndWrite PROVE Ring'
<1>0. TypeOK BY DEF Ring
<1>1. /\ Waiting' = Waiting
      /\ \A k \in 0 .. Size : Ahead(k)' = Ahead(k)
  BY DEF EndWrite, Waiting, Holding, Ahead, indices
<1>2. Waiting \in 0 .. Size - 2
  BY SizeAssumption DEF EndWrite, Ring, RoomKept
<1>3. /\ \A k \in 0 .. Waiting - 1 : store_'[Ahead(k)] = store_[Ahead(k)]
      /\ store_'[Ahead(Size - 1)] = store_[Ahead(Size - 1)]
      /\ store_'[next_write_index_] = sent + 1
  BY <1>0, <1>2, SizeAssumption DEF EndWrite, Ring, RoomKept, Ahead, TypeOK
<1>4. TypeOK'
  BY <1>0 DEF EndWrite, TypeOK, indices
<1>5. CountMatchesIndices'
  BY <1>1 DEF EndWrite, Ring, CountMatchesIndices, Overcount, indices
<1>6. RoomKept'
  BY <1>0, <1>1, <1>2, SizeAssumption DEF EndWrite, Ring, RoomKept, indices
<1>7. SlotsHold'
  BY <1>0, <1>1, <1>2, <1>3, SizeAssumption DEF EndWrite, Ring, SlotsHold, Used, indices
<1>8. HeldItem'
  BY <1>0, <1>1, <1>3, SizeAssumption
     DEF EndWrite, Ring, HeldItem, Holding, Released, indices
<1>9. CopiesLag' /\ NoCopies' /\ FifoDelivery' /\ LateCopyIntact'
  BY DEF EndWrite, Ring, CopiesLag, NoCopies, FifoDelivery, LateCopyIntact, Released
<1>10. QED BY <1>4, <1>5, <1>6, <1>7, <1>8, <1>9 DEF Ring

\* updateWriteIndex(): the slot joins the ones to read.
LEMMA StoreWriteIndexKeepsRing ==
  ASSUME Paced = TRUE, Ring, StoreWriteIndex PROVE Ring'
<1>0. TypeOK BY DEF Ring
<1>1. Waiting \in 0 .. Size - 2
  BY SizeAssumption DEF StoreWriteIndex, Ring, RoomKept
<1>2. \A k \in 0 .. Size : Ahead(k)' = Ahead(k)
  BY DEF StoreWriteIndex, Ahead
<1>3. next_write_index_' = Ahead(Waiting + 1)
  BY <1>0, <1>1, SuccessorWraps, SizeAssumption
     DEF StoreWriteIndex, Ring, RoomKept, Ahead, TypeOK
<1>4. Waiting' = Waiting + 1
  BY <1>0, <1>1, <1>3, SizeAssumption
     DEF StoreWriteIndex, Ring, RoomKept, Ahead, TypeOK, Waiting, Holding
<1>5. TypeOK'
  BY <1>0, <1>1, <1>3, SizeAssumption DEF StoreWriteIndex, TypeOK, Ahead
<1>6. CountMatchesIndices'
  BY <1>0, <1>1, <1>4 DEF StoreWriteIndex, Ring, CountMatchesIndices, Overcount, TypeOK
<1>7. RoomKept'
  BY <1>1, <1>2, <1>3, <1>4, SizeAssumption DEF StoreWriteIndex, RoomKept
<1>8. SlotsHold'
  <2>1. sent' = Len(got') + Waiting' - Used'
    BY <1>0, <1>1, <1>4 DEF StoreWriteIndex, Ring, SlotsHold, Used, TypeOK
  <2>2. \A k \in 0 .. Waiting' - 1 : store_'[Ahead(k)'] = sent' - Waiting' + k + 1
    <3>0. /\ store_' = store_ /\ sent' = sent + 1 /\ sent \in Nat /\ Waiting \in Nat
          /\ Waiting' = Waiting + 1 /\ Waiting <= Size - 2 /\ Size \in Nat
      BY <1>0, <1>1, <1>4, SizeAssumption DEF StoreWriteIndex, TypeOK
    <3>1. SUFFICES ASSUME NEW k \in 0 .. Waiting
          PROVE store_[Ahead(k)] = sent - Waiting + k + 1
      <4>1. Waiting' - 1 = Waiting /\ sent' - Waiting' = sent - Waiting
        BY <3>0
      <4>2. \A k \in 0 .. Waiting : Ahead(k)' = Ahead(k)
        BY <1>2, <3>0
      <4>3. QED BY <3>0, <4>1, <4>2
    <3>2. CASE k < Waiting
      BY <1>0, <1>1, <3>2 DEF Ring, SlotsHold
    <3>3. CASE k = Waiting
      BY <1>0, <1>1, <3>3 DEF StoreWriteIndex, Ring, SlotsHold, RoomKept, TypeOK
    <3>4. QED BY <3>0, <3>2, <3>3
  <2>3. QED BY <2>1, <2>2 DEF SlotsHold, StoreWriteIndex
<1>9. HeldItem'
  BY <1>0, <1>1, <1>2, <1>4, SizeAssumption
     DEF StoreWriteIndex, Ring, HeldItem, Holding, Released
<1>10. CopiesLag' /\ NoCopies' /\ FifoDelivery' /\ LateCopyIntact'
  BY <1>0 DEF StoreWriteIndex, Ring, CopiesLag, NoCopies, FifoDelivery,
              LateCopyIntact, Released, TypeOK
<1>11. QED BY <1>5, <1>6, <1>7, <1>8, <1>9, <1>10 DEF Ring

\* updateWriteIndex(): the count follows.
LEMMA CountWriteKeepsRing == ASSUME Paced = TRUE, Ring, CountWrite PROVE Ring'
<1>0. TypeOK BY DEF Ring
<1>1. /\ Waiting' = Waiting
      /\ \A k \in 0 .. Size : Ahead(k)' = Ahead(k)
  BY DEF CountWrite, Waiting, Holding, Ahead, indices
<1>2. TypeOK'
  BY <1>0 DEF CountWrite, TypeOK, indices
<1>3. CountMatchesIndices'
  BY <1>0, <1>1, SizeAssumption
     DEF CountWrite, Ring, CountMatchesIndices, Overcount, TypeOK, RoomKept
<1>4. RoomKept'
  BY <1>0, <1>1, SizeAssumption DEF CountWrite, Ring, RoomKept, indices
<1>5. SlotsHold'
  BY <1>0, <1>1, SizeAssumption DEF CountWrite, Ring, RoomKept, SlotsHold, Used, indices
<1>6. HeldItem'
  BY <1>0, <1>1, SizeAssumption
     DEF CountWrite, Ring, HeldItem, Holding, Released, indices, TypeOK
<1>7. CopiesLag' /\ NoCopies' /\ FifoDelivery' /\ LateCopyIntact'
  BY DEF CountWrite, Ring, CopiesLag, NoCopies, FifoDelivery, LateCopyIntact, Released
<1>8. QED BY <1>2, <1>3, <1>4, <1>5, <1>6, <1>7 DEF Ring

-----------------------------------------------------------------------------
(* The consumer's steps.                                                   *)

\* size() is read, and nothing else.
LEMMA PollKeepsRing == ASSUME Paced = TRUE, Ring, Poll PROVE Ring'
<1>0. TypeOK BY DEF Ring
<1>1. /\ Waiting' = Waiting
      /\ \A k \in 0 .. Size : Ahead(k)' = Ahead(k)
  BY DEF Poll, Waiting, Holding, Ahead, indices
<1>2. Waiting > 0
  BY <1>0, SizeAssumption DEF Poll, Waiting, Holding, TypeOK
<1>3. TypeOK'
  BY <1>0 DEF Poll, TypeOK, indices
<1>4. CountMatchesIndices'
  BY <1>1 DEF Poll, Ring, CountMatchesIndices, Overcount, indices
<1>5. RoomKept'
  BY <1>1, SizeAssumption DEF Poll, Ring, RoomKept, indices
<1>6. SlotsHold'
  BY <1>0, <1>1, SizeAssumption DEF Poll, Ring, RoomKept, SlotsHold, Used, indices
<1>7. HeldItem'
  BY <1>0, <1>1, <1>2 DEF Poll, Ring, HeldItem, Holding, Released, indices
<1>8. CopiesLag' /\ NoCopies' /\ FifoDelivery' /\ LateCopyIntact'
  BY DEF Poll, Ring, CopiesLag, NoCopies, FifoDelivery, LateCopyIntact, Released
<1>9. QED BY <1>3, <1>4, <1>5, <1>6, <1>7, <1>8 DEF Ring

\* getNextToRead() finds the next slot, or none.
LEMMA TestSizeKeepsRing == ASSUME Paced = TRUE, Ring, TestSize PROVE Ring'
<1>0. TypeOK BY DEF Ring
<1>1. /\ Waiting' = Waiting
      /\ \A k \in 0 .. Size : Ahead(k)' = Ahead(k)
  BY <1>0, SizeAssumption
     DEF TestSize, Ring, RoomKept, Waiting, Holding, Ahead, indices, TypeOK
<1>2. TypeOK'
  BY <1>0 DEF TestSize, TypeOK, indices
<1>3. CountMatchesIndices'
  BY <1>1 DEF TestSize, Ring, CountMatchesIndices, Overcount, indices
<1>4. RoomKept'
  BY <1>1, SizeAssumption DEF TestSize, Ring, RoomKept, indices
<1>5. SlotsHold'
  BY <1>0, <1>1, SizeAssumption DEF TestSize, Ring, RoomKept, SlotsHold, Used, indices
<1>6. HeldItem'
  BY <1>0, <1>1 DEF TestSize, Ring, HeldItem, Holding, Released, indices
<1>7. CopiesLag' /\ NoCopies' /\ FifoDelivery' /\ LateCopyIntact'
  BY DEF TestSize, Ring, CopiesLag, NoCopies, FifoDelivery, LateCopyIntact, Released
<1>8. QED BY <1>2, <1>3, <1>4, <1>5, <1>6, <1>7 DEF Ring

\* The slot held is the first of the waiting ones, so it carries the number
\* that follows what was read so far.
LEMMA UseKeepsRing == ASSUME Paced = TRUE, Ring, Use PROVE Ring'
<1>0. TypeOK BY DEF Ring
<1>1. /\ Waiting' = Waiting
      /\ \A k \in 0 .. Size : Ahead(k)' = Ahead(k)
  BY DEF Use, Waiting, Holding, Ahead, indices
<1>2. Waiting > 0 /\ item = Ahead(0) /\ Waiting \in Nat
  BY <1>0, SizeAssumption DEF Use, Ring, HeldItem, Holding, Ahead, TypeOK, RoomKept
<1>3. store_[item] = Len(got) + 1
  BY <1>0, <1>2 DEF Use, Ring, SlotsHold, Used, TypeOK
<1>4. got' \in Seq(Nat) /\ Len(got') = Len(got) + 1 /\ got' = Append(got, Len(got) + 1)
  BY <1>0, <1>3 DEF Use, TypeOK
<1>5. TypeOK'
  BY <1>0, <1>4 DEF Use, TypeOK, indices
<1>6. CountMatchesIndices'
  BY <1>1 DEF Use, Ring, CountMatchesIndices, Overcount, indices
<1>7. RoomKept'
  BY <1>1, SizeAssumption DEF Use, Ring, RoomKept, indices
<1>8. SlotsHold'
  BY SMTT(30), <1>0, <1>1, <1>4, SizeAssumption
     DEF Use, Ring, RoomKept, SlotsHold, Used, indices, TypeOK
<1>9. HeldItem'
  BY <1>0, <1>1, <1>4 DEF Use, Ring, HeldItem, Holding, Released, indices, TypeOK
<1>10. CopiesLag' /\ NoCopies'
  BY <1>0, <1>4 DEF Use, Ring, CopiesLag, NoCopies, Released, TypeOK
<1>11. FifoDelivery'
  <2>1. Len(got') <= sent'
    BY <1>0, <1>2, <1>4 DEF Use, Ring, SlotsHold, Used, TypeOK
  <2>2. ASSUME NEW i \in 1 .. Len(got') PROVE got'[i] = i
    BY <1>0, <1>4, <2>2 DEF Ring, FifoDelivery, TypeOK
  <2>3. QED BY <2>1, <2>2 DEF FifoDelivery
<1>12. LateCopyIntact'
  BY <1>0, <1>4 DEF Use, Ring, LateCopyIntact, TypeOK
<1>13. QED BY <1>5, <1>6, <1>7, <1>8, <1>9, <1>10, <1>11, <1>12 DEF Ring

\* updateReadIndex(): the slot is given back.
LEMMA StoreReadIndexKeepsRing ==
  ASSUME Paced = TRUE, Ring, StoreReadIndex PROVE Ring'
<1>0. TypeOK BY DEF Ring
<1>1. Waiting \in 1 .. Size - 1 /\ item = next_read_index_
  BY <1>0, SizeAssumption DEF StoreReadIndex, Ring, RoomKept, HeldItem, Holding
<1>2. next_read_index_' = IF next_read_index_ + 1 = Size THEN 0 ELSE next_read_index_ + 1
  BY <1>0, SuccessorWraps DEF StoreReadIndex, TypeOK
<1>3. /\ \A k \in 0 .. Size - 2 : Ahead(k)' = Ahead(k + 1)
      /\ Ahead(Size - 1)' = item
  BY <1>0, <1>1, <1>2, SizeAssumption DEF Ahead, TypeOK
<1>4. Waiting' = Waiting - 1
  BY <1>0, <1>1, <1>2, SizeAssumption
     DEF StoreReadIndex, Ring, RoomKept, Ahead, TypeOK, Waiting, Holding
<1>5. store_[item] = got[Len(got)] /\ Len(got) > 0
  <2>1. store_[item] = sent - Waiting + 1
    BY <1>0, <1>1, SizeAssumption DEF Ring, SlotsHold, Ahead, TypeOK
  <2>2. Len(got) > 0 /\ sent - Waiting + 1 = Len(got)
    BY <1>0, <1>1 DEF StoreReadIndex, Ring, SlotsHold, HeldItem, Used, TypeOK
  <2>3. got[Len(got)] = Len(got)
    BY <1>0, <2>2 DEF Ring, FifoDelivery, TypeOK
  <2>4. QED BY <2>1, <2>2, <2>3
<1>6. TypeOK'
  BY <1>0, <1>2, SizeAssumption DEF StoreReadIndex, TypeOK
<1>7. CountMatchesIndices'
  BY <1>0, <1>1, <1>4 DEF StoreReadIndex, Ring, CountMatchesIndices, Overcount, TypeOK
<1>8. RoomKept'
  BY <1>0, <1>1, <1>3, <1>4, SizeAssumption DEF StoreReadIndex, Ring, RoomKept
<1>9. SlotsHold'
  <2>1. sent' = Len(got') + Waiting' - Used'
    BY <1>0, <1>1, <1>4 DEF StoreReadIndex, Ring, SlotsHold, Used, TypeOK
  <2>2. ASSUME NEW k \in 0 .. Waiting' - 1
        PROVE store_'[Ahead(k)'] = sent' - Waiting' + k + 1
    <3>1. k + 1 \in 0 .. Waiting - 1 /\ k \in 0 .. Size - 2
      BY <1>1, <1>4, SizeAssumption
    <3>2. store_[Ahead(k + 1)] = sent - Waiting + (k + 1) + 1
      BY <3>1 DEF Ring, SlotsHold
    <3>3. QED BY <1>0, <1>1, <1>3, <1>4, <3>1, <3>2 DEF StoreReadIndex, TypeOK
  <2>3. QED BY <2>1, <2>2 DEF SlotsHold, Ring, StoreReadIndex
<1>10. HeldItem'
  BY <1>3, <1>5 DEF StoreReadIndex, HeldItem, Holding, Released
<1>11. CopiesLag' /\ NoCopies' /\ FifoDelivery' /\ LateCopyIntact'
  BY DEF StoreReadIndex, Ring, CopiesLag, NoCopies, FifoDelivery, LateCopyIntact, Released
<1>12. QED BY <1>6, <1>7, <1>8, <1>9, <1>10, <1>11 DEF Ring

\* updateReadIndex(): the assertion reads the count only.
LEMMA AssertCountedKeepsRing ==
  ASSUME Paced = TRUE, Ring, AssertCounted PROVE Ring'
<1>0. TypeOK BY DEF Ring
<1>1. /\ Waiting' = Waiting
      /\ \A k \in 0 .. Size : Ahead(k)' = Ahead(k)
  BY DEF AssertCounted, Waiting, Holding, Ahead, indices
<1>2. TypeOK'
  BY <1>0 DEF AssertCounted, TypeOK, indices
<1>3. CountMatchesIndices'
  BY <1>1 DEF AssertCounted, Ring, CountMatchesIndices, Overcount, indices
<1>4. RoomKept'
  BY <1>1, SizeAssumption DEF AssertCounted, Ring, RoomKept, indices
<1>5. SlotsHold'
  BY <1>0, <1>1, SizeAssumption
     DEF AssertCounted, Ring, RoomKept, SlotsHold, Used, indices
<1>6. HeldItem'
  BY <1>0, <1>1, SizeAssumption
     DEF AssertCounted, Ring, HeldItem, Holding, Released, indices, TypeOK
<1>7. CopiesLag' /\ NoCopies' /\ FifoDelivery' /\ LateCopyIntact'
  BY DEF AssertCounted, Ring, CopiesLag, NoCopies, FifoDelivery, LateCopyIntact, Released
<1>8. QED BY <1>2, <1>3, <1>4, <1>5, <1>6, <1>7 DEF Ring

\* updateReadIndex(): the count follows.
LEMMA CountReadKeepsRing == ASSUME Paced = TRUE, Ring, CountRead PROVE Ring'
<1>0. TypeOK BY DEF Ring
<1>1. /\ Waiting' = Waiting
      /\ \A k \in 0 .. Size : Ahead(k)' = Ahead(k)
  BY DEF CountRead, Waiting, Holding, Ahead, indices
<1>2. num_elements_ > 0 /\ Waiting \in Nat
  BY <1>0, SizeAssumption DEF CountRead, Ring, HeldItem, RoomKept
<1>3. TypeOK'
  BY <1>0, <1>2 DEF CountRead, TypeOK, indices
<1>4. CountMatchesIndices'
  BY <1>0, <1>1, <1>2 DEF CountRead, Ring, CountMatchesIndices, Overcount, TypeOK
<1>5. RoomKept'
  BY <1>1, SizeAssumption DEF CountRead, Ring, RoomKept, indices
<1>6. SlotsHold'
  BY <1>0, <1>1, SizeAssumption DEF CountRead, Ring, RoomKept, SlotsHold, Used, indices
<1>7. HeldItem'
  BY <1>0, <1>1, SizeAssumption DEF CountRead, Ring, HeldItem, Holding, Released, indices
<1>8. CopiesLag' /\ NoCopies' /\ FifoDelivery' /\ LateCopyIntact'
  BY DEF CountRead, Ring, CopiesLag, NoCopies, FifoDelivery, LateCopyIntact, Released
<1>9. QED BY <1>3, <1>4, <1>5, <1>6, <1>7, <1>8 DEF Ring

\* The producer may own the whole ring but one slot: the released slot is the
\* one it cannot reach before the consumer asks for another.
LEMMA CopyReleasedKeepsRing ==
  ASSUME Paced = TRUE, Ring, CopyReleased PROVE Ring'
<1>0. TypeOK BY DEF Ring
<1>1. /\ Waiting' = Waiting
      /\ \A k \in 0 .. Size : Ahead(k)' = Ahead(k)
  BY DEF CopyReleased, Waiting, Holding, Ahead, indices
<1>2. LateCopy
  BY DEF CopyReleased, Ring, NoCopies
<1>3. Len(copied) = Len(got) - 1 /\ store_[item] = got[Len(got)] /\ Len(got) > 0
  BY <1>2 DEF CopyReleased, Ring, CopiesLag, HeldItem, Released
<1>4. /\ copied' = Append(copied, got[Len(got)])
      /\ copied' \in Seq(Nat)
      /\ Len(copied') = Len(got)
  BY <1>0, <1>3 DEF CopyReleased, TypeOK
<1>5. TypeOK'
  BY <1>0, <1>4 DEF CopyReleased, TypeOK, indices
<1>6. CountMatchesIndices'
  BY <1>1 DEF CopyReleased, Ring, CountMatchesIndices, Overcount, indices
<1>7. RoomKept'
  BY <1>1, SizeAssumption DEF CopyReleased, Ring, RoomKept, indices
<1>8. SlotsHold'
  BY <1>0, <1>1, SizeAssumption DEF CopyReleased, Ring, RoomKept, SlotsHold, Used, indices
<1>9. HeldItem'
  BY <1>1 DEF CopyReleased, Ring, HeldItem, Holding, Released, indices
<1>10. CopiesLag' /\ NoCopies' /\ FifoDelivery'
  BY <1>2, <1>4 DEF CopyReleased, Ring, CopiesLag, NoCopies, FifoDelivery, Released
<1>11. LateCopyIntact'
  <2>1. ASSUME NEW i \in 1 .. Len(copied') PROVE copied'[i] = got'[i]
    BY <1>0, <1>3, <1>4 DEF CopyReleased, Ring, LateCopyIntact, TypeOK
  <2>2. QED BY <1>4, <2>1, <1>0 DEF LateCopyIntact, CopyReleased, TypeOK
<1>12. QED BY <1>5, <1>6, <1>7, <1>8, <1>9, <1>10, <1>11 DEF Ring

\* A step that changes nothing.
LEMMA StutterKeepsRing == ASSUME Ring, UNCHANGED vars PROVE Ring'
BY DEF vars, indices, Ring, TypeOK, CountMatchesIndices, Overcount, Waiting, Holding,
       RoomKept, SlotsHold, Ahead, Used, HeldItem, Released, CopiesLag, NoCopies,
       FifoDelivery, LateCopyIntact

\* Every step of either thread keeps the ring.
LEMMA NextKeepsRing == ASSUME Paced = TRUE, Ring, [Next]_vars PROVE Ring'
<1>1. CASE Produce
  BY <1>1, BeginWriteKeepsRing, EndWriteKeepsRing, StoreWriteIndexKeepsRing,
     CountWriteKeepsRing DEF Produce
<1>2. CASE Consume
  BY <1>2, PollKeepsRing, TestSizeKeepsRing, UseKeepsRing, StoreReadIndexKeepsRing,
     AssertCountedKeepsRing, CountReadKeepsRing, CopyReleasedKeepsRing DEF Consume
<1>3. CASE UNCHANGED vars
  BY <1>3, StutterKeepsRing
<1>4. QED BY <1>1, <1>2, <1>3 DEF Next

\* While the traffic is paced, every state of the queue is a well-formed ring.
THEOREM RingInvariant == ASSUME Paced = TRUE PROVE Spec => []Ring
<1>1. Ring /\ [Next]_vars => Ring'
  BY NextKeepsRing
<1>2. QED BY RingInit, <1>1, PTL DEF Spec

-----------------------------------------------------------------------------
(* What follows from it.                                                   *)

\* The consumer reads every message whole, once, in order (lockfree_queue.h).
THEOREM FifoDeliveryHolds == ASSUME Paced = TRUE PROVE Spec => []FifoDelivery
<1>1. Ring => FifoDelivery
  BY DEF Ring
<1>2. QED BY RingInvariant, <1>1, PTL

\* MarketDataPublisher::run reads the released slot before it is overwritten.
THEOREM LateCopyIntactHolds == ASSUME Paced = TRUE PROVE Spec => []LateCopyIntact
<1>1. Ring => LateCopyIntact
  BY DEF Ring
<1>2. QED BY RingInvariant, <1>1, PTL

\* size() is off by the calls in progress and by nothing else.
THEOREM CountMatchesIndicesHolds ==
  ASSUME Paced = TRUE PROVE Spec => []CountMatchesIndices
<1>1. Ring => CountMatchesIndices
  BY DEF Ring
<1>2. QED BY RingInvariant, <1>1, PTL

-----------------------------------------------------------------------------
(* The ASSERT of updateReadIndex() needs no pacing, only a consumer that   *)
(* looks at size(): from that moment on only it lowers the count.          *)

Counted ==
    /\ TypeOK
    /\ reader = "count" => num_elements_ > 0
    /\ ChecksSize =>
        /\ reader \in {"use", "advance", "assert"} => num_elements_ > 0
        /\ AssertHolds

\* An empty queue has nothing to count.
LEMMA CountedInit == Init => Counted
BY SizeAssumption DEF Init, Counted, TypeOK, Torn, AssertHolds

\* The count after a step of the producer.
LEMMA ProduceKeepsCounted == ASSUME Counted, Produce PROVE Counted'
<1>0. TypeOK BY DEF Counted
<1>1. TypeOK' /\ num_elements_' >= num_elements_ /\ reader' = reader
  <2>1. CASE BeginWrite
    BY <1>0, <2>1 DEF BeginWrite, TypeOK, indices, Torn
  <2>2. CASE EndWrite
    BY <1>0, <2>2 DEF EndWrite, TypeOK, indices
  <2>3. CASE StoreWriteIndex
    BY <1>0, <2>3, SuccessorInSlots DEF StoreWriteIndex, TypeOK
  <2>4. CASE CountWrite
    BY <1>0, <2>4 DEF CountWrite, TypeOK, indices
  <2>5. QED BY <2>1, <2>2, <2>3, <2>4 DEF Produce
<1>2. QED BY <1>0, <1>1 DEF Counted, AssertHolds, TypeOK

\* The count after a step of the consumer.
LEMMA ConsumeKeepsCounted == ASSUME Counted, Consume PROVE Counted'
<1>0. TypeOK BY DEF Counted
<1>1. CASE Poll
  BY <1>0, <1>1 DEF Counted, Poll, TypeOK, indices, AssertHolds
<1>2. CASE TestSize
  BY <1>0, <1>2 DEF Counted, TestSize, TypeOK, indices, AssertHolds
<1>3. CASE Use
  BY <1>0, <1>3 DEF Counted, Use, TypeOK, indices, AssertHolds
<1>4. CASE StoreReadIndex
  BY <1>0, <1>4, SuccessorInSlots
     DEF Counted, StoreReadIndex, TypeOK, AssertHolds
<1>5. CASE AssertCounted
  BY <1>0, <1>5 DEF Counted, AssertCounted, TypeOK, indices, AssertHolds
<1>6. CASE CountRead
  BY <1>0, <1>6 DEF Counted, CountRead, TypeOK, indices, AssertHolds
<1>7. CASE CopyReleased
  BY SMTT(30), <1>0, <1>7 DEF Counted, CopyReleased, TypeOK, indices, AssertHolds
<1>8. QED BY <1>1, <1>2, <1>3, <1>4, <1>5, <1>6, <1>7 DEF Consume

\* Types are right whatever the pacing and the consumer loop.
THEOREM CountedInvariant == Spec => []Counted
<1>1. Counted /\ [Next]_vars => Counted'
  <2>1. SUFFICES ASSUME Counted, [Next]_vars PROVE Counted'
    OBVIOUS
  <2>2. CASE UNCHANGED vars
    BY <2>1, <2>2 DEF vars, indices, Counted, TypeOK, AssertHolds
  <2>3. QED BY <2>1, <2>2, ProduceKeepsCounted, ConsumeKeepsCounted DEF Next
<1>2. QED BY CountedInit, <1>1, PTL DEF Spec

\* The type invariant, for every ring and every kind of consumer loop.
THEOREM TypeCorrect == Spec => []TypeOK
<1>1. Counted => TypeOK
  BY DEF Counted
<1>2. QED BY CountedInvariant, <1>1, PTL

\* A consumer that tests size() never trips the ASSERT of lockfree_queue.h:42.
THEOREM AssertNeverFires == ASSUME ChecksSize = TRUE PROVE Spec => []AssertHolds
<1>1. Counted => AssertHolds
  BY DEF Counted
<1>2. QED BY CountedInvariant, <1>1, PTL

-----------------------------------------------------------------------------
(* The paced queue implements Fifo with room for Size - 1 messages.        *)

\* The messages numbered from f + 1 to t.
Numbers(f, t) == [i \in 1 .. t - f |-> f + i]

\* The messages between two numbers are a sequence.
LEMMA NumbersAreASequence ==
  ASSUME NEW f \in Nat, NEW t \in Nat, f <= t
  PROVE  Numbers(f, t) \in Seq(Nat) /\ Len(Numbers(f, t)) = t - f
BY DEF Numbers

\* Sending the next message appends it.
LEMMA AppendNumber ==
  ASSUME NEW f \in Nat, NEW t \in Nat, f <= t
  PROVE  Append(Numbers(f, t), t + 1) = Numbers(f, t + 1)
<1>1. /\ Append(Numbers(f, t), t + 1) \in Seq(Nat)
      /\ Len(Append(Numbers(f, t), t + 1)) = t - f + 1
  <2>1. Numbers(f, t) \in Seq(Nat) /\ Len(Numbers(f, t)) = t - f /\ t + 1 \in Nat
    BY NumbersAreASequence
  <2>2. QED BY <2>1
<1>2. Numbers(f, t + 1) \in Seq(Nat) /\ Len(Numbers(f, t + 1)) = t - f + 1
  BY NumbersAreASequence
<1>3. ASSUME NEW i \in 1 .. t - f + 1
      PROVE Append(Numbers(f, t), t + 1)[i] = Numbers(f, t + 1)[i]
  BY <1>3, NumbersAreASequence DEF Numbers
<1>4. QED BY <1>1, <1>2, <1>3

\* Reading the oldest message leaves the tail.
LEMMA TailOfNumbers ==
  ASSUME NEW f \in Nat, NEW t \in Nat, f < t
  PROVE  /\ Numbers(f, t) # << >>
         /\ Head(Numbers(f, t)) = f + 1
         /\ Tail(Numbers(f, t)) = Numbers(f + 1, t)
<1>1. Numbers(f, t) \in Seq(Nat) /\ Len(Numbers(f, t)) = t - f
  BY NumbersAreASequence
<1>2. Numbers(f + 1, t) \in Seq(Nat) /\ Len(Numbers(f + 1, t)) = t - f - 1
  BY NumbersAreASequence
<1>3. Numbers(f, t) # << >> /\ Head(Numbers(f, t)) = f + 1
  BY <1>1 DEF Numbers
<1>4. Tail(Numbers(f, t)) \in Seq(Nat) /\ Len(Tail(Numbers(f, t))) = t - f - 1
  BY <1>1, <1>3
<1>5. ASSUME NEW i \in 1 .. t - f - 1
      PROVE Tail(Numbers(f, t))[i] = Numbers(f + 1, t)[i]
  BY <1>1, <1>3, <1>5 DEF Numbers
<1>6. Tail(Numbers(f, t)) = Numbers(f + 1, t)
  BY <1>2, <1>4, <1>5, SeqEqual
<1>7. QED BY <1>3, <1>6

\* A whole message becomes visible to the consumer when the write index moves.
LEMMA StoreWriteIndexEnqueues ==
  ASSUME Ring, StoreWriteIndex PROVE Promise!Enqueue
<1>1. /\ sent \in Nat /\ got \in Seq(Nat) /\ Len(got) \in Nat /\ Len(got) <= sent
      /\ sent - Len(got) < Size - 1
  BY SizeAssumption
     DEF Ring, TypeOK, FifoDelivery, StoreWriteIndex, RoomKept, SlotsHold, Used
<1>2. Len(Numbers(Len(got), sent)) = sent - Len(got)
  BY <1>1, NumbersAreASequence
<1>3. Append(Numbers(Len(got), sent), sent + 1) = Numbers(Len(got), sent + 1)
  BY <1>1, AppendNumber
<1>4. Len(got) + Len(Numbers(Len(got), sent)) + 1 = sent + 1
  BY <1>1, <1>2
<1>5. QED BY <1>1, <1>2, <1>3, <1>4 DEF Promise!Enqueue, StoreWriteIndex, Numbers

\* The use of a message is the Dequeue of the abstract queue.
LEMMA UseDequeues == ASSUME Ring, Ring', Use PROVE Promise!Dequeue
<1>1. /\ sent \in Nat /\ got \in Seq(Nat) /\ Len(got) \in Nat /\ got' \in Seq(Nat)
      /\ got' = Append(got, store_[item]) /\ Len(got') = Len(got) + 1
      /\ Len(got') <= sent /\ sent' = sent
  BY DEF Ring, TypeOK, FifoDelivery, Use
<1>2. got' = Append(got, Len(got) + 1)
  BY <1>1 DEF Ring, FifoDelivery
<1>3. Len(got) < sent
  BY <1>1
<1>4. /\ Numbers(Len(got), sent) # << >>
      /\ Head(Numbers(Len(got), sent)) = Len(got) + 1
      /\ Tail(Numbers(Len(got), sent)) = Numbers(Len(got) + 1, sent)
  BY <1>1, <1>3, TailOfNumbers
<1>5. Numbers(Len(got), sent)' = Numbers(Len(got) + 1, sent)
  BY <1>1 DEF Numbers
<1>6. QED BY <1>2, <1>4, <1>5 DEF Promise!Dequeue, Numbers

\* LFQueue, with a paced producer, implements the abstract FIFO.
THEOREM FifoImplemented == ASSUME Paced = TRUE PROVE Spec => ImplementsFifo
<1>1. Init => Promise!Init
  BY DEF Init, Promise!Init
<1>2. Ring /\ Ring' /\ [Next]_vars => [Promise!Next]_Promise!vars
  <2>1. SUFFICES ASSUME Ring, Ring', [Next]_vars PROVE [Promise!Next]_Promise!vars
    OBVIOUS
  <2>2. CASE StoreWriteIndex
    BY <2>1, <2>2, StoreWriteIndexEnqueues DEF Promise!Next
  <2>3. CASE Use
    BY <2>1, <2>3, UseDequeues DEF Promise!Next
  <2>4. ASSUME ~StoreWriteIndex, ~Use PROVE sent' = sent /\ got' = got
    BY <2>1, <2>4 DEF Next, Produce, Consume, BeginWrite, EndWrite, CountWrite, Poll,
       TestSize, StoreReadIndex, AssertCounted, CountRead, CopyReleased, vars
  <2>5. QED BY <2>2, <2>3, <2>4 DEF Promise!vars
<1>3. QED
  BY <1>1, <1>2, RingInvariant, PTL DEF Spec, ImplementsFifo, Promise!Spec

-----------------------------------------------------------------------------
(* The logger.                                                             *)

\* The producer is filling the slot at next_write_index_.
Pen == writer \in {"writing", "written"}

\* The slot k places on holds its element, or is the one of a full ring that
\* both threads are at.
SlotHolds(k) ==
    \/ store_[Ahead(k)] = sent - Waiting + k + 1
    \/ /\ k = 0 /\ Waiting = Size /\ Pen
       /\ store_[Ahead(k)] \in {Torn, sent + 1}

WholeRing ==
    /\ sent = Len(got) + Waiting - Used
    /\ \A k \in 0 .. Waiting - 1 : SlotHolds(k)
    /\ writer = "written" => store_[next_write_index_] = sent + 1
    /\ \A i \in 1 .. Len(got) : got[i] \in {i, Torn, i + Size}

LapInv ==
    /\ Counted
    /\ Holding => item = next_read_index_
    /\ Overcount >= 0
    /\ Overcount = 0 => WholeRing

OwnerInv ==
    /\ owner \in {"logging", "waiting", "joining", "closed"}
    /\ owner # "logging" => writer = "idle"
    /\ owner \in {"joining", "closed"} => num_elements_ = 0

LogInv == LapInv /\ OwnerInv

-----------------------------------------------------------------------------
(* Its queue.                                                              *)

\* What the number of waiting elements says of the indices.
LEMMA WaitingMeans ==
    ASSUME TypeOK
    PROVE  /\ Waiting \in 0 .. Size
           /\ Waiting = 0 <=> (next_read_index_ = next_write_index_ /\ ~Holding)
           /\ Waiting = Size <=> (next_read_index_ = next_write_index_ /\ Holding)
           /\ next_write_index_ = Ahead(Waiting)
BY SizeAssumption DEF TypeOK, Slots, Waiting, Ahead

\* Ahead counts the slots of the ring once.
LEMMA AheadOnce ==
    ASSUME TypeOK, NEW j \in 0 .. Size, NEW k \in 0 .. Size, j < k, Ahead(j) = Ahead(k)
    PROVE  j = 0 /\ k = Size
BY SizeAssumption DEF TypeOK, Slots, Ahead

\* Ahead names slots.
LEMMA AheadInSlots == ASSUME TypeOK, NEW k \in 0 .. Size PROVE Ahead(k) \in Slots
BY SizeAssumption DEF TypeOK, Slots, Ahead

\* No element waits in a new logger.
LEMMA LapInit == Init => LapInv
<1>1. SUFFICES ASSUME Init PROVE LapInv
  OBVIOUS
<1>2. Waiting = 0
  BY <1>1 DEF Init, Waiting, Holding
<1>3. Overcount = 0 /\ ~Holding
  <2>1. num_elements_ = 0 /\ writer = "idle" /\ reader = "poll"
    BY <1>1 DEF Init
  <2>2. Overcount = (0 + 0) - (0 + 0)
    BY <1>2, <2>1 DEF Overcount
  <2>3. QED BY <2>1, <2>2 DEF Holding
<1>4. WholeRing
  BY <1>1, <1>2 DEF Init, WholeRing, Used
<1>5. QED BY <1>1, <1>3, <1>4, CountedInit DEF LapInv

\* A step of the producer.
LEMMA ProduceKeepsLap == ASSUME LapInv, Produce PROVE LapInv' /\ Overcount' >= Overcount
<1>0. TypeOK /\ Counted /\ Counted' /\ TypeOK'
  BY ProduceKeepsCounted DEF LapInv, Counted
<1>w. /\ Waiting \in 0 .. Size /\ next_write_index_ = Ahead(Waiting)
      /\ Waiting = Size <=> (next_read_index_ = next_write_index_ /\ Holding)
      /\ next_write_index_ \in Slots /\ sent \in Nat /\ num_elements_ \in Nat
      /\ store_ \in [Slots -> Nat] /\ Len(got) \in Nat /\ Size \in Nat /\ Size > 0
  <2>1. /\ sent \in Nat /\ num_elements_ \in Nat /\ store_ \in [Slots -> Nat]
        /\ next_write_index_ \in Slots /\ got \in Seq(Nat)
    BY <1>0 DEF TypeOK
  <2>2. Len(got) \in Nat
    BY <2>1
  <2>3. QED BY <1>0, <2>1, <2>2, WaitingMeans, SizeAssumption
<1>a. \A k \in 0 .. Waiting - 1 :
         /\ Ahead(k) \in Slots
         /\ Ahead(k) = next_write_index_ => k = 0 /\ Waiting = Size
  <2>1. SUFFICES ASSUME NEW k \in 0 .. Waiting - 1
        PROVE  /\ Ahead(k) \in Slots
               /\ Ahead(k) = next_write_index_ => k = 0 /\ Waiting = Size
    OBVIOUS
  <2>2. k \in 0 .. Size /\ k < Waiting
    BY <1>w
  <2>3. QED BY <1>0, <1>w, <2>2, AheadOnce, AheadInSlots
<1>1. CASE BeginWrite
  <2>1. /\ Waiting' = Waiting /\ (\A k \in 0 .. Size : Ahead(k)' = Ahead(k))
        /\ Holding' = Holding /\ Used' = Used /\ item' = item /\ got' = got
        /\ sent' = sent /\ next_read_index_' = next_read_index_
        /\ writer = "idle" /\ writer' = "writing"
        /\ num_elements_' = num_elements_ /\ reader' = reader
        /\ store_' = [store_ EXCEPT ![next_write_index_] = Torn]
    BY <1>1 DEF BeginWrite, indices, Waiting, Holding, Ahead, Used
  <2>2. Overcount' = Overcount
    BY <2>1 DEF Overcount
  <2>3. ASSUME WholeRing PROVE WholeRing'
    <3>1. ASSUME NEW k \in 0 .. Waiting - 1 PROVE SlotHolds(k)'
      <4>1. k \in 0 .. Size BY <1>w
      <4>2. CASE Ahead(k) = next_write_index_
        BY <1>a, <1>w, <2>1, <4>1, <4>2 DEF SlotHolds, Pen
      <4>3. CASE Ahead(k) # next_write_index_
        <5>1. SlotHolds(k) BY <2>3 DEF WholeRing
        <5>2. store_'[Ahead(k)] = store_[Ahead(k)]
          BY <1>a, <1>w, <2>1, <4>3
        <5>3. QED BY <2>1, <4>1, <5>1, <5>2 DEF SlotHolds, Pen
      <4>4. QED BY <4>2, <4>3
    <3>2. QED BY <2>1, <2>3, <3>1 DEF WholeRing
  <2>4. QED BY <1>0, <1>w, <2>1, <2>2, <2>3 DEF LapInv, Overcount
<1>2. CASE EndWrite
  <2>1. /\ Waiting' = Waiting /\ (\A k \in 0 .. Size : Ahead(k)' = Ahead(k))
        /\ Holding' = Holding /\ Used' = Used /\ item' = item /\ got' = got
        /\ sent' = sent /\ next_read_index_' = next_read_index_
        /\ next_write_index_' = next_write_index_
        /\ writer = "writing" /\ writer' = "written"
        /\ num_elements_' = num_elements_ /\ reader' = reader
        /\ store_' = [store_ EXCEPT ![next_write_index_] = sent + 1]
    BY <1>2 DEF EndWrite, indices, Waiting, Holding, Ahead, Used
  <2>2. Overcount' = Overcount
    BY <2>1 DEF Overcount
  <2>3. ASSUME WholeRing PROVE WholeRing'
    <3>1. ASSUME NEW k \in 0 .. Waiting - 1 PROVE SlotHolds(k)'
      <4>1. k \in 0 .. Size BY <1>w
      <4>2. CASE Ahead(k) = next_write_index_
        BY <1>a, <1>w, <2>1, <4>1, <4>2 DEF SlotHolds, Pen
      <4>3. CASE Ahead(k) # next_write_index_
        <5>1. SlotHolds(k) BY <2>3 DEF WholeRing
        <5>2. store_'[Ahead(k)] = store_[Ahead(k)]
          BY <1>a, <1>w, <2>1, <4>3
        <5>3. QED BY <2>1, <4>1, <5>1, <5>2 DEF SlotHolds, Pen
      <4>4. QED BY <4>2, <4>3
    <3>2. store_'[next_write_index_'] = sent' + 1
      BY <1>w, <2>1
    <3>3. QED BY <2>1, <2>3, <3>1, <3>2 DEF WholeRing
  <2>4. QED BY <1>0, <1>w, <2>1, <2>2, <2>3 DEF LapInv, Overcount
<1>3. CASE StoreWriteIndex
  <2>1. /\ (\A k \in 0 .. Size : Ahead(k)' = Ahead(k))
        /\ Holding' = Holding /\ Used' = Used /\ item' = item /\ got' = got
        /\ sent' = sent + 1 /\ next_read_index_' = next_read_index_
        /\ writer = "written" /\ writer' = "published"
        /\ num_elements_' = num_elements_ /\ reader' = reader
        /\ store_' = store_
    BY <1>3 DEF StoreWriteIndex, Holding, Ahead, Used
  <2>2. next_write_index_' = IF next_write_index_ + 1 = Size THEN 0 ELSE next_write_index_ + 1
    BY <1>3, <1>w, SuccessorWraps DEF StoreWriteIndex
  <2>3. \/ Waiting' = Waiting + 1 /\ Waiting < Size
        \/ Waiting' = Waiting + 1 - Size
    BY <1>0, <1>w, <2>1, <2>2 DEF TypeOK, Waiting
  <2>4. \/ Overcount' = Overcount /\ Waiting' = Waiting + 1 /\ Waiting < Size
        \/ Overcount' = Overcount + Size
    <3> DEFINE r == IF reader \in {"assert", "count", "aborted"} THEN 1 ELSE 0
    <3>1. /\ Overcount' = (num_elements_ + 1) - (Waiting' + r)
          /\ Overcount = num_elements_ - (Waiting + r)
      BY <1>w, <2>1 DEF Overcount
    <3>2. num_elements_ \in Int /\ Waiting \in Int /\ Size \in Int /\ r \in Int
      BY <1>w, SizeAssumption
    <3> HIDE DEF r
    <3>3. QED BY <2>3, <3>1, <3>2
  <2>5. Overcount \in Int /\ Overcount >= 0
    BY <1>w DEF LapInv, Overcount
  <2>6. ASSUME WholeRing, Waiting' = Waiting + 1, Waiting < Size PROVE WholeRing'
    <3>1. ASSUME NEW k \in 0 .. Waiting PROVE SlotHolds(k)'
      <4>1. k \in 0 .. Size BY <1>w
      <4>2. CASE k = Waiting
        BY <1>w, <2>1, <2>6, <4>1, <4>2 DEF SlotHolds, WholeRing
      <4>3. CASE k # Waiting
        <5>1. k \in 0 .. Waiting - 1 /\ SlotHolds(k)
          BY <1>w, <2>6, <4>3 DEF WholeRing
        <5>2. store_[Ahead(k)] = sent - Waiting + k + 1
          BY <2>6, <5>1, <1>w DEF SlotHolds
        <5>3. QED BY <1>w, <2>1, <2>6, <4>1, <5>2 DEF SlotHolds
      <4>4. QED BY <4>2, <4>3
    <3>2. Waiting' - 1 = Waiting
      BY <1>w, <2>6
    <3>3. sent' = Len(got') + Waiting' - Used'
      BY <1>w, <2>1, <2>6 DEF WholeRing, Used
    <3>4. QED BY <2>1, <2>6, <3>1, <3>2, <3>3 DEF WholeRing
  <2>7. QED BY <1>0, <1>w, <2>1, <2>4, <2>5, <2>6 DEF LapInv
<1>4. CASE CountWrite
  <2>1. /\ Waiting' = Waiting /\ (\A k \in 0 .. Size : Ahead(k)' = Ahead(k))
        /\ Holding' = Holding /\ Used' = Used /\ item' = item /\ got' = got
        /\ sent' = sent /\ next_read_index_' = next_read_index_
        /\ writer = "published" /\ writer' = "idle"
        /\ num_elements_' = num_elements_ + 1 /\ reader' = reader
        /\ store_' = store_
    BY <1>4 DEF CountWrite, indices, Waiting, Holding, Ahead, Used
  <2>2. Overcount' = Overcount
    BY <1>w, <2>1 DEF Overcount
  <2>3. ASSUME WholeRing PROVE WholeRing'
    <3>1. ASSUME NEW k \in 0 .. Waiting - 1 PROVE SlotHolds(k)'
      <4>1. k \in 0 .. Size /\ SlotHolds(k)
        BY <1>w, <2>3 DEF WholeRing
      <4>2. QED BY <2>1, <4>1 DEF SlotHolds, Pen
    <3>2. QED BY <2>1, <2>3, <3>1 DEF WholeRing
  <2>4. QED BY <1>0, <1>w, <2>1, <2>2, <2>3 DEF LapInv, Overcount
<1>5. QED BY <1>1, <1>2, <1>3, <1>4 DEF Produce

\* A step of the consumer.
LEMMA ConsumeKeepsLap ==
    ASSUME LapInv, Consume, ChecksSize, ~LateCopy
    PROVE  LapInv' /\ Overcount' >= Overcount
<1>0. TypeOK /\ Counted /\ Counted' /\ TypeOK'
  BY ConsumeKeepsCounted DEF LapInv, Counted
<1>w. /\ Waiting \in 0 .. Size
      /\ Waiting = 0 <=> (next_read_index_ = next_write_index_ /\ ~Holding)
      /\ Waiting = Size <=> (next_read_index_ = next_write_index_ /\ Holding)
      /\ next_read_index_ \in 0 .. Size - 1 /\ next_write_index_ \in 0 .. Size - 1
      /\ sent \in Nat /\ num_elements_ \in Nat /\ store_ \in [0 .. Size - 1 -> Nat]
      /\ got \in Seq(Nat) /\ Len(got) \in Nat /\ Size \in Nat /\ Size > 0
  <2>1. /\ sent \in Nat /\ num_elements_ \in Nat /\ store_ \in [0 .. Size - 1 -> Nat]
        /\ next_read_index_ \in 0 .. Size - 1 /\ next_write_index_ \in 0 .. Size - 1
        /\ got \in Seq(Nat)
    BY <1>0 DEF TypeOK, Slots
  <2>2. Len(got) \in Nat
    BY <2>1
  <2>3. QED BY <1>0, <2>1, <2>2, WaitingMeans, SizeAssumption
<1>o. Overcount \in Int /\ Overcount >= 0
  BY <1>w DEF LapInv, Overcount
<1>k. ASSUME WholeRing, Waiting' = Waiting, Used' = Used,
             UNCHANGED <<store_, indices, writer, sent, got>>
      PROVE  WholeRing'
  <2>1. ASSUME NEW k \in 0 .. Waiting - 1 PROVE SlotHolds(k)'
    <3>1. SlotHolds(k) BY <1>k DEF WholeRing
    <3>2. Ahead(k)' = Ahead(k) BY <1>k DEF Ahead, indices
    <3>3. QED BY <1>k, <3>1, <3>2 DEF SlotHolds, Pen
  <2>2. QED BY <1>k, <2>1 DEF WholeRing, indices
<1>1. CASE Poll
  <2>1. /\ Waiting' = Waiting /\ Used' = Used
        /\ item' = next_read_index_ /\ next_read_index_' = next_read_index_
    BY <1>1 DEF Poll, indices, Waiting, Holding, Used
  <2>2. Overcount' = Overcount
    BY <1>1, <2>1 DEF Poll, Overcount
  <2>3. WholeRing => WholeRing'
    BY <1>1, <1>k, <2>1 DEF Poll
  <2>4. QED BY <1>0, <1>o, <2>1, <2>2, <2>3 DEF LapInv
<1>2. CASE TestSize
  <2>1. /\ Holding /\ Used' = Used
        /\ item' = item /\ next_read_index_' = next_read_index_
    BY <1>2 DEF TestSize, indices, Holding, Used
  <2>2. CASE Waiting' = Waiting
    <3>1. Overcount' = Overcount
      BY <1>2, <2>2 DEF TestSize, Overcount
    <3>2. WholeRing => WholeRing'
      BY <1>2, <1>k, <2>1, <2>2 DEF TestSize
    <3>3. QED BY <1>0, <1>o, <2>1, <3>1, <3>2 DEF LapInv
  <2>3. CASE Waiting' # Waiting
    <3>1. Waiting = Size /\ Waiting' = 0
      BY <1>2, <1>w, <2>3 DEF TestSize, indices, Waiting, Holding
    <3>2. Overcount' = Overcount + Size
      BY <1>2, <1>w, <3>1 DEF TestSize, Overcount
    <3>3. ~Holding' \/ item' = next_read_index_'
      BY <2>1 DEF LapInv
    <3>4. QED BY <1>0, <1>w, <1>o, <3>2, <3>3 DEF LapInv
  <2>4. QED BY <2>2, <2>3
<1>3. CASE Use
  <2>1. /\ Waiting' = Waiting /\ Used = 0 /\ Used' = 1 /\ Holding
        /\ item' = item /\ next_read_index_' = next_read_index_
    BY <1>3 DEF Use, indices, Waiting, Holding, Used
  <2>2. Overcount' = Overcount
    BY <1>3, <2>1 DEF Use, Overcount
  <2>3. ASSUME WholeRing PROVE WholeRing'
    <3>1. ASSUME NEW k \in 0 .. Waiting - 1 PROVE SlotHolds(k)'
      <4>1. SlotHolds(k) BY <2>3 DEF WholeRing
      <4>2. Ahead(k)' = Ahead(k) BY <1>3 DEF Use, Ahead, indices
      <4>3. QED BY <1>3, <2>1, <4>1, <4>2 DEF Use, SlotHolds, Pen
    <3>2. item = Ahead(0) /\ store_[item] \in Nat
      BY <1>w, <2>1 DEF LapInv, Ahead
    <3>3. SlotHolds(0) /\ Waiting > 0
      BY <1>w, <2>1, <2>3 DEF WholeRing
    <3>4. sent = Len(got) + Waiting
      BY <1>w, <2>1, <2>3 DEF WholeRing
    <3>5. store_[item] \in {Len(got) + 1, Torn, Len(got) + 1 + Size}
      <4>1. CASE store_[Ahead(0)] = sent - Waiting + 0 + 1
        BY <1>w, <3>2, <3>4, <4>1
      <4>2. CASE Waiting = Size /\ store_[Ahead(0)] \in {Torn, sent + 1}
        BY <1>w, <3>2, <3>4, <4>2
      <4>3. QED BY <3>3, <4>1, <4>2 DEF SlotHolds
    <3>6. got' = Append(got, store_[item])
      BY <1>3 DEF Use
    <3>7. Len(got') = Len(got) + 1 /\ \A i \in 1 .. Len(got') : got'[i] \in {i, Torn, i + Size}
      <4>1. Len(got') = Len(got) + 1 /\ got'[Len(got) + 1] = store_[item]
        BY <1>w, <3>2, <3>6
      <4>2. \A i \in 1 .. Len(got) : got'[i] = got[i] /\ got[i] \in {i, Torn, i + Size}
        BY <1>w, <2>3, <3>2, <3>6 DEF WholeRing
      <4>3. ASSUME NEW i \in 1 .. Len(got') PROVE got'[i] \in {i, Torn, i + Size}
        <5>1. CASE i = Len(got) + 1
          BY <3>5, <4>1, <5>1
        <5>2. CASE i # Len(got) + 1
          <6>1. i \in 1 .. Len(got)
            BY <1>w, <4>1, <5>2
          <6>2. QED BY <4>2, <6>1
        <5>3. QED BY <5>1, <5>2
      <4>4. QED BY <4>1, <4>3
    <3>8. UNCHANGED <<store_, indices, writer, sent>>
      BY <1>3 DEF Use
    <3>9. sent' = Len(got') + Waiting' - Used'
      BY <1>w, <2>1, <3>4, <3>7, <3>8
    <3>10. (writer = "written" => store_[next_write_index_] = sent + 1)'
      BY <2>3, <3>8 DEF WholeRing, indices
    <3>11. \A k \in 0 .. Waiting' - 1 : SlotHolds(k)'
      BY <2>1, <3>1
    <3>12. QED BY <3>7, <3>9, <3>10, <3>11 DEF WholeRing
  <2>4. QED BY <1>0, <1>o, <2>1, <2>2, <2>3 DEF LapInv
<1>4. CASE StoreReadIndex
  <2>1. /\ Used = 1 /\ Used' = 0 /\ Holding /\ ~Holding'
        /\ reader = "advance" /\ reader' = "assert"
        /\ UNCHANGED <<store_, next_write_index_, num_elements_, writer, sent, got>>
    BY <1>4 DEF StoreReadIndex, Holding, Used
  <2>2. next_read_index_' = IF next_read_index_ + 1 = Size THEN 0 ELSE next_read_index_ + 1
    BY <1>4, <1>w, SuccessorWraps DEF StoreReadIndex, Slots
  <2>3. Waiting' = Waiting - 1 /\ Waiting > 0
    BY <1>w, <2>1, <2>2 DEF Waiting
  <2>4. Overcount' = Overcount
    BY <1>w, <2>1, <2>3 DEF Overcount
  <2>5. ASSUME WholeRing PROVE WholeRing'
    <3>1. ASSUME NEW k \in 0 .. Waiting - 2 PROVE SlotHolds(k)'
      <4>1. k + 1 \in 0 .. Waiting - 1 /\ k + 1 # 0 /\ k \in Nat
        BY <1>w
      <4>2. store_[Ahead(k + 1)] = sent - Waiting + (k + 1) + 1
        BY <2>5, <4>1 DEF WholeRing, SlotHolds
      <4>3. Ahead(k)' = Ahead(k + 1)
        BY <1>w, <2>2, <4>1 DEF Ahead
      <4>4. QED BY <1>w, <2>1, <2>3, <4>1, <4>2, <4>3 DEF SlotHolds
    <3>2. Waiting' - 1 = Waiting - 2
      BY <1>w, <2>3
    <3>3. sent' = Len(got') + Waiting' - Used'
      BY <1>w, <2>1, <2>3, <2>5 DEF WholeRing
    <3>4. QED BY <2>1, <2>5, <3>1, <3>2, <3>3 DEF WholeRing
  <2>6. QED BY <1>0, <1>o, <2>1, <2>4, <2>5 DEF LapInv
<1>5. CASE AssertCounted
  <2>1. /\ Waiting' = Waiting /\ Used' = Used /\ ~Holding'
        /\ reader = "assert" /\ reader' \in {"count", "aborted"}
    BY <1>5 DEF AssertCounted, indices, Waiting, Holding, Used
  <2>2. Overcount' = Overcount
    BY <1>5, <2>1 DEF AssertCounted, Overcount
  <2>3. WholeRing => WholeRing'
    BY <1>5, <1>k, <2>1 DEF AssertCounted
  <2>4. QED BY <1>0, <1>o, <2>1, <2>2, <2>3 DEF LapInv
<1>6. CASE CountRead
  <2>1. /\ Waiting' = Waiting /\ Used' = Used /\ ~Holding'
        /\ reader = "count" /\ reader' = "poll" /\ num_elements_' = num_elements_ - 1
    BY <1>6 DEF CountRead, indices, Waiting, Holding, Used
  <2>2. Overcount' = Overcount
    BY <1>6, <1>w, <2>1 DEF CountRead, Overcount
  <2>3. WholeRing => WholeRing'
    BY <1>6, <1>k, <2>1 DEF CountRead
  <2>4. QED BY <1>0, <1>o, <2>1, <2>2, <2>3 DEF LapInv
<1>7. CASE CopyReleased
  <2>1. /\ Waiting' = Waiting /\ Used' = Used /\ ~Holding'
        /\ reader = "copy" /\ reader' = "poll"
    BY <1>7 DEF CopyReleased, indices, Waiting, Holding, Used
  <2>2. Overcount' = Overcount
    BY <1>7, <2>1 DEF CopyReleased, Overcount
  <2>3. WholeRing => WholeRing'
    BY <1>7, <1>k, <2>1 DEF CopyReleased
  <2>4. QED BY <1>0, <1>o, <2>1, <2>2, <2>3 DEF LapInv
<1>8. QED BY <1>1, <1>2, <1>3, <1>4, <1>5, <1>6, <1>7 DEF Consume

\* A step of neither.
LEMMA RestKeepsLap == ASSUME LapInv, UNCHANGED vars PROVE LapInv' /\ Overcount' = Overcount
<1>1. Overcount' = Overcount
  BY DEF vars, indices, Overcount, Waiting, Holding
<1>2. Counted'
  BY DEF LapInv, Counted, TypeOK, AssertHolds, vars, indices
<1>3. WholeRing => WholeRing'
  BY DEF vars, indices, WholeRing, SlotHolds, Pen, Ahead, Waiting, Holding, Used
<1>4. (Holding => item = next_read_index_)'
  BY DEF LapInv, vars, indices, Holding
<1>5. QED BY <1>1, <1>2, <1>3, <1>4 DEF LapInv

-----------------------------------------------------------------------------
(* The owner.                                                              *)

\* A count of nothing, with no call of log() in progress, is an empty queue.
LEMMA NothingWaits ==
    ASSUME LapInv, num_elements_ = 0, writer = "idle"
    PROVE  Overcount = 0 /\ Waiting = 0 /\ reader \notin {"assert", "count"} /\ ~Holding
<1>1. Waiting \in Nat /\ (Waiting = 0 <=> (next_read_index_ = next_write_index_ /\ ~Holding))
  BY WaitingMeans, SizeAssumption DEF LapInv, Counted
<1>2. Overcount = 0 - (Waiting + (IF reader \in {"assert", "count", "aborted"} THEN 1 ELSE 0))
  BY DEF Overcount
<1>3. Overcount >= 0
  BY DEF LapInv
<1>4. QED BY <1>1, <1>2, <1>3

\* Each step keeps the invariant, and no step forgets a lap.
LEMMA LogStep ==
    ASSUME Flushes, LogInv, [LoggerNext]_loggerVars
    PROVE  LogInv' /\ Overcount' >= Overcount
<1>0. LapInv /\ OwnerInv /\ Overcount \in Int /\ Overcount >= 0
  <2>1. LapInv /\ OwnerInv BY DEF LogInv
  <2>2. Waiting \in Nat /\ num_elements_ \in Nat
    BY <2>1, WaitingMeans, SizeAssumption DEF LapInv, Counted, TypeOK
  <2>3. QED BY <2>1, <2>2 DEF LapInv, Overcount
<1>1. CASE Log
  <2>1. LapInv' /\ Overcount' >= Overcount
    BY <1>0, <1>1, ProduceKeepsLap DEF Log
  <2>2. OwnerInv'
    BY <1>0, <1>1 DEF Log, OwnerInv
  <2>3. QED BY <2>1, <2>2 DEF LogInv
<1>2. CASE Drain
  <2>1. LapInv' /\ Overcount' >= Overcount
    BY <1>0, <1>2, ConsumeKeepsLap DEF Drain, Flushes
  <2>2. owner' = owner /\ writer' = writer
    BY <1>2 DEF Drain, Consume, Poll, TestSize, Use, StoreReadIndex, AssertCounted,
                CountRead, CopyReleased
  <2>3. reader # "count" => num_elements_' = num_elements_
    BY <1>2 DEF Drain, Consume, Poll, TestSize, Use, StoreReadIndex, AssertCounted,
                CountRead, CopyReleased
  <2>4. owner \in {"joining", "closed"} => reader # "count"
    BY <1>0, NothingWaits DEF OwnerInv
  <2>5. OwnerInv'
    BY <1>0, <2>2, <2>3, <2>4 DEF OwnerInv
  <2>6. QED BY <2>1, <2>5 DEF LogInv
<1>3. CASE DrainEnds \/ Rest \/ Destroy \/ Stop \/ Join \/ UNCHANGED loggerVars
  <2>1. UNCHANGED vars
    BY <1>3 DEF DrainEnds, Rest, Destroy, Stop, Join, loggerVars
  <2>2. LapInv' /\ Overcount' >= Overcount
    BY <1>0, <2>1, RestKeepsLap
  <2>3. OwnerInv'
    BY <1>0, <1>3 DEF OwnerInv, DrainEnds, Rest, Destroy, Stop, Join, loggerVars, vars
  <2>4. QED BY <2>2, <2>3 DEF LogInv
<1>4. QED BY <1>1, <1>2, <1>3 DEF LoggerNext, FlushThread

\* The inductive invariant of the logger, for every size of its queue.
THEOREM LoggerSafety == ASSUME Flushes PROVE LoggerSafe => []LogInv
<1>1. LoggerInit => LogInv
  BY LapInit DEF LoggerInit, LogInv, OwnerInv, Init
<1>2. LogInv /\ [LoggerNext]_loggerVars => LogInv'
  BY LogStep
<1>3. QED BY <1>1, <1>2, PTL DEF LoggerSafe

\* A logger that closes has written as many elements as were pushed, each in its
\* place, and none that is not that element, torn, or the one a lap later.
THEOREM ClosedLogIsWritten == ASSUME Flushes PROVE LoggerSafe => []ClosedIsWritten
<1>1. LogInv => ClosedIsWritten
  <2>1. SUFFICES ASSUME LogInv, owner = "closed" PROVE ClosedIsWritten
    BY DEF ClosedIsWritten
  <2>2. Overcount = 0 /\ Waiting = 0 /\ ~Holding
    BY <2>1, NothingWaits DEF LogInv, OwnerInv
  <2>3. WholeRing /\ got \in Seq(Nat) /\ sent \in Nat
    BY <2>1, <2>2 DEF LogInv, LapInv, Counted, TypeOK
  <2>4. Used = 0
    BY <2>2 DEF Holding, Used
  <2>5. Len(got) = sent
    BY <2>2, <2>3, <2>4 DEF WholeRing
  <2>6. QED BY <2>3, <2>5 DEF WholeRing, ClosedIsWritten
<1>2. QED BY <1>1, LoggerSafety, PTL

\* The destructor has got past its loop only if no lap was lost.
LEMMA StoppedMeansNoLap == LogInv => (owner \in {"joining", "closed"} => Overcount = 0)
BY NothingWaits DEF LogInv, OwnerInv

\* One lap of the queue and the destructor never gets past its loop.
THEOREM LapHangs == ASSUME Flushes PROVE LoggerSafe => LapHangsShutdown
<1>0. (LogInv => (owner \in {"joining", "closed"} => Overcount = 0))'
  BY StoppedMeansNoLap, PTL
<1>1. LogInv /\ [LoggerNext]_loggerVars =>
        [Overcount > 0 => Overcount' > 0 /\ owner' \notin {"joining", "closed"}]_loggerVars
  <2>1. SUFFICES ASSUME LogInv, [LoggerNext]_loggerVars, Overcount > 0
        PROVE  Overcount' > 0 /\ owner' \notin {"joining", "closed"}
    OBVIOUS
  <2>2. LogInv' /\ Overcount' >= Overcount
    BY <2>1, LogStep
  <2>3. Overcount \in Int /\ Overcount' \in Int
    <3>1. Waiting \in Int /\ num_elements_ \in Int
      BY <2>1, WaitingMeans, SizeAssumption DEF LogInv, LapInv, Counted, TypeOK
    <3>2. TypeOK'
      BY <2>2 DEF LogInv, LapInv, Counted
    <3>3. Waiting' \in Int /\ num_elements_' \in Int
      BY <3>2, SizeAssumption DEF TypeOK, Slots, Waiting
    <3>4. QED BY <3>1, <3>3 DEF Overcount
  <2>4. owner' \in {"joining", "closed"} => Overcount' = 0
    BY <1>0, <2>2
  <2>5. QED BY <2>1, <2>2, <2>3, <2>4
<1>2. QED BY <1>1, LoggerSafety, PTL DEF LoggerSafe, LapHangsShutdown
=============================================================================
