---------------------------- MODULE MemPoolProofs ----------------------------
(***************************************************************************)
(* For a pool of any size: the index that allocate() will use next is that *)
(* of a block nobody holds, and the pool gives up on its last block.       *)
(*                                                                         *)
(* The argument is about the scan: the blocks it has passed are those less *)
(* than turns blocks behind the one it began at, counted round the end of  *)
(* the store, and none of them is free.                                    *)
(***************************************************************************)
EXTENDS MemPool, TLAPS

\* How many blocks b is behind the block the scan began at.
Distance(b) ==
    IF initial_free_index <= b THEN b - initial_free_index
    ELSE b - initial_free_index + NumElems

ScanSoFar ==
    Scanning =>
        /\ ~is_free_[initial_free_index]
        /\ \A b \in Blocks : Distance(b) < turns => ~is_free_[b]
        /\ ~aborted => turns = Distance(next_free_index_)
        /\ aborted => turns = NumElems

Pool ==
    /\ TypeOK
    /\ FlagsTellOwners
    /\ NextIsFree
    /\ ScanSoFar
    /\ OneTurnOfTheStore
    /\ aborted => Scanning

\* A pool starts with every block free.
LEMMA PoolInit == Init => Pool
<1>1. SUFFICES ASSUME Init PROVE Pool
  OBVIOUS
<1>2. 0 \in Blocks /\ ~Scanning
  BY <1>1, NumElemsAssumption DEF Blocks, Init, Scanning
<1>3. TypeOK
  BY <1>1, <1>2 DEF Init, TypeOK
<1>4. FlagsTellOwners
  BY <1>1 DEF Init, FlagsTellOwners
<1>5. NextIsFree
  BY <1>1, <1>2 DEF Init, NextIsFree
<1>6. OneTurnOfTheStore
  BY <1>1, NumElemsAssumption DEF Init, OneTurnOfTheStore
<1>7. QED BY <1>1, <1>2, <1>3, <1>4, <1>5, <1>6 DEF Init, Pool, ScanSoFar

\* Where b is, counted from the beginning of the scan.
LEMMA DistanceRange ==
    ASSUME TypeOK, Scanning, NEW b \in Blocks
    PROVE  /\ Distance(b) \in 0 .. NumElems - 1
           /\ Distance(b) = 0 <=> b = initial_free_index
           /\ \A c \in Blocks : Distance(c) = Distance(b) => c = b
<1>1. initial_free_index \in Blocks
  BY DEF TypeOK, Scanning
<1>2. QED BY <1>1, NumElemsAssumption DEF Blocks, Distance

\* allocate() takes the block next_free_index_ names.
LEMMA AllocateKeepsPool == ASSUME Pool, allocate PROVE Pool'
<1>1. /\ is_free_ \in [Blocks -> BOOLEAN] /\ next_free_index_ \in Blocks
      /\ ~aborted /\ ~Scanning /\ held \subseteq Blocks
      /\ is_free_[next_free_index_]
  BY DEF Pool, TypeOK, allocate, NextIsFree
<1>2. /\ is_free_' = [is_free_ EXCEPT ![next_free_index_] = FALSE]
      /\ held' = held \cup {next_free_index_}
      /\ initial_free_index' = next_free_index_ /\ turns' = 0
      /\ next_free_index_' = next_free_index_ /\ aborted' = FALSE
  BY <1>1 DEF allocate
<1>3. TypeOK' /\ Scanning'
  <2>1. is_free_' \in [Blocks -> BOOLEAN] /\ held' \subseteq Blocks
    BY <1>1, <1>2
  <2>2. next_free_index_ # Idle
    BY <1>1, NumElemsAssumption DEF Blocks, Idle
  <2>3. QED BY <1>1, <1>2, <2>1, <2>2 DEF TypeOK, Scanning
<1>4. FlagsTellOwners'
  BY <1>1, <1>2 DEF Pool, FlagsTellOwners
<1>5. ScanSoFar'
  BY <1>1, <1>2, NumElemsAssumption DEF ScanSoFar, Distance, Blocks
<1>6. QED
  BY <1>2, <1>3, <1>4, <1>5, NumElemsAssumption DEF Pool, NextIsFree, OneTurnOfTheStore

\* A turn of the scan stops at a free block, passes one that is not, or has
\* passed them all.
LEMMA TurnKeepsPool == ASSUME Pool, Turn PROVE Pool'
<1>1. /\ TypeOK /\ Scanning /\ ~aborted /\ next_free_index_ \in Blocks
      /\ initial_free_index \in Blocks
      /\ is_free_' = is_free_ /\ held' = held
      /\ turns = Distance(next_free_index_)
      /\ \A b \in Blocks : Distance(b) < turns => ~is_free_[b]
      /\ ~is_free_[initial_free_index]
  BY DEF Pool, TypeOK, Turn, Scanning, ScanSoFar
<1>2. FlagsTellOwners'
  BY <1>1 DEF Pool, FlagsTellOwners
<1>3. CASE is_free_[next_free_index_]
  <2>1. /\ ~Scanning' /\ initial_free_index' = Idle
        /\ next_free_index_' = next_free_index_ /\ turns' = turns /\ aborted' = aborted
    BY <1>3 DEF Turn, Scanning
  <2>2. TypeOK'
    BY <1>1, <2>1 DEF TypeOK
  <2>3. NextIsFree'
    BY <1>1, <1>3, <2>1 DEF Pool, FlagsTellOwners, NextIsFree
  <2>4. QED BY <1>1, <1>2, <2>1, <2>2, <2>3 DEF Pool, ScanSoFar, OneTurnOfTheStore
<1>4. CASE ~is_free_[next_free_index_]
  <2>1. /\ next_free_index_' = Following(next_free_index_)
        /\ aborted' = (next_free_index_' = initial_free_index)
        /\ turns' = turns + 1 /\ initial_free_index' = initial_free_index /\ Scanning'
    BY <1>1, <1>4 DEF Turn, Scanning
  <2>2. Following(next_free_index_) \in Blocks
    BY <1>1, NumElemsAssumption DEF Following, Blocks
  <2>3. turns \in 0 .. NumElems - 1
    BY <1>1, DistanceRange
  <2>4. TypeOK'
    BY <1>1, <2>1, <2>2, <2>3 DEF TypeOK
  <2>5. \A b \in Blocks : Distance(b)' = Distance(b)
    BY <2>1 DEF Distance
  <2>6. ASSUME NEW b \in Blocks, Distance(b) < turns + 1
        PROVE  ~is_free_[b]
    <3>1. Distance(b) \in Int
      BY <1>1, DistanceRange
    <3>2. CASE Distance(b) < turns
      BY <1>1, <3>2
    <3>3. CASE Distance(b) = turns
      BY <1>1, <1>4, <3>3, DistanceRange
    <3>4. QED BY <2>3, <2>6, <3>1, <3>2, <3>3
  <2>7. /\ next_free_index_' # initial_free_index =>
             Distance(Following(next_free_index_)) = turns + 1
        /\ next_free_index_' = initial_free_index => turns + 1 = NumElems
    BY <1>1, <2>1, NumElemsAssumption DEF Following, Distance, Blocks
  <2>8. ScanSoFar'
    <3>1. next_free_index_' \in Blocks
      BY <2>1, <2>2
    <3>2. Distance(next_free_index_)' = Distance(Following(next_free_index_))
      BY <2>1 DEF Distance
    <3>3. QED BY <1>1, <2>1, <2>5, <2>6, <2>7, <3>1, <3>2 DEF ScanSoFar
  <2>9. OneTurnOfTheStore' /\ NextIsFree' /\ (aborted => Scanning)'
    BY <2>1, <2>3, NumElemsAssumption DEF OneTurnOfTheStore, NextIsFree
  <2>10. QED BY <1>2, <2>4, <2>8, <2>9 DEF Pool
<1>5. QED BY <1>3, <1>4

\* deallocate() gives back a block that was taken.
LEMMA DeallocateKeepsPool ==
  ASSUME Pool, NEW b \in Blocks, deallocate(b) PROVE Pool'
<1>1. TypeOK' /\ ~Scanning' /\ ~aborted'
  BY DEF Pool, TypeOK, deallocate, Scanning
<1>2. FlagsTellOwners'
  BY DEF Pool, TypeOK, FlagsTellOwners, deallocate
<1>3. NextIsFree'
  BY DEF Pool, TypeOK, NextIsFree, deallocate
<1>4. QED BY <1>1, <1>2, <1>3 DEF Pool, deallocate, ScanSoFar, OneTurnOfTheStore

\* Flags, owners, index and scan agree in every state of the pool
\* (memory_pool.h).
THEOREM PoolInvariant == Spec => []Pool
<1>1. Pool /\ [Next]_vars => Pool'
  <2>1. SUFFICES ASSUME Pool, [Next]_vars PROVE Pool'
    OBVIOUS
  <2>2. CASE UNCHANGED vars
    BY <2>1, <2>2 DEF vars, Pool, TypeOK, FlagsTellOwners, NextIsFree, ScanSoFar,
                      Scanning, Distance, OneTurnOfTheStore
  <2>3. QED BY <2>1, <2>2, AllocateKeepsPool, TurnKeepsPool, DeallocateKeepsPool DEF Next
<1>2. QED BY PoolInit, <1>1, PTL DEF Spec

\* A pool that has given up has every block in use, and only a scan meets a
\* pool with no free block.
LEMMA PoolIsFullWhenAborted == ASSUME Pool PROVE AbortsOnLastBlock
<1>1. TypeOK /\ FlagsTellOwners
  BY DEF Pool
<1>2. ASSUME aborted PROVE held = Blocks
  <2>1. Scanning /\ turns = NumElems /\ \A b \in Blocks : Distance(b) < turns => ~is_free_[b]
    BY <1>2 DEF Pool, ScanSoFar
  <2>2. \A b \in Blocks : Distance(b) < NumElems
    BY <1>1, <2>1, DistanceRange, NumElemsAssumption
  <2>3. QED BY <1>1, <2>1, <2>2 DEF FlagsTellOwners
<1>3. ASSUME held = Blocks, ~aborted PROVE Scanning
  BY <1>1, <1>3 DEF Pool, NextIsFree, TypeOK
<1>4. QED BY <1>2, <1>3 DEF AbortsOnLastBlock

\* The ASSERT of allocate() (memory_pool.h:49) never fails, "Memory pool out of
\* space." (memory_pool.h:29) ends the process if and only if every block has
\* been handed out, and the loop ends within one turn of the store.
THEOREM PoolServesHolds == Spec => []PoolServes
<1>1. Pool => PoolServes
  BY PoolIsFullWhenAborted DEF Pool, PoolServes
<1>2. QED BY PoolInvariant, <1>1, PTL
=============================================================================
