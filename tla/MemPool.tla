------------------------------- MODULE MemPool -------------------------------
(***************************************************************************)
(* thu::MemPool<T> (Chapter10/common/memory_pool.h).  The exchange and the *)
(* trading client take every order and every price level from such pools,  *)
(* each used by one thread.  A block is its index; Held is what the        *)
(* callers were given and have not given back.                             *)
(***************************************************************************)
EXTENDS Integers, FiniteSets

CONSTANT NumElems

ASSUME NumElemsAssumption == NumElems \in Nat \ {0}

VARIABLES
    is_free_,            \* of every block
    next_free_index_,
    initial_free_index,  \* of the scan in progress; Idle when there is none
    turns,               \* history: turns the last scan has taken
    held,                \* history: the blocks the callers hold
    aborted              \* an ASSERT has ended the process

vars == <<is_free_, next_free_index_, initial_free_index, turns, held, aborted>>

Blocks == 0 .. NumElems - 1
Idle == -1
Scanning == initial_free_index # Idle

Init ==
    /\ is_free_ = [b \in Blocks |-> TRUE]
    /\ next_free_index_ = 0
    /\ initial_free_index = Idle
    /\ turns = 0
    /\ held = {}
    /\ aborted = FALSE

\* The block next_free_index_ points to is handed out; updateNextFreeIndex()
\* begins.
allocate ==
    /\ ~aborted /\ ~Scanning
    /\ turns' = 0
    /\ IF is_free_[next_free_index_]
       THEN /\ is_free_' = [is_free_ EXCEPT ![next_free_index_] = FALSE]
            /\ held' = held \cup {next_free_index_}
            /\ initial_free_index' = next_free_index_
            /\ UNCHANGED aborted
       ELSE /\ aborted' = TRUE
            /\ UNCHANGED <<is_free_, held, initial_free_index>>
    /\ UNCHANGED next_free_index_

\* Mutant: the index wraps one block early, and the last block is never found.
FollowingWrapsEarly(index) == IF index + 1 >= NumElems - 1 THEN 0 ELSE index + 1

\* The next index, which wraps at the end of the store.
Following(index) == IF index + 1 = NumElems THEN 0 ELSE index + 1

\* One turn of the loop of updateNextFreeIndex(): it ends at a free block, and
\* ends the process when it is back where it began.
Turn ==
    /\ ~aborted /\ Scanning
    /\ IF is_free_[next_free_index_]
       THEN /\ initial_free_index' = Idle
            /\ UNCHANGED <<next_free_index_, turns, aborted>>
       ELSE /\ next_free_index_' = Following(next_free_index_)
            /\ aborted' = (next_free_index_' = initial_free_index)
            /\ turns' = turns + 1
            /\ UNCHANGED initial_free_index
    /\ UNCHANGED <<is_free_, held>>

\* Callers give back what they hold (removeOrder, removeOrdersAtPrice,
\* addToSnapshot clear their pointer in the same call).
deallocate(b) ==
    /\ ~aborted /\ ~Scanning
    /\ b \in held
    /\ is_free_' = [is_free_ EXCEPT ![b] = TRUE]
    /\ held' = held \ {b}
    /\ UNCHANGED <<next_free_index_, initial_free_index, turns, aborted>>

Next == allocate \/ Turn \/ \E b \in Blocks : deallocate(b)

Spec == Init /\ [][Next]_vars

-----------------------------------------------------------------------------
(* Properties *)

TypeOK ==
    /\ is_free_ \in [Blocks -> BOOLEAN]
    /\ next_free_index_ \in Blocks
    /\ initial_free_index \in Blocks \cup {Idle}
    /\ turns \in Nat
    /\ held \subseteq Blocks
    /\ aborted \in BOOLEAN

\* The flags and the callers agree on who owns a block.
FlagsTellOwners == held = {b \in Blocks : ~is_free_[b]}

\* "Expected free ObjectBlock at index" (memory_pool.h:49): the index that the
\* scan of one allocate() leaves is that of a block no caller holds at the next
\* allocate(), whatever was given back in between.
NextIsFree ==
    ~aborted /\ ~Scanning => next_free_index_ \notin held /\ is_free_[next_free_index_]

\* The pool gives up exactly when its last block is handed out: a pool of
\* NumElems blocks can only keep NumElems - 1 in use.
AbortsOnLastBlock ==
    /\ aborted => held = Blocks
    /\ held = Blocks => aborted \/ Scanning

\* The loop goes round the store once at most.
OneTurnOfTheStore == turns <= NumElems

\* What the pool's users rely on, after any sequence of calls and in any state
\* of its loop: the next block is free, no block is overlooked before the pool
\* gives up, and each scan ends (memory_pool.h:20-32, 46-55).
PoolServes == NextIsFree /\ AbortsOnLastBlock /\ OneTurnOfTheStore
=============================================================================
