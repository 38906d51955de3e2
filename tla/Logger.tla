-------------------------------- MODULE Logger --------------------------------
(***************************************************************************)
(* thu::Logger (Chapter10/common/logging.h): log() pushes elements into an *)
(* LFQueue, a thread of its own writes them to a file, and the destructor  *)
(* waits for the count of the queue to become 0 before it stops the        *)
(* thread.  The queue's accesses are the steps of module LFQueue, with     *)
(* ChecksSize = TRUE; a message is one element.                            *)
(***************************************************************************)
EXTENDS LFQueue

\* The inner loop of flushQueue() tests size() and keeps no copy.
Flushes == ChecksSize /\ ~LateCopy

VARIABLES
    running_,  \* the flag the flush thread goes on by
    flusher,   \* where the flush thread is in its outer loop
    owner      \* where the owner is in ~Logger()

loggerVars == <<vars, running_, flusher, owner>>

LoggerInit ==
    /\ Init
    /\ running_ = TRUE
    /\ flusher = "drain"
    /\ owner = "logging"

\* pushValue(): the threads that log have stopped when the owner destroys it.
Log ==
    /\ owner = "logging"
    /\ Produce
    /\ UNCHANGED <<running_, flusher, owner>>

\* The inner loop of flushQueue().
Drain ==
    /\ flusher = "drain"
    /\ Consume
    /\ flusher' = IF reader = "found" /\ reader' = "poll" THEN "rest" ELSE flusher
    /\ UNCHANGED <<running_, owner>>

\* The inner loop ends when getNextToRead() finds nothing.
DrainEnds ==
    /\ flusher = "drain"
    /\ reader = "poll"
    /\ next_read_index_ = next_write_index_
    /\ flusher' = "rest"
    /\ UNCHANGED <<vars, running_, owner>>

\* Mutant: the outer loop has no end.
RestForGood ==
    /\ flusher = "rest"
    /\ flusher' = "drain"
    /\ UNCHANGED <<vars, running_, owner>>

\* file_.flush(), the sleep, and the test of the outer loop.
Rest ==
    /\ flusher = "rest"
    /\ flusher' = IF running_ THEN "drain" ELSE "ended"
    /\ UNCHANGED <<vars, running_, owner>>

-----------------------------------------------------------------------------
(* ~Logger() *)

Destroy ==
    /\ owner = "logging"
    /\ writer = "idle"
    /\ owner' = "waiting"
    /\ UNCHANGED <<vars, running_, flusher>>

\* Mutant: the destructor does not wait for the queue.
StopAtOnce ==
    /\ owner = "waiting"
    /\ running_' = FALSE
    /\ owner' = "joining"
    /\ UNCHANGED <<vars, flusher>>

Stop ==
    /\ owner = "waiting"
    /\ num_elements_ = 0
    /\ running_' = FALSE
    /\ owner' = "joining"
    /\ UNCHANGED <<vars, flusher>>

Join ==
    /\ owner = "joining"
    /\ flusher = "ended"
    /\ owner' = "closed"
    /\ UNCHANGED <<vars, running_, flusher>>

FlushThread == Drain \/ DrainEnds \/ Rest

LoggerNext == Log \/ FlushThread \/ Destroy \/ Stop \/ Join

LoggerSafe == LoggerInit /\ [][LoggerNext]_loggerVars

\* The flush thread sleeps for a millisecond and goes on, and so does the
\* owner, who looks at the count once a second.
LoggerSpec ==
    /\ LoggerSafe
    /\ WF_loggerVars(FlushThread)
    /\ WF_loggerVars(Stop \/ Join)

-----------------------------------------------------------------------------
(* Properties *)

\* A logger that could be closed has written as many elements as were
\* pushed, in order, even if nothing kept the queue from being lapped: a
\* count of 0 means that no lap was lost.  All that a full queue can have
\* spoiled is the element that was being read, which the producer, one lap on,
\* may have begun to overwrite.
ClosedIsWritten ==
    owner = "closed" =>
        /\ Len(got) = sent
        /\ \A i \in 1 .. sent : got[i] \in {i, Torn, i + Size}

\* The destructor of a logger whose queue was never lapped comes to its end:
\* the owner polls the count, the thread polls the indices and the flag.
ShutdownEnds == (owner = "waiting") ~> (owner = "closed" \/ Overcount > 0)

\* One lap of the queue, at any time before, and the destructor waits for
\* ever on a count that the flush thread cannot bring down.
LapHangsShutdown ==
    [][Overcount > 0 => Overcount' > 0 /\ owner' \notin {"joining", "closed"}]_loggerVars
=============================================================================
