------------------------------ MODULE ThreadPool ------------------------------
(***************************************************************************)
(* threadpool (src/thread_pool.cpp): worker threads that wait on one       *)
(* condition variable for tasks, callers of async() that queue them, and   *)
(* an owner who ends the pool with terminate() or cancel().                *)
(*                                                                         *)
(* The pool's mutex mtx_ is not the queue's: async() tests the flags under *)
(* mtx_, lets it go, queues the task under the mutex of blocking_queue and *)
(* notifies with no lock at all.  A critical section that does not wait is *)
(* one step; the one of a worker, which lasts from its test to its sleep,  *)
(* is two (Look, Sleep).  Each task is delegated by a caller of its own.   *)
(***************************************************************************)
EXTENDS Naturals, Sequences, Functions

CONSTANTS
    Workers,   \* the worker threads
    Tasks,     \* the tasks, one call of async() for each
    None       \* no task; no holder of the mutex

ASSUME PoolAssumption ==
    /\ Workers # {}
    /\ None \notin Workers \cup Tasks

VARIABLES
    inited_, stop_, cancel_,
    tasks_,    \* the blocking_queue
    mtx_,      \* the worker that holds mtx_ between its test and its sleep
    at,        \* where each worker is in spawn()
    task,      \* what a worker has popped
    caller,    \* where the async() of each task is
    owner,     \* where the owner is
    ran,       \* the tasks that have been run, in order of their end
    dropped,   \* those destroyed without having been run
    late       \* those queued once the pool was told to end

flags == <<inited_, stop_, cancel_>>
history == <<ran, dropped, late>>
vars == <<flags, tasks_, mtx_, at, task, caller, owner, history>>

Ending == stop_ \/ cancel_

-----------------------------------------------------------------------------

Init ==
    /\ inited_ = FALSE /\ stop_ = FALSE /\ cancel_ = FALSE
    /\ tasks_ = <<>>
    /\ mtx_ = None
    /\ at = [w \in Workers |-> "none"]
    /\ task = [w \in Workers |-> None]
    /\ caller = [t \in Tasks |-> "idle"]
    /\ owner = "new"
    /\ ran = <<>> /\ dropped = {} /\ late = {}

\* init(): the workers it starts cannot look before it lets the mutex go.
init ==
    /\ owner = "new"
    /\ inited_' = TRUE
    /\ at' = [w \in Workers |-> "waits"]
    /\ owner' = "using"
    /\ UNCHANGED <<stop_, cancel_, tasks_, mtx_, task, caller, history>>

-----------------------------------------------------------------------------
(* spawn() *)

\* Mutant: the flags come first, and once one is set nothing is popped.
LookFlagsFirst(w) ==
    /\ at[w] = "waits"
    /\ mtx_ = None
    /\ IF ~Ending /\ tasks_ # <<>>
       THEN /\ task' = [task EXCEPT ![w] = Head(tasks_)]
            /\ tasks_' = Tail(tasks_)
       ELSE UNCHANGED <<task, tasks_>>
    /\ IF Ending \/ tasks_ # <<>>
       THEN /\ at' = [at EXCEPT ![w] = "leaves"]
            /\ UNCHANGED mtx_
       ELSE /\ at' = [at EXCEPT ![w] = "looked"]
            /\ mtx_' = w
    /\ UNCHANGED <<flags, caller, owner, history>>

\* The predicate of wait(): it pops a task if there is one, whatever the
\* flags say.  If it is false the worker keeps the mutex until it sleeps.
Look(w) ==
    /\ at[w] = "waits"
    /\ mtx_ = None
    /\ IF tasks_ # <<>>
       THEN /\ task' = [task EXCEPT ![w] = Head(tasks_)]
            /\ tasks_' = Tail(tasks_)
       ELSE UNCHANGED <<task, tasks_>>
    /\ IF Ending \/ tasks_ # <<>>
       THEN /\ at' = [at EXCEPT ![w] = "leaves"]
            /\ UNCHANGED mtx_
       ELSE /\ at' = [at EXCEPT ![w] = "looked"]
            /\ mtx_' = w
    /\ UNCHANGED <<flags, caller, owner, history>>

Sleep(w) ==
    /\ at[w] = "looked"
    /\ at' = [at EXCEPT ![w] = "asleep"]
    /\ mtx_' = None
    /\ UNCHANGED <<flags, tasks_, task, caller, owner, history>>

\* A condition variable may wake a thread for no reason.
WakeSpuriously(w) ==
    /\ at[w] = "asleep"
    /\ at' = [at EXCEPT ![w] = "waits"]
    /\ UNCHANGED <<flags, tasks_, mtx_, task, caller, owner, history>>

\* Mutant: a worker that sees stop_ does not look at what it has popped.
DecideOnStop(w) ==
    /\ at[w] = "leaves"
    /\ IF Ending
       THEN /\ at' = [at EXCEPT ![w] = "returned"]
            /\ task' = [task EXCEPT ![w] = None]
            /\ dropped' = dropped \cup ({task[w]} \ {None})
       ELSE /\ at' = [at EXCEPT ![w] = "runs"]
            /\ UNCHANGED <<task, dropped>>
    /\ UNCHANGED <<flags, tasks_, mtx_, caller, owner, ran, late>>

\* The test behind the wait, which reads the flags without the mutex; a
\* worker that returns destroys what it has popped.
Decide(w) ==
    /\ at[w] = "leaves"
    /\ IF cancel_ \/ (stop_ /\ task[w] = None)
       THEN /\ at' = [at EXCEPT ![w] = "returned"]
            /\ task' = [task EXCEPT ![w] = None]
            /\ dropped' = dropped \cup ({task[w]} \ {None})
       ELSE /\ at' = [at EXCEPT ![w] = "runs"]
            /\ UNCHANGED <<task, dropped>>
    /\ UNCHANGED <<flags, tasks_, mtx_, caller, owner, ran, late>>

Run(w) ==
    /\ at[w] = "runs"
    /\ ran' = Append(ran, task[w])
    /\ task' = [task EXCEPT ![w] = None]
    /\ at' = [at EXCEPT ![w] = "waits"]
    /\ UNCHANGED <<flags, tasks_, mtx_, caller, owner, dropped, late>>

Work(w) == Look(w) \/ Sleep(w) \/ Decide(w) \/ Run(w)

-----------------------------------------------------------------------------
(* async() *)

\* The test of the flags under mtx_: async() throws once the pool is ending.
Delegate(t) ==
    /\ caller[t] = "idle"
    /\ mtx_ = None
    /\ caller' = [caller EXCEPT ![t] = IF Ending THEN "refused" ELSE "accepted"]
    /\ UNCHANGED <<flags, tasks_, mtx_, at, task, owner, history>>

emplace(t) ==
    /\ caller[t] = "accepted"
    /\ tasks_' = Append(tasks_, t)
    /\ late' = IF Ending THEN late \cup {t} ELSE late
    /\ caller' = [caller EXCEPT ![t] = "queued"]
    /\ UNCHANGED <<flags, mtx_, at, task, owner, ran, dropped>>

Asleep == {w \in Workers : at[w] = "asleep"}

\* Mutant: a caller that finds other tasks queued leaves it to their callers.
NotifyOneIfAlone(t) ==
    /\ caller[t] = "queued"
    /\ \/ Len(tasks_) < 2 /\ \E w \in Asleep : at' = [at EXCEPT ![w] = "waits"]
       \/ (Asleep = {} \/ Len(tasks_) > 1) /\ UNCHANGED at
    /\ caller' = [caller EXCEPT ![t] = "returned"]
    /\ UNCHANGED <<flags, tasks_, mtx_, task, owner, history>>

\* notify_one(): lost if no worker sleeps.
notify_one(t) ==
    /\ caller[t] = "queued"
    /\ \/ \E w \in Asleep : at' = [at EXCEPT ![w] = "waits"]
       \/ Asleep = {} /\ UNCHANGED at
    /\ caller' = [caller EXCEPT ![t] = "returned"]
    /\ UNCHANGED <<flags, tasks_, mtx_, task, owner, history>>

async(t) == Delegate(t) \/ emplace(t) \/ notify_one(t)

-----------------------------------------------------------------------------
(* terminate() and cancel() *)

\* Mutant: the flag is set without the mutex.
TerminateUnlocked ==
    /\ owner = "using"
    /\ inited_ /\ ~Ending
    /\ stop_' = TRUE
    /\ owner' = "flagged"
    /\ UNCHANGED <<inited_, cancel_, tasks_, mtx_, at, task, caller, history>>

terminate ==
    /\ owner = "using"
    /\ mtx_ = None
    /\ inited_ /\ ~Ending
    /\ stop_' = TRUE
    /\ owner' = "flagged"
    /\ UNCHANGED <<inited_, cancel_, tasks_, mtx_, at, task, caller, history>>

cancel ==
    /\ owner = "using"
    /\ mtx_ = None
    /\ inited_ /\ ~Ending
    /\ cancel_' = TRUE
    /\ owner' = "canceling"
    /\ UNCHANGED <<inited_, stop_, tasks_, mtx_, at, task, caller, history>>

\* blocking_queue::clear(), of cancel() only.
clear ==
    /\ owner = "canceling"
    /\ tasks_' = <<>>
    /\ dropped' = dropped \cup Range(tasks_)
    /\ owner' = "flagged"
    /\ UNCHANGED <<flags, mtx_, at, task, caller, ran, late>>

notify_all ==
    /\ owner = "flagged"
    /\ at' = [w \in Workers |-> IF at[w] = "asleep" THEN "waits" ELSE at[w]]
    /\ owner' = "joining"
    /\ UNCHANGED <<flags, tasks_, mtx_, task, caller, history>>

join ==
    /\ owner = "joining"
    /\ \A w \in Workers : at[w] = "returned"
    /\ owner' = "ended"
    /\ UNCHANGED <<flags, tasks_, mtx_, at, task, caller, history>>

End == clear \/ notify_all \/ join

Next ==
    \/ init \/ terminate \/ cancel \/ End
    \/ \E w \in Workers : Work(w) \/ WakeSpuriously(w)
    \/ \E t \in Tasks : async(t)

Spec == Init /\ [][Next]_vars

\* The threads the system runs go on; nothing makes the owner end the pool, a
\* caller call, or a condition variable wake anyone without a notification.
FairSpec ==
    /\ Spec
    /\ \A w \in Workers : WF_vars(Work(w))
    /\ WF_vars(End)

-----------------------------------------------------------------------------
(* Properties *)

TypeOK ==
    /\ inited_ \in BOOLEAN /\ stop_ \in BOOLEAN /\ cancel_ \in BOOLEAN
    /\ tasks_ \in Seq(Tasks)
    /\ mtx_ \in Workers \cup {None}
    /\ at \in [Workers -> {"none", "waits", "looked", "asleep", "leaves",
                           "runs", "returned"}]
    /\ task \in [Workers -> Tasks \cup {None}]
    /\ caller \in [Tasks -> {"idle", "accepted", "refused", "queued", "returned"}]
    /\ owner \in {"new", "using", "canceling", "flagged", "joining", "ended"}
    /\ ran \in Seq(Tasks)
    /\ dropped \subseteq Tasks /\ late \subseteq Tasks

Waiting == Range(tasks_)
Held == Range(task) \ {None}
HasRun == Range(ran)
Queued == {t \in Tasks : caller[t] \in {"queued", "returned"}}

\* A task that async() has queued is in one place: in the queue, with one
\* worker, run (once) or destroyed; and terminate(), unlike cancel(),
\* destroys none.  The predicate that pops while it tests the flags, and the
\* unlocked test behind it, are what could lose one.
EachTaskOnce ==
    /\ Queued = Waiting \cup Held \cup HasRun \cup dropped
    /\ IsInjective(tasks_) /\ IsInjective(ran)
    /\ \A v, w \in Workers : task[v] = task[w] /\ task[v] # None => v = w
    /\ Waiting \cap (Held \cup HasRun \cup dropped) = {}
    /\ Held \cap (HasRun \cup dropped) = {}
    /\ HasRun \cap dropped = {}
    /\ ~cancel_ => dropped = {}

\* When terminate() returns, every task queued before it was called has been
\* run.  One whose caller passed the test of async() before and queued it
\* after may lie in the queue for ever, its future never ready.
TerminateRunsQueued ==
    owner = "ended" /\ stop_ => Queued \subseteq HasRun \cup late

\* The invariant the proofs of both rest on: only a worker that has left the
\* wait holds a task; one that has found none has seen the pool ending, and
\* from then on only late tasks wait; a pool ends in one way.
HandsKnown ==
    \A w \in Workers :
        /\ task[w] # None => at[w] \in {"leaves", "runs"}
        /\ at[w] = "runs" => task[w] # None
        /\ at[w] = "returned" \/ (at[w] = "leaves" /\ task[w] = None) =>
              cancel_ \/ (stop_ /\ Waiting \subseteq late)

EndsOneWay ==
    /\ ~(stop_ /\ cancel_)
    /\ owner = "new" => \A w \in Workers : at[w] = "none"
    /\ owner = "canceling" => cancel_
    /\ owner = "ended" => \A w \in Workers : at[w] = "returned"

PoolInv == TypeOK /\ EachTaskOnce /\ HandsKnown /\ EndsOneWay

\* Tasks wait, every worker sleeps, and nobody is about to notify one.
Stranded ==
    /\ tasks_ # <<>>
    /\ ~Ending
    /\ inited_ /\ \A w \in Workers : at[w] = "asleep"
    /\ \A t \in Tasks : caller[t] # "queued"

\* Since async() takes no mutex to queue and to notify, a task can be left
\* to sleeping workers; but only in one way, by a worker going to sleep on a
\* test that the task has overtaken.
StrandedOnlyInTheGap ==
    [][~Stranded /\ Stranded' => \E w \in Workers : Sleep(w)]_vars

\* terminate() and cancel() return: the flag is set under the mutex that a
\* worker holds from its test to its sleep, so no worker misses the news.
EndingEnds == (owner \in {"canceling", "flagged"}) ~> (owner = "ended")
=============================================================================
