--------------------------- MODULE ThreadPoolProofs ---------------------------
(***************************************************************************)
(* Proofs about module ThreadPool, for any set of workers and of tasks.    *)
(***************************************************************************)
EXTENDS ThreadPool, TLAPS

-----------------------------------------------------------------------------
(* The elements of the queue and of the history *)

\* emplace() adds one task to those that wait.
LEMMA RangeOfAppend ==
    ASSUME NEW S, NEW s \in Seq(S), NEW x \in S
    PROVE  /\ Append(s, x) \in Seq(S)
           /\ Range(Append(s, x)) = Range(s) \cup {x}
           /\ IsInjective(s) /\ x \notin Range(s) => IsInjective(Append(s, x))
<1>1. /\ Append(s, x) \in Seq(S)
      /\ DOMAIN Append(s, x) = DOMAIN s \cup {Len(s) + 1}
      /\ \A i \in DOMAIN s : Append(s, x)[i] = s[i]
      /\ Append(s, x)[Len(s) + 1] = x
  OBVIOUS
<1>2. QED BY <1>1, Zenon DEF Range, IsInjective

\* pop() takes one away.
LEMMA RangeOfTail ==
    ASSUME NEW S, NEW s \in Seq(S), s # <<>>
    PROVE  /\ Head(s) \in S
           /\ Tail(s) \in Seq(S)
           /\ Range(s) = Range(Tail(s)) \cup {Head(s)}
           /\ IsInjective(s) => IsInjective(Tail(s)) /\ Head(s) \notin Range(Tail(s))
<1>1. /\ Head(s) \in S
      /\ Tail(s) \in Seq(S)
      /\ 1 \in DOMAIN s /\ s[1] = Head(s)
      /\ \A i \in DOMAIN Tail(s) : i + 1 \in DOMAIN s /\ i + 1 # 1 /\ Tail(s)[i] = s[i + 1]
      /\ \A i, j \in DOMAIN Tail(s) : i + 1 = j + 1 => i = j
      /\ \A i \in DOMAIN s : i # 1 => i - 1 \in DOMAIN Tail(s) /\ s[i] = Tail(s)[i - 1]
  OBVIOUS
<1>2. Range(s) = Range(Tail(s)) \cup {Head(s)}
  <2>1. ASSUME NEW i \in DOMAIN s PROVE s[i] \in Range(Tail(s)) \cup {Head(s)}
    <3>1. CASE i = 1  BY <1>1, <3>1
    <3>2. CASE i # 1  BY <1>1, <3>2 DEF Range
    <3>3. QED BY <3>1, <3>2
  <2>2. Range(Tail(s)) \cup {Head(s)} \subseteq Range(s)
    BY <1>1 DEF Range
  <2>3. QED BY <2>1, <2>2 DEF Range
<1>3. ASSUME IsInjective(s) PROVE IsInjective(Tail(s)) /\ Head(s) \notin Range(Tail(s))
  <2>1. ASSUME NEW i \in DOMAIN Tail(s), NEW j \in DOMAIN Tail(s), Tail(s)[i] = Tail(s)[j]
        PROVE  i = j
    <3>1. s[i + 1] = s[j + 1]  BY <1>1, <2>1
    <3>2. i + 1 = j + 1  BY <1>1, <1>3, <3>1 DEF IsInjective
    <3>3. QED BY <1>1, <3>2
  <2>2. ASSUME NEW i \in DOMAIN Tail(s) PROVE Tail(s)[i] # Head(s)
    <3>1. s[i + 1] # s[1]  BY <1>1, <1>3 DEF IsInjective
    <3>2. QED BY <1>1, <3>1
  <2>3. QED BY <2>1, <2>2 DEF IsInjective, Range
<1>4. QED BY <1>1, <1>2, <1>3

\* A worker lets a task go; no other worker has it.
LEMMA HandGives ==
    ASSUME NEW f \in [Workers -> Tasks \cup {None}], NEW w \in Workers,
           \A u, v \in Workers : f[u] = f[v] /\ f[u] # None => u = v
    PROVE  Range([f EXCEPT ![w] = None]) \ {None} = (Range(f) \ {None}) \ {f[w]}
<1> DEFINE g == [f EXCEPT ![w] = None]
<1>1. DOMAIN g = Workers /\ DOMAIN f = Workers /\ g[w] = None
      /\ \A v \in Workers : v # w => g[v] = f[v]
  OBVIOUS
<1>2. QED BY <1>1 DEF Range

-----------------------------------------------------------------------------
(* The invariant *)

\* An empty pool has lost nothing.
LEMMA PoolInvInit == Init => PoolInv
<1>1. SUFFICES ASSUME Init PROVE PoolInv
  OBVIOUS
<1>2. TypeOK
  <2>1. << >> \in Seq(Tasks)  OBVIOUS
  <2>2. QED BY <1>1, <2>1 DEF Init, TypeOK
<1>3. Queued = {} /\ Waiting = {} /\ HasRun = {} /\ Held = {}
  BY <1>1 DEF Init, Queued, Waiting, HasRun, Held, Range
<1>4. EachTaskOnce
  BY <1>1, <1>3 DEF Init, EachTaskOnce, IsInjective
<1>5. HandsKnown /\ EndsOneWay
  BY <1>1 DEF Init, HandsKnown, EndsOneWay
<1>6. QED BY <1>2, <1>4, <1>5 DEF PoolInv

\* Every step keeps the types.
LEMMA TypeStep == TypeOK /\ HandsKnown /\ [Next]_vars => TypeOK'
<1>1. SUFFICES ASSUME TypeOK, HandsKnown, [Next]_vars PROVE TypeOK'
  OBVIOUS
<1> USE <1>1 DEF TypeOK, flags, history
<1>2. CASE init  BY <1>2 DEF init
<1>3. CASE terminate  BY <1>3 DEF terminate
<1>4. CASE cancel  BY <1>4 DEF cancel
<1>5. CASE clear
  <2>1. Range(tasks_) \subseteq Tasks  BY DEF Range
  <2>2. QED BY <1>5, <2>1 DEF clear
<1>6. CASE notify_all  BY <1>6 DEF notify_all
<1>7. CASE join  BY <1>7 DEF join
<1>8. ASSUME NEW w \in Workers, Look(w) PROVE TypeOK'
  <2>1. CASE tasks_ # <<>>
    <3>1. Head(tasks_) \in Tasks /\ Tail(tasks_) \in Seq(Tasks)
      BY <2>1, RangeOfTail
    <3>2. QED BY <1>8, <2>1, <3>1 DEF Look
  <2>2. CASE tasks_ = <<>>  BY <1>8, <2>2 DEF Look
  <2>3. QED BY <2>1, <2>2
<1>9. ASSUME NEW w \in Workers, Sleep(w) \/ WakeSpuriously(w) PROVE TypeOK'
  BY <1>9 DEF Sleep, WakeSpuriously
<1>10. ASSUME NEW w \in Workers, Decide(w) PROVE TypeOK'
  BY <1>10 DEF Decide
<1>11. ASSUME NEW w \in Workers, Run(w) PROVE TypeOK'
  <2>1. task[w] \in Tasks  BY <1>11 DEF Run, HandsKnown
  <2>2. QED BY <1>11, <2>1 DEF Run
<1>12. ASSUME NEW t \in Tasks, Delegate(t) PROVE TypeOK'
  BY <1>12 DEF Delegate
<1>13. ASSUME NEW t \in Tasks, emplace(t) PROVE TypeOK'
  BY <1>13 DEF emplace
<1>14. ASSUME NEW t \in Tasks, notify_one(t) PROVE TypeOK'
  BY <1>14 DEF notify_one, Asleep
<1>15. CASE UNCHANGED vars  BY <1>15 DEF vars
<1>16. QED
  BY <1>2, <1>3, <1>4, <1>5, <1>6, <1>7, <1>8, <1>9, <1>10, <1>11, <1>12, <1>13,
     <1>14, <1>15 DEF Next, End, Work, async

\* Every step keeps each task in one place.
LEMMA OnceStep == PoolInv /\ [Next]_vars => EachTaskOnce'
<1>1. SUFFICES ASSUME PoolInv, [Next]_vars PROVE EachTaskOnce'
  OBVIOUS
<1>2. TypeOK /\ EachTaskOnce /\ HandsKnown /\ EndsOneWay
  BY <1>1 DEF PoolInv
<1>3. TypeOK'
  BY <1>1, <1>2, TypeStep
<1> DEFINE Placed == <<tasks_, task, ran, dropped>>
<1>4. ASSUME UNCHANGED Placed, Queued' = Queued, cancel \/ cancel_' = cancel_
      PROVE  EachTaskOnce'
  BY <1>2, <1>4 DEF EachTaskOnce, Waiting, Held, HasRun, cancel
<1>5. ASSUME UNCHANGED <<Placed, cancel_, caller>> PROVE EachTaskOnce'
  BY <1>4, <1>5 DEF Queued
<1>6. CASE init \/ notify_all \/ join
  BY <1>5, <1>6 DEF init, notify_all, join, history, flags
<1>7. CASE terminate
  BY <1>5, <1>7 DEF terminate, history
<1>8. CASE cancel
  BY <1>2, <1>8 DEF cancel, history, EachTaskOnce, Waiting, Held, HasRun, Queued
<1>9. CASE clear
  <2>1. Waiting' = {} /\ IsInjective(tasks_')
    BY <1>9 DEF clear, Waiting, Range, IsInjective
  <2>2. UNCHANGED <<Held, HasRun, Queued, ran, task>> /\ dropped' = dropped \cup Waiting /\ cancel_'
    BY <1>2, <1>9 DEF clear, Held, HasRun, Queued, Waiting, EndsOneWay, flags
  <2>3. QED BY <1>2, <2>1, <2>2 DEF EachTaskOnce
<1>10. ASSUME NEW w \in Workers, Look(w) PROVE EachTaskOnce'
  <2>1. CASE tasks_ = <<>>
    BY <1>5, <1>10, <2>1 DEF Look, flags, history
  <2>2. CASE tasks_ # <<>>
    <3>1. /\ Head(tasks_) \in Tasks
          /\ Waiting = Waiting' \cup {Head(tasks_)}
          /\ IsInjective(tasks_') /\ Head(tasks_) \notin Waiting'
      <4>1. tasks_ \in Seq(Tasks) /\ IsInjective(tasks_) /\ tasks_' = Tail(tasks_)
        BY <1>2, <1>10, <2>2 DEF Look, TypeOK, EachTaskOnce
      <4>2. /\ Head(tasks_) \in Tasks
            /\ Range(tasks_) = Range(Tail(tasks_)) \cup {Head(tasks_)}
            /\ IsInjective(Tail(tasks_)) /\ Head(tasks_) \notin Range(Tail(tasks_))
        BY <2>2, <4>1, RangeOfTail
      <4>3. QED BY <4>1, <4>2 DEF Waiting
    <3>2. task[w] = None /\ task' = [task EXCEPT ![w] = Head(tasks_)]
      BY <1>2, <1>10, <2>2 DEF Look, HandsKnown
    <3>3. Held' = Held \cup {Head(tasks_)}
      <4>1. task \in [Workers -> Tasks \cup {None}]  BY <1>2 DEF TypeOK
      <4>2. /\ DOMAIN task' = Workers /\ DOMAIN task = Workers
            /\ task'[w] = Head(tasks_) /\ Head(tasks_) # None
            /\ \A v \in Workers : v # w => task'[v] = task[v]
        BY <3>1, <3>2, <4>1, PoolAssumption
      <4>3. QED BY <3>2, <4>2 DEF Held, Range
    <3>4. Head(tasks_) \notin Held \cup HasRun \cup dropped /\ Head(tasks_) \in Waiting
      BY <1>2, <3>1 DEF EachTaskOnce
    <3>5. UNCHANGED <<HasRun, Queued, dropped, ran, cancel_>>
      BY <1>10 DEF Look, HasRun, Queued, history, flags
    <3>6. \A v \in Workers : task[v] # Head(tasks_)
      BY <1>2, <3>1, <3>4, PoolAssumption DEF Held, Range, TypeOK
    <3>7. \A u, v \in Workers : task'[u] = task'[v] /\ task'[u] # None => u = v
      BY <1>2, <3>2, <3>6 DEF EachTaskOnce, TypeOK
    <3>8. QED BY <1>2, <3>1, <3>3, <3>4, <3>5, <3>7 DEF EachTaskOnce
  <2>3. QED BY <2>1, <2>2
<1>11. ASSUME NEW w \in Workers, Sleep(w) \/ WakeSpuriously(w) PROVE EachTaskOnce'
  BY <1>5, <1>11 DEF Sleep, WakeSpuriously, history, flags
<1>12. ASSUME NEW w \in Workers, Decide(w) PROVE EachTaskOnce'
  <2>1. CASE cancel_ \/ (stop_ /\ task[w] = None)
    <3>1. task' = [task EXCEPT ![w] = None] /\ dropped' = dropped \cup ({task[w]} \ {None})
      BY <1>12, <2>1 DEF Decide
    <3>2. Held' = Held \ {task[w]}
      BY <1>2, <3>1, HandGives DEF TypeOK, Held, EachTaskOnce
    <3>3. task[w] # None => task[w] \in Held
      BY <1>2 DEF TypeOK, Held, Range
    <3>4. UNCHANGED <<Waiting, HasRun, Queued, tasks_, ran, cancel_>>
      BY <1>12 DEF Decide, Waiting, HasRun, Queued, flags
    <3>5. \A u, v \in Workers : task'[u] = task'[v] /\ task'[u] # None => u = v
      BY <1>2, <3>1 DEF EachTaskOnce, TypeOK
    <3>6. None \notin Held  BY DEF Held
    <3>7. CASE task[w] = None
      <4>1. Held' = Held /\ dropped' = dropped  BY <3>1, <3>2, <3>6, <3>7
      <4>2. QED BY <1>2, <4>1, <3>4, <3>5 DEF EachTaskOnce
    <3>8. CASE task[w] # None
      <4>1. cancel_ /\ dropped' = dropped \cup {task[w]}  BY <2>1, <3>1, <3>8
      <4>2. QED BY <1>2, <3>2, <3>3, <3>4, <3>5, <3>8, <4>1 DEF EachTaskOnce
    <3>9. QED BY <3>7, <3>8
  <2>2. CASE ~(cancel_ \/ (stop_ /\ task[w] = None))
    BY <1>5, <1>12, <2>2 DEF Decide, flags
  <2>3. QED BY <2>1, <2>2
<1>13. ASSUME NEW w \in Workers, Run(w) PROVE EachTaskOnce'
  <2>1. task[w] \in Tasks /\ task[w] # None
    BY <1>2, <1>13 DEF Run, HandsKnown, TypeOK
  <2>2. task[w] \in Held
    BY <1>2, <2>1 DEF TypeOK, Held, Range
  <2>3. HasRun' = HasRun \cup {task[w]} /\ IsInjective(ran')
    BY <1>2, <1>13, <2>1, <2>2, RangeOfAppend DEF Run, TypeOK, HasRun, EachTaskOnce
  <2>4. task' = [task EXCEPT ![w] = None] /\ UNCHANGED <<Waiting, tasks_, Queued, dropped, cancel_>>
    BY <1>13 DEF Run, Waiting, Queued, flags
  <2>5. Held' = Held \ {task[w]}
    BY <1>2, <2>4, HandGives DEF TypeOK, Held, EachTaskOnce
  <2>6. \A u, v \in Workers : task'[u] = task'[v] /\ task'[u] # None => u = v
    BY <1>2, <2>4 DEF EachTaskOnce, TypeOK
  <2>7. QED BY <1>2, <2>2, <2>3, <2>4, <2>5, <2>6 DEF EachTaskOnce
<1>14. ASSUME NEW t \in Tasks, Delegate(t) PROVE EachTaskOnce'
  <2>1. Queued' = Queued
    BY <1>2, <1>14 DEF Delegate, Queued, TypeOK
  <2>2. QED BY <1>4, <1>14, <2>1 DEF Delegate, flags, history
<1>15. ASSUME NEW t \in Tasks, emplace(t) PROVE EachTaskOnce'
  <2>1. Queued' = Queued \cup {t} /\ t \notin Queued
    BY <1>2, <1>15 DEF emplace, Queued, TypeOK
  <2>2. t \notin Waiting \cup Held \cup HasRun \cup dropped
    BY <1>2, <2>1 DEF EachTaskOnce
  <2>3. Waiting' = Waiting \cup {t} /\ IsInjective(tasks_')
    BY <1>2, <1>15, <2>2, RangeOfAppend DEF emplace, TypeOK, Waiting, EachTaskOnce
  <2>4. UNCHANGED <<Held, HasRun, dropped, ran, task, cancel_>>
    BY <1>15 DEF emplace, Held, HasRun, flags
  <2>5. QED BY <1>2, <2>1, <2>2, <2>3, <2>4 DEF EachTaskOnce
<1>16. ASSUME NEW t \in Tasks, notify_one(t) PROVE EachTaskOnce'
  <2>1. Queued' = Queued
    BY <1>2, <1>16 DEF notify_one, Queued, TypeOK
  <2>2. QED BY <1>4, <1>16, <2>1 DEF notify_one, flags, history
<1>17. CASE UNCHANGED vars
  BY <1>5, <1>17 DEF vars, flags, history
<1>18. QED
  BY <1>1, <1>6, <1>7, <1>8, <1>9, <1>10, <1>11, <1>12, <1>13, <1>14, <1>15, <1>16,
     <1>17 DEF Next, End, Work, async

\* Every step keeps what is known of the workers' hands.
LEMMA HandsStep == PoolInv /\ [Next]_vars => HandsKnown'
<1>1. SUFFICES ASSUME PoolInv, [Next]_vars PROVE HandsKnown'
  OBVIOUS
<1>2. TypeOK /\ HandsKnown /\ EndsOneWay
  BY <1>1 DEF PoolInv
<1>3. SUFFICES ASSUME NEW v \in Workers
      PROVE  /\ task'[v] # None => at'[v] \in {"leaves", "runs"}
             /\ at'[v] = "runs" => task'[v] # None
             /\ at'[v] = "returned" \/ (at'[v] = "leaves" /\ task'[v] = None) =>
                   cancel_' \/ (stop_' /\ Waiting' \subseteq late')
  BY DEF HandsKnown
<1>4. /\ task[v] # None => at[v] \in {"leaves", "runs"}
      /\ at[v] = "runs" => task[v] # None
      /\ at[v] = "returned" \/ (at[v] = "leaves" /\ task[v] = None) =>
            cancel_ \/ (stop_ /\ Waiting \subseteq late)
  BY <1>2 DEF HandsKnown
<1> DEFINE Goal == /\ task'[v] # None => at'[v] \in {"leaves", "runs"}
                   /\ at'[v] = "runs" => task'[v] # None
                   /\ at'[v] = "returned" \/ (at'[v] = "leaves" /\ task'[v] = None) =>
                         cancel_' \/ (stop_' /\ Waiting' \subseteq late')
<1>5. CASE init
  <2>1. task[v] = None
    BY <1>2, <1>4, <1>5 DEF init, EndsOneWay
  <2>2. QED BY <1>5, <2>1 DEF init
<1>6. CASE terminate \/ cancel
  BY <1>4, <1>6 DEF terminate, cancel, Waiting, Ending, history
<1>7. CASE clear
  <2>1. cancel_'  BY <1>2, <1>7 DEF clear, EndsOneWay, flags
  <2>2. QED BY <1>4, <1>7, <2>1 DEF clear
<1>8. CASE notify_all \/ join
  BY <1>2, <1>4, <1>8 DEF notify_all, join, Waiting, flags, history, TypeOK
<1>9. ASSUME NEW w \in Workers, Look(w) PROVE Goal
  <2>1. CASE tasks_ = <<>>
    <3>1. Waiting' = {}  BY <1>9, <2>1 DEF Look, Waiting, Range
    <3>2. QED BY <1>2, <1>4, <1>9, <2>1, <3>1 DEF Look, TypeOK, Ending, flags, history
  <2>2. CASE tasks_ # <<>>
    <3>1. tasks_ \in Seq(Tasks) /\ tasks_' = Tail(tasks_)
      BY <1>2, <1>9, <2>2 DEF Look, TypeOK
    <3>2. Head(tasks_) \in Tasks /\ Waiting' \subseteq Waiting
      BY <2>2, <3>1, RangeOfTail DEF Waiting
    <3>3. Head(tasks_) # None  BY <3>2, PoolAssumption
    <3>4. QED BY <1>2, <1>4, <1>9, <2>2, <3>2, <3>3 DEF Look, TypeOK, flags, history
  <2>3. QED BY <2>1, <2>2
<1>10. ASSUME NEW w \in Workers, Sleep(w) \/ WakeSpuriously(w) PROVE Goal
  BY <1>2, <1>4, <1>10 DEF Sleep, WakeSpuriously, Waiting, flags, history, TypeOK
<1>11. ASSUME NEW w \in Workers, Decide(w) PROVE Goal
  <2>1. at[w] = "leaves" /\ task[w] = None => cancel_ \/ (stop_ /\ Waiting \subseteq late)
    BY <1>2 DEF HandsKnown
  <2>2. QED BY <1>2, <1>4, <1>11, <2>1 DEF Decide, Waiting, flags, TypeOK
<1>12. ASSUME NEW w \in Workers, Run(w) PROVE Goal
  BY <1>2, <1>4, <1>12 DEF Run, Waiting, flags, TypeOK
<1>13. ASSUME NEW t \in Tasks, Delegate(t) PROVE Goal
  BY <1>4, <1>13 DEF Delegate, Waiting, flags, history
<1>14. ASSUME NEW t \in Tasks, emplace(t) PROVE Goal
  <2>1. Waiting' = Waiting \cup {t}
    BY <1>2, <1>14, RangeOfAppend DEF emplace, TypeOK, Waiting
  <2>2. QED BY <1>4, <1>14, <2>1 DEF emplace, Ending, flags
<1>15. ASSUME NEW t \in Tasks, notify_one(t) PROVE Goal
  BY <1>2, <1>4, <1>15 DEF notify_one, Asleep, Waiting, flags, history, TypeOK
<1>16. CASE UNCHANGED vars
  BY <1>4, <1>16 DEF vars, Waiting, flags, history
<1>17. QED
  BY <1>1, <1>5, <1>6, <1>7, <1>8, <1>9, <1>10, <1>11, <1>12, <1>13, <1>14, <1>15,
     <1>16 DEF Next, End, Work, async

\* Every step keeps to one way of ending.
LEMMA EndsStep == PoolInv /\ [Next]_vars => EndsOneWay'
<1>1. SUFFICES ASSUME TypeOK, EndsOneWay, [Next]_vars PROVE EndsOneWay'
  BY DEF PoolInv
<1> USE <1>1 DEF EndsOneWay, flags
<1>2. CASE init \/ terminate \/ cancel \/ clear \/ notify_all \/ join
  BY <1>2 DEF init, terminate, cancel, clear, notify_all, join, Ending
<1>3. ASSUME NEW w \in Workers, Work(w) \/ WakeSpuriously(w) PROVE EndsOneWay'
  BY <1>3 DEF Work, Look, Sleep, Decide, Run, WakeSpuriously, TypeOK
<1>4. ASSUME NEW t \in Tasks, Delegate(t) \/ emplace(t) PROVE EndsOneWay'
  BY <1>4 DEF Delegate, emplace
<1>5. ASSUME NEW t \in Tasks, notify_one(t) PROVE EndsOneWay'
  BY <1>5 DEF notify_one, Asleep, TypeOK
<1>6. CASE UNCHANGED vars  BY <1>6 DEF vars
<1>7. QED BY <1>2, <1>3, <1>4, <1>5, <1>6 DEF Next, End, async

\* The pool's invariant is inductive.
THEOREM PoolSafety == Spec => []PoolInv
<1>1. PoolInv /\ [Next]_vars => PoolInv'
  BY TypeStep, OnceStep, HandsStep, EndsStep DEF PoolInv
<1>2. QED BY PoolInvInit, <1>1, PTL DEF Spec

-----------------------------------------------------------------------------
(* The theorems *)

\* For any number of workers, callers and tasks: a task that async() has
\* queued is waiting, held by one worker, run once or destroyed, and only
\* cancel() destroys tasks.
THEOREM TasksKept == Spec => []EachTaskOnce
<1>1. PoolInv => EachTaskOnce  BY DEF PoolInv
<1>2. QED BY PoolSafety, <1>1, PTL

\* When terminate() returns, it has run every task queued before the call.
THEOREM TerminateComplete == Spec => []TerminateRunsQueued
<1>1. ASSUME PoolInv PROVE TerminateRunsQueued
  <2>1. SUFFICES ASSUME owner = "ended", stop_ PROVE Queued \subseteq HasRun \cup late
    BY DEF TerminateRunsQueued
  <2>2. ~cancel_ /\ \A w \in Workers : at[w] = "returned"
    BY <1>1, <2>1 DEF PoolInv, EndsOneWay
  <2>3. PICK w \in Workers : TRUE  BY PoolAssumption
  <2>4. Waiting \subseteq late
    BY <1>1, <2>2, <2>3 DEF PoolInv, HandsKnown
  <2>5. Held = {}
    BY <1>1, <2>2 DEF PoolInv, HandsKnown, TypeOK, Held, Range
  <2>6. dropped = {} /\ Queued = Waiting \cup Held \cup HasRun \cup dropped
    BY <1>1, <2>2 DEF PoolInv, EachTaskOnce
  <2>7. QED BY <2>4, <2>5, <2>6
<1>2. QED BY PoolSafety, <1>1, PTL

\* Tasks are left to sleeping workers only by a worker that goes to sleep:
\* no other step of the workers, the callers or the owner can do it.
THEOREM GapIsTheOnlyWay == Spec => StrandedOnlyInTheGap
<1>1. ASSUME PoolInv, [Next]_vars, ~Stranded, Stranded'
      PROVE  \E w \in Workers : Sleep(w)
  <2>1. TypeOK /\ EndsOneWay  BY <1>1 DEF PoolInv
  <2>2. /\ \A w \in Workers : at'[w] = "asleep"
        /\ \A t \in Tasks : caller'[t] # "queued"
        /\ tasks_' # <<>> /\ ~stop_' /\ ~cancel_' /\ inited_'
    BY <1>1 DEF Stranded, Ending
  <2>3. PICK v \in Workers : TRUE  BY PoolAssumption
  <2>4. ASSUME UNCHANGED <<tasks_, at, flags>>,
               \A t \in Tasks : caller[t] = "queued" => caller'[t] = "queued"
        PROVE  FALSE
    BY <1>1, <2>2, <2>4 DEF Stranded, Ending, flags
  <2>5. ~(init \/ notify_all)
    BY <2>2, <2>3 DEF init, notify_all
  <2>6. ~(terminate \/ cancel)
    BY <2>2 DEF terminate, cancel
  <2>7. ~clear
    BY <2>1, <2>2 DEF clear, EndsOneWay, flags
  <2>8. ~join /\ ~UNCHANGED vars
    BY <2>4 DEF join, vars
  <2>9. ASSUME NEW w \in Workers, Look(w) \/ Decide(w) \/ Run(w) \/ WakeSpuriously(w)
        PROVE  FALSE
    BY <2>1, <2>2, <2>9 DEF Look, Decide, Run, WakeSpuriously, TypeOK
  <2>10. ASSUME NEW t \in Tasks, Delegate(t) PROVE FALSE
    BY <2>1, <2>4, <2>10 DEF Delegate, TypeOK
  <2>11. ASSUME NEW t \in Tasks, emplace(t) PROVE FALSE
    BY <2>1, <2>2, <2>11 DEF emplace, TypeOK
  <2>12. ASSUME NEW t \in Tasks, notify_one(t) PROVE FALSE
    BY <2>1, <2>2, <2>3, <2>12 DEF notify_one, Asleep, TypeOK
  <2>13. QED
    BY <1>1, <2>5, <2>6, <2>7, <2>8, <2>9, <2>10, <2>11, <2>12 DEF Next, End, Work, async
<1>2. PoolInv /\ [Next]_vars =>
        [~Stranded /\ Stranded' => \E w \in Workers : Sleep(w)]_vars
  BY <1>1
<1>3. QED BY PoolSafety, <1>2, PTL DEF Spec, StrandedOnlyInTheGap
=============================================================================
