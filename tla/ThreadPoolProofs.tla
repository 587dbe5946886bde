-------------------------- MODULE ThreadPoolProofs --------------------------
(***************************************************************************)
(* Theorems about ThreadPool, for every number of tasks and threads.       *)
(* The invariants are proved in three layers, each using the ones before:  *)
(* TypeInv (types, sizes), FifoInv (where each task is), CountInv (the     *)
(* counter).  The balance of threads and poison values rests on the first. *)
(***************************************************************************)
EXTENDS ThreadPool, SequenceLemmas
-----------------------------------------------------------------------------
(* The queue and the counts of threads stay in bounds: a poison value is only
   written by setThreadCount() for a thread that was spawned before. *)
SizeInv ==
    /\ nbActiveThreads <= spawned
    /\ ~Destroying => Len(tasks) + nbActiveThreads <= submitted + spawned
    /\ opc = "resize" => arg + spawned <= nbActiveThreads + MaxThreads

(* A worker holds a task exactly while it runs it and counts it off, and the
   workers not born yet are those beyond m_threads. *)
HoldInv ==
    \A w \in Worker :
        /\ wtask[w] # Null <=> wpc[w] \in {"run", "dec"}
        /\ wpc[w] = "unborn" <=> w > spawned

TypeInv == TypeOK /\ SizeInv /\ HoldInv

(* The arithmetic on the counter stays inside size_t. *)
LEMMA SizeArithmetic ==
    ASSUME NEW x \in 0..SizeMax, NEW k \in 0..SizeMax
    PROVE  /\ Inc(x) \in 0..SizeMax
           /\ Dec(x) \in 0..SizeMax
           /\ Sub(x, k) \in 0..SizeMax
BY PoolAssumption DEF PoolAssumption, Inc, Dec, Sub

(* Types and bounds hold in every reachable state, whatever the constants: in
   particular ~ThreadPool() subtracts a size that a size_t can hold. *)
LEMMA TypeInvInit == Init => TypeInv
BY PoolAssumption DEF PoolAssumption, Init, TypeInv, TypeOK, SizeInv, HoldInv,
   OwnerPc, WorkerPc, Destroying, Null, Task, Worker

LEMMA TypeInvStep == TypeInv /\ [Next]_vars => TypeInv'
<1> SUFFICES ASSUME TypeInv, [Next]_vars PROVE TypeInv'
    OBVIOUS
<1> USE PoolAssumption DEF PoolAssumption, TypeInv, TypeOK, SizeInv, HoldInv,
        OwnerPc, WorkerPc, Destroying, Null, Task, Worker,
        queueVars, ownerVars, workerVars, historyVars
<1>1. CASE Run
    BY <1>1 DEF Run
<1>2. CASE RunCount
    BY <1>2, SizeArithmetic DEF RunCount
<1>3. CASE \E n \in ThreadCounts : SetThreadCount(n)
    BY <1>3 DEF SetThreadCount
<1>4. CASE Shrink
    BY <1>4 DEF Shrink
<1>5. CASE Grow
    BY <1>5 DEF Grow
<1>6. CASE ResizeDone \/ WaitForDone \/ Recheck \/ SpuriousWakeup
    BY <1>6 DEF ResizeDone, WaitForDone, Recheck, SpuriousWakeup
<1>7. CASE Destroy
    <2>1. Len(tasks) \in 0..SizeMax
        BY <1>7 DEF Destroy
    <2> QED
        BY <1>7, <2>1, SizeArithmetic DEF Destroy
<1>8. CASE Clear
    BY <1>8 DEF Clear, Queued
<1>9. CASE WritePill \/ PillsDone
    <2>1. CASE WritePill
        BY <2>1 DEF WritePill
    <2>2. CASE PillsDone
        BY <2>2 DEF PillsDone
    <2> QED
        BY <1>9, <2>1, <2>2
<1>10. CASE Join \/ JoinDone
    <2>1. CASE Join
        BY <2>1 DEF Join
    <2>2. CASE JoinDone
        BY <2>2 DEF JoinDone
    <2> QED
        BY <1>10, <2>1, <2>2
<1>11. ASSUME NEW w \in Worker, NextTask(w) PROVE TypeInv'
    BY <1>11 DEF NextTask
<1>12. ASSUME NEW w \in Worker, RunTask(w) PROVE TypeInv'
    BY <1>12 DEF RunTask
<1>13. ASSUME NEW w \in Worker, CountOff(w) PROVE TypeInv'
    <2>1. Dec(nbActiveTasks) \in 0..SizeMax
        BY SizeArithmetic
    <2>2. wtask[w] \in Task
        BY <1>13 DEF CountOff
    <2> QED
        BY <1>13, <2>1, <2>2 DEF CountOff
<1>14. ASSUME NEW w \in Worker, Notify(w) PROVE TypeInv'
    BY <1>14 DEF Notify
<1>15. CASE UNCHANGED vars
    BY <1>15 DEF vars
<1> QED
    BY <1>1, <1>2, <1>3, <1>4, <1>5, <1>6, <1>7, <1>8, <1>9, <1>10, <1>11, <1>12,
       <1>13, <1>14, <1>15 DEF Next, OwnerCall, OwnerStep, WorkerStep, Terminated

(* TypeOK, with the bounds it rests on, for every value of the constants. *)
THEOREM TypeCorrect == Spec => []TypeInv
BY TypeInvInit, TypeInvStep, PTL DEF Spec

(* The state of the pool keeps its types. *)
THEOREM TypesHold == Spec => []TypeOK
<1>1. TypeInv => TypeOK
    BY DEF TypeInv
<1> QED
    BY <1>1, TypeCorrect, PTL
-----------------------------------------------------------------------------
(* The queue holds the tasks in the order they were submitted, and every task
   ever taken is older than every task still queued. *)
OrderInv ==
    \A i \in DOMAIN tasks : tasks[i] # Null =>
        /\ tasks[i] <= submitted
        /\ \A j \in DOMAIN tasks : j < i => tasks[j] < tasks[i]
        /\ \A w \in Worker : wtask[w] < tasks[i]
        /\ \A t \in finished : t < tasks[i]

(* A task is held once, and by nobody once it is finished. *)
TakenInv ==
    /\ \A w \in Worker : wtask[w] <= submitted /\ wtask[w] \notin finished
    /\ \A v, w \in Worker : wtask[v] = wtask[w] /\ wtask[v] # Null => v = w
    /\ \A t \in finished : t <= submitted

(* No task is lost, and only the destructor discards: what it discards is
   younger than everything taken, and it leaves no task in the queue. *)
PlaceInv ==
    /\ \A t \in 1..submitted :
          \/ t \in finished \/ t \in discarded
          \/ \E w \in Worker : wtask[w] = t
          \/ \E i \in DOMAIN tasks : tasks[i] = t
    /\ \A d \in discarded :
          /\ \A w \in Worker : wtask[w] < d
          /\ \A t \in finished : t < d
    /\ opc \notin {"pill", "join", "destroyed"} => discarded = {}
    /\ opc \in {"pill", "join", "destroyed"} => \A i \in DOMAIN tasks : tasks[i] = Null

FifoInv == OrderInv /\ TakenInv /\ PlaceInv

LEMMA FifoInvInit == Init => FifoInv
BY DEF Init, FifoInv, OrderInv, TakenInv, PlaceInv, Null, Task, Worker

(* The steps that leave alone what FifoInv speaks of. *)
LEMMA FifoInvElsewhere ==
    ASSUME TypeInv, FifoInv,
           UNCHANGED <<tasks, wtask, submitted, finished, discarded>>,
           opc' \in {"pill", "join", "destroyed"} <=> opc \in {"pill", "join", "destroyed"}
    PROVE  FifoInv'
BY DEF FifoInv, OrderInv, TakenInv, PlaceInv

(* What Append and Tail do to a queue, element by element. *)
LEMMA AppendFacts ==
    ASSUME NEW S, NEW s \in Seq(S), NEW e \in S
    PROVE  /\ DOMAIN s = 1..Len(s) /\ Len(s) \in Nat
           /\ DOMAIN Append(s, e) = 1..(Len(s) + 1)
           /\ \A i \in DOMAIN s : Append(s, e)[i] = s[i]
           /\ Append(s, e)[Len(s) + 1] = e
OBVIOUS

LEMMA TailFacts ==
    ASSUME NEW S, NEW s \in Seq(S), s # <<>>
    PROVE  /\ DOMAIN s = 1..Len(s) /\ Len(s) \in Nat \ {0}
           /\ DOMAIN Tail(s) = 1..(Len(s) - 1)
           /\ \A i \in DOMAIN Tail(s) : Tail(s)[i] = s[i + 1]
           /\ Head(s) = s[1]
OBVIOUS

LEMMA FifoInvRun == TypeInv /\ FifoInv /\ Run => FifoInv'
<1> SUFFICES ASSUME TypeInv, FifoInv, Run PROVE FifoInv'
    OBVIOUS
<1>1. /\ tasks \in Seq(0..MaxTasks) /\ tasks' = Append(tasks, submitted + 1)
      /\ submitted + 1 \in 0..MaxTasks /\ submitted \in Nat
    BY PoolAssumption DEF PoolAssumption, TypeInv, TypeOK, Run, Null, Task
<1>2. /\ DOMAIN tasks = 1..Len(tasks) /\ Len(tasks) \in Nat
      /\ DOMAIN tasks' = 1..(Len(tasks) + 1)
      /\ \A i \in DOMAIN tasks : tasks'[i] = tasks[i]
      /\ tasks'[Len(tasks) + 1] = submitted + 1
    BY <1>1, AppendFacts
<1>3. /\ submitted' = submitted + 1
      /\ opc = "idle" /\ opc' = "count"
      /\ wtask' = wtask /\ finished' = finished /\ discarded' = discarded
    BY DEF Run, workerVars
<1>4. /\ \A w \in Worker : wtask[w] \in Nat
      /\ \A t \in finished : t \in Nat
      /\ \A i \in DOMAIN tasks : tasks[i] \in Nat
    BY <1>1, <1>2, PoolAssumption DEF PoolAssumption, TypeInv, TypeOK, Null, Task
<1>5. OrderInv'
    <2> SUFFICES ASSUME NEW i \in 1..(Len(tasks) + 1), tasks'[i] # Null
                 PROVE  /\ tasks'[i] <= submitted + 1
                        /\ \A j \in 1..(Len(tasks) + 1) : j < i => tasks'[j] < tasks'[i]
                        /\ \A w \in Worker : wtask[w] < tasks'[i]
                        /\ \A t \in finished : t < tasks'[i]
        BY <1>2, <1>3 DEF OrderInv
    <2>1. CASE i = Len(tasks) + 1
        <3>1. \A j \in DOMAIN tasks : tasks[j] < submitted + 1
            BY <1>1, <1>2, <1>4 DEF FifoInv, OrderInv, Null
        <3> QED
            BY <2>1, <3>1, <1>1, <1>2, <1>4 DEF FifoInv, TakenInv
    <2>2. CASE i \in DOMAIN tasks
        <3>1. /\ tasks[i] <= submitted
              /\ \A j \in DOMAIN tasks : j < i => tasks[j] < tasks[i]
              /\ \A w \in Worker : wtask[w] < tasks[i]
              /\ \A t \in finished : t < tasks[i]
            BY <2>2, <1>2 DEF FifoInv, OrderInv
        <3>2. \A j \in 1..(Len(tasks) + 1) : j < i => j \in DOMAIN tasks
            BY <2>2, <1>2
        <3> QED
            BY <2>2, <3>1, <3>2, <1>1, <1>2, <1>4
    <2> QED
        BY <2>1, <2>2, <1>2
<1>6. TakenInv'
    <2>1. /\ \A w \in Worker : wtask[w] <= submitted + 1
          /\ \A t \in finished : t <= submitted + 1
        BY <1>1, <1>4 DEF FifoInv, TakenInv
    <2> QED
        BY <2>1, <1>3 DEF FifoInv, TakenInv
<1>7. PlaceInv'
    BY <1>1, <1>2, <1>3 DEF FifoInv, PlaceInv
<1> QED
    BY <1>5, <1>6, <1>7 DEF FifoInv

LEMMA FifoInvPill == TypeInv /\ FifoInv /\ (Shrink \/ WritePill) => FifoInv'
<1> SUFFICES ASSUME TypeInv, FifoInv, Shrink \/ WritePill PROVE FifoInv'
    OBVIOUS
<1>1. /\ tasks \in Seq(Task \cup {Null}) /\ tasks' = Append(tasks, Null)
      /\ UNCHANGED <<wtask, submitted, finished, discarded, opc>>
    BY DEF TypeInv, TypeOK, Shrink, WritePill, workerVars, historyVars
<1>2. /\ DOMAIN tasks = 1..Len(tasks) /\ Len(tasks) \in Nat
      /\ DOMAIN tasks' = 1..(Len(tasks) + 1)
      /\ \A i \in DOMAIN tasks : tasks'[i] = tasks[i]
      /\ tasks'[Len(tasks) + 1] = Null
    BY <1>1, AppendFacts
<1>3. OrderInv'
    BY <1>1, <1>2 DEF FifoInv, OrderInv
<1>4. TakenInv'
    BY <1>1 DEF FifoInv, TakenInv
<1>5. PlaceInv'
    BY <1>1, <1>2 DEF FifoInv, PlaceInv
<1> QED
    BY <1>3, <1>4, <1>5 DEF FifoInv

LEMMA FifoInvNext ==
    ASSUME TypeInv, FifoInv, NEW w \in Worker, NextTask(w)
    PROVE  FifoInv'
<1>1. /\ tasks \in Seq(Task \cup {Null}) /\ tasks # <<>> /\ tasks' = Tail(tasks)
      /\ wtask' = [wtask EXCEPT ![w] = Head(tasks)]
      /\ wtask \in [Worker -> Task \cup {Null}] /\ wtask[w] = Null
      /\ UNCHANGED <<submitted, finished, discarded, opc>>
    BY DEF TypeInv, TypeOK, HoldInv, NextTask, ownerVars, historyVars
<1>2. /\ DOMAIN tasks = 1..Len(tasks) /\ Len(tasks) \in Nat \ {0}
      /\ DOMAIN tasks' = 1..(Len(tasks) - 1)
      /\ \A i \in DOMAIN tasks' : tasks'[i] = tasks[i + 1]
      /\ Head(tasks) = tasks[1]
      /\ 1 \in DOMAIN tasks
      /\ \A i \in DOMAIN tasks' : i + 1 \in DOMAIN tasks /\ 1 < i + 1
    BY <1>1, TailFacts
<1>3. /\ wtask'[w] = tasks[1]
      /\ \A v \in Worker : v # w => wtask'[v] = wtask[v]
      /\ submitted \in Nat /\ tasks[1] \in Nat
    BY <1>1, <1>2, PoolAssumption DEF PoolAssumption, TypeInv, TypeOK, Task, Null
<1>4. OrderInv'
    <2> SUFFICES ASSUME NEW i \in DOMAIN tasks', tasks'[i] # Null
                 PROVE  /\ tasks'[i] <= submitted
                        /\ \A j \in DOMAIN tasks' : j < i => tasks'[j] < tasks'[i]
                        /\ \A v \in Worker : wtask'[v] < tasks'[i]
                        /\ \A t \in finished : t < tasks'[i]
        BY <1>1 DEF OrderInv
    <2>1. i + 1 \in DOMAIN tasks /\ tasks'[i] = tasks[i + 1] /\ 1 < i + 1 /\ i \in Nat
        BY <1>2
    <2>2. /\ tasks[i + 1] <= submitted
          /\ \A j \in DOMAIN tasks : j < i + 1 => tasks[j] < tasks[i + 1]
          /\ \A v \in Worker : wtask[v] < tasks[i + 1]
          /\ \A t \in finished : t < tasks[i + 1]
        BY <2>1 DEF FifoInv, OrderInv
    <2>3. \A j \in DOMAIN tasks' : j < i => tasks'[j] < tasks'[i]
        BY <2>1, <2>2, <1>2
    <2> QED
        BY <2>1, <2>2, <2>3, <1>2, <1>3
<1>5. TakenInv'
    <2>1. tasks[1] <= submitted /\ tasks[1] \notin finished
          /\ (tasks[1] # Null => \A v \in Worker : wtask[v] # tasks[1])
        <3>1. CASE tasks[1] = Null
            BY <3>1, <1>1, <1>3 DEF FifoInv, TakenInv, Null
        <3>2. CASE tasks[1] # Null
            BY <3>2, <1>2, <1>3 DEF FifoInv, OrderInv
        <3> QED
            BY <3>1, <3>2
    <2> QED
        BY <2>1, <1>1, <1>3 DEF FifoInv, TakenInv
<1>6. PlaceInv'
    <2>1. \A t \in 1..submitted' :
              \/ t \in finished' \/ t \in discarded'
              \/ \E v \in Worker : wtask'[v] = t
              \/ \E i \in DOMAIN tasks' : tasks'[i] = t
        <3> SUFFICES ASSUME NEW t \in 1..submitted, t \notin finished, t \notin discarded,
                            \A v \in Worker : wtask'[v] # t
                     PROVE  \E i \in DOMAIN tasks' : tasks'[i] = t
            BY <1>1
        <3>1. t # Null
            BY <1>3 DEF Null
        <3>2. \A v \in Worker : wtask[v] # t
            BY <1>1, <1>3, <3>1
        <3>3. PICK i \in DOMAIN tasks : tasks[i] = t
            BY <3>2 DEF FifoInv, PlaceInv
        <3>4. i - 1 \in DOMAIN tasks'
            BY <3>3, <1>2, <1>3
        <3> QED
            BY <3>3, <3>4, <1>2
    <2>2. \A d \in discarded' : /\ \A v \in Worker : wtask'[v] < d
                               /\ \A t \in finished' : t < d
        <3> SUFFICES ASSUME NEW d \in discarded, NEW v \in Worker
                     PROVE  wtask'[v] < d
            BY <1>1 DEF FifoInv, PlaceInv
        <3>1. wtask'[v] = Null \/ wtask'[v] = wtask[v]
            BY <1>2, <1>3 DEF FifoInv, PlaceInv, TypeInv, TypeOK, OwnerPc
        <3> QED
            BY <3>1, <1>1 DEF FifoInv, PlaceInv
    <2>3. opc' \in {"pill", "join", "destroyed"} => \A i \in DOMAIN tasks' : tasks'[i] = Null
        BY <1>1, <1>2 DEF FifoInv, PlaceInv
    <2> QED
        BY <2>1, <2>2, <2>3, <1>1 DEF FifoInv, PlaceInv
<1> QED
    BY <1>4, <1>5, <1>6 DEF FifoInv

LEMMA FifoInvStep == TypeInv /\ FifoInv /\ [Next]_vars => FifoInv'
<1> SUFFICES ASSUME TypeInv, FifoInv, [Next]_vars PROVE FifoInv'
    OBVIOUS
<1> USE PoolAssumption DEF PoolAssumption, TypeInv, TypeOK, HoldInv,
        OwnerPc, WorkerPc, Null, Task, Worker,
        queueVars, ownerVars, workerVars, historyVars
<1>1. CASE Run
    BY <1>1, FifoInvRun
<1>2. CASE Shrink \/ WritePill
    BY <1>2, FifoInvPill
<1>3. CASE Clear
    BY <1>3, SMTT(30) DEF Clear, Queued, FifoInv, OrderInv, TakenInv, PlaceInv
<1>4. ASSUME NEW w \in Worker, NextTask(w) PROVE FifoInv'
    BY <1>4, FifoInvNext
<1>5. ASSUME NEW w \in Worker, CountOff(w) PROVE FifoInv'
    <2>1. /\ wtask[w] \in Task
          /\ finished' = finished \cup {wtask[w]}
          /\ wtask' = [wtask EXCEPT ![w] = Null]
          /\ UNCHANGED <<tasks, submitted, discarded, opc>>
        BY <1>5 DEF CountOff
    <2>2. OrderInv'
        BY <2>1 DEF FifoInv, OrderInv
    <2>3. TakenInv'
        BY <2>1 DEF FifoInv, TakenInv
    <2>4. PlaceInv'
        BY <2>1 DEF FifoInv, PlaceInv
    <2> QED
        BY <2>2, <2>3, <2>4 DEF FifoInv
<1>6. CASE RunCount \/ Recheck \/ Grow \/ ResizeDone \/ WaitForDone \/ SpuriousWakeup
    BY <1>6, FifoInvElsewhere
       DEF RunCount, Recheck, Grow, ResizeDone, WaitForDone, SpuriousWakeup
<1>7. CASE \E n \in ThreadCounts : SetThreadCount(n)
    BY <1>7, FifoInvElsewhere DEF SetThreadCount
<1>8. CASE Destroy \/ PillsDone \/ Join \/ JoinDone
    BY <1>8, FifoInvElsewhere DEF Destroy, PillsDone, Join, JoinDone
<1>9. ASSUME NEW w \in Worker, RunTask(w) \/ Notify(w) PROVE FifoInv'
    BY <1>9, FifoInvElsewhere DEF RunTask, Notify
<1>10. CASE UNCHANGED vars
    BY <1>10, FifoInvElsewhere DEF vars
<1> QED
    BY <1>1, <1>2, <1>3, <1>4, <1>5, <1>6, <1>7, <1>8, <1>9, <1>10
       DEF Next, OwnerCall, OwnerStep, WorkerStep, Terminated

(* Tasks are taken in the order they were queued in. *)
THEOREM FifoCorrect == Spec => []FifoInv
BY TypeCorrect, FifoInvInit, FifoInvStep, PTL DEF Spec

(* SerialWhenSingle: a pool that never had a second thread runs its tasks one
   after the other, in the order of their submission, as the documentation of
   Indexer::asyncIndex promises (indexer/src/indexer.cpp:547). *)
THEOREM SingleThreadIsSerial == Spec => []SerialWhenSingle
<1>1. TypeInv /\ FifoInv => SerialWhenSingle
    <2> SUFFICES ASSUME TypeInv, FifoInv, spawned <= 1,
                        NEW t \in Held, NEW e \in 1..(t - 1)
                 PROVE  e \in finished
        BY DEF SerialWhenSingle
    <2> USE PoolAssumption DEF PoolAssumption, TypeInv, TypeOK, HoldInv, Null, Task, Worker,
                WorkerPc
    <2>1. PICK w \in Worker : wtask[w] = t
        BY DEF Held
    <2>2. t \in Task /\ t <= submitted
        BY <2>1 DEF Held, FifoInv, TakenInv
    <2>3. \A v \in Worker : wtask[v] # Null => v = w
        BY <2>1, <2>2
    <2>4. e \notin discarded
        BY <2>1, <2>2 DEF FifoInv, PlaceInv
    <2>5. \A i \in DOMAIN tasks : tasks[i] # e
        BY <2>1, <2>2 DEF FifoInv, OrderInv
    <2>6. \A v \in Worker : wtask[v] # e
        BY <2>1, <2>2, <2>3
    <2> QED
        BY <2>2, <2>4, <2>5, <2>6 DEF FifoInv, PlaceInv
<1> QED
    BY <1>1, TypeCorrect, FifoCorrect, PTL
-----------------------------------------------------------------------------
(* The counter and the tasks counted off add up to the tasks submitted. *)
CountInv ==
    ~Destroying =>
        nbActiveTasks + (IF opc = "count" THEN 1 ELSE 0) + Cardinality(finished)
            = submitted

LEMMA FinishedFacts ==
    ASSUME TypeInv, FifoInv
    PROVE  /\ finished \subseteq 1..submitted
           /\ IsFiniteSet(1..submitted) /\ Cardinality(1..submitted) = submitted
           /\ IsFiniteSet(finished) /\ Cardinality(finished) \in Nat
           /\ Cardinality(finished) <= submitted
<1>1. submitted \in Nat
    BY PoolAssumption DEF PoolAssumption, TypeInv, TypeOK
<1>2. finished \subseteq 1..submitted
    BY PoolAssumption, <1>1 DEF PoolAssumption, FifoInv, TakenInv, TypeInv, TypeOK, Task
<1>3. IsFiniteSet(1..submitted) /\ Cardinality(1..submitted) = submitted
    BY <1>1, FS_Interval
<1> QED
    BY <1>1, <1>2, <1>3, FS_Subset, FS_CardinalityType

LEMMA CountInvInit == Init => CountInv
BY FS_EmptySet DEF Init, CountInv

LEMMA CountInvElsewhere ==
    ASSUME CountInv,
           UNCHANGED <<nbActiveTasks, submitted, finished>>,
           ~Destroying' => ~Destroying,
           opc' = "count" <=> opc = "count"
    PROVE  CountInv'
BY DEF CountInv

LEMMA CountInvStep == TypeInv /\ FifoInv /\ CountInv /\ [Next]_vars => CountInv'
<1> SUFFICES ASSUME TypeInv, FifoInv, CountInv, [Next]_vars PROVE CountInv'
    OBVIOUS
<1>a. /\ nbActiveTasks \in Nat /\ submitted \in Nat /\ submitted <= MaxTasks
      /\ MaxTasks < SizeMax /\ MaxTasks \in Nat /\ SizeMax \in Nat
    BY PoolAssumption DEF PoolAssumption, TypeInv, TypeOK
<1>b. Cardinality(finished) \in Nat
    BY FinishedFacts
<1> USE DEF Destroying, queueVars, ownerVars, workerVars, historyVars
<1>1. CASE Run
    BY <1>1, <1>a, <1>b DEF Run, CountInv
<1>2. CASE RunCount
    <2>1. nbActiveTasks + 1 + Cardinality(finished) = submitted
        BY <1>2 DEF RunCount, CountInv
    <2>2. nbActiveTasks < SizeMax
        BY <2>1, <1>a, <1>b
    <2> QED
        BY <1>2, <1>a, <1>b, <2>1, <2>2 DEF RunCount, CountInv, Inc
<1>3. ASSUME NEW w \in Worker, CountOff(w) PROVE CountInv'
    <2>1. /\ wtask[w] \in 1..submitted /\ wtask[w] \notin finished
          /\ opc # "count" /\ opc' = opc
        BY <1>3, PoolAssumption
           DEF PoolAssumption, CountOff, MutexFree, TypeInv, TypeOK, HoldInv, FifoInv,
               TakenInv, Null, Task
    <2>2. /\ finished' = finished \cup {wtask[w]} /\ submitted' = submitted
          /\ nbActiveTasks' = Dec(nbActiveTasks)
        BY <1>3 DEF CountOff
    <2>3. Cardinality(finished') = Cardinality(finished) + 1
        BY <2>1, <2>2, FinishedFacts, FS_AddElement
    <2>4. Cardinality(finished') <= submitted
        <3>1. finished' \subseteq 1..submitted
            BY <2>1, <2>2, FinishedFacts
        <3> QED
            BY <3>1, FinishedFacts, FS_Subset
    <2>5. ~Destroying => nbActiveTasks # 0
        BY <2>1, <2>3, <2>4, <1>a, <1>b DEF CountInv
    <2> QED
        BY <2>1, <2>2, <2>3, <2>5, <1>a, <1>b DEF CountInv, Dec
<1>4. CASE Destroy
    BY <1>4 DEF Destroy, CountInv
<1>5. CASE Recheck \/ Shrink \/ Grow \/ ResizeDone \/ WaitForDone \/ SpuriousWakeup
    BY <1>5, CountInvElsewhere
       DEF Recheck, Shrink, Grow, ResizeDone, WaitForDone, SpuriousWakeup
<1>6. CASE Clear \/ WritePill \/ PillsDone \/ Join \/ JoinDone
    BY <1>6, CountInvElsewhere DEF Clear, WritePill, PillsDone, Join, JoinDone
<1>7. CASE \E n \in ThreadCounts : SetThreadCount(n)
    BY <1>7, CountInvElsewhere DEF SetThreadCount
<1>8. ASSUME NEW w \in Worker, NextTask(w) \/ RunTask(w) \/ Notify(w) PROVE CountInv'
    BY <1>8, CountInvElsewhere DEF NextTask, RunTask, Notify
<1>9. CASE UNCHANGED vars
    BY <1>9, CountInvElsewhere DEF vars
<1> QED
    BY <1>1, <1>2, <1>3, <1>4, <1>5, <1>6, <1>7, <1>8, <1>9
       DEF Next, OwnerCall, OwnerStep, WorkerStep, Terminated

(* The counter is what is queued and held. *)
THEOREM CountCorrect == Spec => []CountInv
BY TypeCorrect, FifoCorrect, CountInvInit, CountInvStep, PTL DEF Spec

(* CounterExact: before destruction nb_active_tasks is the number of tasks queued
   or held, one less while run() holds the mutex and has not counted its task. *)
THEOREM CounterIsExact == Spec => []CounterExact
<1>1. TypeInv /\ FifoInv /\ CountInv => CounterExact
    <2> SUFFICES ASSUME TypeInv, FifoInv, CountInv, ~Destroying
                 PROVE  nbActiveTasks + (IF opc = "count" THEN 1 ELSE 0)
                            = Cardinality(Queued \cup Held)
        BY DEF CounterExact
    <2>1. submitted \in Nat /\ nbActiveTasks \in Nat
        BY PoolAssumption DEF PoolAssumption, TypeInv, TypeOK
    <2>2. Queued \cup Held \subseteq (1..submitted) \ finished
        <3>1. ASSUME NEW i \in DOMAIN tasks, tasks[i] # Null
              PROVE  tasks[i] \in (1..submitted) \ finished
            <4>1. tasks[i] \in Task
                BY <3>1 DEF TypeInv, TypeOK
            <4>2. tasks[i] <= submitted /\ \A t \in finished : t < tasks[i]
                BY <3>1 DEF FifoInv, OrderInv
            <4> QED
                BY <4>1, <4>2, <2>1, PoolAssumption DEF PoolAssumption, Task
        <3>2. ASSUME NEW w \in Worker, wtask[w] # Null
              PROVE  wtask[w] \in (1..submitted) \ finished
            <4>1. wtask[w] \in Task
                BY <3>2 DEF TypeInv, TypeOK
            <4> QED
                BY <4>1, <2>1, PoolAssumption DEF PoolAssumption, Task, FifoInv, TakenInv
        <3> QED
            BY <3>1, <3>2 DEF Queued, Held
    <2>3. (1..submitted) \ finished \subseteq Queued \cup Held
        <3> SUFFICES ASSUME NEW t \in 1..submitted, t \notin finished
                     PROVE  t \in Queued \cup Held
            OBVIOUS
        <3>1. discarded = {}
            BY DEF Destroying, FifoInv, PlaceInv
        <3>2. (\E w \in Worker : wtask[w] = t) \/ (\E i \in DOMAIN tasks : tasks[i] = t)
            BY <3>1 DEF FifoInv, PlaceInv
        <3>3. t # Null
            BY <2>1 DEF Null
        <3> QED
            BY <3>2, <3>3 DEF Queued, Held
    <2>4. Cardinality((1..submitted) \ finished) = submitted - Cardinality(finished)
        <3>1. (1..submitted) \cap finished = finished
            BY FinishedFacts
        <3>2. Cardinality((1..submitted) \ finished)
                  = Cardinality(1..submitted) - Cardinality((1..submitted) \cap finished)
            BY FinishedFacts, FS_Difference
        <3> QED
            BY <3>1, <3>2, FinishedFacts
    <2>5. Queued \cup Held = (1..submitted) \ finished
        BY <2>2, <2>3
    <2>6. nbActiveTasks + (IF opc = "count" THEN 1 ELSE 0) + Cardinality(finished) = submitted
        BY DEF CountInv
    <2>7. Cardinality(finished) \in Nat /\ Cardinality(finished) <= submitted
        BY FinishedFacts
    <2>8. nbActiveTasks + (IF opc = "count" THEN 1 ELSE 0)
              = submitted - Cardinality(finished)
        <3> DEFINE c == IF opc = "count" THEN 1 ELSE 0
        <3>1. c \in Nat
            OBVIOUS
        <3>2. nbActiveTasks + c + Cardinality(finished) = submitted
            BY <2>6
        <3> HIDE DEF c
        <3>3. nbActiveTasks + c = submitted - Cardinality(finished)
            BY <2>1, <2>7, <3>1, <3>2
        <3> QED
            BY <3>3 DEF c
    <2> QED
        BY <2>4, <2>5, <2>8
<1> QED
    BY <1>1, TypeCorrect, FifoCorrect, CountCorrect, PTL

(* What done() promises its caller: at zero, every task submitted has been run. *)
THEOREM DoneMeansRun == Spec => []DoneIsFinal
<1>1. TypeInv /\ FifoInv /\ CountInv => DoneIsFinal
    <2> SUFFICES ASSUME TypeInv, FifoInv, CountInv, opc = "idle", nbActiveTasks = 0
                 PROVE  finished = 1..submitted
        BY DEF DoneIsFinal
    <2>1. Cardinality(finished) = submitted
        BY FinishedFacts DEF CountInv, Destroying
    <2> QED
        BY <2>1, FinishedFacts, FS_Subset
<1> QED
    BY <1>1, TypeCorrect, FifoCorrect, CountCorrect, PTL
-----------------------------------------------------------------------------
LEMMA LiveFinite == IsFiniteSet(Live) /\ Cardinality(Live) \in Nat
<1>1. Live \subseteq 1..MaxThreads /\ IsFiniteSet(1..MaxThreads)
    BY PoolAssumption, FS_Interval DEF PoolAssumption, Live, Worker
<1> QED
    BY <1>1, FS_Subset, FS_CardinalityType

LEMMA BalanceInit == Init => PillBalance
<1> SUFFICES ASSUME Init PROVE PillBalance
    OBVIOUS
<1>1. Live = {} /\ Pills = {}
    BY DEF Init, Live, Pills
<1> QED
    BY <1>1, FS_EmptySet DEF Init, PillBalance

LEMMA BalanceStep == TypeInv /\ PillBalance /\ [Next]_vars => PillBalance'
<1> SUFFICES ASSUME TypeInv, PillBalance, [Next]_vars, ~Destroying' PROVE PillBalance'
    BY DEF PillBalance
<1>a. /\ nbActiveThreads \in Nat /\ spawned \in Nat /\ tasks \in Seq(Task \cup {Null})
      /\ wpc \in [Worker -> WorkerPc] /\ MaxThreads \in Nat /\ Null \in Task \cup {Null}
    BY PoolAssumption DEF PoolAssumption, TypeInv, TypeOK
<1>b. Cardinality(Live) \in Nat /\ Cardinality(Pills) \in Nat /\ Pills = PlacesOf(Null, tasks)
    BY <1>a, LiveFinite, PlacesFinite DEF Pills, PlacesOf
<1>c. Pills' = PlacesOf(Null, tasks')
    BY DEF Pills, PlacesOf
<1> USE DEF queueVars, ownerVars, workerVars, historyVars
<1>d. SUFFICES ASSUME ~Destroying => Cardinality(Live) = nbActiveThreads + Cardinality(Pills)
               PROVE  Cardinality(Live') = nbActiveThreads' + Cardinality(Pills')
    BY DEF PillBalance
<1>1. CASE Run
    <2>1. Cardinality(Pills') = Cardinality(Pills) /\ Live' = Live
        <3>1. submitted + 1 \in Task /\ submitted + 1 # Null
            BY <1>1, PoolAssumption DEF Run, PoolAssumption, TypeInv, TypeOK, Task, Null
        <3> QED
            BY <1>1, <1>a, <1>b, <1>c, <3>1, PlacesAppended DEF Run, Live
    <2> QED
        BY <1>1, <1>d, <2>1 DEF Run, Destroying
<1>2. CASE Shrink
    <2>1. Cardinality(Pills') = Cardinality(Pills) + 1 /\ Live' = Live
        BY <1>2, <1>a, <1>b, <1>c, PlacesAppended DEF Shrink, Live
    <2> QED
        BY <1>2, <1>a, <1>b, <1>d, <2>1 DEF Shrink, Destroying
<1>3. CASE Grow
    <2>1. spawned + 1 \in Worker
        BY <1>3, <1>a DEF Grow, TypeInv, SizeInv, TypeOK, Worker
    <2>2. wpc[spawned + 1] = "unborn"
        BY <2>1, <1>a DEF TypeInv, HoldInv
    <2>3. Live' = Live \cup {spawned + 1} /\ spawned + 1 \notin Live
        BY <1>3, <1>a, <2>1, <2>2 DEF Grow, Live
    <2>4. Cardinality(Live') = Cardinality(Live) + 1
        BY <2>3, LiveFinite, FS_AddElement
    <2> QED
        BY <1>3, <1>a, <1>b, <1>c, <1>d, <2>4 DEF Grow, Destroying
<1>4. ASSUME NEW w \in Worker, NextTask(w)
      PROVE  Cardinality(Live') = nbActiveThreads' + Cardinality(Pills')
    <2>1. Cardinality(Pills') = Cardinality(Pills) - (IF Head(tasks) = Null THEN 1 ELSE 0)
        BY <1>4, <1>a, <1>b, <1>c, PlacesTaken DEF NextTask
    <2>2. w \in Live
        BY <1>4 DEF NextTask, Live
    <2>3. Live' = IF Head(tasks) = Null THEN Live \ {w} ELSE Live
        BY <1>4, <1>a, <2>2 DEF NextTask, Live
    <2>4. Cardinality(Live') = Cardinality(Live) - (IF Head(tasks) = Null THEN 1 ELSE 0)
        <3>1. CASE Head(tasks) = Null
            <4>1. Cardinality(Live \ {w}) = Cardinality(Live) - 1
                BY <2>2, LiveFinite, FS_RemoveElement
            <4> QED
                BY <2>3, <3>1, <4>1
        <3>2. CASE Head(tasks) # Null
            BY <2>3, <3>2, LiveFinite, FS_CardinalityType
        <3> QED
            BY <3>1, <3>2
    <2>5. nbActiveThreads' = nbActiveThreads /\ ~Destroying
        BY <1>4 DEF NextTask, Destroying
    <2> QED
        BY <1>a, <1>b, <1>d, <2>1, <2>4, <2>5
<1>5. ASSUME NEW w \in Worker, RunTask(w) \/ CountOff(w) \/ Notify(w)
      PROVE  Cardinality(Live') = nbActiveThreads' + Cardinality(Pills')
    <2>1. Live' = Live /\ Pills' = Pills /\ nbActiveThreads' = nbActiveThreads
        BY <1>5, <1>a DEF RunTask, CountOff, Notify, Live, Pills
    <2>2. ~Destroying
        BY <1>5 DEF RunTask, CountOff, Notify, Destroying
    <2> QED
        BY <1>d, <2>1, <2>2
<1>6. CASE \/ RunCount \/ ResizeDone \/ WaitForDone \/ Recheck \/ SpuriousWakeup
           \/ \E n \in ThreadCounts : SetThreadCount(n)
    <2>1. Live' = Live /\ Pills' = Pills /\ nbActiveThreads' = nbActiveThreads /\ ~Destroying
        BY <1>6 DEF RunCount, ResizeDone, WaitForDone, Recheck, SpuriousWakeup, SetThreadCount,
                    Live, Pills, Destroying
    <2> QED
        BY <1>d, <2>1
<1>7. CASE Destroy \/ Clear \/ WritePill \/ PillsDone \/ Join \/ JoinDone
    BY <1>7 DEF Destroy, Clear, WritePill, PillsDone, Join, JoinDone, Destroying
<1>8. CASE UNCHANGED vars
    BY <1>8, <1>d DEF vars, Live, Pills, Destroying
<1> QED
    BY <1>1, <1>2, <1>3, <1>4, <1>5, <1>6, <1>7, <1>8
       DEF Next, OwnerCall, OwnerStep, WorkerStep, Terminated

(* PillBalance: however resizes overlap, each thread that still serves the queue is counted
   or has a poison value waiting for it. *)
THEOREM ThreadsAreBalanced == Spec => []PillBalance
BY TypeCorrect, BalanceInit, BalanceStep, PTL DEF Spec
-----------------------------------------------------------------------------
(* A worker that is about to take a task holds none, so the tasks held are at most those
   of the other workers. *)
LEMMA RoomForOne ==
    ASSUME TypeInv, NEW w \in Worker, wtask[w] = Null
    PROVE  Cardinality(Held) < MaxThreads
<1> DEFINE Others == Worker \ {w}
           f == [v \in Others |-> wtask[v]]
           S == {f[v] : v \in Others}
<1>1. /\ IsFiniteSet(Worker) /\ Cardinality(Worker) = MaxThreads /\ MaxThreads \in Nat
    BY PoolAssumption, FS_Interval DEF PoolAssumption, Worker
<1>2. IsFiniteSet(Others) /\ Cardinality(Others) = MaxThreads - 1
    BY <1>1, FS_RemoveElement
<1>3. f \in Surjection(Others, S)
    <2>1. f \in [Others -> S]
        OBVIOUS
    <2> QED
        BY <2>1 DEF Surjection
<1>4. IsFiniteSet(S) /\ Cardinality(S) <= MaxThreads - 1
    <2> HIDE DEF f, S, Others
    <2> QED
        BY <1>2, <1>3, FS_Surjection
<1>5. Held \subseteq S
    BY DEF Held
<1> HIDE DEF S
<1>6. Cardinality(Held) <= Cardinality(S) /\ Cardinality(Held) \in Nat
    BY <1>4, <1>5, FS_Subset, FS_CardinalityType
<1> QED
    BY <1>1, <1>4, <1>6, FS_CardinalityType

LEMMA PoolStep == TypeInv /\ FifoInv /\ [Next]_vars => [Abstract!Next]_Abstract!poolVars
<1> SUFFICES ASSUME TypeInv, FifoInv, [Next]_vars
             PROVE  [Abstract!Next]_Abstract!poolVars
    OBVIOUS
<1> USE DEF Abstract!Next, Abstract!poolVars
<1>a. tasks \in Seq(Task \cup {Null}) /\ Null \notin Task
    BY DEF TypeInv, TypeOK, Null, Task
<1>1. CASE Run
    <2>1. submitted + 1 \in Task
              /\ Selected(Task, tasks') = Append(Selected(Task, tasks), submitted + 1)
        <3>1. submitted + 1 \in Task
            BY <1>1, PoolAssumption DEF Run, TypeInv, TypeOK, Task
        <3> QED
            BY <1>1, <1>a, <3>1, SelectedAppend DEF Run
    <2>2. submitted + 1 \notin Held /\ Held' = Held
        BY <1>1 DEF Run, Held, FifoInv, TakenInv, TypeInv, TypeOK, workerVars
    <2>3. \A i \in DOMAIN Selected(Task, tasks) : Selected(Task, tasks)[i] # submitted + 1
        <3>1. \A i \in DOMAIN tasks : tasks[i] # submitted + 1
            BY <1>a, <2>1 DEF FifoInv, OrderInv, TypeInv, TypeOK, Task
        <3> QED
            BY <1>a, <3>1, SelectedElements
    <2>4. Abstract!Submit(submitted + 1)
        BY <2>1, <2>2, <2>3 DEF Abstract!Submit
    <2> QED
        BY <2>1, <2>4
<1>2. CASE Shrink \/ WritePill
    <2>1. tasks' = Append(tasks, Null) /\ Held' = Held
        BY <1>2 DEF Shrink, WritePill, Held, workerVars
    <2>2. Selected(Task, tasks') = Selected(Task, tasks)
        BY <1>a, <2>1, SelectedAppend
    <2> QED
        BY <2>1, <2>2
<1>3. CASE Clear
    <2>1. Selected(Task, tasks') = <<>> /\ Held' = Held
        BY <1>3, SelectedEmpty DEF Clear, Held, workerVars
    <2> QED
        BY <2>1 DEF Abstract!Discard
<1>4. ASSUME NEW w \in Worker, NextTask(w)
      PROVE  [Abstract!Next]_Abstract!poolVars
    <2> DEFINE task == Head(tasks)
    <2>1. /\ tasks # <<>> /\ tasks' = Tail(tasks) /\ wtask' = [wtask EXCEPT ![w] = task]
          /\ wtask[w] = Null /\ task \in Task \cup {Null}
        BY <1>4, <1>a, HeadAndTail DEF NextTask, TypeInv, HoldInv
    <2>2. Selected(Task, tasks) = IF task \in Task THEN <<task>> \o Selected(Task, tasks')
                                  ELSE Selected(Task, tasks')
        BY <1>a, <2>1, SelectedTail
    <2> HIDE DEF task
    <2>3. Held' = Held \cup ({task} \ {Null})
        BY <2>1 DEF Held, TypeInv, TypeOK
    <2>4. CASE task = Null
        BY <1>a, <2>2, <2>3, <2>4
    <2>5. CASE task \in Task
        <3>1. Selected(Task, tasks') \in Seq(Task)
            <4>1. tasks' \in Seq(Task \cup {Null})
                BY <1>a, <2>1
            <4>2. Selected(Task, tasks') \in Seq((Task \cup {Null}) \cap Task)
                BY <4>1, SelectedType
            <4> QED
                BY <4>2
        <3>2. /\ Selected(Task, tasks) # <<>>
              /\ Head(Selected(Task, tasks)) = task
              /\ Tail(Selected(Task, tasks)) = Selected(Task, tasks')
            BY <2>2, <2>5, <3>1
        <3>3. Held' = Held \cup {task}
            BY <1>a, <2>3, <2>5
        <3>4. Cardinality(Held) < MaxThreads
            BY <2>1, RoomForOne
        <3>5. Abstract!Start
            BY <3>2, <3>3, <3>4 DEF Abstract!Start, Abstract!Cardinality, Cardinality
        <3> QED
            BY <3>5
    <2> QED
        BY <2>1, <2>4, <2>5
<1>5. ASSUME NEW w \in Worker, CountOff(w)
      PROVE  [Abstract!Next]_Abstract!poolVars
    <2>1. wtask[w] \in Task /\ wtask' = [wtask EXCEPT ![w] = Null] /\ tasks' = tasks
        BY <1>5 DEF CountOff, TypeInv, TypeOK, HoldInv
    <2>2. wtask[w] \in Held
        BY <1>a, <2>1 DEF Held
    <2>3. Held' = Held \ {wtask[w]}
        BY <1>a, <2>1 DEF Held, FifoInv, TakenInv, TypeInv, TypeOK
    <2>4. Abstract!Finish(wtask[w])
        BY <2>1, <2>2, <2>3 DEF Abstract!Finish
    <2> QED
        BY <2>1, <2>4
<1>6. CASE UNCHANGED <<tasks, wtask>>
    BY <1>6 DEF Held
<1>7. CASE \/ RunCount \/ Recheck \/ Grow \/ ResizeDone \/ PillsDone \/ Join \/ JoinDone
           \/ WaitForDone \/ SpuriousWakeup \/ Destroy \/ (\E n \in ThreadCounts :
                   SetThreadCount(n))
    <2>1. UNCHANGED <<tasks, wtask>>
        BY <1>7 DEF RunCount, Recheck, Grow, ResizeDone, PillsDone, Join, JoinDone, WaitForDone,
                    SpuriousWakeup, Destroy, SetThreadCount, queueVars, workerVars
    <2> QED
        BY <1>6, <2>1
<1>8. ASSUME NEW w \in Worker, RunTask(w) \/ Notify(w)
      PROVE  [Abstract!Next]_Abstract!poolVars
    <2>1. UNCHANGED <<tasks, wtask>>
        BY <1>8 DEF RunTask, Notify, queueVars
    <2> QED
        BY <1>6, <2>1
<1>9. CASE UNCHANGED vars
    BY <1>6, <1>9 DEF vars, queueVars, workerVars
<1> QED
    BY <1>1, <1>2, <1>3, <1>4, <1>5, <1>7, <1>8, <1>9
    DEF Next, OwnerCall, OwnerStep, WorkerStep, Terminated

(* PoolSpec: threads, counter and poison values implement the FIFO of tasks that the
   scanner is built from, for every number of tasks and threads: a task that run() appends
   is taken once, in its turn, unless the destructor drops it. *)
THEOREM PoolIsTaskPool == Spec => PoolSpec
<1>1. Init => Abstract!Init
    <2> SUFFICES ASSUME Init PROVE Abstract!Init
        OBVIOUS
    <2>1. Held = {}
        BY DEF Init, Held
    <2> QED
        BY <2>1, SelectedEmpty DEF Init, Abstract!Init
<1> QED
    BY <1>1, PoolStep, TypeCorrect, FifoCorrect, PTL DEF Spec, PoolSpec, Abstract!Spec
=============================================================================
