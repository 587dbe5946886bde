----------------------------- MODULE ThreadPool -----------------------------
(***************************************************************************)
(* class ThreadPool and its worker procedure thread_pool_proc              *)
(* (indexer/src/threadpool.cpp).  One owner thread constructs the pool,    *)
(* submits tasks, changes the number of threads, waits and destroys it;    *)
(* the workers pop tasks from a SharedQueue and count them off.            *)
(*                                                                         *)
(* Every operation of the SharedQueue is atomic here, next() being enabled *)
(* when the queue is not empty: module SharedQueue checks that the class   *)
(* provides this.  The pool's own mutex is held exactly in the owner's     *)
(* steps "count" and "clear"; the other critical sections are one step.    *)
(***************************************************************************)
EXTENDS Selection, FiniteSets

CONSTANTS MaxTasks,      \* bound: how many tasks the owner submits
          MaxThreads,    \* bound: how many threads the pool ever spawns
          InitialCount,  \* the constructor's nb_threads
          ThreadCounts,  \* the arguments given to setThreadCount()
          SizeMax        \* the largest size_t

ASSUME PoolAssumption ==
    /\ MaxTasks \in Nat
    /\ MaxThreads \in Nat
    /\ InitialCount \in 0..MaxThreads
    /\ ThreadCounts \subseteq 0..MaxThreads
    /\ SizeMax \in Nat
    /\ SizeMax > MaxTasks + MaxThreads

Null   == 0             \* the poison value: a null RunnablePtr
Task   == 1..MaxTasks   \* a task is named by its place in the order of run()
Worker == 1..MaxThreads \* a thread is named by its place in m_threads

VARIABLES
    tasks,            \* the shared queue of tasks and poison values
    nbActiveTasks,    \* nb_active_tasks, a size_t
    nbActiveThreads,  \* m_nb_active_threads
    spawned,          \* m_threads.size(): joinable threads are never removed
    opc, arg,         \* where the owner is, and the operand of that operation
    wpc, wtask,       \* where each worker is, and the task it holds
    submitted,        \* history: how many tasks were passed to run()
    finished,         \* history: the tasks run and counted off
    discarded         \* history: the tasks dropped by the destructor

queueVars   == <<tasks, nbActiveTasks>>
ownerVars   == <<nbActiveThreads, spawned, opc, arg>>
workerVars  == <<wpc, wtask>>
historyVars == <<submitted, finished, discarded>>
vars == <<queueVars, ownerVars, workerVars, historyVars>>

OwnerPc  == {"resize", "idle", "count", "waiting", "woken",
             "clear", "pill", "join", "destroyed"}
WorkerPc == {"unborn", "next", "run", "dec", "notify", "exit"}

Destroying == opc \in {"clear", "pill", "join", "destroyed"}
Unlocked   == TRUE      \* a mutant of MutexFree: run() does not lock
MutexFree  == opc \notin {"count", "clear"}

Queued == {tasks[i] : i \in DOMAIN tasks} \ {Null}
Held   == {wtask[w] : w \in Worker} \ {Null}
Live   == {w \in Worker : wpc[w] \notin {"unborn", "exit"}}
Pills  == {i \in DOMAIN tasks : tasks[i] = Null}

(* size_t arithmetic *)
Inc(x)    == IF x = SizeMax THEN 0 ELSE x + 1
Dec(x)    == IF x = 0 THEN SizeMax ELSE x - 1
Sub(x, k) == IF k <= x THEN x - k ELSE x + SizeMax + 1 - k

(* the constructor: no thread yet, and setThreadCount(nb_threads) under way *)
Init ==
    /\ tasks = <<>> /\ nbActiveTasks = 0
    /\ nbActiveThreads = 0 /\ spawned = 0
    /\ opc = "resize" /\ arg = InitialCount
    /\ wpc = [w \in Worker |-> "unborn"]
    /\ wtask = [w \in Worker |-> Null]
    /\ submitted = 0 /\ finished = {} /\ discarded = {}
-----------------------------------------------------------------------------
(* The owner *)

(* run(): the mutex is taken and the task appended; a worker may pop the task
   before it is counted, but cannot count it off *)
Run ==
    /\ opc = "idle" /\ submitted < MaxTasks
    /\ tasks' = Append(tasks, submitted + 1)
    /\ submitted' = submitted + 1
    /\ opc' = "count"
    /\ UNCHANGED <<nbActiveTasks, nbActiveThreads, spawned, arg, workerVars,
                   finished, discarded>>

RunCount ==
    /\ opc = "count"
    /\ nbActiveTasks' = Inc(nbActiveTasks)
    /\ opc' = "idle"
    /\ UNCHANGED <<tasks, nbActiveThreads, spawned, arg, workerVars, historyVars>>

(* setThreadCount(n); cleanupThreads() removes threads that are not joinable,
   and no thread is joined before the destructor, so it removes none.  The
   guard bounds the threads ever spawned. *)
SetThreadCount(n) ==
    /\ opc = "idle"
    /\ n <= nbActiveThreads + (MaxThreads - spawned)
    /\ opc' = "resize" /\ arg' = n
    /\ UNCHANGED <<queueVars, nbActiveThreads, spawned, workerVars, historyVars>>

(* mutant of Shrink: no poison value is written *)
ShrinkSilent ==
    /\ opc = "resize" /\ arg < nbActiveThreads
    /\ nbActiveThreads' = nbActiveThreads - 1
    /\ UNCHANGED <<queueVars, spawned, opc, arg, workerVars, historyVars>>

Shrink ==
    /\ opc = "resize" /\ arg < nbActiveThreads
    /\ tasks' = Append(tasks, Null)
    /\ nbActiveThreads' = nbActiveThreads - 1
    /\ UNCHANGED <<nbActiveTasks, spawned, opc, arg, workerVars, historyVars>>

Grow ==
    /\ opc = "resize" /\ nbActiveThreads < arg
    /\ spawned' = spawned + 1
    /\ wpc' = [wpc EXCEPT ![spawned + 1] = "next"]
    /\ nbActiveThreads' = nbActiveThreads + 1
    /\ UNCHANGED <<queueVars, opc, arg, wtask, historyVars>>

ResizeDone ==
    /\ opc = "resize" /\ nbActiveThreads = arg
    /\ opc' = "idle"
    /\ UNCHANGED <<queueVars, nbActiveThreads, spawned, arg, workerVars, historyVars>>

(* waitForDone(): the call returns at once when the counter is zero, which is a
   stuttering step; else it waits on the condition variable, which may also wake
   up for no reason, and looks again *)
WaitForDone ==
    /\ opc = "idle" /\ nbActiveTasks # 0
    /\ opc' = "waiting"
    /\ UNCHANGED <<queueVars, nbActiveThreads, spawned, arg, workerVars, historyVars>>

Recheck ==
    /\ opc = "woken"
    /\ opc' = IF nbActiveTasks = 0 THEN "idle" ELSE "waiting"
    /\ UNCHANGED <<queueVars, nbActiveThreads, spawned, arg, workerVars, historyVars>>

SpuriousWakeup ==
    /\ opc = "waiting"
    /\ opc' = "woken"
    /\ UNCHANGED <<queueVars, nbActiveThreads, spawned, arg, workerVars, historyVars>>

(* ~ThreadPool(): under the mutex, what is queued is counted off and then
   cleared; a worker may still pop a task between the two *)
Destroy ==
    /\ opc = "idle"
    /\ nbActiveTasks' = Sub(nbActiveTasks, Len(tasks))
    /\ opc' = "clear"
    /\ UNCHANGED <<tasks, nbActiveThreads, spawned, arg, workerVars, historyVars>>

Clear ==
    /\ opc = "clear"
    /\ tasks' = <<>>
    /\ discarded' = Queued
    /\ opc' = "pill" /\ arg' = 0
    /\ UNCHANGED <<nbActiveTasks, nbActiveThreads, spawned, workerVars, submitted, finished>>

(* then one poison value per counted thread is written ... *)
WritePill ==
    /\ opc = "pill" /\ arg < nbActiveThreads
    /\ tasks' = Append(tasks, Null)
    /\ arg' = arg + 1
    /\ UNCHANGED <<nbActiveTasks, nbActiveThreads, spawned, opc, workerVars, historyVars>>

(* mutant of PillsDone: the loop may end early *)
PillsCutShort ==
    /\ opc = "pill"
    /\ opc' = "join" /\ arg' = 0
    /\ UNCHANGED <<queueVars, nbActiveThreads, spawned, workerVars, historyVars>>

PillsDone ==
    /\ opc = "pill" /\ arg = nbActiveThreads
    /\ opc' = "join" /\ arg' = 0
    /\ UNCHANGED <<queueVars, nbActiveThreads, spawned, workerVars, historyVars>>

(* ... and every thread of m_threads is joined, in order *)
Join ==
    /\ opc = "join" /\ arg < spawned
    /\ wpc[arg + 1] = "exit"
    /\ arg' = arg + 1
    /\ UNCHANGED <<queueVars, nbActiveThreads, spawned, opc, workerVars, historyVars>>

JoinDone ==
    /\ opc = "join" /\ arg = spawned
    /\ opc' = "destroyed"
    /\ UNCHANGED <<queueVars, nbActiveThreads, spawned, arg, workerVars, historyVars>>
-----------------------------------------------------------------------------
(* The workers: thread_pool_proc *)

(* mutant of NextTask: the newest element is taken *)
NextLast(w) ==
    /\ wpc[w] = "next" /\ tasks # <<>>
    /\ tasks' = SubSeq(tasks, 1, Len(tasks) - 1)
    /\ LET task == tasks[Len(tasks)] IN
         /\ wtask' = [wtask EXCEPT ![w] = task]
         /\ wpc' = [wpc EXCEPT ![w] = IF task = Null THEN "exit" ELSE "run"]
    /\ UNCHANGED <<nbActiveTasks, ownerVars, historyVars>>

(* the next element is popped: a null task ends the thread *)
NextTask(w) ==
    /\ wpc[w] = "next" /\ tasks # <<>>
    /\ tasks' = Tail(tasks)
    /\ wtask' = [wtask EXCEPT ![w] = Head(tasks)]
    /\ wpc' = [wpc EXCEPT ![w] = IF Head(tasks) = Null THEN "exit" ELSE "run"]
    /\ UNCHANGED <<nbActiveTasks, ownerVars, historyVars>>

RunTask(w) ==
    /\ wpc[w] = "run"
    /\ wpc' = [wpc EXCEPT ![w] = "dec"]
    /\ UNCHANGED <<queueVars, ownerVars, wtask, historyVars>>

(* under the mutex; the Runnable itself lives until the end of the iteration,
   which nothing observes *)
CountOff(w) ==
    /\ wpc[w] = "dec" /\ MutexFree
    /\ nbActiveTasks' = Dec(nbActiveTasks)
    /\ finished' = finished \cup {wtask[w]}
    /\ wtask' = [wtask EXCEPT ![w] = Null]
    /\ wpc' = [wpc EXCEPT ![w] = "notify"]
    /\ UNCHANGED <<tasks, ownerVars, submitted, discarded>>

(* mutant of Notify: nobody is woken *)
NotifyNobody(w) ==
    /\ wpc[w] = "notify"
    /\ wpc' = [wpc EXCEPT ![w] = "next"]
    /\ UNCHANGED <<queueVars, ownerVars, wtask, historyVars>>

(* cv.notify_one(), after the mutex is released *)
Notify(w) ==
    /\ wpc[w] = "notify"
    /\ wpc' = [wpc EXCEPT ![w] = "next"]
    /\ opc' = IF opc = "waiting" THEN "woken" ELSE opc
    /\ UNCHANGED <<queueVars, nbActiveThreads, spawned, arg, wtask, historyVars>>
-----------------------------------------------------------------------------
(* the program is over, or the destructor has returned *)
Terminated == opc = "destroyed" /\ UNCHANGED vars

OwnerCall ==
    \/ Run \/ WaitForDone \/ SpuriousWakeup \/ Destroy
    \/ \E n \in ThreadCounts : SetThreadCount(n)

OwnerStep ==
    \/ RunCount \/ Recheck \/ Shrink \/ Grow \/ ResizeDone
    \/ Clear \/ WritePill \/ PillsDone \/ Join \/ JoinDone

WorkerStep(w) == NextTask(w) \/ RunTask(w) \/ CountOff(w) \/ Notify(w)

Next == OwnerCall \/ OwnerStep \/ (\E w \in Worker : WorkerStep(w)) \/ Terminated

Spec == Init /\ [][Next]_vars

(* A thread that can run, runs; task->run() returns (the parser and the indexer
   behind it are finite).  What the owner calls next is its own choice. *)
FairSpec ==
    /\ Spec
    /\ WF_vars(OwnerStep)
    /\ \A w \in Worker : WF_vars(WorkerStep(w))
-----------------------------------------------------------------------------
TypeOK ==
    /\ tasks \in Seq(Task \cup {Null})
    /\ nbActiveTasks \in 0..SizeMax
    /\ nbActiveThreads \in 0..MaxThreads /\ spawned \in 0..MaxThreads
    /\ opc \in OwnerPc /\ arg \in 0..MaxThreads
    /\ wpc \in [Worker -> WorkerPc] /\ wtask \in [Worker -> Task \cup {Null}]
    /\ submitted \in 0..MaxTasks
    /\ finished \subseteq Task /\ discarded \subseteq Task

(* Until the destructor starts, nb_active_tasks is exactly the number of tasks
   queued or held by a thread, but for the one run() is about to count: so
   done() never answers true while work is left, and waitForDone() never
   returns early.  The task is written before it is counted, and only the
   pool's mutex keeps a worker from counting it off in between. *)
CounterExact ==
    ~Destroying =>
        nbActiveTasks + (IF opc = "count" THEN 1 ELSE 0)
            = Cardinality(Queued \cup Held)

(* What done() and waitForDone() tell the owner: when they answer, every task
   passed to run() has been run to its end. *)
DoneIsFinal ==
    opc = "idle" /\ nbActiveTasks = 0 => finished = 1..submitted

(* Indexer::asyncIndex (indexer/src/indexer.cpp:547) promises that with a single
   thread a task only starts after all earlier ones have completed.  It rests on
   the queue being first in, first out and on the thread count never having been
   raised: a shrunk pool may still run two tasks at once. *)
SerialWhenSingle ==
    spawned <= 1 => \A t \in Held : \A e \in 1..(t-1) : e \in finished

(* The threads that still serve the queue are the counted ones plus one for each
   poison value still queued, so setThreadCount() never leaves a pool of a
   positive size without a thread, however many resizes overlap. *)
PillBalance ==
    ~Destroying => Cardinality(Live) = nbActiveThreads + Cardinality(Pills)

(* A blocked waitForDone() returns: the last notify_one() is not lost. *)
WaitReturns ==
    (opc \in {"waiting", "woken"} /\ nbActiveThreads > 0) ~> opc = "idle"

(* A task submitted to a pool of a positive size is run or discarded, even when
   the pool is shrunk to nothing right after: the poison values queue behind it. *)
QueuedTaskEnds ==
    \A t \in Task :
        (t \in Queued /\ nbActiveThreads > 0) ~> (t \in finished \cup discarded)

(* The destructor returns when no poison value is among what it clears.  The to-do
   of threadpool.cpp:52, "check that there are no nullptr tasks in the queue", is
   about the other case: a poison value cleared there leaves its thread waiting for
   ever, since the loop that follows writes one only for each thread still counted. *)
DtorReturns ==
    (opc = "clear" /\ Pills = {}) ~> opc = "destroyed"

(* The pool with its threads, counter and poison values is a TaskPool. *)
Abstract == INSTANCE TaskPool
    WITH MaxRunning <- MaxThreads,
         waiting <- Selected(Task, tasks),
         running <- Held

PoolSpec == Abstract!Spec
=============================================================================
