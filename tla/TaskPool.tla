------------------------------ MODULE TaskPool ------------------------------
(***************************************************************************)
(* What class ThreadPool (indexer/include/csnap/indexer/threadpool.h)      *)
(* promises to the code that uses it: a FIFO of tasks, of which at most    *)
(* MaxRunning are under way at any time.  Module ThreadPool implements     *)
(* this specification with threads, a counter and poison values; module    *)
(* Scanner is built from two instances of it.                              *)
(***************************************************************************)
EXTENDS Naturals, Sequences, FiniteSets

CONSTANTS Task,        \* the tasks that may be submitted
          MaxRunning   \* how many tasks may be under way together

VARIABLES waiting,     \* the submitted tasks no thread has taken yet
          running      \* the tasks taken by a thread and not yet counted off

poolVars == <<waiting, running>>

Init == waiting = <<>> /\ running = {}

(* run(): a task is appended; the same object is never submitted while it is
   still in the pool *)
Submit(t) ==
    /\ t \notin running
    /\ \A i \in DOMAIN waiting : waiting[i] # t
    /\ waiting' = Append(waiting, t)
    /\ UNCHANGED running

(* a thread takes the oldest task *)
Start ==
    /\ waiting # <<>>
    /\ Cardinality(running) < MaxRunning
    /\ running' = running \cup {Head(waiting)}
    /\ waiting' = Tail(waiting)

(* a thread has run its task and counts it off *)
Finish(t) ==
    /\ t \in running
    /\ running' = running \ {t}
    /\ UNCHANGED waiting

(* the destructor drops what was never started *)
Discard ==
    /\ waiting' = <<>>
    /\ UNCHANGED running

Next ==
    \/ \E t \in Task : Submit(t) \/ Finish(t)
    \/ Start
    \/ Discard

Spec == Init /\ [][Next]_poolVars

(* what done() answers *)
Done == waiting = <<>> /\ running = {}
=============================================================================
