---------------------------- MODULE SharedQueue ----------------------------
(***************************************************************************)
(* class SharedQueue (indexer/include/csnap/indexer/queue.h) down to its   *)
(* mutex and condition variable: several producers call write(), several   *)
(* consumers call next(), and some of them first wait with a timeout in    *)
(* waitForNext().  Modules ThreadPool and Scanner use the queue as one     *)
(* whose operations are atomic.                                            *)
(*                                                                         *)
(* The mutex is held exactly while holder # NoThread.  A critical section  *)
(* is one step when nothing in it can be observed half-way; next() takes   *)
(* the front element and then pops it in two.                              *)
(***************************************************************************)
EXTENDS SequencesExt

CONSTANTS Producer, Consumer,  \* the threads at either end
          Peeker,              \* the consumers that call waitForNext() first
          NoThread,            \* no thread
          MaxWrites            \* bound: how many elements are written

ASSUME QueueAssumption ==
    /\ Producer \cap Consumer = {} /\ NoThread \notin Producer \cup Consumer
    /\ IsFiniteSet(Producer) /\ IsFiniteSet(Consumer)
    /\ Peeker \subseteq Consumer
    /\ MaxWrites \in Nat

VARIABLES
    container,  \* the elements, numbered in the order of the pushes
    holder,     \* the thread that holds the mutex, or NoThread
    waiters,    \* the threads asleep on the condition variable
    ppc, cpc,   \* where each producer and each consumer is
    front,      \* the element a consumer has moved out and not popped yet
    written,    \* history: how many elements were pushed
    taken       \* history: the elements next() returned and clear() dropped, in order

threadVars  == <<ppc, cpc>>
historyVars == <<written, taken>>
queueVars == <<container, holder, waiters, threadVars, front, historyVars>>

(* write(): idle -> notify -> idle
   next(): idle -> check -> (asleep -> check ...) -> pop -> idle
   waitForNext(): idle -> peek -> (dozing -> peeked) -> idle, or on to check *)
ProducerPc == {"idle", "notify"}
ConsumerPc == {"idle", "check", "asleep", "pop", "peek", "dozing", "peeked"}

QueueInit ==
    /\ container = <<>> /\ holder = NoThread /\ waiters = {}
    /\ ppc = [p \in Producer |-> "idle"]
    /\ cpc = [c \in Consumer |-> "idle"]
    /\ front = [c \in Consumer |-> 0]
    /\ written = 0 /\ taken = <<>>

(* a lock is taken and released within a step *)
Unlocked == holder = NoThread
-----------------------------------------------------------------------------
(* write(): push under the mutex ... *)
Push(p) ==
    /\ ppc[p] = "idle" /\ written < MaxWrites /\ Unlocked
    /\ container' = Append(container, written + 1)
    /\ written' = written + 1
    /\ ppc' = [ppc EXCEPT ![p] = "notify"]
    /\ UNCHANGED <<holder, waiters, cpc, front, taken>>

(* a thread of the wait set goes on: next() looks again, waitForNext() returns *)
Wake(w) ==
    /\ waiters' = waiters \ {w}
    /\ cpc' = [cpc EXCEPT ![w] = IF cpc[w] = "asleep" THEN "check" ELSE "peeked"]

(* mutant of Notify: nobody is woken *)
NotifyNobody(p) ==
    /\ ppc[p] = "notify"
    /\ ppc' = [ppc EXCEPT ![p] = "idle"]
    /\ UNCHANGED <<container, holder, waiters, cpc, front, historyVars>>

(* ... and notify_one after it is released *)
Notify(p) ==
    /\ ppc[p] = "notify"
    /\ ppc' = [ppc EXCEPT ![p] = "idle"]
    /\ IF waiters = {} THEN UNCHANGED <<waiters, cpc>> ELSE \E w \in waiters : Wake(w)
    /\ UNCHANGED <<container, holder, front, historyVars>>
-----------------------------------------------------------------------------
CallNext(c) ==
    /\ cpc[c] = "idle" /\ c \notin Peeker
    /\ cpc' = [cpc EXCEPT ![c] = "check"]
    /\ UNCHANGED <<container, holder, waiters, ppc, front, historyVars>>

(* mutant of Check: the wrong end is read *)
CheckBack(c) ==
    /\ cpc[c] = "check" /\ Unlocked
    /\ IF container = <<>>
       THEN /\ cpc' = [cpc EXCEPT ![c] = "asleep"]
            /\ waiters' = waiters \cup {c}
            /\ UNCHANGED <<holder, front>>
       ELSE /\ cpc' = [cpc EXCEPT ![c] = "pop"]
            /\ holder' = c
            /\ front' = [front EXCEPT ![c] = Last(container)]
            /\ UNCHANGED waiters
    /\ UNCHANGED <<container, ppc, historyVars>>

(* the predicate of next() is looked at under the mutex: the thread goes to sleep
   and releases the mutex at once, or moves the front element out *)
Check(c) ==
    /\ cpc[c] = "check" /\ Unlocked
    /\ IF container = <<>>
       THEN /\ cpc' = [cpc EXCEPT ![c] = "asleep"]
            /\ waiters' = waiters \cup {c}
            /\ UNCHANGED <<holder, front>>
       ELSE /\ cpc' = [cpc EXCEPT ![c] = "pop"]
            /\ holder' = c
            /\ front' = [front EXCEPT ![c] = Head(container)]
            /\ UNCHANGED waiters
    /\ UNCHANGED <<container, ppc, historyVars>>

Pop(c) ==
    /\ cpc[c] = "pop"
    /\ container' = Tail(container)
    /\ taken' = Append(taken, front[c])
    /\ holder' = NoThread
    /\ front' = [front EXCEPT ![c] = 0]
    /\ cpc' = [cpc EXCEPT ![c] = "idle"]
    /\ UNCHANGED <<waiters, ppc, written>>

(* waitForNext(d): returns true at once, or waits for d at most *)
CallWaitForNext(c) ==
    /\ cpc[c] = "idle" /\ c \in Peeker
    /\ cpc' = [cpc EXCEPT ![c] = "peek"]
    /\ UNCHANGED <<container, holder, waiters, ppc, front, historyVars>>

Peek(c) ==
    /\ cpc[c] = "peek" /\ Unlocked
    /\ IF container = <<>>
       THEN /\ cpc' = [cpc EXCEPT ![c] = "dozing"]
            /\ waiters' = waiters \cup {c}
       ELSE /\ cpc' = [cpc EXCEPT ![c] = "check"]
            /\ UNCHANGED waiters
    /\ UNCHANGED <<container, holder, ppc, front, historyVars>>

(* spurious wake-ups of next(), and the timeout of waitForNext() *)
WakeUnasked(c) ==
    /\ c \in waiters
    /\ Wake(c)
    /\ UNCHANGED <<container, holder, ppc, front, historyVars>>

(* mutant of Peeked: being woken is taken for a timeout *)
PeekedTimeout(c) ==
    /\ cpc[c] = "peeked" /\ Unlocked
    /\ cpc' = [cpc EXCEPT ![c] = "idle"]
    /\ UNCHANGED <<container, holder, waiters, ppc, front, historyVars>>

(* waitForNext() looks a last time, and a thread told that an element is there
   calls next() *)
Peeked(c) ==
    /\ cpc[c] = "peeked" /\ Unlocked
    /\ cpc' = [cpc EXCEPT ![c] = IF container = <<>> THEN "idle" ELSE "check"]
    /\ UNCHANGED <<container, holder, waiters, ppc, front, historyVars>>

(* clear() *)
Clear ==
    /\ Unlocked /\ container # <<>>
    /\ taken' = taken \o container
    /\ container' = <<>>
    /\ UNCHANGED <<holder, waiters, threadVars, front, written>>
-----------------------------------------------------------------------------
ProducerStep(p) == Push(p) \/ Notify(p)
ConsumerStep(c) == Check(c) \/ Pop(c) \/ Peek(c) \/ Peeked(c)
Call(c)         == CallNext(c) \/ CallWaitForNext(c) \/ WakeUnasked(c)

QueueNext ==
    \/ \E p \in Producer : ProducerStep(p)
    \/ \E c \in Consumer : ConsumerStep(c) \/ Call(c)
    \/ Clear

QueueSpec == QueueInit /\ [][QueueNext]_queueVars

(* A thread inside a call goes on (the mutex is never held for long); nobody has to
   call, and neither a timeout nor a spurious wake-up has to happen. *)
FairQueueSpec ==
    /\ QueueSpec
    /\ \A p \in Producer : WF_queueVars(Notify(p))
    /\ \A c \in Consumer : WF_queueVars(ConsumerStep(c))
-----------------------------------------------------------------------------
QueueTypes ==
    /\ container \in Seq(1..MaxWrites) /\ taken \in Seq(1..MaxWrites)
    /\ written \in 0..MaxWrites
    /\ holder \in Consumer \cup {NoThread}
    /\ waiters = {c \in Consumer : cpc[c] \in {"asleep", "dozing"}}
    /\ ppc \in [Producer -> ProducerPc] /\ cpc \in [Consumer -> ConsumerPc]
    /\ front \in [Consumer -> 0..MaxWrites]

(* Elements leave the queue once each and in the order they were pushed, however
   many threads pop: next() moves the front element out and pops it under one
   lock. *)
ExactlyOnceInOrder == taken \o container = [i \in 1..written |-> i]

(* The threads that will look at the queue without being woken. *)
Coming == {c \in Consumer : cpc[c] \in {"check", "pop", "peek", "peeked"}}
Notifying == {p \in Producer : ppc[p] = "notify"}

(* No lost wake-up: while a thread sleeps, every element queued is matched by a
   notification on its way or by a thread on its way to the queue.  It relies on
   one notify_one per push, after the push, and on waitForNext() looking at the
   queue again after it is woken, since the wake-up it may swallow was meant for
   a thread asleep in next(). *)
NoLostWakeup ==
    waiters # {} => Len(container) <= Cardinality(Notifying) + Cardinality(Coming)

(* A thread asleep in next() is not left asleep beside a filled queue. *)
SleeperServed ==
    \A c \in Consumer :
        (cpc[c] = "asleep" /\ container # <<>>) ~> (cpc[c] # "asleep" \/ container = <<>>)
=============================================================================
