--------------------------- MODULE PromiseQueue ---------------------------
(***************************************************************************)
(* PromiseQueue (promises/queue.mts): a bounded queue that runs at most    *)
(* maxConcurrency tasks at a time, in the order they were added.           *)
(*                                                                         *)
(* Every method runs to completion on the JavaScript thread, so it is one  *)
(* step.  runNext calls task.fn() last, so what a task does to the queue   *)
(* while it starts (add, clear, onIdle, a synchronous throw) happens after *)
(* the step that starts it and is a step of its own.                       *)
(***************************************************************************)
EXTENDS Integers, Sequences, FiniteSets

CONSTANTS
  Task,             \* the tasks that are ever added, each once
  Waiter,           \* the calls of onIdle
  MaxConcurrency,   \* constructor argument
  MaxQueueLength,   \* constructor argument, or Unlimited
  Unlimited         \* maxQueueLength is undefined

ASSUME QueueConstants ==
  /\ IsFiniteSet(Task)
  /\ MaxConcurrency \in Nat \ {0}      \* the constructor throws otherwise
  /\ Unlimited \notin Nat
  /\ MaxQueueLength \in Nat \cup {Unlimited}

VARIABLES
  queue,      \* this.queue
  running,    \* this.running
  idle,       \* the waiters whose resolve is in this.idleResolvers
  promise,    \* state of the promise that add returned, per task
  order,      \* history: the tasks that entered the queue, in order
  pledge      \* history: what was unsettled when each waiter called onIdle

vars == <<queue, running, idle, promise, order, pledge>>

----------------------------------------------------------------------------
\* "finished": resolved or rejected as the task's own promise was.
Settled == {"finished", "dropped", "cancelled"}
Running == {t \in Task : promise[t] = "running"}
Unsettled == {t \in Task : promise[t] \in {"queued", "running"}}

\* How a waiter that is not in the queue's list stands.
NotCalled == [called |-> FALSE, tasks |-> {}]

\* add drops a newcomer when the queue is full.
Full == MaxQueueLength # Unlimited /\ Len(queue) >= MaxQueueLength

\* runNext finds no slot, or nothing to start.
NothingToStartLate(q, r) == r > MaxConcurrency \/ q = <<>>    \* mutant
NothingToStart(q, r) == r >= MaxConcurrency \/ q = <<>>

\* queue.push(task)
Unshifted(t) == <<t>> \o queue    \* mutant: queue.unshift
Pushed(t) == Append(queue, t)

\* notifyIdleIfNeeded resolves every waiter once nothing runs or waits.
IdleNowQueue(q, r) == q = <<>>    \* mutant: forgets the running tasks
IdleNow(q, r) == r = 0 /\ q = <<>>
NotifyNot(q, r) == UNCHANGED idle \* mutant
Notify(q, r) == idle' = IF IdleNow(q, r) THEN {} ELSE idle

\* runNext, from a queue q with r tasks running and the promises ps.
RunNext(q, r, ps) ==
  IF NothingToStart(q, r)
    THEN /\ queue' = q
         /\ running' = r
         /\ promise' = ps
         /\ Notify(q, r)
    ELSE /\ queue' = Tail(q)
         /\ running' = r + 1
         /\ promise' = [ps EXCEPT ![Head(q)] = "running"]
         /\ UNCHANGED idle

Init ==
  /\ queue = <<>>
  /\ running = 0
  /\ idle = {}
  /\ promise = [t \in Task |-> "new"]
  /\ order = <<>>
  /\ pledge = [w \in Waiter |-> NotCalled]

----------------------------------------------------------------------------
\* add(t) on a full queue: the newcomer is rejected.
Drop(t) ==
  /\ promise[t] = "new"
  /\ Full
  /\ promise' = [promise EXCEPT ![t] = "dropped"]
  /\ UNCHANGED <<queue, running, idle, order, pledge>>

\* add(t): the task enters the queue, and runNext starts the first one if a
\* slot is free.
Add(t) ==
  /\ promise[t] = "new"
  /\ ~Full
  /\ RunNext(Pushed(t), running, [promise EXCEPT ![t] = "queued"])
  /\ order' = Append(order, t)
  /\ UNCHANGED pledge

\* The task's own promise settles: so does the one add returned, the slot is
\* free again and the next task starts.
FinishNoNext(t) ==     \* mutant: the slot is freed but runNext is not called
  /\ promise[t] = "running"
  /\ promise' = [promise EXCEPT ![t] = "finished"]
  /\ running' = running - 1
  /\ UNCHANGED <<queue, idle, order, pledge>>
FinishTwice(t) ==      \* mutant: running-- in catch and in finally
  /\ promise[t] = "running"
  /\ RunNext(queue, running - 2, [promise EXCEPT ![t] = "finished"])
  /\ UNCHANGED <<order, pledge>>
Finish(t) ==
  /\ promise[t] = "running"
  /\ RunNext(queue, running - 1, [promise EXCEPT ![t] = "finished"])
  /\ UNCHANGED <<order, pledge>>

\* clear(): waiting tasks are rejected, running ones go on.
ClearUnrejected ==     \* mutant: the waiting tasks are only forgotten
  /\ queue' = <<>>
  /\ UNCHANGED <<running, idle, promise, order, pledge>>
Clear ==
  /\ queue' = <<>>
  /\ promise' = [t \in Task |->
       IF \E i \in DOMAIN queue : queue[i] = t THEN "cancelled" ELSE promise[t]]
  /\ Notify(<<>>, running)
  /\ UNCHANGED <<running, order, pledge>>

\* onIdle(): resolves at once on an idle queue, else joins idleResolvers.
OnIdle(w) ==
  /\ ~pledge[w].called
  /\ pledge' = [pledge EXCEPT ![w] = [called |-> TRUE, tasks |-> Unsettled]]
  /\ idle' = IF IdleNow(queue, running) THEN idle ELSE idle \cup {w}
  /\ UNCHANGED <<queue, running, promise, order>>

Next ==
  \/ \E t \in Task : Drop(t) \/ Add(t) \/ Finish(t)
  \/ Clear
  \/ \E w \in Waiter : OnIdle(w)

Spec == Init /\ [][Next]_vars

\* Tasks settle; nobody has to add, clear or wait.
FairSpec == Spec /\ \A t \in Task : WF_vars(Finish(t))

----------------------------------------------------------------------------
\* Type invariant.
TypeOK ==
  /\ queue \in Seq(Task)
  /\ running \in Nat
  /\ idle \subseteq Waiter
  /\ promise \in [Task -> {"new", "queued", "running"} \cup Settled]
  /\ order \in Seq(Task)
  /\ pledge \in [Waiter -> [called : BOOLEAN, tasks : SUBSET Task]]

\* The counter counts the tasks that run, and never passes maxConcurrency.
ConcurrencyBound ==
  /\ running = Cardinality(Running)
  /\ running =< MaxConcurrency

\* No slot stays free while a task waits: runNext starts one task at a time,
\* which is enough only because every step that frees a slot calls it.
WorkConserving == queue # <<>> => running = MaxConcurrency

\* "FIFO fairness: the caller who waited longest gets served": no task waits
\* while one that was added later has started.
Before(t, u) == \E i, j \in DOMAIN order : i < j /\ order[i] = t /\ order[j] = u
Fifo ==
  \A t, u \in Task :
    /\ promise[t] = "queued"
    /\ Before(t, u)
    => promise[u] \in {"queued", "cancelled"}

\* A waiter is in idleResolvers only while something runs or waits, so the
\* last step of the last task finds it: no wake-up is lost.
NoLostWakeup == idle # {} => running > 0

\* onIdle: "wait for all queued and running tasks to complete".  Once it has
\* resolved, everything that was queued or running when it was called is over.
IdleMeansDone ==
  \A w \in Waiter : pledge[w].called /\ w \notin idle =>
    \A t \in pledge[w].tasks : promise[t] \in Settled

\* Every promise add returned settles, and every onIdle resolves.
EveryoneServed ==
  /\ \A t \in Task : promise[t] \in {"queued", "running"} ~> promise[t] \in Settled
  /\ \A w \in Waiter : w \in idle ~> w \notin idle
=============================================================================
