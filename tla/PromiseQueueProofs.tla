------------------------ MODULE PromiseQueueProofs ------------------------
(***************************************************************************)
(* Proofs about PromiseQueue, for every finite set of tasks, any number of *)
(* waiters, every concurrency and every queue length.                      *)
(***************************************************************************)
EXTENDS PromiseQueue, FiniteSetTheorems, TLAPS

\* The counter is right, and a task waits only when every slot is taken.
CountInv == ConcurrencyBound /\ WorkConserving

\* The queue holds the waiting tasks, each once.
QueueInv ==
  /\ \A i \in 1..Len(queue) : promise[queue[i]] = "queued"
  /\ \A t \in Task : promise[t] = "queued" => \E i \in 1..Len(queue) : queue[i] = t
  /\ \A i, j \in 1..Len(queue) : queue[i] = queue[j] => i = j

\* `order` holds every task that entered the queue, once, and the waiting ones
\* wait in that order.
OrderInv ==
  /\ \A i, j \in 1..Len(order) : order[i] = order[j] => i = j
  /\ \A i \in 1..Len(order) : promise[order[i]] \notin {"new", "dropped"}
  /\ \A t \in Task : promise[t] \in {"queued", "running", "finished", "cancelled"} =>
       \E i \in 1..Len(order) : order[i] = t
  /\ \A i, j \in 1..Len(queue) : i < j => Before(queue[i], queue[j])

\* A waiter in the list has called onIdle, and waits for added tasks.
PledgeInv ==
  /\ \A w \in idle : pledge[w].called
  /\ \A w \in Waiter : \A t \in pledge[w].tasks : promise[t] # "new"

----------------------------------------------------------------------------
\* The four things that add and a finishing task can do to the queue.
StartsAtOnce(t) ==
  /\ running < MaxConcurrency
  /\ queue = <<>> /\ queue' = <<>>
  /\ running' = running + 1
  /\ promise' = [promise EXCEPT ![t] = "running"]
  /\ idle' = idle

Waits(t) ==
  /\ running = MaxConcurrency
  /\ queue' = Append(queue, t)
  /\ running' = running
  /\ promise' = [promise EXCEPT ![t] = "queued"]
  /\ idle' = idle

FreesSlot(t) ==
  /\ queue = <<>> /\ queue' = <<>>
  /\ running' = running - 1
  /\ promise' = [promise EXCEPT ![t] = "finished"]
  /\ idle' = IF running - 1 = 0 THEN {} ELSE idle

HandsOver(t) ==
  /\ queue # <<>> /\ queue' = Tail(queue)
  /\ running' = running
  /\ promise' = [promise EXCEPT ![t] = "finished", ![Head(queue)] = "running"]
  /\ idle' = idle

\* add starts the task at the head when a slot is free, and only queues otherwise.
LEMMA AddCases ==
  ASSUME TypeOK, CountInv, NEW t \in Task, Add(t)
  PROVE StartsAtOnce(t) \/ Waits(t)
<1> USE QueueConstants DEF TypeOK, CountInv, ConcurrencyBound, WorkConserving
<1>1. CASE running = MaxConcurrency
  BY <1>1 DEF Add, RunNext, NothingToStart, Notify, IdleNow, Pushed, Waits
<1>2. CASE running # MaxConcurrency
  <2>1. queue = <<>> /\ running < MaxConcurrency
    BY <1>2
  <2>2. Pushed(t) # <<>> /\ Tail(Pushed(t)) = <<>> /\ Head(Pushed(t)) = t
    BY <2>1 DEF Pushed
  <2>3. ~NothingToStart(Pushed(t), running)
    BY <2>1, <2>2 DEF NothingToStart
  <2>4. /\ queue' = <<>>
        /\ running' = running + 1
        /\ promise' = [[promise EXCEPT ![t] = "queued"] EXCEPT ![t] = "running"]
        /\ idle' = idle
    BY <2>2, <2>3 DEF Add, RunNext
  <2> QED
    BY <2>1, <2>4 DEF StartsAtOnce
<1> QED
  BY <1>1, <1>2

\* A task that settles frees its slot, and the head of the queue takes it.
LEMMA FinishCases ==
  ASSUME TypeOK, CountInv, NEW t \in Task, Finish(t)
  PROVE running > 0 /\ (FreesSlot(t) \/ HandsOver(t))
<1> USE QueueConstants DEF TypeOK, CountInv, ConcurrencyBound, WorkConserving
<1>1. running > 0
  <2>1. IsFiniteSet(Running) /\ t \in Running
    BY FS_Subset DEF Running, Finish
  <2> QED
    BY <2>1, FS_EmptySet, FS_CardinalityType
<1>2. CASE queue = <<>>
  BY <1>1, <1>2 DEF Finish, RunNext, NothingToStart, Notify, IdleNow, FreesSlot
<1>3. CASE queue # <<>>
  <2>1. ~NothingToStart(queue, running - 1)
    BY <1>1, <1>3 DEF NothingToStart
  <2> QED
    BY <1>1, <1>3, <2>1 DEF Finish, RunNext, HandsOver
<1> QED
  BY <1>1, <1>2, <1>3

\* One of these is every step that changes the queue.
LEMMA StepCases ==
  ASSUME TypeOK, CountInv, [Next]_vars
  PROVE \/ \E t \in Task : Drop(t)
        \/ \E t \in Task : Add(t) /\ (StartsAtOnce(t) \/ Waits(t))
        \/ \E t \in Task : Finish(t) /\ running > 0 /\ (FreesSlot(t) \/ HandsOver(t))
        \/ Clear
        \/ \E w \in Waiter : OnIdle(w)
        \/ UNCHANGED vars
  BY AddCases, FinishCases DEF Next

\* Every step keeps the queue well typed.
LEMMA TypeStep == TypeOK /\ CountInv /\ [Next]_vars => TypeOK'
<1> SUFFICES ASSUME TypeOK, CountInv, [Next]_vars PROVE TypeOK'
  OBVIOUS
<1> USE QueueConstants DEF TypeOK, Settled
<1>1. ASSUME NEW t \in Task, Drop(t) PROVE TypeOK'
  BY <1>1 DEF Drop
<1>2. ASSUME NEW t \in Task, Add(t), StartsAtOnce(t) PROVE TypeOK'
  BY <1>2 DEF Add, StartsAtOnce
<1>3. ASSUME NEW t \in Task, Add(t), Waits(t) PROVE TypeOK'
  BY <1>3 DEF Add, Waits
<1>4. ASSUME NEW t \in Task, Finish(t), running > 0, FreesSlot(t) PROVE TypeOK'
  BY <1>4 DEF Finish, FreesSlot
<1>5. ASSUME NEW t \in Task, Finish(t), HandsOver(t) PROVE TypeOK'
  BY <1>5 DEF Finish, HandsOver
<1>6. CASE Clear
  BY <1>6 DEF Clear, Notify
<1>7. ASSUME NEW w \in Waiter, OnIdle(w) PROVE TypeOK'
  BY <1>7 DEF OnIdle, Unsettled
<1>8. CASE UNCHANGED vars
  BY <1>8 DEF vars
<1> QED
  BY StepCases, <1>1, <1>2, <1>3, <1>4, <1>5, <1>6, <1>7, <1>8

\* Every step keeps `running` the number of running tasks.
LEMMA CountStep == TypeOK /\ QueueInv /\ CountInv /\ [Next]_vars => CountInv'
<1> SUFFICES ASSUME TypeOK, QueueInv, CountInv, [Next]_vars PROVE CountInv'
  OBVIOUS
<1> USE QueueConstants DEF TypeOK, QueueInv, CountInv, ConcurrencyBound, WorkConserving
<1>0. IsFiniteSet(Running)
  BY FS_Subset DEF Running
<1>1. ASSUME NEW t \in Task, Drop(t) PROVE CountInv'
  <2>1. Running' = Running
    BY <1>1 DEF Drop, Running
  <2> QED
    BY <1>1, <2>1 DEF Drop
<1>2. ASSUME NEW t \in Task, Add(t), StartsAtOnce(t) PROVE CountInv'
  <2>1. Running' = Running \cup {t} /\ t \notin Running
    BY <1>2 DEF Add, StartsAtOnce, Running
  <2>2. Cardinality(Running') = Cardinality(Running) + 1
    BY <1>0, <2>1, FS_AddElement
  <2> QED
    BY <1>2, <2>2 DEF StartsAtOnce
<1>3. ASSUME NEW t \in Task, Add(t), Waits(t) PROVE CountInv'
  <2>1. Running' = Running
    BY <1>3 DEF Add, Waits, Running
  <2> QED
    BY <1>3, <2>1 DEF Waits
<1>4. ASSUME NEW t \in Task, Finish(t), running > 0, FreesSlot(t) PROVE CountInv'
  <2>1. Running' = Running \ {t} /\ t \in Running
    BY <1>4 DEF Finish, FreesSlot, Running
  <2>2. Cardinality(Running') = Cardinality(Running) - 1
    BY <1>0, <2>1, FS_RemoveElement
  <2> QED
    BY <1>4, <2>2 DEF FreesSlot
<1>5. ASSUME NEW t \in Task, Finish(t), HandsOver(t) PROVE CountInv'
  <2> DEFINE h == Head(queue)
  <2>1. h \in Task /\ promise[h] = "queued" /\ promise[t] = "running"
    BY <1>5 DEF Finish, HandsOver
  <2>2. Running' = (Running \ {t}) \cup {h} /\ t \in Running /\ h \notin Running
    BY <1>5, <2>1 DEF HandsOver, Running
  <2>3. /\ IsFiniteSet(Running \ {t})
        /\ Cardinality(Running \ {t}) = Cardinality(Running) - 1
    BY <1>0, <2>2, FS_RemoveElement
  <2>4. Cardinality(Running') = Cardinality(Running \ {t}) + 1
    BY <2>2, <2>3, FS_AddElement
  <2>5. Cardinality(Running) \in Nat
    BY <1>0, FS_CardinalityType
  <2>6. Cardinality(Running') = Cardinality(Running)
    BY <2>3, <2>4, <2>5
  <2> QED
    BY <1>5, <2>6 DEF HandsOver
<1>6. CASE Clear
  <2>1. Running' = Running
    BY <1>6 DEF Clear, Running
  <2> QED
    BY <1>6, <2>1 DEF Clear
<1>7. ASSUME NEW w \in Waiter, OnIdle(w) PROVE CountInv'
  BY <1>7 DEF OnIdle, Running
<1>8. CASE UNCHANGED vars
  BY <1>8 DEF vars, Running
<1> QED
  BY StepCases, <1>1, <1>2, <1>3, <1>4, <1>5, <1>6, <1>7, <1>8

\* Every step keeps the queue the waiting tasks, each once.
LEMMA QueueStep == TypeOK /\ QueueInv /\ CountInv /\ [Next]_vars => QueueInv'
<1> SUFFICES ASSUME TypeOK, QueueInv, CountInv, [Next]_vars PROVE QueueInv'
  OBVIOUS
<1> USE QueueConstants DEF TypeOK, QueueInv
<1>1. ASSUME NEW t \in Task, Drop(t) PROVE QueueInv'
  BY <1>1 DEF Drop
<1>2. ASSUME NEW t \in Task, Add(t), StartsAtOnce(t) PROVE QueueInv'
  BY <1>2 DEF Add, StartsAtOnce
<1>3. ASSUME NEW t \in Task, Add(t), Waits(t) PROVE QueueInv'
  <2>1. /\ Len(queue') = Len(queue) + 1
        /\ \A i \in 1..Len(queue) : queue'[i] = queue[i]
        /\ queue'[Len(queue) + 1] = t
    BY <1>3 DEF Waits
  <2>2. promise[t] = "new"
    BY <1>3 DEF Add
  <2> QED
    BY <1>3, <2>1, <2>2 DEF Waits
<1>4. ASSUME NEW t \in Task, Finish(t), FreesSlot(t) PROVE QueueInv'
  BY <1>4 DEF Finish, FreesSlot
<1>5. ASSUME NEW t \in Task, Finish(t), HandsOver(t) PROVE QueueInv'
  <2>1. /\ Len(queue) > 0 /\ Len(queue') = Len(queue) - 1
        /\ \A i \in 1..Len(queue') : queue'[i] = queue[i + 1]
        /\ Head(queue) = queue[1] /\ queue[1] \in Task
    BY <1>5 DEF HandsOver
  <2>2. promise[t] = "running" /\ promise[queue[1]] = "queued"
    BY <1>5, <2>1 DEF Finish
  <2>3. \A i \in 1..Len(queue) : i > 1 =>
          queue[i] = queue'[i - 1] /\ (i - 1) \in 1..Len(queue')
    BY <2>1
  <2>4. \A i \in 1..Len(queue') : promise'[queue'[i]] = "queued"
    BY <1>5, <2>1, <2>2 DEF HandsOver
  <2>5. ASSUME NEW i \in 1..Len(queue'), NEW j \in 1..Len(queue'), queue'[i] = queue'[j]
        PROVE i = j
    <3>1. i + 1 \in 1..Len(queue) /\ j + 1 \in 1..Len(queue)
      BY <2>1
    <3>2. queue[i + 1] = queue[j + 1]
      BY <2>1, <2>5
    <3>3. i + 1 = j + 1
      BY <3>1, <3>2
    <3> QED
      BY <3>3
  <2>6. ASSUME NEW u \in Task, promise'[u] = "queued"
        PROVE \E i \in 1..Len(queue') : queue'[i] = u
    <3>1. promise[u] = "queued" /\ u # queue[1]
      BY <1>5, <2>1, <2>6 DEF HandsOver
    <3>2. PICK i \in 1..Len(queue) : queue[i] = u
      BY <3>1
    <3> QED
      BY <2>3, <3>1, <3>2
  <2> QED
    BY <2>4, <2>5, <2>6
<1>6. CASE Clear
  BY <1>6 DEF Clear
<1>7. ASSUME NEW w \in Waiter, OnIdle(w) PROVE QueueInv'
  BY <1>7 DEF OnIdle
<1>8. CASE UNCHANGED vars
  BY <1>8 DEF vars
<1> QED
  BY StepCases, <1>1, <1>2, <1>3, <1>4, <1>5, <1>6, <1>7, <1>8

\* No task entered the queue both before and after another.
LEMMA BeforeAsymmetric ==
  ASSUME OrderInv, TypeOK, NEW t, NEW u, Before(t, u) PROVE ~Before(u, t)
<1>1. PICK i, j \in 1..Len(order) : i < j /\ order[i] = t /\ order[j] = u
  BY DEF Before, TypeOK
<1>2. ASSUME NEW k \in 1..Len(order), NEW l \in 1..Len(order),
             k < l, order[k] = u, order[l] = t
      PROVE FALSE
  <2>1. k = j /\ l = i
    BY <1>1, <1>2 DEF OrderInv
  <2> QED
    BY <1>1, <1>2, <2>1
<1> QED
  BY <1>2 DEF Before, TypeOK

\* Appending to `order` changes the order of no two tasks.
LEMMA BeforeAppend ==
  ASSUME TypeOK, NEW t \in Task, order' = Append(order, t), NEW u, NEW v
  PROVE /\ Before(u, v) => Before(u, v)'
        /\ Before(u, v)' => \/ Before(u, v)
                            \/ v = t /\ \E i \in 1..Len(order) : order[i] = u
<1> USE DEF TypeOK
<1>1. /\ Len(order') = Len(order) + 1
      /\ order'[Len(order) + 1] = t
      /\ \A i \in 1..Len(order) : order'[i] = order[i]
      /\ DOMAIN order = 1..Len(order) /\ DOMAIN order' = 1..Len(order')
  OBVIOUS
<1>2. Before(u, v) => Before(u, v)'
  BY <1>1 DEF Before
<1>3. ASSUME Before(u, v)'
      PROVE Before(u, v) \/ (v = t /\ \E i \in 1..Len(order) : order[i] = u)
  <2>1. PICK i, j \in 1..Len(order') : i < j /\ order'[i] = u /\ order'[j] = v
    BY <1>1, <1>3 DEF Before
  <2>2. i \in 1..Len(order)
    BY <1>1, <2>1
  <2>3. CASE j = Len(order) + 1
    BY <1>1, <2>1, <2>2, <2>3
  <2>4. CASE j # Len(order) + 1
    <3>1. j \in 1..Len(order)
      BY <1>1, <2>4
    <3> QED
      BY <1>1, <2>1, <2>2, <3>1 DEF Before
  <2> QED
    BY <2>3, <2>4
<1> QED
  BY <1>2, <1>3

\* Every step keeps the queue in the order of arrival.
LEMMA OrderStep ==
  TypeOK /\ QueueInv /\ CountInv /\ OrderInv /\ QueueInv' /\ [Next]_vars => OrderInv'
<1> SUFFICES ASSUME TypeOK, QueueInv, CountInv, OrderInv, QueueInv', [Next]_vars
             PROVE OrderInv'
  OBVIOUS
<1> USE DEF TypeOK
<1>1. ASSUME NEW t \in Task, Drop(t) PROVE OrderInv'
  BY <1>1 DEF Drop, OrderInv, Before
<1>2. ASSUME NEW t \in Task, Add(t), StartsAtOnce(t) \/ Waits(t) PROVE OrderInv'
  <2>1. /\ Len(order') = Len(order) + 1
        /\ order'[Len(order) + 1] = t
        /\ \A i \in 1..Len(order) : order'[i] = order[i]
        /\ DOMAIN order = 1..Len(order) /\ DOMAIN order' = 1..Len(order')
    BY <1>2 DEF Add
  <2>2. promise[t] = "new" /\ promise'[t] \in {"queued", "running"}
    BY <1>2 DEF Add, StartsAtOnce, Waits
  <2>3. \A u \in Task : u # t => promise'[u] = promise[u]
    BY <1>2 DEF StartsAtOnce, Waits
  <2>4. \A i \in 1..Len(order) : order[i] # t /\ order[i] \in Task
    BY <2>2 DEF OrderInv
  <2>5. \A i, j \in 1..Len(order') : order'[i] = order'[j] => i = j
    BY <2>1, <2>4 DEF OrderInv
  <2>6. \A i \in 1..Len(order') : promise'[order'[i]] \notin {"new", "dropped"}
    BY <2>1, <2>2, <2>3, <2>4 DEF OrderInv
  <2>7. \A u \in Task : promise'[u] \in {"queued", "running", "finished", "cancelled"} =>
          \E i \in 1..Len(order') : order'[i] = u
    BY <2>1, <2>3 DEF OrderInv
  <2>8. \A i, j \in 1..Len(queue') : i < j => Before(queue[i], queue[j])'
    <3>1. CASE StartsAtOnce(t)
      BY <3>1 DEF StartsAtOnce
    <3>2. ASSUME Waits(t), NEW i \in 1..Len(queue'), NEW j \in 1..Len(queue'), i < j
          PROVE Before(queue[i], queue[j])'
      <4>1. /\ Len(queue') = Len(queue) + 1
            /\ queue'[Len(queue) + 1] = t
            /\ \A k \in 1..Len(queue) : queue'[k] = queue[k]
        BY <3>2 DEF Waits
      <4>2. i \in 1..Len(queue) /\ queue[i] \in Task /\ queue'[i] = queue[i]
        BY <3>2, <4>1
      <4>3. PICK u \in Task : u = queue[i]
        BY <4>2
      <4>4. PICK v \in Task : v = queue'[j]
        <5>1. j = Len(queue) + 1 \/ j \in 1..Len(queue)
          BY <3>2, <4>1
        <5> QED
          BY <4>1, <5>1
      <4>5. Before(u, v)'
        <5>1. CASE j = Len(queue) + 1
          <6>1. PICK k \in 1..Len(order) : order[k] = u
            BY <4>2, <4>3 DEF OrderInv, QueueInv
          <6>2. v = t
            BY <4>1, <4>4, <5>1
          <6>3. k < Len(order) + 1 /\ k \in DOMAIN order' /\ Len(order) + 1 \in DOMAIN order'
            BY <2>1
          <6>4. order'[k] = u /\ order'[Len(order) + 1] = v
            BY <2>1, <6>1, <6>2
          <6> QED
            BY <6>3, <6>4 DEF Before
        <5>2. CASE j # Len(queue) + 1
          <6>1. j \in 1..Len(queue) /\ v = queue[j]
            BY <4>1, <4>4, <5>2
          <6>2. Before(u, v)
            BY <3>2, <4>2, <4>3, <6>1 DEF OrderInv
          <6> QED
            BY <2>1, <6>2 DEF Before
        <5> QED
          BY <5>1, <5>2
      <4> QED
        BY <4>2, <4>3, <4>4, <4>5 DEF Before
    <3> QED
      BY <1>2, <3>1, <3>2 DEF Before
  <2> QED
    BY <2>5, <2>6, <2>7, <2>8 DEF OrderInv
<1>3. ASSUME NEW t \in Task, Finish(t), FreesSlot(t) PROVE OrderInv'
  BY <1>3 DEF Finish, FreesSlot, OrderInv, Before
<1>4. ASSUME NEW t \in Task, Finish(t), HandsOver(t) PROVE OrderInv'
  <2>1. /\ Len(queue) > 0 /\ Len(queue') = Len(queue) - 1
        /\ \A i \in 1..Len(queue') : queue'[i] = queue[i + 1]
        /\ Head(queue) = queue[1] /\ queue[1] \in Task
    BY <1>4 DEF HandsOver
  <2>2. order' = order
    BY <1>4 DEF Finish
  <2>3. promise[queue[1]] = "queued"
    BY <2>1 DEF QueueInv
  <2>4. \A u \in Task : promise'[u] # promise[u] =>
          /\ promise[u] \in {"queued", "running"}
          /\ promise'[u] \in {"running", "finished"}
    BY <1>4, <2>1, <2>3 DEF Finish, HandsOver
  <2>5. \A i \in 1..Len(order') : promise'[order'[i]] \notin {"new", "dropped"}
    BY <2>2, <2>4 DEF OrderInv
  <2>6. \A u \in Task : promise'[u] \in {"queued", "running", "finished", "cancelled"} =>
          \E i \in 1..Len(order') : order'[i] = u
    BY <2>2, <2>4 DEF OrderInv
  <2>7. ASSUME NEW i \in 1..Len(queue'), NEW j \in 1..Len(queue'), i < j
        PROVE Before(queue[i], queue[j])'
    <3>1. i + 1 \in 1..Len(queue) /\ j + 1 \in 1..Len(queue)
      BY <2>1
    <3>2. Before(queue[i + 1], queue[j + 1])
      BY <2>7, <3>1 DEF OrderInv
    <3> QED
      BY <2>1, <2>2, <3>2 DEF Before
  <2> QED
    BY <2>2, <2>5, <2>6, <2>7 DEF OrderInv
<1>5. CASE Clear
  <2>1. order' = order /\ queue' = <<>>
    BY <1>5 DEF Clear
  <2>2. \A u \in Task : promise'[u] # promise[u] =>
          promise[u] = "queued" /\ promise'[u] = "cancelled"
    BY <1>5 DEF Clear, QueueInv
  <2>3. \A i \in 1..Len(order') : promise'[order'[i]] \notin {"new", "dropped"}
    BY <2>1, <2>2 DEF OrderInv
  <2>4. \A u \in Task : promise'[u] \in {"queued", "running", "finished", "cancelled"} =>
          \E i \in 1..Len(order') : order'[i] = u
    BY <2>1, <2>2 DEF OrderInv
  <2> QED
    BY <2>1, <2>3, <2>4 DEF OrderInv
<1>6. ASSUME NEW w \in Waiter, OnIdle(w) PROVE OrderInv'
  BY <1>6 DEF OnIdle, OrderInv, Before
<1>7. CASE UNCHANGED vars
  <2>1. queue' = queue /\ order' = order /\ promise' = promise
    BY <1>7 DEF vars
  <2> QED
    BY <2>1 DEF OrderInv, Before
<1> QED
  BY StepCases, <1>1, <1>2, <1>3, <1>4, <1>5, <1>6, <1>7

\* The order of arrival is kept: a task that starts was first in the queue.
LEMMA FifoStep ==
  TypeOK /\ QueueInv /\ CountInv /\ OrderInv /\ Fifo /\ QueueInv' /\ [Next]_vars => Fifo'
<1> SUFFICES ASSUME TypeOK, QueueInv, CountInv, OrderInv, Fifo, QueueInv', [Next]_vars,
                    NEW x \in Task, NEW u \in Task,
                    promise'[x] = "queued", Before(x, u)'
             PROVE promise'[u] \in {"queued", "cancelled"}
  BY DEF Fifo
<1> USE DEF TypeOK
<1>0. queue' # <<>>
  BY DEF QueueInv
<1>1. ASSUME NEW t \in Task, Drop(t) PROVE promise'[u] \in {"queued", "cancelled"}
  BY <1>1 DEF Drop, Before, Fifo
<1>2. ASSUME NEW t \in Task, Add(t), Waits(t) PROVE promise'[u] \in {"queued", "cancelled"}
  <2>1. order' = Append(order, t) /\ promise[t] = "new"
    BY <1>2 DEF Add
  <2>2. CASE u = t
    BY <1>2, <2>2 DEF Waits
  <2>3. CASE u # t
    <3>1. Before(x, u)
      BY <2>1, <2>3, BeforeAppend
    <3>2. x # t
      BY <2>1, <3>1 DEF OrderInv, Before
    <3> QED
      BY <1>2, <2>3, <3>1, <3>2 DEF Fifo, Waits
  <2> QED
    BY <2>2, <2>3
<1>3. ASSUME NEW t \in Task, Finish(t), HandsOver(t)
      PROVE promise'[u] \in {"queued", "cancelled"}
  <2>1. queue[1] = Head(queue) /\ 1 \in 1..Len(queue) /\ order' = order
    BY <1>3 DEF Finish, HandsOver
  <2>2. x # queue[1] /\ promise[x] = "queued"
    BY <1>3, <2>1 DEF HandsOver
  <2>3. Before(x, u)
    BY <2>1 DEF Before
  <2>4. promise[u] \in {"queued", "cancelled"} /\ u # t
    BY <1>3, <2>2, <2>3 DEF Fifo, Finish
  <2>5. PICK i \in 1..Len(queue) : queue[i] = x
    BY <2>2 DEF QueueInv
  <2>6. Before(queue[1], queue[i])
    BY <2>1, <2>2, <2>5 DEF OrderInv
  <2>7. u # queue[1]
    BY <2>3, <2>5, <2>6, BeforeAsymmetric
  <2> QED
    BY <1>3, <2>1, <2>4, <2>7 DEF HandsOver
<1>4. ASSUME NEW w \in Waiter, OnIdle(w) PROVE promise'[u] \in {"queued", "cancelled"}
  BY <1>4 DEF OnIdle, Before, Fifo
<1>5. CASE UNCHANGED vars
  BY <1>5 DEF vars, Before, Fifo
<1>6. ASSUME NEW t \in Task, StartsAtOnce(t) \/ FreesSlot(t) PROVE FALSE
  BY <1>0, <1>6 DEF StartsAtOnce, FreesSlot
<1>7. CASE Clear
  BY <1>0, <1>7 DEF Clear
<1> QED
  BY StepCases, <1>1, <1>2, <1>3, <1>4, <1>5, <1>6, <1>7

\* A waiter leaves the list only when nothing runs or waits.
WaitersInv == NoLostWakeup /\ IdleMeansDone /\ PledgeInv

\* Every step keeps waiters only while tasks run.
LEMMA WaitersStep ==
  TypeOK /\ QueueInv /\ CountInv /\ WaitersInv /\ [Next]_vars => WaitersInv'
<1> SUFFICES ASSUME TypeOK, QueueInv, CountInv, WaitersInv, [Next]_vars
             PROVE WaitersInv'
  OBVIOUS
<1> USE QueueConstants DEF TypeOK, WaitersInv, NoLostWakeup, IdleMeansDone, PledgeInv, Settled
<1>0. /\ IsFiniteSet(Running)
      /\ running = Cardinality(Running) /\ running =< MaxConcurrency
      /\ queue # <<>> => running = MaxConcurrency
  BY FS_Subset DEF Running, CountInv, ConcurrencyBound, WorkConserving
<1>1. ASSUME NEW t \in Task, Drop(t) PROVE WaitersInv'
  BY <1>1 DEF Drop
<1>2. ASSUME NEW t \in Task, Add(t), StartsAtOnce(t) PROVE WaitersInv'
  BY <1>2 DEF Add, StartsAtOnce
<1>3. ASSUME NEW t \in Task, Add(t), Waits(t) PROVE WaitersInv'
  BY <1>3 DEF Add, Waits
<1>4. ASSUME NEW t \in Task, Finish(t), running > 0, FreesSlot(t) PROVE WaitersInv'
  <2>1. CASE running = 1
    <3>1. \A u \in Task : promise[u] = "running" => u = t
      <4>1. t \in Running
        BY <1>4 DEF Finish, Running
      <4>2. IsFiniteSet(Running \ {t}) /\ Cardinality(Running \ {t}) = 0
        <5>1. /\ IsFiniteSet(Running \ {t})
              /\ Cardinality(Running \ {t}) = Cardinality(Running) - 1
          BY <1>0, <4>1, FS_RemoveElement
        <5> QED
          BY <1>0, <2>1, <5>1
      <4>3. Running \ {t} = {}
        BY <4>2, FS_EmptySet
      <4> QED
        BY <4>3 DEF Running
    <3>2. \A u \in Task : promise[u] # "queued"
      BY <1>4 DEF FreesSlot, QueueInv
    <3> QED
      BY <1>4, <2>1, <3>1, <3>2 DEF Finish, FreesSlot
  <2>2. CASE running # 1
    BY <1>4, <2>2 DEF Finish, FreesSlot
  <2> QED
    BY <2>1, <2>2
<1>5. ASSUME NEW t \in Task, Finish(t), HandsOver(t) PROVE WaitersInv'
  <2>1. promise[Head(queue)] = "queued" /\ Head(queue) \in Task
    BY <1>5 DEF HandsOver, QueueInv
  <2> QED
    BY <1>5, <2>1 DEF Finish, HandsOver
<1>6. CASE Clear
  <2>1. ~IdleNow(queue, running) => (IdleNow(<<>>, running) => idle = {})
    BY DEF IdleNow
  <2>2. idle' = idle
    BY <1>6, <2>1 DEF Clear, Notify, IdleNow
  <2> QED
    BY <1>6, <2>2 DEF Clear
<1>7. ASSUME NEW w \in Waiter, OnIdle(w) PROVE WaitersInv'
  <2>1. CASE IdleNow(queue, running)
    <3>1. Unsettled = {}
      <4>1. Running = {}
        BY <1>0, <2>1, FS_EmptySet DEF IdleNow
      <4>2. \A u \in Task : promise[u] # "queued"
        BY <2>1 DEF IdleNow, QueueInv
      <4> QED
        BY <4>1, <4>2 DEF Running, Unsettled
    <3> QED
      BY <1>7, <2>1, <3>1 DEF OnIdle
  <2>2. CASE ~IdleNow(queue, running)
    <3>1. running > 0
      BY <1>0, <2>2 DEF IdleNow
    <3> QED
      BY <1>7, <2>2, <3>1 DEF OnIdle, Unsettled
  <2> QED
    BY <2>1, <2>2
<1>8. CASE UNCHANGED vars
  BY <1>8 DEF vars
<1> QED
  BY StepCases, <1>1, <1>2, <1>3, <1>4, <1>5, <1>6, <1>7, <1>8

----------------------------------------------------------------------------
\* The inductive invariant behind the theorems.
Inv == TypeOK /\ QueueInv /\ CountInv /\ OrderInv /\ Fifo /\ WaitersInv

\* Every reachable state of the queue satisfies the inductive invariant.
THEOREM Invariance == Spec => []Inv
<1>1. Init => Inv
  <2> SUFFICES ASSUME Init PROVE Inv
    OBVIOUS
  <2> USE QueueConstants DEF Init
  <2>1. TypeOK
    BY DEF TypeOK, NotCalled
  <2>2. QueueInv /\ OrderInv /\ Fifo
    BY DEF QueueInv, OrderInv, Fifo, Before
  <2>3. CountInv
    <3>1. Running = {}
      BY DEF Running
    <3> QED
      BY <3>1, FS_EmptySet DEF CountInv, ConcurrencyBound, WorkConserving
  <2>4. WaitersInv
    BY DEF WaitersInv, NoLostWakeup, IdleMeansDone, PledgeInv, NotCalled
  <2> QED
    BY <2>1, <2>2, <2>3, <2>4 DEF Inv
<1>2. Inv /\ [Next]_vars => Inv'
  BY TypeStep, QueueStep, CountStep, OrderStep, FifoStep, WaitersStep DEF Inv
<1> QED
  BY <1>1, <1>2, PTL DEF Spec

\* Every reachable state is well typed.
THEOREM TypeCorrect == Spec => []TypeOK
  BY Invariance, PTL DEF Inv

\* At most maxConcurrency tasks run, and the counter counts them.
THEOREM Bounded == Spec => []ConcurrencyBound
  BY Invariance, PTL DEF Inv, CountInv

\* No slot is free while a task waits.
THEOREM NoIdleSlot == Spec => []WorkConserving
  BY Invariance, PTL DEF Inv, CountInv

\* Tasks start in the order they were added.
THEOREM FirstComeFirstServed == Spec => []Fifo
  BY Invariance, PTL DEF Inv

\* A waiter is kept only while a task runs: its wake-up is not lost.
THEOREM WakeupsKept == Spec => []NoLostWakeup
  BY Invariance, PTL DEF Inv, WaitersInv

\* onIdle resolves only when everything it was called for is over.
THEOREM IdleIsOver == Spec => []IdleMeansDone
  BY Invariance, PTL DEF Inv, WaitersInv

----------------------------------------------------------------------------
\* A task that waits in place i is started by the i-th completion from now,
\* unless it is cancelled: each completion moves it up by exactly one place,
\* and neither newcomers nor waiters move it back.
WaitShrinks ==
  \A i \in 1..Len(queue) :
    IF \E t \in Task : promise[t] = "running" /\ promise'[t] = "finished"
      THEN IF i = 1 THEN promise'[queue[i]] = "running"
                    ELSE i - 1 \in 1..Len(queue') /\ queue'[i - 1] = queue[i]
      ELSE \/ i \in 1..Len(queue') /\ queue'[i] = queue[i]
           \/ promise'[queue[i]] = "cancelled"

\* runNext takes the head and only the head, add appends, and no completion
\* goes by without a runNext: nobody who waits is ever passed over.
THEOREM BoundedWait == Spec => [][WaitShrinks]_vars
<1>1. Inv /\ [Next]_vars => WaitShrinks
  <2> SUFFICES ASSUME Inv, [Next]_vars, NEW i \in 1..Len(queue)
               PROVE  WaitShrinks!(i)
    BY DEF WaitShrinks
  <2>0. /\ queue \in Seq(Task) /\ queue[i] \in Task /\ queue # <<>>
        /\ promise[queue[i]] = "queued"
        /\ promise \in [Task -> {"new", "queued", "running"} \cup Settled]
        /\ running = MaxConcurrency
    BY DEF Inv, TypeOK, QueueInv, CountInv, WorkConserving
  <2>1. ASSUME UNCHANGED queue,
               \A t \in Task : promise[t] = "running" => promise'[t] = "running"
        PROVE  WaitShrinks!(i)
    BY <2>1
  <2>2. ASSUME NEW t \in Task, Drop(t) PROVE WaitShrinks!(i)
    BY <2>0, <2>1, <2>2 DEF Drop
  <2>3. ASSUME NEW t \in Task, Add(t), StartsAtOnce(t) \/ Waits(t)
        PROVE  WaitShrinks!(i)
    <3>1. promise[t] = "new" /\ Waits(t)
      BY <2>0, <2>3 DEF Add, StartsAtOnce
    <3>2. i \in 1..Len(queue') /\ queue'[i] = queue[i]
      BY <2>0, <3>1 DEF Waits
    <3>3. \A u \in Task : promise[u] = "running" => promise'[u] = "running"
      BY <2>0, <3>1 DEF Waits
    <3> QED
      BY <3>2, <3>3
  <2>4. ASSUME NEW t \in Task, Finish(t), FreesSlot(t) \/ HandsOver(t)
        PROVE  WaitShrinks!(i)
    <3>1. HandsOver(t) /\ promise[t] = "running"
      BY <2>0, <2>4 DEF Finish, FreesSlot
    <3>2. /\ queue' = Tail(queue) /\ Head(queue) = queue[1]
          /\ promise[queue[1]] = "queued" /\ queue[1] \in Task
      BY <2>0, <3>1 DEF HandsOver, Inv, QueueInv
    <3>3. promise'[t] = "finished" /\ promise'[queue[1]] = "running"
      BY <2>0, <3>1, <3>2 DEF HandsOver
    <3>4. CASE i = 1
      BY <3>1, <3>3, <3>4
    <3>5. CASE i # 1
      <4>1. i - 1 \in 1..Len(queue') /\ queue'[i - 1] = queue[i]
        BY <2>0, <3>2, <3>5
      <4> QED
        BY <3>1, <3>3, <3>5, <4>1
    <3> QED
      BY <3>4, <3>5
  <2>5. CASE Clear
    BY <2>0, <2>5 DEF Clear
  <2>6. ASSUME NEW w \in Waiter, OnIdle(w) PROVE WaitShrinks!(i)
    BY <2>1, <2>6 DEF OnIdle
  <2>7. CASE UNCHANGED vars
    BY <2>1, <2>7 DEF vars
  <2> QED
    BY <2>2, <2>3, <2>4, <2>5, <2>6, <2>7, StepCases DEF Inv
<1> QED
  BY <1>1, Invariance, PTL DEF Spec
=============================================================================
