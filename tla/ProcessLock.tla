---------------------------- MODULE ProcessLock ----------------------------
(***************************************************************************)
(* ProcessLockManager (process/lock-manager.mts): the advisory lock that   *)
(* several Node processes take by creating one directory, `lockPath`.      *)
(*                                                                         *)
(* A call is one withLock(lockPath, fn).  Each process runs its calls on   *)
(* one JavaScript thread: a synchronous stretch of the code is never       *)
(* interrupted by another call or by a timer of the same process, but the  *)
(* system calls of two processes interleave freely, so every system call   *)
(* that reads or changes the directory is a step of its own.               *)
(*                                                                         *)
(* Time is a clock of abstract ticks; steps other than Tick take no time.  *)
(***************************************************************************)
EXTENDS Integers, FiniteSets

CONSTANTS
  Call,           \* the withLock calls that are ever made
  Process,        \* the processes that share the file system
  ProcOf,         \* the process that makes each call
  None,           \* no directory
  Retries,        \* options.retries
  StaleMs,        \* options.staleMs, in ticks
  TouchInterval,  \* options.touchIntervalMs, in ticks; 0 disables touching
  MaxLag,         \* how late a live process's timer may fire, in ticks
  MaxClock,       \* bound on the clock
  Deletable,      \* may safeDeleteSync delete lockPath without `force`?
  MkdirMayFail,   \* may mkdirSync fail for another reason than EEXIST?
  MayExit,        \* processes that may exit while calls are pending
  MayCrash,       \* processes that may die without running exit handlers
  MayAbort        \* processes whose shared AbortController may abort

ASSUME ConstantsType ==
  /\ ProcOf \in [Call -> Process]
  /\ None \notin Call
  /\ {Retries, StaleMs, TouchInterval, MaxLag, MaxClock} \subseteq Nat
  /\ {Deletable, MkdirMayFail} \subseteq BOOLEAN
  /\ UNION {MayExit, MayCrash, MayAbort} \subseteq Process

VARIABLES
  clock,      \* Date.now()
  owner,      \* the call whose mkdirSync made the directory, or None
  mtime,      \* modification time of the directory, while there is one
  pc,         \* where each call stands
  attempts,   \* attempts pRetry still grants each call
  tracked,    \* lockPath \in activeLocks, per process
  timer,      \* touchTimers.has(lockPath), per process
  due,        \* when the touch timer was last scheduled to fire
  status,     \* life of each process
  aborted,    \* getAbortSignal().aborted, per process
  reclaimed   \* history: some attempt has judged a directory stale

vars == <<clock, owner, mtime, pc, attempts, tracked, timer, due, status,
          aborted, reclaimed>>

----------------------------------------------------------------------------
\* Where a call can stand.  "stale": isStale returned true, the deletion is
\* next; "make": mkdirSync is next; "wait": in pRetry's delay; "locked": fn
\* runs, the directory was created; "unlocked": fn runs after acquire returned
\* undefined; "remove": release saw a directory and deletes it next.
Settled == {"done", "failed"}
Busy == {"stale", "make", "remove"}
Places == {"start", "wait", "locked", "unlocked"} \cup Busy \cup Settled

CallsOf(p) == {c \in Call : ProcOf[c] = p}
Alive(c) == status[ProcOf[c]] \in {"up", "exiting"}
Holds(c) == Alive(c) /\ pc[c] \in {"locked", "remove"}

\* The JavaScript thread of p is free to start another turn.
Idle(p) == /\ status[p] = "up"
           /\ \A c \in CallsOf(p) : pc[c] \notin Busy

\* isStale: a directory strictly older than staleMs; none is not stale.
StaleAtLimit == owner # None /\ clock - mtime >= StaleMs    \* mutant
Stale == owner # None /\ clock - mtime > StaleMs

\* mkdirSync(lockPath) is not recursive: it succeeds only on an absent path.
VacantRecursive == TRUE    \* mutant: { recursive: true }
Vacant == owner = None

\* What safeDeleteSync(lockPath) leaves: it removes whatever directory is
\* there, and throws, leaving it, when the path needs `force`.
AfterDelete == IF Deletable THEN None ELSE owner

\* The mtime that touchLock leaves: utimesSync refreshes whatever directory is
\* there; one that vanishes after existsSync only makes it throw.
TouchedNever == mtime    \* mutant: existsSync negated
TouchedInMilliseconds == IF owner # None THEN 1000 * clock ELSE mtime  \* mutant
Touched == IF owner # None THEN clock ELSE mtime

\* pRetry's `attempts--`: the first attempt and every retry take one.
AttemptNotCounted(c) == attempts[c]    \* mutant
AttemptsAfter(c) == attempts[c] - 1

\* The exit handler of p finds a directory to delete: existsSync, for a path
\* in activeLocks.
ExitFindsNone(p) == FALSE             \* mutant: iterates the cleared timers
ExitFindsAny(p) == owner # None       \* mutant: does not ask activeLocks
ExitFinds(p) == tracked[p] /\ owner # None

Init ==
  /\ clock = 0
  /\ owner = None
  /\ mtime = 0
  /\ pc = [c \in Call |-> "start"]
  /\ attempts = [c \in Call |-> Retries + 1]
  /\ tracked = [p \in Process |-> FALSE]
  /\ timer = [p \in Process |-> FALSE]
  /\ due = [p \in Process |-> 0]
  /\ status = [p \in Process |-> "up"]
  /\ aborted = [p \in Process |-> FALSE]
  /\ reclaimed = FALSE

----------------------------------------------------------------------------
\* acquire, up to and including the first statSync of isStale.  pRetry runs
\* the callback at once on the first attempt and after its delay on a later
\* one.  The second isStale, after EEXIST, only words the error.
Attempt(c) ==
  /\ pc[c] \in {"start", "wait"}
  /\ Idle(ProcOf[c])
  /\ ~aborted[ProcOf[c]]
  /\ attempts' = [attempts EXCEPT ![c] = AttemptsAfter(c)]
  /\ pc' = [pc EXCEPT ![c] = IF Stale THEN "stale" ELSE "make"]
  /\ reclaimed' = (reclaimed \/ Stale)
  /\ UNCHANGED <<clock, owner, mtime, tracked, timer, due, status, aborted>>

\* pRetry finds the signal aborted, or its delay rejects: it returns
\* undefined, acquire returns it, and withLock calls fn.
AcquireUndefined(c) ==
  /\ pc[c] \in {"start", "wait"}
  /\ Idle(ProcOf[c])
  /\ aborted[ProcOf[c]]
  /\ pc' = [pc EXCEPT ![c] = "unlocked"]
  /\ UNCHANGED <<clock, owner, mtime, attempts, tracked, timer, due, status,
                 aborted, reclaimed>>

\* acquire deletes the directory it judged stale; an error is swallowed.
RemoveStale(c) ==
  /\ pc[c] = "stale"
  /\ status[ProcOf[c]] = "up"
  /\ owner' = AfterDelete
  /\ pc' = [pc EXCEPT ![c] = "make"]
  /\ UNCHANGED <<clock, mtime, attempts, tracked, timer, due, status, aborted,
                 reclaimed>>

\* mkdirSync succeeds; the path is tracked, and startTouchTimer starts a timer
\* unless the process already has one for the path or touching is disabled.
MakeDir(c) ==
  LET p == ProcOf[c] IN
  /\ pc[c] = "make"
  /\ status[p] = "up"
  /\ Vacant
  /\ owner' = c
  /\ mtime' = clock
  /\ pc' = [pc EXCEPT ![c] = "locked"]
  /\ tracked' = [tracked EXCEPT ![p] = TRUE]
  /\ IF TouchInterval = 0 \/ timer[p]
       THEN UNCHANGED <<timer, due>>
       ELSE /\ timer' = [timer EXCEPT ![p] = TRUE]
            /\ due' = [due EXCEPT ![p] = clock + TouchInterval]
  /\ UNCHANGED <<clock, attempts, status, aborted, reclaimed>>

\* mkdirSync throws, EEXIST or not: pRetry retries any error alike, and the
\* call fails with the last one when no attempt is left.
MakeFails(c) ==
  /\ pc[c] = "make"
  /\ status[ProcOf[c]] = "up"
  /\ ~Vacant \/ MkdirMayFail
  /\ pc' = [pc EXCEPT ![c] = IF attempts[c] > 0 THEN "wait" ELSE "failed"]
  /\ UNCHANGED <<clock, owner, mtime, attempts, tracked, timer, due, status,
                 aborted, reclaimed>>

\* fn settles and release runs up to its existsSync: the touch timer is
\* stopped; with no directory to delete, the path is untracked at once.
ReleaseCheck(c) ==
  LET p == ProcOf[c] IN
  /\ pc[c] = "locked"
  /\ Idle(p)
  /\ timer' = [timer EXCEPT ![p] = FALSE]
  /\ pc' = [pc EXCEPT ![c] = IF owner = None THEN "done" ELSE "remove"]
  /\ tracked' = [tracked EXCEPT ![p] = @ /\ owner # None]
  /\ UNCHANGED <<clock, owner, mtime, attempts, due, status, aborted,
                 reclaimed>>

\* release deletes the directory, whoever made it; if that throws, the error
\* is logged and the path stays tracked.
ReleaseDelete(c) ==
  /\ pc[c] = "remove"
  /\ status[ProcOf[c]] = "up"
  /\ owner' = AfterDelete
  /\ tracked' = [tracked EXCEPT ![ProcOf[c]] = @ /\ ~Deletable]
  /\ pc' = [pc EXCEPT ![c] = "done"]
  /\ UNCHANGED <<clock, mtime, attempts, timer, due, status, aborted,
                 reclaimed>>

\* fn settles in a call that was never given a release function: calling
\* undefined throws a TypeError and the call rejects.
ReleaseUndefined(c) ==
  /\ pc[c] = "unlocked"
  /\ Idle(ProcOf[c])
  /\ pc' = [pc EXCEPT ![c] = "failed"]
  /\ UNCHANGED <<clock, owner, mtime, attempts, tracked, timer, due, status,
                 aborted, reclaimed>>

----------------------------------------------------------------------------
\* The touch timer fires; an error is only logged.
Touch(p) ==
  /\ Idle(p)
  /\ timer[p]
  /\ due[p] =< clock
  /\ mtime' = Touched
  /\ due' = [due EXCEPT ![p] = clock + TouchInterval]
  /\ UNCHANGED <<clock, owner, pc, attempts, tracked, timer, status, aborted,
                 reclaimed>>

\* The process exits: its handler clears the timers and looks for the
\* directory of a tracked path.
ExitCheck(p) ==
  /\ p \in MayExit
  /\ Idle(p)
  /\ timer' = [timer EXCEPT ![p] = FALSE]
  /\ status' = [status EXCEPT ![p] =
                  IF ExitFinds(p) THEN "exiting" ELSE "exited"]
  /\ UNCHANGED <<clock, owner, mtime, pc, attempts, tracked, due, aborted,
                 reclaimed>>

\* The exit handler deletes the directory, ignoring errors.
ExitDelete(p) ==
  /\ status[p] = "exiting"
  /\ owner' = AfterDelete
  /\ status' = [status EXCEPT ![p] = "exited"]
  /\ UNCHANGED <<clock, mtime, pc, attempts, tracked, timer, due, aborted,
                 reclaimed>>

\* The process dies at any point without running its exit handlers.
Crash(p) ==
  /\ p \in MayCrash
  /\ status[p] \in {"up", "exiting"}
  /\ status' = [status EXCEPT ![p] = "crashed"]
  /\ UNCHANGED <<clock, owner, mtime, pc, attempts, tracked, timer, due,
                 aborted, reclaimed>>

\* Some code of the process aborts the shared controller.
Abort(p) ==
  /\ p \in MayAbort
  /\ Idle(p)
  /\ ~aborted[p]
  /\ aborted' = [aborted EXCEPT ![p] = TRUE]
  /\ UNCHANGED <<clock, owner, mtime, pc, attempts, tracked, timer, due,
                 status, reclaimed>>

\* p has a touch to make, or deletes the directory instead of touching it.
OnDuty(p) == \/ timer[p] /\ status[p] = "up"
             \/ status[p] = "exiting"
             \/ status[p] = "up" /\ \E c \in CallsOf(p) : pc[c] = "remove"

\* Time passes, but no live process falls more than MaxLag behind its touch
\* timer, be it to touch the directory or to delete it.
Tick ==
  /\ clock < MaxClock
  /\ TouchInterval > 0 =>
       \A p \in Process : OnDuty(p) => clock < due[p] + MaxLag
  /\ clock' = clock + 1
  /\ UNCHANGED <<owner, mtime, pc, attempts, tracked, timer, due, status,
                 aborted, reclaimed>>

----------------------------------------------------------------------------
CallStep(c) ==
  \/ Attempt(c)
  \/ AcquireUndefined(c)
  \/ RemoveStale(c)
  \/ MakeDir(c)
  \/ MakeFails(c)
  \/ ReleaseCheck(c)
  \/ ReleaseDelete(c)
  \/ ReleaseUndefined(c)

ProcessStep(p) ==
  \/ Touch(p)
  \/ ExitCheck(p)
  \/ ExitDelete(p)
  \/ Crash(p)
  \/ Abort(p)

Next ==
  \/ \E c \in Call : CallStep(c)
  \/ \E p \in Process : ProcessStep(p)
  \/ Tick

Spec == Init /\ [][Next]_vars

\* A live process keeps running its calls: its callbacks settle, its delays
\* end and its exit handler finishes.
Fairness ==
  /\ \A c \in Call : WF_vars(CallStep(c))
  /\ \A p \in Process : WF_vars(ExitDelete(p))

FairSpec == Spec /\ Fairness

----------------------------------------------------------------------------
\* Type invariant.
TypeOK ==
  /\ clock \in 0..MaxClock
  /\ owner \in Call \cup {None}
  /\ mtime \in 0..MaxClock
  /\ pc \in [Call -> Places]
  /\ attempts \in [Call -> Int]
  /\ tracked \in [Process -> BOOLEAN]
  /\ timer \in [Process -> BOOLEAN]
  /\ due \in [Process -> Nat]
  /\ status \in [Process -> {"up", "exiting", "exited", "crashed"}]
  /\ aborted \in [Process -> BOOLEAN]
  /\ reclaimed \in BOOLEAN

\* The options leave room for a late touch before the lock looks stale, as
\* the defaults do (touch every 2 s, stale after 5 s).
Timely == TouchInterval > 0 /\ TouchInterval + MaxLag =< StaleMs

\* Nothing the lock cannot recover from by itself: no process dies or aborts,
\* lockPath can be deleted, and touches come in time.  Exits are allowed.
SafeDeployment == Timely /\ Deletable /\ MayCrash = {} /\ MayAbort = {}

\* The callback of c runs, with or without the lock, or is being released.
Runs(c) == Alive(c) /\ pc[c] \in {"locked", "remove", "unlocked"}
Ran(c) == pc[c] \in {"locked", "remove", "unlocked", "done"}

\* withLock: "exclusive lock protection", "only one process runs a critical
\* section at a time".  Two callbacks never run at the same time.
MutualExclusion == \A c, d \in Call : Runs(c) /\ Runs(d) => c = d

\* The lock implements the abstract critical section: a callback starts only
\* when none runs, and runs once however often acquire retries.
Section == INSTANCE CriticalSection WITH
             inside <- {c \in Call : Runs(c)},
             entered <- {c \in Call : Ran(c)}
ImplementsCriticalSection == Section!Spec

\* Crashes, aborts, exits, late timers and undeletable paths by themselves
\* never let two callbacks hold the lock: as long as no attempt has taken a
\* directory for stale, a callback that holds the lock still has its own
\* directory, so neither release nor an exit handler removes another's.
ExclusiveUntilReclaimed ==
  ~reclaimed => \A c \in Call : Holds(c) => owner = c

\* startTouchTimer: touching "prevents false stale detection".  The directory
\* of a call that still holds the lock in a live process is never stale, even
\* when the timer that touches it was started for an earlier call.
LiveLockStaysFresh ==
  Timely /\ Deletable =>
    (owner # None /\ Alive(owner) => ~Stale)

\* withLock "guarantees cleanup", and so does the exit handler: a directory in
\* place was made by a call that still holds the lock or by a crashed process.
NoLeakedDirectory ==
  owner # None => Holds(owner) \/ status[ProcOf[owner]] = "crashed"

\* A callback of a withLock call never runs without the lock.
CallbackHoldsLock == \A c \in Call : Alive(c) => pc[c] # "unlocked"

\* Every call of a process that stays up settles, whatever the other
\* processes do: pRetry bounds the attempts on a lock that is never freed.
EveryCallSettles ==
  \A c \in Call : <>(pc[c] \in Settled \/ status[ProcOf[c]] # "up")

=============================================================================
