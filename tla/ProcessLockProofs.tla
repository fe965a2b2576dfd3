------------------------ MODULE ProcessLockProofs ------------------------
(***************************************************************************)
(* Proofs about ProcessLock, for any number of processes and calls, any    *)
(* bound on the clock and any timing.                                      *)
(***************************************************************************)
EXTENDS ProcessLock, TLAPS

\* The process that made the directory, while it lives, still holds the lock
\* and tracks the path; it has not exited and left the directory behind.
OwnerInv ==
  Deletable /\ owner # None =>
    /\ status[ProcOf[owner]] # "exited"
    /\ Alive(owner) => pc[owner] \in {"locked", "remove"} /\ tracked[ProcOf[owner]]

\* p has made its last touch in time and schedules the next soon enough.
OnTime(p) == clock =< due[p] + MaxLag /\ due[p] =< clock + TouchInterval

\* The process that made the directory watches over it: it has a touch timer
\* that is not overdue, or is about to delete the directory, and the next
\* touch is at most one interval after the last change of its mtime.
DutyInv ==
  /\ mtime =< clock
  /\ TouchInterval > 0 /\ Deletable =>
       /\ \A p \in Process : timer[p] /\ status[p] = "up" => OnTime(p)
       /\ owner # None /\ Alive(owner) =>
            LET p == ProcOf[owner] IN
            OnDuty(p) /\ OnTime(p) /\ due[p] =< mtime + TouchInterval

\* Whoever holds the lock made the directory in place, and so did a process
\* that tracks the path or is about to delete it on its way out.
HolderInv ==
  /\ \A c \in Call : Holds(c) => owner = c
  /\ \A p \in Process : status[p] \in {"up", "exiting"} /\ tracked[p] =>
       owner # None /\ ProcOf[owner] = p
  /\ \A p \in Process : status[p] = "exiting" => tracked[p]

\* Until an attempt judges the directory stale, no attempt deletes one.
ExclusiveInv ==
  ~reclaimed => HolderInv /\ \A c \in Call : pc[c] # "stale"

\* Processes only fail as the deployment lets them, and a callback only runs
\* without the lock after an abort.
FaultInv ==
  /\ \A p \in Process : status[p] = "crashed" => p \in MayCrash
  /\ \A p \in Process : aborted[p] => p \in MayAbort
  /\ \A c \in Call : pc[c] = "unlocked" => aborted[ProcOf[c]]

\* Without faults nothing is ever reclaimed.
FaultFreeInv == SafeDeployment => ~reclaimed

\* pRetry takes one of the Retries + 1 attempts each time, and delays another
\* one only when one is left.
AttemptInv ==
  \A c \in Call :
    /\ attempts[c] \in 0..(Retries + 1)
    /\ pc[c] = "start" => attempts[c] = Retries + 1
    /\ pc[c] \in {"stale", "make", "locked", "remove"} => attempts[c] =< Retries
    /\ pc[c] = "wait" => attempts[c] > 0

\* What the check of a stale directory is meant to ensure: an attempt deletes
\* no directory whose maker is alive.
RemovesTheDead ==
  \A c \in Call : RemoveStale(c) /\ owner' # owner => ~Alive(owner)

----------------------------------------------------------------------------
\* The constants have the types the model gives them.
LEMMA ConstantFacts ==
  /\ \A c \in Call : ProcOf[c] \in Process
  /\ Retries \in Nat /\ StaleMs \in Nat /\ TouchInterval \in Nat
  /\ MaxLag \in Nat /\ MaxClock \in Nat
  /\ Deletable \in BOOLEAN /\ MkdirMayFail \in BOOLEAN
  /\ None \notin Call
  BY ConstantsType

\* The variables keep their types.
THEOREM TypeCorrect == Spec => []TypeOK
<1>1. Init => TypeOK
  <2> SUFFICES ASSUME Init PROVE TypeOK
    OBVIOUS
  <2> USE ConstantFacts DEF Init
  <2>1. clock \in 0..MaxClock /\ mtime \in 0..MaxClock /\ owner \in Call \cup {None}
    OBVIOUS
  <2>2. pc \in [Call -> Places] /\ attempts \in [Call -> Int]
    BY DEF Places
  <2>3. due \in [Process -> Nat]
    OBVIOUS
  <2>4. /\ tracked \in [Process -> BOOLEAN]
        /\ timer \in [Process -> BOOLEAN]
        /\ aborted \in [Process -> BOOLEAN]
        /\ reclaimed \in BOOLEAN
    OBVIOUS
  <2>5. status \in [Process -> {"up", "exiting", "exited", "crashed"}]
    OBVIOUS
  <2> QED
    BY <2>1, <2>2, <2>3, <2>4, <2>5 DEF TypeOK
<1>2. TypeOK /\ [Next]_vars => TypeOK'
  <2> SUFFICES ASSUME TypeOK, [Next]_vars PROVE TypeOK'
    OBVIOUS
  <2> USE ConstantFacts DEF TypeOK, Places, Busy, Settled
  <2>1. ASSUME NEW c \in Call, CallStep(c) PROVE TypeOK'
    <3>1. CASE Attempt(c)
      BY <3>1 DEF Attempt, AttemptsAfter, Stale
    <3>2. CASE AcquireUndefined(c)
      BY <3>2 DEF AcquireUndefined
    <3>3. CASE RemoveStale(c)
      BY <3>3 DEF RemoveStale, AfterDelete
    <3>4. CASE MakeDir(c)
      <4>1. /\ owner' \in Call \cup {None}
            /\ mtime' \in 0..MaxClock
            /\ pc' \in [Call -> Places]
            /\ tracked' \in [Process -> BOOLEAN]
        BY <3>4 DEF MakeDir
      <4>2. CASE TouchInterval = 0 \/ timer[ProcOf[c]]
        BY <3>4, <4>1, <4>2 DEF MakeDir
      <4>3. CASE ~(TouchInterval = 0 \/ timer[ProcOf[c]])
        <5>1. timer' = [timer EXCEPT ![ProcOf[c]] = TRUE]
          BY <3>4, <4>3 DEF MakeDir
        <5>2. due' = [due EXCEPT ![ProcOf[c]] = clock + TouchInterval]
          BY <3>4, <4>3 DEF MakeDir
        <5> QED
          BY <3>4, <4>1, <5>1, <5>2 DEF MakeDir
      <4> QED
        BY <4>2, <4>3
    <3>5. CASE MakeFails(c)
      BY <3>5 DEF MakeFails
    <3>6. CASE ReleaseCheck(c)
      BY <3>6 DEF ReleaseCheck
    <3>7. CASE ReleaseDelete(c)
      BY <3>7 DEF ReleaseDelete, AfterDelete
    <3>8. CASE ReleaseUndefined(c)
      BY <3>8 DEF ReleaseUndefined
    <3> QED
      BY <2>1, <3>1, <3>2, <3>3, <3>4, <3>5, <3>6, <3>7, <3>8 DEF CallStep
  <2>2. ASSUME NEW p \in Process, ProcessStep(p) PROVE TypeOK'
    <3>1. CASE Touch(p)
      BY <3>1 DEF Touch, Touched
    <3>2. CASE ExitCheck(p)
      BY <3>2 DEF ExitCheck
    <3>3. CASE ExitDelete(p)
      BY <3>3 DEF ExitDelete, AfterDelete
    <3>4. CASE Crash(p)
      BY <3>4 DEF Crash
    <3>5. CASE Abort(p)
      BY <3>5 DEF Abort
    <3> QED
      BY <2>2, <3>1, <3>2, <3>3, <3>4, <3>5 DEF ProcessStep
  <2>3. CASE Tick
    BY <2>3 DEF Tick
  <2>4. CASE UNCHANGED vars
    BY <2>4 DEF vars
  <2> QED
    BY <2>1, <2>2, <2>3, <2>4 DEF Next
<1> QED
  BY <1>1, <1>2, PTL DEF Spec

----------------------------------------------------------------------------
\* Every step keeps directory, holders and tracking in agreement.
LEMMA OwnerStep == TypeOK /\ OwnerInv /\ [Next]_vars => OwnerInv'
<1> SUFFICES ASSUME TypeOK, OwnerInv, [Next]_vars PROVE OwnerInv'
  OBVIOUS
<1> USE ConstantFacts DEF TypeOK, OwnerInv, Alive
<1>1. ASSUME NEW c \in Call, CallStep(c) PROVE OwnerInv'
  <2>1. CASE Attempt(c)
    BY <2>1 DEF Attempt, AttemptsAfter, Stale
  <2>2. CASE AcquireUndefined(c)
    BY <2>2 DEF AcquireUndefined
  <2>3. CASE RemoveStale(c)
    BY <2>3 DEF RemoveStale, AfterDelete
  <2>4. CASE MakeDir(c)
    BY <2>4 DEF MakeDir, Vacant
  <2>5. CASE MakeFails(c)
    BY <2>5 DEF MakeFails
  <2>6. CASE ReleaseCheck(c)
    BY <2>6 DEF ReleaseCheck
  <2>7. CASE ReleaseDelete(c)
    BY <2>7 DEF ReleaseDelete, AfterDelete
  <2>8. CASE ReleaseUndefined(c)
    BY <2>8 DEF ReleaseUndefined
  <2> QED
    BY <1>1, <2>1, <2>2, <2>3, <2>4, <2>5, <2>6, <2>7, <2>8 DEF CallStep
<1>2. ASSUME NEW p \in Process, ProcessStep(p) PROVE OwnerInv'
  <2>1. CASE Touch(p)
    BY <2>1 DEF Touch, Touched
  <2>2. CASE ExitCheck(p)
    BY <2>2 DEF ExitCheck, ExitFinds, Idle
  <2>3. CASE ExitDelete(p)
    BY <2>3 DEF ExitDelete, AfterDelete
  <2>4. CASE Crash(p)
    BY <2>4 DEF Crash
  <2>5. CASE Abort(p)
    BY <2>5 DEF Abort
  <2> QED
    BY <1>2, <2>1, <2>2, <2>3, <2>4, <2>5 DEF ProcessStep
<1>3. CASE Tick
  BY <1>3 DEF Tick
<1>4. CASE UNCHANGED vars
  BY <1>4 DEF vars
<1> QED
  BY <1>1, <1>2, <1>3, <1>4 DEF Next

\* Every step keeps the timer of a live holder on duty and its directory fresh.
LEMMA DutyStep == TypeOK /\ OwnerInv /\ DutyInv /\ [Next]_vars => DutyInv'
<1> SUFFICES ASSUME TypeOK, OwnerInv, DutyInv, [Next]_vars PROVE DutyInv'
  OBVIOUS
<1> USE ConstantFacts DEF TypeOK, OwnerInv, DutyInv, Alive, OnDuty, OnTime, CallsOf
<1>1. ASSUME NEW c \in Call, CallStep(c) PROVE DutyInv'
  <2>1. CASE Attempt(c)
    BY <2>1 DEF Attempt, AttemptsAfter, Stale
  <2>2. CASE AcquireUndefined(c)
    BY <2>2 DEF AcquireUndefined
  <2>3. CASE RemoveStale(c)
    BY <2>3 DEF RemoveStale, AfterDelete
  <2>4. CASE MakeDir(c)
    BY <2>4 DEF MakeDir, Vacant
  <2>5. CASE MakeFails(c)
    BY <2>5 DEF MakeFails
  <2>6. CASE ReleaseCheck(c)
    BY <2>6 DEF ReleaseCheck
  <2>7. CASE ReleaseDelete(c)
    BY <2>7 DEF ReleaseDelete, AfterDelete
  <2>8. CASE ReleaseUndefined(c)
    BY <2>8 DEF ReleaseUndefined
  <2> QED
    BY <1>1, <2>1, <2>2, <2>3, <2>4, <2>5, <2>6, <2>7, <2>8 DEF CallStep
<1>2. ASSUME NEW p \in Process, ProcessStep(p) PROVE DutyInv'
  <2>1. CASE Touch(p)
    BY <2>1 DEF Touch, Touched
  <2>2. CASE ExitCheck(p)
    BY <2>2 DEF ExitCheck, ExitFinds, Idle
  <2>3. CASE ExitDelete(p)
    BY <2>3 DEF ExitDelete, AfterDelete
  <2>4. CASE Crash(p)
    BY <2>4 DEF Crash
  <2>5. CASE Abort(p)
    BY <2>5 DEF Abort
  <2> QED
    BY <1>2, <2>1, <2>2, <2>3, <2>4, <2>5 DEF ProcessStep
<1>3. CASE Tick
  BY <1>3 DEF Tick
<1>4. CASE UNCHANGED vars
  BY <1>4 DEF vars
<1> QED
  BY <1>1, <1>2, <1>3, <1>4 DEF Next

\* A holder keeps its directory through every step but the deletion of the
\* directory of another live process.
LEMMA HolderStep ==
  ASSUME TypeOK, HolderInv, [Next]_vars, [RemovesTheDead]_vars
  PROVE  HolderInv'
<1> USE ConstantFacts DEF TypeOK, HolderInv, Holds, Alive
<1>1. ASSUME NEW c \in Call, CallStep(c) PROVE HolderInv'
  <2>1. CASE Attempt(c)
    BY <2>1 DEF Attempt, AttemptsAfter, Stale
  <2>2. CASE AcquireUndefined(c)
    BY <2>2 DEF AcquireUndefined
  <2>3. CASE RemoveStale(c)
    BY <2>3 DEF RemoveStale, AfterDelete, RemovesTheDead, vars
  <2>4. CASE MakeDir(c)
    BY <2>4 DEF MakeDir, Vacant
  <2>5. CASE MakeFails(c)
    BY <2>5 DEF MakeFails
  <2>6. CASE ReleaseCheck(c)
    BY <2>6 DEF ReleaseCheck
  <2>7. CASE ReleaseDelete(c)
    BY <2>7 DEF ReleaseDelete, AfterDelete
  <2>8. CASE ReleaseUndefined(c)
    BY <2>8 DEF ReleaseUndefined
  <2> QED
    BY <1>1, <2>1, <2>2, <2>3, <2>4, <2>5, <2>6, <2>7, <2>8 DEF CallStep
<1>2. ASSUME NEW p \in Process, ProcessStep(p) PROVE HolderInv'
  <2>1. CASE Touch(p)
    BY <2>1 DEF Touch, Touched
  <2>2. CASE ExitCheck(p)
    BY <2>2 DEF ExitCheck, ExitFinds, Idle
  <2>3. CASE ExitDelete(p)
    BY <2>3 DEF ExitDelete, AfterDelete
  <2>4. CASE Crash(p)
    BY <2>4 DEF Crash
  <2>5. CASE Abort(p)
    BY <2>5 DEF Abort
  <2> QED
    BY <1>2, <2>1, <2>2, <2>3, <2>4, <2>5 DEF ProcessStep
<1>3. CASE Tick
  BY <1>3 DEF Tick
<1>4. CASE UNCHANGED vars
  BY <1>4 DEF vars
<1> QED
  BY <1>1, <1>2, <1>3, <1>4 DEF Next

\* A callback loses its directory only once an attempt has judged one stale.
LEMMA ExclusiveStep == TypeOK /\ ExclusiveInv /\ [Next]_vars => ExclusiveInv'
<1> SUFFICES ASSUME TypeOK, ExclusiveInv, [Next]_vars, ~reclaimed'
             PROVE HolderInv' /\ \A c \in Call : pc'[c] # "stale"
  BY DEF ExclusiveInv
<1>1. \/ \E c \in Call : CallStep(c)
      \/ UNCHANGED <<pc, reclaimed>>
  BY DEF Next, ProcessStep, Touch, ExitCheck, ExitDelete, Crash, Abort, Tick, vars
<1>2. ~reclaimed
  BY <1>1 DEF CallStep, Attempt, AcquireUndefined, RemoveStale, MakeDir,
     MakeFails, ReleaseCheck, ReleaseDelete, ReleaseUndefined
<1>3. HolderInv /\ \A c \in Call : pc[c] # "stale"
  BY <1>2 DEF ExclusiveInv
<1>4. HolderInv'
  BY <1>3, HolderStep DEF RemovesTheDead, RemoveStale
<1>5. \A c \in Call : pc'[c] # "stale"
  BY <1>1, <1>3 DEF TypeOK, CallStep, Attempt, AcquireUndefined, RemoveStale,
     MakeDir, MakeFails, ReleaseCheck, ReleaseDelete, ReleaseUndefined
<1> QED
  BY <1>4, <1>5

\* Faults are those of the deployment, and only an abort lets a call through
\* without the lock.
LEMMA FaultStep == TypeOK /\ FaultInv /\ [Next]_vars => FaultInv'
<1> SUFFICES ASSUME TypeOK, FaultInv, [Next]_vars PROVE FaultInv'
  OBVIOUS
<1> USE ConstantFacts DEF TypeOK, FaultInv
<1>1. ASSUME NEW c \in Call, CallStep(c) PROVE FaultInv'
  BY <1>1 DEF CallStep, Attempt, AcquireUndefined, RemoveStale, MakeDir,
     MakeFails, ReleaseCheck, ReleaseDelete, ReleaseUndefined
<1>2. ASSUME NEW p \in Process, ProcessStep(p) PROVE FaultInv'
  BY <1>2 DEF ProcessStep, Touch, ExitCheck, ExitDelete, Crash, Abort
<1>3. CASE Tick \/ UNCHANGED vars
  BY <1>3 DEF Tick, vars
<1> QED
  BY <1>1, <1>2, <1>3 DEF Next

\* Attempts are counted down, and a call that delays has one left.
LEMMA AttemptStep == TypeOK /\ AttemptInv /\ [Next]_vars => AttemptInv'
<1> SUFFICES ASSUME TypeOK, AttemptInv, [Next]_vars PROVE AttemptInv'
  OBVIOUS
<1> USE ConstantFacts DEF TypeOK, AttemptInv
<1>1. ASSUME NEW c \in Call, CallStep(c) PROVE AttemptInv'
  BY <1>1 DEF CallStep, Attempt, AttemptsAfter, AcquireUndefined, RemoveStale,
     MakeDir, MakeFails, ReleaseCheck, ReleaseDelete, ReleaseUndefined
<1>2. ASSUME NEW p \in Process, ProcessStep(p) PROVE AttemptInv'
  BY <1>2 DEF ProcessStep, Touch, ExitCheck, ExitDelete, Crash, Abort
<1>3. CASE Tick \/ UNCHANGED vars
  BY <1>3 DEF Tick, vars
<1> QED
  BY <1>1, <1>2, <1>3 DEF Next

\* Without crash, abort or late touch the directory stays with its holder.
LEMMA FaultFreeStep ==
  TypeOK /\ OwnerInv /\ DutyInv /\ FaultInv /\ FaultFreeInv /\ [Next]_vars
  => FaultFreeInv'
<1> SUFFICES ASSUME TypeOK, OwnerInv, DutyInv, FaultInv, ~reclaimed, [Next]_vars,
                    SafeDeployment
             PROVE ~reclaimed'
  BY DEF FaultFreeInv
<1> USE ConstantFacts DEF TypeOK, SafeDeployment
<1>1. ~Stale
  <2> SUFFICES ASSUME owner # None PROVE clock - mtime =< StaleMs
    BY DEF Stale
  <2>1. Alive(owner)
    BY DEF OwnerInv, FaultInv, Alive
  <2> QED
    BY <2>1 DEF DutyInv, OnTime, Timely
<1>2. ASSUME NEW c \in Call, CallStep(c) PROVE ~reclaimed'
  BY <1>1, <1>2 DEF CallStep, Attempt, AcquireUndefined, RemoveStale, MakeDir,
       MakeFails, ReleaseCheck, ReleaseDelete, ReleaseUndefined
<1>3. ASSUME NEW p \in Process, ProcessStep(p) PROVE ~reclaimed'
  BY <1>3 DEF ProcessStep, Touch, ExitCheck, ExitDelete, Crash, Abort
<1>4. CASE Tick \/ UNCHANGED vars
  BY <1>4 DEF Tick, vars
<1> QED
  BY <1>2, <1>3, <1>4 DEF Next

----------------------------------------------------------------------------
\* The inductive invariant behind the theorems.
LockInv == TypeOK /\ OwnerInv /\ DutyInv /\ ExclusiveInv /\ FaultInv
           /\ FaultFreeInv /\ AttemptInv

\* Every reachable state of the lock satisfies the inductive invariant.
THEOREM Invariance == Spec => []LockInv
<1>1. Init /\ TypeOK => LockInv
  BY ConstantFacts DEF Init, LockInv, TypeOK, OwnerInv, DutyInv, OnTime,
     ExclusiveInv, HolderInv, FaultInv, FaultFreeInv, AttemptInv, Holds
<1>2. LockInv /\ [Next]_vars /\ TypeOK' => LockInv'
  BY OwnerStep, DutyStep, ExclusiveStep, FaultStep, FaultFreeStep, AttemptStep
  DEF LockInv
<1> QED
  BY <1>1, <1>2, TypeCorrect, PTL DEF Spec

\* A directory whose maker lives is touched before it looks stale.
THEOREM Fresh == Spec => []LiveLockStaysFresh
<1>1. LockInv => LiveLockStaysFresh
  BY ConstantFacts DEF LockInv, TypeOK, DutyInv, OnTime, LiveLockStaysFresh, Timely, Stale
<1> QED
  BY <1>1, Invariance, PTL

\* Nobody loses the lock before some attempt takes a directory for stale.
THEOREM Exclusive == Spec => []ExclusiveUntilReclaimed
<1>1. LockInv => ExclusiveUntilReclaimed
  BY DEF LockInv, ExclusiveInv, HolderInv, ExclusiveUntilReclaimed
<1> QED
  BY <1>1, Invariance, PTL

\* Where lockPath can be deleted, only crashed processes leave directories.
THEOREM NoLeak == ASSUME Deletable PROVE Spec => []NoLeakedDirectory
<1>1. LockInv => NoLeakedDirectory
  BY ConstantFacts DEF LockInv, TypeOK, OwnerInv, NoLeakedDirectory, Holds, Alive
<1> QED
  BY <1>1, Invariance, PTL

\* Without an abort no callback ever runs without the lock.
THEOREM NoUnlockedCallback ==
  ASSUME MayAbort = {} PROVE Spec => []CallbackHoldsLock
<1>1. LockInv => CallbackHoldsLock
  BY ConstantFacts DEF LockInv, FaultInv, CallbackHoldsLock
<1> QED
  BY <1>1, Invariance, PTL

----------------------------------------------------------------------------
\* As long as attempts delete the directories of dead processes only, whoever
\* holds the lock keeps its directory, under any other fault and any timing.
THEOREM HoldersKeepTheirs == Spec /\ [][RemovesTheDead]_vars => []HolderInv
<1>1. Init => HolderInv
  BY ConstantFacts DEF Init, HolderInv, Holds
<1>2. TypeOK /\ HolderInv /\ [Next]_vars /\ [RemovesTheDead]_vars => HolderInv'
  BY HolderStep
<1> QED
  BY <1>1, <1>2, TypeCorrect, PTL DEF Spec

\* The two ways in which callbacks come to overlap, for every deployment: an
\* attempt has deleted the directory of a live process, or one has aborted.
THEOREM OverlapExplained ==
  Spec /\ [][RemovesTheDead]_vars
    => [](MutualExclusion \/ \E p \in Process : aborted[p])
<1>1. LockInv /\ HolderInv => MutualExclusion \/ \E p \in Process : aborted[p]
  BY ConstantFacts
  DEF LockInv, FaultInv, HolderInv, MutualExclusion, Runs, Holds
<1> QED
  BY <1>1, Invariance, HoldersKeepTheirs, PTL

\* In a safe deployment nobody is ever taken for dead.
LEMMA SafeRemovals ==
  ASSUME SafeDeployment PROVE Spec => [][RemovesTheDead]_vars
<1>1. LockInv => RemovesTheDead
  BY DEF LockInv, FaultFreeInv, ExclusiveInv, RemovesTheDead, RemoveStale
<1> QED
  BY <1>1, Invariance, PTL

\* In a safe deployment callbacks never overlap.
THEOREM SafeMutex == ASSUME SafeDeployment PROVE Spec => []MutualExclusion
<1>1. LockInv => ~\E p \in Process : aborted[p]
  BY DEF SafeDeployment, LockInv, FaultInv
<1> QED
  BY <1>1, Invariance, SafeRemovals, OverlapExplained, PTL

\* Crashes included, the lock implements the abstract critical section as long
\* as attempts delete the directories of dead processes only: mkdirSync is
\* Enter; the deletion, or the end of the process, is Leave; every other step
\* stutters.
THEOREM CrashRefinement ==
  ASSUME MayAbort = {}
  PROVE  Spec /\ [][RemovesTheDead]_vars => ImplementsCriticalSection
<1> DEFINE inside == {c \in Call : Runs(c)}
           entered == {c \in Call : Ran(c)}
<1>1. Init => Section!Init
  BY DEF Init, Section!Init, Runs, Ran
<1>2. LockInv /\ LockInv' /\ HolderInv /\ HolderInv' /\ [Next]_vars
      => [Section!Next]_<<inside, entered>>
  <2> SUFFICES ASSUME LockInv, LockInv', HolderInv, HolderInv', [Next]_vars
               PROVE Section!Next \/ UNCHANGED <<inside, entered>>
    OBVIOUS
  <2> USE ConstantFacts DEF LockInv, TypeOK, Runs, Ran, Alive
  <2>1. \A c \in Call : pc[c] # "unlocked" /\ pc'[c] # "unlocked"
    BY DEF FaultInv
  <2>2. \A c \in Call : /\ Runs(c) => owner = c
                        /\ Runs(c)' => owner' = c
    BY <2>1 DEF HolderInv, Holds
  <2>3. ASSUME NEW c \in Call, MakeDir(c) PROVE Section!Enter(c)
    <3>1. inside = {} /\ c \notin entered
      BY <2>2, <2>3 DEF MakeDir, Vacant
    <3>2. inside' = {c}
      BY <2>2, <2>3, <3>1 DEF MakeDir
    <3>3. entered' = entered \cup {c}
      BY <2>3 DEF MakeDir
    <3> QED
      BY <3>1, <3>2, <3>3 DEF Section!Enter
  <2>4. ASSUME NEW c \in Call, ReleaseDelete(c) PROVE Section!Leave
    <3>1. inside = {c}
      BY <2>2, <2>4 DEF ReleaseDelete
    <3>2. inside' = {}
      BY <2>4, <3>1 DEF ReleaseDelete
    <3>3. entered' = entered
      BY <2>4 DEF ReleaseDelete
    <3> QED
      BY <3>2, <3>3 DEF Section!Leave
  <2>5. ASSUME NEW c \in Call, ReleaseCheck(c) PROVE UNCHANGED <<inside, entered>>
    <3>1. owner = c
      BY <2>2, <2>5 DEF ReleaseCheck, Idle
    <3> QED
      BY <2>5, <3>1 DEF ReleaseCheck
  <2>6. ASSUME NEW c \in Call, CallStep(c), ~MakeDir(c), ~ReleaseDelete(c),
               ~ReleaseCheck(c)
        PROVE UNCHANGED <<inside, entered>>
    <3>1. ~AcquireUndefined(c) /\ ~ReleaseUndefined(c)
      BY <2>1 DEF AcquireUndefined, ReleaseUndefined
    <3>2. CASE Attempt(c)
      BY <3>2 DEF Attempt
    <3>3. CASE RemoveStale(c)
      BY <3>3 DEF RemoveStale
    <3>4. CASE MakeFails(c)
      BY <3>4 DEF MakeFails
    <3> QED
      BY <2>6, <3>1, <3>2, <3>3, <3>4 DEF CallStep
  <2>7. ASSUME NEW p \in Process, ProcessStep(p)
        PROVE Section!Leave \/ UNCHANGED <<inside, entered>>
    <3>1. entered' = entered
      BY <2>7 DEF ProcessStep, Touch, ExitCheck, ExitDelete, Crash, Abort
    <3>2. inside' \in SUBSET inside
      BY <2>7 DEF ProcessStep, Touch, ExitCheck, ExitDelete, Crash, Abort, Idle
    <3>3. inside = {} \/ \E c \in Call : inside = {c}
      BY <2>2
    <3>4. inside' = {} \/ inside' = inside
      BY <3>2, <3>3
    <3> QED
      BY <3>1, <3>4 DEF Section!Leave
  <2>8. CASE Tick
    BY <2>8 DEF Tick
  <2>9. CASE UNCHANGED vars
    BY <2>9 DEF vars
  <2> QED
    BY <2>3, <2>4, <2>5, <2>6, <2>7, <2>8, <2>9 DEF Next, Section!Next
<1> QED
  BY <1>1, <1>2, Invariance, HoldersKeepTheirs, PTL
  DEF Spec, ImplementsCriticalSection, Section!Spec

\* In a safe deployment, exits included, the lock implements the abstract
\* critical section.
THEOREM Refinement ==
  ASSUME SafeDeployment PROVE Spec => ImplementsCriticalSection
<1>1. MayAbort = {}
  BY DEF SafeDeployment
<1> QED
  BY <1>1, CrashRefinement, SafeRemovals, PTL

----------------------------------------------------------------------------
\* The most steps that call c can still take: five for each attempt it may
\* still make, and those of the place where it stands.
StepsHere(c) ==
  CASE pc[c] = "stale" -> 7
    [] pc[c] = "make" -> 6
    [] pc[c] \in {"start", "wait"} -> 5
    [] pc[c] = "locked" -> 2
    [] pc[c] \in {"remove", "unlocked"} -> 1
    [] pc[c] \in Settled -> 0
StepsLeft(c) == 5 * attempts[c] + StepsHere(c)

\* Every step of a call takes it nearer to its end, and nothing that happens
\* around it takes it back.
CallsWearOut ==
  \A c \in Call :
    /\ CallStep(c) => StepsLeft(c)' < StepsLeft(c)
    /\ ~CallStep(c) => StepsLeft(c)' = StepsLeft(c)

\* No call goes on for ever: pRetry, which delays and tries again on a lock
\* that others keep, or on a directory that fails, or after its attempt was
\* overtaken, takes a bounded number of steps whatever the others do.
THEOREM RetriesEnd ==
  Spec => /\ [](\A c \in Call : StepsLeft(c) \in 0..(5 * Retries + 10))
          /\ [][CallsWearOut]_vars
<1> USE ConstantFacts
<1>1. LockInv => \A c \in Call : StepsLeft(c) \in 0..(5 * Retries + 10)
  <2> SUFFICES ASSUME TypeOK, AttemptInv, NEW c \in Call
               PROVE  StepsLeft(c) \in 0..(5 * Retries + 10)
    BY DEF LockInv
  <2>1. attempts[c] \in 0..(Retries + 1) /\ StepsHere(c) \in 0..7
    BY DEF TypeOK, AttemptInv, StepsHere, Places, Busy, Settled
  <2>2. attempts[c] =< Retries \/ StepsHere(c) =< 5
    BY <2>1 DEF TypeOK, AttemptInv, StepsHere, Places, Busy, Settled
  <2> QED
    BY <2>1, <2>2 DEF StepsLeft
<1>2. LockInv /\ [Next]_vars => CallsWearOut
  <2> SUFFICES ASSUME TypeOK, AttemptInv, [Next]_vars, NEW c \in Call
               PROVE  /\ CallStep(c) => StepsLeft(c)' < StepsLeft(c)
                      /\ ~CallStep(c) => StepsLeft(c)' = StepsLeft(c)
    BY DEF LockInv, CallsWearOut
  <2>1. ASSUME CallStep(c) PROVE StepsLeft(c)' < StepsLeft(c)
    <3> USE <2>1 DEF StepsLeft, StepsHere, TypeOK, AttemptInv, Settled
    <3>1. CASE Attempt(c)
      BY <3>1 DEF Attempt, AttemptsAfter
    <3>2. CASE AcquireUndefined(c) \/ RemoveStale(c) \/ MakeDir(c)
      BY <3>2 DEF AcquireUndefined, RemoveStale, MakeDir
    <3>3. CASE MakeFails(c)
      BY <3>3 DEF MakeFails
    <3>4. CASE ReleaseCheck(c) \/ ReleaseDelete(c) \/ ReleaseUndefined(c)
      BY <3>4 DEF ReleaseCheck, ReleaseDelete, ReleaseUndefined
    <3> QED
      BY <3>1, <3>2, <3>3, <3>4 DEF CallStep
  <2>2. ASSUME ~CallStep(c) PROVE UNCHANGED <<pc[c], attempts[c]>>
    <3>1. ASSUME NEW d \in Call, CallStep(d)
          PROVE  UNCHANGED <<pc[c], attempts[c]>>
      BY <2>2, <3>1 DEF TypeOK, CallStep, Attempt, AcquireUndefined,
         RemoveStale, MakeDir, MakeFails, ReleaseCheck, ReleaseDelete,
         ReleaseUndefined
    <3>2. ASSUME NEW p \in Process, ProcessStep(p) PROVE UNCHANGED <<pc, attempts>>
      BY <3>2 DEF ProcessStep, Touch, ExitCheck, ExitDelete, Crash, Abort
    <3>3. CASE Tick \/ UNCHANGED vars
      BY <3>3 DEF Tick, vars
    <3> QED
      BY <3>1, <3>2, <3>3 DEF Next
  <2> QED
    BY <2>1, <2>2 DEF StepsLeft, StepsHere
<1> QED
  BY <1>1, <1>2, Invariance, PTL DEF Spec

=============================================================================
