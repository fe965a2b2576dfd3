-------------------------- MODULE DlxBinaryProofs --------------------------
(***************************************************************************)
(* Proofs about DlxBinary, for any calls, processes, pins and versions,    *)
(* with crashes, expiry and cleanups.                                      *)
(***************************************************************************)
EXTENDS DlxBinary, TLAPS

\* A cleanup goes through its own steps only.
OpInv ==
  \A c \in Call :
    /\ Op[c] = "clean" => pc[c] \in {"start", "cleaning", "done", "crashed"}
    /\ pc[c] = "cleaning" => Op[c] = "clean"

\* Until a lock directory is deleted in use, whoever is inside withLock holds
\* the lock.
LockInv == ~lockLost => \A c \in Call : pc[c] \in Locked => lock = c

\* Places that are only reached with bytes measured, and found to be the pin.
Checked == {"readmeta", "chmod", "release", "stat", "writemeta", "movemeta",
            "spawn"}

MeasuredInv ==
  \A c \in Call :
    /\ pc[c] = "publish" => measured[c] \in Version
    /\ pc[c] \in Checked \/ (pc[c] = "done" /\ Op[c] # "clean") =>
         measured[c] \in Version /\ Matches(c, measured[c])

\* The holder of the lock that decided to download finds the place still free,
\* as long as no lock directory has been deleted in use.
VacantInv ==
  ~lockLost => \A c \in Call : pc[c] \in {"fetch", "publish"} =>
                 bin \in {None, Empty}

Inv == TypeOK /\ OpInv /\ LockInv /\ MeasuredInv /\ VacantInv

\* Initially all parts of the invariant hold.
LEMMA InitInv ==
  Init => Inv
<1> SUFFICES ASSUME Init PROVE Inv
  OBVIOUS
<1>1. TypeOK
  <2>1. 0 \in 0..Retries
    BY ConstantsType
  <2> QED
    BY <2>1, ConstantsType DEF Init, TypeOK, Places
<1>2. OpInv /\ LockInv /\ MeasuredInv /\ VacantInv
  BY DEF Init, OpInv, LockInv, MeasuredInv, VacantInv, Locked, Checked
<1> QED
  BY <1>1, <1>2 DEF Inv

\* Every step keeps the types.
LEMMA TypeStep ==
  ASSUME TypeOK, OpInv, MeasuredInv, [Next]_vars PROVE TypeOK'
<1> USE ConstantsType DEF TypeOK, OpInv, MeasuredInv, Places, Locked, Settled,
                          Metadata, Checked, files, Goto
<1>1. ASSUME NEW c \in Call,
             \/ Lookup(c) \/ Recheck(c) \/ AttemptFails(c) \/ CheckCached(c)
             \/ Chmod(c) \/ Stat(c) \/ Spawn(c) \/ CleanCheck(c)
      PROVE  TypeOK'
  BY <1>1 DEF Lookup, Recheck, AttemptFails, CheckCached, Chmod, Stat, Spawn,
     CleanCheck, Valid, RecheckTo
<1>2. ASSUME NEW c \in Call, Verify(c) \/ Rehash(c) \/ ReadMeta(c)
      PROVE  TypeOK'
  BY <1>2 DEF Verify, Rehash, ReadMeta
<1>3. ASSUME NEW c \in Call, Unlink(c) \/ Reject(c) PROVE TypeOK'
  BY <1>3 DEF Unlink, Reject
<1>4. ASSUME NEW c \in Call,
             \/ Mkdir(c) \/ Judge(c) \/ Reclaim(c) \/ MakeParent(c)
             \/ Acquire(c) \/ Release(c)
      PROVE  TypeOK'
  <2>1. CASE Mkdir(c)
    BY <2>1 DEF Mkdir
  <2>5. CASE MakeParent(c)
    BY <2>5 DEF MakeParent
  <2>0. CASE Judge(c)
    BY <2>0 DEF Judge
  <2>2. CASE Reclaim(c)
    BY <2>2 DEF Reclaim, InUse
  <2>3. CASE Acquire(c)
    BY <2>3 DEF Acquire
  <2>4. CASE Release(c)
    BY <2>4 DEF Release
  <2> QED
    BY <1>4, <2>0, <2>1, <2>2, <2>3, <2>4, <2>5
<1>5. ASSUME NEW c \in Call, Fetch(c) \/ FetchFails(c) \/ Publish(c)
      PROVE  TypeOK'
  BY <1>5 DEF Fetch, FetchFails, Publish
<1>6. ASSUME NEW c \in Call, MoveMeta(c) PROVE TypeOK'
  BY <1>6 DEF MoveMeta
<1>7. ASSUME NEW c \in Call, WriteMeta(c) PROVE TypeOK'
  <2> DEFINE m == [sri |-> measured[c], fresh |-> TRUE]
  <2>1. measured[c] \in Version
    BY <1>7 DEF WriteMeta
  <2>2. m \in Metadata
    BY <2>1
  <2>3. tmp' = tmp \/ tmp' = [tmp EXCEPT ![ProcOf[c]] = m]
    BY <1>7 DEF WriteMeta
  <2> HIDE DEF m, Metadata
  <2>4. tmp' \in [Process -> Metadata \cup {None}]
    BY <2>2, <2>3
  <2>5. pc' \in [Call -> Places]
    BY <1>7 DEF WriteMeta, Goto
  <2> QED
    BY <1>7, <2>4, <2>5 DEF WriteMeta
<1>8. ASSUME NEW c \in Call, CleanFile(c) PROVE TypeOK'
  BY <1>8 DEF CleanFile
<1>9. ASSUME NEW c \in Call, CleanEnds(c) PROVE TypeOK'
  BY <1>9 DEF CleanEnds
<1>10. ASSUME NEW p \in Process, Crash(p) PROVE TypeOK'
  BY <1>10 DEF Crash
<1>11. CASE Expire \/ Serve \/ UNCHANGED vars
  BY <1>11 DEF Expire, Valid, Serve, vars
<1> QED
  BY <1>1, <1>2, <1>3, <1>4, <1>5, <1>6, <1>7, <1>8, <1>9, <1>10, <1>11
  DEF Next, CallStep

\* Every step keeps each function on its own steps.
LEMMA OpStep ==
  ASSUME TypeOK, OpInv, [Next]_vars PROVE OpInv'
<1> USE ConstantsType DEF TypeOK, OpInv, files, Goto, Settled
<1>1. ASSUME NEW c \in Call,
             \/ Lookup(c) \/ Recheck(c) \/ AttemptFails(c) \/ CheckCached(c)
             \/ Chmod(c) \/ Stat(c) \/ Spawn(c) \/ CleanCheck(c)
      PROVE  OpInv'
  BY <1>1 DEF Lookup, Recheck, AttemptFails, CheckCached, Chmod, Stat, Spawn,
     CleanCheck, RecheckTo
<1>2. ASSUME NEW c \in Call, Verify(c) \/ Rehash(c) \/ ReadMeta(c)
      PROVE  OpInv'
  BY <1>2 DEF Verify, Rehash, ReadMeta
<1>3. ASSUME NEW c \in Call, Unlink(c) \/ Reject(c) PROVE OpInv'
  BY <1>3 DEF Unlink, Reject
<1>4. ASSUME NEW c \in Call,
             \/ Mkdir(c) \/ Judge(c) \/ Reclaim(c) \/ MakeParent(c)
             \/ Acquire(c) \/ Release(c)
      PROVE  OpInv'
  BY <1>4 DEF Mkdir, Judge, Reclaim, InUse, MakeParent, Acquire,
     Release
<1>5. ASSUME NEW c \in Call, Fetch(c) \/ FetchFails(c) \/ Publish(c)
      PROVE  OpInv'
  BY <1>5 DEF Fetch, FetchFails, Publish
<1>6. ASSUME NEW c \in Call, WriteMeta(c) \/ MoveMeta(c) PROVE OpInv'
  BY <1>6 DEF WriteMeta, MoveMeta
<1>7. ASSUME NEW c \in Call, CleanFile(c) \/ CleanEnds(c) PROVE OpInv'
  BY <1>7 DEF CleanFile, CleanEnds, InUse
<1>8. ASSUME NEW p \in Process, Crash(p) PROVE OpInv'
  BY <1>8 DEF Crash
<1>9. CASE Expire \/ Serve \/ UNCHANGED vars
  BY <1>9 DEF Expire, Valid, Serve, vars
<1> QED
  BY <1>1, <1>2, <1>3, <1>4, <1>5, <1>6, <1>7, <1>8, <1>9
  DEF Next, CallStep

\* The lock stays with the call that is inside withLock: it is only taken when
\* nobody is inside, and only released by the one who is.
LEMMA LockStep ==
  ASSUME TypeOK, OpInv, LockInv, [Next]_vars PROVE LockInv'
<1> USE ConstantsType DEF TypeOK, OpInv, LockInv, Locked, files, Goto, Settled
<1>1. ASSUME NEW c \in Call,
             \/ Lookup(c) \/ Recheck(c) \/ AttemptFails(c) \/ CheckCached(c)
             \/ Chmod(c) \/ Stat(c) \/ Spawn(c) \/ CleanCheck(c)
      PROVE  LockInv'
  BY <1>1 DEF Lookup, Recheck, AttemptFails, CheckCached, Chmod, Stat, Spawn,
     CleanCheck, RecheckTo
<1>2. ASSUME NEW c \in Call, Verify(c) \/ Rehash(c) \/ ReadMeta(c)
      PROVE  LockInv'
  BY <1>2 DEF Verify, Rehash, ReadMeta
<1>3. ASSUME NEW c \in Call, Unlink(c) \/ Reject(c) PROVE LockInv'
  BY <1>3 DEF Unlink, Reject
<1>4. ASSUME NEW c \in Call,
             \/ Mkdir(c) \/ Judge(c) \/ Reclaim(c) \/ MakeParent(c)
             \/ Acquire(c) \/ Release(c)
      PROVE  LockInv'
  <2>1. CASE Mkdir(c) \/ Judge(c) \/ MakeParent(c)
    BY <2>1 DEF Mkdir, Judge, MakeParent
  <2>2. CASE Reclaim(c)
    BY <2>2 DEF Reclaim, InUse
  <2>3. CASE Acquire(c)
    BY <2>3 DEF Acquire
  <2>4. CASE Release(c)
    BY <2>4 DEF Release
  <2> QED
    BY <1>4, <2>1, <2>2, <2>3, <2>4
<1>5. ASSUME NEW c \in Call, Fetch(c) \/ FetchFails(c) \/ Publish(c)
      PROVE  LockInv'
  BY <1>5 DEF Fetch, FetchFails, Publish
<1>6. ASSUME NEW c \in Call, WriteMeta(c) \/ MoveMeta(c) PROVE LockInv'
  BY <1>6 DEF WriteMeta, MoveMeta
<1>7. ASSUME NEW c \in Call, CleanFile(c) \/ CleanEnds(c) PROVE LockInv'
  BY <1>7 DEF CleanFile, CleanEnds, InUse
<1>8. ASSUME NEW p \in Process, Crash(p) PROVE LockInv'
  BY <1>8 DEF Crash
<1>9. CASE Expire \/ Serve \/ UNCHANGED vars
  BY <1>9 DEF Expire, Valid, Serve, vars
<1> QED
  BY <1>1, <1>2, <1>3, <1>4, <1>5, <1>6, <1>7, <1>8, <1>9
  DEF Next, CallStep

\* No place in Checked is reached without a measurement that matches.
LEMMA MeasuredStep ==
  ASSUME TypeOK, OpInv, MeasuredInv, [Next]_vars PROVE MeasuredInv'
<1> USE ConstantsType DEF TypeOK, OpInv, MeasuredInv, Checked, Matches, files,
                          Goto, Settled
<1>1. ASSUME NEW c \in Call,
             \/ Lookup(c) \/ Recheck(c) \/ AttemptFails(c) \/ CheckCached(c)
             \/ Chmod(c) \/ Stat(c) \/ Spawn(c) \/ CleanCheck(c)
      PROVE  MeasuredInv'
  BY <1>1 DEF Lookup, Recheck, AttemptFails, CheckCached, Chmod, Stat, Spawn,
     CleanCheck, RecheckTo
<1>2. ASSUME NEW c \in Call, Rehash(c) \/ ReadMeta(c) PROVE MeasuredInv'
  BY <1>2 DEF Rehash, ReadMeta, ReuseAccepts
<1>3. ASSUME NEW c \in Call, Verify(c) PROVE MeasuredInv'
  <2>1. CASE bin = None
    BY <1>3, <2>1 DEF Verify, Goto
  <2>2. CASE bin # None /\ ~Matches(c, bin)
    BY <1>3, <2>2 DEF Verify, Goto, HitAccepts
  <2>3. CASE bin # None /\ Matches(c, bin)
    BY <1>3, <2>3 DEF Verify, Goto, HitAccepts
  <2> QED
    BY <2>1, <2>2, <2>3
<1>4. ASSUME NEW c \in Call, Unlink(c) \/ Reject(c) PROVE MeasuredInv'
  BY <1>4 DEF Unlink, Reject
<1>5. ASSUME NEW c \in Call,
             \/ Mkdir(c) \/ Judge(c) \/ Reclaim(c) \/ MakeParent(c)
             \/ Acquire(c) \/ Release(c)
      PROVE  MeasuredInv'
  BY <1>5 DEF Mkdir, Judge, Reclaim, InUse, MakeParent, Acquire,
     Release
<1>6. ASSUME NEW c \in Call, Fetch(c) \/ FetchFails(c) \/ Publish(c)
      PROVE  MeasuredInv'
  BY <1>6 DEF Fetch, FetchFails, Publish
<1>7. ASSUME NEW c \in Call, WriteMeta(c) \/ MoveMeta(c) PROVE MeasuredInv'
  BY <1>7 DEF WriteMeta, MoveMeta
<1>8. ASSUME NEW c \in Call, CleanFile(c) \/ CleanEnds(c) PROVE MeasuredInv'
  BY <1>8 DEF CleanFile, CleanEnds, InUse
<1>9. ASSUME NEW p \in Process, Crash(p) PROVE MeasuredInv'
  BY <1>9 DEF Crash
<1>10. CASE Expire \/ Serve \/ UNCHANGED vars
  BY <1>10 DEF Expire, Valid, Serve, vars
<1> QED
  BY <1>1, <1>2, <1>3, <1>4, <1>5, <1>6, <1>7, <1>8, <1>9, <1>10
  DEF Next, CallStep

\* Between the second look for the file and the rename that publishes the
\* download, nobody else publishes one.
LEMMA VacantStep ==
  ASSUME TypeOK, OpInv, LockInv, VacantInv, [Next]_vars PROVE VacantInv'
<1> USE ConstantsType DEF TypeOK, OpInv, LockInv, VacantInv, Locked, files,
                          Goto, Settled
<1>1. ASSUME NEW c \in Call,
             \/ Lookup(c) \/ Recheck(c) \/ AttemptFails(c) \/ CheckCached(c)
             \/ Chmod(c) \/ Stat(c) \/ Spawn(c) \/ CleanCheck(c)
      PROVE  VacantInv'
  BY <1>1 DEF Lookup, Recheck, AttemptFails, CheckCached, Chmod, Stat, Spawn,
     CleanCheck, RecheckTo, Cached
<1>2. ASSUME NEW c \in Call, Verify(c) \/ Rehash(c) \/ ReadMeta(c)
      PROVE  VacantInv'
  BY <1>2 DEF Verify, Rehash, ReadMeta
<1>3. ASSUME NEW c \in Call, Unlink(c) \/ Reject(c) PROVE VacantInv'
  BY <1>3 DEF Unlink, Reject
<1>4. ASSUME NEW c \in Call,
             \/ Mkdir(c) \/ Judge(c) \/ Reclaim(c) \/ MakeParent(c)
             \/ Acquire(c) \/ Release(c)
      PROVE  VacantInv'
  BY <1>4 DEF Mkdir, Judge, Reclaim, InUse, MakeParent, Acquire,
     Release
<1>5. ASSUME NEW c \in Call, Fetch(c) \/ FetchFails(c) \/ Publish(c)
      PROVE  VacantInv'
  BY <1>5 DEF Fetch, FetchFails, Publish
<1>6. ASSUME NEW c \in Call, WriteMeta(c) \/ MoveMeta(c) PROVE VacantInv'
  BY <1>6 DEF WriteMeta, MoveMeta
<1>7. ASSUME NEW c \in Call, CleanFile(c) \/ CleanEnds(c) PROVE VacantInv'
  BY <1>7 DEF CleanFile, CleanEnds, InUse
<1>8. ASSUME NEW p \in Process, Crash(p) PROVE VacantInv'
  BY <1>8 DEF Crash
<1>9. CASE Expire \/ Serve \/ UNCHANGED vars
  BY <1>9 DEF Expire, Valid, Serve, vars
<1> QED
  BY <1>1, <1>2, <1>3, <1>4, <1>5, <1>6, <1>7, <1>8, <1>9
  DEF Next, CallStep

\* The invariant is inductive.
THEOREM Invariance == Spec => []Inv
<1>1. Init => Inv
  BY InitInv
<1>2. Inv /\ [Next]_vars => Inv'
  BY TypeStep, OpStep, LockStep, MeasuredStep, VacantStep DEF Inv
<1> QED
  BY <1>1, <1>2, PTL DEF Spec

\* Every reachable state of the cache entry is well typed.
THEOREM TypeCorrect == Spec => []TypeOK
<1>1. Inv => TypeOK
  BY DEF Inv
<1> QED
  BY <1>1, Invariance, PTL

\* No pinned call succeeds without having measured the bytes it pins, on any
\* path and whatever the other calls do.
THEOREM PinsMeasured == Spec => []PinnedCallsMeasureTheirPin
<1>1. Inv => PinnedCallsMeasureTheirPin
  BY ConstantsType DEF Inv, MeasuredInv, PinnedCallsMeasureTheirPin
<1> QED
  BY <1>1, Invariance, PTL

\* Until a lock directory is deleted in use, two calls are never inside
\* withLock at the same time.
OneInside ==
  ~lockLost => \A c, d \in Call :
                 pc[c] \in Locked /\ pc[d] \in Locked => c = d

\* The lock of the entry excludes, crashes and the reclaim of a dead process's
\* lock included, until a lock directory is deleted in use.
THEOREM Exclusion == Spec => []OneInside
<1>1. Inv => OneInside
  BY DEF Inv, LockInv, OneInside
<1> QED
  BY <1>1, Invariance, PTL

\* A deletion of a lock directory needs a cleanup, or a lock of a dead process.
Undisturbed ==
  /\ ~lockLost
  /\ \A c \in Call : pc[c] \notin {"crashed", "reclaim", "cleaning"}

\* Among calls of processes that stay up, none of them a cleanup, no lock
\* directory is deleted in use: withLock excludes without any exception.
THEOREM ExclusionUndisturbed ==
  ASSUME MayCrash = {}, \A c \in Call : Op[c] # "clean"
  PROVE  Spec => [](\A c, d \in Call :
                      pc[c] \in Locked /\ pc[d] \in Locked => c = d)
<1>1. Init => Undisturbed
  BY DEF Init, Undisturbed
<1>2. TypeOK /\ Undisturbed /\ [Next]_vars => Undisturbed'
  <2> SUFFICES ASSUME TypeOK, Undisturbed, [Next]_vars PROVE Undisturbed'
    OBVIOUS
  <2> USE ConstantsType DEF TypeOK, Undisturbed, files, Goto
  <2>1. ASSUME NEW c \in Call, CallStep(c) PROVE Undisturbed'
    <3>1. ~CleanCheck(c) /\ ~CleanFile(c) /\ ~CleanEnds(c) /\ ~Reclaim(c)
      BY DEF CleanCheck, CleanFile, CleanEnds, Reclaim
    <3>2. lockLost' = lockLost
      BY <2>1, <3>1
      DEF CallStep, Lookup, Recheck, Verify, Unlink, ReadMeta, Mkdir, Judge,
          MakeParent, Acquire, AttemptFails, CheckCached, Rehash, Reject,
          Fetch, FetchFails, Publish, Chmod, Release, Stat, WriteMeta,
          MoveMeta, Spawn
    <3>3. \E place : Goto(c, place) /\ place \notin {"crashed", "reclaim",
                                                    "cleaning"}
      BY <2>1, <3>1
      DEF CallStep, Lookup, Recheck, RecheckTo, Verify, Unlink, ReadMeta,
          Mkdir, Judge, MakeParent, Acquire, AttemptFails, CheckCached, Rehash,
          Reject, Fetch, FetchFails, Publish, Chmod, Release, Stat, WriteMeta,
          MoveMeta, Spawn
    <3> QED
      BY <3>2, <3>3
  <2>2. ASSUME NEW p \in Process, Crash(p) PROVE FALSE
    BY <2>2 DEF Crash
  <2>3. CASE Expire \/ Serve \/ UNCHANGED vars
    BY <2>3 DEF Expire, Serve, vars
  <2> QED
    BY <2>1, <2>2, <2>3 DEF Next
<1>3. Undisturbed /\ OneInside =>
        \A c, d \in Call : pc[c] \in Locked /\ pc[d] \in Locked => c = d
  BY DEF Undisturbed, OneInside
<1> QED
  BY <1>1, <1>2, <1>3, TypeCorrect, Exclusion, PTL DEF Spec

\* What a call makes for its own use under the lock: the lock directory and the
\* temporary file of its download.
NothingLeftBehind ==
  /\ lock # None => pc[lock] \in Locked \cup {"crashed"}
  /\ \A c \in parts : pc[c] \in {"publish", "crashed"}

\* However a call of dlxBinary or downloadBinary fails (a request, a checksum,
\* an attempt to take the lock, a directory or a binary that a cleanup deletes
\* under it), it comes to the release of the lock and the deletion of its
\* temporary file, which the model lets succeed: only a crash leaves either
\* behind.
THEOREM CleansUp == Spec => []NothingLeftBehind
<1>1. Init => NothingLeftBehind
  BY DEF Init, NothingLeftBehind
<1>2. TypeOK /\ NothingLeftBehind /\ [Next]_vars => NothingLeftBehind'
  <2> SUFFICES ASSUME TypeOK, NothingLeftBehind, [Next]_vars
               PROVE  NothingLeftBehind'
    OBVIOUS
  <2> USE ConstantsType DEF TypeOK, NothingLeftBehind, Locked, files, Goto,
          Settled
  <2>1. ASSUME NEW c \in Call,
               \/ Lookup(c) \/ Recheck(c) \/ AttemptFails(c) \/ CheckCached(c)
               \/ Chmod(c) \/ Stat(c) \/ Spawn(c) \/ CleanCheck(c)
        PROVE  NothingLeftBehind'
    BY <2>1 DEF Lookup, Recheck, AttemptFails, CheckCached, Chmod, Stat, Spawn,
       CleanCheck, RecheckTo
  <2>2. ASSUME NEW c \in Call, Verify(c) \/ Rehash(c) \/ ReadMeta(c)
        PROVE  NothingLeftBehind'
    BY <2>2 DEF Verify, Rehash, ReadMeta
  <2>3. ASSUME NEW c \in Call, Unlink(c) \/ Reject(c)
        PROVE  NothingLeftBehind'
    BY <2>3 DEF Unlink, Reject
  <2>4. ASSUME NEW c \in Call,
             \/ Mkdir(c) \/ Judge(c) \/ Reclaim(c) \/ MakeParent(c)
             \/ Acquire(c) \/ Release(c)
        PROVE  NothingLeftBehind'
    BY <2>4 DEF Mkdir, Judge, Reclaim, InUse, MakeParent, Acquire,
     Release
  <2>5. ASSUME NEW c \in Call, Fetch(c) \/ FetchFails(c) \/ Publish(c)
        PROVE  NothingLeftBehind'
    BY <2>5 DEF Fetch, FetchFails, Publish
  <2>6. ASSUME NEW c \in Call, WriteMeta(c) \/ MoveMeta(c)
        PROVE  NothingLeftBehind'
    BY <2>6 DEF WriteMeta, MoveMeta
  <2>7. ASSUME NEW c \in Call, CleanFile(c) \/ CleanEnds(c)
        PROVE  NothingLeftBehind'
    BY <2>7 DEF CleanFile, CleanEnds, InUse
  <2>8. ASSUME NEW p \in Process, Crash(p) PROVE NothingLeftBehind'
    BY <2>8 DEF Crash
  <2>9. CASE Expire \/ Serve \/ UNCHANGED vars
    BY <2>9 DEF Expire, Valid, Serve, vars
  <2> QED
    BY <2>1, <2>2, <2>3, <2>4, <2>5, <2>6, <2>7, <2>8, <2>9
    DEF Next, CallStep
<1> QED
  BY <1>1, <1>2, TypeCorrect, PTL DEF Spec

\* A step that changes the binary deletes it, or publishes a download.
LEMMA BinSteps ==
  ASSUME TypeOK, [Next]_vars
  PROVE bin' \in {bin, None} \/ \E c \in Call : pc[c] = "publish"
<1> USE DEF TypeOK, files
<1>1. ASSUME NEW c \in Call, CallStep(c), ~Publish(c) PROVE bin' \in {bin, None}
  BY <1>1
  DEF CallStep, Lookup, Recheck, AttemptFails, CheckCached, Chmod, Stat, Spawn,
      CleanCheck, Verify, Rehash, ReadMeta, Unlink, Reject, Mkdir, Judge,
      Reclaim, MakeParent, Acquire, Release, Fetch, FetchFails, Publish,
      WriteMeta, MoveMeta, CleanFile, CleanEnds
<1>2. ASSUME NEW c \in Call, Publish(c) PROVE pc[c] = "publish"
  BY <1>2 DEF Publish
<1>3. ASSUME NEW p \in Process, Crash(p) PROVE bin' = bin
  BY <1>3 DEF Crash
<1>4. CASE Expire \/ Serve \/ UNCHANGED vars
  BY <1>4 DEF Expire, Serve, vars
<1> QED
  BY <1>1, <1>2, <1>3, <1>4 DEF Next

\* A binary in place is never overwritten by a download, until a lock directory
\* is deleted in use.
THEOREM NeverOverwritten == Spec => BinaryNeverOverwritten
<1>1. Inv /\ [Next]_vars =>
        [~lockLost /\ bin \notin {None, Empty} => bin' \in {bin, None}]_vars
  BY BinSteps DEF Inv, VacantInv
<1> QED
  BY <1>1, Invariance, PTL DEF Spec, BinaryNeverOverwritten

----------------------------------------------------------------------------
\* A call is under way; at most one is at a time.
InProgress(c) == pc[c] \notin {"start"} \cup Settled
OneAtATime == \A c, d \in Call : InProgress(c) /\ InProgress(d) => c = d

\* The binary is in place and measured, the metadata is not yet.
Unrecorded == {"chmod", "release", "stat", "writemeta", "movemeta"}

\* What a call has in its hands until it has recorded the binary.
Handled(c) ==
  /\ pc[c] \in {"acquire", "reclaim", "parent", "make", "stat", "writemeta",
               "movemeta"} \cup Locked => dir
  /\ pc[c] \in Unrecorded \cup {"readmeta"} => measured[c] = bin
  /\ pc[c] = "movemeta" => tmp[ProcOf[c]] = [sri |-> measured[c], fresh |-> TRUE]
  /\ pc[c] # "done" => returned[c] = None

\* What it leaves to the next: metadata and binary that agree, or one of them.
Agreement ==
  bin # None /\ meta # None =>
    meta.sri = bin \/ \E c \in Call : pc[c] \in Unrecorded

RecordedInv == (\A c \in Call : Handled(c)) /\ Agreement /\ ReturnsWhatItMeasured

\* A step of the only call under way keeps record and binary in agreement.
LEMMA RecordedStep ==
  ASSUME MayCrash = {}, Inv, RecordedInv, OneAtATime, OneAtATime', [Next]_vars
  PROVE  RecordedInv'
<1> USE ConstantsType DEF TypeOK, RecordedInv, Handled, Agreement,
        ReturnsWhatItMeasured, Unrecorded, Locked, Settled, Goto, files
<1>0. TypeOK /\ OpInv /\ MeasuredInv
  BY DEF Inv
<1>1. ASSUME NEW c \in Call, pc[c] \notin {"start"} \cup Settled
      PROVE  \A d \in Call : d # c => pc[d] \in {"start"} \cup Settled
  BY <1>1 DEF OneAtATime, InProgress
<1>2. ASSUME NEW c \in Call,
             \/ Lookup(c) \/ Recheck(c) \/ AttemptFails(c) \/ CheckCached(c)
             \/ Spawn(c) \/ CleanCheck(c)
      PROVE  RecordedInv'
  BY <1>0, <1>2 DEF Lookup, Recheck, RecheckTo, AttemptFails, CheckCached,
     Spawn, CleanCheck
<1>3. ASSUME NEW c \in Call, Verify(c) PROVE RecordedInv'
  <2>1. \A d \in Call : d # c => Handled(d)'
    BY <1>0, <1>1, <1>3 DEF Verify
  <2>2. Handled(c)'
    <3>1. /\ pc'[c] \in {"mkdir", "failed", "spawn", "readmeta", "unlink"}
          /\ pc'[c] = "readmeta" => measured'[c] = bin
          /\ UNCHANGED <<bin, returned>>
      BY <1>0, <1>3 DEF Verify
    <3>2. returned[c] = None
      BY <1>3 DEF Verify
    <3> QED
      BY <3>1, <3>2
  <2>3. Agreement'
    BY <1>0, <1>1, <1>3 DEF Verify
  <2>4. ReturnsWhatItMeasured'
    BY <1>0, <1>1, <1>3 DEF Verify
  <2> QED
    BY <2>1, <2>2, <2>3, <2>4
<1>4. ASSUME NEW c \in Call, Unlink(c) \/ Reject(c) PROVE RecordedInv'
  <2>1. \A d \in Call : d # c => Handled(d)'
    BY <1>0, <1>1, <1>4 DEF Unlink, Reject
  <2>2. Handled(c)'
    BY <1>0, <1>1, <1>4 DEF Unlink, Reject
  <2>3. Agreement'
    BY <1>0, <1>1, <1>4 DEF Unlink, Reject
  <2>4. ReturnsWhatItMeasured'
    BY <1>0, <1>1, <1>4 DEF Unlink, Reject
  <2> QED
    BY <2>1, <2>2, <2>3, <2>4
<1>5. ASSUME NEW c \in Call, ReadMeta(c) PROVE RecordedInv'
  <2>1. /\ bin # None /\ measured[c] = bin
        /\ dir /\ meta # None => meta.sri = bin
    <3>1. measured[c] = bin /\ bin \in Version
      BY <1>0, <1>5 DEF ReadMeta, MeasuredInv, Checked
    <3>2. ~\E d \in Call : pc[d] \in Unrecorded
      BY <1>1, <1>5 DEF ReadMeta
    <3> QED
      BY <3>1, <3>2
  <2>2. /\ pc' = [pc EXCEPT ![c] = "done"]
        /\ returned' = [returned EXCEPT ![c] = measured[c]]
        /\ UNCHANGED <<files, measured>>
    BY <1>5, <2>1 DEF ReadMeta
  <2> QED
    BY <1>0, <1>5, <2>1, <2>2 DEF ReadMeta
<1>6. ASSUME NEW c \in Call,
             \/ Mkdir(c) \/ Judge(c) \/ Reclaim(c) \/ MakeParent(c)
             \/ Acquire(c)
      PROVE  RecordedInv'
  BY <1>0, <1>6 DEF Mkdir, Judge, Reclaim, MakeParent, Acquire
<1>7. ASSUME NEW c \in Call, Rehash(c) PROVE RecordedInv'
  <2>1. \A d \in Call : d # c => Handled(d)'
    BY <1>0, <1>1, <1>7 DEF Rehash
  <2>2. Handled(c)'
    <3>1. /\ pc'[c] \in {"abandon", "release", "reject"}
          /\ pc'[c] = "release" => measured'[c] = bin
          /\ UNCHANGED <<bin, dir, returned>>
      BY <1>0, <1>7 DEF Rehash
    <3>2. returned[c] = None /\ dir
      BY <1>7 DEF Rehash
    <3> QED
      BY <3>1, <3>2
  <2>3. Agreement'
    BY <1>0, <1>1, <1>7 DEF Rehash
  <2>4. ReturnsWhatItMeasured'
    BY <1>0, <1>1, <1>7 DEF Rehash
  <2> QED
    BY <2>1, <2>2, <2>3, <2>4
<1>8. ASSUME NEW c \in Call, Fetch(c) \/ FetchFails(c) PROVE RecordedInv'
  <2>1. \A d \in Call : d # c => Handled(d)'
    BY <1>0, <1>1, <1>8 DEF Fetch, FetchFails
  <2>0. returned[c] = None /\ dir
    BY <1>8 DEF Fetch, FetchFails
  <2>2. Handled(c)'
    <3>1. /\ pc'[c] \in {"publish", "abandon"}
          /\ UNCHANGED <<dir, returned>>
      BY <1>0, <1>8 DEF Fetch, FetchFails
    <3> QED
      BY <2>0, <3>1
  <2>3. Agreement'
    BY <1>0, <1>1, <1>8 DEF Fetch, FetchFails
  <2>4. ReturnsWhatItMeasured'
    <3>1. /\ UNCHANGED returned
          /\ \A d \in Call : d # c => measured'[d] = measured[d]
      BY <1>0, <1>8 DEF Fetch, FetchFails
    <3> QED
      BY <2>0, <3>1
  <2> QED
    BY <2>1, <2>2, <2>3, <2>4
<1>9. ASSUME NEW c \in Call, Publish(c) PROVE RecordedInv'
  BY <1>0, <1>1, <1>9 DEF Publish
<1>10. ASSUME NEW c \in Call, Chmod(c) \/ Release(c) \/ Stat(c)
       PROVE  RecordedInv'
  BY <1>0, <1>10 DEF Chmod, Release, Stat, MeasuredInv, Checked
<1>11. ASSUME NEW c \in Call, WriteMeta(c) PROVE RecordedInv'
  <2>1. \A d \in Call : d # c => Handled(d)'
    BY <1>0, <1>1, <1>11 DEF WriteMeta
  <2>2. Handled(c)'
    BY <1>0, <1>1, <1>11 DEF WriteMeta
  <2>3. Agreement'
    BY <1>0, <1>1, <1>11 DEF WriteMeta
  <2>4. ReturnsWhatItMeasured'
    BY <1>0, <1>1, <1>11 DEF WriteMeta
  <2> QED
    BY <2>1, <2>2, <2>3, <2>4
<1>12. ASSUME NEW c \in Call, MoveMeta(c) PROVE RecordedInv'
  <2>1. \A d \in Call : d # c => Handled(d)'
    BY <1>0, <1>1, <1>12 DEF MoveMeta
  <2>2. Handled(c)'
    BY <1>0, <1>1, <1>12 DEF MoveMeta
  <2>3. Agreement'
    <3>1. tmp[ProcOf[c]] = [sri |-> bin, fresh |-> TRUE] /\ tmp[ProcOf[c]] # None
      <4>1. measured[c] = bin /\ bin \in Version
        <5>1. pc[c] = "movemeta"
          BY <1>12 DEF MoveMeta
        <5>2. Handled(c)
          BY DEF RecordedInv
        <5>3. measured[c] = bin
          BY <5>1, <5>2
        <5>4. measured[c] \in Version
          BY <1>0, <5>1 DEF MeasuredInv, Checked
        <5> QED
          BY <5>3, <5>4
      <4>2. [sri |-> bin, fresh |-> TRUE] \in Metadata
        BY <4>1 DEF Metadata
      <4>3. tmp[ProcOf[c]] = [sri |-> bin, fresh |-> TRUE]
        BY <1>12, <4>1 DEF MoveMeta
      <4> QED
        BY <4>2, <4>3, NoneIsNoMetadata
    <3>2. meta' = [sri |-> bin, fresh |-> TRUE] /\ bin' = bin
      BY <1>12, <3>1 DEF MoveMeta
    <3> QED
      BY <3>2
  <2>4. ReturnsWhatItMeasured'
    BY <1>0, <1>1, <1>12 DEF MoveMeta
  <2> QED
    BY <2>1, <2>2, <2>3, <2>4
<1>13. ASSUME NEW c \in Call, CleanFile(c) \/ CleanEnds(c) PROVE RecordedInv'
  BY <1>0, <1>1, <1>13 DEF CleanFile, CleanEnds, InUse
<1>14. ASSUME NEW p \in Process, Crash(p) PROVE FALSE
  BY <1>14 DEF Crash
<1>15. CASE Expire
  BY <1>0, <1>15 DEF Expire, Valid, Metadata
<1>16. CASE Serve \/ UNCHANGED vars
  BY <1>16 DEF Serve, vars
<1> QED
  BY <1>2, <1>3, <1>4, <1>5, <1>6, <1>7, <1>8, <1>9, <1>10, <1>11, <1>12,
     <1>13, <1>14, <1>15, <1>16 DEF Next, CallStep

\* What it takes for downloadBinary to return another integrity than that of the
\* bytes it measured: calls that overlap, or one that dies before it has written
\* the metadata.  One after the other, they return what they measured, however
\* their requests fail, the URL changes, the metadata expires and cleanups end.
THEOREM ReturnsMeasuredAlone ==
  ASSUME MayCrash = {}
  PROVE  Spec /\ []OneAtATime => []ReturnsWhatItMeasured
<1>1. Init => RecordedInv
  BY DEF Init, RecordedInv, Handled, Agreement, ReturnsWhatItMeasured,
      Unrecorded, Locked
<1>2. /\ Inv /\ RecordedInv /\ OneAtATime /\ OneAtATime' /\ [Next]_vars
      => RecordedInv'
  BY RecordedStep
<1>3. RecordedInv => ReturnsWhatItMeasured
  BY DEF RecordedInv
<1> QED
  BY <1>1, <1>2, <1>3, Invariance, PTL DEF Spec

----------------------------------------------------------------------------
\* The most steps that a call can take, when every attempt at the lock fails.
MostSteps == 19 + 4 * Retries

\* The most steps that a call can still take, apart from the files that a
\* cleanup deletes.
StepsLeft(c) ==
  LET again == 4 * (Retries - attempts[c]) IN
  CASE pc[c] = "start" -> 19 + 4 * Retries
    [] pc[c] = "recheck" -> 18 + 4 * Retries
    [] pc[c] \in {"hit", "verify"} -> 17 + 4 * Retries
    [] pc[c] \in {"unlink", "readmeta"} -> 16 + 4 * Retries
    [] pc[c] = "mkdir" -> 15 + 4 * Retries
    [] pc[c] = "acquire" -> 14 + again
    [] pc[c] = "reclaim" -> 13 + again
    [] pc[c] = "parent" -> 12 + again
    [] pc[c] = "make" -> 11 + again
    [] pc[c] = "locked" -> 10
    [] pc[c] \in {"rehash", "fetch"} -> 9
    [] pc[c] \in {"reject", "publish"} -> 8
    [] pc[c] = "chmod" -> 7
    [] pc[c] \in {"release", "abandon"} -> 6
    [] pc[c] = "stat" -> 5
    [] pc[c] = "writemeta" -> 4
    [] pc[c] = "movemeta" -> 3
    [] pc[c] = "spawn" -> 2
    [] pc[c] = "cleaning" -> 1
    [] pc[c] \in Settled -> 0

\* A call only ever moves nearer to its end, and each of its own steps but the
\* deletions of a cleanup moves it.
CallsWearOut ==
  \A c \in Call :
    /\ pc'[c] = pc[c] \/ StepsLeft(c)' < StepsLeft(c)
    /\ CallStep(c) /\ pc[c] # "cleaning" => StepsLeft(c)' < StepsLeft(c)

\* No call goes round in circles: what it finds missing or rejects sends
\* dlxBinary on to the download, never back to the cache, and every failure
\* leads out of the lock and then out of the call.
THEOREM CallsEnd ==
  Spec => /\ [](\A c \in Call : StepsLeft(c) \in Nat /\ StepsLeft(c) =< MostSteps)
          /\ [][CallsWearOut]_vars
<1>1. TypeOK => \A c \in Call : StepsLeft(c) \in Nat /\ StepsLeft(c) =< MostSteps
  <2> SUFFICES ASSUME TypeOK, NEW c \in Call, pc[c] \in Places
               PROVE  StepsLeft(c) \in Nat /\ StepsLeft(c) =< MostSteps
    BY DEF TypeOK
  <2>1. attempts[c] \in 0..Retries /\ Retries \in Nat
    BY ConstantsType DEF TypeOK
  <2>2. CASE pc[c] \in {"start", "recheck", "hit", "verify", "unlink",
                        "readmeta", "mkdir"}
    BY <2>1, <2>2 DEF StepsLeft, MostSteps
  <2>3. CASE pc[c] \in {"acquire", "reclaim", "parent", "make"}
    BY <2>1, <2>3 DEF StepsLeft, MostSteps
  <2>4. CASE pc[c] \in Locked
    BY <2>1, <2>4 DEF StepsLeft, MostSteps, Locked
  <2>5. CASE pc[c] \in Settled \cup {"stat", "writemeta", "movemeta", "spawn",
                                   "cleaning"}
    BY <2>1, <2>5 DEF StepsLeft, MostSteps, Settled
  <2> QED
    BY <2>2, <2>3, <2>4, <2>5 DEF Places
<1>2. TypeOK /\ [Next]_vars => CallsWearOut
  <2> SUFFICES ASSUME TypeOK, [Next]_vars, NEW c \in Call
               PROVE  /\ pc'[c] = pc[c] \/ StepsLeft(c)' < StepsLeft(c)
                      /\ CallStep(c) /\ pc[c] # "cleaning" =>
                           StepsLeft(c)' < StepsLeft(c)
    BY DEF CallsWearOut
  <2> USE DEF TypeOK, Goto
  <2>0. attempts[c] \in 0..Retries /\ Retries \in Nat
    BY ConstantsType
  <2>1. ASSUME CallStep(c), pc[c] # "cleaning"
        PROVE  StepsLeft(c)' < StepsLeft(c)
    <3> USE DEF StepsLeft, Settled
    <3>1. CASE Lookup(c) \/ Recheck(c) \/ Verify(c) \/ Unlink(c) \/ ReadMeta(c)
      BY <2>0, <3>1 DEF Lookup, Recheck, RecheckTo, Verify, Unlink, ReadMeta
    <3>2. CASE \/ Mkdir(c) \/ Judge(c) \/ Reclaim(c) \/ MakeParent(c)
               \/ Acquire(c)
      BY <2>0, <3>2 DEF Mkdir, Judge, Reclaim, MakeParent, Acquire
    <3>5. CASE AttemptFails(c)
      BY <2>0, <3>5 DEF AttemptFails
    <3>6. CASE CheckCached(c) \/ Rehash(c) \/ Reject(c)
      BY <3>6 DEF CheckCached, Rehash, Reject
    <3>3. CASE \/ Fetch(c) \/ FetchFails(c) \/ Publish(c) \/ Chmod(c)
               \/ Release(c)
      BY <3>3 DEF Fetch, FetchFails, Publish, Chmod, Release
    <3>4. CASE \/ Stat(c) \/ WriteMeta(c) \/ MoveMeta(c) \/ Spawn(c)
               \/ CleanCheck(c) \/ CleanFile(c) \/ CleanEnds(c)
      BY <2>0, <2>1, <3>4
      DEF Stat, WriteMeta, MoveMeta, Spawn, CleanCheck, CleanFile, CleanEnds
    <3> QED
      BY <2>1, <3>1, <3>2, <3>3, <3>4, <3>5, <3>6 DEF CallStep
  <2>2. CASE CallStep(c) /\ pc[c] = "cleaning"
    BY <2>2 DEF CallStep, Lookup, Recheck, Verify, Unlink, ReadMeta, Mkdir,
       Judge, Reclaim, MakeParent, Acquire, AttemptFails, CheckCached, Rehash,
       Reject, Fetch, FetchFails, Publish, Chmod, Release, Stat, WriteMeta,
       MoveMeta, Spawn, CleanCheck, CleanFile, CleanEnds, StepsLeft, Settled
  <2>3. ASSUME NEW d \in Call, d # c, CallStep(d) PROVE pc'[c] = pc[c]
    BY <2>3 DEF CallStep, Lookup, Recheck, Verify, Unlink, ReadMeta, Mkdir,
       Judge, Reclaim, MakeParent, Acquire, AttemptFails, CheckCached, Rehash,
       Reject, Fetch, FetchFails, Publish, Chmod, Release, Stat, WriteMeta,
       MoveMeta, Spawn, CleanCheck, CleanFile, CleanEnds
  <2>4. ASSUME NEW p \in Process, Crash(p)
        PROVE  pc'[c] = pc[c] \/ StepsLeft(c)' < StepsLeft(c)
    BY <2>0, <2>4 DEF Crash, StepsLeft, Places, Locked, Settled
  <2>5. CASE Expire \/ Serve \/ UNCHANGED vars
    BY <2>1, <2>5 DEF Expire, Serve, vars
  <2> QED
    BY <2>1, <2>2, <2>3, <2>4, <2>5 DEF Next
<1> QED
  BY <1>1, <1>2, TypeCorrect, PTL DEF Spec
=============================================================================
