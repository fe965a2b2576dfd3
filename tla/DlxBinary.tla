----------------------------- MODULE DlxBinary -----------------------------
(***************************************************************************)
(* One entry of the dlx binary cache (dlx/binary-download.mts, binary.mts, *)
(* binary-cache.mts): the directory of one URL and name, which holds the   *)
(* binary, its metadata and the lock `concurrency.lock`.                   *)
(*                                                                         *)
(* A call is one downloadBinary, dlxBinary or cleanDlxCache, made by some  *)
(* process that shares the file system.  A step is what a call does to the *)
(* files between two awaits, so the calls interleave at every await.       *)
(*                                                                         *)
(* Bytes are versions: a file is one version of what the URL serves, and   *)
(* an SRI integrity or a sha256 pin names a version.  The lock is taken    *)
(* call by call of the file system, so that two processes may reclaim that *)
(* of a dead one; its clock is the subject of ProcessLock: the lock of a   *)
(* live process is touched in time and never stale, that of a dead one     *)
(* becomes stale.  The deletion of a binary or of a stale lock may fail;   *)
(* those of the lock by its holder and of a partial download succeed, as   *)
(* the cache is in one of the directories that safeDelete allows.          *)
(***************************************************************************)
EXTENDS Integers, FiniteSets

CONSTANTS
  Call,       \* the calls that are ever made
  Process,    \* the processes that make them
  ProcOf,     \* the process that makes each call
  Op,         \* each call's function: "download", "run" or "clean"
  Pin,        \* the version each call pins, or None
  Forced,     \* the calls made with force: true
  Version,    \* the bodies that the URL may serve
  Empty,      \* the body of no bytes
  None,       \* no file, no pin
  Retries,    \* pRetry's retries of an attempt to take the lock
  MayCrash,   \* processes that may die
  MayExpire   \* may the metadata pass its cacheTtl?

ASSUME ConstantsType ==
  /\ ProcOf \in [Call -> Process]
  /\ Op \in [Call -> {"download", "run", "clean"}]
  /\ Pin \in [Call -> Version \cup {None}]
  /\ Forced \subseteq Call
  /\ None \notin Call \cup Version
  /\ Retries \in Nat
  /\ MayCrash \subseteq Process
  /\ MayExpire \in BOOLEAN

VARIABLES
  served,     \* the version that the URL serves now
  dir,        \* does the entry's directory exist?
  bin,        \* the binary, or None
  meta,       \* the metadata file, or None
  tmp,        \* the temporary metadata file of each process, or None
  parts,      \* the calls whose temporary download exists
  lock,       \* the call that made the lock directory, or None
  pc,         \* where each call stands
  attempts,   \* the failed attempts of a call that is taking the lock
  measured,   \* the version each call has hashed, or None
  returned,   \* the integrity that each call returned, or None
  lockLost    \* history: a lock directory in use has been deleted

files == <<dir, bin, meta, tmp, parts, lock>>
vars == <<served, files, pc, attempts, measured, returned, lockLost>>

----------------------------------------------------------------------------
Settled == {"done", "failed", "crashed"}

\* Places at which a call runs inside withLock.
Locked == {"locked", "rehash", "reject", "fetch", "publish", "chmod",
           "release", "abandon"}

Places == Locked \cup Settled \cup
          {"start", "hit", "recheck", "verify", "unlink", "readmeta", "mkdir",
           "acquire", "reclaim", "parent", "make", "stat", "writemeta",
           "movemeta", "spawn", "cleaning"}

Metadata == [sri : Version, fresh : BOOLEAN]

ASSUME NoneIsNoMetadata == None \notin Metadata

\* The bytes satisfy the pin of the call, if it has one.
Matches(c, v) == Pin[c] \in {None, v}

Goto(c, place) == pc' = [pc EXCEPT ![c] = place]

Init ==
  /\ served \in Version
  /\ dir = FALSE
  /\ bin = None
  /\ meta = None
  /\ tmp = [p \in Process |-> None]
  /\ parts = {}
  /\ lock = None
  /\ pc = [c \in Call |-> "start"]
  /\ attempts = [c \in Call |-> 0]
  /\ measured = [c \in Call |-> None]
  /\ returned = [c \in Call |-> None]
  /\ lockLost = FALSE

----------------------------------------------------------------------------
\* isBinaryCacheValid: metadata that parses and is younger than cacheTtl.
Valid == dir /\ meta # None /\ meta.fresh

\* downloadBinary and dlxBinary, up to the branch on the cache.
Lookup(c) ==
  /\ pc[c] = "start"
  /\ Op[c] # "clean"
  /\ Goto(c, IF c \notin Forced /\ Valid
               THEN IF Op[c] = "run" THEN "recheck" ELSE "hit"
               ELSE "mkdir")
  /\ UNCHANGED <<served, files, measured, returned, attempts, lockLost>>

\* dlxBinary reads the metadata of a hit and looks for the binary again.
RecheckRestarts(c) == IF meta # None THEN IF bin # None THEN "verify"
                                          ELSE "start"
                      ELSE "mkdir"                               \* mutant
RecheckTo(c) == IF meta # None /\ bin # None THEN "verify" ELSE "mkdir"

Recheck(c) ==
  /\ pc[c] = "recheck"
  /\ Goto(c, RecheckTo(c))
  /\ UNCHANGED <<served, files, measured, returned, attempts, lockLost>>

\* verifyCachedBinary, without the lock: the binary is hashed.  A missing one
\* fails downloadBinary; dlxBinary catches the error and downloads.
HitAccepts(c) == Matches(c, bin)

Verify(c) ==
  /\ pc[c] \in {"hit", "verify"}
  /\ IF bin = None
       THEN /\ Goto(c, IF Op[c] = "run" THEN "mkdir" ELSE "failed")
            /\ UNCHANGED measured
       ELSE /\ measured' = [measured EXCEPT ![c] = bin]
            /\ Goto(c, IF HitAccepts(c)
                         THEN IF Op[c] = "run" THEN "spawn" ELSE "readmeta"
                         ELSE "unlink")
  /\ UNCHANGED <<served, files, returned, attempts, lockLost>>

\* verifyCachedBinary deletes the binary, whichever it is by now, and throws: the
\* mismatch, or the error of a deletion that fails, say because the binary runs.
Unlink(c) ==
  /\ pc[c] = "unlink"
  /\ bin' \in {bin, None}
  /\ Goto(c, IF Op[c] = "run" THEN "mkdir" ELSE "failed")
  /\ UNCHANGED <<served, dir, meta, tmp, parts, lock, measured, returned,
                 attempts, lockLost>>

\* downloadBinary answers a hit with the integrity that the metadata records.
ReadMeta(c) ==
  /\ pc[c] = "readmeta"
  /\ returned' = [returned EXCEPT ![c] = IF dir /\ meta # None
                                           THEN meta.sri ELSE measured[c]]
  /\ Goto(c, "done")
  /\ UNCHANGED <<served, files, measured, attempts, lockLost>>

----------------------------------------------------------------------------
\* safeMkdir of the entry's directory.
Mkdir(c) ==
  /\ pc[c] = "mkdir"
  /\ dir' = TRUE
  /\ Goto(c, "acquire")
  /\ UNCHANGED <<served, bin, meta, tmp, parts, lock, measured, returned,
                 attempts, lockLost>>

\* The lock directory is that of a call inside withLock.
InUse == lock # None /\ pc[lock] \in Locked

\* An attempt of acquire runs without an await: no other attempt and no release
\* of its process comes between its calls of the file system.
HasThread(c) ==
  \A d \in Call \ {c} :
    ProcOf[d] = ProcOf[c] => pc[d] \notin {"reclaim", "parent", "make"}

\* withLock of downloadBinaryFile tries to take the lock.  isStale looks at the
\* lock directory; that of a dead process is stale sooner or later.
Judge(c) ==
  /\ pc[c] = "acquire"
  /\ HasThread(c)
  /\ \/ lock # None /\ pc[lock] = "crashed" /\ Goto(c, "reclaim")
     \/ Goto(c, "parent")
  /\ UNCHANGED <<served, files, measured, returned, attempts, lockLost>>

\* safeDeleteSync of the stale directory: of whichever is there by now.  The
\* attempt goes on when it throws.
Reclaim(c) ==
  /\ pc[c] = "reclaim"
  /\ lock' \in {lock, None}
  /\ lockLost' = (lockLost \/ (lock' # lock /\ InUse))
  /\ Goto(c, "parent")
  /\ UNCHANGED <<served, dir, bin, meta, tmp, parts, attempts, measured,
                 returned>>

\* mkdirSync of the entry's directory, recursive ...
MakeParent(c) ==
  /\ pc[c] = "parent"
  /\ dir' = TRUE
  /\ Goto(c, "make")
  /\ UNCHANGED <<served, bin, meta, tmp, parts, lock, measured, returned,
                 attempts, lockLost>>

\* ... and of the lock directory, not recursive: only one call can make it.
Acquire(c) ==
  /\ pc[c] = "make"
  /\ dir /\ lock = None
  /\ lock' = c
  /\ attempts' = [attempts EXCEPT ![c] = 0]
  /\ Goto(c, "locked")
  /\ UNCHANGED <<served, dir, bin, meta, tmp, parts, measured, returned,
                 lockLost>>

\* It throws: the lock directory exists, the entry's has gone again, or the
\* file system refuses.  pRetry delays another attempt, or gives up.
AttemptFails(c) ==
  /\ pc[c] = "make"
  /\ IF attempts[c] < Retries
       THEN /\ attempts' = [attempts EXCEPT ![c] = @ + 1]
            /\ Goto(c, "acquire")
       ELSE Goto(c, "failed") /\ attempts' = [attempts EXCEPT ![c] = 0]
  /\ UNCHANGED <<served, files, measured, returned, lockLost>>

\* The file was downloaded while the call waited for the lock.
CachedNever == FALSE   \* mutant: downloads without looking again
Cached == bin \notin {None, Empty}

ReusedUnmeasured(c) ==        \* mutant: reuses the file without hashing it
  /\ pc[c] = "locked"
  /\ Goto(c, IF Cached THEN "release" ELSE "fetch")
  /\ UNCHANGED <<served, files, measured, returned, attempts, lockLost>>
CheckCached(c) ==
  /\ pc[c] = "locked"
  /\ Goto(c, IF Cached THEN "rehash" ELSE "fetch")
  /\ UNCHANGED <<served, files, measured, returned, attempts, lockLost>>

\* verifyIntegrity and verifyCachedSha256 of the file to be reused.
ReuseAnything(c) == TRUE   \* mutant: trusts what an earlier caller deposited
ReuseAccepts(c) == Matches(c, bin)

Rehash(c) ==
  /\ pc[c] = "rehash"
  /\ IF bin = None
       THEN Goto(c, "abandon") /\ UNCHANGED measured
       ELSE /\ measured' = [measured EXCEPT ![c] = bin]
            /\ Goto(c, IF ReuseAccepts(c) THEN "release" ELSE "reject")
  /\ UNCHANGED <<served, files, returned, attempts, lockLost>>

Reject(c) ==
  /\ pc[c] = "reject"
  /\ bin' \in {bin, None}
  /\ Goto(c, "abandon")
  /\ UNCHANGED <<served, dir, meta, tmp, parts, lock, measured, returned,
                 attempts, lockLost>>

\* httpDownload writes the response to a temporary file of the directory, and
\* hashes what it writes.
Fetch(c) ==
  /\ pc[c] = "fetch"
  /\ IF dir
       THEN /\ parts' = parts \cup {c}
            /\ measured' = [measured EXCEPT ![c] = served]
            /\ Goto(c, "publish")
       ELSE Goto(c, "abandon") /\ UNCHANGED <<parts, measured>>
  /\ UNCHANGED <<served, dir, bin, meta, tmp, lock, returned, attempts,
                 lockLost>>

\* The request fails, or the response breaks off; the temporary file goes.
FetchFails(c) ==
  /\ pc[c] \in {"fetch", "publish"}
  /\ parts' = parts \ {c}
  /\ Goto(c, "abandon")
  /\ UNCHANGED <<served, dir, bin, meta, tmp, lock, measured, returned,
                 attempts, lockLost>>

\* httpDownload verifies the digests and renames the temporary file.
Publish(c) ==
  /\ pc[c] = "publish"
  /\ parts' = parts \ {c}
  /\ IF c \in parts /\ Matches(c, measured[c])
       THEN bin' = measured[c] /\ Goto(c, "chmod")
       ELSE UNCHANGED bin /\ Goto(c, "abandon")
  /\ UNCHANGED <<served, dir, meta, tmp, lock, measured, returned, attempts,
                 lockLost>>

\* chmod of the binary, which fails when it has been deleted.
Chmod(c) ==
  /\ pc[c] = "chmod"
  /\ Goto(c, IF bin = None THEN "abandon" ELSE "release")
  /\ UNCHANGED <<served, files, measured, returned, attempts, lockLost>>

\* withLock releases the lock: whatever lock directory is there.
Release(c) ==
  /\ pc[c] \in {"release", "abandon"}
  /\ HasThread(c)
  /\ lock' = None
  /\ Goto(c, IF pc[c] = "release" THEN "stat" ELSE "failed")
  /\ UNCHANGED <<served, dir, bin, meta, tmp, parts, measured, returned,
                 attempts, lockLost>>

----------------------------------------------------------------------------
\* stat of the binary, after the lock is released.
Stat(c) ==
  /\ pc[c] = "stat"
  /\ Goto(c, IF bin = None THEN "failed" ELSE "writemeta")
  /\ UNCHANGED <<served, files, measured, returned, attempts, lockLost>>

\* writeBinaryCacheMetadata writes the process's temporary file ...
WriteMeta(c) ==
  /\ pc[c] = "writemeta"
  /\ IF dir
       THEN /\ tmp' = [tmp EXCEPT ![ProcOf[c]] =
                         [sri |-> measured[c], fresh |-> TRUE]]
            /\ Goto(c, "movemeta")
       ELSE Goto(c, "failed") /\ UNCHANGED tmp
  /\ UNCHANGED <<served, dir, bin, meta, parts, lock, measured, returned,
                 attempts, lockLost>>

\* ... and renames it, unless another call of the process or a cleanup has
\* taken it away.
MoveMeta(c) ==
  LET p == ProcOf[c] IN
  /\ pc[c] = "movemeta"
  /\ IF tmp[p] = None
       THEN Goto(c, "failed") /\ UNCHANGED <<meta, tmp, returned>>
       ELSE /\ meta' = tmp[p]
            /\ tmp' = [tmp EXCEPT ![p] = None]
            /\ IF Op[c] = "run"
                 THEN Goto(c, "spawn") /\ UNCHANGED returned
                 ELSE /\ Goto(c, "done")
                      /\ returned' = [returned EXCEPT ![c] = measured[c]]
  /\ UNCHANGED <<served, dir, bin, parts, lock, measured, attempts, lockLost>>

\* dlxBinary spawns the binary.
Spawn(c) ==
  /\ pc[c] = "spawn"
  /\ Goto(c, IF bin = None THEN "failed" ELSE "done")
  /\ UNCHANGED <<served, files, measured, returned, attempts, lockLost>>

----------------------------------------------------------------------------
\* cleanDlxCache reads the metadata; an entry without any is left alone, and so
\* is one younger than maxAge, which is not related to cacheTtl.
CleanCheck(c) ==
  /\ pc[c] = "start"
  /\ Op[c] = "clean"
  /\ \/ dir /\ meta # None /\ Goto(c, "cleaning")
     \/ Goto(c, "done")
  /\ UNCHANGED <<served, files, measured, returned, attempts, lockLost>>

\* safeDelete of the directory: it removes what it finds, one path at a time.
CleanFile(c) ==
  /\ pc[c] = "cleaning"
  /\ \/ bin # None /\ bin' = None /\ UNCHANGED <<meta, tmp, parts, lock>>
     \/ meta # None /\ meta' = None /\ UNCHANGED <<bin, tmp, parts, lock>>
     \/ \E p \in Process :
          /\ tmp[p] # None
          /\ tmp' = [tmp EXCEPT ![p] = None]
          /\ UNCHANGED <<bin, meta, parts, lock>>
     \/ \E d \in parts :
          parts' = parts \ {d} /\ UNCHANGED <<bin, meta, tmp, lock>>
     \/ lock # None /\ lock' = None /\ UNCHANGED <<bin, meta, tmp, parts>>
  /\ lockLost' = (lockLost \/ (lock' # lock /\ InUse))
  /\ UNCHANGED <<served, dir, pc, attempts, measured, returned>>

EmptyDir == /\ bin = None /\ meta = None /\ parts = {} /\ lock = None
            /\ \A p \in Process : tmp[p] = None

\* The directory goes last; when new files keep turning up, the deletion
\* fails, which cleanDlxCache ignores.
CleanEnds(c) ==
  /\ pc[c] = "cleaning"
  /\ dir' = (dir /\ ~EmptyDir)
  /\ Goto(c, "done")
  /\ UNCHANGED <<served, bin, meta, tmp, parts, lock, measured, returned,
                 attempts, lockLost>>

----------------------------------------------------------------------------
\* The process dies; its files stay.
Crash(p) ==
  /\ p \in MayCrash
  /\ pc' = [c \in Call |-> IF ProcOf[c] = p /\ pc[c] \notin Settled
                             THEN "crashed" ELSE pc[c]]
  /\ attempts' = [c \in Call |-> IF ProcOf[c] = p THEN 0 ELSE attempts[c]]
  /\ UNCHANGED <<served, files, measured, returned, lockLost>>

\* cacheTtl passes for the metadata in place.
Expire ==
  /\ MayExpire
  /\ Valid
  /\ meta' = [meta EXCEPT !.fresh = FALSE]
  /\ UNCHANGED <<served, dir, bin, tmp, parts, lock, pc, measured, returned,
                 attempts, lockLost>>

\* The URL serves another version from now on.
Serve ==
  /\ served' \in Version \ {served}
  /\ UNCHANGED <<files, pc, measured, returned, attempts, lockLost>>

CallStep(c) ==
  \/ Lookup(c) \/ Recheck(c) \/ Verify(c) \/ Unlink(c) \/ ReadMeta(c)
  \/ Mkdir(c) \/ Judge(c) \/ Reclaim(c) \/ MakeParent(c) \/ Acquire(c)
  \/ AttemptFails(c)
  \/ CheckCached(c) \/ Rehash(c) \/ Reject(c)
  \/ Fetch(c) \/ FetchFails(c) \/ Publish(c) \/ Chmod(c) \/ Release(c)
  \/ Stat(c) \/ WriteMeta(c) \/ MoveMeta(c) \/ Spawn(c)
  \/ CleanCheck(c) \/ CleanFile(c) \/ CleanEnds(c)

Next ==
  \/ \E c \in Call : CallStep(c)
  \/ \E p \in Process : Crash(p)
  \/ Expire
  \/ Serve

Spec == Init /\ [][Next]_vars

\* Every await of a live process ends: its requests, its lock attempts and its
\* file operations.
FairSpec == Spec /\ \A c \in Call : WF_vars(CallStep(c))

----------------------------------------------------------------------------
\* Type invariant.
TypeOK ==
  /\ served \in Version
  /\ dir \in BOOLEAN
  /\ bin \in Version \cup {None}
  /\ meta \in Metadata \cup {None}
  /\ tmp \in [Process -> Metadata \cup {None}]
  /\ parts \subseteq Call
  /\ lock \in Call \cup {None}
  /\ pc \in [Call -> Places]
  /\ attempts \in [Call -> 0..Retries]
  /\ measured \in [Call -> Version \cup {None}]
  /\ returned \in [Call -> Version \cup {None}]
  /\ lockLost \in BOOLEAN

\* verifyIntegrity: "without the cached-file call, an integrity-pinned second
\* caller would silently trust whatever an earlier unpinned caller deposited".
\* On every path (hit, file found under the lock, download) a pinned call only
\* succeeds after it has measured the bytes it pins.
PinnedCallsMeasureTheirPin ==
  \A c \in Call : pc[c] = "done" /\ Op[c] # "clean" =>
    measured[c] # None /\ Matches(c, measured[c])

\* downloadBinaryFile: the lock is there "to prevent multiple processes from
\* downloading the same binary simultaneously".  A download never replaces a
\* binary that is in place, only an absent or an empty file, however processes
\* crash, one process reclaims the lock of a dead one and the unlocked
\* deletions of cache hits interleave, until a lock directory is deleted in
\* use: by a cleanup, or by the second of two processes that both reclaim one.
BinaryNeverOverwritten ==
  [][~lockLost /\ bin \notin {None, Empty} => bin' \in {bin, None}]_vars

\* downloadBinary returns "the computed SRI integrity for future pinning": the
\* integrity returned is that of the bytes the call measured.
ReturnsWhatItMeasured ==
  \A c \in Call : returned[c] \in {None, measured[c]}

\* Every call of a process that stays up settles, whatever the others do.
EveryCallSettles == <>(\A c \in Call : pc[c] \in Settled)
=============================================================================
