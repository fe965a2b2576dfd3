# socket-lib in TLA+

Formal models of the parts of `@socketsecurity/lib` whose correctness depends on
the order in which things happen: the inter-process lock, the promise queue, async
memoization, the two-tier TTL cache, the cache of downloaded binaries, the HTTP
client with its downloads, and the exit hooks. TLC checks each model on small
instances; TLAPS proves the safety properties for every value of the constants.

Paths below are relative to the repository (`src/` is the library's source).

    tlc -workers 2 -config queue.cfg MCPromiseQueue      # one run
    tlapm PromiseQueueProofs.tla                         # one module of proofs

## 1. The system and its parts

The library is some 1000 small modules. Most of them wrap one system call or
compute a value from its arguments. What follows lists the parts that keep
state, first those that are modelled.

**Inter-process lock** (`process/lock-manager.mts`, over `promises/retry.mts` and
`process/abort.mts`).
State: a directory per lock path, with its mtime, shared by all processes; per
process `activeLocks`, `touchTimers`, the exit handler, and the process-wide
`AbortController`. Operations: `acquire` (retry loop: is the directory stale,
delete it, make it), `release`, `withLock`, the touch timer, the exit handler.
Used by `dlx` and by the npm tooling around every download. Hard: system calls of
two processes interleave; a process may die anywhere; the timer shares a
thread with the callback; several calls of one process share one timer entry.
Correct when: two callbacks never run at once; a lock that is held is not
reclaimed; a lock that is not held goes away or becomes stale; every call
settles.

**Promise queue** (`promises/queue.mts`). State: the waiting tasks, the counter
`running`, the resolvers of `onIdle`. Operations: `add`, `clear`, `onIdle`, and the
settling of a task. Hard: callers and the tasks themselves change one
queue between turns. Correct when: at most `maxConcurrency` run, no slot is
idle while a task waits, first come is first served, and every promise that was
handed out settles.

**Async memoization** (`memo/async.mts`, `memo/clear.mts`). State: a `Map` of
entries in order of use, `refreshing` (pending computations), a global list of
clear functions. Operations: the memoized call, the settling of a computation,
`clearAllMemoizationCaches`. Hard: entries expire, are evicted or are cleared while
the computation they hold is pending. Correct when: one computation a key, no
answer older than `ttl`, no failure served twice, bounded size.

**TTL cache** (`cache/ttl/store.mts`). State: an in-memory `Map`, a persistent store
(`cacache`), `inflightRequests`. Operations: `get`, `getAll`, `getOrFetch`, `set`,
`delete`, `deleteAll`, `clear`. Used by the npm metadata, GitHub and release
modules. Hard: every operation awaits the persistent store between two accesses
to memory; the store fails silently and outlives the process. Correct when: one
fetch a key, no expired answer, the newest value wins.

**dlx binaries** (`dlx/binary.mts`, `binary-download.mts`, `binary-cache.mts`).
State: per URL and name a directory with the binary, its metadata and the lock
`concurrency.lock`, shared by all processes. Operations: `downloadBinary`,
`dlxBinary` (download and spawn), `downloadBinaryFile` (under the lock),
`cleanDlxCache`. Uses the lock, the HTTP download and `fs/safe`. Hard: a cache
hit verifies, and may delete, the binary without the lock; the metadata is
written after the lock is released; a process may die between the two; a cleanup
deletes the directory one path at a time, lock included. Correct when: a caller
that pinned a hash only succeeds with bytes it has measured; a download never
replaces a binary that is in place; every call settles.

**HTTP client** (`http-request/request.mts`, `request-attempt.mts`, `download.mts`).
State: the attempt and redirect counters, per exchange the flag `settled`, for a
download the temporary file. Operations: a request with retries, one attempt
with its redirects, a download with retries. Hard: the events of one exchange
(response, error, timeout, decoding, abort) cascade in any order and must settle
it once; a redirect is compared with the previous hop only; a retry overlaps
the unawaited cleanup of the attempt before. Correct when: hooks fire once, the
credentials never leave the origin they were given for, work is bounded, the
destination is replaced by a whole and verified file or not at all, and every
call settles.

**Exit hooks** (`events/exit/`). State: the flag `loaded` and the saved process
methods of each copy of the module; one emitter for all of them, with a counter
and a record of what it has emitted. Operations: `onExit`, its remover, `load`,
`unload`, the signal listeners, the interceptors of `process.emit` and
`process.reallyExit`. Hard: one exit is reported several times and by several
copies; unloading puts back the methods that this copy found. Correct when: a
callback that is registered runs once, in order, and a signal is left to other
listeners exactly when there are any.

**npm metadata cache** (`npm/meta-cache.mts`). State: three TTL caches (live, stale,
negative). Hard: decisions over several of them across awaits.

**Debouncer, iteration, abort composition** (`promises/`). **Child processes**
(`process/spawn/`): timeouts and kills of process trees; what the child does is
external. **Secrets** (`secrets/`): one request and one answer over a socket.

Everything else (formatting and terminal output, paths, environment,
versions, archives, globs, JSON, git and GitHub calls, the release and tool
installers built on the above) has no state of its own between calls, or is pure
output, or repeats the structure of a part already listed. `PROJECT.json` lists
every directory with its status and the reason.

How the parts interact:

    withLock ── pRetry ── AbortController (process-wide)
       │
      dlx ── httpDownload ── safeDelete ── pRetry ── AbortController
       │
    npm metadata, GitHub, releases ── TtlCache ── cacache
                                   └─ memoizeAsync

`PROJECT.json` "hazards" lists, line by line, what is hard to test in these parts
and which property covers it.

## 2. Modules

| Module | Models | Kind |
| --- | --- | --- |
| `ProcessLock` | `lock-manager.mts` with the parts of `retry.mts`, `abort.mts`, `safe.mts` it uses | detailed |
| `CriticalSection` | what `withLock` promises | abstract |
| `PromiseQueue` | `queue.mts` | detailed |
| `SharedFlight` | what `memoizeAsync` and `getOrFetch` promise alike: the callers of a key share one computation | abstract |
| `MemoizeAsync` | `memo/async.mts`, `memo/clear.mts` | detailed |
| `TtlCache` | `cache/ttl/store.mts`, seen from one key | detailed |
| `DlxBinary` | `dlx/binary*.mts`, seen from one cache entry, with the file-system steps of its lock | detailed |
| `HttpRequest` | `request.mts`, `request-attempt.mts` | detailed |
| `HttpDownload` | `download.mts`; extends `HttpRequest`, whose attempts it makes | composition |
| `AtomicReplace` | what `httpDownload` promises: the destination is replaced in the step that resolves the call, or never | abstract |
| `ExitHandlers` | `events/exit/` | detailed |
| `MC*` | constants, symmetry and tables for TLC | instances |
| `*Proofs` | theorems | proofs |

Operators marked `\* mutant` state a plausible bug in the definition that follows
them. No action uses them; replacing the definition by one of them breaks
the property `PROJECT.json` names beside it, which shows that the run would notice.

Common to all: JavaScript runs a turn to its end, so a stretch of code between two
awaits is one action. What is outside the thread (system calls of two
processes, the persistent store, timers, the settling of a promise given by the
caller) is an action of its own. Values, keys and calls are model values.

### ProcessLock

A *call* is one `withLock(lockPath, fn)`; `ProcOf` says which process makes it.

| Code | Model |
| --- | --- |
| `isStale` (one `statSync`) | `Stale`, read in `Attempt` |
| `acquire`, one attempt of `pRetry` | `Attempt`: stale → `RemoveStale` → `MakeDir`, else `MakeDir` |
| `mkdirSync`, then `activeLocks.add`, `startTouchTimer` | `MakeDir` (made or `EEXIST`), `MakeFails` (any other error) |
| `pRetry` on an aborted signal resolves to `undefined` | `AcquireUndefined`, then `pc = "unlocked"` |
| `release`: `existsSync`, then `safeDeleteSync` | `ReleaseCheck`, `ReleaseDelete`; `ReleaseUndefined` is `withLock` after an undefined acquire |
| the touch timer | `Touch`, at most `MaxLag` after it is due |
| the exit handler | `ExitCheck`, `ExitDelete` |
| death without handlers; abort | `Crash`, `Abort` |

Every system call on the directory is a step, so those of two processes
interleave in every way. Within one process nothing interleaves with a
synchronous stretch (`Idle`). `owner` identifies the call whose `mkdirSync` made the
present directory; the code has no such mark, and that is the subject of
`ExclusiveUntilReclaimed`: `release` deletes whatever is at the path.

Not modelled: several lock paths, the code's distinction of error messages, a
clock that jumps, file systems with a coarse mtime. The delays of `pRetry` end at any
time.

### PromiseQueue

`add` = `Add` or `Drop`; `runNext` = the operator `RunNext`, called by `Add` and
`Finish`; `notifyIdleIfNeeded` = `Notify`; `clear` = `Clear`; `onIdle` = `OnIdle`. The
comment at `queue.mts:81` says a call is deferred by a microtask; in fact `task.fn()`
is called synchronously, as the last thing `runNext` does. Whatever a task does
to the queue while it starts therefore happens after the state changes of the
step that starts it, and is a step of its own. The call of `Notify` in `Clear` can never find
the queue idle (a waiter is in the list only while a task runs:
`NoLostWakeup`), which the proof establishes; it is modelled because the code makes it.

### MemoizeAsync

`Hit`, `Dedup` and `Miss` are the three ways through a call; `Resolve` and `Reject` are
the continuations of the computation; `Clear` is `clearAllMemoizationCaches`. A computation
is called a *flight* and named after the call that started it. A function that
throws before it returns a promise runs the failure handler before
`refreshing.set` and `cache.set`: the flight is `"thrown"`, and its rejected promise
stays in both maps. `SingleFlight`, `FreshAnswer` and `EntryInv` are stated with that
exception, visible in their text. `ImplementsSharedFlight` maps a flight that runs to
`flying` and what a call was given to `given`; a flight that throws at once has
started and never flew.

### TtlCache

One key; the other keys appear only through `Evict` (`lruSet` makes room). `get` is
`Hit` or `Miss`, `DiskRead` (the store reads at some moment of the await), then
`Fill` or `Empty`, then `DiskRemove` for an expired or corrupt entry. `getOrFetch` is
`JoinFirst`, or a `get` followed by `JoinSecond` or `Start`, then `Fetched` (whose
`set` is `Write`, `DiskPut`, `Stored`) or `FetchFails`. `delete`, `deleteAll` and
`clear` do the same to one key (`Delete`, `DiskRemove`). `Init` allows any entry
that an earlier process may have left: none, one that does not parse, one that is
live, or one from a clock that was ahead. `disturbed` records that a write
overlapped another call or was not stored; the properties about the newest value
hold until then, and the run `ttl_race` shows why they cannot hold after.
`ImplementsSharedFlight` maps the `getOrFetch` calls that fetch or join: a fetch is in the
air from `Start` until it is removed from `inflightRequests`, its `set` included.
Not modelled: `getAll`, `memoize: false`, and `clear` across several keys.

### DlxBinary

A *call* is one `downloadBinary`, `dlxBinary` or `cleanDlxCache` on one entry, made by
some process. What stands between two awaits is one action.

| Code | Model |
| --- | --- |
| `existsSync(dir) && isBinaryCacheValid` | `Valid`, read in `Lookup` |
| `dlxBinary`, hit: metadata, then `existsSync(binary)` | `Recheck` |
| `verifyCachedBinary`: hash; delete on a mismatch | `Verify`, `Unlink` |
| `downloadBinary`, hit: the metadata's integrity | `ReadMeta` |
| `safeMkdir` | `Mkdir` |
| `acquire`: `isStale`, `safeDeleteSync`, `mkdirSync` of the parent, `mkdirSync` of the lock | `Judge`, `Reclaim`, `MakeParent`, `Acquire` |
| an attempt that throws, `pRetry`; `release` | `AttemptFails`, at most `Retries` times; `Release` |
| under the lock: reuse a non-empty file, or reject it | `CheckCached`, `Rehash`, `Reject` |
| `httpDownload`, `chmod` | `Fetch`, `FetchFails`, `Publish`, `Chmod` |
| after the lock: `stat`, `writeFile(tmp.pid)`, `rename` | `Stat`, `WriteMeta`, `MoveMeta` |
| `spawn` | `Spawn` |
| `cleanDlxCache`: metadata, then `safeDelete` of the tree | `CleanCheck`, `CleanFile` per path, `CleanEnds` |

Bytes are abstracted to versions of what the URL serves; a pin and an integrity
name a version. The lock is a directory of the entry. An attempt to take it is four
steps, so those of two processes interleave as in `ProcessLock`; within one process an
attempt runs without an await (`HasThread`). Two processes that survive a third can therefore
both find its lock stale, and the second may delete the directory that the first has just
made. `lockLost` records every deletion of the directory of a call that is inside `withLock`: by such a second
reclaimer, or by a cleanup. After it two calls may be in the lock and one may replace the
other's binary, so `BinaryNeverOverwritten` claims nothing from then on; without that exception the
run `dlx` refutes it by the race. What is left out is the lock's clock: the directory of a live process is
never judged stale (`ProcessLock` says when that is so), that of a dead one may be found fresh or
stale. The deletion of a rejected binary or of a stale lock may fail; the deletions by which `release` and a
failed download clean up are assumed to succeed (`~/.socket`, where the cache is, is a path that `safeDelete` allows).
The temporary metadata file is shared by the calls of a process, as its
name is; the temporary download is not.

### HttpRequest and HttpDownload

`HttpRequest` is one call, from its options to its answer. An *exchange* is one
`node:http` request; a redirect makes another, whose promise the first adopts
(`Follow`, which resets nothing but `left`), a retry makes a fresh one (`Ask`). The
events of all exchanges made so far may come at any time: `Fail` stands for
`'error'`, `'timeout'`, a body over `maxResponseSize` and the abort of the
exchange's signal, `Decoded` for the end of `decodeBody`. `Rejected` is `rejectOnce`,
`Refused` the direct `reject` or `resolve` after the hook has been called. What `signal`
an exchange has decides whether the server can still move it (`Open`): the exchange
after a redirect has none, and goes on after an abort.

`HttpDownload` extends it: an attempt that is answered goes on with the
temporary file (`Save`, `EndOfBody`, `Finish`, `SaveFails`), then `Verify`, `Discard`,
`Rename`, and the catch block is `CatchDownload` and `Clean`. `cleanups` counts the deletions
that `cleanupPartial` has started: each takes effect at any later time, on whatever is at the path, or fails.
The awaited deletions may fail too, as `safeDelete` throws for a path it does not allow and for a file that is
busy or protected. After a failed verification (`Discard`) the catch block tries once more; when the deletion there
(`Clean`) fails, nothing catches it: the retries end, the call rejects with that error and the temporary file
stays. That outcome is the place `"undeleted"`, and the only one in which a call that is over may leave the file.
`ImplementsAtomicReplace` hides all of that: the abstract call is open until `Over`, its scratch file is `temp`,
and `LeaveBehind` and `Tidy` are the outcome just described.

Left out: the header values, the body's bytes, the backoff's length, progress
callbacks; the opening of the write stream is immediate; the shared abort signal, on which
`safeDelete` would resolve without deleting anything, is not aborted; an exchange that is never made, because
`new URL` or `request` throws on an invalid URL or header (`request-attempt.mts:123`, `:163`), which
rejects the attempt without a call of `onResponse`.

### ExitHandlers

A *copy* is one instance of the module in the process (ESM and CommonJS builds, two
versions): the emitter lives on `process` so that they share it. `Import` saves the process methods
it finds, `OnExit` is `onExit` with `load`, `Unregister` its remover with `unload`, `Exit` is
`process.exit` or the end of work as `processEmit` and `processReallyExit` see it, `Signal`
the listeners of a fatal signal. Everything is synchronous, so each is one step; what happens
within a step, several rounds of `emit` over two events, is the sequence `Rounds`.
A callback in `MayThrow` may throw, and one in `MayExit` may call `process.exit`. The latter ends the process
(`ended = "cut"`) with the other callbacks of its event unrun, because `emit` has set `emitted[event]` before it calls
any (`shared.mts:72-75`); those of `afterexit` are still called by `processReallyExit` when an interceptor is in place (`After`).
`EveryCallbackRuns` claims nothing after a throw or such an exit; `OnceAndInOrder` holds then, too.
Left out: what Node does with an error thrown by a callback (the step ends there); callbacks that call `onExit` or a
remover (one that a callback adds to the event under way is registered and does not run, and one that a callback removes
still runs, as an `EventEmitter` calls a copy of its listeners: "removed" in `OnceAndInOrder` means before the end); the
list of signals (one stands for all); the exit code. On a signal, the unloading of the copies one by one and the
comparison of each with the counter are one step.

## 3. Runs

| Run | Question | Bounds |
| --- | --- | --- |
| `lock_timely` | With timely touches and orderly exits, does the lock exclude, and implement `CriticalSection`? | 2 processes, 3 calls, 1 retry, stale after 3, touch every 2 (late by 1), clock to 5 |
| `lock_faults` | What survives a crash, an exit, an abort, failing `mkdir`, late touches, all at once? | 2 processes, 3 calls, 1 retry, clock to 3 |
| `lock_stale_race` | Violation: two waiters reclaim one stale directory | 3 processes, one crash |
| `lock_abort` | Violation: the callback runs without the lock | one aborting process |
| `queue` | Bound, no idle slot, FIFO, wake-ups, everyone served | 5 tasks, 2 slots, 2 places, 1 waiter |
| `memo` | Does it implement `SharedFlight`? Freshness, LRU | 4 calls, 3 keys, 2 entries, ttl 1, clock to 2 |
| `ttl` | Does `getOrFetch` implement `SharedFlight`? No expired answer, newest value, calls settle | 3 calls of any method, ttl 0, clock to 1 |
| `ttl_race` | Violation: a deleted value comes back in memory | as `ttl`, nothing fails |
| `dlx` | Are pins measured and binaries kept, and does every call settle? | 3 processes, one may crash and two survive it; `dlxBinary`, `downloadBinary`, the same with `force`, `cleanDlxCache`; 1 retry of the lock; 2 bodies, one of them empty |
| `dlx_pins` | Violation: a hit returns the integrity of other bytes | 4 `downloadBinary` calls, no crash, no expiry |
| `http` | Hooks once, credentials at home, bounded work, an answer; does a download implement `AtomicReplace`? | one call of each kind, 2 retries, 2 redirects an attempt, an abort |
| `exit` | Every callback once and in order, signals decided | 2 copies, 4 callbacks (2 `alwaysLast`, 1 may throw, one of each kind may exit), another listener |

Why these bounds are enough to be worth running. Lock: a process with two calls is
what makes tracking, timer and exit handler shared; a second process is what they
race with, a third is needed only for the race between two reclaimers. The
clock passes the stale limit once after the latest touch. `lock_timely` uses
`TouchInterval + MaxLag = StaleMs`, the tightest deployment that is still safe (the
defaults, 2 s and 5 s, leave 3 s): with `>=` in `isStale` instead of `>` it
fails. Queue: with five tasks two run, two wait and one is dropped, and a second
round follows the first. Memo: four calls let two keys have pending flights while a third
evicts, and a key be asked for twice; `MaxClock = 2 > Ttl`. TTL: with `Ttl = 0` one tick is longer
than an entry lives, so expiry happens within `MaxClock = 1`; with `OldExpiry = {1}`
the old entry is too far in the future at time 0 and live at time 1; three calls
are a writer, a reader and a joiner. Dlx: a hit, a forced call, an unpinned call and a
cleanup are what can meet in one entry; two processes that survive a third are what it takes for both to reclaim its lock;
two calls in one process share the temporary metadata file; the three pins (one body, the other, none) make every comparison come out both ways. HTTP:
two redirects are needed to leave the origin and come back, two retries for a deletion started
in one attempt to hit the next but one. Exit: two copies with two callbacks each are what it takes for one copy
to unload while the other is loaded. The proofs lift all of these bounds for the safety
properties.

Deadlock checking is off everywhere: each model makes finitely many calls within
a bounded clock, and stops when they are done.

**Fairness.** `lock_faults` assumes that a live process goes on with its calls (weak
fairness of `CallStep` per call: callbacks settle and delays end) and that its exit handler, which is synchronous,
ends. Touches, crashes, aborts and the clock are not fair. `queue` assumes that
each running task settles; nobody has to add, clear or wait, and a task that
awaits another one in the same queue is outside the assumption. `ttl` assumes
that a call which has begun goes on: the event loop resumes it, the
store answers or fails, and fetchers settle; no call has to begin. `dlx` assumes
that the awaits of a live process end (each request, each file operation, the retries of the lock). `http` assumes that
delays, decoding and file operations end, and of the server that it answers, breaks off, ends its body or falls silent. The
last is an assumption on the environment, not something the code sees to: the `timeout` it passes to node
(`request-attempt.mts:133`, `:393`) is that of an idle socket, so it ends a silence and not a body that trickles for ever.
The fairness is one conjunct over all steps of the request: it does
not promise that an unawaited deletion ever happens. Crashes, expiry, aborts and what the server sends are not fair.

### What the violations show

Each is a disagreement between a sentence in the repository and the code; the
quotations are in `PROJECT.json` "findings".

* `lock_stale_race`: the stale check and the deletion name a path, not a
  directory; the second reclaimer deletes the first one's new lock.
* `lock_abort`: `pRetry` answers `undefined` on an aborted signal, `acquire` asserts it away
  with `!`, and `withLock` runs the callback unprotected.
* `ttl_race`: `get` enters in memory what it read before its await ended,
  although a `delete` has run meanwhile.
* `dlx_pins`: a hit hashes the binary and then returns the integrity that the
  metadata records, which is written outside the lock.

Other disagreements met while modelling, which no run is kept for:

* `release` uses `safeDeleteSync` without `force`, which refuses paths outside the
  working and temporary directories, the cacache and `~/.socket`; it logs the error and the directory
  stays, although `lock-manager.mts:394` says `withLock` "guarantees cleanup". `NoLeakedDirectory` and its theorem
  assume `Deletable`; with `Deletable = FALSE` TLC refutes it.
* `clearAllMemoizationCaches`, "when you need to force recomputation", empties `cache` and
  leaves `refreshing`: a call made after it joins a computation of before it
  (`Dedup` after `Clear`).
* `force`, "Force re-download even if cached" (`dlx/binary-types.mts:76`), skips the
  metadata only: `CheckCached` finds the file and reuses it.
* `httpRequestAttempt` "hooks, which fire once per attempt": a malformed `Location` and an upload that fails while
  the response is decoded are reported twice. `HooksFireOnce` names both. An exchange that cannot be made (an invalid URL or
  header) is not reported at all; it is left out of the model.
* `timeout`: "If the request takes longer than this, it will be aborted." (`http-request/request-types.mts:276`) and "If the
  download takes longer than this, it will be aborted." (`http-request/download-types.mts:159`) promise a deadline. The code sets an idle
  timeout on the socket: a server that goes on sending bytes is never timed out, and the call settles when the server ends the body.
  `EveryCallSettles` of `http` therefore rests on the assumption about the server named under Fairness.
* An exit callback of one copy is missed at `process.exit` when another copy was unloaded before:
  its `unload` restores the methods it had found. `EveryCallbackRuns` names the case (`split`).

## 4. Proofs

All for arbitrary sets of calls, processes, tasks, waiters and keys, and any
options; the only assumptions are the `ASSUME`s of the modules (types of the constants,
`MaxConcurrency > 0`, which the constructor enforces, and `None` and its like differing from
the values they stand apart from, for dlx from the recorded metadata as well, `NoneIsNoMetadata`; `Task` is finite). TLC evaluates them in every run.
A theorem that needs more of the deployment (`Deletable`, `SafeDeployment`, no abort, no crash) says so in its statement.

They come in four kinds: the invariants and action properties that the runs
check; the refinements, step by step; theorems that say *when* a property that a
violation run refutes does hold; and the safety half of termination.

**ProcessLockProofs.** The inductive invariant is `LockInv`, parts beside one another:
`OwnerInv` (a directory made by a live call belongs to a call that still has it, in a process that
tracks it), `DutyInv` (that process has a touch timer which is not overdue, and
the next touch is due at most one interval after the directory's mtime), `ExclusiveInv` (until a directory
is judged stale, whoever holds the lock made the directory, and every process that tracks the path made it),
`FaultInv` and `FaultFreeInv` (what an abort leaves behind, and that without one no callback runs
unlocked; in a `SafeDeployment` no directory is ever judged stale). None of the
properties is inductive: `LiveLockStaysFresh` needs to know who touches the
directory and when next, and that a timer started for an earlier call is still
on duty for this one; `MutualExclusion` needs all of them. From it: `TypeCorrect`, `Fresh`,
`Exclusive` and `NoLeak`.

What the runs `lock_stale_race` and `lock_abort` refute is then pinned down. `RemovesTheDead` says of a
step that an attempt does not delete the directory of a live process. It is an assumption on the
behaviour, not on the constants, and it is exactly what the stale check is meant to ensure: a run
in which a waiter reclaims what a crash has left satisfies it. `HolderInv` is inductive under it.

* `HoldersKeepTheirs`: under `[][RemovesTheDead]_vars` every holder keeps its directory, through crashes, exits,
  late timers and failing calls.
* `NoUnlockedCallback`: where no process aborts, `CallbackHoldsLock` is an invariant, so the abort is the
  only way to the finding of `lock_abort`.
* `OverlapExplained`: under `[][RemovesTheDead]_vars` callbacks overlap only after an abort; so the
  deletion of a live directory and the abort are the only two causes of an overlap.
* `CrashRefinement`: without aborts and under `[][RemovesTheDead]_vars` the lock implements
  `CriticalSection`, crashes and reclaims included. `SafeMutex` and `Refinement` follow: in a
  `SafeDeployment` the lemma `SafeRemovals` proves `RemovesTheDead` from the freshness of live locks.

**PromiseQueueProofs.** `CountInv` (`running` counts the running tasks, and a task waits
only when every slot is taken), `QueueInv` (the queue is the waiting tasks, each
once), `OrderInv` (in the order in which they were added) and `PledgeInv`
(what a waiter waits for was added). The lemmas `AddCases` and `FinishCases` reduce the nested
operator `RunNext` to the four things that can happen; the counter's part is a lemma about cardinalities. From
it: `TypeCorrect`, `Bounded`, `NoIdleSlot`, `FirstComeFirstServed`, `WakeupsKept`, `IdleIsOver`, and
the action property `BoundedWait`: the task in place `i` is started by the `i`-th completion.

**MemoizeAsyncProofs.** `FlightInv` (a pending flight is the one in `refreshing` of its
key) and `EntryInv` (an entry's timestamp is the time at which its flight resolved,
once it has). From it: `OneFlightPerKey`, the refinement `SharesFlights`, and the action properties `Freshness` and `Needed`.
`RecencyInv` says that the Map's order lists the cached keys, each once; it
rests on three lemmas about a key that is deleted, appended or evicted. It gives `TypeCorrect`,
`Bounded` and `EvictsLeastRecent`.

**TtlCacheProofs.** `OpInv` (which method may stand where), `InflightIsPending` (inductive
with it, although `getOrFetch` awaits the store between its two looks) and `NewestInv`
(until a write overlaps another call, writers are alone, and memory, store and the
entries that readers carry are the newest value). From it: `TypeCorrect`, `OneFetchAtATime`, `Registered`,
and the action properties `NeverExpired` and `Newest`; `NewestAtRest`, that memory holds the newest value or
none until a write has overlapped another call or was not stored: `ttl_race`, where every write is stored, needs the overlap.
`SharingInvariance` adds `BroughtInv` (a value is found only after the call that brings it has begun to write) and
`WaitInv` (who joins waits for a call that fetches): they give the refinement `SharesFlights` and `WaitsEnd`, that no two calls wait for each other.

**DlxBinaryProofs.** The invariant joins three parts: a call past `Verify` or `Rehash` has measured a
version that satisfies its pin, and keeps what it measured until it has settled; while no lock directory was deleted in use, a call inside `withLock` owns the directory, so there is one at most
(`Exclusion`: `mkdirSync` succeeds only when there is none, and a directory goes only by its holder, by a reclaim or by a cleanup); and a call between its look at the file and its `rename` finds no
non-empty binary, because only the owner of the lock publishes and the unlocked deletions only remove. From it:
`TypeCorrect`, `PinsMeasured`, `Exclusion`, `NeverOverwritten`. `ExclusionUndisturbed` says that the exception needs a
cause: where no process may crash and no call is a cleanup, nobody reclaims, and exclusion holds without it. `CleansUp` is inductive by itself: on every path out of `withLock` the
lock is given back and the partial download removed (deletions that the model lets succeed), unless the process dies. `ReturnsMeasuredAlone` says when what `dlx_pins` refutes holds:
if no process may crash and calls do not overlap (`[]OneAtATime`). Both conditions are needed: TLC finds
that a single crash between the `rename` of the binary and that of its metadata also makes a later hit, alone,
return an integrity it has not measured.

**HttpProofs**, over `DownloadSpec`, so that one proof covers requests and downloads. Its invariant has a part
per exchange (which phases are settled, and how often they were reported), a part for
the chain (the credentials are at the caller's origin, an https chain is on https), one for the work
(exchanges made against the attempts and redirects that are left: an arithmetic
bound that each step of `Follow` and `Retry` pays from) and one for the file: while an attempt
waits or asks there is no temporary file, so the one that is verified was written by this attempt, to its end, or has gone. That
is why a late deletion can only make an attempt fail, and why a deletion that fails leaves a file only behind the
call that rejects for it. From it: `TypeCorrect`, `CredentialsAtHome`, `HooksOnce`, `Bounded`, `AllOrNothing`,
the refinement `ReplacesAtomically`, and `NoLostPromise`: a call that awaits an attempt has an unsettled exchange in a
phase that still has an event to come.

**ExitHandlersProofs.** `ListenerInv` (each event lists callbacks of its kind, each once, of loaded copies), `LoadInv`
(the counter is the number of loaded copies; the interceptor in place is a loaded
copy's unless one unloaded beside another) and the history of what ran. Whatever cuts an exit short, what ran is the first
callbacks of `exit` followed by the first of `afterexit` (`Firsts`, lemma `Runs`): that gives the order and the "once" in every
case, and the completeness when nobody threw or exited. From it: `TypeCorrect`,
`CallbacksRun`, `RunOnceInOrder`, `CountDecides`.

**Termination without fairness.** That every call settles is a liveness property, and stays with TLC. What
can be proved is the half that is about the code: a call has only so many steps to make, whatever the others do, so that it can fail to settle only by
not being scheduled. `RetriesEnd` (lock), `CallsEnd` (TTL cache), `CallsEnd` (dlx) and `CallsEnd` (HTTP) each
give a rank in the natural numbers, or a lexicographic one over attempts, redirects and places, that every step of the call lowers and no other step
raises; `WaitsEnd`, `NoLostPromise` and `BoundedWait` say that whoever waits, waits for something that comes.
For the lock the rank is at most `5 * Retries + 10`, for the TTL cache 8, for dlx `4 * Retries + 19` (a cleanup's deletions of single paths aside).

Of these, the theorems without a run of their own are `Exclusion`, `ExclusionUndisturbed`, `CleansUp`, `NoUnlockedCallback`, `HoldersKeepTheirs`, `OverlapExplained`,
`RetriesEnd`, `BoundedWait`, `OneFlightPerKey`, `OneFetchAtATime`, `WaitsEnd`, `NewestAtRest`, `ReturnsMeasuredAlone`, `AllOrNothing`,
`NoLostPromise` and the three `CallsEnd`: they sharpen a property that a run checks, say when a refuted one holds, or support a liveness property.

Only model-checked: liveness (`EveryCallSettles` of the lock, the TTL cache, dlx and
HTTP, `EveryoneServed`), which the prover does not reach under fairness. Every other property of
a passing run is a theorem.

## 5. Not modelled, and the plan

Done, in this order: lock, queue, memoization, TTL cache, dlx binaries, HTTP client and downloads, exit hooks,
each with its proofs. Left, in order of what they would add:

1. `DlxManifest`: read-modify-write of one file by two processes under its own lock, an
   unreadable file read as empty (`dlx/manifest.mts:194`), the shared temporary
   name (`:224`). Abstract specification: no entry of another package is lost.
2. `NpmMetaCache`: three TTL caches (live, stale, negative) and decisions over
   several of them across awaits (`npm/meta-cache.mts:352`).
3. `Debouncer` (`promises/debounce.mts:35`).
4. `DlxBinary` with the lock's clock as well, over `ProcessLock`: a download that
   stalls the event loop longer than 5 s loses its lock.

The rest of the repository has nothing for a model checker to find, and the modelled part is
therefore a small share of its lines. The implementation is about 115 000 lines in 800 files; most of them are
build and release tooling (`scripts/`, `.config/`, `.git-hooks/`, `tools/`), generated or bundled code,
tables of constants, terminal output, and functions from one value to another (paths, versions, strings,
URLs, archives). They keep no state between calls and run in one turn; unit tests
cover them, and a state machine of them would only restate their code. Child
processes, the keychain broker and the GitHub API are external systems, seen through one call and one answer.
`PROJECT.json` lists every directory of the library with its status and the reason.
