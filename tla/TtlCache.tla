----------------------------- MODULE TtlCache -----------------------------
(***************************************************************************)
(* createTtlCache (cache/ttl/store.mts): a cache in two tiers, entries in  *)
(* memory (memoCache) over a persistent store (cacache), seen from one     *)
(* key.  Calls for the other keys appear only as evictions.                *)
(*                                                                         *)
(* A call runs from await to await in one step.  A read, a write or a      *)
(* removal of the persistent store happens at some moment of the await it  *)
(* is in, and may fail, which every caller ignores.                        *)
(***************************************************************************)
EXTENDS Integers

CONSTANTS
  Call,          \* the calls on the key; a call is also the value it writes
  Old,           \* the value an earlier process left in the store
  None,          \* no entry, no answer, no fetch
  Corrupt,       \* an entry of the store that does not parse
  Failed,        \* the answer of a call that rejects
  OldExpiry,     \* when Old may expire
  Ttl,           \* options.ttl, in ticks
  MaxSkew,       \* MAX_FUTURE_SKEW_MS, in ticks
  MaxClock,      \* bound on the clock
  StoreMayFail,  \* may operations of the persistent store fail?
  MayThrowSync   \* may a fetcher throw before it returns a promise?

ASSUME TtlConstants ==
  /\ {Old, None, Corrupt, Failed} \cap Call = {}
  /\ Old # None /\ Failed \notin {Old, None}
  /\ {Ttl, MaxSkew, MaxClock} \subseteq Nat
  /\ OldExpiry \subseteq Nat
  /\ {StoreMayFail, MayThrowSync} \subseteq BOOLEAN
  /\ {None, Corrupt} \cap
       [val : Call \cup {Old}, exp : OldExpiry \cup 0..(MaxClock + Ttl)] = {}

VARIABLES
  clock,      \* DateNow()
  memo,       \* the entry of the key in memoCache, or None
  disk,       \* the entry of the key in cacache, None or Corrupt
  inflight,   \* the fetch in inflightRequests: the call that started it
  op,         \* the method of each call
  pc,         \* where each call stands
  buf,        \* the entry a call has read or is writing, while it needs it
  joined,     \* the fetch a call awaits
  answer,     \* what a finished call answered
  latest,     \* history: the value last set, fetched or deleted
  disturbed   \* history: a write overlapped another call, or was not stored

vars == <<clock, memo, disk, inflight, op, pc, buf, joined, answer, latest,
          disturbed>>

----------------------------------------------------------------------------
\* "thrown": done, by a fetcher that threw before it returned a promise.
Settled == {"done", "thrown"}

Entry(val, exp) == [val |-> val, exp |-> exp]

\* What set stores: { data, expiresAt: DateNow() + ttl }.
NewEntryInMilliseconds(c) == Entry(c, 1000 * (clock + Ttl))    \* mutant
NewEntry(c) == Entry(c, clock + Ttl)

\* isExpiredEntry: past its time, or so far ahead that a clock was wrong.
ExpiredNoSkew(e) == clock > e.exp                         \* mutant
Expired(e) == clock > e.exp \/ e.exp > clock + Ttl + MaxSkew

Live(e) == e \notin {None, Corrupt} /\ ~Expired(e)

\* The value an entry stands for.
ValueOf(e) == IF e \in {None, Corrupt} THEN None ELSE e.val

\* The fetch that getOrFetch finds in inflightRequests when get came back
\* with nothing.
RecheckedNot == None                                      \* mutant
Rechecked == inflight

\* What remains in inflightRequests once a fetch has settled.
SettledKept(c) == inflight                                \* mutant
SettledGone(c) == None

\* Calls that have still to write the store, and calls that may still bring an
\* entry of the store into memory or remove one.
Writing(c) == \/ pc[c] = "storing"
              \/ pc[c] = "removing" /\ op[c] = "delete"
Reading(c) == \/ pc[c] \in {"reading", "read"}
              \/ pc[c] = "removing" /\ op[c] # "delete"
OthersBusy(c) == \E d \in Call \ {c} : Reading(d) \/ Writing(d)

Answers(c, v) ==
  /\ pc' = [pc EXCEPT ![c] = "done"]
  /\ answer' = [answer EXCEPT ![c] = v]

Goes(c, place) ==
  /\ pc' = [pc EXCEPT ![c] = place]
  /\ UNCHANGED answer

\* get came back with nothing: it answers undefined, or getOrFetch goes on.
Nothing(c) == IF op[c] = "get" THEN Answers(c, None) ELSE Goes(c, "recheck")

\* The synchronous part of set, for a value that c brings.
Write(c) ==
  /\ memo' = NewEntry(c)
  /\ buf' = [buf EXCEPT ![c] = NewEntry(c)]
  /\ Goes(c, "storing")
  /\ latest' = c
  /\ disturbed' = (disturbed \/ OthersBusy(c))

Init ==
  /\ clock = 0
  /\ memo = None
  /\ disk \in {None, Corrupt} \cup {Entry(Old, e) : e \in OldExpiry}
  /\ inflight = None
  /\ op \in [Call -> {"get", "getOrFetch", "set", "delete"}]
  /\ pc = [c \in Call |-> "start"]
  /\ buf = [c \in Call |-> None]
  /\ joined = [c \in Call |-> None]
  /\ answer = [c \in Call |-> None]
  /\ latest = ValueOf(disk)
  /\ disturbed = FALSE

----------------------------------------------------------------------------
\* getOrFetch joins the fetch it finds in inflightRequests.
Join(c, f) ==
  /\ f # None
  /\ joined' = [joined EXCEPT ![c] = f]
  /\ Goes(c, "joining")

JoinFirst(c) ==
  /\ pc[c] = "start" /\ op[c] = "getOrFetch"
  /\ Join(c, inflight)
  /\ UNCHANGED <<clock, memo, disk, inflight, op, buf, latest, disturbed>>

\* get starts, called by itself or by getOrFetch.
Asks(c) ==
  /\ pc[c] = "start"
  /\ \/ op[c] = "get"
     \/ op[c] = "getOrFetch" /\ inflight = None

Hit(c) ==
  /\ Asks(c)
  /\ Live(memo)
  /\ Answers(c, memo.val)
  /\ UNCHANGED <<clock, memo, disk, inflight, op, buf, joined, latest, disturbed>>

\* get drops an expired entry and asks the persistent store.
Miss(c) ==
  /\ Asks(c)
  /\ ~Live(memo)
  /\ memo' = None
  /\ Goes(c, "reading")
  /\ disturbed' = (disturbed \/ \E d \in Call : Writing(d))
  /\ UNCHANGED <<clock, disk, inflight, op, buf, joined, latest>>

\* The store answers; safeGet turns an error into a miss.
DiskRead(c) ==
  /\ pc[c] = "reading"
  /\ \/ buf' = [buf EXCEPT ![c] = disk]
     \/ StoreMayFail /\ buf' = [buf EXCEPT ![c] = None]
  /\ Goes(c, "read")
  /\ UNCHANGED <<clock, memo, disk, inflight, op, joined, latest, disturbed>>

\* get resumes with a live entry: it enters it in memory, whatever happened
\* there meanwhile.
Fill(c) ==
  /\ pc[c] = "read"
  /\ Live(buf[c])
  /\ memo' = buf[c]
  /\ Answers(c, buf[c].val)
  /\ buf' = [buf EXCEPT ![c] = None]
  /\ UNCHANGED <<clock, disk, inflight, op, joined, latest, disturbed>>

\* get resumes with nothing, or with an entry to remove.
Empty(c) ==
  /\ pc[c] = "read"
  /\ ~Live(buf[c])
  /\ IF buf[c] = None THEN Nothing(c) ELSE Goes(c, "removing")
  /\ buf' = [buf EXCEPT ![c] = None]
  /\ UNCHANGED <<clock, memo, disk, inflight, op, joined, latest, disturbed>>

\* A removal ends, in delete or in get.
DiskRemove(c) ==
  /\ pc[c] = "removing"
  /\ \/ disk' = None /\ UNCHANGED disturbed
     \/ /\ StoreMayFail
        /\ UNCHANGED disk
        /\ disturbed' = (disturbed \/ op[c] = "delete")
  /\ IF op[c] = "delete" THEN Answers(c, None) ELSE Nothing(c)
  /\ UNCHANGED <<clock, memo, inflight, op, buf, joined, latest>>

\* getOrFetch looks at inflightRequests again after its get.
JoinSecond(c) ==
  /\ pc[c] = "recheck"
  /\ Join(c, Rechecked)
  /\ UNCHANGED <<clock, memo, disk, inflight, op, buf, latest, disturbed>>

\* getOrFetch calls the fetcher and registers the fetch; when the fetcher
\* throws at once, the cleanup has already run by then.
StartAndJoin(c) ==    \* mutant: registered before the second look
  /\ pc[c] = "recheck"
  /\ Rechecked = None
  /\ inflight' = c
  /\ joined' = [joined EXCEPT ![c] = c]
  /\ Goes(c, "joining")
  /\ UNCHANGED <<clock, memo, disk, op, buf, latest, disturbed>>
Start(c) ==
  /\ pc[c] = "recheck"
  /\ Rechecked = None
  /\ inflight' = c
  /\ \/ Goes(c, "fetching")
     \/ /\ MayThrowSync
        /\ pc' = [pc EXCEPT ![c] = "thrown"]
        /\ answer' = [answer EXCEPT ![c] = Failed]
  /\ UNCHANGED <<clock, memo, disk, op, buf, joined, latest, disturbed>>

\* The fetcher's promise settles: getOrFetch sets the value, or cleans up.
Fetched(c) ==
  /\ pc[c] = "fetching"
  /\ Write(c)
  /\ UNCHANGED <<clock, disk, inflight, op, joined>>

FetchFails(c) ==
  /\ pc[c] = "fetching"
  /\ inflight' = SettledGone(c)
  /\ Answers(c, Failed)
  /\ UNCHANGED <<clock, memo, disk, op, buf, joined, latest, disturbed>>

\* set starts.
Set(c) ==
  /\ pc[c] = "start" /\ op[c] = "set"
  /\ Write(c)
  /\ UNCHANGED <<clock, disk, inflight, op, joined>>

\* The store writes the entry of a set, or fails to.
DiskPut(c) ==
  /\ pc[c] = "storing"
  /\ \/ disk' = buf[c] /\ UNCHANGED disturbed
     \/ StoreMayFail /\ UNCHANGED disk /\ disturbed' = TRUE
  /\ Goes(c, "stored")
  /\ buf' = [buf EXCEPT ![c] = None]
  /\ UNCHANGED <<clock, memo, inflight, op, joined, latest>>

\* set resumes and returns; so does the fetch it was part of.
Stored(c) ==
  /\ pc[c] = "stored"
  /\ IF op[c] = "getOrFetch"
       THEN inflight' = SettledGone(c) /\ Answers(c, c)
       ELSE UNCHANGED inflight /\ Answers(c, None)
  /\ UNCHANGED <<clock, memo, disk, op, buf, joined, latest, disturbed>>

DeleteStored(c) ==    \* mutant: the memory keeps the entry
  /\ pc[c] = "start" /\ op[c] = "delete"
  /\ Goes(c, "removing")
  /\ latest' = None
  /\ disturbed' = (disturbed \/ OthersBusy(c))
  /\ UNCHANGED <<clock, memo, disk, inflight, op, buf, joined>>
\* delete starts, and so do deleteAll and clear as far as this key goes.
Delete(c) ==
  /\ pc[c] = "start" /\ op[c] = "delete"
  /\ memo' = None
  /\ Goes(c, "removing")
  /\ latest' = None
  /\ disturbed' = (disturbed \/ OthersBusy(c))
  /\ UNCHANGED <<clock, disk, inflight, op, buf, joined>>

\* A caller that joined a fetch settles as it did.
Joined(c) ==
  /\ pc[c] = "joining"
  /\ pc[joined[c]] \in Settled
  /\ Answers(c, answer[joined[c]])
  /\ UNCHANGED <<clock, memo, disk, inflight, op, buf, joined, latest, disturbed>>

\* lruSet evicts the key for another one, or clear({ memoOnly: true }).
Evict ==
  /\ memo # None
  /\ memo' = None
  /\ UNCHANGED <<clock, disk, inflight, op, pc, buf, joined, answer, latest,
                 disturbed>>

Tick ==
  /\ clock < MaxClock
  /\ clock' = clock + 1
  /\ UNCHANGED <<memo, disk, inflight, op, pc, buf, joined, answer, latest,
                 disturbed>>

----------------------------------------------------------------------------
Begin(c) == JoinFirst(c) \/ Hit(c) \/ Miss(c) \/ Set(c) \/ Delete(c)

GoOn(c) ==
  \/ DiskRead(c) \/ Fill(c) \/ Empty(c) \/ DiskRemove(c) \/ DiskPut(c) \/ Stored(c)
  \/ JoinSecond(c) \/ Start(c) \/ Fetched(c) \/ FetchFails(c) \/ Joined(c)

Next == (\E c \in Call : Begin(c) \/ GoOn(c)) \/ Evict \/ Tick

Spec == Init /\ [][Next]_vars

\* The store answers, fetchers settle, and a call that has begun goes on.
FairSpec == Spec /\ \A c \in Call : WF_vars(GoOn(c))

----------------------------------------------------------------------------
\* Type invariant.
Values == Call \cup {Old}
Entries == [val : Values, exp : OldExpiry \cup 0..(MaxClock + Ttl)]
TypeOK ==
  /\ clock \in 0..MaxClock
  /\ memo \in Entries \cup {None}
  /\ disk \in Entries \cup {None, Corrupt}
  /\ inflight \in Call \cup {None}
  /\ op \in [Call -> {"get", "getOrFetch", "set", "delete"}]
  /\ pc \in [Call -> {"start", "reading", "read", "removing", "recheck",
                      "fetching", "storing", "stored", "joining"} \cup Settled]
  /\ buf \in [Call -> Entries \cup {None, Corrupt}]
  /\ joined \in [Call -> Call \cup {None}]
  /\ answer \in [Call -> Values \cup {None, Failed}]
  /\ latest \in Values \cup {None}
  /\ disturbed \in BOOLEAN

\* "getOrFetch deduplicates concurrent requests for the same key": two
\* fetchers never run at once, although a call awaits the persistent store
\* between looking for a fetch and starting one.
OneFetch ==
  \A c, d \in Call : pc[c] = "fetching" /\ pc[d] = "fetching" => c = d

\* The call has called its fetcher: it never joined one and answers with what
\* its own fetch brought.
Fetches(c) ==
  /\ op[c] = "getOrFetch"
  /\ \/ pc[c] \in {"fetching", "storing", "stored", "thrown"}
     \/ pc[c] = "done" /\ joined[c] = None /\ answer[c] \in {c, Failed}

\* getOrFetch implements SharedFlight, for the one key that is modelled, as
\* memoizeAsync does: a fetcher runs once for the call that starts it, never
\* two at once, and whoever waits, waits for a fetch that was really started.
Flights == INSTANCE SharedFlight WITH
             Key <- {"key"},
             keyOf <- [c \in Call |-> "key"],
             flying <- {c \in Call : pc[c] = "fetching"},
             given <- [c \in Call |-> IF Fetches(c) THEN c ELSE joined[c]]
ImplementsSharedFlight == Flights!Spec

\* "Clean up on both success and error": a fetch is registered from its start
\* to its end and no longer, so that a failure is not served again; only one
\* whose fetcher threw before it returned a promise stays.
InflightIsPending ==
  \A c \in Call :
    inflight = c <=> \/ pc[c] \in {"fetching", "thrown"}
                     \/ pc[c] \in {"storing", "stored"} /\ op[c] = "getOrFetch"

\* get: "returns undefined if not found or expired".  What get answers is in
\* memory and live at that moment, however long the read took.
NoExpiredAnswer ==
  [][\A c \in Call :
       op[c] = "get" /\ pc[c] # "done" /\ answer'[c] # None =>
         /\ memo' # None /\ answer'[c] = memo'.val
         /\ clock =< memo'.exp /\ memo'.exp =< clock + Ttl + MaxSkew]_vars

\* As long as the calls that write the key overlap no other and are stored,
\* get answers nothing or the newest value, through expiry, eviction and the
\* removal of expired entries.
NewestAnswer ==
  [][\A c \in Call :
       op[c] = "get" /\ pc[c] # "done" /\ answer'[c] # None =>
         disturbed \/ answer'[c] = latest]_vars

\* "in-memory cache is the source of truth": when no call is under way, the
\* entry in memory is that of the last set or fetch, and none after a delete.
MemoIsNewest ==
  (\A c \in Call : pc[c] \in {"start"} \cup Settled) /\ memo # None =>
    memo.val = latest

\* Every call that has begun settles.
EveryCallSettles == \A c \in Call : pc[c] # "start" ~> pc[c] \in Settled
=============================================================================
