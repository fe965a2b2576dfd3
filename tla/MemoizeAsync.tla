--------------------------- MODULE MemoizeAsync ---------------------------
(***************************************************************************)
(* memoizeAsync (memo/async.mts): an async function behind an LRU cache    *)
(* with a time to live, whose concurrent callers share one computation.    *)
(*                                                                         *)
(* A call runs to its first await in one step.  A call that invokes fn     *)
(* starts a flight, named after the call; every other call joins the       *)
(* flight whose promise it is given and settles with it.                   *)
(***************************************************************************)
EXTENDS Integers, SequencesExt

CONSTANTS
  Call,          \* the calls of the memoized function
  Key,           \* the cache keys
  None,          \* no flight
  MaxSize,       \* options.maxSize
  Ttl,           \* options.ttl, in ticks
  MaxClock,      \* bound on the clock
  MayThrowSync   \* may fn throw before it returns a promise?

ASSUME MemoConstants ==
  /\ None \notin Call
  /\ {MaxSize, Ttl, MaxClock} \subseteq Nat
  /\ MayThrowSync \in BOOLEAN

VARIABLES
  clock,        \* Date.now()
  cached,       \* the flight whose promise or result is cached, per key
  stamp,        \* entry.timestamp, per cached key
  recency,      \* insertion order of the Map: least recently used key first
  refreshing,   \* the flight in the `refreshing` map, per key
  keyOf,        \* the key of each call made so far
  joined,       \* the flight each call awaits
  state,        \* the promise of each flight; "thrown": fn threw synchronously
  ended         \* history: when each flight settled

vars == <<clock, cached, stamp, recency, refreshing, keyOf, joined, state,
          ended>>

----------------------------------------------------------------------------
Made(c) == joined[c] # None

\* isExpired
ExpiredAtTtl(k) == clock - stamp[k] >= Ttl     \* mutant
Expired(k) == clock - stamp[k] > Ttl

\* Map.delete: a key is in the Map once at most.
Without(s, k) ==
  IF \E i \in DOMAIN s : s[i] = k
    THEN RemoveAt(s, CHOOSE i \in DOMAIN s : s[i] = k)
    ELSE s

\* bumpRecency: delete and set again.
BumpFirst(k) == <<k>> \o Without(recency, k)    \* mutant
Bump(k) == Append(Without(recency, k), k)

\* evictLRU drops the first key of the Map when it is full.
EvictLate(s) == Len(s) > MaxSize /\ s # <<>>   \* mutant
Evicts(s) == Len(s) >= MaxSize /\ s # <<>>

Init ==
  /\ clock = 0
  /\ cached = [k \in Key |-> None]
  /\ stamp = [k \in Key |-> 0]
  /\ recency = <<>>
  /\ refreshing = [k \in Key |-> None]
  /\ keyOf \in [Call -> Key]
  /\ joined = [c \in Call |-> None]
  /\ state = [c \in Call |-> "none"]
  /\ ended = [c \in Call |-> 0]

----------------------------------------------------------------------------
\* A call finds a live entry, and awaits it.
Hit(c) ==
  LET k == keyOf[c] IN
  /\ ~Made(c)
  /\ cached[k] # None /\ ~Expired(k)
  /\ joined' = [joined EXCEPT ![c] = cached[k]]
  /\ recency' = Bump(k)
  /\ UNCHANGED <<clock, cached, stamp, refreshing, keyOf, state, ended>>

\* A call finds an expired entry, or none, and a flight to join; an expired
\* entry is kept and counts as used.
Dedup(c) ==
  LET k == keyOf[c] IN
  /\ ~Made(c)
  /\ cached[k] = None \/ Expired(k)
  /\ refreshing[k] # None
  /\ joined' = [joined EXCEPT ![c] = refreshing[k]]
  /\ recency' = IF cached[k] # None THEN Bump(k) ELSE recency
  /\ UNCHANGED <<clock, cached, stamp, refreshing, keyOf, state, ended>>

\* A call finds neither: it drops the expired entry, invokes fn, registers the
\* flight, evicts the least recently used key if need be, and caches the
\* flight.  When fn throws at once, the handler that removes the failed flight
\* from both maps has already run by the time it enters them.
NothingCached(k) == cached[k] = None \/ Expired(k)   \* mutant: no cold dedup
NothingUsable(k) == (cached[k] = None \/ Expired(k)) /\ refreshing[k] = None
Miss(c) ==
  LET k == keyOf[c]
      rest == Without(recency, k)
  IN
  /\ ~Made(c)
  /\ NothingUsable(k)
  /\ joined' = [joined EXCEPT ![c] = c]
  /\ \/ state' = [state EXCEPT ![c] = "pending"] /\ UNCHANGED ended
     \/ /\ MayThrowSync
        /\ state' = [state EXCEPT ![c] = "thrown"]
        /\ ended' = [ended EXCEPT ![c] = clock]
  /\ refreshing' = [refreshing EXCEPT ![k] = c]
  /\ cached' = [x \in Key |-> IF x = k THEN c
                              ELSE IF Evicts(rest) /\ x = Head(rest) THEN None
                              ELSE cached[x]]
  /\ stamp' = [stamp EXCEPT ![k] = clock]
  /\ recency' = Append(IF Evicts(rest) THEN Tail(rest) ELSE rest, k)
  /\ UNCHANGED <<clock, keyOf>>

\* The timestamp a flight leaves in the entry of its key when it resolves.
StampExpiry(k) == clock + Ttl   \* mutant: the time the entry expires
StampKept(k) == stamp[k]     \* mutant: the time the flight started
StampNow(k) == clock

\* fn resolves: the flight leaves `refreshing`, and the entry of its key, if
\* it is still there, gets the result and a new timestamp.
Resolve(f) ==
  LET k == keyOf[f] IN
  /\ state[f] = "pending"
  /\ state' = [state EXCEPT ![f] = "resolved"]
  /\ ended' = [ended EXCEPT ![f] = clock]
  /\ refreshing' = [refreshing EXCEPT ![k] = None]
  /\ IF cached[k] # None
       THEN /\ cached' = [cached EXCEPT ![k] = f]
            /\ stamp' = [stamp EXCEPT ![k] = StampNow(k)]
       ELSE UNCHANGED <<cached, stamp>>
  /\ UNCHANGED <<clock, recency, keyOf, joined>>

\* fn rejects: the flight leaves `refreshing` and its key leaves the cache.
RejectCached(f) ==           \* mutant: the failure stays cached
  /\ state[f] = "pending"
  /\ state' = [state EXCEPT ![f] = "rejected"]
  /\ ended' = [ended EXCEPT ![f] = clock]
  /\ refreshing' = [refreshing EXCEPT ![keyOf[f]] = None]
  /\ UNCHANGED <<clock, cached, stamp, recency, keyOf, joined>>
Reject(f) ==
  LET k == keyOf[f] IN
  /\ state[f] = "pending"
  /\ state' = [state EXCEPT ![f] = "rejected"]
  /\ ended' = [ended EXCEPT ![f] = clock]
  /\ refreshing' = [refreshing EXCEPT ![k] = None]
  /\ cached' = [cached EXCEPT ![k] = None]
  /\ recency' = Without(recency, k)
  /\ UNCHANGED <<clock, stamp, keyOf, joined>>

\* clearAllMemoizationCaches empties the cache, not `refreshing`.
Clear ==
  /\ recency # <<>>
  /\ cached' = [k \in Key |-> None]
  /\ recency' = <<>>
  /\ UNCHANGED <<clock, stamp, refreshing, keyOf, joined, state, ended>>

Tick ==
  /\ clock < MaxClock
  /\ clock' = clock + 1
  /\ UNCHANGED <<cached, stamp, recency, refreshing, keyOf, joined, state,
                 ended>>

Next ==
  \/ \E c \in Call : Hit(c) \/ Dedup(c) \/ Miss(c) \/ Resolve(c) \/ Reject(c)
  \/ Clear
  \/ Tick

Spec == Init /\ [][Next]_vars

----------------------------------------------------------------------------
\* Type invariant.
TypeOK ==
  /\ clock \in 0..MaxClock
  /\ cached \in [Key -> Call \cup {None}]
  /\ stamp \in [Key -> 0..MaxClock]
  /\ recency \in Seq(Key)
  /\ refreshing \in [Key -> Call \cup {None}]
  /\ keyOf \in [Call -> Key]
  /\ joined \in [Call -> Call \cup {None}]
  /\ state \in [Call -> {"none", "pending", "resolved", "rejected", "thrown"}]
  /\ ended \in [Call -> 0..MaxClock]

\* "Thundering-herd dedup": two computations of one key never run at once,
\* through expiry, eviction and clearing.
SingleFlight ==
  \A f, g \in Call :
    state[f] = "pending" /\ state[g] = "pending" /\ keyOf[f] = keyOf[g] => f = g

\* "Concurrent callers join an in-flight promise": memoizeAsync implements
\* SharedFlight.  Through expiry, eviction, clearing and synchronous throws,
\* fn runs once for a call that starts it and never beside itself for one key.
Flights == INSTANCE SharedFlight WITH
             flying <- {f \in Call : state[f] = "pending"},
             given <- joined
ImplementsSharedFlight == Flights!Spec

\* A call is given a flight of its own key that is pending or resolved at most
\* ttl ago, even when the flight took longer than ttl; the one failure it is
\* given is that of an fn that threw synchronously.
FreshAnswer ==
  [][\A c \in Call : ~Made(c) /\ Made(c)' =>
       LET f == joined'[c] IN
       /\ keyOf[f] = keyOf[c]
       /\ \/ state'[f] \in {"pending", "thrown"}
          \/ state[f] = "resolved" /\ clock - ended[f] =< Ttl]_vars

\* "refresh the timestamp so the freshly-computed value isn't immediately
\* classified as expired": fn is not invoked again for a key that is cached
\* and resolved at most ttl ago.
NoNeedlessFlight ==
  [][\A c \in Call : ~Made(c) /\ joined'[c] = c =>
       LET f == cached[keyOf[c]] IN
       f # None /\ state[f] = "resolved" => clock - ended[f] > Ttl]_vars

\* The Map never holds more than maxSize keys (one, when maxSize is 0), and its
\* order, which evictLRU goes by, lists exactly the keys that are cached.
CacheBounded ==
  /\ Len(recency) =< IF MaxSize = 0 THEN 1 ELSE MaxSize
  /\ \A k \in Key : cached[k] # None <=> \E i \in DOMAIN recency : recency[i] = k

\* "LRU via Map insertion-order": the key evicted next is the one that was
\* least recently asked for, because every path that answers a call leaves the
\* call's key, if it is cached, at the end.
LeastRecentlyUsed ==
  [][\A c \in Call : ~Made(c) /\ Made(c)' /\ cached'[keyOf[c]] # None =>
       recency' # <<>> /\ recency'[Len(recency')] = keyOf[c]]_vars
=============================================================================
