------------------------ MODULE MemoizeAsyncProofs ------------------------
(***************************************************************************)
(* Proofs about MemoizeAsync, for any calls and keys, any cache size, any  *)
(* time to live, and for functions that may throw synchronously.           *)
(***************************************************************************)
EXTENDS MemoizeAsync, SequenceTheorems, TLAPS

\* A flight is that of the call that started it; a call that was not made has
\* none.
CallInv == \A c \in Call : state[c] # "none" => joined[c] = c

\* The pending flight of a key is the one in `refreshing`.
FlightInv ==
  /\ \A f \in Call : state[f] = "pending" => refreshing[keyOf[f]] = f
  /\ \A k \in Key : refreshing[k] # None =>
       keyOf[refreshing[k]] = k /\ state[refreshing[k]] \in {"pending", "thrown"}

\* An entry holds a flight of its key that has not rejected, and once that has
\* resolved, the time at which it did.
EntryInv ==
  \A k \in Key : cached[k] # None =>
    /\ keyOf[cached[k]] = k
    /\ state[cached[k]] \in {"pending", "resolved", "thrown"}
    /\ state[cached[k]] = "resolved" => stamp[k] = ended[cached[k]]

\* The types of what the cache entries, flights and calls hold; `recency`, which
\* only decides what key is evicted, has an invariant of its own below.
Types ==
  /\ clock \in 0..MaxClock
  /\ cached \in [Key -> Call \cup {None}]
  /\ stamp \in [Key -> 0..MaxClock]
  /\ refreshing \in [Key -> Call \cup {None}]
  /\ keyOf \in [Call -> Key]
  /\ joined \in [Call -> Call \cup {None}]
  /\ state \in [Call -> {"none", "pending", "resolved", "rejected", "thrown"}]
  /\ ended \in [Call -> 0..MaxClock]

Inv == Types /\ CallInv /\ FlightInv /\ EntryInv

\* The invariant holds before any call is made.
LEMMA InitInv == Init => Inv
  BY MemoConstants DEF Init, Inv, Types, CallInv, FlightInv, EntryInv, Made

\* A call answered from a fresh entry disturbs nothing.
LEMMA HitStep ==
  ASSUME Inv, NEW c \in Call, Hit(c) PROVE Inv'
  BY MemoConstants DEF Inv, Types, CallInv, FlightInv, EntryInv, Hit, Made

\* A call that joins the pending flight of its key disturbs nothing.
LEMMA DedupStep ==
  ASSUME Inv, NEW c \in Call, Dedup(c) PROVE Inv'
  BY MemoConstants DEF Inv, Types, CallInv, FlightInv, EntryInv, Dedup, Made

\* A call that finds nothing usable starts the only flight of its key, and
\* enters it both in the cache and in `refreshing`.
LEMMA MissStep ==
  ASSUME Inv, NEW c \in Call, Miss(c) PROVE Inv'
<1> USE MemoConstants DEF Inv, Types
<1> DEFINE k == keyOf[c]
<1>1. k \in Key /\ state[c] = "none" /\ refreshing[k] = None
  BY DEF Miss, NothingUsable, CallInv, Made
<1>2. /\ state' = [state EXCEPT ![c] = "pending"] \/ state' = [state EXCEPT ![c] = "thrown"]
      /\ ended' \in [Call -> 0..MaxClock]
      /\ \A f \in Call : f # c => ended'[f] = ended[f]
  BY DEF Miss
<1>3. /\ refreshing' = [refreshing EXCEPT ![k] = c]
      /\ joined' = [joined EXCEPT ![c] = c]
      /\ stamp' = [stamp EXCEPT ![k] = clock]
      /\ keyOf' = keyOf /\ clock' = clock
  BY DEF Miss
<1>4. /\ cached' \in [Key -> Call \cup {None}]
      /\ cached'[k] = c
      /\ \A x \in Key : x # k => cached'[x] \in {None, cached[x]}
  BY <1>1 DEF Miss
<1>5. \A x \in Key : cached[x] # c /\ refreshing[x] # c
  BY <1>1 DEF EntryInv, FlightInv
<1>6. Types'
  BY <1>1, <1>2, <1>3, <1>4
<1>7. CallInv'
  BY <1>2, <1>3 DEF CallInv, Made
<1>8. FlightInv'
  BY <1>1, <1>2, <1>3, <1>5 DEF FlightInv
<1>9. EntryInv'
  BY <1>1, <1>2, <1>3, <1>4, <1>5 DEF EntryInv
<1> QED
  BY <1>6, <1>7, <1>8, <1>9

\* A flight that resolves leaves `refreshing`, and stamps the entry that holds it.
LEMMA ResolveStep ==
  ASSUME Inv, NEW f \in Call, Resolve(f) PROVE Inv'
<1> USE MemoConstants DEF Inv, Types
<1>1. Types'
  BY DEF Resolve, StampNow
<1>2. CallInv'
  BY DEF Resolve, CallInv, Made
<1>3. FlightInv'
  BY DEF Resolve, FlightInv
<1>4. EntryInv'
  BY DEF Resolve, EntryInv, FlightInv, StampNow
<1> QED
  BY <1>1, <1>2, <1>3, <1>4

\* A flight that rejects leaves `refreshing`, and the cache if it is still there.
LEMMA RejectStep ==
  ASSUME Inv, NEW f \in Call, Reject(f) PROVE Inv'
<1> USE MemoConstants DEF Inv, Types
<1>1. Types'
  BY DEF Reject
<1>2. CallInv'
  BY DEF Reject, CallInv, Made
<1>3. FlightInv'
  BY DEF Reject, FlightInv
<1>4. EntryInv'
  BY DEF Reject, EntryInv, FlightInv
<1> QED
  BY <1>1, <1>2, <1>3, <1>4

\* Clearing the cache and the passing of time touch no flight.
LEMMA OtherSteps ==
  ASSUME Inv, Clear \/ Tick \/ UNCHANGED vars PROVE Inv'
  BY MemoConstants
  DEF Inv, Types, CallInv, FlightInv, EntryInv, Clear, Tick, vars, Made

\* Every reachable state of the memoized function satisfies the invariant.
THEOREM Invariance == Spec => []Inv
<1>1. Inv /\ [Next]_vars => Inv'
  BY HitStep, DedupStep, MissStep, ResolveStep, RejectStep, OtherSteps DEF Next
<1> QED
  BY <1>1, InitInv, PTL DEF Spec

----------------------------------------------------------------------------
\* Two computations of one key never overlap.
THEOREM OneFlightPerKey == Spec => []SingleFlight
<1>1. Inv => SingleFlight
  BY DEF Inv, FlightInv, SingleFlight
<1> QED
  BY <1>1, Invariance, PTL

\* The cache implements the shared flights of SharedFlight: a call that misses
\* starts one, every other call joins one that was started for its key, and a
\* flight lands when fn's promise settles.
THEOREM SharesFlights == Spec => ImplementsSharedFlight
<1> DEFINE flying == {f \in Call : state[f] = "pending"}
<1>1. Init => Flights!Init
  BY DEF Init, Flights!Init
<1>2. Inv /\ [Next]_vars => [Flights!Next]_<<keyOf, flying, joined>>
  <2> SUFFICES ASSUME Inv, [Next]_vars
               PROVE  Flights!Next \/ UNCHANGED <<keyOf, flying, joined>>
    OBVIOUS
  <2> USE MemoConstants DEF Inv, Types, Made
  <2>1. ASSUME NEW c \in Call, Hit(c) PROVE Flights!Join(c)
    <3>1. /\ cached[keyOf[c]] \in Call /\ keyOf[cached[keyOf[c]]] = keyOf[c]
          /\ joined[cached[keyOf[c]]] = cached[keyOf[c]]
      BY <2>1 DEF Hit, EntryInv, CallInv
    <3> QED
      BY <2>1, <3>1 DEF Hit, Flights!Join
  <2>2. ASSUME NEW c \in Call, Dedup(c) PROVE Flights!Join(c)
    <3>1. /\ refreshing[keyOf[c]] \in Call
          /\ keyOf[refreshing[keyOf[c]]] = keyOf[c]
          /\ joined[refreshing[keyOf[c]]] = refreshing[keyOf[c]]
      BY <2>2 DEF Dedup, FlightInv, CallInv
    <3> QED
      BY <2>2, <3>1 DEF Dedup, Flights!Join
  <2>3. ASSUME NEW c \in Call, Miss(c) PROVE Flights!Start(c)
    <3>1. \A f \in flying : keyOf[f] # keyOf[c]
      BY <2>3 DEF Miss, NothingUsable, FlightInv
    <3>2. flying' = flying \/ flying' = flying \cup {c}
      <4>1. state[c] = "none"
        BY <2>3 DEF Miss, CallInv
      <4> QED
        BY <2>3, <4>1 DEF Miss
    <3> QED
      BY <2>3, <3>1, <3>2 DEF Miss, Flights!Start
  <2>4. ASSUME NEW f \in Call, Resolve(f) \/ Reject(f) PROVE Flights!Land(f)
    BY <2>4 DEF Resolve, Reject, Flights!Land
  <2>5. CASE Clear \/ Tick \/ UNCHANGED vars
    BY <2>5 DEF Clear, Tick, vars
  <2> QED
    BY <2>1, <2>2, <2>3, <2>4, <2>5 DEF Next, Flights!Next
<1> QED
  BY <1>1, <1>2, Invariance, PTL
  DEF Spec, ImplementsSharedFlight, Flights!Spec, Flights!vars

\* What a step that makes a call does with it.
LEMMA MakingCalls ==
  ASSUME Inv, [Next]_vars, NEW c \in Call, ~Made(c), Made(c)'
  PROVE Hit(c) \/ Dedup(c) \/ Miss(c)
<1> USE DEF Inv, Types, Made
<1>1. ASSUME NEW d \in Call, Hit(d) \/ Dedup(d) \/ Miss(d)
      PROVE Hit(c) \/ Dedup(c) \/ Miss(c)
  <2>1. CASE d = c
    BY <1>1, <2>1
  <2>2. CASE d # c
    <3>1. joined'[c] = joined[c]
      BY <1>1, <2>2 DEF Hit, Dedup, Miss
    <3> QED
      BY <3>1
  <2> QED
    BY <2>1, <2>2
<1>2. ASSUME NEW d \in Call, Resolve(d) \/ Reject(d) PROVE FALSE
  BY <1>2 DEF Resolve, Reject
<1>3. CASE Clear \/ Tick \/ UNCHANGED vars
  BY <1>3 DEF Clear, Tick, vars
<1> QED
  BY <1>1, <1>2, <1>3 DEF Next

\* No call is given an answer that is older than ttl, or a past rejection.
THEOREM Freshness == Spec => FreshAnswer
<1> DEFINE Fresh(c) ==
      ~Made(c) /\ Made(c)' =>
        LET f == joined'[c] IN
        /\ keyOf[f] = keyOf[c]
        /\ \/ state'[f] \in {"pending", "thrown"}
           \/ state[f] = "resolved" /\ clock - ended[f] =< Ttl
<1>1. Inv /\ [Next]_vars => \A c \in Call : Fresh(c)
  <2> SUFFICES ASSUME Inv, [Next]_vars, NEW c \in Call, ~Made(c), Made(c)' PROVE Fresh(c)
    OBVIOUS
  <2> USE MemoConstants DEF Inv, Types
  <2>1. CASE Hit(c)
    BY <2>1 DEF Hit, EntryInv, Expired
  <2>2. CASE Dedup(c)
    BY <2>2 DEF Dedup, FlightInv
  <2>3. CASE Miss(c)
    BY <2>3 DEF Miss
  <2> QED
    BY <2>1, <2>2, <2>3, MakingCalls
<1>2. [\A c \in Call : Fresh(c)]_vars <=> (\A c \in Call : Fresh(c)) \/ UNCHANGED vars
  OBVIOUS
<1> QED
  BY <1>1, Invariance, PTL DEF Spec, FreshAnswer

\* fn is not invoked again for a result that is still fresh.
THEOREM Needed == Spec => NoNeedlessFlight
<1> DEFINE Need(c) ==
      ~Made(c) /\ joined'[c] = c =>
        LET f == cached[keyOf[c]] IN
        f # None /\ state[f] = "resolved" => clock - ended[f] > Ttl
<1>1. Inv /\ [Next]_vars => \A c \in Call : Need(c)
  <2> SUFFICES ASSUME Inv, [Next]_vars, NEW c \in Call, ~Made(c), joined'[c] = c
               PROVE Need(c)
    OBVIOUS
  <2> USE MemoConstants DEF Inv, Types, Made
  <2>1. Made(c)' 
    OBVIOUS
  <2>2. CASE Hit(c)
    BY <2>2 DEF Hit, EntryInv, CallInv
  <2>3. CASE Dedup(c)
    BY <2>3 DEF Dedup, FlightInv, CallInv
  <2>4. CASE Miss(c)
    BY <2>4 DEF Miss, NothingUsable, EntryInv, Expired
  <2> QED
    BY <2>1, <2>2, <2>3, <2>4, MakingCalls
<1> QED
  BY <1>1, Invariance, PTL DEF Spec, NoNeedlessFlight

----------------------------------------------------------------------------
\* The sequence s lists the keys of D, each once.
Lists(s, D) ==
  /\ s \in Seq(Key)
  /\ \A i, j \in 1..Len(s) : s[i] = s[j] => i = j
  /\ \A k \in Key : k \in D <=> \E i \in 1..Len(s) : s[i] = k

\* The Map lists the cached keys, and no more than it may hold.
RecencyInv ==
  /\ Lists(recency, {k \in Key : cached[k] # None})
  /\ Len(recency) =< IF MaxSize = 0 THEN 1 ELSE MaxSize

\* One element is taken out of a sequence.
LEMMA TakenOut ==
  ASSUME NEW s \in Seq(Key), NEW i \in 1..Len(s)
  PROVE  /\ RemoveAt(s, i) \in Seq(Key)
         /\ Len(RemoveAt(s, i)) = Len(s) - 1
         /\ \A j \in 1..Len(s) - 1 :
              RemoveAt(s, i)[j] = IF j < i THEN s[j] ELSE s[j + 1]
<1> DEFINE before == SubSeq(s, 1, i - 1)
           after == SubSeq(s, i + 1, Len(s))
<1>0. Len(s) \in Nat /\ \A j \in 1..Len(s) : s[j] \in Key
  OBVIOUS
<1>1. /\ before \in Seq(Key) /\ Len(before) = i - 1
      /\ \A j \in 1..i - 1 : before[j] = s[j]
  BY <1>0, SubSeqProperties
<1>2. /\ after \in Seq(Key) /\ Len(after) = Len(s) - i
      /\ \A j \in 1..Len(s) - i : after[j] = s[i + j]
  BY <1>0, SubSeqProperties
<1> HIDE DEF before, after
<1>3. /\ before \o after \in Seq(Key)
      /\ Len(before \o after) = Len(s) - 1
      /\ \A j \in 1..Len(s) - 1 :
           (before \o after)[j] = IF j < i THEN before[j]
                                  ELSE after[j - (i - 1)]
  <2>1. /\ before \o after \in Seq(Key)
        /\ Len(before \o after) = Len(before) + Len(after)
        /\ \A j \in 1..Len(before) + Len(after) :
             (before \o after)[j] = IF j =< Len(before) THEN before[j]
                                    ELSE after[j - Len(before)]
    BY <1>1, <1>2, ConcatProperties
  <2> QED
    BY <1>0, <1>1, <1>2, <2>1
<1>4. \A j \in 1..Len(s) - 1 :
        (before \o after)[j] = IF j < i THEN s[j] ELSE s[j + 1]
  BY <1>0, <1>1, <1>2, <1>3
<1> QED
  BY <1>3, <1>4 DEF before, after, RemoveAt

\* Deleting a key leaves the others listed.
LEMMA KeyDeleted ==
  ASSUME NEW s, NEW D, Lists(s, D), NEW k \in Key
  PROVE  /\ Lists(Without(s, k), D \ {k})
         /\ Len(Without(s, k)) =< Len(s)
         /\ k \in D => Len(Without(s, k)) = Len(s) - 1
<1>0. s \in Seq(Key) /\ Len(s) \in Nat /\ DOMAIN s = 1..Len(s)
  BY DEF Lists
<1>1. CASE k \notin D
  <2>1. Without(s, k) = s
    BY <1>0, <1>1 DEF Without, Lists
  <2>2. \A x \in Key : x \in D \ {k} <=> x \in D
    BY <1>1
  <2>3. Lists(s, D \ {k})
    BY <2>2 DEF Lists
  <2>4. Len(Without(s, k)) =< Len(s)
    BY <1>0, <2>1
  <2>5. Lists(Without(s, k), D \ {k})
    BY <2>1, <2>3
  <2> QED
    BY <1>1, <2>4, <2>5
<1>2. CASE k \in D
  <2> DEFINE i == CHOOSE x \in DOMAIN s : s[x] = k
             r == RemoveAt(s, i)
  <2>1. i \in 1..Len(s) /\ s[i] = k /\ Without(s, k) = r
    BY <1>0, <1>2 DEF Without, Lists
  <2> HIDE DEF i
  <2>2. /\ r \in Seq(Key) /\ Len(r) = Len(s) - 1
        /\ \A j \in 1..Len(s) - 1 : r[j] = IF j < i THEN s[j] ELSE s[j + 1]
    BY <1>0, <2>1, TakenOut
  <2> HIDE DEF r
  <2>3. \A j, l \in 1..Len(r) : r[j] = r[l] => j = l
    <3> SUFFICES ASSUME NEW j \in 1..Len(r), NEW l \in 1..Len(r), r[j] = r[l]
                 PROVE  j = l
      OBVIOUS
    <3> DEFINE at(n) == IF n < i THEN n ELSE n + 1
    <3>1. /\ at(j) \in 1..Len(s) /\ at(l) \in 1..Len(s)
          /\ r[j] = s[at(j)] /\ r[l] = s[at(l)]
      BY <1>0, <2>1, <2>2
    <3>2. at(j) = at(l)
      BY <3>1 DEF Lists
    <3> QED
      BY <2>1, <2>2, <3>2
  <2>4. ASSUME NEW x \in Key
        PROVE  x \in D \ {k} <=> \E j \in 1..Len(r) : r[j] = x
    <3>1. ASSUME NEW j \in 1..Len(r), r[j] = x PROVE x \in D \ {k}
      <4> DEFINE n == IF j < i THEN j ELSE j + 1
      <4>1. n \in 1..Len(s) /\ n # i /\ s[n] = x
        BY <1>0, <2>1, <2>2, <3>1
      <4> QED
        BY <2>1, <4>1 DEF Lists
    <3>2. ASSUME x \in D, x # k PROVE \E j \in 1..Len(r) : r[j] = x
      <4>1. PICK n \in 1..Len(s) : s[n] = x
        BY <3>2 DEF Lists
      <4> DEFINE j == IF n < i THEN n ELSE n - 1
      <4>2. j \in 1..Len(r) /\ r[j] = x
        BY <1>0, <2>1, <2>2, <3>2, <4>1
      <4> QED
        BY <4>2
    <3> QED
      BY <3>1, <3>2
  <2> QED
    BY <1>0, <2>1, <2>2, <2>3, <2>4 DEF Lists
<1> QED
  BY <1>1, <1>2

\* A key that was not listed is appended.
LEMMA KeyAdded ==
  ASSUME NEW s, NEW D, Lists(s, D), NEW k \in Key, k \notin D
  PROVE  /\ Lists(Append(s, k), D \cup {k})
         /\ Len(Append(s, k)) = Len(s) + 1
         /\ Append(s, k)[Len(s) + 1] = k
<1> DEFINE r == Append(s, k)
<1>0. s \in Seq(Key) /\ Len(s) \in Nat
  BY DEF Lists
<1>1. /\ r \in Seq(Key) /\ Len(r) = Len(s) + 1 /\ r[Len(s) + 1] = k
      /\ \A i \in 1..Len(s) : r[i] = s[i]
  BY <1>0, AppendProperties
<1> HIDE DEF r
<1>2. \A i \in 1..Len(r) : i \in 1..Len(s) \/ i = Len(s) + 1
  BY <1>0, <1>1
<1>3. \A i \in 1..Len(s) : r[i] # k
  BY <1>1 DEF Lists
<1>4. \A i, j \in 1..Len(r) : r[i] = r[j] => i = j
  BY <1>1, <1>2, <1>3 DEF Lists
<1>5. \A x \in Key : x \in D \cup {k} <=> \E i \in 1..Len(r) : r[i] = x
  <2> SUFFICES ASSUME NEW x \in Key
               PROVE  x \in D \cup {k} <=> \E i \in 1..Len(r) : r[i] = x
    OBVIOUS
  <2>1. \A i \in 1..Len(s) : i \in 1..Len(r)
    BY <1>0, <1>1
  <2>2. Len(s) + 1 \in 1..Len(r)
    BY <1>0, <1>1
  <2>3. x \in D <=> \E i \in 1..Len(s) : s[i] = x
    BY DEF Lists
  <2> QED
    BY <1>1, <1>2, <2>1, <2>2, <2>3
<1> QED
  BY <1>1, <1>4, <1>5 DEF Lists, r

\* The key at the head is evicted.
LEMMA HeadEvicted ==
  ASSUME NEW s, NEW D, Lists(s, D), s # << >>
  PROVE  /\ Head(s) \in Key
         /\ Lists(Tail(s), D \ {Head(s)})
         /\ Len(Tail(s)) = Len(s) - 1
<1> DEFINE r == Tail(s)
<1>0. s \in Seq(Key) /\ Len(s) \in Nat \ {0} /\ Head(s) = s[1] /\ s[1] \in Key
  BY EmptySeq DEF Lists
<1>1. /\ r \in Seq(Key) /\ Len(r) = Len(s) - 1
      /\ \A i \in 1..Len(r) : r[i] = s[i + 1]
  BY <1>0, HeadTailProperties
<1> HIDE DEF r
<1>2. \A i \in 1..Len(r) : i + 1 \in 1..Len(s) /\ i + 1 # 1
  BY <1>0, <1>1
<1>3. \A i, j \in 1..Len(r) : r[i] = r[j] => i = j
  BY <1>1, <1>2 DEF Lists
<1>4. ASSUME NEW x \in Key
      PROVE  x \in D \ {s[1]} <=> \E i \in 1..Len(r) : r[i] = x
  <2>1. 1 \in 1..Len(s)
    BY <1>0
  <2>2. ASSUME NEW i \in 1..Len(r), r[i] = x PROVE x \in D \ {s[1]}
    BY <1>1, <1>2, <2>1, <2>2 DEF Lists
  <2>3. ASSUME x \in D, x # s[1] PROVE \E i \in 1..Len(r) : r[i] = x
    <3>1. PICK n \in 1..Len(s) : s[n] = x
      BY <2>3 DEF Lists
    <3>2. n - 1 \in 1..Len(r) /\ r[n - 1] = x
      BY <1>0, <1>1, <2>3, <3>1
    <3> QED
      BY <3>2
  <2> QED
    BY <2>2, <2>3
<1> QED
  BY <1>0, <1>1, <1>3, <1>4 DEF Lists, r

\* Moving a key that is cached to the end keeps the list.
LEMMA KeyBumped ==
  ASSUME NEW s, NEW D, Lists(s, D), NEW k \in D, k \in Key
  PROVE  /\ Lists(Append(Without(s, k), k), D)
         /\ Len(Append(Without(s, k), k)) = Len(s)
         /\ Append(Without(s, k), k)[Len(s)] = k
<1> DEFINE w == Without(s, k)
<1>1. Lists(w, D \ {k}) /\ Len(w) = Len(s) - 1 /\ Len(s) \in Nat /\ Len(w) \in Nat
  <2>1. Lists(w, D \ {k}) /\ Len(w) = Len(s) - 1
    BY KeyDeleted
  <2> HIDE DEF w
  <2>2. s \in Seq(Key) /\ w \in Seq(Key)
    BY <2>1 DEF Lists
  <2>3. Len(s) \in Nat /\ Len(w) \in Nat
    BY <2>2
  <2> QED
    BY <2>1, <2>3
<1> HIDE DEF w
<1>2. /\ Lists(Append(w, k), (D \ {k}) \cup {k})
      /\ Len(Append(w, k)) = Len(w) + 1
      /\ Append(w, k)[Len(w) + 1] = k
  BY <1>1, KeyAdded
<1>3. (D \ {k}) \cup {k} = D
  OBVIOUS
<1>4. Len(w) + 1 = Len(s)
  BY <1>1
<1> QED
  BY <1>2, <1>3, <1>4 DEF w

\* The keys in the cache.
Cached == {k \in Key : cached[k] # None}

\* A step of a call keeps the list, and ends it with the key of the call if
\* that is cached then.
LEMMA CallRecency ==
  ASSUME Inv, RecencyInv, NEW c \in Call, Hit(c) \/ Dedup(c) \/ Miss(c)
  PROVE  /\ RecencyInv'
         /\ cached'[keyOf[c]] # None =>
              /\ recency' # << >>
              /\ recency'[Len(recency')] = keyOf[c]
<1> DEFINE k == keyOf[c]
<1>1. /\ k \in Key /\ Len(recency) \in Nat /\ recency \in Seq(Key)
      /\ Lists(recency, Cached)
      /\ Len(recency) =< IF MaxSize = 0 THEN 1 ELSE MaxSize
      /\ MaxSize \in Nat
  BY MemoConstants DEF Inv, Types, RecencyInv, Lists, Cached
<1>2. ASSUME UNCHANGED cached, k \in Cached, recency' = Bump(k)
      PROVE  /\ RecencyInv'
             /\ recency' # << >> /\ recency'[Len(recency')] = k
  <2>1. /\ Lists(recency', Cached) /\ Len(recency') = Len(recency)
        /\ recency'[Len(recency)] = k
    BY <1>1, <1>2, KeyBumped DEF Bump
  <2>2. Cached' = Cached
    BY <1>2 DEF Cached
  <2>3. RecencyInv'
    BY <1>1, <2>1, <2>2 DEF RecencyInv, Cached
  <2>4. recency # << >>
    BY <1>1, <1>2, EmptySeq DEF Lists
  <2>5. recency' # << >>
    BY <1>1, <2>1, <2>4, EmptySeq DEF Lists
  <2>6. recency'[Len(recency')] = k
    BY <2>1
  <2> QED
    BY <2>3, <2>5, <2>6
<1>3. CASE Hit(c)
  BY <1>1, <1>2, <1>3 DEF Hit, Cached
<1>4. CASE Dedup(c)
  <2>1. CASE k \in Cached
    BY <1>1, <1>2, <1>4, <2>1 DEF Dedup, Cached
  <2>2. CASE k \notin Cached
    BY <1>1, <1>4, <2>2 DEF Dedup, Cached, RecencyInv
  <2> QED
    BY <2>1, <2>2
<1>5. CASE Miss(c)
  <2> DEFINE rest == Without(recency, k)
             kept == IF Evicts(rest) THEN Tail(rest) ELSE rest
             left == IF Evicts(rest) THEN (Cached \ {k}) \ {Head(rest)}
                                     ELSE Cached \ {k}
  <2>1. Lists(rest, Cached \ {k}) /\ Len(rest) =< Len(recency)
    BY <1>1, KeyDeleted
  <2>2. rest \in Seq(Key) /\ Len(rest) \in Nat
    BY <2>1 DEF Lists
  <2>3. recency' = Append(kept, k)
    BY <1>5 DEF Miss
  <2>4. cached' = [x \in Key |-> IF x = k THEN c
                                 ELSE IF Evicts(rest) /\ x = Head(rest) THEN None
                                 ELSE cached[x]]
    BY <1>5 DEF Miss
  <2> HIDE DEF rest
  <2>5. Lists(kept, left) /\ k \notin left
    <3>1. CASE Evicts(rest)
      <4>1. Lists(Tail(rest), (Cached \ {k}) \ {Head(rest)})
        BY <2>1, <3>1, HeadEvicted DEF Evicts
      <4> QED
        BY <3>1, <4>1
    <3>2. CASE ~Evicts(rest)
      BY <2>1, <3>2
    <3> QED
      BY <3>1, <3>2
  <2>6. Len(kept) \in Nat /\ Len(kept) + 1 =< IF MaxSize = 0 THEN 1 ELSE MaxSize
    <3>1. CASE Evicts(rest)
      <4>1. Len(Tail(rest)) = Len(rest) - 1 /\ rest # << >>
        BY <2>1, <3>1, HeadEvicted DEF Evicts
      <4>2. Len(rest) > 0
        BY <2>2, <4>1, EmptySeq
      <4> QED
        BY <1>1, <2>1, <2>2, <3>1, <4>1, <4>2
    <3>2. CASE ~Evicts(rest)
      <4>1. Len(rest) < MaxSize \/ Len(rest) = 0
        BY <1>1, <2>2, <3>2, EmptySeq DEF Evicts
      <4> QED
        BY <1>1, <2>2, <3>2, <4>1
    <3> QED
      BY <3>1, <3>2
  <2>7. Cached' = left \cup {k}
    BY <1>1, <2>4, MemoConstants DEF Cached
  <2> HIDE DEF kept, left
  <2>8. /\ Lists(recency', left \cup {k})
        /\ Len(recency') = Len(kept) + 1
        /\ recency'[Len(kept) + 1] = k
    BY <1>1, <2>3, <2>5, KeyAdded
  <2>9. Lists(recency', Cached')
    BY <2>7, <2>8
  <2>10. RecencyInv'
    BY <2>6, <2>8, <2>9 DEF RecencyInv, Cached
  <2>11. recency' # << >>
    BY <2>6, <2>8
  <2> QED
    BY <2>8, <2>10, <2>11
<1> QED
  BY <1>3, <1>4, <1>5

\* Every other step keeps the list too.
LEMMA OtherRecency ==
  ASSUME Inv, RecencyInv,
         \/ \E f \in Call : Resolve(f) \/ Reject(f)
         \/ Clear \/ Tick \/ UNCHANGED vars
  PROVE  RecencyInv'
<1>1. ASSUME NEW f \in Call, Resolve(f) PROVE RecencyInv'
  <2>1. Cached' = Cached /\ recency' = recency
    BY <1>1, MemoConstants DEF Resolve, Cached, Inv, Types
  <2> QED
    BY <2>1 DEF RecencyInv, Cached
<1>2. ASSUME NEW f \in Call, Reject(f) PROVE RecencyInv'
  <2>1. /\ Lists(recency', Cached \ {keyOf[f]}) /\ Len(recency') =< Len(recency)
    BY <1>2, KeyDeleted DEF Reject, RecencyInv, Cached, Inv, Types
  <2>2. Cached' = Cached \ {keyOf[f]}
    BY <1>2, MemoConstants DEF Reject, Cached, Inv, Types
  <2>3. Len(recency') \in Nat /\ Len(recency) \in Nat /\ MaxSize \in Nat
    BY <2>1, MemoConstants DEF RecencyInv, Lists
  <2>4. Lists(recency', Cached')
    BY <2>1, <2>2
  <2> QED
    BY <2>1, <2>3, <2>4 DEF RecencyInv, Cached
<1>3. ASSUME Clear PROVE RecencyInv'
  <2>1. recency' = << >> /\ Cached' = {}
    BY <1>3 DEF Clear, Cached
  <2>2. Lists(<< >>, {})
    BY DEF Lists
  <2>3. Lists(recency', Cached')
    BY <2>1, <2>2
  <2> QED
    BY <2>1, <2>3, MemoConstants DEF RecencyInv, Cached
<1>4. ASSUME Tick \/ UNCHANGED vars PROVE RecencyInv'
  BY <1>4 DEF Tick, vars, RecencyInv
<1> QED
  BY <1>1, <1>2, <1>3, <1>4

\* Every reachable state satisfies both invariants.
THEOREM RecencyKept == Spec => [](Inv /\ RecencyInv)
<1>1. Init => RecencyInv
  BY MemoConstants DEF Init, RecencyInv, Lists
<1>2. RecencyInv /\ Inv /\ [Next]_vars => RecencyInv'
  BY CallRecency, OtherRecency DEF Next
<1> QED
  BY <1>1, <1>2, Invariance, PTL DEF Spec

\* Every reachable state of the memoized function is well typed.
THEOREM TypeCorrect == Spec => []TypeOK
<1>1. Inv /\ RecencyInv => TypeOK
  BY DEF Inv, Types, RecencyInv, Lists, TypeOK
<1> QED
  BY <1>1, RecencyKept, PTL

\* The Map is never larger than maxSize, and lists exactly the cached keys.
THEOREM Bounded == Spec => []CacheBounded
<1>1. Inv /\ RecencyInv => CacheBounded
  BY DEF RecencyInv, Lists, CacheBounded
<1> QED
  BY <1>1, RecencyKept, PTL

\* Whatever way a call is answered, its key is the last to be evicted.
THEOREM EvictsLeastRecent == Spec => LeastRecentlyUsed
<1> DEFINE Leaver(c) ==
      ~Made(c) /\ Made(c)' /\ cached'[keyOf[c]] # None =>
        recency' # << >> /\ recency'[Len(recency')] = keyOf[c]
<1>1. Inv /\ RecencyInv /\ [Next]_vars => \A c \in Call : Leaver(c)
  BY MakingCalls, CallRecency
<1> QED
  BY <1>1, RecencyKept, PTL DEF Spec, LeastRecentlyUsed
=============================================================================
