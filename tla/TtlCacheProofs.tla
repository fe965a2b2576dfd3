-------------------------- MODULE TtlCacheProofs --------------------------
(***************************************************************************)
(* Proofs about TtlCache, for any calls, clock, time to live and skew, for *)
(* a store that may fail and fetchers that may throw synchronously.        *)
(***************************************************************************)
EXTENDS TtlCache, TLAPS

\* Each method goes through its own steps only, and answers at the end.
OpInv ==
  \A c \in Call :
    /\ pc[c] \in {"reading", "read"} => op[c] \in {"get", "getOrFetch"}
    /\ pc[c] = "removing" => op[c] \in {"get", "getOrFetch", "delete"}
    /\ pc[c] \in {"recheck", "fetching", "thrown", "joining"} => op[c] = "getOrFetch"
    /\ pc[c] \in {"storing", "stored"} => op[c] \in {"set", "getOrFetch"}
    /\ pc[c] = "joining" => joined[c] \in Call
    /\ pc[c] \notin Settled => answer[c] = None

\* While no write has overlapped another call or been lost: writes run alone,
\* and each tier, and what a read brings, is the newest value.
Alone ==
  \A c, d \in Call : Writing(c) /\ (Writing(d) \/ Reading(d)) => c = d

MemoNewest == memo # None => memo.val = latest

DiskNewest ==
  (\A c \in Call : ~Writing(c)) /\ disk \notin {None, Corrupt} =>
    disk.val = latest

BufNewest ==
  \A c \in Call :
    /\ pc[c] = "read" /\ buf[c] \notin {None, Corrupt} => buf[c].val = latest
    /\ pc[c] = "storing" => buf[c].val = latest

NewestInv == disturbed \/ (Alone /\ MemoNewest /\ DiskNewest /\ BufNewest)

Inv == TypeOK /\ OpInv /\ InflightIsPending /\ NewestInv

\* Every step keeps the types; that a failed answer is no value rests on OpInv.
LEMMA TypeStep ==
  ASSUME TypeOK, OpInv, [Next]_vars PROVE TypeOK'
<1> USE TtlConstants DEF TypeOK, OpInv, Values, Entries, Settled
<1>1. ASSUME NEW c \in Call, JoinFirst(c) PROVE TypeOK'
  BY <1>1 DEF JoinFirst, Join, Goes
<1>2. ASSUME NEW c \in Call, Hit(c) PROVE TypeOK'
  BY <1>2 DEF Hit, Asks, Live, Answers
<1>3. ASSUME NEW c \in Call, Miss(c) PROVE TypeOK'
  BY <1>3 DEF Miss, Asks, Live, Goes
<1>4. ASSUME NEW c \in Call, DiskRead(c) PROVE TypeOK'
  BY <1>4 DEF DiskRead, Goes
<1>5. ASSUME NEW c \in Call, Fill(c) PROVE TypeOK'
  BY <1>5 DEF Fill, Live, Answers
<1>6. ASSUME NEW c \in Call, Empty(c) PROVE TypeOK'
  BY <1>6 DEF Empty, Live, Nothing, Answers, Goes
<1>7. ASSUME NEW c \in Call, DiskRemove(c) PROVE TypeOK'
  BY <1>7 DEF DiskRemove, Nothing, Answers, Goes
<1>8. ASSUME NEW c \in Call, JoinSecond(c) PROVE TypeOK'
  BY <1>8 DEF JoinSecond, Join, Rechecked, Goes
<1>9. ASSUME NEW c \in Call, Start(c) PROVE TypeOK'
  BY <1>9 DEF Start, Rechecked, Goes
<1>10. ASSUME NEW c \in Call, Fetched(c) PROVE TypeOK'
  BY <1>10 DEF Fetched, Write, Goes, NewEntry, Entry
<1>11. ASSUME NEW c \in Call, FetchFails(c) PROVE TypeOK'
  BY <1>11 DEF FetchFails, SettledGone, Answers
<1>12. ASSUME NEW c \in Call, Set(c) PROVE TypeOK'
  BY <1>12 DEF Set, Write, Goes, NewEntry, Entry
<1>13. ASSUME NEW c \in Call, DiskPut(c) PROVE TypeOK'
  <2>1. disk' \in {disk, buf[c]} /\ disturbed' \in BOOLEAN
    BY <1>13 DEF DiskPut
  <2>2. buf' = [buf EXCEPT ![c] = None] /\ pc' = [pc EXCEPT ![c] = "stored"]
    BY <1>13 DEF DiskPut, Goes
  <2>3. UNCHANGED <<clock, memo, inflight, op, joined, answer, latest>>
    BY <1>13 DEF DiskPut, Goes
  <2> QED
    BY <2>1, <2>2, <2>3
<1>14. ASSUME NEW c \in Call, Delete(c) PROVE TypeOK'
  BY <1>14 DEF Delete, Goes
<1>15. ASSUME NEW c \in Call, Joined(c) PROVE TypeOK'
  BY <1>15 DEF Joined, Answers
<1>16. ASSUME NEW c \in Call, Stored(c) PROVE TypeOK'
  BY <1>16 DEF Stored, SettledGone, Answers
<1>17. CASE Evict \/ Tick \/ UNCHANGED vars
  BY <1>17 DEF Evict, Tick, vars
<1> QED
  BY <1>1, <1>2, <1>3, <1>4, <1>5, <1>6, <1>7, <1>8,
     <1>9, <1>10, <1>11, <1>12, <1>13, <1>14, <1>15, <1>16, <1>17 DEF Next, Begin, GoOn

\* Every step keeps each method to its own part of the control flow.
LEMMA OpStep ==
  ASSUME TypeOK, OpInv, [Next]_vars PROVE OpInv'
<1> USE TtlConstants DEF TypeOK, OpInv, Settled
<1>1. ASSUME NEW c \in Call, JoinFirst(c) PROVE OpInv'
  BY <1>1 DEF JoinFirst, Join, Goes
<1>2. ASSUME NEW c \in Call, Hit(c) PROVE OpInv'
  BY <1>2 DEF Hit, Asks, Live, Answers
<1>3. ASSUME NEW c \in Call, Miss(c) PROVE OpInv'
  BY <1>3 DEF Miss, Asks, Live, Goes
<1>4. ASSUME NEW c \in Call, DiskRead(c) PROVE OpInv'
  BY <1>4 DEF DiskRead, Goes
<1>5. ASSUME NEW c \in Call, Fill(c) PROVE OpInv'
  BY <1>5 DEF Fill, Live, Answers
<1>6. ASSUME NEW c \in Call, Empty(c) PROVE OpInv'
  BY <1>6 DEF Empty, Live, Nothing, Answers, Goes
<1>7. ASSUME NEW c \in Call, DiskRemove(c) PROVE OpInv'
  BY <1>7 DEF DiskRemove, Nothing, Answers, Goes
<1>8. ASSUME NEW c \in Call, JoinSecond(c) PROVE OpInv'
  BY <1>8 DEF JoinSecond, Join, Rechecked, Goes
<1>9. ASSUME NEW c \in Call, Start(c) PROVE OpInv'
  BY <1>9 DEF Start, Rechecked, Goes
<1>10. ASSUME NEW c \in Call, Fetched(c) PROVE OpInv'
  BY <1>10 DEF Fetched, Write, Goes, NewEntry, Entry
<1>11. ASSUME NEW c \in Call, FetchFails(c) PROVE OpInv'
  BY <1>11 DEF FetchFails, SettledGone, Answers
<1>12. ASSUME NEW c \in Call, Set(c) PROVE OpInv'
  BY <1>12 DEF Set, Write, Goes, NewEntry, Entry
<1>13. ASSUME NEW c \in Call, DiskPut(c) PROVE OpInv'
  BY <1>13 DEF DiskPut, Goes
<1>14. ASSUME NEW c \in Call, Delete(c) PROVE OpInv'
  BY <1>14 DEF Delete, Goes
<1>15. ASSUME NEW c \in Call, Joined(c) PROVE OpInv'
  BY <1>15 DEF Joined, Answers
<1>16. ASSUME NEW c \in Call, Stored(c) PROVE OpInv'
  BY <1>16 DEF Stored, SettledGone, Answers
<1>17. CASE Evict \/ Tick \/ UNCHANGED vars
  BY <1>17 DEF Evict, Tick, vars
<1> QED
  BY <1>1, <1>2, <1>3, <1>4, <1>5, <1>6, <1>7, <1>8,
     <1>9, <1>10, <1>11, <1>12, <1>13, <1>14, <1>15, <1>16, <1>17 DEF Next, Begin, GoOn

\* Every step keeps inflightRequests the fetch that is pending: the second look,
\* in the same turn as the registration, is what keeps two from starting.
LEMMA InflightStep ==
  ASSUME TypeOK, OpInv, InflightIsPending, [Next]_vars PROVE InflightIsPending'
<1> USE TtlConstants DEF TypeOK, OpInv, InflightIsPending, Settled
<1>1. ASSUME NEW c \in Call, JoinFirst(c) PROVE InflightIsPending'
  BY <1>1 DEF JoinFirst, Join, Goes
<1>2. ASSUME NEW c \in Call, Hit(c) PROVE InflightIsPending'
  BY <1>2 DEF Hit, Asks, Live, Answers
<1>3. ASSUME NEW c \in Call, Miss(c) PROVE InflightIsPending'
  BY <1>3 DEF Miss, Asks, Live, Goes
<1>4. ASSUME NEW c \in Call, DiskRead(c) PROVE InflightIsPending'
  BY <1>4 DEF DiskRead, Goes
<1>5. ASSUME NEW c \in Call, Fill(c) PROVE InflightIsPending'
  BY <1>5 DEF Fill, Live, Answers
<1>6. ASSUME NEW c \in Call, Empty(c) PROVE InflightIsPending'
  BY <1>6 DEF Empty, Live, Nothing, Answers, Goes
<1>7. ASSUME NEW c \in Call, DiskRemove(c) PROVE InflightIsPending'
  BY <1>7 DEF DiskRemove, Nothing, Answers, Goes
<1>8. ASSUME NEW c \in Call, JoinSecond(c) PROVE InflightIsPending'
  BY <1>8 DEF JoinSecond, Join, Rechecked, Goes
<1>9. ASSUME NEW c \in Call, Start(c) PROVE InflightIsPending'
  BY <1>9 DEF Start, Rechecked, Goes
<1>10. ASSUME NEW c \in Call, Fetched(c) PROVE InflightIsPending'
  BY <1>10 DEF Fetched, Write, Goes, NewEntry, Entry
<1>11. ASSUME NEW c \in Call, FetchFails(c) PROVE InflightIsPending'
  BY <1>11 DEF FetchFails, SettledGone, Answers
<1>12. ASSUME NEW c \in Call, Set(c) PROVE InflightIsPending'
  BY <1>12 DEF Set, Write, Goes, NewEntry, Entry
<1>13. ASSUME NEW c \in Call, DiskPut(c) PROVE InflightIsPending'
  BY <1>13 DEF DiskPut, Goes
<1>14. ASSUME NEW c \in Call, Delete(c) PROVE InflightIsPending'
  BY <1>14 DEF Delete, Goes
<1>15. ASSUME NEW c \in Call, Joined(c) PROVE InflightIsPending'
  BY <1>15 DEF Joined, Answers
<1>16. ASSUME NEW c \in Call, Stored(c) PROVE InflightIsPending'
  BY <1>16 DEF Stored, SettledGone, Answers
<1>17. CASE Evict \/ Tick \/ UNCHANGED vars
  BY <1>17 DEF Evict, Tick, vars
<1> QED
  BY <1>1, <1>2, <1>3, <1>4, <1>5, <1>6, <1>7, <1>8,
     <1>9, <1>10, <1>11, <1>12, <1>13, <1>14, <1>15, <1>16, <1>17 DEF Next, Begin, GoOn

\* Every step either disturbs, or keeps both tiers at the newest value: a write
\* that overlaps nothing finds no reader that could bring back an old one.
LEMMA NewestStep ==
  ASSUME TypeOK, OpInv, NewestInv, [Next]_vars PROVE NewestInv'
<1> USE TtlConstants DEF TypeOK, OpInv, NewestInv, Alone, MemoNewest, DiskNewest, BufNewest, Reading, Writing, OthersBusy
<1>1. ASSUME NEW c \in Call, JoinFirst(c) PROVE NewestInv'
  BY <1>1 DEF JoinFirst, Join, Goes
<1>2. ASSUME NEW c \in Call, Hit(c) PROVE NewestInv'
  BY <1>2 DEF Hit, Asks, Live, Answers
<1>3. ASSUME NEW c \in Call, Miss(c) PROVE NewestInv'
  BY <1>3 DEF Miss, Asks, Live, Goes
<1>4. ASSUME NEW c \in Call, DiskRead(c) PROVE NewestInv'
  BY <1>4 DEF DiskRead, Goes
<1>5. ASSUME NEW c \in Call, Fill(c) PROVE NewestInv'
  BY <1>5 DEF Fill, Live, Answers
<1>6. ASSUME NEW c \in Call, Empty(c) PROVE NewestInv'
  BY <1>6 DEF Empty, Live, Nothing, Answers, Goes
<1>7. ASSUME NEW c \in Call, DiskRemove(c) PROVE NewestInv'
  BY <1>7 DEF DiskRemove, Nothing, Answers, Goes
<1>8. ASSUME NEW c \in Call, JoinSecond(c) PROVE NewestInv'
  BY <1>8 DEF JoinSecond, Join, Rechecked, Goes
<1>9. ASSUME NEW c \in Call, Start(c) PROVE NewestInv'
  BY <1>9 DEF Start, Rechecked, Goes
<1>10. ASSUME NEW c \in Call, Fetched(c) PROVE NewestInv'
  BY <1>10 DEF Fetched, Write, Goes, NewEntry, Entry
<1>11. ASSUME NEW c \in Call, FetchFails(c) PROVE NewestInv'
  BY <1>11 DEF FetchFails, SettledGone, Answers
<1>12. ASSUME NEW c \in Call, Set(c) PROVE NewestInv'
  BY <1>12 DEF Set, Write, Goes, NewEntry, Entry
<1>13. ASSUME NEW c \in Call, DiskPut(c) PROVE NewestInv'
  BY <1>13 DEF DiskPut, Goes
<1>14. ASSUME NEW c \in Call, Delete(c) PROVE NewestInv'
  BY <1>14 DEF Delete, Goes
<1>15. ASSUME NEW c \in Call, Joined(c) PROVE NewestInv'
  BY <1>15 DEF Joined, Answers
<1>16. ASSUME NEW c \in Call, Stored(c) PROVE NewestInv'
  BY <1>16 DEF Stored, SettledGone, Answers
<1>17. CASE Evict \/ Tick \/ UNCHANGED vars
  BY <1>17 DEF Evict, Tick, vars
<1> QED
  BY <1>1, <1>2, <1>3, <1>4, <1>5, <1>6, <1>7, <1>8,
     <1>9, <1>10, <1>11, <1>12, <1>13, <1>14, <1>15, <1>16, <1>17 DEF Next, Begin, GoOn

\* The invariant holds of an empty memory and whatever is in the store.
LEMMA InitInv == Init => Inv
<1> SUFFICES ASSUME Init PROVE Inv
  OBVIOUS
<1> USE TtlConstants DEF Init
<1>1. TypeOK
  <2>1. disk \in Entries \cup {None, Corrupt} /\ latest \in Values \cup {None}
    <3>1. CASE disk \in {None, Corrupt}
      BY <3>1 DEF ValueOf
    <3>2. ASSUME NEW e \in OldExpiry, disk = Entry(Old, e)
          PROVE disk \in Entries /\ disk.val = Old
      BY <3>2 DEF Entry, Entries, Values
    <3> QED
      BY <3>1, <3>2 DEF ValueOf, Values
  <2>2. clock \in 0..MaxClock
    OBVIOUS
  <2>3. /\ pc \in [Call -> {"start", "reading", "read", "removing", "recheck",
                           "fetching", "storing", "stored", "joining"} \cup Settled]
        /\ buf \in [Call -> Entries \cup {None, Corrupt}]
        /\ joined \in [Call -> Call \cup {None}]
        /\ answer \in [Call -> Values \cup {None, Failed}]
    OBVIOUS
  <2>4. /\ op \in [Call -> {"get", "getOrFetch", "set", "delete"}]
        /\ memo \in Entries \cup {None} /\ inflight \in Call \cup {None}
        /\ disturbed \in BOOLEAN
    OBVIOUS
  <2> QED
    BY <2>1, <2>2, <2>3, <2>4 DEF TypeOK
<1>2. OpInv /\ InflightIsPending
  BY DEF OpInv, InflightIsPending
<1>3. NewestInv
  BY DEF NewestInv, Alone, MemoNewest, DiskNewest, BufNewest, Reading, Writing, ValueOf
<1> QED
  BY <1>1, <1>2, <1>3 DEF Inv

\* Every reachable state of the cache satisfies the inductive invariant.
THEOREM Invariance == Spec => []Inv
<1>1. Inv /\ [Next]_vars => Inv'
  BY TypeStep, OpStep, InflightStep, NewestStep DEF Inv
<1> QED
  BY <1>1, InitInv, PTL DEF Spec

----------------------------------------------------------------------------
\* Every reachable state is well typed.
THEOREM TypeCorrect == Spec => []TypeOK
<1>1. Inv => TypeOK
  BY DEF Inv
<1> QED
  BY <1>1, Invariance, PTL

\* inflightRequests holds the fetch that runs, and a fetch that threw at once.
THEOREM Registered == Spec => []InflightIsPending
<1>1. Inv => InflightIsPending
  BY DEF Inv
<1> QED
  BY <1>1, Invariance, PTL

\* Two fetchers never run at once.
THEOREM OneFetchAtATime == Spec => []OneFetch
<1>1. Inv => OneFetch
  BY DEF Inv, InflightIsPending, OneFetch
<1> QED
  BY <1>1, Invariance, PTL

----------------------------------------------------------------------------
\* A step that answers a get is a hit in memory, or a read of the store with a
\* live entry.
LEMMA AnsweringSteps ==
  ASSUME TypeOK, OpInv, [Next]_vars, NEW c \in Call,
         op[c] = "get", pc[c] # "done", answer'[c] # None
  PROVE  Hit(c) \/ Fill(c)
<1> USE DEF TypeOK, OpInv, Settled
<1>1. answer[c] = None
  OBVIOUS
<1>2. ASSUME NEW d \in Call, Hit(d) \/ Fill(d) PROVE Hit(c) \/ Fill(c)
  BY <1>1, <1>2 DEF Hit, Fill, Answers
<1>3. ASSUME NEW d \in Call,
             \/ JoinFirst(d) \/ Miss(d) \/ DiskRead(d) \/ JoinSecond(d)
             \/ Fetched(d) \/ Set(d) \/ DiskPut(d) \/ Delete(d) \/ Evict \/ Tick
             \/ UNCHANGED vars
      PROVE FALSE
  BY <1>1, <1>3 DEF JoinFirst, Miss, DiskRead, JoinSecond, Fetched, Set, DiskPut, Delete,
    Evict, Tick, vars, Write, Join, Goes
<1>4. ASSUME NEW d \in Call,
             \/ Empty(d) \/ DiskRemove(d) \/ Start(d) \/ FetchFails(d)
             \/ Stored(d) \/ Joined(d)
      PROVE FALSE
  <2>1. CASE d = c
    BY <1>1, <1>4, <2>1 DEF Empty, DiskRemove, Start, FetchFails, Stored, Joined,
      Nothing, Answers, Goes
  <2>2. CASE d # c
    BY <1>1, <1>4, <2>2 DEF Empty, DiskRemove, Start, FetchFails, Stored, Joined,
      Nothing, Answers, Goes
  <2> QED
    BY <2>1, <2>2
<1> QED
  BY <1>2, <1>3, <1>4 DEF Next, Begin, GoOn

\* No get answers an entry that has expired, or one stamped by a clock that was
\* ahead, whatever happened while it read the store.
THEOREM NeverExpired == Spec => NoExpiredAnswer
<1> DEFINE LiveAnswer(c) ==
      op[c] = "get" /\ pc[c] # "done" /\ answer'[c] # None =>
        /\ memo' # None /\ answer'[c] = memo'.val
        /\ clock =< memo'.exp /\ memo'.exp =< clock + Ttl + MaxSkew
<1>1. Inv /\ [Next]_vars => \A c \in Call : LiveAnswer(c)
  <2> SUFFICES ASSUME Inv, [Next]_vars, NEW c \in Call,
                      op[c] = "get", pc[c] # "done", answer'[c] # None
               PROVE LiveAnswer(c)
    OBVIOUS
  <2>1. TypeOK /\ (Hit(c) \/ Fill(c))
    BY AnsweringSteps DEF Inv
  <2>2. Live(memo') /\ answer'[c] = memo'.val
    <3> USE DEF Answers, TypeOK
    <3>1. CASE Hit(c)
      BY <2>1, <3>1 DEF Hit
    <3>2. CASE Fill(c)
      BY <2>1, <3>2 DEF Fill
    <3> QED
      BY <2>1, <3>1, <3>2
  <2>3. memo' \in Entries
    BY <2>1, <2>2, TypeStep DEF TypeOK, Live, Inv
  <2>4. clock \in Nat /\ memo'.exp \in Nat
    <3>1. OldExpiry \subseteq Nat /\ MaxClock \in Nat /\ Ttl \in Nat
      BY TtlConstants
    <3>2. 0..(MaxClock + Ttl) \subseteq Nat
      OBVIOUS
    <3>3. memo'.exp \in OldExpiry \cup 0..(MaxClock + Ttl)
      BY <2>3 DEF Entries
    <3>4. clock \in Nat
      BY <2>1, <3>1 DEF TypeOK
    <3> QED
      BY <3>1, <3>2, <3>3, <3>4
  <2> QED
    BY <2>2, <2>4, TtlConstants DEF Live, Expired
<1> QED
  BY <1>1, Invariance, PTL DEF Spec, NoExpiredAnswer

\* Until a write overlaps another call or is not stored, a get answers the
\* newest value or nothing.
THEOREM Newest == Spec => NewestAnswer
<1> DEFINE NewAnswer(c) ==
      op[c] = "get" /\ pc[c] # "done" /\ answer'[c] # None =>
        disturbed \/ answer'[c] = latest
<1>1. Inv /\ [Next]_vars => \A c \in Call : NewAnswer(c)
  <2> SUFFICES ASSUME Inv, [Next]_vars, NEW c \in Call,
                      op[c] = "get", pc[c] # "done", answer'[c] # None
               PROVE NewAnswer(c)
    OBVIOUS
  <2> USE DEF NewestInv, MemoNewest, BufNewest, Live, Answers
  <2>1. TypeOK /\ NewestInv /\ (Hit(c) \/ Fill(c))
    BY AnsweringSteps DEF Inv
  <2>2. CASE Hit(c)
    BY <2>1, <2>2 DEF Hit, TypeOK
  <2>3. CASE Fill(c)
    BY <2>1, <2>3 DEF Fill, TypeOK
  <2> QED
    BY <2>1, <2>2, <2>3
<1> QED
  BY <1>1, Invariance, PTL DEF Spec, NewestAnswer

----------------------------------------------------------------------------
\* An entry that carries a call's value was brought by that call: until it has
\* one to store, a call finds its own value nowhere.
Brought(e) ==
  e \notin {None, Corrupt} /\ e.val \in Call =>
    pc[e.val] \in {"storing", "stored"} \cup Settled

BroughtInv ==
  /\ Brought(memo)
  /\ Brought(disk)
  /\ \A c \in Call : Brought(buf[c])

\* Whoever waits or has waited for a fetch waits for a call that fetches: no
\* call waits for itself, or for one that waits.
WaitInv ==
  \A c \in Call : joined[c] # None =>
    /\ op[c] = "getOrFetch" /\ pc[c] \in {"joining", "done"}
    /\ Fetches(joined[c])

\* A value only gets into an entry when the call that brings it writes.
LEMMA BroughtStep ==
  ASSUME TypeOK, OpInv, BroughtInv, [Next]_vars PROVE BroughtInv'
<1> USE TtlConstants DEF TypeOK, OpInv, BroughtInv, Brought, Settled
<1>1. ASSUME NEW c \in Call, JoinFirst(c) PROVE BroughtInv'
  BY <1>1 DEF JoinFirst, Join, Goes
<1>2. ASSUME NEW c \in Call, Hit(c) PROVE BroughtInv'
  BY <1>2 DEF Hit, Asks, Live, Answers
<1>3. ASSUME NEW c \in Call, Miss(c) PROVE BroughtInv'
  BY <1>3 DEF Miss, Asks, Live, Goes
<1>4. ASSUME NEW c \in Call, DiskRead(c) PROVE BroughtInv'
  BY <1>4 DEF DiskRead, Goes
<1>5. ASSUME NEW c \in Call, Fill(c) PROVE BroughtInv'
  BY <1>5 DEF Fill, Live, Answers
<1>6. ASSUME NEW c \in Call, Empty(c) PROVE BroughtInv'
  BY <1>6 DEF Empty, Live, Nothing, Answers, Goes
<1>7. ASSUME NEW c \in Call, DiskRemove(c) PROVE BroughtInv'
  BY <1>7 DEF DiskRemove, Nothing, Answers, Goes
<1>8. ASSUME NEW c \in Call, JoinSecond(c) PROVE BroughtInv'
  BY <1>8 DEF JoinSecond, Join, Rechecked, Goes
<1>9. ASSUME NEW c \in Call, Start(c) PROVE BroughtInv'
  BY <1>9 DEF Start, Rechecked, Goes
<1>10. ASSUME NEW c \in Call, Fetched(c) PROVE BroughtInv'
  BY <1>10 DEF Fetched, Write, Goes, NewEntry, Entry
<1>11. ASSUME NEW c \in Call, FetchFails(c) PROVE BroughtInv'
  BY <1>11 DEF FetchFails, SettledGone, Answers
<1>12. ASSUME NEW c \in Call, Set(c) PROVE BroughtInv'
  BY <1>12 DEF Set, Write, Goes, NewEntry, Entry
<1>13. ASSUME NEW c \in Call, DiskPut(c) PROVE BroughtInv'
  BY <1>13 DEF DiskPut, Goes
<1>14. ASSUME NEW c \in Call, Delete(c) PROVE BroughtInv'
  BY <1>14 DEF Delete, Goes
<1>15. ASSUME NEW c \in Call, Joined(c) PROVE BroughtInv'
  BY <1>15 DEF Joined, Answers
<1>16. ASSUME NEW c \in Call, Stored(c) PROVE BroughtInv'
  BY <1>16 DEF Stored, SettledGone, Answers
<1>17. CASE Evict \/ Tick \/ UNCHANGED vars
  BY <1>17 DEF Evict, Tick, vars
<1> QED
  BY <1>1, <1>2, <1>3, <1>4, <1>5, <1>6, <1>7, <1>8,
     <1>9, <1>10, <1>11, <1>12, <1>13, <1>14, <1>15, <1>16, <1>17 DEF Next, Begin, GoOn

\* A call that joins finds a fetch in inflightRequests, and a fetch stays one.
LEMMA WaitStep ==
  ASSUME TypeOK, OpInv, InflightIsPending, BroughtInv, WaitInv, [Next]_vars
  PROVE  WaitInv'
<1> USE TtlConstants DEF TypeOK, OpInv, InflightIsPending, WaitInv, Fetches, Settled
<1>1. ASSUME NEW c \in Call, JoinFirst(c) PROVE WaitInv'
  BY <1>1 DEF JoinFirst, Join, Goes
<1>2. ASSUME NEW c \in Call, Hit(c) PROVE WaitInv'
  BY <1>2 DEF Hit, Asks, Live, Answers
<1>3. ASSUME NEW c \in Call, Miss(c) PROVE WaitInv'
  BY <1>3 DEF Miss, Asks, Live, Goes
<1>4. ASSUME NEW c \in Call, DiskRead(c) PROVE WaitInv'
  BY <1>4 DEF DiskRead, Goes
<1>5. ASSUME NEW c \in Call, Fill(c) PROVE WaitInv'
  BY <1>5 DEF Fill, Live, Answers
<1>6. ASSUME NEW c \in Call, Empty(c) PROVE WaitInv'
  BY <1>6 DEF Empty, Live, Nothing, Answers, Goes
<1>7. ASSUME NEW c \in Call, DiskRemove(c) PROVE WaitInv'
  BY <1>7 DEF DiskRemove, Nothing, Answers, Goes
<1>8. ASSUME NEW c \in Call, JoinSecond(c) PROVE WaitInv'
  BY <1>8 DEF JoinSecond, Join, Rechecked, Goes
<1>9. ASSUME NEW c \in Call, Start(c) PROVE WaitInv'
  BY <1>9 DEF Start, Rechecked, Goes
<1>10. ASSUME NEW c \in Call, Fetched(c) PROVE WaitInv'
  BY <1>10 DEF Fetched, Write, Goes, NewEntry, Entry
<1>11. ASSUME NEW c \in Call, FetchFails(c) PROVE WaitInv'
  BY <1>11 DEF FetchFails, SettledGone, Answers
<1>12. ASSUME NEW c \in Call, Set(c) PROVE WaitInv'
  BY <1>12 DEF Set, Write, Goes, NewEntry, Entry
<1>13. ASSUME NEW c \in Call, DiskPut(c) PROVE WaitInv'
  BY <1>13 DEF DiskPut, Goes
<1>14. ASSUME NEW c \in Call, Delete(c) PROVE WaitInv'
  BY <1>14 DEF Delete, Goes
<1>15. ASSUME NEW c \in Call, Joined(c) PROVE WaitInv'
  BY <1>15 DEF Joined, Answers
<1>16. ASSUME NEW c \in Call, Stored(c) PROVE WaitInv'
  BY <1>16 DEF Stored, SettledGone, Answers
<1>17. CASE Evict \/ Tick \/ UNCHANGED vars
  BY <1>17 DEF Evict, Tick, vars
<1> QED
  BY <1>1, <1>2, <1>3, <1>4, <1>5, <1>6, <1>7, <1>8,
     <1>9, <1>10, <1>11, <1>12, <1>13, <1>14, <1>15, <1>16, <1>17 DEF Next, Begin, GoOn

\* What is known of the calls whose values and fetches others use.
THEOREM SharingInvariance == Spec => [](Inv /\ BroughtInv /\ WaitInv)
<1>1. Init => BroughtInv /\ WaitInv
  <2> SUFFICES ASSUME Init PROVE BroughtInv /\ WaitInv
    OBVIOUS
  <2>1. Brought(disk)
    <3>1. CASE disk \in {None, Corrupt}
      BY <3>1 DEF Brought
    <3>2. ASSUME NEW e \in OldExpiry, disk = Entry(Old, e) PROVE Brought(disk)
      BY <3>2, TtlConstants DEF Brought, Entry
    <3> QED
      BY <3>1, <3>2 DEF Init
  <2> QED
    BY <2>1 DEF Init, BroughtInv, Brought, WaitInv
<1>2. /\ Inv /\ BroughtInv /\ WaitInv /\ [Next]_vars
      => BroughtInv' /\ WaitInv'
  BY BroughtStep, WaitStep DEF Inv
<1> QED
  BY <1>1, <1>2, Invariance, PTL DEF Spec

\* Calls that wait for a fetch wait for one that runs or is over, never for one
\* another, so that none of them is stuck in a circle.
NoCircularWait ==
  \A c \in Call : pc[c] = "joining" =>
    pc[joined[c]] \in {"fetching", "storing", "stored"} \cup Settled

\* Through the two places where getOrFetch joins, waits are one link long.
THEOREM WaitsEnd == Spec => []NoCircularWait
<1>1. OpInv /\ WaitInv => NoCircularWait
  BY TtlConstants DEF OpInv, WaitInv, Fetches, NoCircularWait, Settled
<1> QED
  BY <1>1, SharingInvariance, PTL DEF Inv

\* getOrFetch implements SharedFlight: Start starts a flight, the two looks at
\* inflightRequests join one, and the end of the fetcher's promise lands it.
THEOREM SharesFlights == Spec => ImplementsSharedFlight
<1> DEFINE key == [c \in Call |-> "key"]
           flying == {c \in Call : pc[c] = "fetching"}
           given == [c \in Call |-> IF Fetches(c) THEN c ELSE joined[c]]
<1>1. Init => Flights!Init
  BY DEF Init, Flights!Init, Fetches
<1>2. Inv /\ BroughtInv /\ WaitInv /\ [Next]_vars
      => [Flights!Next]_<<key, flying, given>>
  <2> SUFFICES ASSUME TypeOK, OpInv, InflightIsPending, BroughtInv, WaitInv,
                      [Next]_vars
               PROVE  Flights!Next \/ UNCHANGED <<key, flying, given>>
    BY DEF Inv
  <2> USE TtlConstants DEF TypeOK, OpInv, Settled
  <2>1. \A c \in Call : pc[c] \in {"start", "recheck"} => given[c] = None
    BY DEF WaitInv, Fetches
  <2>2. ASSUME NEW c \in Call, NEW f \in Call, inflight = f,
               pc[c] \in {"start", "recheck"}, Join(c, f),
               UNCHANGED <<op, inflight>>
        PROVE  Flights!Join(c)
    <3>1. Fetches(f)
      BY <2>2 DEF InflightIsPending, Fetches
    <3>2. given[c] = None /\ given[f] = f
      BY <2>1, <2>2, <3>1
    <3>3. flying' = flying
      BY <2>2 DEF Join, Goes
    <3>4. given' = [given EXCEPT ![c] = f]
      BY <2>2 DEF Join, Goes, Fetches
    <3> QED
      BY <3>2, <3>3, <3>4 DEF Flights!Join
  <2>3. ASSUME NEW c \in Call, JoinFirst(c) \/ JoinSecond(c)
        PROVE  Flights!Join(c)
    <3>1. inflight \in Call /\ Join(c, inflight) /\ UNCHANGED <<op, inflight>>
      BY <2>3 DEF JoinFirst, JoinSecond, Rechecked, Join
    <3> QED
      BY <2>2, <2>3, <3>1 DEF JoinFirst, JoinSecond
  <2>4. ASSUME NEW c \in Call, Start(c) PROVE Flights!Start(c)
    <3>1. flying = {}
      BY <2>4 DEF Start, Rechecked, InflightIsPending
    <3>2. given[c] = None
      BY <2>1, <2>4 DEF Start
    <3>3. flying' \in {flying, flying \cup {c}}
      BY <2>4, <3>1 DEF Start, Goes
    <3>4. op[c] = "getOrFetch"
      BY <2>4 DEF Start
    <3>5. given' = [given EXCEPT ![c] = c]
      BY <2>4, <3>4 DEF Start, Goes, Fetches
    <3> QED
      BY <3>1, <3>2, <3>3, <3>5 DEF Flights!Start
  <2>5. ASSUME NEW c \in Call, Fetched(c) \/ FetchFails(c)
        PROVE  Flights!Land(c)
    <3>1. c \in flying /\ flying' = flying \ {c}
      BY <2>5 DEF Fetched, FetchFails, Write, Goes, Answers
    <3>2. op[c] = "getOrFetch" /\ joined[c] = None
      BY <2>5 DEF Fetched, FetchFails, WaitInv
    <3>3. given' = given
      BY <2>5, <3>2 DEF Fetched, FetchFails, Write, Goes, Answers, Fetches
    <3> QED
      BY <3>1, <3>3 DEF Flights!Land
  <2>6. ASSUME NEW c \in Call,
               \/ Hit(c) \/ Miss(c) \/ Set(c) \/ Delete(c)
               \/ DiskRead(c) \/ Fill(c) \/ Empty(c) \/ DiskRemove(c)
               \/ DiskPut(c) \/ Stored(c) \/ Joined(c)
        PROVE  UNCHANGED <<flying, given>>
    <3> USE DEF Fetches, Goes, Answers
    <3>1. CASE Hit(c)
      <4>1. memo.val \notin {c, Failed}
        BY <3>1 DEF Hit, Asks, Live, BroughtInv, Brought, Entries, Values
      <4> QED
        BY <3>1, <4>1 DEF Hit, Asks, WaitInv
    <3>2. CASE Miss(c)
      BY <3>2 DEF Miss, Asks
    <3>3. CASE Set(c) \/ Delete(c)
      BY <3>3 DEF Set, Delete, Write
    <3>4. CASE DiskRead(c)
      BY <3>4 DEF DiskRead
    <3>5. CASE Fill(c)
      <4>1. buf[c].val \notin {c, Failed}
        BY <3>5 DEF Fill, Live, BroughtInv, Brought, Entries, Values
      <4> QED
        BY <3>5, <4>1 DEF Fill, WaitInv
    <3>6. CASE Empty(c) \/ DiskRemove(c)
      BY <3>6 DEF Empty, DiskRemove, Nothing
    <3>7. CASE DiskPut(c)
      BY <3>7 DEF DiskPut
    <3>8. CASE Stored(c)
      BY <3>8 DEF Stored, WaitInv
    <3>9. CASE Joined(c)
      BY <3>9 DEF Joined
    <3> QED
      BY <2>6, <3>1, <3>2, <3>3, <3>4, <3>5, <3>6, <3>7, <3>8, <3>9
  <2>7. CASE Evict \/ Tick \/ UNCHANGED vars
    BY <2>7 DEF Evict, Tick, vars, Fetches
  <2> QED
    BY <2>3, <2>4, <2>5, <2>6, <2>7 DEF Next, Begin, GoOn, Flights!Next
<1> QED
  BY <1>1, <1>2, SharingInvariance, PTL
  DEF Spec, ImplementsSharedFlight, Flights!Spec, Flights!vars

----------------------------------------------------------------------------
\* What the race of a stale read with a write comes down to: while no write has
\* overlapped another call or been lost, memory is the source of truth.
THEOREM NewestAtRest == Spec => [](~disturbed => MemoIsNewest)
<1>1. NewestInv => (~disturbed => MemoIsNewest)
  BY DEF NewestInv, MemoNewest, MemoIsNewest
<1> QED
  BY <1>1, Invariance, PTL DEF Inv

----------------------------------------------------------------------------
\* The most steps that a call can still take.
StepsLeft(c) ==
  CASE pc[c] = "start" -> 8
    [] pc[c] = "reading" -> 7
    [] pc[c] = "read" -> 6
    [] pc[c] = "removing" -> 5
    [] pc[c] = "recheck" -> 4
    [] pc[c] = "fetching" -> 3
    [] pc[c] = "storing" -> 2
    [] pc[c] \in {"stored", "joining"} -> 1
    [] pc[c] \in Settled -> 0

\* Every step of a call takes it nearer to its end, and nothing that happens
\* around it takes it back.
CallsWearOut ==
  \A c \in Call :
    /\ Begin(c) \/ GoOn(c) => StepsLeft(c)' < StepsLeft(c)
    /\ ~(Begin(c) \/ GoOn(c)) => StepsLeft(c)' = StepsLeft(c)

\* No call goes round in circles, however its two looks at inflightRequests,
\* the store and the fetcher turn out: after eight steps it is over.
THEOREM CallsEnd ==
  Spec => /\ [](\A c \in Call : StepsLeft(c) \in 0..8)
          /\ [][CallsWearOut]_vars
<1>1. TypeOK => \A c \in Call : StepsLeft(c) \in 0..8
  BY DEF TypeOK, StepsLeft, Settled
<1>2. TypeOK /\ [Next]_vars => CallsWearOut
  <2> SUFFICES ASSUME TypeOK, [Next]_vars, NEW c \in Call
               PROVE  /\ Begin(c) \/ GoOn(c) => StepsLeft(c)' < StepsLeft(c)
                      /\ ~(Begin(c) \/ GoOn(c)) => pc'[c] = pc[c]
    BY DEF CallsWearOut, StepsLeft
  <2> USE DEF TypeOK, Goes, Answers
  <2>1. ASSUME Begin(c) PROVE StepsLeft(c)' < StepsLeft(c)
    BY <2>1 DEF StepsLeft, Settled, Begin, JoinFirst, Join, Hit, Miss, Asks,
       Set, Delete, Write
  <2>2. ASSUME GoOn(c) PROVE StepsLeft(c)' < StepsLeft(c)
    BY <2>2 DEF StepsLeft, Settled, GoOn, DiskRead, Fill, Empty, Nothing,
       DiskRemove, DiskPut, Stored, JoinSecond, Join, Start, Fetched, Write,
       FetchFails, Joined
  <2>3. ASSUME NEW d \in Call, d # c, Begin(d) \/ GoOn(d) PROVE pc'[c] = pc[c]
    BY <2>3 DEF Begin, JoinFirst, Join, Hit, Miss, Asks, Set, Delete, Write,
       GoOn, DiskRead, Fill, Empty, Nothing, DiskRemove, DiskPut, Stored,
       JoinSecond, Start, Fetched, FetchFails, Joined
  <2>4. CASE Evict \/ Tick \/ UNCHANGED vars
    BY <2>1, <2>2, <2>4 DEF Evict, Tick, vars
  <2> QED
    BY <2>1, <2>2, <2>3, <2>4 DEF Next
<1> QED
  BY <1>1, <1>2, TypeCorrect, PTL DEF Spec
=============================================================================
