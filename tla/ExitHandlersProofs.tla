------------------------- MODULE ExitHandlersProofs -------------------------
(***************************************************************************)
(* Proofs about ExitHandlers, for any copies of the module and any calls   *)
(* of onExit.                                                              *)
(***************************************************************************)
EXTENDS ExitHandlers, FiniteSetTheorems, SequenceTheorems, TLAPS

\* While the process lives, nothing has been emitted and no callback has run.
AliveInv == ended = "no" => emitted = {} /\ ran = << >>

\* Listeners are calls that were made, each once, under its own event, and the
\* copy of each is loaded.
Kept(s, e, calls, copies) ==
  /\ \A i \in 1..Len(s) :
       s[i] \in calls /\ EventOf(s[i]) = e /\ CopyOf[s[i]] \in copies
  /\ \A i, j \in 1..Len(s) : s[i] = s[j] => i = j

ListenerInv == \A e \in Event : Kept(listeners[e], e, added, loaded)

\* The count is that of the loaded copies, all of which know the methods to
\* put back, and unless one unloaded on its own they have an interceptor.
LoadInv ==
  /\ count = Cardinality(loaded)
  /\ \A c \in loaded : original[c] \in Copy \cup {Node}
  /\ ~split /\ loaded # {} => hook # Node

Inv == /\ TypeOK /\ AliveInv /\ ListenerInv /\ LoadInv
       /\ EveryCallbackRuns /\ OnceAndInOrder

\* Initially all parts of the invariant hold.
LEMMA InitInv ==
  Init => Inv
<1> SUFFICES ASSUME Init PROVE Inv
  OBVIOUS
<1> USE ExitConstants DEF Init
<1>1. TypeOK
  <2>1. /\ original \in [Copy -> Copy \cup {Node, None}]
        /\ hook \in Copy \cup {Node}
        /\ loaded \subseteq Copy /\ count \in Int
    OBVIOUS
  <2>2. listeners \in [Event -> Seq(Handler)]
    BY EmptySeq
  <2>3. added \subseteq Handler /\ emitted \subseteq Event
    OBVIOUS
  <2>4. ran \in Seq(Handler)
    BY EmptySeq
  <2>5. /\ other \in BOOLEAN /\ split \in BOOLEAN
        /\ ended \in {"no", "exit", "signal", "error", "cut", "killed"}
    OBVIOUS
  <2> QED
    BY <2>1, <2>2, <2>3, <2>4, <2>5 DEF TypeOK
<1>2. AliveInv /\ ListenerInv
  BY DEF AliveInv, ListenerInv, Kept, Event
<1>3. LoadInv
  BY FS_EmptySet DEF LoadInv
<1>4. EveryCallbackRuns
  BY DEF EveryCallbackRuns
<1>5. OnceAndInOrder
  BY DEF OnceAndInOrder, ToSet
<1> QED
  BY <1>1, <1>2, <1>3, <1>4, <1>5 DEF Inv

\* A listener is taken out, and the others stay in order.
LEMMA TakenOut ==
  ASSUME NEW S, NEW s \in Seq(S), NEW i \in 1..Len(s)
  PROVE  /\ RemoveAt(s, i) \in Seq(S)
         /\ Len(RemoveAt(s, i)) = Len(s) - 1
         /\ \A j \in 1..Len(s) - 1 :
              RemoveAt(s, i)[j] = IF j < i THEN s[j] ELSE s[j + 1]
<1> DEFINE before == SubSeq(s, 1, i - 1)
           after == SubSeq(s, i + 1, Len(s))
<1>0. Len(s) \in Nat /\ \A j \in 1..Len(s) : s[j] \in S
  OBVIOUS
<1>1. /\ before \in Seq(S) /\ Len(before) = i - 1
      /\ \A j \in 1..i - 1 : before[j] = s[j]
  BY <1>0, SubSeqProperties
<1>2. /\ after \in Seq(S) /\ Len(after) = Len(s) - i
      /\ \A j \in 1..Len(s) - i : after[j] = s[i + j]
  BY <1>0, SubSeqProperties
<1> HIDE DEF before, after
<1>3. /\ before \o after \in Seq(S)
      /\ Len(before \o after) = Len(s) - 1
      /\ \A j \in 1..Len(s) - 1 :
           (before \o after)[j] = IF j < i THEN before[j]
                                 ELSE after[j - (i - 1)]
  <2>1. /\ before \o after \in Seq(S)
        /\ Len(before \o after) = Len(before) + Len(after)
        /\ \A j \in 1..Len(before) + Len(after) :
             (before \o after)[j] = IF j =< Len(before) THEN before[j]
                                   ELSE after[j - Len(before)]
    BY <1>1, <1>2, ConcatProperties
  <2> QED
    BY <1>0, <1>1, <1>2, <2>1
<1>4. \A j \in 1..Len(s) - 1 :
        (before \o after)[j] = IF j < i THEN s[j] ELSE s[j + 1]
  BY <1>0, <1>1, <1>2, <1>3
<1> QED
  BY <1>3, <1>4 DEF before, after, RemoveAt

\* The listeners of an event stay in order when one is taken out, ...
LEMMA KeptTaken ==
  ASSUME NEW s \in Seq(Handler), NEW e, NEW calls, NEW copies,
         Kept(s, e, calls, copies), NEW i \in 1..Len(s)
  PROVE  Kept(RemoveAt(s, i), e, calls, copies)
<1> DEFINE r == RemoveAt(s, i)
<1>1. /\ r \in Seq(Handler) /\ Len(r) = Len(s) - 1 /\ Len(s) \in Nat
      /\ \A j \in 1..Len(s) - 1 : r[j] = IF j < i THEN s[j] ELSE s[j + 1]
  BY TakenOut
<1> HIDE DEF r
<1>2. ASSUME NEW j \in 1..Len(r)
      PROVE  /\ j < i => j \in 1..Len(s) /\ r[j] = s[j]
             /\ ~(j < i) => j + 1 \in 1..Len(s) /\ r[j] = s[j + 1]
  BY <1>1, <1>2
<1>3. \A j \in 1..Len(r) :
        r[j] \in calls /\ EventOf(r[j]) = e /\ CopyOf[r[j]] \in copies
  BY <1>2 DEF Kept
<1>4. ASSUME NEW j \in 1..Len(r), NEW k \in 1..Len(r), r[j] = r[k]
      PROVE  j = k
  <2>1. CASE j < i /\ k < i
    BY <1>2, <1>4, <2>1 DEF Kept
  <2>2. CASE j < i /\ ~(k < i)
    BY <1>1, <1>2, <1>4, <2>2 DEF Kept
  <2>3. CASE ~(j < i) /\ k < i
    BY <1>1, <1>2, <1>4, <2>3 DEF Kept
  <2>4. CASE ~(j < i) /\ ~(k < i)
    BY <1>1, <1>2, <1>4, <2>4 DEF Kept
  <2> QED
    BY <2>1, <2>2, <2>3, <2>4
<1> QED
  BY <1>3, <1>4 DEF Kept, r

\* ... and when one is added.
LEMMA KeptAdded ==
  ASSUME NEW s \in Seq(Handler), NEW calls, NEW copies, NEW h \in Handler,
         Kept(s, EventOf(h), calls, copies), h \notin calls
  PROVE  Kept(Append(s, h), EventOf(h), calls \cup {h},
              copies \cup {CopyOf[h]})
<1> DEFINE r == Append(s, h)
<1>1. /\ Len(r) = Len(s) + 1 /\ Len(s) \in Nat
      /\ \A i \in 1..Len(s) : r[i] = s[i]
      /\ r[Len(s) + 1] = h
  OBVIOUS
<1> HIDE DEF r
<1>2. \A i \in 1..Len(r) : i \in 1..Len(s) \/ i = Len(s) + 1
  BY <1>1
<1> QED
  BY <1>1, <1>2 DEF Kept, r

\* The listeners of both events, and no others, are registered.
LEMMA RegisteredAre ==
  ASSUME TypeOK
  PROVE  \A h : h \in Registered <=>
           \E e \in Event : \E i \in 1..Len(listeners[e]) : listeners[e][i] = h
<1>1. /\ listeners["exit"] \in Seq(Handler)
      /\ listeners["afterexit"] \in Seq(Handler)
  BY DEF TypeOK, Event
<1> QED
  BY <1>1 DEF Registered, ToSet, Event

\* The callbacks that an exit calls: those of 'exit', then those of 'afterexit',
\* and nobody when both have been emitted.
LEMMA RoundsAre ==
  ASSUME TypeOK, emitted = {}
  PROVE  /\ Rounds = listeners["exit"] \o listeners["afterexit"]
         /\ Rounds \in Seq(Handler)
<1>1. /\ listeners["exit"] \in Seq(Handler)
      /\ listeners["afterexit"] \in Seq(Handler)
  BY DEF TypeOK, Event
<1>2. Calls(emitted) = listeners["exit"] \o listeners["afterexit"]
  BY DEF Calls
<1>3. Calls(Recorded(emitted)) = << >> \o << >>
  BY DEF Calls, Recorded, Event
<1>4. listeners["exit"] \o listeners["afterexit"] \in Seq(Handler)
  BY <1>1, ConcatProperties
<1>5. << >> \o << >> = << >>
  BY EmptySeq, ConcatEmptySeq
<1> QED
  BY <1>2, <1>3, <1>4, <1>5, ConcatEmptySeq DEF Rounds

\* The first callbacks of s, then the first of t.
Firsts(r, s, t) ==
  \E a \in 0..Len(s), b \in 0..Len(t) :
    /\ r \in Seq(Handler)
    /\ Len(r) = a + b
    /\ \A j \in 1..a + b : r[j] = IF j =< a THEN s[j] ELSE t[j - a]

\* All callbacks of both events are such a sequence, ...
LEMMA AllAreFirsts ==
  ASSUME NEW s \in Seq(Handler), NEW t \in Seq(Handler)
  PROVE  Firsts(s \o t, s, t)
<1>1. /\ s \o t \in Seq(Handler)
      /\ Len(s \o t) = Len(s) + Len(t)
      /\ \A j \in 1..Len(s) + Len(t) :
           (s \o t)[j] = IF j =< Len(s) THEN s[j] ELSE t[j - Len(s)]
  BY ConcatProperties
<1>2. Len(s) \in 0..Len(s) /\ Len(t) \in 0..Len(t)
  OBVIOUS
<1> QED
  BY <1>1, <1>2 DEF Firsts

\* ... so are those up to one that throws or exits, ...
LEMMA PrefixFirsts ==
  ASSUME NEW s \in Seq(Handler), NEW t \in Seq(Handler), NEW i \in 1..Len(s \o t)
  PROVE  Firsts(SubSeq(s \o t, 1, i), s, t)
<1> DEFINE r == SubSeq(s \o t, 1, i)
<1>1. /\ s \o t \in Seq(Handler)
      /\ Len(s \o t) = Len(s) + Len(t)
      /\ \A j \in 1..Len(s) + Len(t) :
           (s \o t)[j] = IF j =< Len(s) THEN s[j] ELSE t[j - Len(s)]
  BY ConcatProperties
<1>2. Len(s) \in Nat /\ Len(t) \in Nat
  OBVIOUS
<1>3. \A j \in 1..i : (s \o t)[j] \in Handler
  BY <1>1, <1>2
<1>4. /\ r \in Seq(Handler) /\ Len(r) = i
      /\ \A j \in 1..i : r[j] = (s \o t)[j]
  BY <1>1, <1>3, SubSeqProperties
<1> HIDE DEF r
<1>5. \A j \in 1..i : r[j] = IF j =< Len(s) THEN s[j] ELSE t[j - Len(s)]
  BY <1>1, <1>2, <1>4
<1>6. ASSUME i =< Len(s) PROVE Firsts(r, s, t)
  <2>1. i \in 0..Len(s) /\ 0 \in 0..Len(t) /\ i + 0 = i
    BY <1>2, <1>6
  <2>2. \A j \in 1..i : r[j] = IF j =< i THEN s[j] ELSE t[j - i]
    BY <1>2, <1>5, <1>6
  <2> QED
    BY <1>4, <2>1, <2>2 DEF Firsts
<1>7. ASSUME ~(i =< Len(s)) PROVE Firsts(r, s, t)
  <2>1. PICK a \in 0..Len(s), b \in 0..Len(t) :
          a = Len(s) /\ b = i - Len(s) /\ a + b = i
    BY <1>1, <1>2, <1>7
  <2>2. \A j \in 1..a + b : r[j] = IF j =< a THEN s[j] ELSE t[j - a]
    BY <1>5, <2>1
  <2>3. r \in Seq(Handler) /\ Len(r) = a + b
    BY <1>4, <2>1
  <2> QED
    BY <2>2, <2>3 DEF Firsts
<1>8. Firsts(r, s, t)
  BY <1>6, <1>7
<1> QED
  BY <1>8 DEF r

\* ... and so are those of the first event up to one that exits, with those of
\* the second up to some place.
LEMMA CutFirsts ==
  ASSUME NEW s \in Seq(Handler), NEW t \in Seq(Handler),
         NEW i \in 1..Len(s), NEW k \in 0..Len(t)
  PROVE  Firsts(SubSeq(s \o t, 1, i) \o SubSeq(t, 1, k), s, t)
<1> DEFINE q == SubSeq(s \o t, 1, i)
           u == SubSeq(t, 1, k)
<1>1. /\ s \o t \in Seq(Handler)
      /\ Len(s \o t) = Len(s) + Len(t)
      /\ \A j \in 1..Len(s) + Len(t) :
           (s \o t)[j] = IF j =< Len(s) THEN s[j] ELSE t[j - Len(s)]
  BY ConcatProperties
<1>2. Len(s) \in Nat /\ Len(t) \in Nat
  OBVIOUS
<1>3. \A j \in 1..i : (s \o t)[j] \in Handler
  BY <1>1, <1>2
<1>4. /\ q \in Seq(Handler) /\ Len(q) = i
      /\ \A j \in 1..i : q[j] = (s \o t)[j]
  BY <1>1, <1>3, SubSeqProperties
<1>5. \A j \in 1..k : t[j] \in Handler
  BY <1>2
<1>6. /\ u \in Seq(Handler) /\ Len(u) = k
      /\ \A j \in 1..k : u[j] = t[j]
  BY <1>2, <1>5, SubSeqProperties
<1> HIDE DEF q, u
<1>7. /\ q \o u \in Seq(Handler)
      /\ Len(q \o u) = Len(q) + Len(u)
      /\ \A j \in 1..Len(q) + Len(u) :
           (q \o u)[j] = IF j =< Len(q) THEN q[j] ELSE u[j - Len(q)]
  BY <1>4, <1>6, ConcatProperties
<1>8. \A j \in 1..i + k : (q \o u)[j] = IF j =< i THEN s[j] ELSE t[j - i]
  <2> SUFFICES ASSUME NEW j \in 1..i + k
               PROVE  (q \o u)[j] = IF j =< i THEN s[j] ELSE t[j - i]
    OBVIOUS
  <2>1. CASE j =< i
    BY <1>1, <1>2, <1>4, <1>6, <1>7, <2>1
  <2>2. CASE ~(j =< i)
    <3>1. j - i \in 1..k
      BY <2>2
    <3> QED
      BY <1>4, <1>6, <1>7, <2>2, <3>1
  <2> QED
    BY <2>1, <2>2
<1>9. i \in 0..Len(s) /\ k \in 0..Len(t) /\ Len(q \o u) = i + k
  BY <1>2, <1>4, <1>6, <1>7
<1>10. Firsts(q \o u, s, t)
  BY <1>7, <1>8, <1>9 DEF Firsts
<1> QED
  BY <1>10 DEF q, u

\* Such a sequence of listeners names each once, and alwaysLast ones last.
LEMMA FirstsOrdered ==
  ASSUME TypeOK, ListenerInv, NEW r,
         Firsts(r, listeners["exit"], listeners["afterexit"])
  PROVE  /\ \A i \in 1..Len(r) : r[i] \in Registered
         /\ \A i, j \in 1..Len(r) :
              /\ r[i] = r[j] => i = j
              /\ i < j /\ r[i] \in AlwaysLast => r[j] \in AlwaysLast
<1> DEFINE s == listeners["exit"]
           t == listeners["afterexit"]
<1>1. s \in Seq(Handler) /\ t \in Seq(Handler)
  BY DEF TypeOK, Event
<1>2. Len(s) \in Nat /\ Len(t) \in Nat
  BY <1>1
<1>3. /\ \A i \in 1..Len(s) : s[i] \notin AlwaysLast
      /\ \A i, j \in 1..Len(s) : s[i] = s[j] => i = j
  BY DEF ListenerInv, Kept, Event, EventOf
<1>4. /\ \A i \in 1..Len(t) : t[i] \in AlwaysLast
      /\ \A i, j \in 1..Len(t) : t[i] = t[j] => i = j
  BY DEF ListenerInv, Kept, Event, EventOf
<1>5. /\ \A i \in 1..Len(s) : s[i] \in Registered
      /\ \A i \in 1..Len(t) : t[i] \in Registered
  BY RegisteredAre DEF Event
<1> HIDE DEF s, t
<1>6. PICK a \in 0..Len(s), b \in 0..Len(t) :
        /\ Len(r) = a + b
        /\ \A j \in 1..a + b : r[j] = IF j =< a THEN s[j] ELSE t[j - a]
  BY DEF Firsts, s, t
<1>7. \A i \in 1..Len(r) :
        IF i =< a THEN i \in 1..Len(s) /\ r[i] = s[i]
                  ELSE i - a \in 1..Len(t) /\ r[i] = t[i - a]
  BY <1>2, <1>6
<1>8. \A i \in 1..Len(r) : r[i] \in Registered
  BY <1>5, <1>7
<1>9. ASSUME NEW i \in 1..Len(r), NEW j \in 1..Len(r)
      PROVE  /\ r[i] = r[j] => i = j
             /\ i < j /\ r[i] \in AlwaysLast => r[j] \in AlwaysLast
  <2>0. i \in Nat /\ j \in Nat /\ a \in Nat
    BY <1>2, <1>6
  <2>1. CASE i =< a /\ j =< a
    BY <1>3, <1>7, <2>1
  <2>2. CASE i =< a /\ ~(j =< a)
    BY <1>3, <1>4, <1>7, <2>2
  <2>3. CASE ~(i =< a) /\ j =< a
    <3>1. ~(i < j)
      BY <2>0, <2>3
    <3>2. r[i] \in AlwaysLast /\ r[j] \notin AlwaysLast
      BY <1>3, <1>4, <1>7, <2>3
    <3> QED
      BY <3>1, <3>2
  <2>4. CASE ~(i =< a) /\ ~(j =< a)
    <3>1. r[i] = r[j] => i - a = j - a
      BY <1>4, <1>7, <2>4
    <3>2. r[i] = r[j] => i = j
      BY <2>0, <3>1
    <3>3. r[j] \in AlwaysLast
      BY <1>4, <1>7, <2>4
    <3> QED
      BY <3>2, <3>3
  <2> QED
    BY <2>1, <2>2, <2>3, <2>4
<1> QED
  BY <1>8, <1>9

\* All registered callbacks are among those that an exit calls.
LEMMA RoundsComplete ==
  ASSUME TypeOK, emitted = {}
  PROVE  \A h \in Registered : \E i \in 1..Len(Rounds) : Rounds[i] = h
<1> DEFINE s == listeners["exit"]
           t == listeners["afterexit"]
<1>1. s \in Seq(Handler) /\ t \in Seq(Handler)
  BY DEF TypeOK, Event
<1>2. Len(s) \in Nat /\ Len(t) \in Nat
  BY <1>1
<1>3. \A h \in Registered : \/ \E i \in 1..Len(s) : s[i] = h
                            \/ \E i \in 1..Len(t) : t[i] = h
  BY RegisteredAre DEF Event
<1>4. Rounds = s \o t
  BY RoundsAre
<1> HIDE DEF s, t
<1>5. /\ Len(Rounds) = Len(s) + Len(t)
      /\ \A i \in 1..Len(s) + Len(t) :
           Rounds[i] = IF i =< Len(s) THEN s[i] ELSE t[i - Len(s)]
  BY <1>1, <1>4, ConcatProperties
<1>6. ASSUME NEW i \in 1..Len(s) PROVE i \in 1..Len(Rounds) /\ Rounds[i] = s[i]
  BY <1>2, <1>5, <1>6
<1>7. ASSUME NEW i \in 1..Len(t)
      PROVE  Len(s) + i \in 1..Len(Rounds) /\ Rounds[Len(s) + i] = t[i]
  BY <1>2, <1>5, <1>7
<1> QED
  BY <1>3, <1>6, <1>7

\* An exit runs the callbacks in that order, but for those that one which
\* throws or calls process.exit cuts off.
LEMMA Runs ==
  ASSUME TypeOK, ListenerInv, emitted = {}, NEW how, NEW intercepted,
         EndsAfterCallbacks(how, intercepted)
  PROVE  /\ Firsts(ran', listeners["exit"], listeners["afterexit"])
         /\ (ended' = how /\ ran' = Rounds) \/ ended' \in {"error", "cut"}
<1> DEFINE s == listeners["exit"]
           t == listeners["afterexit"]
<1>1. s \in Seq(Handler) /\ t \in Seq(Handler)
  BY DEF TypeOK, Event
<1>2. Rounds = s \o t
  BY RoundsAre
<1>3. \A i \in 1..Len(t) : t[i] \in AlwaysLast
  BY DEF ListenerInv, Kept, Event, EventOf
<1>4. CASE ran' = Rounds /\ ended' = how
  <2>1. Firsts(s \o t, s, t)
    BY <1>1, AllAreFirsts
  <2> QED
    BY <1>2, <1>4, <2>1
<1>5. ASSUME NEW i \in 1..Len(Rounds),
             ran' = SubSeq(Rounds, 1, i), ended' = "error"
      PROVE  Firsts(ran', s, t) /\ ended' \in {"error", "cut"}
  BY <1>1, <1>2, <1>5, PrefixFirsts
<1>6. ASSUME NEW i \in 1..Len(Rounds), ended' = "cut",
             NEW k \in Stops(After(Rounds[i], intercepted)),
             ran' = SubSeq(Rounds, 1, i)
                      \o SubSeq(After(Rounds[i], intercepted), 1, k)
      PROVE  Firsts(ran', s, t) /\ ended' \in {"error", "cut"}
  <2>1. CASE After(Rounds[i], intercepted) = << >>
    <3>1. k = 0
      BY <2>1 DEF Stops
    <3>2. SubSeq(<< >>, 1, 0) = << >>
      BY EmptySeq, SubSeqEmpty
    <3>3. SubSeq(Rounds, 1, i) \in Seq(Handler)
      <4>1. Firsts(SubSeq(Rounds, 1, i), s, t)
        BY <1>1, <1>2, PrefixFirsts
      <4> QED
        BY <4>1 DEF Firsts
    <3>4. ran' = SubSeq(Rounds, 1, i)
      BY <1>6, <2>1, <3>1, <3>2, <3>3, ConcatEmptySeq
    <3> QED
      BY <1>1, <1>2, <1>6, <3>4, PrefixFirsts
  <2>2. CASE After(Rounds[i], intercepted) = t /\ Rounds[i] \notin AlwaysLast
    <3> HIDE DEF s, t
    <3>1. k \in 0..Len(t)
      BY <1>1, <2>2 DEF Stops
    <3>2. /\ Len(s) \in Nat /\ Len(t) \in Nat
          /\ Len(s \o t) = Len(s) + Len(t)
          /\ \A j \in 1..Len(s) + Len(t) :
               (s \o t)[j] = IF j =< Len(s) THEN s[j] ELSE t[j - Len(s)]
      BY <1>1, ConcatProperties
    <3>3. i \in 1..Len(s)
      BY <1>2, <1>3, <2>2, <3>2
    <3> QED
      BY <1>1, <1>2, <1>6, <2>2, <3>1, <3>3, CutFirsts
  <2> QED
    BY <2>1, <2>2 DEF After
<1>7. \/ ran' = Rounds /\ ended' = how
      \/ \E i \in 1..Len(Rounds) :
           ran' = SubSeq(Rounds, 1, i) /\ ended' = "error"
      \/ \E i \in 1..Len(Rounds) :
           /\ ended' = "cut"
           /\ \E k \in Stops(After(Rounds[i], intercepted)) :
                ran' = SubSeq(Rounds, 1, i)
                         \o SubSeq(After(Rounds[i], intercepted), 1, k)
  BY DEF EndsAfterCallbacks
<1> QED
  BY <1>4, <1>5, <1>6, <1>7

\* An end that calls the callbacks ends well.
LEMMA EndsWell ==
  ASSUME Inv, ended = "no", NEW how \in {"exit", "signal"}, NEW intercepted,
         EndsAfterCallbacks(how, intercepted), UNCHANGED <<listeners, split>>
  PROVE  /\ ran' \in Seq(Handler)
         /\ ended' \in {how, "error", "cut"}
         /\ EveryCallbackRuns' /\ OnceAndInOrder'
<1>1. TypeOK /\ ListenerInv /\ emitted = {}
  BY DEF Inv, AliveInv
<1>2. /\ Firsts(ran', listeners["exit"], listeners["afterexit"])
      /\ (ended' = how /\ ran' = Rounds) \/ ended' \in {"error", "cut"}
  BY <1>1, Runs
<1>3. ran' \in Seq(Handler)
  BY <1>2 DEF Firsts
<1>4. /\ \A i \in 1..Len(ran') : ran'[i] \in Registered
      /\ \A i, j \in 1..Len(ran') :
           /\ ran'[i] = ran'[j] => i = j
           /\ i < j /\ ran'[i] \in AlwaysLast => ran'[j] \in AlwaysLast
  BY <1>1, <1>2, FirstsOrdered
<1>5. Registered' = Registered
  BY DEF Registered
<1>6. ToSet(ran') = {ran'[i] : i \in 1..Len(ran')}
  BY <1>3 DEF ToSet
<1>7. EveryCallbackRuns'
  <2>1. ASSUME ended' \notin {"error", "cut"}
        PROVE  Registered \subseteq ToSet(ran')
    BY <1>1, <1>2, <1>6, <2>1, RoundsComplete
  <2> QED
    BY <1>5, <2>1 DEF EveryCallbackRuns
<1>8. OnceAndInOrder'
  BY <1>4, <1>5, <1>6 DEF OnceAndInOrder
<1> QED
  BY <1>2, <1>3, <1>7, <1>8

\* A process that lives owes nothing yet.
LEMMA StaysAlive ==
  ASSUME AliveInv, ended = "no", UNCHANGED <<ended, emitted, ran>>
  PROVE  AliveInv' /\ EveryCallbackRuns' /\ OnceAndInOrder'
BY DEF AliveInv, EveryCallbackRuns, OnceAndInOrder, ToSet

\* Without a loaded copy nobody is registered, so nobody is missed.
LEMMA NobodyMissed ==
  ASSUME Inv, ended = "no", ended' # "no", loaded = {},
         UNCHANGED <<listeners, emitted, ran>>
  PROVE  AliveInv' /\ EveryCallbackRuns' /\ OnceAndInOrder'
<1>1. \A h : h \notin Registered
  BY RegisteredAre DEF Inv, ListenerInv, Kept
<1>2. Registered' = Registered /\ ran' = << >>
  BY DEF Registered, Inv, AliveInv
<1> QED
  BY <1>1, <1>2 DEF AliveInv, EveryCallbackRuns, OnceAndInOrder, ToSet

\* onExit adds a listener, and its copy is loaded then.
LEMMA OnExitStep ==
  ASSUME Inv, NEW h \in Handler, OnExit(h)
  PROVE  TypeOK' /\ ListenerInv' /\ LoadInv'
<1> DEFINE c == CopyOf[h]
           e == EventOf(h)
           s == listeners[e]
<1>1. /\ TypeOK /\ ListenerInv /\ LoadInv
      /\ c \in Copy /\ e \in Event /\ s \in Seq(Handler)
      /\ IsFiniteSet(loaded)
  BY ExitConstants, FS_Subset DEF Inv, TypeOK, Event, EventOf
<1>2. Append(s, h) \in Seq(Handler)
  BY <1>1
<1>3. /\ listeners' \in [Event -> Seq(Handler)]
      /\ listeners'[e] = Append(s, h)
      /\ \A f \in Event : f # e => listeners'[f] = listeners[f]
  BY <1>1, <1>2 DEF OnExit, TypeOK
<1>4. /\ loaded' = loaded \cup {c} /\ added' = added \cup {h}
      /\ h \notin added /\ original[c] \in Copy \cup {Node}
      /\ hook' = c \/ (hook' = hook /\ c \in loaded)
      /\ count' = IF c \in loaded THEN count ELSE count + 1
      /\ UNCHANGED <<original, emitted, ran, other, ended, split>>
  BY <1>1 DEF OnExit, TypeOK
<1>5. TypeOK'
  BY <1>1, <1>3, <1>4 DEF TypeOK
<1>6. ListenerInv'
  <2>1. Kept(Append(s, h), e, added \cup {h}, loaded \cup {c})
    BY <1>1, <1>4, KeptAdded DEF ListenerInv
  <2>2. ASSUME NEW f \in Event, f # e
        PROVE  Kept(listeners[f], f, added \cup {h}, loaded \cup {c})
    BY <1>1 DEF ListenerInv, Kept
  <2> QED
    BY <1>3, <1>4, <2>1, <2>2 DEF ListenerInv
<1>7. LoadInv'
  <2>1. count' = Cardinality(loaded')
    BY <1>1, <1>4, FS_AddElement DEF LoadInv
  <2>2. c # Node
    BY <1>1, ExitConstants
  <2> QED
    BY <1>1, <1>4, <2>1, <2>2 DEF LoadInv
<1> QED
  BY <1>5, <1>6, <1>7

\* A remover takes its listener out, and unloads its copy when it was the last.
LEMMA UnregisterStep ==
  ASSUME Inv, NEW h \in Handler, Unregister(h)
  PROVE  TypeOK' /\ ListenerInv' /\ LoadInv'
<1> DEFINE c == CopyOf[h]
           e == EventOf(h)
           s == listeners[e]
           Taken == \E i \in 1..Len(s) :
                      listeners' = [listeners EXCEPT ![e] = RemoveAt(s, i)]
           Unloads == Unlistened(listeners') /\ c \in loaded
<1>1. /\ TypeOK /\ ListenerInv /\ LoadInv
      /\ c \in Copy /\ e \in Event /\ s \in Seq(Handler)
      /\ listeners \in [Event -> Seq(Handler)]
      /\ IsFiniteSet(loaded)
  BY ExitConstants, FS_Subset DEF Inv, TypeOK, Event, EventOf
<1>2. Taken \/ listeners' = listeners
  BY <1>1 DEF Unregister
<1>3. /\ UNCHANGED <<original, added, emitted, ran, other, ended>>
      /\ IF Unloads
           THEN /\ loaded' = loaded \ {c} /\ count' = count - 1
                /\ hook' = original[c]
                /\ split' = (split \/ loaded # {c})
           ELSE UNCHANGED <<loaded, count, hook, split>>
  BY DEF Unregister, CountAfter
<1> HIDE DEF Unloads
<1>4. /\ listeners' \in [Event -> Seq(Handler)]
      /\ \A f \in Event : Kept(listeners'[f], f, added, loaded)
  <2>1. CASE listeners' = listeners
    BY <1>1, <2>1 DEF ListenerInv
  <2>2. CASE Taken
    <3>1. PICK k \in 1..Len(s) :
            listeners' = [listeners EXCEPT ![e] = RemoveAt(s, k)]
      BY <2>2
    <3>2. RemoveAt(s, k) \in Seq(Handler)
      BY <1>1, TakenOut
    <3>3. Kept(RemoveAt(s, k), e, added, loaded)
      BY <1>1, KeptTaken DEF ListenerInv
    <3> QED
      BY <1>1, <3>1, <3>2, <3>3 DEF ListenerInv
  <2> QED
    BY <1>2, <2>1, <2>2
<1>5. TypeOK'
  <2>1. CASE Unloads
    BY <1>1, <1>3, <1>4, <2>1 DEF TypeOK, Unloads, LoadInv
  <2>2. CASE ~Unloads
    BY <1>1, <1>3, <1>4, <2>2 DEF TypeOK
  <2> QED
    BY <2>1, <2>2
<1>6. ListenerInv'
  <2>1. CASE Unloads
    <3>1. \A f \in Event : listeners'[f] = << >>
      BY <2>1 DEF Unloads, Unlistened, Event
    <3> QED
      BY <3>1 DEF ListenerInv, Kept
  <2>2. CASE ~Unloads
    BY <1>3, <1>4, <2>2 DEF ListenerInv
  <2> QED
    BY <2>1, <2>2
<1>7. LoadInv'
  <2>1. CASE Unloads
    <3>1. c \in loaded
      BY <2>1 DEF Unloads
    <3>2. Cardinality(loaded \ {c}) = Cardinality(loaded) - 1
      BY <1>1, <3>1, FS_RemoveElement
    <3>3. count' = Cardinality(loaded')
      BY <1>1, <1>3, <2>1, <3>2 DEF LoadInv
    <3>4. ~split' => loaded' = {}
      BY <1>3, <2>1
    <3> QED
      BY <1>1, <1>3, <2>1, <3>3, <3>4 DEF LoadInv
  <2>2. CASE ~Unloads
    BY <1>1, <1>3, <2>2 DEF LoadInv
  <2> QED
    BY <2>1, <2>2
<1> QED
  BY <1>5, <1>6, <1>7

\* The invariant is inductive.
THEOREM Invariance == Spec => []Inv
<1>1. Init => Inv
  BY InitInv
<1>2. Inv /\ [Next]_vars => Inv'
  <2> SUFFICES ASSUME Inv, [Next]_vars PROVE Inv'
    OBVIOUS
  <2>0. /\ TypeOK /\ AliveInv /\ ListenerInv /\ LoadInv
        /\ EveryCallbackRuns /\ OnceAndInOrder
    BY DEF Inv
  <2>1. ASSUME NEW c \in Copy, Import(c) PROVE Inv'
    <3>1. TypeOK' /\ ListenerInv' /\ LoadInv'
      BY <2>0, <2>1 DEF Import, TypeOK, ListenerInv, LoadInv
    <3>2. AliveInv' /\ EveryCallbackRuns' /\ OnceAndInOrder'
      BY <2>0, <2>1, StaysAlive DEF Import
    <3> QED
      BY <3>1, <3>2 DEF Inv
  <2>2. ASSUME NEW h \in Handler, OnExit(h) PROVE Inv'
    <3>1. AliveInv' /\ EveryCallbackRuns' /\ OnceAndInOrder'
      BY <2>0, <2>2, StaysAlive DEF OnExit
    <3> QED
      BY <2>2, <3>1, OnExitStep DEF Inv
  <2>3. ASSUME NEW h \in Handler, Unregister(h) PROVE Inv'
    <3>1. AliveInv' /\ EveryCallbackRuns' /\ OnceAndInOrder'
      BY <2>0, <2>3, StaysAlive DEF Unregister
    <3> QED
      BY <2>3, <3>1, UnregisterStep DEF Inv
  <2>4. ASSUME Exit \/ Signal PROVE Inv'
    <3>1. /\ ended = "no"
          /\ UNCHANGED <<original, hook, loaded, count, listeners, added, other,
                         split>>
      BY <2>4 DEF Exit, Signal
    <3>2. ListenerInv' /\ LoadInv'
      BY <2>0, <3>1 DEF ListenerInv, LoadInv
    <3>3. ASSUME NEW how \in {"exit", "signal"}, NEW intercepted,
                 EndsAfterCallbacks(how, intercepted)
          PROVE  Inv'
      <4>1. /\ ran' \in Seq(Handler)
            /\ ended' \in {how, "error", "cut"}
            /\ EveryCallbackRuns' /\ OnceAndInOrder'
        BY <3>1, <3>3, EndsWell
      <4>2. emitted' = Event
        BY <3>3 DEF EndsAfterCallbacks, Recorded
      <4>3. TypeOK'
        BY <2>0, <3>1, <4>1, <4>2 DEF TypeOK
      <4>4. AliveInv'
        BY <4>1 DEF AliveInv
      <4> QED
        BY <3>2, <4>1, <4>3, <4>4 DEF Inv
    <3>4. CASE Exit /\ hook = Node
      <4>1. ended' = "exit" /\ UNCHANGED <<emitted, ran>>
        BY <3>4 DEF Exit
      <4>2. TypeOK' /\ AliveInv'
        BY <2>0, <3>1, <4>1 DEF TypeOK, AliveInv
      <4>3. EveryCallbackRuns' /\ OnceAndInOrder'
        <5>1. CASE split
          <6>1. ran' = << >> /\ split'
            BY <2>0, <3>1, <4>1, <5>1 DEF AliveInv
          <6> QED
            BY <4>1, <6>1 DEF EveryCallbackRuns, OnceAndInOrder, ToSet
        <5>2. CASE ~split
          <6>1. loaded = {}
            BY <2>0, <3>4, <5>2 DEF LoadInv
          <6> QED
            BY <3>1, <4>1, <6>1, NobodyMissed
        <5> QED
          BY <5>1, <5>2
      <4> QED
        BY <3>2, <4>2, <4>3 DEF Inv
    <3>5. CASE Signal /\ ListenersOf = 0 /\ ended' = "killed"
      <4>1. \/ UNCHANGED <<emitted, ran>>
            \/ \E c \in loaded : EndsAfterCallbacks("signal", original[c] # Node)
        BY <3>5 DEF Signal
      <4>2. loaded = {}
        <5>1. IsFiniteSet(loaded)
          BY <2>0, ExitConstants, FS_Subset DEF TypeOK
        <5>2. Cardinality(loaded) \in Nat
          BY <5>1, FS_CardinalityType
        <5>3. Cardinality(loaded) = 0
          BY <3>5, <5>2 DEF ListenersOf
        <5> QED
          BY <5>1, <5>3, FS_EmptySet
      <4>3. ASSUME UNCHANGED <<emitted, ran>> PROVE Inv'
        <5>1. TypeOK'
          BY <2>0, <3>1, <3>5, <4>3 DEF TypeOK
        <5>2. AliveInv' /\ EveryCallbackRuns' /\ OnceAndInOrder'
          BY <3>1, <3>5, <4>2, <4>3, NobodyMissed
        <5> QED
          BY <3>2, <5>1, <5>2 DEF Inv
      <4> QED
        BY <3>3, <4>1, <4>3
    <3> QED
      BY <2>4, <3>3, <3>4, <3>5 DEF Exit, Signal
  <2>5. CASE Other
    <3>1. TypeOK' /\ ListenerInv' /\ LoadInv'
      BY <2>0, <2>5 DEF Other, TypeOK, ListenerInv, LoadInv
    <3>2. AliveInv' /\ EveryCallbackRuns' /\ OnceAndInOrder'
      BY <2>0, <2>5, StaysAlive DEF Other
    <3> QED
      BY <3>1, <3>2 DEF Inv
  <2>6. CASE UNCHANGED vars
    BY <2>0, <2>6 DEF vars, Inv, TypeOK, AliveInv, ListenerInv, LoadInv,
       EveryCallbackRuns, OnceAndInOrder, Registered
  <2> QED
    BY <2>1, <2>2, <2>3, <2>4, <2>5, <2>6 DEF Next
<1> QED
  BY <1>1, <1>2, PTL DEF Spec

\* Every reachable state of the process is well typed.
THEOREM TypeCorrect == Spec => []TypeOK
<1>1. Inv => TypeOK
  BY DEF Inv
<1> QED
  BY <1>1, Invariance, PTL

\* For any copies and calls, in any order, no registered callback is missing
\* when the process ends, unless one threw or called process.exit, or the
\* process exits after a copy unloaded on its own.
THEOREM CallbacksRun == Spec => []EveryCallbackRuns
<1>1. Inv => EveryCallbackRuns
  BY DEF Inv
<1> QED
  BY <1>1, Invariance, PTL

\* No callback runs twice, also when one of them throws or calls process.exit,
\* none that was removed before the end runs, and alwaysLast is last.
THEOREM RunOnceInOrder == Spec => []OnceAndInOrder
<1>1. Inv => OnceAndInOrder
  BY DEF Inv
<1> QED
  BY <1>1, Invariance, PTL

\* The count of the emitter tells the copies' listeners from everybody else's.
THEOREM CountDecides == Spec => []SignalsDecided
<1>1. Inv => SignalsDecided
  <2> SUFFICES ASSUME Inv PROVE SignalsDecided
    OBVIOUS
  <2>1. IsFiniteSet(loaded)
    BY ExitConstants, FS_Subset DEF Inv, TypeOK
  <2>2. Cardinality(loaded) \in Nat /\ count = Cardinality(loaded)
    BY <2>1, FS_CardinalityType DEF Inv, LoadInv
  <2>3. CASE other
    BY <2>2, <2>3 DEF SignalsDecided, ListenersOf
  <2>4. CASE ~other
    BY <2>2, <2>4 DEF SignalsDecided, ListenersOf
  <2> QED
    BY <2>3, <2>4
<1> QED
  BY <1>1, Invariance, PTL
=============================================================================
