----------------------------- MODULE HttpProofs -----------------------------
(***************************************************************************)
(* Proofs about HttpRequest and HttpDownload, for any number of retries    *)
(* and redirects and every kind of call.                                   *)
(***************************************************************************)
EXTENDS HttpDownload, TLAPS

\* While the call waits for an attempt, the current exchange is the only one
\* that has not settled; at any other time all have.
OneUnsettled ==
  /\ pc = "asking" => cur >= 1
  /\ \A i \in 1..cur : ~exchanges[i].settled <=> (i = cur /\ pc = "asking")

\* An exchange whose outcome is known has settled, so that one which has not
\* waits for its headers, its body or the decoding of it.  A body that is being
\* decoded belongs to an exchange that nothing else can settle, except when the
\* upload can still fail.
HookInv ==
  /\ \A i \in 1..cur :
       /\ exchanges[i].phase \in {"spent", "bad", "closed"} =>
            exchanges[i].settled
       /\ kind # "upload" =>
            (exchanges[i].phase = "decoding" => ~exchanges[i].settled)
  /\ HooksFireOnce

\* Requests made, against attempts made and redirects left.
Budget == MaxRedirects + 1
WorkInv ==
  /\ left =< MaxRedirects
  /\ attempt =< retries
  /\ pc = "waiting" => attempt < retries
  /\ pc = "start" => attempt = 0 /\ cur = 0 /\ left = MaxRedirects
  /\ cur =< attempt * Budget + (MaxRedirects - left) + 1

\* An aborted call is at most in the delay before its last attempt.
AbortInv ==
  /\ abortedIn >= -1
  /\ Aborted => /\ kind # "download"
                /\ attempt =< abortedIn + 1
                /\ pc = "waiting" => attempt =< abortedIn

\* Only a download has files; outside the writing of a response and the catch
\* block there is no temporary file, and what is renamed is whole and verified.
FileInv ==
  /\ pc \in DownloadPlaces => kind = "download"
  /\ temp # None => kind = "download"
  /\ pc \in {"start", "asking", "answered", "waiting"} => temp = None
  /\ pc \in {"verify", "rename"} => temp = None \/ temp.whole
  /\ pc = "rename" => match
  /\ FilesAllOrNothing

Inv == TypeOK /\ OneUnsettled /\ HookInv /\ WorkInv /\ AbortInv /\ FileInv
       /\ CredentialsStayHome

\* Initially all parts of the invariant hold.
LEMMA InitInv ==
  DownloadInit => Inv
<1> SUFFICES ASSUME DownloadInit PROVE Inv
  OBVIOUS
<1> USE RequestConstants DEF DownloadInit, Init
<1>1. TypeOK
  <2>1. url \in Origin /\ at \in Origin
    BY DEF Origin
  <2>2. exchanges \in Seq(Exchange)
    OBVIOUS
  <2>3. creds \in BOOLEAN /\ ok \in BOOLEAN /\ match \in BOOLEAN
    OBVIOUS
  <2>4. kind \in Kinds /\ left \in Nat /\ retries \in 0..MaxRetries
    OBVIOUS
  <2>5. attempt \in Nat /\ abortedIn \in Int /\ cleanups \in Nat
    OBVIOUS
  <2>6. /\ pc \in CallPlaces \cup DownloadPlaces
        /\ temp \in File \cup {None}
        /\ dest \in Result \cup {None}
    BY DEF CallPlaces
  <2> QED
    BY <2>1, <2>2, <2>3, <2>4, <2>5, <2>6 DEF TypeOK, RequestTypeOK
<1>2. OneUnsettled /\ HookInv
  BY DEF OneUnsettled, HookInv, HooksFireOnce, cur
<1>3. WorkInv
  <2>1. 0 * Budget = 0
    BY DEF Budget
  <2> QED
    BY <2>1 DEF WorkInv, cur
<1>4. AbortInv
  BY DEF AbortInv, Aborted
<1>5. FileInv
  BY DEF FileInv, FilesAllOrNothing, DownloadPlaces, Over
<1>6. CredentialsStayHome
  BY DEF CredentialsStayHome
<1> QED
  BY <1>1, <1>2, <1>3, <1>4, <1>5, <1>6 DEF Inv

\* The steps of a call and its files, one by one.
LEMMA Step ==
  [DownloadNext]_vars <=>
    \/ Start /\ UNCHANGED fileVars
    \/ Follow /\ UNCHANGED fileVars
    \/ RefuseRedirect /\ UNCHANGED fileVars
    \/ MalformedRedirect /\ UNCHANGED fileVars
    \/ Respond /\ UNCHANGED fileVars
    \/ End /\ UNCHANGED fileVars
    \/ \E i \in 1..cur : /\ Decoded(i) \/ Fail(i) \/ FailUpload(i)
                         /\ UNCHANGED fileVars
    \/ Return /\ UNCHANGED fileVars
    \/ Catch /\ UNCHANGED fileVars
    \/ Retry /\ UNCHANGED fileVars
    \/ Abort /\ UNCHANGED fileVars
    \/ FileStep
    \/ UNCHANGED vars
BY DEF DownloadNext, RequestStep, ExchangeStep

\* The fields of an exchange that changes are still of their types.
LEMMA Updates ==
  ASSUME NEW x \in Exchange
  PROVE  /\ \A b \in BOOLEAN, n \in Nat :
              [x EXCEPT !.settled = b, !.reports = n] \in Exchange
         /\ \A p \in Phase : /\ [x EXCEPT !.phase = p] \in Exchange
                             /\ [x EXCEPT !.phase = p].phase = p
                             /\ [x EXCEPT !.phase = p].settled = x.settled
                             /\ [x EXCEPT !.phase = p].reports = x.reports
         /\ x.phase \in Phase /\ x.settled \in BOOLEAN /\ x.reports \in Nat
         /\ x.reports + 1 \in Nat
<1>1. \A b \in BOOLEAN, n \in Nat :
        [x EXCEPT !.settled = b, !.reports = n] \in Exchange
  BY DEF Exchange
<1>2. ASSUME NEW p \in Phase
      PROVE  /\ [x EXCEPT !.phase = p] \in Exchange
             /\ [x EXCEPT !.phase = p].phase = p
             /\ [x EXCEPT !.phase = p].settled = x.settled
             /\ [x EXCEPT !.phase = p].reports = x.reports
  BY DEF Exchange
<1>3. /\ x.phase \in Phase /\ x.settled \in BOOLEAN /\ x.reports \in Nat
      /\ x.reports + 1 \in Nat
  BY DEF Exchange
<1> QED
  BY <1>1, <1>2, <1>3

\* What the helpers make of an exchange.
LEMMA Outcomes ==
  ASSUME NEW x \in Exchange
  PROVE  /\ Rejected(x) \in Exchange
         /\ Refused(x) \in Exchange
         /\ Rejected(x).settled = TRUE
         /\ Refused(x).settled = TRUE
         /\ Rejected(x).reports = IF x.settled THEN x.reports ELSE x.reports + 1
         /\ Refused(x).reports = x.reports + 1
         /\ Rejected(x).phase = x.phase
         /\ Refused(x).phase = x.phase
<1>1. Rejected(x) \in Exchange /\ Refused(x) \in Exchange
  BY Updates DEF Rejected, Refused
<1>2. Rejected(x).settled = TRUE /\ Rejected(x).phase = x.phase
  BY DEF Rejected, Exchange
<1>3. Refused(x).settled = TRUE /\ Refused(x).phase = x.phase
  BY DEF Refused, Exchange
<1>4. Rejected(x).reports = IF x.settled THEN x.reports ELSE x.reports + 1
  BY DEF Rejected, Exchange
<1>5. Refused(x).reports = x.reports + 1
  BY DEF Refused, Exchange
<1> QED
  BY <1>1, <1>2, <1>3, <1>4, <1>5

\* An exchange in another phase.
InPhase(x, p) == [x EXCEPT !.phase = p]

\* The same, after the phase has changed as well.
LEMMA RefusedEnding ==
  ASSUME NEW x \in Exchange, NEW p \in Phase
  PROVE  /\ InPhase(Refused(x), p) \in Exchange
         /\ InPhase(Refused(x), p).settled = TRUE
         /\ InPhase(Refused(x), p).phase = p
         /\ InPhase(Refused(x), p).reports = x.reports + 1
<1> DEFINE r == Refused(x)
<1>1. r \in Exchange /\ r.settled = TRUE /\ r.reports = x.reports + 1
  BY Outcomes
<1> HIDE DEF r
<1>2. /\ InPhase(r, p) \in Exchange
      /\ InPhase(r, p).settled = TRUE
      /\ InPhase(r, p).phase = p
      /\ InPhase(r, p).reports = x.reports + 1
  BY <1>1, Updates DEF InPhase
<1> QED
  BY <1>2 DEF r

\* The same for a settling that may come late and then changes nothing.
LEMMA RejectedEnding ==
  ASSUME NEW x \in Exchange, NEW p \in Phase
  PROVE  /\ InPhase(Rejected(x), p) \in Exchange
         /\ InPhase(Rejected(x), p).settled = TRUE
         /\ InPhase(Rejected(x), p).phase = p
         /\ InPhase(Rejected(x), p).reports =
              IF x.settled THEN x.reports ELSE x.reports + 1
<1> DEFINE s == Rejected(x)
<1>1. /\ s \in Exchange /\ s.settled = TRUE
      /\ s.reports = IF x.settled THEN x.reports ELSE x.reports + 1
  BY Outcomes
<1> HIDE DEF s
<1>2. /\ InPhase(s, p) \in Exchange
      /\ InPhase(s, p).settled = TRUE
      /\ InPhase(s, p).phase = p
      /\ InPhase(s, p).reports =
           IF x.settled THEN x.reports ELSE x.reports + 1
  BY <1>1, Updates DEF InPhase
<1> QED
  BY <1>2 DEF s

\* A new exchange.
LEMMA NewExchange ==
  ASSUME NEW b \in BOOLEAN
  PROVE  /\ New(b) \in Exchange
         /\ New(b).settled = FALSE
         /\ New(b).reports = 0
         /\ New(b).phase = "sent"
<1>1. New(b) \in Exchange
  BY DEF New, Exchange, Phase
<1>2. New(b).settled = FALSE /\ New(b).reports = 0 /\ New(b).phase = "sent"
  BY DEF New
<1> QED
  BY <1>1, <1>2

\* One exchange changes, and the others stay.
LEMMA OneChanges ==
  ASSUME NEW s \in Seq(Exchange), NEW i \in 1..Len(s), NEW x \in Exchange
  PROVE  /\ [s EXCEPT ![i] = x] \in Seq(Exchange)
         /\ Len([s EXCEPT ![i] = x]) = Len(s)
         /\ \A j \in 1..Len(s) :
              [s EXCEPT ![i] = x][j] = IF j = i THEN x ELSE s[j]
OBVIOUS

\* An exchange is added, and the others stay.
LEMMA OneMore ==
  ASSUME NEW s \in Seq(Exchange), NEW x \in Exchange
  PROVE  /\ Append(s, x) \in Seq(Exchange)
         /\ Len(Append(s, x)) = Len(s) + 1
         /\ \A j \in 1..Len(s) + 1 :
              Append(s, x)[j] = IF j = Len(s) + 1 THEN x ELSE s[j]
OBVIOUS

\* The exchanges are well typed, one is unsettled at most, and each has fired
\* its hook as it should.
Exchanges == exchanges \in Seq(Exchange) /\ OneUnsettled /\ HookInv

\* A well-behaved exchange y of a call of some kind.
Hooked(y) ==
  /\ y.settled => y.reports >= 1
  /\ y.phase \in {"spent", "bad", "closed"} => y.settled
  /\ kind # "upload" => /\ y.phase = "decoding" => ~y.settled
                        /\ y.phase # "bad" =>
                             y.reports = IF y.settled THEN 1 ELSE 0

\* Every exchange made so far is well-behaved.
LEMMA AllHooked ==
  ASSUME Exchanges, NEW i \in 1..cur
  PROVE  exchanges[i] \in Exchange /\ Hooked(exchanges[i])
BY DEF Exchanges, Hooked, HookInv, HooksFireOnce, cur

\* A step that changes exchange i into y keeps the exchanges in order, when y
\* has settled unless the call still waits for it.
LEMMA ChangeKeeps ==
  ASSUME Exchanges, kind' = kind, NEW i \in 1..cur, NEW y \in Exchange,
         Becomes(i, y), Hooked(y),
         i # cur => pc' = pc,
         pc' = "asking" => pc = "asking",
         ~y.settled <=> (i = cur /\ pc' = "asking")
  PROVE  Exchanges' /\ cur' = cur
<1> DEFINE s == exchanges
<1>1. s \in Seq(Exchange) /\ cur = Len(s) /\ i \in 1..Len(s)
  BY DEF Exchanges, cur
<1>2. s' = [s EXCEPT ![i] = y]
  BY DEF Becomes
<1>3. /\ s' \in Seq(Exchange)
      /\ cur' = cur
      /\ \A j \in 1..cur : s'[j] = IF j = i THEN y ELSE s[j]
  BY <1>1, <1>2, OneChanges DEF cur
<1>4. OneUnsettled'
  BY <1>1, <1>3 DEF OneUnsettled, Exchanges
<1>5. HookInv'
  BY <1>1, <1>3 DEF HookInv, HooksFireOnce, Hooked, Exchanges
<1> QED
  BY <1>3, <1>4, <1>5 DEF Exchanges

\* A step that adds an exchange keeps them in order when all others of s, the
\* exchanges so far, have settled.
LEMMA AddKeeps ==
  ASSUME NEW s \in Seq(Exchange), NEW b \in BOOLEAN,
         kind' = kind, pc' = "asking",
         exchanges' = Append(s, New(b)),
         \A j \in 1..Len(s) : s[j].settled /\ Hooked(s[j])
  PROVE  Exchanges' /\ cur' = Len(s) + 1
<1> DEFINE t == exchanges'
<1>1. New(b) \in Exchange /\ ~New(b).settled /\ New(b).reports = 0
      /\ New(b).phase = "sent"
  BY NewExchange
<1>2. /\ t \in Seq(Exchange)
      /\ cur' = Len(s) + 1
      /\ \A j \in 1..cur' : t[j] = IF j = cur' THEN New(b) ELSE s[j]
  BY <1>1, OneMore DEF cur
<1>3. Len(s) \in Nat
  OBVIOUS
<1>4. \A j \in 1..cur' : j = cur' \/ j \in 1..Len(s)
  BY <1>2, <1>3
<1>5. OneUnsettled'
  BY <1>1, <1>2, <1>3, <1>4 DEF OneUnsettled
<1>6. HookInv'
  BY <1>1, <1>2, <1>4 DEF HookInv, HooksFireOnce, Hooked
<1> QED
  BY <1>2, <1>5, <1>6 DEF Exchanges

\* The steps of the current exchange.
LEMMA CurrentSteps ==
  ASSUME Exchanges, RefuseRedirect \/ MalformedRedirect \/ Respond \/ End
  PROVE  Exchanges' /\ cur' = cur
<1> DEFINE x == exchanges[cur]
<1>1. cur \in Nat /\ pc = "asking" /\ cur \in 1..cur
  BY DEF RefuseRedirect, MalformedRedirect, Respond, End, Open, Exchanges,
     OneUnsettled, cur
<1>2. x \in Exchange /\ Hooked(x) /\ x.settled = FALSE
  BY <1>1, AllHooked, Updates DEF Exchanges, OneUnsettled
<1>3. {"spent", "bad", "body", "decoding"} \subseteq Phase
  BY DEF Phase
<1> HIDE DEF x
<1> DEFINE refused == InPhase(Refused(x), "spent")
<1>4. /\ refused \in Exchange /\ refused.settled = TRUE
      /\ refused.phase = "spent" /\ refused.reports = x.reports + 1
  <2>1. x \in Exchange /\ "spent" \in Phase
    BY <1>2, <1>3
  <2>2. refused \in Exchange /\ refused.phase = "spent"
    BY <2>1, RefusedEnding
  <2>3. refused.settled = TRUE /\ refused.reports = x.reports + 1
    BY <2>1, RefusedEnding
  <2> QED
    BY <2>2, <2>3, Zenon
<1> HIDE DEF refused
<1>5. x.phase = "sent" => Hooked(refused)
  <2>1. x.reports \in Nat /\ (kind # "upload" /\ x.phase = "sent" => x.reports = 0)
    BY <1>2, Updates DEF Hooked
  <2> QED
    BY <1>4, <2>1 DEF Hooked
<1>6. CASE RefuseRedirect
  <2>1. Becomes(cur, refused) /\ pc' = "failed" /\ kind' = kind
    BY <1>6 DEF RefuseRedirect, InPhase, refused, x
  <2>2. x.phase = "sent"
    BY <1>6 DEF RefuseRedirect, Open, x
  <2> QED
    BY <1>1, <1>4, <1>5, <2>1, <2>2, ChangeKeeps
<1>7. CASE MalformedRedirect
  <2> DEFINE seen == [x EXCEPT !.phase = "bad", !.reports = @ + 1]
             y == Rejected(seen)
  <2>1. Becomes(cur, y) /\ pc' = "failed" /\ kind' = kind /\ x.phase = "sent"
    BY <1>7 DEF MalformedRedirect, Open, x
  <2>2. /\ seen \in Exchange /\ seen.phase = "bad"
        /\ seen.reports = x.reports + 1 /\ seen.settled = FALSE
    <3>1. /\ [x EXCEPT !.phase = "bad"] \in Exchange
          /\ seen.phase = "bad" /\ seen.settled = x.settled
          /\ seen.reports = x.reports + 1
      BY <1>2, <1>3, Updates DEF Exchange
    <3>2. seen \in Exchange
      BY <1>2, <1>3, Updates DEF Exchange
    <3> QED
      BY <1>2, <3>1, <3>2
  <2> HIDE DEF seen
  <2>3. /\ y \in Exchange /\ y.settled = TRUE /\ y.phase = "bad"
        /\ y.reports = seen.reports + 1
    BY <2>2, Outcomes
  <2> HIDE DEF y
  <2>4. x.reports \in Nat
    BY <1>2, Updates
  <2>5. Hooked(y)
    BY <2>2, <2>3, <2>4 DEF Hooked
  <2> QED
    BY <1>1, <2>1, <2>3, <2>5, ChangeKeeps
<1>8. CASE Respond
  <2>1. x.phase = "sent" /\ kind' = kind
    BY <1>8 DEF Respond, Open, x
  <2>2. CASE kind \in {"stream", "download"}
    <3>1. Becomes(cur, refused) /\ pc' = "answered"
      BY <1>8, <2>2 DEF Respond, InPhase, refused, x
    <3> QED
      BY <1>1, <1>4, <1>5, <2>1, <3>1, ChangeKeeps
  <2>3. CASE kind \notin {"stream", "download"}
    <3> DEFINE y == [x EXCEPT !.phase = "body"]
    <3>1. Becomes(cur, y) /\ pc' = pc
      BY <1>8, <2>3 DEF Respond, x
    <3>2. /\ y \in Exchange /\ y.settled = FALSE /\ y.phase = "body"
          /\ y.reports = x.reports
      BY <1>2, <1>3, Updates
    <3> HIDE DEF y
    <3>3. Hooked(y)
      BY <1>2, <2>1, <3>2, Updates DEF Hooked
    <3> QED
      BY <1>1, <2>1, <3>1, <3>2, <3>3, ChangeKeeps
  <2> QED
    BY <2>2, <2>3
<1>9. CASE End
  <2> DEFINE y == [x EXCEPT !.phase = "decoding"]
  <2>1. Becomes(cur, y) /\ pc' = pc /\ kind' = kind /\ x.phase = "body"
    BY <1>9 DEF End, Open, x
  <2>2. /\ y \in Exchange /\ y.settled = FALSE /\ y.phase = "decoding"
        /\ y.reports = x.reports
    BY <1>2, <1>3, Updates
  <2> HIDE DEF y
  <2>3. Hooked(y)
    BY <1>2, <2>1, <2>2, Updates DEF Hooked
  <2> QED
    BY <1>1, <2>1, <2>2, <2>3, ChangeKeeps
<1> QED
  BY <1>6, <1>7, <1>8, <1>9

\* The steps of any exchange, the current one or one before it.
LEMMA AnySteps ==
  ASSUME Exchanges, NEW i \in 1..cur, Decoded(i) \/ Fail(i) \/ FailUpload(i)
  PROVE  Exchanges' /\ cur' = cur
<1> DEFINE x == exchanges[i]
<1>1. x \in Exchange /\ Hooked(x)
  BY AllHooked
<1>2. ~x.settled <=> (i = cur /\ pc = "asking")
  BY DEF Exchanges, OneUnsettled
<1>3. /\ x.settled \in BOOLEAN /\ x.phase \in Phase /\ x.reports \in Nat
      /\ "closed" \in Phase
  BY <1>1, Updates DEF Phase
<1> HIDE DEF x
<1>4. x \in Exchange
  BY <1>1
<1>5. CASE Decoded(i)
  <2> DEFINE y == [x EXCEPT !.phase = "closed", !.settled = TRUE,
                            !.reports = @ + 1]
  <2>1. /\ Becomes(i, y) /\ kind' = kind /\ x.phase = "decoding"
        /\ pc' = IF x.settled THEN pc ELSE "answered"
    BY <1>5 DEF Decoded, x
  <2>2. /\ [x EXCEPT !.phase = "closed"] \in Exchange
        /\ [x EXCEPT !.phase = "closed"].phase = "closed"
        /\ [x EXCEPT !.phase = "closed"].reports = x.reports
    BY <1>1, <1>3, Updates
  <2>3. y = [[x EXCEPT !.phase = "closed"] EXCEPT !.settled = TRUE,
                                                  !.reports = x.reports + 1]
    OBVIOUS
  <2>4. /\ y \in Exchange /\ y.settled = TRUE /\ y.phase = "closed"
        /\ y.reports = x.reports + 1
    BY <1>1, <1>3, <2>2, <2>3, Updates DEF Exchange
  <2> HIDE DEF y
  <2>5. Hooked(y)
    BY <1>1, <1>3, <2>1, <2>4 DEF Hooked
  <2> QED
    BY <1>2, <2>1, <2>4, <2>5, ChangeKeeps
<1>6. CASE Fail(i)
  <2> DEFINE p == IF x.settled THEN x.phase ELSE "closed"
             y == InPhase(Rejected(x), p)
  <2>1. /\ x.phase # "decoding" /\ kind' = kind
        /\ pc' = IF x.settled THEN pc ELSE "failed"
    BY <1>6 DEF Fail, AfterFailure, x
  <2>2. Becomes(i, y)
    BY <1>1, <1>6, Outcomes DEF Fail, InPhase, x
  <2>3. p \in Phase
    BY <1>3
  <2> HIDE DEF p
  <2>4. /\ y \in Exchange /\ y.settled = TRUE /\ y.phase = p
        /\ y.reports = IF x.settled THEN x.reports ELSE x.reports + 1
    <3>1. y \in Exchange /\ y.settled = TRUE
      BY <1>4, <2>3, RejectedEnding
    <3>2. y.phase = p
      BY <1>4, <2>3, Outcomes DEF InPhase, Exchange
    <3>3. y.reports = IF x.settled THEN x.reports ELSE x.reports + 1
      BY <1>4, <2>3, RejectedEnding
    <3> QED
      BY <3>1, <3>2, <3>3
  <2> USE DEF p
  <2> HIDE DEF y
  <2>5. Hooked(y)
    <3>1. CASE x.settled
      BY <1>1, <1>3, <2>4, <3>1 DEF Hooked
    <3>2. CASE ~x.settled
      BY <1>1, <1>3, <2>1, <2>4, <3>2 DEF Hooked
    <3> QED
      BY <3>1, <3>2
  <2> QED
    BY <1>2, <2>1, <2>2, <2>4, <2>5, ChangeKeeps
<1>7. CASE FailUpload(i)
  <2> DEFINE p == IF x.phase = "decoding" THEN x.phase ELSE "closed"
             y == InPhase(Rejected(x), p)
  <2>1. /\ kind = "upload" /\ kind' = kind /\ ~x.settled /\ pc' = "failed"
    BY <1>7 DEF FailUpload, x
  <2>2. Becomes(i, y)
    BY <1>1, <1>7, Outcomes DEF FailUpload, InPhase, x
  <2>3. p \in Phase
    BY <1>3
  <2> HIDE DEF p
  <2>4. /\ y \in Exchange /\ y.settled = TRUE /\ y.reports = x.reports + 1
    <3>1. y \in Exchange /\ y.settled = TRUE
      BY <1>4, <2>3, RejectedEnding
    <3>2. y.reports = IF x.settled THEN x.reports ELSE x.reports + 1
      BY <1>4, <2>3, RejectedEnding
    <3> QED
      BY <2>1, <3>1, <3>2
  <2> HIDE DEF y
  <2>5. Hooked(y)
    BY <1>3, <2>1, <2>4 DEF Hooked
  <2> QED
    BY <1>2, <2>1, <2>2, <2>4, <2>5, ChangeKeeps
<1> QED
  BY <1>5, <1>6, <1>7

\* A redirect is followed: the exchange that was redirected has settled.
LEMMA FollowStep ==
  ASSUME Exchanges, Follow
  PROVE  Exchanges' /\ cur' = cur + 1
<1> DEFINE x == exchanges[cur]
           refused == InPhase(Refused(x), "spent")
           s == [exchanges EXCEPT ![cur] = refused]
<1>1. /\ cur \in Nat /\ cur \in 1..cur /\ cur = Len(exchanges)
      /\ pc = "asking" /\ pc' = pc /\ kind' = kind
      /\ x.phase = "sent"
  BY DEF Follow, Open, Exchanges, OneUnsettled, cur
<1>1a. exchanges' = Append(s, New(FALSE))
  BY DEF Follow, InPhase
<1>2. x \in Exchange /\ Hooked(x) /\ x.settled = FALSE /\ x.reports \in Nat
  BY <1>1, AllHooked, Updates DEF Exchanges, OneUnsettled
<1>3. "spent" \in Phase
  BY DEF Phase
<1>4. x.reports = 0 \/ kind = "upload"
  BY <1>1, <1>2 DEF Hooked
<1> HIDE DEF x
<1>5. x \in Exchange
  BY <1>2
<1>6. refused \in Exchange /\ refused.phase = "spent"
  <2>1. refused \in Exchange
    BY <1>3, <1>5, RefusedEnding
  <2>2. refused.phase = "spent"
    BY <1>3, <1>5, RefusedEnding
  <2> QED
    BY <2>1, <2>2
<1>7. refused.settled = TRUE /\ refused.reports = x.reports + 1
  BY <1>3, <1>5, RefusedEnding
<1> HIDE DEF refused
<1>8. Hooked(refused)
  BY <1>2, <1>4, <1>6, <1>7 DEF Hooked
<1>9. /\ s \in Seq(Exchange) /\ Len(s) = cur
      /\ \A j \in 1..cur : s[j] = IF j = cur THEN refused ELSE exchanges[j]
  BY <1>1, <1>6, OneChanges DEF Exchanges
<1> HIDE DEF s
<1>10. \A j \in 1..cur : j # cur => exchanges[j].settled /\ Hooked(exchanges[j])
  BY AllHooked DEF Exchanges, OneUnsettled
<1>11. \A j \in 1..Len(s) : s[j].settled /\ Hooked(s[j])
  BY <1>7, <1>8, <1>9, <1>10
<1> QED
  BY <1>1, <1>1a, <1>9, <1>11, AddKeeps

\* A new attempt is made when the earlier ones have settled.
LEMMA AskStep ==
  ASSUME Exchanges, Ask, pc # "asking"
  PROVE  Exchanges' /\ cur' = cur + 1
<1>1. /\ exchanges \in Seq(Exchange) /\ (kind # "download") \in BOOLEAN
      /\ exchanges' = Append(exchanges, New(kind # "download"))
      /\ kind' = kind /\ pc' = "asking"
  BY DEF Ask, Exchanges
<1>2. \A j \in 1..Len(exchanges) :
        exchanges[j].settled /\ Hooked(exchanges[j])
  BY AllHooked DEF Exchanges, OneUnsettled, cur
<1> QED
  BY <1>1, <1>2, AddKeeps DEF cur

\* Steps that make no exchange and change none.
LEMMA Elsewhere ==
  ASSUME Exchanges, exchanges' = exchanges, kind' = kind,
         pc' = "asking" <=> pc = "asking"
  PROVE  Exchanges' /\ cur' = cur
BY DEF Exchanges, OneUnsettled, HookInv, HooksFireOnce, cur

\* The files, the caller and the loop of attempts leave the exchanges alone.
LEMMA OtherSteps ==
  ASSUME \/ Start /\ pc' = "rejected"
         \/ Return \/ Catch \/ Abort \/ FileStep \/ UNCHANGED vars
  PROVE  /\ exchanges' = exchanges /\ kind' = kind
         /\ pc' = "asking" <=> pc = "asking"
<1>1. CASE Start /\ pc' = "rejected"
  BY <1>1 DEF Start, Ask
<1>2. CASE Return
  BY <1>2 DEF Return
<1>3. CASE Catch
  BY <1>3 DEF Catch
<1>4. CASE Abort
  BY <1>4 DEF Abort
<1>5. CASE FileStep
  BY <1>5 DEF FileStep, Save, EndOfBody, AfterBody, Finish, SaveFails,
     CleanupPartial, Verify, Discard, Rename, AfterCatch, CatchTo,
     CatchDownload, Clean, fileVars
<1>6. CASE UNCHANGED vars
  BY <1>6 DEF vars, httpVars
<1> QED
  BY <1>1, <1>2, <1>3, <1>4, <1>5, <1>6

\* A call asks for its first attempt, or is refused.
LEMMA StartSteps ==
  ASSUME Start
  PROVE  pc = "start" /\ (pc' = "rejected" \/ Ask)
BY DEF Start

\* Every step keeps the exchanges in order.
LEMMA ExchangesStep ==
  ASSUME Exchanges, [DownloadNext]_vars
  PROVE  Exchanges'
<1>1. CASE Start
  BY <1>1, StartSteps, AskStep, OtherSteps, Elsewhere
<1>2. CASE Follow
  BY <1>2, FollowStep
<1>3. CASE RefuseRedirect \/ MalformedRedirect \/ Respond \/ End
  BY <1>3, CurrentSteps
<1>4. ASSUME NEW i \in 1..cur, Decoded(i) \/ Fail(i) \/ FailUpload(i)
      PROVE  Exchanges'
  BY <1>4, AnySteps
<1>5. CASE Retry
  <2>1. pc # "asking" /\ Ask
    BY <1>5 DEF Retry
  <2> QED
    BY <2>1, AskStep
<1>6. CASE Return \/ Catch \/ Abort \/ FileStep \/ UNCHANGED vars
  BY <1>6, OtherSteps, Elsewhere
<1> QED
  BY <1>1, <1>2, <1>3, <1>4, <1>5, <1>6, Step

\* The steps of exchange i, or of the current one, change nothing of the call
\* but where it stands.
LEMMA ExchangeFrame ==
  ASSUME \/ RefuseRedirect \/ MalformedRedirect \/ Respond \/ End
         \/ \E i \in 1..cur : Decoded(i) \/ Fail(i) \/ FailUpload(i)
  PROVE  /\ UNCHANGED <<kind, retries, url, attempt, left, at, creds, abortedIn>>
         /\ ok' \in BOOLEAN \/ ok' = ok
         /\ pc' \in {pc, "answered", "failed"}
<1>1. CASE RefuseRedirect \/ MalformedRedirect \/ Respond \/ End
  BY <1>1 DEF RefuseRedirect, MalformedRedirect, Respond, End
<1>2. ASSUME NEW i \in 1..cur, Decoded(i) \/ Fail(i) \/ FailUpload(i)
      PROVE  /\ UNCHANGED <<kind, retries, url, attempt, left, at, creds, ok,
                            abortedIn>>
             /\ pc' \in {pc, "answered", "failed"}
  BY <1>2 DEF Decoded, Fail, AfterFailure, FailUpload
<1> QED
  BY <1>1, <1>2

\* While it waits for an attempt, and whatever comes of it, a call has begun.
LEMMA ExchangePlace ==
  ASSUME Exchanges, TypeOK, WorkInv,
         \/ RefuseRedirect \/ MalformedRedirect \/ Respond \/ End
         \/ \E i \in 1..cur : Decoded(i) \/ Fail(i) \/ FailUpload(i)
  PROVE  pc' = pc \/ pc = "asking"
<1>1. CASE RefuseRedirect \/ MalformedRedirect \/ Respond \/ End
  BY <1>1 DEF RefuseRedirect, MalformedRedirect, Respond, End, Open
<1>2. ASSUME NEW i \in 1..cur, Decoded(i) \/ Fail(i) \/ FailUpload(i)
      PROVE  pc' = pc \/ pc = "asking"
  BY <1>2 DEF Decoded, Fail, AfterFailure, FailUpload, Exchanges, OneUnsettled
<1> QED
  BY <1>1, <1>2

\* Every step keeps the types.
LEMMA TypeStep ==
  ASSUME TypeOK, Exchanges', WorkInv, [DownloadNext]_vars
  PROVE  TypeOK'
<1> USE RequestConstants DEF TypeOK, RequestTypeOK, CallPlaces, DownloadPlaces,
        fileVars
<1>0. exchanges' \in Seq(Exchange)
  BY DEF Exchanges
<1>1. ASSUME Start, UNCHANGED fileVars PROVE TypeOK'
  BY <1>0, <1>1 DEF Start, Ask
<1>2. ASSUME Follow, UNCHANGED fileVars PROVE TypeOK'
  <2>1. left' \in Nat
    BY <1>2 DEF Follow, LeftAfter
  <2>2. creds' \in BOOLEAN
    BY <1>2 DEF Follow, CredsAfter
  <2> QED
    BY <1>0, <1>2, <2>1, <2>2 DEF Follow
<1>3. ASSUME \/ RefuseRedirect \/ MalformedRedirect \/ Respond \/ End
             \/ \E i \in 1..cur : Decoded(i) \/ Fail(i) \/ FailUpload(i),
             UNCHANGED fileVars
      PROVE  TypeOK'
  BY <1>0, <1>3, ExchangeFrame
<1>4. ASSUME Return, UNCHANGED fileVars PROVE TypeOK'
  BY <1>0, <1>4 DEF Return
<1>5. ASSUME Catch, UNCHANGED fileVars PROVE TypeOK'
  BY <1>0, <1>5 DEF Catch
<1>6. ASSUME Retry, UNCHANGED fileVars PROVE TypeOK'
  BY <1>0, <1>6 DEF Retry, Ask
<1>7. ASSUME Abort, UNCHANGED fileVars PROVE TypeOK'
  BY <1>0, <1>7 DEF Abort
<1>8. CASE FileStep
  <2>1. /\ UNCHANGED <<kind, retries, url, attempt, exchanges, left, at, creds,
                       ok, abortedIn>>
        /\ pc' \in CallPlaces \cup DownloadPlaces
    BY <1>8 DEF FileStep, Save, EndOfBody, AfterBody, Finish, SaveFails,
       CleanupPartial, Verify, Discard, Rename, AfterCatch, CatchTo,
       CatchDownload, Clean
  <2>2. temp' \in File \cup {None}
    <3>1. CASE Save
      <4>1. [by |-> attempt, whole |-> FALSE] \in File
        BY DEF File
      <4> QED
        BY <3>1, <4>1 DEF Save
    <3>2. CASE Finish
      BY <3>2 DEF Finish, File
    <3>3. CASE ~Save /\ ~Finish
      BY <1>8, <3>3 DEF FileStep, EndOfBody, SaveFails, CleanupPartial,
         Verify, Discard, Rename, CatchDownload, Clean
    <3> QED
      BY <3>1, <3>2, <3>3
  <2>3. match' \in BOOLEAN
    BY <1>8 DEF FileStep, Save, EndOfBody, Finish, SaveFails, CleanupPartial,
       Verify, Discard, Rename, CatchDownload, Clean
  <2>4. dest' \in Result \cup {None}
    BY <1>8 DEF FileStep, Save, EndOfBody, Finish, SaveFails, CleanupPartial,
       Verify, Discard, Rename, CatchDownload, Clean, File, Result
  <2>5. cleanups' \in Nat
    BY <1>8 DEF FileStep, Save, EndOfBody, Finish, SaveFails, CleanupPartial,
       Verify, Discard, Rename, CatchDownload, Clean
  <2> QED
    BY <2>1, <2>2, <2>3, <2>4, <2>5
<1>9. CASE UNCHANGED vars
  BY <1>9 DEF vars, httpVars
<1> QED
  BY <1>1, <1>2, <1>3, <1>4, <1>5, <1>6, <1>7, <1>8, <1>9, Step

\* The requests of a call stay within its attempts and redirects: the distance
\* between them shrinks with every redirect and starts anew with every attempt.
LEMMA WorkStep ==
  ASSUME TypeOK, Exchanges, WorkInv, [DownloadNext]_vars
  PROVE  WorkInv'
<1> DEFINE budget == attempt * Budget
<1>0. /\ cur \in Nat /\ left \in Nat /\ attempt \in Nat /\ retries \in Nat
      /\ MaxRedirects \in Nat /\ budget \in Nat
      /\ (attempt + 1) * Budget = budget + MaxRedirects + 1
  BY RequestConstants DEF TypeOK, RequestTypeOK, Exchanges, cur, Budget
<1> DEFINE Unmoved == /\ cur' = cur
                      /\ UNCHANGED <<retries, attempt, left>>
<1>1. ASSUME Unmoved, pc' = "waiting" => attempt < retries,
             pc' = "start" => pc = "start"
      PROVE  WorkInv'
  BY <1>0, <1>1 DEF WorkInv, Budget
<1>2. CASE Start
  <2>1. CASE pc' = "rejected"
    <3>1. cur' = cur
      BY <1>2, <2>1, OtherSteps DEF cur
    <3> QED
      BY <1>1, <1>2, <2>1, <3>1 DEF Start, Ask
  <2>2. CASE Ask
    <3>1. /\ cur' = cur + 1 /\ left' = MaxRedirects /\ attempt' = attempt
          /\ retries' = retries /\ pc' = "asking" /\ pc = "start"
      BY <1>2, <2>2, AskStep, StartSteps DEF Start, Ask
    <3> QED
      BY <1>0, <3>1 DEF WorkInv, Budget
  <2> QED
    BY <1>2, <2>1, <2>2, StartSteps
<1>3. CASE Follow
  <2>1. /\ cur' = cur + 1 /\ left' = left - 1 /\ left > 0
        /\ UNCHANGED <<attempt, retries, pc>> /\ pc = "asking"
    BY <1>3, FollowStep DEF Follow, LeftAfter, Open
  <2> HIDE DEF budget
  <2>2. attempt' * Budget = budget
    BY <2>1 DEF budget
  <2> QED
    BY <1>0, <2>1, <2>2 DEF WorkInv, budget
<1>4. CASE \/ RefuseRedirect \/ MalformedRedirect \/ Respond \/ End
           \/ \E i \in 1..cur : Decoded(i) \/ Fail(i) \/ FailUpload(i)
  BY <1>1, <1>4, ExchangeFrame, CurrentSteps, AnySteps DEF WorkInv
<1>5. CASE Retry
  <2>1. /\ cur' = cur + 1 /\ left' = MaxRedirects /\ attempt' = attempt + 1
        /\ retries' = retries /\ pc' = "asking" /\ pc = "waiting"
    BY <1>5, AskStep DEF Retry, Ask
  <2> QED
    BY <1>0, <2>1 DEF WorkInv
<1>6. CASE Return \/ Catch \/ Abort \/ FileStep \/ UNCHANGED vars
  <2>1. cur' = cur
    BY <1>6, OtherSteps DEF cur
  <2>2. /\ UNCHANGED <<retries, attempt, left>>
        /\ pc' = "start" => pc = "start"
        /\ pc' = "waiting" => attempt < retries
    BY <1>0, <1>6 DEF Return, Catch, Retries, Abort, FileStep, Save, EndOfBody,
       AfterBody, Finish, SaveFails, CleanupPartial, Verify, Discard, Rename,
       AfterCatch, CatchTo, CatchDownload, Clean, fileVars, vars, httpVars,
       WorkInv
  <2> QED
    BY <1>1, <2>1, <2>2
<1> QED
  BY <1>2, <1>3, <1>4, <1>5, <1>6, Step

\* An abort leaves at most the attempt of which the delay has begun.
LEMMA AbortStep ==
  ASSUME TypeOK, AbortInv, FileInv, [DownloadNext]_vars
  PROVE  AbortInv'
<1> USE DEF TypeOK, RequestTypeOK, AbortInv, Aborted
<1>1. CASE Start
  BY <1>1 DEF Start, Ask
<1>2. CASE Follow
  BY <1>2 DEF Follow
<1>3. CASE \/ RefuseRedirect \/ MalformedRedirect \/ Respond \/ End
           \/ \E i \in 1..cur : Decoded(i) \/ Fail(i) \/ FailUpload(i)
  BY <1>3, ExchangeFrame
<1>4. CASE Return
  BY <1>4 DEF Return
<1>5. CASE Catch
  BY <1>5 DEF Catch, Retries
<1>6. CASE Retry
  BY <1>6 DEF Retry, Ask
<1>7. CASE Abort
  BY <1>7 DEF Abort
<1>8. CASE FileStep
  BY <1>8 DEF FileStep, Save, EndOfBody, AfterBody, Finish, SaveFails,
     CleanupPartial, Verify, Discard, Rename, AfterCatch, CatchTo,
     CatchDownload, Clean, fileVars, FileInv, DownloadPlaces
<1>9. CASE UNCHANGED vars
  BY <1>9 DEF vars, httpVars
<1> QED
  BY <1>1, <1>2, <1>3, <1>4, <1>5, <1>6, <1>7, <1>8, <1>9, Step

\* Credentials and the scheme survive redirects within the caller's origin.
LEMMA CredentialsStep ==
  ASSUME TypeOK, CredentialsStayHome, [DownloadNext]_vars
  PROVE  CredentialsStayHome'
<1> USE DEF TypeOK, RequestTypeOK, CredentialsStayHome
<1>1. CASE Start
  BY <1>1 DEF Start, Ask
<1>2. CASE Follow
  BY <1>2 DEF Follow, CredsAfter
<1>3. CASE \/ RefuseRedirect \/ MalformedRedirect \/ Respond \/ End
           \/ \E i \in 1..cur : Decoded(i) \/ Fail(i) \/ FailUpload(i)
  BY <1>3, ExchangeFrame
<1>4. CASE Retry
  BY <1>4 DEF Retry, Ask
<1>5. CASE Return \/ Catch \/ Abort \/ FileStep \/ UNCHANGED vars
  BY <1>5 DEF Return, Catch, Abort, FileStep, vars, httpVars
<1> QED
  BY <1>1, <1>2, <1>3, <1>4, <1>5, Step

\* What happens on the network leaves the files alone.
LEMMA RequestKeepsFiles ==
  ASSUME TypeOK, Exchanges, WorkInv, FileInv, UNCHANGED fileVars,
         RequestStep \/ Abort
  PROVE  FileInv'
<1> USE DEF TypeOK, FileInv, FilesAllOrNothing, DownloadPlaces, Over, fileVars
<1>1. CASE Start
  BY <1>1 DEF Start, Ask
<1>2. CASE Follow
  BY <1>2 DEF Follow, Open
<1>3. CASE \/ RefuseRedirect \/ MalformedRedirect \/ Respond \/ End
           \/ \E i \in 1..cur : Decoded(i) \/ Fail(i) \/ FailUpload(i)
  BY <1>3, ExchangeFrame, ExchangePlace
<1>4. CASE Return
  BY <1>4 DEF Return
<1>5. CASE Catch
  BY <1>5 DEF Catch
<1>6. CASE Retry
  BY <1>6 DEF Retry, Ask
<1>7. CASE Abort
  BY <1>7 DEF Abort
<1> QED
  BY <1>1, <1>2, <1>3, <1>4, <1>5, <1>6, <1>7 DEF RequestStep, ExchangeStep

\* Each step of a download keeps what is known of its files.
LEMMA FilesStep ==
  ASSUME TypeOK, Exchanges, WorkInv, FileInv, [DownloadNext]_vars
  PROVE  FileInv'
<1>1. CASE (RequestStep \/ Abort) /\ UNCHANGED fileVars
  BY <1>1, RequestKeepsFiles
<1>2. CASE FileStep
  <2> USE NoneIsNoFile DEF TypeOK, FileInv, FilesAllOrNothing, DownloadPlaces,
          Over, fileVars
  <2>0. kind' = kind
    BY <1>2 DEF FileStep
  <2>1. CASE Save
    BY <2>0, <2>1 DEF Save
  <2>2. CASE EndOfBody
    BY <2>0, <2>2 DEF EndOfBody, AfterBody
  <2>3. CASE Finish
    <3>1. CASE temp = None
      BY <2>0, <2>3, <3>1 DEF Finish
    <3>2. CASE temp # None
      <4>1. temp' = [temp EXCEPT !.whole = TRUE] /\ temp \in File
        BY <2>3, <3>2 DEF Finish
      <4>2. temp'.whole
        BY <4>1 DEF File
      <4> QED
        BY <2>0, <2>3, <3>2, <4>2 DEF Finish
    <3> QED
      BY <3>1, <3>2
  <2>4. CASE SaveFails
    BY <2>0, <2>4 DEF SaveFails
  <2>5. CASE CleanupPartial
    BY <2>0, <2>5 DEF CleanupPartial
  <2>6. CASE Verify
    BY <2>0, <2>6 DEF Verify
  <2>7. CASE Discard
    BY <2>0, <2>7 DEF Discard
  <2>8. CASE Rename
    <3>1. CASE pc' = "failed"
      BY <2>0, <2>8, <3>1 DEF Rename
    <3>2. CASE pc' # "failed"
      <4>1. /\ temp # None /\ temp.whole /\ match
            /\ dest' = [whole |-> temp.whole, match |-> match]
            /\ temp' = None /\ pc' = "resolved" /\ match' = match
            /\ kind = "download"
        BY <2>8, <3>2 DEF Rename
      <4>2. dest'.whole /\ dest'.match
        BY <4>1
      <4>3. dest' \in Result
        BY <4>1 DEF File, Result
      <4> QED
        BY <2>0, <4>1, <4>2, <4>3
    <3> QED
      BY <3>1, <3>2
  <2>9. CASE CatchDownload
    BY <2>0, <2>9 DEF CatchDownload, CatchTo, AfterCatch
  <2>10. CASE Clean
    BY <2>0, <2>10 DEF Clean, AfterCatch
  <2> QED
    BY <1>2, <2>1, <2>2, <2>3, <2>4, <2>5, <2>6, <2>7, <2>8, <2>9, <2>10
       DEF FileStep
<1>3. CASE UNCHANGED vars
  BY <1>3 DEF vars, httpVars, fileVars, FileInv, FilesAllOrNothing
<1> QED
  BY <1>1, <1>2, <1>3 DEF DownloadNext

\* The invariant is inductive.
THEOREM Invariance == DownloadSpec => []Inv
<1>1. DownloadInit => Inv
  BY InitInv
<1>2. Inv /\ [DownloadNext]_vars => Inv'
  <2> SUFFICES ASSUME Inv, [DownloadNext]_vars PROVE Inv'
    OBVIOUS
  <2>1. /\ TypeOK /\ OneUnsettled /\ HookInv /\ WorkInv /\ AbortInv /\ FileInv
        /\ CredentialsStayHome
    BY DEF Inv
  <2>2. Exchanges
    BY <2>1 DEF Exchanges, TypeOK, RequestTypeOK
  <2>3. Exchanges'
    BY <2>2, ExchangesStep
  <2>4. TypeOK'
    BY <2>1, <2>3, TypeStep
  <2>5. WorkInv'
    BY <2>1, <2>2, WorkStep
  <2>6. AbortInv'
    BY <2>1, AbortStep
  <2>7. FileInv'
    BY <2>1, <2>2, FilesStep
  <2>8. CredentialsStayHome'
    BY <2>1, CredentialsStep
  <2> QED
    BY <2>3, <2>4, <2>5, <2>6, <2>7, <2>8 DEF Inv, Exchanges
<1> QED
  BY <1>1, <1>2, PTL DEF DownloadSpec

\* Every reachable state of a call is well typed.
THEOREM TypeCorrect == DownloadSpec => []TypeOK
<1>1. Inv => TypeOK
  BY DEF Inv
<1> QED
  BY <1>1, Invariance, PTL

\* The credentials never leave the caller's origin, nor https a chain that
\* began with it, over any number of redirects and attempts.
THEOREM CredentialsAtHome == DownloadSpec => []CredentialsStayHome
<1>1. Inv => CredentialsStayHome
  BY DEF Inv
<1> QED
  BY <1>1, Invariance, PTL

\* The hook fires once for each exchange that settles, in whatever order its
\* response, errors, timeout, abort and decoding come.
THEOREM HooksOnce == DownloadSpec => []HooksFireOnce
<1>1. Inv => HooksFireOnce
  BY DEF Inv, HookInv
<1> QED
  BY <1>1, Invariance, PTL

\* A call's requests are bounded by its retries and redirects, for any number
\* of both, and an abort leaves it one attempt at most.
THEOREM Bounded == DownloadSpec => []WorkBounded
<1>1. Inv => WorkBounded
  <2> SUFFICES ASSUME Inv PROVE WorkBounded
    OBVIOUS
  <2>1. /\ cur \in Nat /\ left \in Nat /\ attempt \in Nat /\ retries \in Nat
        /\ MaxRedirects \in Nat /\ attempt =< retries
    BY RequestConstants DEF Inv, TypeOK, RequestTypeOK, WorkInv, cur
  <2>2. (attempt + 1) * Budget =< (retries + 1) * Budget
    BY <2>1 DEF Budget
  <2>3. cur =< attempt * Budget + (MaxRedirects - left) + 1
    BY DEF Inv, WorkInv
  <2>4. attempt * Budget + (MaxRedirects - left) + 1 =< (attempt + 1) * Budget
    BY <2>1 DEF Budget
  <2>5. cur =< (retries + 1) * (MaxRedirects + 1)
    BY <2>1, <2>2, <2>3, <2>4 DEF Budget
  <2> QED
    BY <2>5 DEF WorkBounded, Inv, AbortInv
<1> QED
  BY <1>1, Invariance, PTL

\* The destination only ever gets a whole and verified file, exactly when the
\* call resolves, and no call that is over leaves a temporary file, but one that
\* rejects because it could not delete it.
THEOREM AllOrNothing == DownloadSpec => []FilesAllOrNothing
<1>1. Inv => FilesAllOrNothing
  BY DEF Inv, FileInv
<1> QED
  BY <1>1, Invariance, PTL

\* httpDownload implements AtomicReplace: whatever happens on the network or to
\* the temporary file, the destination changes in the step that resolves the
\* call, to a whole and verified file, and a settled call is left alone.
THEOREM ReplacesAtomically == DownloadSpec => ImplementsAtomicReplace
<1> DEFINE verified == [whole |-> TRUE, match |-> TRUE]
           saves == kind = "download"
           outcome == IF pc \in Over THEN pc ELSE "open"
           scratch == temp # None
           mapped == <<saves, outcome, dest, scratch>>
<1>1. DownloadInit => Replacement!Init
  BY DEF DownloadInit, Init, Over, Replacement!Init
<1>2. Inv /\ [DownloadNext]_vars => [Replacement!Next]_mapped
  <2> SUFFICES ASSUME TypeOK, Exchanges, WorkInv, FileInv, [DownloadNext]_vars
               PROVE  Replacement!Next \/ UNCHANGED mapped
    BY DEF Inv, Exchanges, TypeOK, RequestTypeOK
  <2> USE DEF Over
  <2>1. FileInv'
    BY FilesStep
  <2>2. kind' = kind
    BY Step, ExchangeFrame
    DEF Start, Ask, Follow, Return, Catch, Retry, Abort, FileStep, vars, httpVars
  <2>3. ASSUME pc \notin Over, pc' \notin Over, dest' = dest,
               kind = "download" \/ UNCHANGED temp
        PROVE  Replacement!Next \/ UNCHANGED mapped
    BY <2>2, <2>3 DEF Replacement!Next, Replacement!Work
  <2>4. ASSUME pc \notin Over, pc' = "rejected", dest' = dest
        PROVE  Replacement!Next
    BY <2>1, <2>2, <2>4
    DEF FileInv, FilesAllOrNothing, Replacement!Next, Replacement!Reject
  <2>5. ASSUME pc \in Over, UNCHANGED <<pc, temp, dest>>
        PROVE  UNCHANGED mapped
    BY <2>2, <2>5
  <2>9. ASSUME pc \notin Over, pc' = "undeleted", UNCHANGED <<temp, dest>>,
               temp # None
        PROVE  Replacement!Next
    BY <2>2, <2>9 DEF Replacement!Next, Replacement!LeaveBehind
  <2>10. ASSUME pc = "undeleted", pc' = "undeleted", temp' \in {temp, None},
                dest' = dest
         PROVE  Replacement!Next \/ UNCHANGED mapped
    BY <2>2, <2>10 DEF Replacement!Next, Replacement!Tidy
  <2>6. CASE (RequestStep \/ Abort) /\ UNCHANGED fileVars
    <3> USE DEF fileVars
    <3>1. CASE Start
      BY <2>3, <2>4, <2>6, <3>1 DEF Start, Ask
    <3>2. CASE Follow
      BY <2>3, <2>6, <3>2 DEF Follow, Open
    <3>3. CASE \/ RefuseRedirect \/ MalformedRedirect \/ Respond \/ End
               \/ \E i \in 1..cur : Decoded(i) \/ Fail(i) \/ FailUpload(i)
      BY <2>3, <2>5, <2>6, <3>3, ExchangeFrame, ExchangePlace
    <3>4. CASE Return
      <4>1. CASE pc' = "resolved"
        BY <2>1, <2>2, <2>6, <3>4, <4>1
        DEF Return, FileInv, FilesAllOrNothing, Replacement!Next,
            Replacement!Resolve
      <4> QED
        BY <2>3, <2>6, <3>4, <4>1 DEF Return
    <3>5. CASE Catch
      BY <2>3, <2>4, <2>6, <3>5 DEF Catch
    <3>6. CASE Retry
      BY <2>3, <2>6, <3>6 DEF Retry, Ask
    <3>7. CASE Abort
      BY <2>3, <2>6, <3>7 DEF Abort
    <3> QED
      BY <2>6, <3>1, <3>2, <3>3, <3>4, <3>5, <3>6, <3>7
      DEF RequestStep, ExchangeStep
  <2>7. CASE FileStep
    <3>1. CASE CleanupPartial
      BY <2>3, <2>5, <2>7, <2>10, <3>1
      DEF CleanupPartial, FileInv, FilesAllOrNothing
    <3>2. CASE Rename /\ pc' # "failed"
      <4>1. /\ pc = "rename" /\ kind = "download" /\ pc' = "resolved"
            /\ temp # None /\ temp.whole /\ match /\ temp' = None
            /\ dest' = [whole |-> temp.whole, match |-> match]
        BY <3>2 DEF Rename, FileInv, DownloadPlaces
      <4>2. temp \in File
        BY <4>1 DEF TypeOK
      <4>3. dest' = verified
        BY <4>1, <4>2 DEF File, TypeOK
      <4> QED
        BY <2>2, <4>1, <4>3 DEF Replacement!Next, Replacement!Resolve
    <3>3. CASE \/ Save \/ EndOfBody \/ Finish \/ SaveFails \/ Verify
               \/ Discard \/ (Rename /\ pc' = "failed")
      BY <2>3, <3>3
      DEF Save, EndOfBody, AfterBody, Finish, SaveFails, Verify, Discard,
          Rename, fileVars, FileInv, DownloadPlaces
    <3>4. CASE CatchDownload \/ Clean
      BY <2>3, <2>4, <2>9, <3>4
      DEF CatchDownload, CatchTo, Clean, AfterCatch, fileVars, FileInv,
          DownloadPlaces
    <3> QED
      BY <2>7, <3>1, <3>2, <3>3, <3>4 DEF FileStep
  <2>8. CASE UNCHANGED vars
    BY <2>8 DEF vars, httpVars, fileVars
  <2> QED
    BY <2>6, <2>7, <2>8 DEF DownloadNext
<1> QED
  BY <1>1, <1>2, Invariance, PTL
  DEF DownloadSpec, ImplementsAtomicReplace, Replacement!Spec, Replacement!vars

----------------------------------------------------------------------------
\* Who waits for an attempt waits for something that comes: however its
\* requests were redirected, failed or torn down, the last exchange of the call
\* has not settled and still has an event that would settle it.  No path through httpRequestAttempt drops its promise.
Answerable ==
  pc = "asking" =>
    /\ cur >= 1
    /\ ~exchanges[cur].settled
    /\ exchanges[cur].phase \in {"sent", "body", "decoding"}

\* The promise of httpRequestAttempt is settled on every path that ends its
\* request: on error, timeout, abort, a redirect refused or malformed.
THEOREM NoLostPromise == DownloadSpec => []Answerable
<1>1. Inv => Answerable
  <2> SUFFICES ASSUME Inv, pc = "asking" PROVE Answerable
    BY DEF Answerable
  <2>1. cur \in Nat /\ cur >= 1 /\ cur \in 1..cur
    BY DEF Inv, TypeOK, RequestTypeOK, OneUnsettled, cur
  <2>2. ~exchanges[cur].settled
    BY <2>1 DEF Inv, OneUnsettled
  <2>3. exchanges[cur].phase \in Phase
    <3>1. exchanges \in Seq(Exchange) /\ cur \in 1..Len(exchanges)
      BY <2>1 DEF Inv, TypeOK, RequestTypeOK, cur
    <3>2. exchanges[cur] \in Exchange
      BY <3>1
    <3> QED
      BY <3>2, Updates
  <2> QED
    BY <2>1, <2>2, <2>3 DEF Answerable, Inv, HookInv, Phase
<1> QED
  BY <1>1, Invariance, PTL

\* How far a call is from the end of its attempt, or of the redirect it is at.
Here ==
  CASE pc = "start" -> 13
    [] pc = "asking" -> (CASE exchanges[cur].phase = "sent" -> 12
                           [] exchanges[cur].phase = "body" -> 11
                           [] OTHER -> 10)
    [] pc = "answered" -> 9
    [] pc = "saving" -> 8
    [] pc = "draining" -> 7
    [] pc = "verify" -> 6
    [] pc \in {"discard", "rename"} -> 5
    [] pc = "failed" -> 4
    [] pc = "cleaning" -> 3
    [] pc = "waiting" -> 2
    [] OTHER -> 0

\* A step leaves the call where it is (an abort, a deletion that comes late, an
\* event of an exchange that has settled), or takes it on: within an exchange,
\* from an exchange to the next at the price of a redirect, or from an attempt
\* to the next at the price of a retry.
CallsWearOut ==
  \/ UNCHANGED <<pc, attempt, left, Here>>
  \/ attempt' = attempt /\ left' = left /\ Here' < Here
  \/ attempt' = attempt /\ left' = left - 1 /\ left > 0
  \/ attempt' = attempt + 1 /\ attempt < retries

\* The events of an exchange take the call on, or find it settled.
LEMMA ExchangeWear ==
  ASSUME Inv,
         \/ RefuseRedirect \/ MalformedRedirect \/ Respond \/ End
         \/ \E i \in 1..cur : Decoded(i) \/ Fail(i) \/ FailUpload(i)
  PROVE  UNCHANGED <<pc, Here>> \/ Here' < Here
<1> DEFINE s == exchanges
<1>1. /\ s \in Seq(Exchange) /\ cur = Len(s) /\ Exchanges
      /\ pc \in CallPlaces \cup DownloadPlaces
      /\ pc = "asking" => cur \in 1..cur
      /\ \A i \in 1..cur : ~s[i].settled <=> (i = cur /\ pc = "asking")
  BY DEF Inv, TypeOK, RequestTypeOK, OneUnsettled, Exchanges, cur
<1>2. ASSUME pc = "asking", pc' \in {"answered", "failed"} PROVE Here' < Here
  BY <1>2 DEF Here
<1>3. ASSUME NEW i \in 1..cur, NEW y, Becomes(i, y), i # cur \/ pc # "asking",
             pc' = pc
      PROVE  UNCHANGED <<pc, Here>>
  <2>1. cur' = cur /\ (pc = "asking" => exchanges'[cur] = exchanges[cur])
    BY <1>1, <1>3 DEF Becomes, cur
  <2> QED
    BY <1>3, <2>1 DEF Here
<1>4. CASE RefuseRedirect \/ MalformedRedirect
  BY <1>2, <1>4 DEF RefuseRedirect, MalformedRedirect, Open
<1>5. CASE Respond
  <2>1. CASE kind \in {"stream", "download"}
    BY <1>2, <1>5, <2>1 DEF Respond, Open
  <2>2. CASE kind \notin {"stream", "download"}
    <3>1. /\ pc = "asking" /\ pc' = pc /\ s[cur].phase = "sent"
          /\ s' = [s EXCEPT ![cur] = [s[cur] EXCEPT !.phase = "body"]]
      BY <1>5, <2>2 DEF Respond, Open, Becomes
    <3>2. cur' = cur /\ s'[cur].phase = "body"
      BY <1>1, <3>1 DEF cur, Exchange
    <3> QED
      BY <3>1, <3>2 DEF Here
  <2> QED
    BY <2>1, <2>2
<1>6. CASE End
  <2>1. /\ pc = "asking" /\ pc' = pc /\ s[cur].phase = "body"
        /\ s' = [s EXCEPT ![cur] = [s[cur] EXCEPT !.phase = "decoding"]]
    BY <1>6 DEF End, Open, Becomes
  <2>2. cur' = cur /\ s'[cur].phase = "decoding"
    BY <1>1, <2>1 DEF cur, Exchange
  <2> QED
    BY <2>1, <2>2 DEF Here
<1>7. ASSUME NEW i \in 1..cur, Decoded(i) \/ Fail(i) \/ FailUpload(i)
      PROVE  UNCHANGED <<pc, Here>> \/ Here' < Here
  <2>1. PICK y : Becomes(i, y)
    BY <1>7 DEF Decoded, Fail, FailUpload
  <2>2. pc' = IF s[i].settled THEN pc
              ELSE IF Decoded(i) THEN "answered" ELSE "failed"
    BY <1>7 DEF Decoded, Fail, AfterFailure, FailUpload
  <2>3. CASE s[i].settled
    BY <1>1, <1>3, <2>1, <2>2, <2>3
  <2>4. CASE ~s[i].settled
    BY <1>1, <1>2, <2>2, <2>4
  <2> QED
    BY <2>3, <2>4
<1> QED
  BY <1>4, <1>5, <1>6, <1>7

\* Every call is over after a bounded number of steps of its own, for any
\* number of retries and redirects: nothing that it does, and nothing that
\* happens to it, takes it back.
THEOREM CallsEnd ==
  DownloadSpec => /\ [](Here \in 0..13 /\ left \in Nat /\ attempt \in 0..retries)
                  /\ [][CallsWearOut]_vars
<1>1. Inv => Here \in 0..13 /\ left \in Nat /\ attempt \in 0..retries
  <2> SUFFICES ASSUME Inv
               PROVE  Here \in 0..13 /\ left \in Nat /\ attempt \in 0..retries
    OBVIOUS
  <2>1. left \in Nat /\ attempt \in 0..retries
    BY DEF Inv, TypeOK, RequestTypeOK, WorkInv
  <2>2. Here \in 0..13
    BY DEF Here
  <2> QED
    BY <2>1, <2>2
<1>2. Inv /\ [DownloadNext]_vars => CallsWearOut
  <2> SUFFICES ASSUME Inv, [DownloadNext]_vars PROVE CallsWearOut
    OBVIOUS
  <2>0. /\ TypeOK /\ Exchanges /\ WorkInv /\ FileInv
        /\ attempt \in Nat /\ left \in Nat
    BY DEF Inv, Exchanges, TypeOK, RequestTypeOK
  <2>1. CASE Start
    <3>1. CASE pc' = "rejected"
      BY <2>0, <2>1, <3>1 DEF Start, Ask, Here, CallsWearOut
    <3>2. CASE Ask
      <4>1. /\ pc = "start" /\ pc' = "asking" /\ attempt' = attempt
            /\ left' = left
        BY <2>0, <2>1, <3>2 DEF Start, Ask, WorkInv
      <4>2. Here = 13 /\ Here' \in {10, 11, 12}
        BY <4>1 DEF Here
      <4> QED
        BY <4>1, <4>2 DEF CallsWearOut
    <3> QED
      BY <2>1, <3>1, <3>2, StartSteps
  <2>2. CASE Follow
    BY <2>2 DEF Follow, LeftAfter, CallsWearOut
  <2>3. CASE \/ RefuseRedirect \/ MalformedRedirect \/ Respond \/ End
             \/ \E i \in 1..cur : Decoded(i) \/ Fail(i) \/ FailUpload(i)
    BY <2>3, ExchangeWear, ExchangeFrame DEF CallsWearOut
  <2>4. CASE Return
    BY <2>4 DEF Return, Here, CallsWearOut
  <2>5. CASE Catch
    BY <2>5 DEF Catch, Here, CallsWearOut
  <2>6. CASE Retry
    BY <2>0, <2>6 DEF Retry, WorkInv, CallsWearOut
  <2>7. CASE Abort \/ UNCHANGED vars \/ (FileStep /\ CleanupPartial)
    BY <2>7 DEF Abort, FileStep, CleanupPartial, vars, httpVars, Here, cur,
       CallsWearOut
  <2>8. CASE FileStep /\ ~CleanupPartial
    <3>1. UNCHANGED <<attempt, left>>
      BY <2>8 DEF FileStep
    <3>2. Here' < Here
      <4> USE DEF Here
      <4>1. CASE Save \/ EndOfBody \/ Finish \/ SaveFails
        BY <4>1 DEF Save, EndOfBody, AfterBody, Finish, SaveFails
      <4>2. CASE Verify \/ Discard \/ Rename
        BY <4>2 DEF Verify, Discard, Rename
      <4>3. CASE CatchDownload \/ Clean
        BY <4>3 DEF CatchDownload, CatchTo, Clean, AfterCatch
      <4> QED
        BY <2>8, <4>1, <4>2, <4>3 DEF FileStep
    <3> QED
      BY <3>1, <3>2 DEF CallsWearOut
  <2> QED
    BY <2>1, <2>2, <2>3, <2>4, <2>5, <2>6, <2>7, <2>8, Step
<1> QED
  BY <1>1, <1>2, Invariance, PTL DEF DownloadSpec
=============================================================================
