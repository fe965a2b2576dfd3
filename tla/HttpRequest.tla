---------------------------- MODULE HttpRequest ----------------------------
(***************************************************************************)
(* httpRequest and httpRequestAttempt (http-request/request.mts and        *)
(* request-attempt.mts): one call, its attempts, and the exchanges (one    *)
(* node:http request each) that an attempt and its redirects make.         *)
(*                                                                         *)
(* Everything runs on one JavaScript thread; what is concurrent are the    *)
(* events: responses, errors and timeouts of any exchange made so far, the *)
(* decoding of a body, an abort by the caller.  An exchange settles the    *)
(* promise of its attempt once, and each event finds it settled or not.    *)
(*                                                                         *)
(* An origin is a scheme and a host; of the hosts it only matters whether  *)
(* it is the one the caller named, and of the headers whether the          *)
(* caller's credentials are among them.                                    *)
(***************************************************************************)
EXTENDS Integers, Sequences

CONSTANTS
  MaxRetries,    \* bound on options.retries
  MaxRedirects,  \* options.maxRedirects
  Kinds,         \* how a call may be made, see Kind
  MayAbort       \* may the caller abort the signal it passed?

\* "buffered": the body is read; "stream": the response is handed over
\* unread; "upload": the request has a stream as its body; "download": the
\* attempts are those of httpDownload, which streams and passes no signal.
Kind == {"buffered", "stream", "upload", "download"}

ASSUME RequestConstants ==
  /\ MaxRetries \in Nat
  /\ MaxRedirects \in Nat
  /\ Kinds \subseteq Kind
  /\ MayAbort \in BOOLEAN

VARIABLES
  kind,       \* the kind of the call
  retries,    \* options.retries
  url,        \* the origin of the url the caller gave
  pc,         \* where the call stands
  attempt,    \* the attempts made before the current one
  exchanges,  \* every exchange made so far, the current one last
  left,       \* maxRedirects of the current exchange
  at,         \* the origin of the current exchange
  creds,      \* does the current exchange carry the caller's credentials?
  ok,         \* is the status of the last final response 2xx?
  abortedIn   \* the attempt during which the signal was aborted, or -1

httpVars == <<kind, retries, url, pc, attempt, exchanges, left, at, creds, ok,
              abortedIn>>

----------------------------------------------------------------------------
Origin == [tls : BOOLEAN, home : BOOLEAN]

\* Where an exchange stands.  "sent": waits for the headers; "body": reads the
\* body; "decoding": decodeBody is pending; "spent": its outcome is known and
\* the request can still fail; "bad": spent, after a malformed redirect.
Phase == {"sent", "body", "decoding", "spent", "bad", "closed"}

Exchange == [phase : Phase, settled : BOOLEAN, reports : Nat, signal : BOOLEAN]

\* Where the call stands.  "asking": awaits an attempt; "answered", "failed":
\* the attempt has settled; "waiting": in the delay before the next one; the
\* places of a download are those of HttpDownload.
CallPlaces == {"start", "asking", "answered", "failed", "waiting", "resolved",
               "rejected"}
Over == {"resolved", "rejected", "undeleted"}

cur == Len(exchanges)
Aborted == abortedIn >= 0

\* A new exchange; the hook onRequest fires and the request is sent.
New(signal) == [phase |-> "sent", settled |-> FALSE, reports |-> 0,
                signal |-> signal]

\* What becomes of exchange i.
Becomes(i, x) == exchanges' = [exchanges EXCEPT ![i] = x]

\* rejectOnce of an exchange: the first outcome counts and is reported to the
\* hook onResponse.
RejectedSilently(x) == [x EXCEPT !.settled = TRUE]   \* mutant: no emitResponse
Rejected(x) == IF x.settled THEN x
               ELSE [x EXCEPT !.settled = TRUE, !.reports = @ + 1]

\* The direct reject of a redirect that cannot be followed, after the report.
RejectedThrough(x) ==
  Rejected([x EXCEPT !.reports = @ + 1])             \* mutant: rejectOnce
Refused(x) == [x EXCEPT !.settled = TRUE, !.reports = @ + 1]

Init ==
  /\ kind \in Kinds
  /\ retries \in 0..MaxRetries
  /\ url \in [tls : BOOLEAN, home : {TRUE}]
  /\ pc = "start"
  /\ attempt = 0
  /\ exchanges = << >>
  /\ left = MaxRedirects
  /\ at = url
  /\ creds = FALSE
  /\ ok = FALSE
  /\ abortedIn = -1

----------------------------------------------------------------------------
\* One more attempt asks the caller's url, with the caller's headers.
Ask ==
  /\ pc' = "asking"
  /\ exchanges' = Append(exchanges, New(kind # "download"))
  /\ left' = MaxRedirects
  /\ at' = url
  /\ creds' = TRUE
  /\ UNCHANGED <<kind, retries, url, ok, abortedIn>>

\* The call is made; a stream cannot be sent twice, so it excludes retries.
Start ==
  /\ pc = "start"
  /\ IF kind = "upload" /\ retries > 0
       THEN /\ pc' = "rejected"
            /\ UNCHANGED <<kind, retries, url, exchanges, left, at, creds, ok,
                           abortedIn>>
       ELSE Ask
  /\ UNCHANGED attempt

\* The server, or the network, can still move the current exchange on: its
\* request was not torn down by the signal.
Open(phase) ==
  /\ pc = "asking"
  /\ exchanges[cur].phase = phase
  /\ ~(Aborted /\ exchanges[cur].signal)

\* The headers of a redirect keep the credentials only within an origin.  The
\* foreign hosts need no telling apart: they are gone at the first of them.
CredsKept(target) == creds           \* mutant: headers, not redirectHeaders
CredsAfter(target) == creds /\ at = target

\* maxRedirects of the request that follows a redirect.
LeftUncounted == left                       \* mutant: maxRedirects
LeftAfter == left - 1

\* A redirect is followed: the promise of the attempt adopts that of a new
\* exchange, which is made without the signal.
Follow ==
  /\ Open("sent")
  /\ kind # "upload"
  /\ left > 0
  /\ \E target \in Origin :
       /\ at.tls => target.tls
       /\ at' = target
       /\ creds' = CredsAfter(target)
  /\ exchanges' = Append([exchanges EXCEPT
                            ![cur] = [Refused(@) EXCEPT !.phase = "spent"]],
                         New(FALSE))
  /\ left' = LeftAfter
  /\ UNCHANGED <<kind, retries, url, pc, attempt, ok, abortedIn>>

\* A redirect too many, to another scheme than http(s), or from https to http.
RefuseRedirect ==
  /\ Open("sent")
  /\ kind # "upload"
  /\ Becomes(cur, [Refused(exchanges[cur]) EXCEPT !.phase = "spent"])
  /\ pc' = "failed"
  /\ UNCHANGED <<kind, retries, url, attempt, left, at, creds, ok, abortedIn>>

\* A Location that does not parse makes the callback throw after its report;
\* the error goes through rejectOnce, which reports again.
MalformedRedirect ==
  /\ Open("sent")
  /\ kind # "upload"
  /\ left > 0
  /\ LET seen == [exchanges[cur] EXCEPT !.phase = "bad", !.reports = @ + 1] IN
       Becomes(cur, Rejected(seen))
  /\ pc' = "failed"
  /\ UNCHANGED <<kind, retries, url, attempt, left, at, creds, ok, abortedIn>>

\* The headers of a final response arrive.  A streamed response is the answer;
\* of any other the body is read first.
Respond ==
  /\ Open("sent")
  /\ ok' \in BOOLEAN
  /\ IF kind \in {"stream", "download"}
       THEN /\ Becomes(cur, [Refused(exchanges[cur]) EXCEPT !.phase = "spent"])
            /\ pc' = "answered"
       ELSE /\ Becomes(cur, [exchanges[cur] EXCEPT !.phase = "body"])
            /\ UNCHANGED pc
  /\ UNCHANGED <<kind, retries, url, attempt, left, at, creds, abortedIn>>

\* The body is complete and decodeBody starts.
End ==
  /\ Open("body")
  /\ Becomes(cur, [exchanges[cur] EXCEPT !.phase = "decoding"])
  /\ UNCHANGED <<kind, retries, url, pc, attempt, left, at, creds, ok,
                 abortedIn>>

\* decodeBody of exchange i settles: the response is reported, and resolves
\* the promise if nothing else has settled it.
Decoded(i) ==
  LET x == exchanges[i] IN
  /\ x.phase = "decoding"
  /\ Becomes(i, [x EXCEPT !.phase = "closed", !.settled = TRUE,
                          !.reports = @ + 1])
  /\ pc' = IF x.settled THEN pc ELSE "answered"
  /\ UNCHANGED <<kind, retries, url, attempt, left, at, creds, ok, abortedIn>>

\* Where the call is once exchange x has failed: the first outcome of the
\* current exchange is that of the attempt.
OnlyDestroyed(x) == pc               \* mutant: destroy() without rejectOnce
AfterFailure(x) == IF x.settled THEN pc ELSE "failed"

\* Exchange i fails: an error of the request or the response, its timeout, a
\* body over maxResponseSize, or the abort of its signal.  What happens to a
\* request whose outcome is known has no effect, however often it happens.
Fail(i) ==
  LET x == exchanges[i] IN
  /\ x.phase \in {"sent", "body", "spent", "bad"}
  /\ Becomes(i, [Rejected(x) EXCEPT
                   !.phase = IF x.settled THEN @ ELSE "closed"])
  /\ pc' = AfterFailure(x)
  /\ UNCHANGED <<kind, retries, url, attempt, left, at, creds, ok, abortedIn>>

\* The stream that is the request's body fails.  It may do so after the
\* response has come; a body that is being decoded is still reported then.
FailUpload(i) ==
  LET x == exchanges[i] IN
  /\ kind = "upload"
  /\ ~x.settled
  /\ Becomes(i, [Rejected(x) EXCEPT
                   !.phase = IF @ = "decoding" THEN @ ELSE "closed"])
  /\ pc' = "failed"
  /\ UNCHANGED <<kind, retries, url, attempt, left, at, creds, ok, abortedIn>>

----------------------------------------------------------------------------
\* httpRequest returns the response, or throws for its status when the caller
\* asked for that.
Return ==
  /\ pc = "answered"
  /\ kind # "download"
  /\ \/ pc' = "resolved"
     \/ ~ok /\ pc' = "failed"
  /\ UNCHANGED <<kind, retries, url, attempt, exchanges, left, at, creds, ok,
                 abortedIn>>

\* httpRequest catches the error.  It stops after the last attempt, after an
\* abort and when onRetry says so; otherwise it delays another attempt.
RetriesAborted == attempt < retries                \* mutant: signal not asked
Retries == attempt < retries /\ ~Aborted

Catch ==
  /\ pc = "failed"
  /\ kind # "download"
  /\ \/ pc' = "rejected"
     \/ Retries /\ pc' = "waiting"
  /\ UNCHANGED <<kind, retries, url, attempt, exchanges, left, at, creds, ok,
                 abortedIn>>

\* The delay ends, whether or not the signal has been aborted meanwhile.
Retry ==
  /\ pc = "waiting"
  /\ attempt' = attempt + 1
  /\ Ask

\* The caller aborts.
Abort ==
  /\ MayAbort
  /\ kind # "download"
  /\ ~Aborted
  /\ pc \notin Over
  /\ abortedIn' = attempt
  /\ UNCHANGED <<kind, retries, url, pc, attempt, exchanges, left, at, creds,
                 ok>>

ExchangeStep ==
  \/ Follow \/ RefuseRedirect \/ MalformedRedirect \/ Respond \/ End
  \/ \E i \in 1..cur : Decoded(i) \/ Fail(i) \/ FailUpload(i)

RequestStep == Start \/ ExchangeStep \/ Return \/ Catch \/ Retry

----------------------------------------------------------------------------
\* Type invariant of the request.
RequestTypeOK ==
  /\ kind \in Kinds
  /\ retries \in 0..MaxRetries
  /\ url \in Origin
  /\ attempt \in Nat
  /\ exchanges \in Seq(Exchange)
  /\ left \in Nat
  /\ at \in Origin
  /\ creds \in BOOLEAN
  /\ ok \in BOOLEAN
  /\ abortedIn \in Int

\* "Strip auth/session headers on cross-origin redirects": the caller's
\* credentials only ever go to the origin the caller named, not even back to
\* it over another scheme, and a retry starts with them again.  A chain that
\* began with https stays on it.
CredentialsStayHome ==
  /\ creds => at = url
  /\ url.tls => at.tls

\* httpRequestAttempt: "hooks, which fire once per attempt".  onResponse fires
\* exactly once for every exchange that has settled, whichever of its events
\* come later, with two exceptions: a malformed Location is reported twice,
\* and so is a response whose upload fails while it is decoded.
HooksFireOnce ==
  \A i \in 1..cur :
    LET x == exchanges[i] IN
    /\ x.settled => x.reports >= 1
    /\ x.phase # "bad" /\ kind # "upload" =>
         x.reports = IF x.settled THEN 1 ELSE 0

\* "Aborts are NOT retried", and an attempt follows at most maxRedirects
\* redirects.  A call makes at most (retries + 1) * (maxRedirects + 1)
\* requests; once it is aborted, it makes one more attempt at most, when the
\* abort comes during the delay before it.
WorkBounded ==
  /\ cur =< (retries + 1) * (MaxRedirects + 1)
  /\ Aborted => attempt =< abortedIn + 1
=============================================================================
