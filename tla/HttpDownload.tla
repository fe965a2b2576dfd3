---------------------------- MODULE HttpDownload ----------------------------
(***************************************************************************)
(* httpDownload and httpDownloadAttempt (http-request/download.mts) on top *)
(* of HttpRequest: a response is written to a temporary file, verified and *)
(* renamed to the destination, and a failed attempt is made again.         *)
(*                                                                         *)
(* The temporary path is random and used by one call only, but by all its  *)
(* attempts: the deletion that a failed write starts is not awaited and    *)
(* may take effect during any later attempt.  A deletion may fail; that    *)
(* safeDelete resolves without deleting, once the process's shared abort   *)
(* signal is aborted, is left out.                                         *)
(***************************************************************************)
EXTENDS HttpRequest

CONSTANT None      \* no such file

\* A temporary file, with the attempt that opened it; a file that was renamed.
File == [by : Nat, whole : BOOLEAN]
Result == [whole : BOOLEAN, match : BOOLEAN]

ASSUME NoneIsNoFile == None \notin File \cup Result

VARIABLES
  temp,      \* the temporary file: the attempt that opened it, is it whole?
  match,     \* do the digests of the response match those expected?
  dest,      \* what has been renamed to the destination, None at first
  cleanups   \* the unawaited deletions of the temporary file that are due

fileVars == <<temp, match, dest, cleanups>>
vars == <<httpVars, fileVars>>

\* "saving": the response is written; "draining": it has ended, the last
\* writes are pending; "verify", "discard", "rename": what follows 'finish';
\* "cleaning": the catch block deletes the temporary file; "undeleted": it
\* could not, and the call has rejected with the error of the deletion.
DownloadPlaces == {"saving", "draining", "verify", "discard", "rename",
                   "cleaning", "undeleted"}

----------------------------------------------------------------------------
\* The response is opened: an error status throws, otherwise
\* createWriteStream creates or truncates the temporary file.
Save ==
  /\ pc = "answered"
  /\ kind = "download"
  /\ IF ok THEN pc' = "saving" /\ temp' = [by |-> attempt, whole |-> FALSE]
           ELSE pc' = "failed" /\ UNCHANGED temp
  /\ UNCHANGED <<match, dest, cleanups>>

\* The attempt resolves at 'finish' of the file, not at 'end' of the response.
SettleOnEnd == "verify"       \* mutant: resolves when the response ends
AfterBody == "draining"

EndOfBody ==
  /\ pc = "saving"
  /\ match' \in BOOLEAN
  /\ pc' = AfterBody
  /\ UNCHANGED <<temp, dest, cleanups>>

Finish ==
  /\ pc = "draining"
  /\ pc' = "verify"
  /\ temp' = IF temp # None THEN [temp EXCEPT !.whole = TRUE] ELSE None
  /\ UNCHANGED <<match, dest, cleanups>>

\* The response breaks off or the file cannot be written: cleanupPartial
\* starts a deletion and the attempt rejects without awaiting it.
SaveFails ==
  /\ pc \in {"saving", "draining"}
  /\ cleanups' = cleanups + 1
  /\ pc' = "failed"
  /\ UNCHANGED <<temp, match, dest>>

\* A deletion takes effect, on whatever is at the temporary path by now, or
\* fails, which cleanupPartial ignores.
CleanupPartial ==
  /\ cleanups > 0
  /\ cleanups' = cleanups - 1
  /\ temp' \in {temp, None}
  /\ UNCHANGED <<pc, match, dest>>

\* sha256 and integrity of what was received, against what the caller expects.
Verify ==
  /\ pc = "verify"
  /\ pc' = IF match THEN "rename" ELSE "discard"
  /\ UNCHANGED fileVars

\* The temporary file is deleted and the call throws.  safeDelete throws as well
\* for a path that it does not allow, or for a file that is busy or protected.
Discard ==
  /\ pc = "discard"
  /\ temp' \in {temp, None}
  /\ pc' = "failed"
  /\ UNCHANGED <<match, dest, cleanups>>

\* rename, which fails when the temporary file has gone, and may fail anyway.
Rename ==
  /\ pc = "rename"
  /\ \/ /\ temp # None
        /\ dest' = [whole |-> temp.whole, match |-> match]
        /\ temp' = None
        /\ pc' = "resolved"
     \/ pc' = "failed" /\ UNCHANGED <<temp, dest>>
  /\ UNCHANGED <<match, cleanups>>

\* Where the catch block goes after its cleanup: onwards to the delay, or out
\* of the loop after the last attempt.
FallsThrough ==                        \* mutant: no throw after the loop
  IF attempt = retries THEN "ended" ELSE "waiting"
AfterCatch == IF attempt = retries THEN "rejected" ELSE "waiting"

\* The catch block first looks whether there is a temporary file to delete.
CatchTo == IF temp # None THEN "cleaning" ELSE AfterCatch

CatchDownload ==
  /\ pc = "failed"
  /\ kind = "download"
  /\ pc' = CatchTo
  /\ UNCHANGED fileVars

\* Its deletion is not caught: when it fails, the loop and the call end there.
Clean ==
  /\ pc = "cleaning"
  /\ \/ temp' = None /\ pc' = AfterCatch
     \/ temp # None /\ UNCHANGED temp /\ pc' = "undeleted"
  /\ UNCHANGED <<match, dest, cleanups>>

FileStep ==
  /\ \/ Save \/ EndOfBody \/ Finish \/ SaveFails \/ CleanupPartial
     \/ Verify \/ Discard \/ Rename \/ CatchDownload \/ Clean
  /\ UNCHANGED <<kind, retries, url, attempt, exchanges, left, at, creds, ok,
                 abortedIn>>

DownloadInit ==
  /\ Init
  /\ temp = None
  /\ match = FALSE
  /\ dest = None
  /\ cleanups = 0

DownloadNext ==
  \/ RequestStep /\ UNCHANGED fileVars
  \/ Abort /\ UNCHANGED fileVars
  \/ FileStep

DownloadSpec == DownloadInit /\ [][DownloadNext]_vars

\* Every delay, file operation and decoding ends, and so does every request.
\* The latter is an assumption about the server: it answers, breaks off, ends
\* its body or falls silent.  The timeout of a request only ends a silence; a
\* server that goes on sending, byte by byte, would keep a call open for ever.
FairSpec ==
  DownloadSpec /\ WF_vars((RequestStep /\ UNCHANGED fileVars) \/ FileStep)

----------------------------------------------------------------------------
\* Type invariant.
TypeOK ==
  /\ RequestTypeOK
  /\ pc \in CallPlaces \cup DownloadPlaces
  /\ temp \in File \cup {None}
  /\ match \in BOOLEAN
  /\ dest \in Result \cup {None}
  /\ cleanups \in Nat

\* httpDownload: "prevents partial/corrupted files at the destination path if
\* download fails, and preserves any original file until download succeeds".
\* The destination is replaced exactly when the call resolves, by a file that
\* is whole and verified, whatever an earlier attempt's deletion still does;
\* and a call that is over leaves no temporary file, however it ended, unless
\* it rejects because the deletion of that file has failed.
FilesAllOrNothing ==
  /\ dest # None => dest.whole /\ dest.match /\ pc = "resolved"
  /\ kind = "download" /\ pc = "resolved" => dest # None
  /\ pc \in {"resolved", "rejected"} => temp = None

\* httpDownload implements AtomicReplace, and the other kinds of call settle
\* once: the destination changes in the step that resolves the call and at no
\* other time, and neither a late event of an exchange nor a deletion that an
\* earlier attempt left behind changes anything of a call that has settled, but
\* for a temporary file that the call itself was unable to delete.
Replacement ==
  INSTANCE AtomicReplace WITH
    Original <- None,
    Verified <- [whole |-> TRUE, match |-> TRUE],
    saves <- kind = "download",
    outcome <- IF pc \in Over THEN pc ELSE "open",
    target <- dest,
    scratch <- temp # None
ImplementsAtomicReplace == Replacement!Spec

\* Every call settles: on every path a request that ends settles its attempt,
\* and an attempt that fails is followed by boundedly many others.
EveryCallSettles == <>(pc \in Over)
=============================================================================
