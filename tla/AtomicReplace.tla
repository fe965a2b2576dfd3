--------------------------- MODULE AtomicReplace ---------------------------
(***************************************************************************)
(* What a download promises: "prevents partial/corrupted files at the      *)
(* destination path if download fails, and preserves any original file     *)
(* until download succeeds".  The destination is replaced in the very step *)
(* in which the call resolves, by verified content, and by nothing else; a *)
(* call that has settled leaves no scratch file and stays as it is,        *)
(* whatever still happens around it.  The one exception is a call that     *)
(* fails because it cannot delete its scratch file.                        *)
(***************************************************************************)
CONSTANTS
  Original,    \* what the destination holds before the call
  Verified     \* content that is whole and has the digests expected

VARIABLES
  saves,       \* is this a call that saves to a destination?
  outcome,     \* "open" until the call settles
  target,      \* what the destination holds
  scratch      \* is there a scratch file?

vars == <<saves, outcome, target, scratch>>

Init ==
  /\ saves \in BOOLEAN
  /\ outcome = "open"
  /\ target = Original
  /\ scratch = FALSE

\* Scratch files come and go while the call is open.
Work ==
  /\ outcome = "open"
  /\ saves
  /\ scratch' \in BOOLEAN
  /\ UNCHANGED <<saves, outcome, target>>

Resolve ==
  /\ outcome = "open"
  /\ outcome' = "resolved"
  /\ target' = IF saves THEN Verified ELSE target
  /\ scratch' = FALSE
  /\ UNCHANGED saves

Reject ==
  /\ outcome = "open"
  /\ outcome' = "rejected"
  /\ scratch' = FALSE
  /\ UNCHANGED <<saves, target>>

\* The scratch file cannot be deleted, and the call fails with that error ...
LeaveBehind ==
  /\ outcome = "open"
  /\ scratch
  /\ outcome' = "undeleted"
  /\ UNCHANGED <<saves, target, scratch>>

\* ... even if the file goes later.
Tidy ==
  /\ outcome = "undeleted"
  /\ scratch' = FALSE
  /\ UNCHANGED <<saves, outcome, target>>

Next == Work \/ Resolve \/ Reject \/ LeaveBehind \/ Tidy

Spec == Init /\ [][Next]_vars
=============================================================================
