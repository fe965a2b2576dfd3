---------------------------- MODULE MCDlxBinary ----------------------------
(***************************************************************************)
(* Instances of DlxBinary for TLC.  In the run dlx, a dlxBinary call of    *)
(* process p1 and a downloadBinary call of p2 survive p3, which makes a    *)
(* downloadBinary and a cleanDlxCache call and may die: two processes can  *)
(* reclaim its lock.  It takes v2 for the empty body.                      *)
(***************************************************************************)
EXTENDS DlxBinary, TLC

CONSTANTS runs, gets, takes, cleans, p1, p2, p3, v1, v2

Owners == (runs :> p1) @@ (gets :> p2) @@ (takes :> p3) @@ (cleans :> p3)
Functions == (runs :> "run") @@ (gets :> "download") @@ (takes :> "download")
             @@ (cleans :> "clean")
\* One call pins v1, one pins nothing, one pins v2.
Pins == (runs :> v1) @@ (gets :> None) @@ (takes :> v2) @@ (cleans :> None)

\* The same as four downloadBinary calls.
GetsOnly == [c \in Call |-> "download"]
=============================================================================
