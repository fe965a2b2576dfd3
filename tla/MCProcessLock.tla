--------------------------- MODULE MCProcessLock ---------------------------
(***************************************************************************)
(* Instances of ProcessLock for TLC: process p1 makes the calls a1 and a2, *)
(* every other process makes one.                                          *)
(***************************************************************************)
EXTENDS ProcessLock, TLC

CONSTANTS a1, a2, b, d, p1, p2, p3

TwoByOne == (a1 :> p1) @@ (a2 :> p1) @@ (b :> p2)
OneEach == (a1 :> p1) @@ (b :> p2) @@ (d :> p3)
=============================================================================
