---------------------------- MODULE MCTtlCache ----------------------------
(***************************************************************************)
(* Instances of TtlCache for TLC: any mixture of methods, and an old entry *)
(* that is live, or from a clock that was ahead; with Ttl = 0 one tick of  *)
(* the clock is longer than any entry lives.                               *)
(***************************************************************************)
EXTENDS TtlCache
=============================================================================
