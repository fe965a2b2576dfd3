--------------------------- MODULE MCPromiseQueue ---------------------------
(***************************************************************************)
(* An instance of PromiseQueue for TLC: five tasks, two slots and room for *)
(* two waiting tasks, so that tasks are dropped, queued and cancelled; one *)
(* caller of onIdle, whose wait several rounds of tasks may prolong.       *)
(***************************************************************************)
EXTENDS PromiseQueue
=============================================================================
