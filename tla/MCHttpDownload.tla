-------------------------- MODULE MCHttpDownload --------------------------
(***************************************************************************)
(* The instance of HttpDownload for TLC: every kind of call.               *)
(***************************************************************************)
EXTENDS HttpDownload, TLC
=============================================================================
