--------------------------- MODULE MCExitHandlers ---------------------------
(***************************************************************************)
(* An instance of ExitHandlers for TLC: two copies, of which one makes two *)
(* calls of onExit and the other two.                                      *)
(***************************************************************************)
EXTENDS ExitHandlers

CONSTANTS esm, cjs, h1, h2, h3, h4

Owners == [h \in Handler |-> IF h \in {h1, h2} THEN esm ELSE cjs]
=============================================================================
