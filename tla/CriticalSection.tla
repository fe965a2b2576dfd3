-------------------------- MODULE CriticalSection --------------------------
(***************************************************************************)
(* What ProcessLock promises its callers: the callbacks of withLock run    *)
(* one at a time, and the callback of a call runs at most once.            *)
(***************************************************************************)
CONSTANT Call   \* the withLock calls

VARIABLES
  inside,       \* the calls whose callback runs
  entered       \* the calls whose callback has started

Init == inside = {} /\ entered = {}

Enter(c) ==
  /\ inside = {}
  /\ c \notin entered
  /\ inside' = {c}
  /\ entered' = entered \cup {c}

\* The callback settles, or its process exits.
Leave ==
  /\ inside' = {}
  /\ UNCHANGED entered

Next == (\E c \in Call : Enter(c)) \/ Leave

Spec == Init /\ [][Next]_<<inside, entered>>
=============================================================================
