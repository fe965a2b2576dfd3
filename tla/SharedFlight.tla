---------------------------- MODULE SharedFlight ----------------------------
(***************************************************************************)
(* What memoizeAsync and getOrFetch promise alike: the concurrent callers  *)
(* of a key share one computation.  A call is given the outcome of one     *)
(* flight, its own or an earlier one of its key, and for one key no two    *)
(* flights are ever in the air together.                                   *)
(***************************************************************************)
CONSTANTS
  Call,        \* the calls; a flight is named after the call that starts it
  Key,         \* what the results are kept under
  None         \* no flight

VARIABLES
  keyOf,       \* the key of each call
  flying,      \* the flights whose function runs
  given        \* the flight each call was given, or None

vars == <<keyOf, flying, given>>

Init ==
  /\ keyOf \in [Call -> Key]
  /\ flying = {}
  /\ given = [c \in Call |-> None]

\* A call starts a flight, which may fail before it has taken off.
Start(c) ==
  /\ given[c] = None
  /\ \A f \in flying : keyOf[f] # keyOf[c]
  /\ given' = [given EXCEPT ![c] = c]
  /\ flying' \in {flying, flying \cup {c}}
  /\ UNCHANGED keyOf

\* A call is given a flight that another call has started for its key.
Join(c) ==
  /\ given[c] = None
  /\ \E f \in Call : /\ given[f] = f
                     /\ keyOf[f] = keyOf[c]
                     /\ given' = [given EXCEPT ![c] = f]
  /\ UNCHANGED <<keyOf, flying>>

\* A flight ends, well or badly.
Land(f) ==
  /\ f \in flying
  /\ flying' = flying \ {f}
  /\ UNCHANGED <<keyOf, given>>

Next == \E c \in Call : Start(c) \/ Join(c) \/ Land(c)

Spec == Init /\ [][Next]_vars
=============================================================================
