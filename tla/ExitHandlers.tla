---------------------------- MODULE ExitHandlers ----------------------------
(***************************************************************************)
(* onExit (events/exit): callbacks that run when the process ends, by      *)
(* process.exit, by running out of work or by a fatal signal.              *)
(*                                                                         *)
(* A process may hold several copies of the module (an ESM and a CommonJS  *)
(* build, another version, signal-exit itself).  Each copy has its own     *)
(* flag `loaded` and its own idea of the original process methods; all     *)
(* share one emitter, with its listener count and its record of events     *)
(* already emitted.  Everything here is synchronous: one step is one call  *)
(* or one event of the process.  What Node does with an error that a       *)
(* callback throws is left out: the process has ended then.  A callback    *)
(* may call process.exit; it does not call onExit or a remover (a callback *)
(* added by another one may never run, and one removed by another one      *)
(* still runs, since an EventEmitter calls a copy of its listeners).       *)
(***************************************************************************)
EXTENDS Integers, FiniteSets, SequencesExt

CONSTANTS
  Copy,       \* the copies of the module
  Handler,    \* the onExit calls that are ever made
  CopyOf,     \* the copy each is made with
  AlwaysLast, \* the calls with alwaysLast: listeners of 'afterexit'
  MayThrow,   \* the callbacks that may throw
  MayExit,    \* the callbacks that may call process.exit
  Node        \* the process methods of Node itself

ASSUME ExitConstants ==
  /\ IsFiniteSet(Copy)
  /\ CopyOf \in [Handler -> Copy]
  /\ AlwaysLast \subseteq Handler
  /\ MayThrow \subseteq Handler
  /\ MayExit \subseteq Handler
  /\ Node \notin Copy

VARIABLES
  original,   \* originalProcessEmit of each copy, None before its import
  hook,       \* the copy whose processEmit is process.emit, or Node
  loaded,     \* the copies whose flag `loaded` is set
  count,      \* emitter.count
  listeners,  \* the emitter's listeners of each event
  added,      \* the onExit calls made so far
  emitted,    \* emitter.emitted: the events that were emitted
  ran,        \* history: the callbacks that have run, in order
  other,      \* does anything else listen to the signal?
  ended,      \* how the process has ended, "no" before
  split       \* history: a copy unloaded while another stayed loaded

vars == <<original, hook, loaded, count, listeners, added, emitted, ran, other,
          ended, split>>

None == "none"

Event == {"exit", "afterexit"}

EventOf(h) == IF h \in AlwaysLast THEN "afterexit" ELSE "exit"

\* The callbacks that are registered.
Registered == ToSet(listeners["exit"]) \cup ToSet(listeners["afterexit"])

Init ==
  /\ original = [c \in Copy |-> None]
  /\ hook = Node
  /\ loaded = {}
  /\ count = 0
  /\ listeners = [e \in Event |-> << >>]
  /\ added = {}
  /\ emitted = {}
  /\ ran = << >>
  /\ other \in BOOLEAN
  /\ ended = "no"
  /\ split = FALSE

----------------------------------------------------------------------------
\* A copy is imported: it takes the methods it finds for the original ones.
Import(c) ==
  /\ ended = "no"
  /\ original[c] = None
  /\ original' = [original EXCEPT ![c] = hook]
  /\ UNCHANGED <<hook, loaded, count, listeners, added, emitted, ran, other,
                 ended, split>>

\* onExit, with load() if its copy is not loaded.
OnExit(h) ==
  LET c == CopyOf[h] IN
  /\ ended = "no"
  /\ original[c] # None
  /\ h \notin added
  /\ added' = added \cup {h}
  /\ listeners' = [listeners EXCEPT ![EventOf(h)] = Append(@, h)]
  /\ IF c \in loaded
       THEN UNCHANGED <<hook, loaded, count>>
       ELSE /\ loaded' = loaded \cup {c}
            /\ count' = count + 1
            /\ hook' = c
  /\ UNCHANGED <<original, emitted, ran, other, ended, split>>

\* emitter.count after unload().
CountKept(n) == n             \* mutant: unload forgets to uncount
CountAfter(n) == n - 1

\* Does a remove() unload, when these listeners are left?
NoExitListeners(left) == left["exit"] = << >>   \* mutant: asks for 'exit' only
Unlistened(left) == left["exit"] = << >> /\ left["afterexit"] = << >>

\* The remover of an onExit call, which may be called again.  When no listener
\* is left, it unloads its own copy, and only that one, which puts the methods
\* back that this copy found.
Unregister(h) ==
  LET c == CopyOf[h]
      e == EventOf(h) IN
  /\ ended = "no"
  /\ h \in added
  /\ \/ \E i \in DOMAIN listeners[e] :
          /\ listeners[e][i] = h
          /\ listeners' = [listeners EXCEPT ![e] = RemoveAt(@, i)]
     \/ h \notin Registered /\ UNCHANGED listeners
  /\ IF Unlistened(listeners') /\ c \in loaded
       THEN /\ loaded' = loaded \ {c}
            /\ count' = CountAfter(count)
            /\ hook' = original[c]
            /\ split' = (split \/ loaded # {c})
       ELSE UNCHANGED <<loaded, count, hook, split>>
  /\ UNCHANGED <<original, added, emitted, ran, other, ended>>

----------------------------------------------------------------------------
\* The callbacks that emit('exit') and emit('afterexit') call, in this order,
\* when the events in `done` have been emitted before.
Calls(done) ==
  (IF "exit" \in done THEN << >> ELSE listeners["exit"]) \o
  (IF "afterexit" \in done THEN << >> ELSE listeners["afterexit"])

\* The events that count as emitted once both have been.
Unrecorded(done) == done      \* mutant: emitted[event] is not set
RecordedAs(done) == {"exit", "afterExit"}   \* mutant: a misspelt event
Recorded(done) == Event

\* Every way out emits more than once: processEmit and processReallyExit both
\* do, and so do the interceptors or the signal listeners of every copy.
Rounds == Calls(emitted) \o Calls(Recorded(emitted))

\* The places at which a sequence of callbacks may come to its end.
Stops(s) == {Len(s)} \cup {i \in 1..Len(s) : s[i] \in MayThrow \cup MayExit}

\* The callbacks that still run when one of them calls process.exit: those of
\* its event have been recorded as emitted and are cut off, those of 'afterexit'
\* are called by the interceptor, if there is one.
After(h, intercepted) ==
  IF intercepted /\ h \notin AlwaysLast THEN listeners["afterexit"] ELSE << >>

\* The process ends after the callbacks, on the error of the first that throws,
\* or because one of them calls process.exit.
EndsAfterCallbacks(how, intercepted) ==
  /\ emitted' = Recorded(emitted)
  /\ \/ ran' = Rounds /\ ended' = how
     \/ \E i \in 1..Len(Rounds) :
          /\ Rounds[i] \in MayThrow
          /\ ran' = SubSeq(Rounds, 1, i)
          /\ ended' = "error"
     \/ \E i \in 1..Len(Rounds) :
          LET rest == After(Rounds[i], intercepted) IN
          /\ Rounds[i] \in MayExit
          /\ \E k \in Stops(rest) :
               ran' = SubSeq(Rounds, 1, i) \o SubSeq(rest, 1, k)
          /\ ended' = "cut"

\* process.exit, or nothing left to do: process.emit('exit').  Without an
\* interceptor in place nobody hears of it.
Exit ==
  /\ ended = "no"
  /\ IF hook # Node
       THEN EndsAfterCallbacks("exit", TRUE)
       ELSE ended' = "exit" /\ UNCHANGED <<emitted, ran>>
  /\ UNCHANGED <<original, hook, loaded, count, listeners, added, other, split>>

\* A fatal signal.  When only the copies listen to it, every one of them
\* unloads, emits and sends it again, which ends the process; the callbacks run
\* under the methods that the first one has put back.  When something else
\* listens too, that decides.  When nobody listens, the process dies.
ListenersOf == Cardinality(loaded) + (IF other THEN 1 ELSE 0)

Signal ==
  /\ ended = "no"
  /\ \/ /\ ListenersOf = count
        /\ \E c \in loaded : EndsAfterCallbacks("signal", original[c] # Node)
     \/ ListenersOf = 0 /\ ended' = "killed" /\ UNCHANGED <<emitted, ran>>
  /\ UNCHANGED <<original, hook, loaded, count, listeners, added, other, split>>

\* Something else starts or stops listening to the signal.
Other ==
  /\ ended = "no"
  /\ other' = ~other
  /\ UNCHANGED <<original, hook, loaded, count, listeners, added, emitted, ran,
                 ended, split>>

Next ==
  \/ \E c \in Copy : Import(c)
  \/ \E h \in Handler : OnExit(h) \/ Unregister(h)
  \/ Exit
  \/ Signal
  \/ Other

Spec == Init /\ [][Next]_vars

----------------------------------------------------------------------------
\* Type invariant.
TypeOK ==
  /\ original \in [Copy -> Copy \cup {Node, None}]
  /\ hook \in Copy \cup {Node}
  /\ loaded \subseteq Copy
  /\ count \in Int
  /\ listeners \in [Event -> Seq(Handler)]
  /\ added \subseteq Handler
  /\ emitted \subseteq Event
  /\ ran \in Seq(Handler)
  /\ other \in BOOLEAN
  /\ ended \in {"no", "exit", "signal", "error", "cut", "killed"}
  /\ split \in BOOLEAN

\* onExit: "Register a callback to run on process exit or signal."  No callback
\* that is still registered is missing when the process ends, unless another one
\* threw or called process.exit, or the process exits after a copy unloaded
\* while another was loaded: that puts Node's own methods back and leaves the
\* other copy without interceptor.
EveryCallbackRuns ==
  ended = "signal" \/ ended = "killed" \/ (ended = "exit" /\ ~split) =>
    Registered \subseteq ToSet(ran)

\* However many copies and events report the end, a callback that exits
\* included, each runs at most once, one removed before the end never, and those
\* with alwaysLast after all others.
OnceAndInOrder ==
  /\ \A i, j \in 1..Len(ran) : ran[i] = ran[j] => i = j
  /\ ToSet(ran) \subseteq Registered
  /\ \A i, j \in 1..Len(ran) : i < j /\ ran[i] \in AlwaysLast => ran[j] \in AlwaysLast

\* load: "It's important so that we can count the correct number of listeners
\* on signals, and don't wait for the other one to handle it instead of us."
\* A signal that only the copies listen to ends the process, and one that
\* something else listens to does not.
SignalsDecided ==
  ended = "no" /\ loaded # {} => (ListenersOf = count <=> ~other)
=============================================================================
