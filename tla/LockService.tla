--------------------------- MODULE LockService ---------------------------
(***************************************************************************)
(* What the lock manager promises its callers, without queues of granted   *)
(* requests, counters, signals and threads.                                *)
(*                                                                         *)
(* A request holds a level, and may want another one.  A step belongs to   *)
(* at most one request, the actor, together with the requests of processes *)
(* found dead; every other request can only be given what it wants.        *)
(* Requests that hold nothing are served in the order in which they came.  *)
(***************************************************************************)
EXTENDS LockModes

CONSTANTS
  Requests, Locks,
  lock_of,      \* the lock of a request
  Processes     \* sets of requests that may disappear together

VARIABLES
  held,         \* per request, the level granted
  want,         \* per request, the level it waits for, or LCK_none
  ahead         \* per request that holds nothing and waits, those before it in line

serviceVars == <<held, want, ahead>>

Init ==
  /\ held = [r \in Requests |-> LCK_none]
  /\ want = [r \in Requests |-> LCK_none]
  /\ ahead = [r \in Requests |-> {}]

\* Request r is given what it has been waiting for.
Granted(r) == want[r] # LCK_none /\ held'[r] = want[r] /\ want'[r] = LCK_none

Unmoved(r) == held'[r] = held[r] /\ want'[r] = want[r]

Gone(r) == held'[r] = LCK_none /\ want'[r] = LCK_none

\* Request r holds nothing and waits: it stands in the line before its lock.
InLine(r) == held[r] = LCK_none /\ want[r] # LCK_none

\* Whom request r has to let pass; one that is not in line, everybody who is.
First(r) ==
  IF InLine(r) THEN ahead[r]
  ELSE {p \in Requests \ {r} : lock_of[p] = lock_of[r] /\ InLine(p)}

\* Nobody is let in beside a holder that excludes it.
HoldersCompatible ==
  \A r, s \in Requests :
    (r # s /\ lock_of[r] = lock_of[s]) => compatibility(held'[r], held'[s])

\* The lines move up, and who comes to wait goes to the end of its line.
LinesMoveUp ==
  ahead' = [r \in Requests |-> IF InLine(r)' THEN {p \in First(r) : InLine(p)'} ELSE {}]

\* First come, first served: whoever gets a level out of nothing leaves nobody
\* behind who came before.  LCK_null, which excludes nothing, is given at once.
NoOvertaking ==
  \A r \in Requests :
    (held[r] = LCK_none /\ held'[r] > LCK_null) => \A p \in First(r) : ~InLine(p)'

\* An actor begins to wait only for something: a holder that excludes it, or,
\* while it holds nothing, somebody who waits already.
WaitsForSomething(A) ==
  \A r \in A : (want'[r] # LCK_none /\ want[r] = LCK_none) =>
    \E s \in Requests \ {r} :
      /\ lock_of[s] = lock_of[r]
      /\ \/ ~compatibility(want'[r], held'[s])
         \/ held'[r] = LCK_none /\ want'[s] # LCK_none

Step(A, D) ==
  /\ \A r \in D : Gone(r)
  /\ \A r \in Requests \ (A \cup D) : Unmoved(r) \/ Granted(r)
  /\ HoldersCompatible
  /\ LinesMoveUp
  /\ NoOvertaking
  /\ WaitsForSomething(A)

Next ==
  \E A \in {{}} \cup {{r} : r \in Requests}, D \in {{}} \cup Processes : Step(A, D)

ServiceSpec == Init /\ [][Next]_serviceVars
==========================================================================
