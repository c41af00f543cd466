------------------------ MODULE LockManagerService ------------------------
(***************************************************************************)
(* The lock manager implements the lock service.  The level a request      *)
(* holds is its lrq_state; it wants lrq_requested while it is pending; the *)
(* line before a lock is what is left of its request queue when granted    *)
(* requests and conversions are passed over.                               *)
(***************************************************************************)
EXTENDS LockManager

HeldBy(T, r) == BlockOf(T, r).lrq_state[r]

WantedBy(T, r) ==
  IF IsPending(BlockOf(T, r), r) THEN BlockOf(T, r).lrq_requested[r] ELSE LCK_none

\* A pending request that holds nothing yet.
NewWaiter(B, r) == IsPending(B, r) /\ B.lrq_state[r] = LCK_none

AheadOf(T, r) ==
  LET B == BlockOf(T, r)
  IN  IF NewWaiter(B, r) THEN {p \in Requests : NewWaiter(B, p) /\ Before(B, p, r)} ELSE {}

Service == INSTANCE LockService WITH
  lock_of   <- lrq_lock,
  Processes <- {{r \in Requests : ProcessOf(r) = p} : p \in Crashable},
  held      <- [r \in Requests |-> HeldBy(Now, r)],
  want      <- [r \in Requests |-> WantedBy(Now, r)],
  ahead     <- [r \in Requests |-> AheadOf(Now, r)]

\* Every behaviour of the lock manager is one of the lock service: each routine,
\* with all the grants its post_pending makes, each purge of a dead process and
\* each deadlock victim is one step of one actor, in which everybody else is at
\* most given what it waits for, in order of arrival.
ImplementsService == Service!ServiceSpec
===========================================================================
