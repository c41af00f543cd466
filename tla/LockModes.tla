---------------------------- MODULE LockModes ----------------------------
(***************************************************************************)
(* Lock levels of the Firebird lock manager and the arithmetic on them:    *)
(* the compatibility matrix, the state of a lock computed from its counts  *)
(* of granted requests, and the level a holder falls back to when it       *)
(* downgrades in favour of the requests waiting behind it.                 *)
(***************************************************************************)
EXTENDS Naturals

LCK_none == 0    \* no lock
LCK_null == 1    \* existence
LCK_SR   == 2    \* shared read
LCK_PR   == 3    \* protected read
LCK_SW   == 4    \* shared write
LCK_PW   == 5    \* protected write
LCK_EX   == 6    \* exclusive

Level == LCK_none .. LCK_EX

\* The levels a lock block counts: LCK_none is never granted.
GrantedLevel == LCK_null .. LCK_EX

\* The row of the matrix for a requested level: the states it tolerates.
Tolerates(requested) ==
  CASE requested \in {LCK_none, LCK_null} -> Level
    [] requested = LCK_SR -> Level \ {LCK_EX}
    [] requested = LCK_PR -> {LCK_none, LCK_null, LCK_SR, LCK_PR}
    [] requested = LCK_SW -> {LCK_none, LCK_null, LCK_SR, LCK_SW}
    [] requested = LCK_PW -> {LCK_none, LCK_null, LCK_SR}
    [] requested = LCK_EX -> {LCK_none, LCK_null}

\* compatibility[requested][state]
compatibility(requested, state) == state \in Tolerates(requested)

\* The highest level with a granted request.
lock_state(counts) ==
  IF counts[LCK_EX] > 0 THEN LCK_EX
  ELSE IF counts[LCK_PW] > 0 THEN LCK_PW
  ELSE IF counts[LCK_SW] > 0 THEN LCK_SW
  ELSE IF counts[LCK_PR] > 0 THEN LCK_PR
  ELSE IF counts[LCK_SR] > 0 THEN LCK_SR
  ELSE IF counts[LCK_null] > 0 THEN LCK_null
  ELSE LCK_none

\* Where the loop of downgrade() that lowers a held level stops: the highest
\* level, not above the held one, compatible with the highest pending request.
DowngradeLevel(held, pending_state) ==
  CHOOSE s \in 0 .. held :
    /\ s = LCK_none \/ compatibility(pending_state, s)
    /\ \A t \in (s + 1) .. held : ~compatibility(pending_state, t)
==========================================================================
