-------------------------- MODULE MCLockManager --------------------------
(***************************************************************************)
(* Instances of LockManager for TLC.  An owner has one request for each    *)
(* lock; in the Classic layout every owner is a process of its own, in the *)
(* SuperClassic layout all but one share a process.                        *)
(***************************************************************************)
EXTENDS LockManagerService, TLC

MCRequests == {<<o, l>> : o \in Owners, l \in Locks}
MCOwner == [r \in MCRequests |-> r[1]]
MCLock  == [r \in MCRequests |-> r[2]]

MCOwners == Owners

\* The levels asked for.
Exclusive       == [r \in MCRequests |-> {LCK_EX}]
SharedExclusive == [r \in MCRequests |-> {LCK_PR, LCK_EX}]

\* How callers wait: all of them until the lock is granted; in any way; all of them
\* until it is granted and one of them possibly with a timeout.
AllWait  == [r \in MCRequests |-> {"wait"}]
AnyWait  == [r \in MCRequests |-> {"no_wait", "wait", "timeout"}]
OneTimed == [r \in MCRequests |-> IF r = CHOOSE x \in MCRequests : TRUE
                                  THEN {"wait", "timeout"} ELSE {"wait"}]

ClassicProcesses == {<<"prc", o>> : o \in Owners}
ClassicProcess   == [o \in Owners |-> <<"prc", o>>]

\* Only one of the processes dies.
OneMayDie == {<<"prc", CHOOSE o \in Owners : TRUE>>}

\* SuperClassic: one process with two owners, of which only one has blocking ASTs
\* and shares its lock, besides one with a single owner.
TwoProcesses == {<<"prc", 0>>, <<"prc", 1>>}
Alone == CHOOSE o \in Owners : TRUE
MixedProcess == [o \in Owners |-> IF o = Alone THEN <<"prc", 1>> ELSE <<"prc", 0>>]
Plain == CHOOSE o \in Owners \ {Alone} : TRUE
MixedAst == {r \in MCRequests : r[1] # Plain}
MixedLevels == [r \in MCRequests |-> IF r[1] = Plain THEN {LCK_EX} ELSE {LCK_PR}]

\* The owner that is alone in its process comes and goes, its process dies, and
\* one of its ASTs is posted again.
MCAlone     == {Alone}
AloneMayDie == {<<"prc", 1>>}
NoReposts   == [o \in Owners |-> 0]
OneRepost   == [o \in Owners |-> IF o = Alone THEN 1 ELSE 0]

Symmetry == Permutations(Owners) \cup Permutations(Locks)

==========================================================================
