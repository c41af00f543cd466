--------------------------- MODULE MCTransactions ---------------------------
(* Instances of Transactions for TLC: three attachments with a workload.   *)
EXTENDS Transactions, TLC

CONSTANTS a1, a2, a3

MCAttachments == {a1, a2, a3}

\* One attachment commits, prepares, and may die, the others
\* read and wait, and one of them takes over what was left in limbo.
Workload ==
    (a1 :> {"commit", "prepare", "detach", "crash"})
        @@ (a2 :> {"read", "wait"})
        @@ (a3 :> {"wait", "reconnect", "rollback"})

\* Two attachments wait for a third.
TwoWaiters == (a1 :> {"prepare", "detach"}) @@ (a2 :> {"wait"}) @@ (a3 :> {"wait"})
=============================================================================
