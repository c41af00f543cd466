------------------------ MODULE MCOldestTransactions ------------------------
(* Instances of OldestTransactions for TLC.                                *)
EXTENDS OldestTransactions, TLC

CONSTANTS a1, a2, a3

MCAttachments == {a1, a2, a3}

\* A reader of snapshots, a writer that ends in every way, a sweeper.
MCKinds == (a1 :> {"snapshot"}) @@ (a2 :> {"snapshot", "read_committed"})
               @@ (a3 :> {"sweep", "read_committed"})
MCEnds == (a1 :> {"commit"}) @@ (a2 :> {"commit", "rollback", "prepare", "crash"})
              @@ (a3 :> {"commit", "reconnect"})

\* Transactions that only commit.
PlainKinds == [a \in MCAttachments |-> {"snapshot"}]
PlainEnds == [a \in MCAttachments |-> {"commit"}]
=============================================================================
