------------------------- MODULE MCPhysicalBackup -------------------------
(* Instances of PhysicalBackup for TLC.                                    *)
EXTENDS PhysicalBackup

CONSTANTS p1, p2, hdrPage, dataPage

TwoProcesses == {p1, p2}
TwoPages == {hdrPage, dataPage}

\* p1 begins and ends backups, one and the start of a second one.
OneOperator == {p1} \X (0 .. 3)

\* p1 makes one backup, p2 the next.
TakingTurns == ({p1} \X (0 .. 2)) \union ({p2} \X (3 .. 5))

\* p1 modifies the header page and p2 the other.
OnePageEach == {<<p1, hdrPage>>, <<p2, dataPage>>}

DataTwice == [pg \in TwoPages |-> IF pg = dataPage THEN 2 ELSE 1]
TwoVersions == [pg \in TwoPages |-> 2]
===========================================================================
