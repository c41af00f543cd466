--------------------------- MODULE MCSnapshotList ---------------------------
(* Instances of SnapshotList for TLC.                                      *)
EXTENDS SnapshotList, TLC

CONSTANTS u1, u2, c1, c2

TwoUsers == {u1, u2}
OneUser == {u2}
OneCollector == {c1}
TwoCollectors == {c1, c2}
OneMortal == {u1}
Nobody == {}
=============================================================================
