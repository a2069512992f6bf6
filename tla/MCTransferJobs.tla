--------------------------- MODULE MCTransferJobs ---------------------------
(* Instances of TransferJobs for TLC: one job, and two jobs of one           *)
(* connection.                                                               *)
EXTENDS TransferJobs, TLC

CONSTANTS j1, j2, c1, c2

OneJob  == {j1}
OneConn  == {c1}
SameConn == [j \in Jobs |-> c1]
=============================================================================
