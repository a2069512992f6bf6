-------------------------- MODULE MCTransferUpload --------------------------
(* Instances of TransferUpload for TLC: three items, the first one in chunks,*)
(* the second one behind a name that is taken, and two workers.              *)
EXTENDS TransferUpload

CONSTANTS w1, w2

TwoWorkers == {w1, w2}
First == {1}
Second == {2}
=============================================================================
