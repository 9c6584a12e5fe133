---------------------------- MODULE MCUploadQueue ----------------------------
(* Four uploads, one of them twice the size of the others: a transaction    *)
(* carries one to three of them, so batches split and the queue refills     *)
(* while a batch is under way.  For liveness one of them exceeds the limit. *)
EXTENDS UploadQueue, TLC

CONSTANTS u1, u2, u3, u4

MCSize == [u \in Uploads |-> IF u = u1 THEN 2 ELSE 1]
MCOversized == [u \in Uploads |-> IF u = u1 THEN 4 ELSE 1]

\* The uploads of size 1 are interchangeable.
SizeOneSymmetry == Permutations({u2, u3, u4})
=============================================================================
