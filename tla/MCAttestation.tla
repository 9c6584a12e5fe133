---------------------------- MODULE MCAttestation ----------------------------
(* Two contracts and four providers, one of them mute, of whom three have   *)
(* to answer: forms of every size, answers one short of enough, and lost    *)
(* increments that make enough too few.                                     *)
EXTENDS Attestation, TLC

CONSTANTS c1, c2, p1, p2, p3, p4
=============================================================================
