---------------------------- MODULE MCContractDB ----------------------------
(* Two files; two contracts share the first file, one contract is of the   *)
(* second, so calls on the same and on different files interleave.          *)
EXTENDS ContractDB, TLC

CONSTANTS c1, c2, c3, f1, f2, s1, s2

MCFidOf == (c1 :> f1) @@ (c2 :> f1) @@ (c3 :> f2)

\* The setters run the same code.
SetterSymmetry == Permutations({s1, s2})
=============================================================================
