---------------------------- MODULE MCFileServer ----------------------------
(* Two contracts of one file: two users who upload the same bytes.  Both    *)
(* handlers may also work on the same contract.                             *)
EXTENDS FileServer, TLC

CONSTANTS c1, c2, f1

MCFidOf == (c1 :> f1) @@ (c2 :> f1)
\* One contract, for liveness.
MCFidOfOne == c1 :> f1

\* Both contracts are of the same file, and all handlers run the same code.
UploadSymmetry == Permutations({c1, c2}) \cup Permutations(Handlers)
=============================================================================
