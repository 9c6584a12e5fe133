------------------------------- MODULE Contracts -------------------------------
(* Contracts and the files they are about, as every module here sees them.  *)

CONSTANTS
    Cids,    \* contract ids
    Fids,    \* file ids
    FidOf,   \* the file a contract is about: a cid is a hash over the fid
    NoFid    \* no file

ASSUME FidOfAssumption == FidOf \in [Cids -> Fids]
ASSUME NoFidAssumption == NoFid \notin Fids

=============================================================================
