----------------------------- MODULE ContractMap -----------------------------
(***************************************************************************)
(* What the ArchiveDB interface promises its callers (archive.go,         *)
(* contract.go): a set of contracts, each of one file.  Setting a contract  *)
(* that exists is an error; deleting the last contract of a file tells the  *)
(* caller to purge that file.  Every call takes effect in one atomic step.  *)
(* Calls on one file may overlap: then the contracts are still those that   *)
(* were set and not deleted, but what is answered of that file, its list    *)
(* and whether to purge it, is not to be relied on any more.  Other files   *)
(* do not suffer.                                                           *)
(***************************************************************************)

EXTENDS Contracts

VARIABLES
    contracts,   \* the contracts in force
    purge,       \* what the last DeleteContract told its caller to purge
    raced        \* the files on which calls have overlapped

vars == <<contracts, purge, raced>>

ContractsOf(f) == {c \in contracts : FidOf[c] = f}

\* What GetContracts may answer when its read succeeds.
GetContracts(f) == IF f \in raced THEN SUBSET Cids ELSE {ContractsOf(f)}

TypeOK ==
    /\ contracts \subseteq Cids
    /\ purge \in Fids \cup {NoFid}
    /\ raced \subseteq Fids

Init ==
    /\ contracts = {}
    /\ purge = NoFid
    /\ raced = {}

\* Only where calls overlap may the contract be there already.
Set(c) ==
    /\ c \notin contracts \/ FidOf[c] \in raced
    /\ contracts' = contracts \cup {c}
    /\ UNCHANGED <<purge, raced>>

Delete(c) ==
    /\ c \in contracts
    /\ contracts' = contracts \ {c}
    /\ purge' \in {FidOf[c], NoFid}
    /\ FidOf[c] \notin raced =>
          (purge' = FidOf[c] <=> ContractsOf(FidOf[c]) = {c})
    /\ UNCHANGED raced

Overlap(f) ==
    /\ raced' = raced \cup {f}
    /\ UNCHANGED <<contracts, purge>>

Next ==
    \/ \E c \in Cids : Set(c) \/ Delete(c)
    \/ \E f \in Fids : Overlap(f)

Spec == Init /\ [][Next]_vars

=============================================================================
