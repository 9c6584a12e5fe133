------------------------------ MODULE ContractDB ------------------------------
(***************************************************************************)
(* DoubleRefArchiveDB (archive/contract.go): the leveldb database that      *)
(* holds, per contract, a record cid -> fid and, per file, a record         *)
(* fid -> "cid,cid,...,".  SetContract and DeleteContract read both records *)
(* and then write them in one batch.  leveldb makes the batch atomic and    *)
(* durable, but nothing serialises the reads with the batch: the goroutines *)
(* of the http handlers, of the stray hands and of the proof server call    *)
(* the database without a lock.                                             *)
(***************************************************************************)
EXTENDS Contracts, Integers

CONSTANTS
    NoCid,       \* the argument of a caller that is in no call
    Setters,     \* goroutines that call SetContract: uploads, stray hands
    Purger,      \* the goroutine of the proof server, sole caller of DeleteContract
    MaxCopies    \* bound: how often one list may name a cid

ASSUME NoCidAssumption == NoCid \notin Cids
ASSUME PurgerAssumption == Purger \notin Setters
ASSUME MaxCopiesAssumption == MaxCopies \in Nat \ {0}

Callers == Setters \cup {Purger}

VARIABLES
    contracts,  \* the cids that have a record; its value is FidOf[cid]
    refs,       \* refs[f][c]: how often the record of f lists c
    pc,         \* how far each caller is in its call
    arg,        \* the cid each caller was called with
    batch,      \* the list each caller is about to write for its fid
    purge,      \* what the last DeleteContract answered
    raced       \* history: the fids on which two calls ever overlapped

vars == <<contracts, refs, pc, arg, batch, purge, raced>>

(***************************************************************************)
(* The order of the cids in a list is never used, so a list is the number   *)
(* of times it names each cid.  A fid has a record iff its list is not      *)
(* empty: the batch deletes a record whose list becomes empty.              *)
(***************************************************************************)
List == [Cids -> Nat]
EmptyList == [c \in Cids |-> 0]

TypeOK ==
    /\ contracts \subseteq Cids
    /\ refs \in [Fids -> List]
    /\ pc \in [Callers -> {"idle", "checked", "batched"}]
    /\ arg \in [Callers -> Cids \cup {NoCid}]
    /\ \A g \in Callers : pc[g] = "idle" <=> arg[g] = NoCid
    /\ batch \in [Callers -> List]
    /\ purge \in Fids \cup {NoFid}
    /\ raced \subseteq Fids

Init ==
    /\ contracts = {}
    /\ refs = [f \in Fids |-> EmptyList]
    /\ pc = [g \in Callers |-> "idle"]
    /\ arg = [g \in Callers |-> NoCid]
    /\ batch = [g \in Callers |-> EmptyList]
    /\ purge = NoFid
    /\ raced = {}

-----------------------------------------------------------------------------

FidRecordExists(f) == refs[f] # EmptyList

\* The fid a caller is working on.
FidArg(g) == FidOf[arg[g]]

InFlightOn(f) == {g \in Callers : pc[g] # "idle" /\ FidArg(g) = f}

\* A call on c begins: note whether it overlaps a call on the same file.
Begin(g, c) ==
    /\ pc[g] = "idle"
    /\ pc' = [pc EXCEPT ![g] = "checked"]
    /\ arg' = [arg EXCEPT ![g] = c]
    /\ raced' = IF InFlightOn(FidOf[c]) = {} THEN raced
                                             ELSE raced \cup {FidOf[c]}
    /\ UNCHANGED <<contracts, refs, batch, purge>>

\* A call ends: what it held in memory is gone.
Return(g) ==
    /\ pc' = [pc EXCEPT ![g] = "idle"]
    /\ arg' = [arg EXCEPT ![g] = NoCid]
    /\ batch' = [batch EXCEPT ![g] = EmptyList]

\* Mutant: the cid is not looked up first.
SetUnchecked(g, c) == Begin(g, c)

\* SetContract reads the cid; a cid that exists ends the call with an error,
\* which changes nothing.
SetCheck(g, c) ==
    /\ c \notin contracts
    /\ Begin(g, c)

\* addReference reads the list and puts the cid at its end, in the batch.
AddReference(g) ==
    /\ pc[g] = "checked"
    /\ refs[FidArg(g)][arg[g]] < MaxCopies
    /\ batch' = [batch EXCEPT ![g] = [refs[FidArg(g)] EXCEPT ![arg[g]] = @ + 1]]
    /\ pc' = [pc EXCEPT ![g] = "batched"]
    /\ UNCHANGED <<contracts, refs, arg, purge, raced>>

\* Mutant: the cid alone is written, the list is left for later.
SetCidOnly(g) ==
    /\ pc[g] = "batched"
    /\ contracts' = contracts \cup {arg[g]}
    /\ Return(g)
    /\ UNCHANGED <<refs, purge, raced>>

SetWrite(g) ==
    /\ pc[g] = "batched"
    /\ contracts' = contracts \cup {arg[g]}
    /\ refs' = [refs EXCEPT ![FidArg(g)] = batch[g]]
    /\ Return(g)
    /\ UNCHANGED <<purge, raced>>

\* deleteReference reads the cid; an absent cid ends the call with an error.
DeleteCheck(g, c) ==
    /\ c \in contracts
    /\ Begin(g, c)

\* Mutant: a cid that is not in the list is taken out all the same.
RemoveAbsent(g) ==
    /\ pc[g] = "checked"
    /\ FidRecordExists(FidArg(g))
    /\ batch' = [batch EXCEPT ![g] = [refs[FidArg(g)] EXCEPT ![arg[g]] = @ - 1]]
    /\ pc' = [pc EXCEPT ![g] = "batched"]
    /\ UNCHANGED <<contracts, refs, arg, purge, raced>>

\* deleteReference reads the list and takes the first occurrence out.
RemoveReference(g) ==
    /\ pc[g] = "checked"
    /\ FidRecordExists(FidArg(g))
    /\ batch' = [batch EXCEPT ![g] =
                    [refs[FidArg(g)] EXCEPT ![arg[g]] = IF @ = 0 THEN 0 ELSE @ - 1]]
    /\ pc' = [pc EXCEPT ![g] = "batched"]
    /\ UNCHANGED <<contracts, refs, arg, purge, raced>>

\* Mutant: every deletion tells its caller to purge.
DeletePurges(g) ==
    /\ pc[g] = "batched"
    /\ contracts' = contracts \ {arg[g]}
    /\ refs' = [refs EXCEPT ![FidArg(g)] = batch[g]]
    /\ purge' = FidArg(g)
    /\ Return(g)
    /\ UNCHANGED raced

\* The batch drops the cid, and the fid too when its list became empty: then
\* the caller is told to purge the file.
DeleteWrite(g) ==
    /\ pc[g] = "batched"
    /\ contracts' = contracts \ {arg[g]}
    /\ refs' = [refs EXCEPT ![FidArg(g)] = batch[g]]
    /\ purge' = IF batch[g] = EmptyList THEN FidArg(g) ELSE NoFid
    /\ Return(g)
    /\ UNCHANGED raced

\* A read or the write fails (I/O error, or no record for the fid in
\* deleteReference): the call returns the error with nothing written.
Fail(g) ==
    /\ pc[g] # "idle"
    /\ Return(g)
    /\ UNCHANGED <<contracts, refs, purge, raced>>

\* The process dies: the calls are gone, every written batch stays.
Crash ==
    /\ pc # [g \in Callers |-> "idle"]
    /\ pc' = [g \in Callers |-> "idle"]
    /\ arg' = [g \in Callers |-> NoCid]
    /\ batch' = [g \in Callers |-> EmptyList]
    /\ UNCHANGED <<contracts, refs, purge, raced>>

SetContract(g) ==
    \/ \E c \in Cids : SetCheck(g, c)
    \/ AddReference(g)
    \/ SetWrite(g)

DeleteContract(g) ==
    \/ \E c \in Cids : DeleteCheck(g, c)
    \/ RemoveReference(g)
    \/ DeleteWrite(g)

Next ==
    \/ \E g \in Setters : SetContract(g)
    \/ DeleteContract(Purger)
    \/ \E g \in Callers : Fail(g)
    \/ Crash

Spec == Init /\ [][Next]_vars

-----------------------------------------------------------------------------

\* The list of f names exactly the contracts of f, each of them once.
ListMatches(f) ==
    \A c \in Cids :
        refs[f][c] = IF c \in contracts /\ FidOf[c] = f THEN 1 ELSE 0

\* The two kinds of records agree on every file whose calls never overlapped,
\* whatever calls on other files, failed calls and crashes happened between:
\* SetContract and DeleteContract write both records in one batch.
RefsMatchContracts == \A f \in Fids \ raced : ListMatches(f)

\* DeleteContract tells the proof server to erase a file exactly when the
\* contract it deleted was the last one of that file (proofs.go Purge erases
\* the file on that answer), as long as the calls on the file never overlapped.
PurgeAnswer ==
    \A c \in contracts \ contracts' :
        FidOf[c] \notin raced' =>
            (purge' = FidOf[c] <=> \A d \in contracts' : FidOf[d] # FidOf[c])
PurgeIffLast == [][PurgeAnswer]_vars

Map == INSTANCE ContractMap

\* Callers see the atomic map of ContractMap: a call takes effect in the one
\* step that writes its batch.  Even where calls on a file overlap, no contract
\* is lost but by its own deletion, and no other file is disturbed.
ImplementsContractMap == Map!Spec

=============================================================================
