-------------------------- MODULE ContractDB_proofs --------------------------
(* What holds of the contract database for any number of goroutines,       *)
(* contracts and files.                                                     *)
EXTENDS ContractDB, TLAPS

(***************************************************************************)
(* The strengthening of RefsMatchContracts.  A file that never saw an       *)
(* overlap has at most one call in flight, and what that call read is still *)
(* what the database holds.                                                 *)
(***************************************************************************)
OneCallPerFid ==
    \A g, h \in Callers :
        /\ pc[g] # "idle"
        /\ pc[h] # "idle"
        /\ FidArg(g) = FidArg(h)
        /\ FidArg(g) \notin raced
        => g = h

CidStillAsRead ==
    \A g \in Callers :
        pc[g] # "idle" /\ FidArg(g) \notin raced
        => (arg[g] \in contracts <=> g = Purger)

ListStillAsRead ==
    \A g \in Callers :
        pc[g] = "batched" /\ FidArg(g) \notin raced
        => batch[g] = [refs[FidArg(g)] EXCEPT ![arg[g]] = IF g = Purger THEN 0 ELSE 1]

IInv == TypeOK /\ RefsMatchContracts /\ OneCallPerFid /\ CidStillAsRead /\ ListStillAsRead

USE FidOfAssumption, NoFidAssumption, NoCidAssumption, PurgerAssumption,
    MaxCopiesAssumption

-----------------------------------------------------------------------------

LEMMA InitTypeOK == Init => TypeOK
  BY DEF Init, TypeOK, EmptyList, List, Callers

LEMMA TypeStep ==
    ASSUME TypeOK, [Next]_vars
    PROVE  TypeOK'
<1> USE DEF TypeOK, List, EmptyList, Callers
<1>1. ASSUME NEW g \in Callers, NEW c \in Cids, Begin(g, c) PROVE TypeOK'
  BY <1>1 DEF Begin
<1>2. ASSUME NEW g \in Callers, AddReference(g) PROVE TypeOK'
  <2>1. arg[g] \in Cids /\ FidArg(g) \in Fids
    BY <1>2 DEF AddReference, FidArg
  <2>2. [refs[FidArg(g)] EXCEPT ![arg[g]] = @ + 1] \in List
    BY <2>1
  <2> QED
    BY <1>2, <2>1, <2>2 DEF AddReference
<1>3. ASSUME NEW g \in Callers, SetWrite(g) PROVE TypeOK'
  <2>1. arg[g] \in Cids /\ FidArg(g) \in Fids
    BY <1>3 DEF SetWrite, FidArg
  <2> QED
    BY <1>3, <2>1 DEF SetWrite, Return
<1>4. ASSUME NEW g \in Callers, RemoveReference(g) PROVE TypeOK'
  <2>1. arg[g] \in Cids /\ FidArg(g) \in Fids
    BY <1>4 DEF RemoveReference, FidArg
  <2>2. [refs[FidArg(g)] EXCEPT ![arg[g]] = IF @ = 0 THEN 0 ELSE @ - 1] \in List
    BY <2>1
  <2> QED
    BY <1>4, <2>1, <2>2 DEF RemoveReference
<1>5. ASSUME NEW g \in Callers, DeleteWrite(g) PROVE TypeOK'
  <2>1. arg[g] \in Cids /\ FidArg(g) \in Fids
    BY <1>5 DEF DeleteWrite, FidArg
  <2> QED
    BY <1>5, <2>1 DEF DeleteWrite, Return
<1>6. ASSUME NEW g \in Callers, Fail(g) PROVE TypeOK'
  BY <1>6 DEF Fail, Return
<1>7. CASE Crash
  BY <1>7 DEF Crash
<1>8. CASE UNCHANGED vars
  BY <1>8 DEF vars
<1>9. Purger \in Callers /\ Setters \subseteq Callers
  OBVIOUS
<1> QED
  BY <1>1, <1>2, <1>3, <1>4, <1>5, <1>6, <1>7, <1>8, <1>9
  DEF Next, SetContract, DeleteContract, SetCheck, DeleteCheck

\* Type correctness: every variable keeps its type, whatever the schedule.
THEOREM TypeCorrect == Spec => []TypeOK
<1>1. TypeOK /\ [Next]_vars => TypeOK'
  BY TypeStep
<1> QED
  BY <1>1, InitTypeOK, PTL DEF Spec

-----------------------------------------------------------------------------

\* A call that begins leaves the records alone; it is the only call on its
\* file, or the file counts as raced from now on.
LEMMA BeginStep ==
    ASSUME IInv, TypeOK', NEW g \in Callers, NEW c \in Cids, Begin(g, c),
           c \in contracts <=> g = Purger
    PROVE  IInv'
<1> USE DEF IInv
<1>1. /\ \A h \in Callers : h # g => pc'[h] = pc[h] /\ arg'[h] = arg[h]
      /\ pc'[g] = "checked" /\ arg'[g] = c /\ pc[g] = "idle"
      /\ raced \subseteq raced'
      /\ UNCHANGED <<contracts, refs, batch>>
  BY DEF Begin, TypeOK
<1>2. \A h \in Callers : h # g => FidArg(h)' = FidArg(h)
  BY <1>1 DEF FidArg
<1>3. FidArg(g)' = FidOf[c]
  BY <1>1 DEF FidArg
<1>4. FidOf[c] \notin raced' =>
        \A h \in Callers : h # g /\ pc[h] # "idle" => FidArg(h) # FidOf[c]
  BY DEF Begin, InFlightOn
<1>5. RefsMatchContracts'
  BY <1>1 DEF RefsMatchContracts, ListMatches
<1>6. OneCallPerFid'
  BY <1>1, <1>2, <1>3, <1>4 DEF OneCallPerFid
<1>7. CidStillAsRead'
  BY <1>1, <1>2, <1>3 DEF CidStillAsRead
<1>8. ListStillAsRead'
  BY <1>1, <1>2, <1>3 DEF ListStillAsRead
<1> QED
  BY <1>5, <1>6, <1>7, <1>8

\* Building the batch of SetContract: a fresh read of a matching list.
LEMMA AddReferenceStep ==
    ASSUME IInv, TypeOK', NEW g \in Setters, AddReference(g)
    PROVE  IInv'
<1> USE DEF IInv
<1>1. /\ g \in Callers /\ g # Purger
      /\ pc[g] = "checked" /\ pc'[g] = "batched"
      /\ batch'[g] = [refs[FidArg(g)] EXCEPT ![arg[g]] = @ + 1]
      /\ \A h \in Callers : h # g => pc'[h] = pc[h] /\ batch'[h] = batch[h]
      /\ UNCHANGED <<contracts, refs, arg, raced>>
  BY DEF AddReference, TypeOK, Callers
<1>2. arg[g] \in Cids /\ FidArg(g) \in Fids
  BY <1>1 DEF TypeOK, FidArg
<1>3. FidArg(g) \notin raced => refs[FidArg(g)][arg[g]] = 0
  BY <1>1, <1>2 DEF CidStillAsRead, RefsMatchContracts, ListMatches
<1>4. FidArg(g) \notin raced =>
        batch'[g] = [refs[FidArg(g)] EXCEPT ![arg[g]] = 1]
  BY <1>1, <1>3
<1>5. \A h \in Callers : FidArg(h)' = FidArg(h)
  BY <1>1 DEF FidArg
<1>6. RefsMatchContracts'
  BY <1>1 DEF RefsMatchContracts, ListMatches
<1>7. OneCallPerFid' /\ CidStillAsRead'
  BY <1>1, <1>5 DEF OneCallPerFid, CidStillAsRead
<1>8. ListStillAsRead'
  BY <1>1, <1>4, <1>5 DEF ListStillAsRead
<1> QED
  BY <1>6, <1>7, <1>8

\* Building the batch of DeleteContract.
LEMMA RemoveReferenceStep ==
    ASSUME IInv, TypeOK', RemoveReference(Purger)
    PROVE  IInv'
<1> USE DEF IInv
<1> DEFINE g == Purger
<1>1. /\ g \in Callers
      /\ pc[g] = "checked" /\ pc'[g] = "batched"
      /\ batch'[g] = [refs[FidArg(g)] EXCEPT ![arg[g]] = IF @ = 0 THEN 0 ELSE @ - 1]
      /\ \A h \in Callers : h # g => pc'[h] = pc[h] /\ batch'[h] = batch[h]
      /\ UNCHANGED <<contracts, refs, arg, raced>>
  BY DEF RemoveReference, TypeOK, Callers
<1>2. arg[g] \in Cids /\ FidArg(g) \in Fids
  BY <1>1 DEF TypeOK, FidArg
<1>3. FidArg(g) \notin raced => refs[FidArg(g)][arg[g]] = 1
  BY <1>1, <1>2 DEF CidStillAsRead, RefsMatchContracts, ListMatches, FidArg
<1>4. FidArg(g) \notin raced =>
        batch'[g] = [refs[FidArg(g)] EXCEPT ![arg[g]] = 0]
  BY <1>1, <1>3
<1>5. \A h \in Callers : FidArg(h)' = FidArg(h)
  BY <1>1 DEF FidArg
<1>6. RefsMatchContracts'
  BY <1>1 DEF RefsMatchContracts, ListMatches
<1>7. OneCallPerFid' /\ CidStillAsRead'
  BY <1>1, <1>5 DEF OneCallPerFid, CidStillAsRead
<1>8. ListStillAsRead'
  BY <1>1, <1>4, <1>5 DEF ListStillAsRead
<1> QED
  BY <1>6, <1>7, <1>8

\* Writing a batch, of either call: both records change together, so the
\* file still matches, and no call on another file notices.
LEMMA WriteStep ==
    ASSUME IInv, TypeOK', NEW g \in Callers, pc[g] = "batched",
           contracts' = IF g = Purger THEN contracts \ {arg[g]}
                                      ELSE contracts \cup {arg[g]},
           refs' = [refs EXCEPT ![FidArg(g)] = batch[g]],
           Return(g), UNCHANGED raced
    PROVE  IInv'
<1> USE DEF IInv
<1>1. arg[g] \in Cids /\ FidArg(g) \in Fids /\ FidArg(g) = FidOf[arg[g]]
  BY DEF TypeOK, FidArg
<1>2. /\ \A h \in Callers : h # g =>
            pc'[h] = pc[h] /\ arg'[h] = arg[h] /\ batch'[h] = batch[h]
      /\ pc'[g] = "idle"
  BY DEF Return, TypeOK
<1>3. \A h \in Callers : h # g => FidArg(h)' = FidArg(h)
  BY <1>2 DEF FidArg
<1>4. /\ refs'[FidArg(g)] = batch[g]
      /\ \A f \in Fids : f # FidArg(g) => refs'[f] = refs[f]
  BY <1>1 DEF TypeOK
<1>5. RefsMatchContracts'
  <2> SUFFICES ASSUME NEW f \in Fids, f \notin raced, NEW c \in Cids
               PROVE  refs'[f][c] = IF c \in contracts' /\ FidOf[c] = f THEN 1 ELSE 0
    BY DEF RefsMatchContracts, ListMatches
  <2>1. refs[f][c] = IF c \in contracts /\ FidOf[c] = f THEN 1 ELSE 0
    BY DEF RefsMatchContracts, ListMatches
  <2>2. CASE f # FidArg(g)
    BY <1>1, <1>4, <2>1, <2>2
  <2>3. CASE f = FidArg(g)
    <3>1. refs'[f] = [refs[f] EXCEPT ![arg[g]] = IF g = Purger THEN 0 ELSE 1]
      BY <1>4, <2>3 DEF ListStillAsRead
    <3>2. refs[f] \in List
      BY DEF TypeOK
    <3> QED
      BY <1>1, <2>1, <2>3, <3>1, <3>2 DEF List
  <2> QED
    BY <2>2, <2>3
<1>6. OneCallPerFid'
  BY <1>2, <1>3 DEF OneCallPerFid
<1>7. \A h \in Callers :
        h # g /\ pc[h] # "idle" /\ FidArg(h) \notin raced => FidArg(h) # FidArg(g)
  BY DEF OneCallPerFid
<1>8. CidStillAsRead'
  BY <1>1, <1>2, <1>3, <1>7 DEF CidStillAsRead, FidArg, TypeOK
<1>9. ListStillAsRead'
  <2> SUFFICES ASSUME NEW h \in Callers, pc'[h] = "batched", FidArg(h)' \notin raced
               PROVE  batch'[h] = [refs'[FidArg(h)'] EXCEPT
                                     ![arg'[h]] = IF h = Purger THEN 0 ELSE 1]
    BY DEF ListStillAsRead
  <2>1. h # g /\ FidArg(h)' = FidArg(h) /\ arg'[h] = arg[h]
        /\ pc[h] = "batched" /\ batch'[h] = batch[h]
    BY <1>2, <1>3
  <2>2. FidArg(h) \in Fids
    BY <2>1 DEF TypeOK, FidArg
  <2>3. refs'[FidArg(h)] = refs[FidArg(h)]
    BY <1>4, <1>7, <2>1, <2>2
  <2> QED
    BY <2>1, <2>3 DEF ListStillAsRead
<1> QED
  BY <1>5, <1>6, <1>8, <1>9

-----------------------------------------------------------------------------

LEMMA Inductive ==
    ASSUME IInv, TypeOK', [Next]_vars
    PROVE  IInv'
<1>1. ASSUME NEW g \in Setters, SetContract(g) PROVE IInv'
  <2>1. g \in Callers /\ g # Purger
    BY DEF Callers
  <2>2. ASSUME NEW c \in Cids, SetCheck(g, c) PROVE IInv'
    BY <2>1, <2>2, BeginStep DEF SetCheck
  <2>3. CASE AddReference(g)
    BY <2>3, AddReferenceStep
  <2>4. CASE SetWrite(g)
    BY <2>1, <2>4, WriteStep DEF SetWrite
  <2> QED
    BY <1>1, <2>2, <2>3, <2>4 DEF SetContract
<1>2. CASE DeleteContract(Purger)
  <2>1. Purger \in Callers
    BY DEF Callers
  <2>2. ASSUME NEW c \in Cids, DeleteCheck(Purger, c) PROVE IInv'
    BY <2>1, <2>2, BeginStep DEF DeleteCheck
  <2>3. CASE RemoveReference(Purger)
    BY <2>3, RemoveReferenceStep
  <2>4. CASE DeleteWrite(Purger)
    BY <2>1, <2>4, WriteStep DEF DeleteWrite
  <2> QED
    BY <1>2, <2>2, <2>3, <2>4 DEF DeleteContract
<1>3. ASSUME NEW g \in Callers, Fail(g) PROVE IInv'
  <2>1. /\ pc'[g] = "idle"
        /\ \A h \in Callers : h # g =>
             pc'[h] = pc[h] /\ arg'[h] = arg[h] /\ batch'[h] = batch[h]
        /\ UNCHANGED <<contracts, refs, raced>>
    BY <1>3 DEF Fail, Return, IInv, TypeOK
  <2>2. \A h \in Callers : h # g => FidArg(h)' = FidArg(h)
    BY <2>1 DEF FidArg
  <2>3. RefsMatchContracts'
    BY <2>1 DEF IInv, RefsMatchContracts, ListMatches
  <2>4. OneCallPerFid' /\ CidStillAsRead'
    BY <2>1, <2>2 DEF IInv, OneCallPerFid, CidStillAsRead
  <2>5. ListStillAsRead'
    BY <2>1, <2>2 DEF IInv, ListStillAsRead
  <2> QED
    BY <2>3, <2>4, <2>5 DEF IInv
<1>4. CASE Crash
  <2>1. /\ \A h \in Callers : pc'[h] = "idle"
        /\ UNCHANGED <<contracts, refs, raced>>
    BY <1>4 DEF Crash
  <2>2. RefsMatchContracts'
    BY <2>1 DEF IInv, RefsMatchContracts, ListMatches
  <2>3. OneCallPerFid' /\ CidStillAsRead' /\ ListStillAsRead'
    BY <2>1 DEF OneCallPerFid, CidStillAsRead, ListStillAsRead
  <2> QED
    BY <2>2, <2>3 DEF IInv
<1>5. CASE UNCHANGED vars
  BY <1>5 DEF vars, IInv, RefsMatchContracts, ListMatches, OneCallPerFid,
     CidStillAsRead, ListStillAsRead, FidArg
<1> QED
  BY <1>1, <1>2, <1>3, <1>4, <1>5 DEF Next

LEMMA InitIInv == Init => IInv
  BY InitTypeOK DEF Init, IInv, RefsMatchContracts, ListMatches, EmptyList,
     OneCallPerFid, CidStillAsRead, ListStillAsRead

\* The two kinds of records agree on every file whose calls never overlapped.
THEOREM RefsAlwaysMatch == Spec => []RefsMatchContracts
<1>1. IInv /\ TypeOK' /\ [Next]_vars => IInv'
  BY Inductive
<1>2. IInv => RefsMatchContracts
  BY DEF IInv
<1> QED
  BY <1>1, <1>2, InitIInv, TypeCorrect, PTL DEF Spec

-----------------------------------------------------------------------------

\* The batch of a deletion on an unraced file is empty exactly when the
\* contract it deletes is the last one of the file.
LEMMA LastContract ==
    ASSUME IInv, DeleteWrite(Purger), FidArg(Purger) \notin raced
    PROVE  /\ arg[Purger] \in contracts
           /\ contracts' = contracts \ {arg[Purger]}
           /\ FidArg(Purger) = FidOf[arg[Purger]]
           /\ purge' = IF \A d \in contracts' : FidOf[d] # FidArg(Purger)
                       THEN FidArg(Purger) ELSE NoFid
<1> USE DEF IInv
<1>1. Purger \in Callers /\ pc[Purger] = "batched"
  BY DEF Callers, DeleteWrite
<1>2. arg[Purger] \in Cids /\ FidArg(Purger) \in Fids
      /\ FidArg(Purger) = FidOf[arg[Purger]]
  BY <1>1 DEF TypeOK, FidArg
<1>3. arg[Purger] \in contracts
  BY <1>1 DEF CidStillAsRead
<1>4. contracts' = contracts \ {arg[Purger]} /\ contracts \subseteq Cids
  BY DEF DeleteWrite, TypeOK
<1>5. batch[Purger] = [refs[FidArg(Purger)] EXCEPT ![arg[Purger]] = 0]
  BY <1>1 DEF ListStillAsRead
<1>6. \A c \in Cids : batch[Purger][c] =
         IF c \in contracts' /\ FidOf[c] = FidArg(Purger) THEN 1 ELSE 0
  <2> TAKE c \in Cids
  <2>1. refs[FidArg(Purger)][c] =
           IF c \in contracts /\ FidOf[c] = FidArg(Purger) THEN 1 ELSE 0
    BY <1>2 DEF RefsMatchContracts, ListMatches
  <2>2. refs[FidArg(Purger)] \in List
    BY <1>2 DEF TypeOK
  <2> QED
    BY <1>2, <1>4, <1>5, <2>1, <2>2 DEF List
<1>7. batch[Purger] \in List
  BY <1>1 DEF TypeOK
<1>8. batch[Purger] = EmptyList <=> \A c \in Cids : batch[Purger][c] = 0
  BY <1>7 DEF List, EmptyList
<1>9. batch[Purger] = EmptyList <=> \A d \in contracts' : FidOf[d] # FidArg(Purger)
  BY <1>4, <1>6, <1>8
<1> QED
  BY <1>2, <1>3, <1>4, <1>9 DEF DeleteWrite

\* Only a deletion's write takes a contract away.
LEMMA OnlyDeleteWriteRemoves ==
    ASSUME TypeOK, [Next]_vars, ~ DeleteWrite(Purger)
    PROVE  contracts \subseteq contracts' /\ purge' = purge
<1> QED
  BY DEF Next, vars, SetContract, DeleteContract, SetCheck, DeleteCheck, Begin,
     AddReference, SetWrite, RemoveReference, Fail, Crash

\* DeleteContract tells its caller to erase a file exactly when the last
\* contract of that file went, if the calls on the file never overlapped.
THEOREM PurgeAnswersRight == Spec => PurgeIffLast
<1>1. IInv /\ TypeOK' /\ [Next]_vars => IInv'
  BY Inductive
<1>2. IInv /\ [Next]_vars => PurgeAnswer
  <2> SUFFICES ASSUME IInv, [Next]_vars, NEW c \in contracts \ contracts',
                      FidOf[c] \notin raced'
               PROVE  purge' = FidOf[c] <=> \A d \in contracts' : FidOf[d] # FidOf[c]
    BY DEF PurgeAnswer
  <2>1. DeleteWrite(Purger)
    BY OnlyDeleteWriteRemoves DEF IInv
  <2>2. c = arg[Purger] /\ FidOf[c] = FidArg(Purger) /\ raced' = raced /\ FidOf[c] \in Fids
    BY <2>1 DEF DeleteWrite, FidArg, IInv, TypeOK
  <2> QED
    BY <2>1, <2>2, LastContract
<1> QED
  BY <1>1, <1>2, InitIInv, TypeCorrect, PTL DEF Spec, PurgeIffLast

-----------------------------------------------------------------------------
(***************************************************************************)
(* Whatever overlaps, nobody but the caller of DeleteContract takes a       *)
(* contract away: the one it deletes is there until it writes.              *)
(***************************************************************************)
DeletesWhatIsThere == pc[Purger] # "idle" => arg[Purger] \in contracts

LEMMA DeletesStep ==
    ASSUME TypeOK, DeletesWhatIsThere, [Next]_vars
    PROVE  DeletesWhatIsThere'
<1> USE DEF TypeOK, DeletesWhatIsThere, Callers
<1>1. ASSUME NEW g \in Setters, NEW c \in Cids, SetCheck(g, c) PROVE DeletesWhatIsThere'
  BY <1>1 DEF SetCheck, Begin
<1>2. ASSUME NEW g \in Setters, AddReference(g) PROVE DeletesWhatIsThere'
  BY <1>2 DEF AddReference
<1>3. ASSUME NEW g \in Setters, SetWrite(g) PROVE DeletesWhatIsThere'
  BY <1>3 DEF SetWrite, Return
<1>4. ASSUME NEW c \in Cids, DeleteCheck(Purger, c) PROVE DeletesWhatIsThere'
  BY <1>4 DEF DeleteCheck, Begin
<1>5. CASE RemoveReference(Purger)
  BY <1>5 DEF RemoveReference
<1>6. CASE DeleteWrite(Purger)
  BY <1>6 DEF DeleteWrite, Return
<1>7. ASSUME NEW g \in Callers, Fail(g) PROVE DeletesWhatIsThere'
  BY <1>7 DEF Fail, Return
<1>8. CASE Crash
  BY <1>8 DEF Crash
<1>9. CASE UNCHANGED vars
  BY <1>9 DEF vars
<1> QED
  BY <1>1, <1>2, <1>3, <1>4, <1>5, <1>6, <1>7, <1>8, <1>9
  DEF Next, SetContract, DeleteContract

\* Callers see the atomic map of ContractMap: contracts are set and deleted in
\* one step whatever overlaps, and where calls on a file did not overlap the
\* answer is right as well.
THEOREM Refinement == Spec => ImplementsContractMap
<1>1. Init => Map!Init /\ DeletesWhatIsThere
  BY DEF Init, Map!Init, DeletesWhatIsThere, Callers
<1>2. IInv /\ TypeOK' /\ [Next]_vars => IInv'
  BY Inductive
<1>3. IInv /\ DeletesWhatIsThere /\ TypeOK' /\ [Next]_vars => [Map!Next]_(Map!vars)
  <2> SUFFICES ASSUME IInv, DeletesWhatIsThere, [Next]_vars
               PROVE  Map!Next \/ UNCHANGED <<contracts, purge, raced>>
    BY DEF Map!vars, vars
  <2>1. ASSUME NEW g \in Callers, NEW c \in Cids, Begin(g, c)
        PROVE  Map!Next \/ UNCHANGED <<contracts, purge, raced>>
    <3>1. FidOf[c] \in Fids
      OBVIOUS
    <3>2. Map!Overlap(FidOf[c]) \/ UNCHANGED <<contracts, purge, raced>>
      BY <2>1 DEF Begin, Map!Overlap
    <3> QED
      BY <3>1, <3>2 DEF Map!Next
  <2>2. CASE DeleteWrite(Purger)
    <3>1. Purger \in Callers /\ arg[Purger] \in Cids /\ arg[Purger] \in contracts
      BY <2>2 DEF IInv, TypeOK, DeleteWrite, Callers, DeletesWhatIsThere
    <3>2. FidArg(Purger) = FidOf[arg[Purger]] /\ FidArg(Purger) \in Fids
      BY <3>1 DEF FidArg
    <3>3. /\ contracts' = contracts \ {arg[Purger]}
          /\ purge' \in {FidOf[arg[Purger]], NoFid}
          /\ UNCHANGED raced
      BY <2>2, <3>2 DEF DeleteWrite
    <3>4. FidArg(Purger) \notin raced =>
             (purge' = FidArg(Purger) <=> Map!ContractsOf(FidArg(Purger)) = {arg[Purger]})
      <4> SUFFICES ASSUME FidArg(Purger) \notin raced
                   PROVE  purge' = FidArg(Purger)
                             <=> Map!ContractsOf(FidArg(Purger)) = {arg[Purger]}
        OBVIOUS
      <4>1. (\A d \in contracts' : FidOf[d] # FidArg(Purger))
               <=> Map!ContractsOf(FidArg(Purger)) = {arg[Purger]}
        BY <2>2, LastContract DEF Map!ContractsOf
      <4> QED
        BY <2>2, <3>2, <4>1, LastContract
    <3>5. Map!Delete(arg[Purger])
      BY <3>1, <3>2, <3>3, <3>4 DEF Map!Delete
    <3> QED
      BY <3>1, <3>5 DEF Map!Next
  <2>3. ASSUME NEW g \in Setters, SetWrite(g) PROVE Map!Next
    <3>1. g \in Callers /\ g # Purger /\ pc[g] = "batched"
      BY <2>3 DEF SetWrite, Callers
    <3>2. arg[g] \in Cids /\ FidArg(g) = FidOf[arg[g]]
      BY <3>1 DEF IInv, TypeOK, FidArg
    <3>3. arg[g] \notin contracts \/ FidOf[arg[g]] \in raced
      BY <3>1, <3>2 DEF IInv, CidStillAsRead
    <3>4. Map!Set(arg[g])
      BY <2>3, <3>3 DEF SetWrite, Map!Set
    <3> QED
      BY <3>2, <3>4 DEF Map!Next
  <2>4. \/ DeleteWrite(Purger)
        \/ \E g \in Setters : SetWrite(g)
        \/ \E g \in Callers, c \in Cids : Begin(g, c)
        \/ UNCHANGED <<contracts, purge, raced>>
    BY DEF Next, vars, SetContract, DeleteContract, SetCheck, DeleteCheck,
       AddReference, RemoveReference, Fail, Crash, Callers
  <2> QED
    BY <2>1, <2>2, <2>3, <2>4
<1>4. IInv /\ DeletesWhatIsThere /\ [Next]_vars => DeletesWhatIsThere'
  BY DeletesStep DEF IInv
<1> QED
  BY <1>1, <1>2, <1>3, <1>4, InitIInv, TypeCorrect, PTL
  DEF Spec, ImplementsContractMap, Map!Spec

=============================================================================
