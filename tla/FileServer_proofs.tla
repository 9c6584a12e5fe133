-------------------------- MODULE FileServer_proofs --------------------------
(* What holds of the file server for any number of contracts, files and     *)
(* handlers and any --max-misses.                                           *)
EXTENDS FileServer, TLAPS

USE FidOfAssumption, NoFidAssumption, NoCidAssumption, MaxMissesAssumption

(***************************************************************************)
(* What the place of the process and of the proof server says of the rest.  *)
(***************************************************************************)
Phases ==
    /\ mode = "down" <=> proofs = "off"
    /\ cur # NoCid <=> proofs \in {"prove"} \cup Counting \cup PurgeSteps
    /\ proofs \in {"off", "collect", "recollect"} \/ mode = "prune"
          => upload = [h \in Handlers |-> Idle]
    /\ pruneTodo # {} => mode = "prune"

(***************************************************************************)
(* The contracts a shift works on are recorded: nobody else deletes any.    *)
(***************************************************************************)
Handling == proofs \in {"handle", "prove"} \cup Counting
WorksOnContracts ==
    /\ Handling => todo \subseteq contracts
    /\ proofs \in Counting \cup {"purgeDowntime", "purgeContract", "deleteContract"}
          => cur \in contracts
    /\ proofs \in Counting \cup PurgeSteps => cur \notin todo

(***************************************************************************)
(* CleanExpired leaves no overdue contract to handleContracts, so that no   *)
(* count grows beyond one more than the limit.                              *)
(***************************************************************************)
OverdueIsPurged ==
    /\ proofs \in {"clean"} \cup PurgeSteps =>
          \A c \in Cids : downtime[c] > MaxMisses =>
              c \in todo \/ (proofs = "purgeDowntime" /\ c = cur)
    /\ Handling => \A c \in todo : downtime[c] <= MaxMisses
    /\ proofs = "count" => downtime[cur] <= MaxMisses

TInv == TypeOK /\ Phases /\ WorksOnContracts /\ OverdueIsPurged

LEMMA InitTInv == Init => TInv
<1> SUFFICES ASSUME Init PROVE TInv
  OBVIOUS
<1>1. downtime \in [Cids -> NoEntry .. MaxMisses + 1] /\ misses \in [Cids -> 0 .. MaxMisses + 1]
  BY DEF Init, NoEntry
<1>2. disk \in [Fids -> SUBSET Complete]
  BY DEF Init
<1>3. deals \in [Cids -> {"none", "unverified", "verified", "elsewhere"}]
  BY DEF Init
<1>4. upload \in [Handlers -> {Idle} \cup Uploading]
  BY DEF Init
<1>5. DB!TypeOK /\ missed \in 0 .. MaxMisses
  BY DEF Init, DB!Init, DB!TypeOK
<1>6. TypeOK
  BY <1>1, <1>2, <1>3, <1>4, <1>5 DEF Init, TypeOK
<1>7. Phases /\ WorksOnContracts /\ OverdueIsPurged
  BY DEF Init, Phases, WorksOnContracts, OverdueIsPurged, Handling, PurgeSteps, Counting
<1> QED
  BY <1>6, <1>7 DEF TInv

LEMMA TypeStep ==
    ASSUME TInv, [Next]_vars
    PROVE  TInv'
<1> USE DEF TInv, TypeOK, Phases, WorksOnContracts, OverdueIsPurged, Handling, PurgeSteps,
            Counting, DB!TypeOK, dbVars, shiftVars, startVars, noteVars, serverVars, Idle,
            Uploading, NoEntry
<1>1. ASSUME NEW h \in Handlers, NEW c \in Cids, Receive(h, c) PROVE TInv'
  BY <1>1 DEF Receive, Running, Complete
<1>2. ASSUME NEW h \in Handlers, WriteFileToDisk(h) PROVE TInv'
  BY <1>2 DEF WriteFileToDisk, Complete
<1>3. ASSUME NEW h \in Handlers, ResetDowntime(h) PROVE TInv'
  BY <1>3 DEF ResetDowntime
<1>4. ASSUME NEW h \in Handlers, CheckContract(h) \/ RecordContract(h) PROVE TInv'
  BY <1>4 DEF CheckContract, RecordContract, DB!Set, DB!Overlap
<1>5. ASSUME NEW h \in Handlers, UploadFails(h) PROVE TInv'
  BY <1>5 DEF UploadFails
<1>6. CASE StartShift
  BY <1>6 DEF StartShift, ShiftOver
<1>7. ASSUME NEW c \in Cids, PurgeGetFid(c) PROVE TInv'
  BY <1>7 DEF PurgeGetFid
<1>8. CASE PurgeDowntime
  BY <1>8 DEF PurgeDowntime
<1>9. CASE PurgeReadsList \/ PurgeContract
  BY <1>9 DEF PurgeReadsList, PurgeContract, DB!Overlap, DB!Delete
<1>10. CASE PurgeFile
  BY <1>10 DEF PurgeFile
<1>11. CASE StartHandling
  BY <1>11 DEF StartHandling
<1>12. ASSUME NEW c \in Cids, HandleFound(c) PROVE TInv'
  BY <1>12 DEF HandleFound
<1>13. ASSUME NEW c \in Cids, HandleError(c) PROVE TInv'
  BY <1>13 DEF HandleError
<1>14. ASSUME NEW c \in Cids, HandleNotFound(c) PROVE TInv'
  BY <1>14 DEF HandleNotFound
<1>15. CASE ReadDowntime \/ IncrementDowntime
  BY <1>15 DEF ReadDowntime, IncrementDowntime
<1>16. CASE ProveDeal
  BY <1>16 DEF ProveDeal
<1>17. CASE EndShift
  BY <1>17 DEF EndShift
<1>18. CASE ShiftFails
  BY <1>18 DEF ShiftFails
<1>19. ASSUME NEW m \in {"serve", "prune"}, Start(m) PROVE TInv'
  BY <1>19 DEF Start, MyDeals
<1>20. ASSUME NEW page \in SUBSET Cids, ReadPage(page) PROVE TInv'
  BY <1>20 DEF ReadPage, MyDeals
<1>21. ASSUME NEW c \in Cids, RecollectDeal(c) PROVE TInv'
  BY <1>21 DEF RecollectDeal, DB!Set
<1>22. CASE Recollected
  BY <1>22 DEF Recollected
<1>23. CASE Stop
  BY <1>23 DEF Stop
<1>24. CASE RecollectFails
  BY <1>23, <1>24 DEF RecollectFails
<1>25. ASSUME NEW f \in Fids, PruneFile(f) PROVE TInv'
  BY <1>25 DEF PruneFile
<1>26. CASE Chain
  BY <1>26 DEF Chain, DealStep
<1>27. CASE UNCHANGED vars
  BY <1>27 DEF vars
<1> QED
  BY <1>1, <1>2, <1>3, <1>4, <1>5, <1>6, <1>7, <1>8, <1>9, <1>10, <1>11, <1>12, <1>13,
     <1>14, <1>15, <1>16, <1>17, <1>18, <1>19, <1>20, <1>21, <1>22, <1>23, <1>24, <1>25,
     <1>26, <1>27
  DEF Next, SaveFile, ProofServer, Purge, Recollect, Crash, Prune, PruneDone

\* The databases, the disk, the deals and every place keep their types: in
\* particular no count exceeds the limit by more than one.
THEOREM TypeCorrect == Spec => []TypeOK
<1>1. TInv => TypeOK
  BY DEF TInv
<1> QED
  BY <1>1, InitTInv, TypeStep, PTL DEF Spec

LEMMA TInvInvariant == Spec => []TInv
  BY InitTInv, TypeStep, PTL DEF Spec

-----------------------------------------------------------------------------
(***************************************************************************)
(* Counts and contracts.  Next to OverdueHasContract: DeleteContract comes  *)
(* after the downtime is gone, and an upload in between leaves a 0.         *)
(***************************************************************************)
PurgedIsNotCounted == proofs \in {"purgeContract", "deleteContract"} => downtime[cur] <= 0

CountInv == OverdueHasContract /\ PurgedIsNotCounted

LEMMA CountStep ==
    ASSUME TInv, CountInv, [Next]_vars
    PROVE  CountInv'
<1> USE DEF TInv, TypeOK, CountInv, OverdueHasContract, PurgedIsNotCounted, DB!TypeOK,
            NoEntry
<1>1. CASE UNCHANGED <<contracts, downtime, proofs, cur>>
  BY <1>1
<1>2. CASE /\ UNCHANGED <<contracts, downtime>>
           /\ proofs' \notin {"purgeContract", "deleteContract"}
  BY <1>2
<1>3. ASSUME NEW h \in Handlers, ResetDowntime(h) PROVE CountInv'
  BY <1>3 DEF ResetDowntime, shiftVars, dbVars, Idle, Uploading
<1>4. ASSUME NEW h \in Handlers, CheckContract(h) \/ RecordContract(h) PROVE CountInv'
  BY <1>4 DEF CheckContract, RecordContract, shiftVars, dbVars, DB!Set, DB!Overlap
<1>5. CASE PurgeDowntime
  BY <1>5 DEF PurgeDowntime, dbVars, Phases, PurgeSteps
<1>6. CASE PurgeReadsList \/ PurgeContract
  BY <1>6 DEF PurgeReadsList, PurgeContract, dbVars, DB!Overlap, DB!Delete, Phases, PurgeSteps
<1>7. ASSUME NEW c \in Cids, HandleFound(c) PROVE CountInv'
  BY <1>7 DEF HandleFound, dbVars
<1>8. CASE IncrementDowntime
  BY <1>8 DEF IncrementDowntime, dbVars, WorksOnContracts, Phases, Counting
<1>9. ASSUME NEW c \in Cids, RecollectDeal(c) PROVE CountInv'
  BY <1>9 DEF RecollectDeal, dbVars, DB!Set
<1>10. CASE \E h \in Handlers : (\E c \in Cids : Receive(h, c)) \/ SaveFile(h) \/ UploadFails(h)
  BY <1>1, <1>3, <1>4, <1>10
  DEF Receive, SaveFile, WriteFileToDisk, UploadFails, dbVars, shiftVars
<1>11. CASE ProofServer
  BY <1>1, <1>2, <1>5, <1>6, <1>7, <1>8, <1>11
  DEF ProofServer, Purge, StartShift, ShiftOver, PurgeGetFid, PurgeFile, StartHandling,
      HandleError, HandleNotFound, ReadDowntime, ProveDeal, EndShift, dbVars
<1>12. CASE Recollect
  BY <1>2, <1>9, <1>12 DEF Recollect, ReadPage, Recollected, dbVars
<1>13. CASE ShiftFails \/ RecollectFails \/ Crash \/ PruneDone \/ \E m \in {"serve", "prune"} : Start(m)
  BY <1>2, <1>13 DEF ShiftFails, RecollectFails, Crash, PruneDone, Stop, Start, dbVars
<1>14. CASE Chain \/ (\E f \in Fids : PruneFile(f)) \/ UNCHANGED vars
  BY <1>1, <1>14 DEF Chain, PruneFile, vars, dbVars, shiftVars
<1> QED
  BY <1>10, <1>11, <1>12, <1>13, <1>14 DEF Next, Prune

\* A count is only ever kept for a contract that is recorded, so that no
\* overdue entry makes CleanExpired give up every shift: through crashes, steps
\* of Purge that fail and uploads in the middle of it.
THEOREM OverdueIsRecorded == Spec => []OverdueHasContract
<1>1. Init => CountInv
  BY DEF Init, CountInv, OverdueHasContract, PurgedIsNotCounted, NoEntry, DB!Init
<1>2. TInv /\ CountInv /\ [Next]_vars => CountInv'
  BY CountStep
<1>3. CountInv => OverdueHasContract
  BY DEF CountInv
<1> QED
  BY <1>1, <1>2, <1>3, TInvInvariant, PTL DEF Spec

-----------------------------------------------------------------------------
(***************************************************************************)
(* Counts and misses.  A count is at most the number of shifts that missed  *)
(* the deal, the one being counted included, and what is purged was         *)
(* overdue, unless an upload came in between.                               *)
(***************************************************************************)
CountedMisses ==
    /\ \A c \in Cids : downtime[c] <= misses[c] \/ c \in overlapped
    /\ proofs = "count" =>
          (downtime[cur] + 1 <= misses[cur] /\ 0 < misses[cur]) \/ cur \in overlapped
    /\ proofs = "increment" => missed + 1 <= misses[cur] \/ cur \in overlapped
    /\ proofs \in {"clean"} \cup PurgeSteps =>
          \A c \in todo : misses[c] > MaxMisses \/ c \in overlapped
    /\ proofs \in {"purgeDowntime", "purgeContract", "deleteContract"} =>
          misses[cur] > MaxMisses \/ cur \in overlapped

LEMMA MissesStep ==
    ASSUME TInv, CountInv, CountedMisses, [Next]_vars
    PROVE  CountedMisses'
<1> USE DEF TInv, TypeOK, CountedMisses, NoEntry, PurgeSteps, Counting
<1>1. CASE UNCHANGED <<downtime, misses, overlapped, proofs, cur, todo, missed>>
  BY <1>1
<1>2. CASE /\ UNCHANGED <<downtime, misses, overlapped>>
           /\ proofs' \notin {"clean"} \cup Counting \cup PurgeSteps
  BY <1>2
<1>3. ASSUME NEW h \in Handlers, ResetDowntime(h) PROVE CountedMisses'
  BY <1>3 DEF ResetDowntime, shiftVars, Idle, Uploading, InHand
<1>4. CASE StartShift
  BY <1>4 DEF StartShift, ShiftOver
<1>5. ASSUME NEW c \in Cids, PurgeGetFid(c) PROVE CountedMisses'
  BY <1>5 DEF PurgeGetFid
<1>6. CASE PurgeDowntime
  BY <1>6 DEF PurgeDowntime, Phases
<1>7. CASE PurgeReadsList \/ PurgeContract
  BY <1>7
  DEF PurgeReadsList, PurgeContract, Phases, CountInv, PurgedIsNotCounted, WorksOnContracts
<1>8. CASE PurgeFile
  BY <1>8 DEF PurgeFile
<1>9. ASSUME NEW c \in Cids, HandleFound(c) PROVE CountedMisses'
  BY <1>9 DEF HandleFound
<1>10. ASSUME NEW c \in Cids, HandleNotFound(c) PROVE CountedMisses'
  <2>1. /\ proofs' = "count" /\ cur' = c /\ UNCHANGED <<downtime, overlapped>>
        /\ misses' = [misses EXCEPT ![c] = IF @ > MaxMisses THEN @ ELSE @ + 1]
    BY <1>10 DEF HandleNotFound
  <2>2. downtime[c] <= MaxMisses
    BY <1>10 DEF HandleNotFound, OverdueIsPurged, Handling
  <2>3. \A d \in Cids : misses[d] <= misses'[d]
    BY <2>1
  <2>4. misses'[c] = IF misses[c] > MaxMisses THEN misses[c] ELSE misses[c] + 1
    BY <2>1
  <2>5. (downtime[c] + 1 <= misses'[c] /\ 0 < misses'[c]) \/ c \in overlapped
    BY <2>1, <2>2, <2>4
  <2>6. \A d \in Cids : downtime'[d] <= misses'[d] \/ d \in overlapped'
    <3>1. \A d \in Cids : misses'[d] \in Int
      BY <2>1
    <3> QED
      BY <2>1, <2>3, <3>1
  <2> QED
    BY <2>1, <2>5, <2>6
<1>11. CASE ReadDowntime \/ IncrementDowntime
  BY <1>11 DEF ReadDowntime, IncrementDowntime, Phases
<1>12. CASE \E h \in Handlers : (\E c \in Cids : Receive(h, c)) \/ SaveFile(h) \/ UploadFails(h)
  BY <1>1, <1>3, <1>12
  DEF Receive, SaveFile, WriteFileToDisk, CheckContract, RecordContract, UploadFails, shiftVars
<1>13. CASE ProofServer
  BY <1>2, <1>4, <1>5, <1>6, <1>7, <1>8, <1>9, <1>10, <1>11, <1>13
  DEF ProofServer, Purge, StartHandling, HandleError, ProveDeal, EndShift
<1>14. CASE Recollect
  BY <1>2, <1>14 DEF Recollect, ReadPage, RecollectDeal, Recollected
<1>15. CASE ShiftFails \/ RecollectFails \/ Crash \/ PruneDone \/ \E m \in {"serve", "prune"} : Start(m)
  BY <1>2, <1>15 DEF ShiftFails, RecollectFails, Crash, PruneDone, Stop, Start
<1>16. CASE Chain \/ (\E f \in Fids : PruneFile(f)) \/ UNCHANGED vars
  BY <1>1, <1>16 DEF Chain, PruneFile, vars, shiftVars
<1> QED
  BY <1>12, <1>13, <1>14, <1>15, <1>16 DEF Next, Prune

LEMMA MissesInvariant == Spec => [](TInv /\ CountInv /\ CountedMisses)
<1>1. Init => CountInv /\ CountedMisses
  BY DEF Init, CountInv, OverdueHasContract, PurgedIsNotCounted, CountedMisses, NoEntry,
         PurgeSteps, Counting, DB!Init
<1> QED
  BY <1>1, CountStep, MissesStep, TInvInvariant, PTL DEF Spec

\* Only DeleteContract removes a contract, and it is the one at hand.
LEMMA RemovedIsPurged ==
    ASSUME [Next]_vars, NEW c \in contracts \ contracts'
    PROVE  proofs = "deleteContract" /\ c = cur
<1>1. PurgeContract
  BY DEF Next, Receive, SaveFile, WriteFileToDisk, ResetDowntime, CheckContract,
         RecordContract, UploadFails, ProofServer, StartShift, ShiftOver, PurgeGetFid, Purge,
         PurgeDowntime, PurgeReadsList, PurgeFile, StartHandling, HandleFound, HandleError,
         HandleNotFound, ReadDowntime, IncrementDowntime, ProveDeal, EndShift, ShiftFails,
         Start, Recollect, ReadPage, RecollectDeal, Recollected, RecollectFails, Stop, Crash,
         Prune, PruneFile, PruneDone, Chain, DB!Set, DB!Overlap, dbVars, vars
<1> QED
  BY <1>1 DEF PurgeContract, DB!Delete

\* A contract is removed only after more than MaxMisses shifts that did not
\* find its deal, unless an upload came while the proof server counted a miss or
\* held a count.
THEOREM RemovalIsEarned == Spec => RemovedAfterMisses
<1>1. TInv /\ CountInv /\ CountedMisses /\ [Next]_vars =>
         [\A c \in contracts \ contracts' : misses[c] > MaxMisses \/ c \in overlapped]_vars
  BY RemovedIsPurged DEF CountedMisses
<1> QED
  BY <1>1, MissesInvariant, PTL DEF Spec, RemovedAfterMisses

-----------------------------------------------------------------------------
(***************************************************************************)
(* Files.  What is on the disk, and who will yet put it there or take it    *)
(* away.                                                                    *)
(***************************************************************************)
LEMMA OrphanStep ==
    ASSUME TInv, NoOrphanFiles, [Next]_vars
    PROVE  NoOrphanFiles'
<1> USE DEF TInv, TypeOK, NoOrphanFiles, UploadingTo, Purging, PurgeSteps, DB!ContractsOf,
            DB!TypeOK, dbVars, shiftVars, startVars, noteVars, serverVars, Idle, Uploading
<1>1. ASSUME NEW h \in Handlers, NEW c \in Cids, Receive(h, c) PROVE NoOrphanFiles'
  BY <1>1 DEF Receive
<1>2. ASSUME NEW h \in Handlers, WriteFileToDisk(h) PROVE NoOrphanFiles'
  BY <1>2 DEF WriteFileToDisk
<1>3. ASSUME NEW h \in Handlers, ResetDowntime(h) PROVE NoOrphanFiles'
  BY <1>3 DEF ResetDowntime
<1>4. ASSUME NEW h \in Handlers, CheckContract(h) \/ RecordContract(h) PROVE NoOrphanFiles'
  BY <1>4 DEF CheckContract, RecordContract, DB!Set, DB!Overlap
<1>5. ASSUME NEW h \in Handlers, UploadFails(h) PROVE NoOrphanFiles'
  BY <1>5 DEF UploadFails
<1>6. CASE StartShift
  BY <1>6 DEF StartShift, ShiftOver
<1>7. ASSUME NEW c \in Cids, PurgeGetFid(c) PROVE NoOrphanFiles'
  BY <1>7 DEF PurgeGetFid
<1>8. CASE PurgeDowntime
  BY <1>8 DEF PurgeDowntime
<1>9. CASE PurgeReadsList \/ PurgeContract
  BY <1>9 DEF PurgeReadsList, PurgeContract, DB!Overlap, DB!Delete, Phases, WorksOnContracts
<1>10. CASE PurgeFile
  BY <1>10 DEF PurgeFile
<1>11. CASE ShiftFails
  BY <1>11 DEF ShiftFails, WorksOnContracts, Phases
<1>12. ASSUME NEW c \in Cids, RecollectDeal(c) PROVE NoOrphanFiles'
  BY <1>12 DEF RecollectDeal, DB!Set
<1>13. CASE Stop
  BY <1>13 DEF Stop, WorksOnContracts
<1>14. ASSUME NEW f \in Fids, PruneFile(f) PROVE NoOrphanFiles'
  BY <1>14 DEF PruneFile
<1>15. CASE /\ UNCHANGED <<contracts, raced, disk, upload, interrupted>>
            /\ proofs \notin PurgeSteps
  BY <1>15
<1>16. ASSUME NEW m \in {"serve", "prune"}, Start(m) PROVE NoOrphanFiles'
  BY <1>15, <1>16 DEF Start, Phases
<1>17. CASE UNCHANGED <<contracts, raced, disk, upload, interrupted, proofs, cur>>
  BY <1>17
<1> QED
  BY <1>1, <1>2, <1>3, <1>4, <1>5, <1>6, <1>7, <1>8, <1>9, <1>10, <1>11, <1>12, <1>13,
     <1>14, <1>15, <1>16, <1>17
  DEF Next, SaveFile, ProofServer, Purge, StartHandling, HandleFound, HandleError,
      HandleNotFound, ReadDowntime, IncrementDowntime, ProveDeal, EndShift, Counting,
      Recollect, ReadPage, Recollected, RecollectFails, Crash, Prune, PruneDone, Chain, vars

\* Without a contract, an upload or a purge at work on it, the directory of a
\* file is empty, unless a failure or a crash cut off the upload or the purge
\* of that very file or calls of the contract database overlapped on it.
THEOREM NoFileIsOrphaned == Spec => []NoOrphanFiles
<1>1. Init => NoOrphanFiles
  BY DEF Init, NoOrphanFiles
<1> QED
  BY <1>1, OrphanStep, TInvInvariant, PTL DEF Spec

-----------------------------------------------------------------------------
(***************************************************************************)
(* Uploads that overlap the purge of their file are the collided ones; the  *)
(* others find on disk what they have put there, and a purge that none has  *)
(* overlapped erases a file that is left without a contract.                *)
(***************************************************************************)
CollisionsKnown ==
    \A f \in Fids : UploadingTo(f) /\ Purging(f) => f \in collided

UploadedSoFar ==
    \A h \in Handlers :
        LET f == FidOf[upload[h].cid] IN
        upload[h].pc # "idle" /\ f \notin collided =>
            /\ "tree" \in disk[f]
            /\ upload[h].pc # "file" => "file" \in disk[f]

PurgedIsUnneeded ==
    proofs = "purgeFile" =>
        DB!ContractsOf(FidOf[cur]) = {} \/ FidOf[cur] \in collided \cup raced

FileInv == CollisionsKnown /\ UploadedSoFar /\ PurgedIsUnneeded

LEMMA FileStep ==
    ASSUME TInv, FileInv, [Next]_vars
    PROVE  FileInv'
<1> USE DEF TInv, TypeOK, FileInv, CollisionsKnown, UploadedSoFar, PurgedIsUnneeded,
            UploadingTo, Purging, PurgeSteps, DB!ContractsOf, DB!TypeOK, dbVars, shiftVars,
            startVars, noteVars, serverVars, Idle, Uploading, Complete
<1>1. ASSUME NEW h \in Handlers, NEW c \in Cids, Receive(h, c) PROVE FileInv'
  BY <1>1 DEF Receive
<1>2. ASSUME NEW h \in Handlers, WriteFileToDisk(h) PROVE FileInv'
  BY <1>2 DEF WriteFileToDisk
<1>3. ASSUME NEW h \in Handlers, ResetDowntime(h) PROVE FileInv'
  BY <1>3 DEF ResetDowntime
<1>4. ASSUME NEW h \in Handlers, CheckContract(h) \/ RecordContract(h) PROVE FileInv'
  BY <1>4 DEF CheckContract, RecordContract, DB!Set, DB!Overlap
<1>5. ASSUME NEW h \in Handlers, UploadFails(h) PROVE FileInv'
  BY <1>5 DEF UploadFails
<1>6. ASSUME NEW c \in Cids, PurgeGetFid(c) PROVE FileInv'
  BY <1>6 DEF PurgeGetFid
<1>7. CASE PurgeDowntime
  BY <1>7 DEF PurgeDowntime
<1>8. CASE PurgeReadsList \/ PurgeContract
  BY <1>8 DEF PurgeReadsList, PurgeContract, DB!Overlap, DB!Delete, Phases, WorksOnContracts
<1>9. CASE PurgeFile
  BY <1>9 DEF PurgeFile, Phases
<1>10. ASSUME NEW c \in Cids, RecollectDeal(c) PROVE FileInv'
  BY <1>10 DEF RecollectDeal, DB!Set
<1>11. CASE Stop
  BY <1>11 DEF Stop
<1>12. ASSUME NEW f \in Fids, PruneFile(f) PROVE FileInv'
  BY <1>12 DEF PruneFile, Phases
<1>13. CASE /\ UNCHANGED <<contracts, raced, disk, upload, collided>>
            /\ proofs' \notin PurgeSteps
  BY <1>13
<1>14. CASE UNCHANGED <<contracts, raced, disk, upload, collided, proofs, cur>>
  BY <1>14
<1> QED
  BY <1>1, <1>2, <1>3, <1>4, <1>5, <1>6, <1>7, <1>8, <1>9, <1>10, <1>11, <1>12, <1>13,
     <1>14
  DEF Next, SaveFile, ProofServer, Purge, StartShift, ShiftOver, StartHandling, HandleFound,
      HandleError, HandleNotFound, Counting, ReadDowntime, IncrementDowntime, ProveDeal,
      EndShift, ShiftFails, Start, Recollect, ReadPage, Recollected, RecollectFails, Crash,
      Prune, PruneDone, Chain, vars

LEMMA FileInvariant == Spec => [](TInv /\ FileInv)
<1>1. Init => FileInv
  BY DEF Init, FileInv, CollisionsKnown, UploadedSoFar, PurgedIsUnneeded, UploadingTo, Idle
<1> QED
  BY <1>1, FileStep, TInvInvariant, PTL DEF Spec

\* Only a purge and a prune take anything from the disk, from one directory.
LEMMA ErasedByPurgeOrPrune ==
    ASSUME TInv, [Next]_vars, NEW f \in Fids, ~ (disk[f] \subseteq disk'[f])
    PROVE  PurgeFile \/ PruneFile(f)
<1> USE DEF TInv, TypeOK
<1>1. ASSUME NEW h \in Handlers, NEW c \in Cids, Receive(h, c) PROVE FALSE
  BY <1>1 DEF Receive
<1>2. ASSUME NEW h \in Handlers, WriteFileToDisk(h) PROVE FALSE
  BY <1>2 DEF WriteFileToDisk
<1>3. CASE PurgeFile
  BY <1>3
<1>4. ASSUME NEW g \in Fids, PruneFile(g) PROVE PruneFile(f)
  BY <1>4 DEF PruneFile
<1>5. CASE UNCHANGED disk
  BY <1>5
<1> QED
  BY <1>1, <1>2, <1>3, <1>4, <1>5
  DEF Next, SaveFile, ResetDowntime, CheckContract, RecordContract, UploadFails, ProofServer,
      StartShift, ShiftOver, PurgeGetFid, Purge, PurgeDowntime, PurgeReadsList, PurgeContract,
      StartHandling, HandleFound, HandleError, HandleNotFound, ReadDowntime,
      IncrementDowntime, ProveDeal, EndShift,
      ShiftFails, Start, Recollect, ReadPage, RecollectDeal, Recollected, RecollectFails,
      Stop, Crash, Prune, PruneDone, Chain, vars

\* Erasing a file, by purge or by prune, leaves no contract behind that needs
\* it, unless an upload of the file overlapped the purge, calls of the contract
\* database overlapped on it, or prune could not look it up.
THEOREM ErasesOnlyUnneeded == Spec => EraseOnlyUnneeded
<1> DEFINE Erased(f) == ~ (disk[f] \subseteq disk'[f])
           Excused == (collided \cup raced \cup misread)'
<1>1. ASSUME TInv, FileInv, [Next]_vars, NEW f \in Fids, Erased(f)
      PROVE  DB!ContractsOf(f)' = {} \/ f \in Excused
  <2>1. CASE PurgeFile
    BY <1>1, <2>1 DEF PurgeFile, FileInv, PurgedIsUnneeded, TInv, TypeOK, dbVars, DB!ContractsOf
  <2>2. CASE PruneFile(f)
    BY <1>1, <2>2 DEF PruneFile, dbVars, DB!ContractsOf, DB!GetContracts, TInv, TypeOK
  <2> QED
    BY <1>1, <2>1, <2>2, ErasedByPurgeOrPrune
<1>2. TInv /\ FileInv /\ [Next]_vars =>
         [\A f \in Fids : Erased(f) => DB!ContractsOf(f)' = {} \/ f \in Excused]_vars
  BY <1>1
<1> QED
  BY <1>2, FileInvariant, PTL DEF Spec, EraseOnlyUnneeded

\* An upload records its contract only over a complete file, also after other
\* uploads, crashes and prunes of the same file, if no purge of it overlapped.
THEOREM RecordsOverCompleteFile == Spec => RecordedOverCompleteFile
<1> DEFINE Recorded(h) == upload[h].pc = "setting" /\ upload'[h].pc = "idle" /\ mode' # "down"
           Safe(f) == disk[f] = Complete \/ f \in collided \/ f \in interrupted'
<1>1. ASSUME TInv, FileInv, NEW h \in Handlers, upload[h].pc = "setting"
      PROVE  disk[FidOf[upload[h].cid]] = Complete \/ FidOf[upload[h].cid] \in collided
  BY <1>1 DEF FileInv, UploadedSoFar, TInv, TypeOK, Complete, Idle, Uploading
<1>2. TInv /\ FileInv /\ [Next]_vars =>
         [\A h \in Handlers : Recorded(h) => Safe(FidOf[upload[h].cid])]_vars
  BY <1>1
<1> QED
  BY <1>2, FileInvariant, PTL DEF Spec, RecordedOverCompleteFile

-----------------------------------------------------------------------------
(***************************************************************************)
(* Recollecting.  A deal that has been the provider's all along lies ahead  *)
(* of the next key, is among those kept, or is under contract already.      *)
(***************************************************************************)
Collected ==
    /\ proofs \in {"collect", "recollect"} => Cids \ MyDeals \subseteq lapsed
    /\ proofs = "collect" => MyDeals \ lapsed \subseteq unread \cup todo
    /\ proofs = "recollect" => MyDeals \ lapsed \subseteq todo \cup contracts

LEMMA CollectedStep ==
    ASSUME TInv, Collected, [Next]_vars
    PROVE  Collected'
<1> USE DEF TInv, TypeOK, Collected, MyDeals, dbVars, shiftVars, startVars, noteVars,
            serverVars
<1>1. ASSUME NEW m \in {"serve", "prune"}, Start(m) PROVE Collected'
  BY <1>1 DEF Start
<1>2. ASSUME NEW page \in SUBSET Cids, ReadPage(page) PROVE Collected'
  BY <1>2 DEF ReadPage
<1>3. ASSUME NEW c \in Cids, RecollectDeal(c) PROVE Collected'
  BY <1>3 DEF RecollectDeal, DB!Set
<1>4. CASE Chain
  BY <1>4 DEF Chain, DealStep
<1>5. CASE proofs' \notin {"collect", "recollect"}
  BY <1>5
<1>6. CASE /\ UNCHANGED <<deals, lapsed, unread, todo, proofs>>
           /\ contracts \subseteq contracts'
  BY <1>6
<1>7. ASSUME NEW h \in Handlers, CheckContract(h) \/ RecordContract(h)
      PROVE  contracts \subseteq contracts'
  BY <1>7 DEF CheckContract, RecordContract, DB!Set, DB!Overlap
<1> QED
  BY <1>1, <1>2, <1>3, <1>4, <1>5, <1>6, <1>7
  DEF Next, SaveFile, Receive, WriteFileToDisk, ResetDowntime, CheckContract, RecordContract,
      UploadFails, ProofServer, StartShift, ShiftOver, PurgeGetFid, Purge, PurgeDowntime,
      PurgeReadsList, PurgeContract, PurgeFile, PurgeSteps, StartHandling, HandleFound,
      HandleError, HandleNotFound, Counting, ReadDowntime, IncrementDowntime, ProveDeal,
      EndShift, ShiftFails, Recollect, Recollected,
      RecollectFails, Stop, Crash, Prune, PruneFile, PruneDone, vars

\* When the deals are recollected, every deal that was the provider's all the
\* while is under contract.
THEOREM RecollectsEveryDeal == Spec => RecollectsAll
<1>1. Init => Collected
  BY DEF Init, Collected
<1>2. TInv /\ Collected /\ [Next]_vars => Collected'
  BY CollectedStep
<1>3. Collected => [proofs = "recollect" /\ proofs' = "sleep" /\ todo = {}
                       => MyDeals \ lapsed \subseteq contracts]_vars
  BY DEF Collected
<1> QED
  BY <1>1, <1>2, <1>3, TInvInvariant, PTL DEF Spec, RecollectsAll

=============================================================================
