------------------------------ MODULE FileServer ------------------------------
(***************************************************************************)
(* The provider's file server (server/file_server.go, proofs.go, prune.go): *)
(* upload handlers that write a file and its Merkle tree, post a contract   *)
(* to the chain and then record it; the proof server that looks at every    *)
(* recorded contract in each shift, proves it, counts the shifts in which   *)
(* the chain did not know it, and purges it when there were too many; the   *)
(* start-up that recollects active deals from the chain; and the prune and  *)
(* reset commands.                                                          *)
(*                                                                          *)
(* They share the contract database, the downtime database and the disk.    *)
(* The contract database is ContractMap, which ContractDB implements: its   *)
(* calls begin, may overlap, and take effect in one step.  The chain is the *)
(* environment.                                                             *)
(***************************************************************************)
EXTENDS Contracts, Integers, FiniteSets

CONSTANTS
    NoCid,       \* no contract at hand
    Handlers,    \* goroutines of the http server that serve an upload
    DealStates,  \* bound: the states of a deal the chain goes through
    MaxMisses    \* --max-misses

ASSUME NoCidAssumption == NoCid \notin Cids
ASSUME MaxMissesAssumption == MaxMisses \in Nat
ASSUME DealStatesAssumption ==
    /\ "none" \in DealStates
    /\ DealStates \subseteq {"none", "unverified", "verified", "elsewhere"}

VARIABLES
    contracts,          \* archivedb
    raced,              \* the files on which calls of archivedb overlapped
    purge,              \* what DeleteContract answered the Purge under way
    downtime,           \* downtimedb: shifts missed, NoEntry if there is no key
    disk,               \* which of tree and file the directory of a fid holds
    deals,              \* external: the chain's active deals
    upload,             \* per handler, where saveFile is and for which contract
    mode,               \* the process: not running, jprovd start, jprovd prune
    proofs,             \* where the proof server is
    cur,                \* the contract it is at
    todo,               \* what is left of the snapshot it iterates over
    missed,             \* the downtime it has read to increment
    pruneTodo,          \* the directories PruneExpiredFiles has yet to visit
    unread,             \* what lies behind the key of the next page of deals
    lapsed,             \* history: contracts whose deal was not this provider's
                        \* at some time since the collection of deals began
    misses,             \* history: shifts without the deal since the upload or
                        \* since its downtime was last deleted
    interrupted,        \* history: files whose upload or purge was cut off
    collided,           \* history: files whose upload overlapped a purge
    overlapped,         \* history: contracts uploaded again when InHand
    misread,            \* history: files this prune erased on a failed look-up
    skipped,            \* history: contracts whose proof was left out on the
                        \* answers of other providers, since calm
    calm                \* history: from here on no failure, upload or new deal

dbVars == <<contracts, raced, purge>>
shiftVars == <<proofs, cur, todo, missed>>
startVars == <<pruneTodo, unread, lapsed>>
noteVars == <<misread, skipped, calm>>
vars == <<dbVars, downtime, disk, deals, upload, mode, shiftVars, startVars,
          misses, interrupted, collided, overlapped, noteVars>>

DB == INSTANCE ContractMap

NoEntry == -1
Idle == [pc |-> "idle", cid |-> NoCid]
Uploading == [pc : {"file", "waiting", "recording", "setting"}, cid : Cids]
Complete == {"tree", "file"}

PurgeSteps == {"purgeDowntime", "purgeContract", "deleteContract", "purgeFile"}
Counting == {"count", "increment"}

TypeOK ==
    /\ DB!TypeOK
    /\ downtime \in [Cids -> NoEntry .. MaxMisses + 1]
    /\ disk \in [Fids -> SUBSET Complete]
    /\ deals \in [Cids -> {"none", "unverified", "verified", "elsewhere"}]
    /\ upload \in [Handlers -> {Idle} \cup Uploading]
    /\ mode \in {"down", "serve", "prune"}
    /\ proofs \in {"off", "collect", "recollect", "sleep", "clean", "handle", "prove"}
                     \cup Counting \cup PurgeSteps
    /\ cur \in Cids \cup {NoCid}
    /\ todo \subseteq Cids
    /\ missed \in 0 .. MaxMisses
    /\ pruneTodo \subseteq Fids
    /\ unread \subseteq Cids
    /\ lapsed \subseteq Cids
    /\ misses \in [Cids -> 0 .. MaxMisses + 1]
    /\ interrupted \subseteq Fids
    /\ collided \subseteq Fids
    /\ overlapped \subseteq Cids
    /\ misread \subseteq Fids
    /\ skipped \subseteq Cids
    /\ calm \in BOOLEAN

\* A fresh provider on a chain that may know deals from its earlier life.
Init ==
    /\ DB!Init
    /\ downtime = [c \in Cids |-> NoEntry]
    /\ disk = [f \in Fids |-> {}]
    /\ deals = [c \in Cids |-> "none"]
    /\ upload = [h \in Handlers |-> Idle]
    /\ mode = "down"
    /\ proofs = "off"
    /\ cur = NoCid
    /\ todo = {}
    /\ missed = 0
    /\ pruneTodo = {}
    /\ unread = {}
    /\ lapsed = {}
    /\ misses = [c \in Cids |-> 0]
    /\ interrupted = {}
    /\ collided = {}
    /\ overlapped = {}
    /\ misread = {}
    /\ skipped = {}
    /\ calm = FALSE

-----------------------------------------------------------------------------

UploadingTo(f) ==
    \E h \in Handlers : upload[h].pc # "idle" /\ FidOf[upload[h].cid] = f

Purging(f) == proofs \in PurgeSteps /\ FidOf[cur] = f

\* A call of archivedb on f has begun and not yet returned.
InCall(f) ==
    \/ \E h \in Handlers : upload[h].pc = "setting" /\ FidOf[upload[h].cid] = f
    \/ proofs = "deleteContract" /\ FidOf[cur] = f

\* The proof server acts on a deal it did not find, or on a downtime it read.
InHand(c) ==
    \/ cur = c /\ proofs \in Counting \cup PurgeSteps
    \/ c \in todo /\ proofs \in {"clean"} \cup PurgeSteps

Running == mode # "down" /\ proofs \notin {"off", "collect", "recollect"}

MyDeals == {c \in Cids : deals[c] \in {"unverified", "verified"}}

-----------------------------------------------------------------------------
(* saveFile: one upload, in the order of the code. *)

\* A file arrives; its fid, tree and cid are computed from it in memory, and
\* WriteTreeToDisk is the first thing anyone else can see.
Receive(h, c) ==
    LET f == FidOf[c] IN
    /\ mode = "serve" /\ Running /\ ~ calm
    /\ upload[h].pc = "idle"
    /\ disk' = [disk EXCEPT ![f] = @ \cup {"tree"}]
    /\ upload' = [upload EXCEPT ![h] = [pc |-> "file", cid |-> c]]
    /\ collided' = IF Purging(f) THEN collided \cup {f} ELSE collided
    /\ UNCHANGED <<dbVars, downtime, deals, mode, shiftVars, startVars,
                   misses, interrupted, overlapped, noteVars>>

\* Mutant: a directory that is there is taken for the file.
WriteFileOnce(h) ==
    LET f == FidOf[upload[h].cid] IN
    /\ upload[h].pc = "file"
    /\ disk' = [disk EXCEPT ![f] = IF @ = {} THEN Complete ELSE @]
    /\ upload' = [upload EXCEPT ![h].pc = "waiting"]
    /\ UNCHANGED <<dbVars, downtime, deals, mode, shiftVars, startVars,
                   misses, interrupted, collided, overlapped, noteVars>>

WriteFileToDisk(h) ==
    /\ upload[h].pc = "file"
    /\ disk' = [disk EXCEPT ![FidOf[upload[h].cid]] = @ \cup {"file"}]
    /\ upload' = [upload EXCEPT ![h].pc = "waiting"]
    /\ UNCHANGED <<dbVars, downtime, deals, mode, shiftVars, startVars,
                   misses, interrupted, collided, overlapped, noteVars>>

\* The queue answers, with whatever the transaction came to: a failed one is
\* reported to the user and the handler goes on all the same.  Then comes
\* saveToDatabase: first the downtime is reset ...
ResetDowntime(h) ==
    LET c == upload[h].cid IN
    /\ upload[h].pc = "waiting"
    /\ downtime' = [downtime EXCEPT ![c] = 0]
    /\ misses' = [misses EXCEPT ![c] = 0]
    /\ upload' = [upload EXCEPT ![h].pc = "recording"]
    /\ overlapped' = IF InHand(c) THEN overlapped \cup {c} ELSE overlapped
    /\ UNCHANGED <<dbVars, disk, deals, mode, shiftVars, startVars,
                   interrupted, collided, noteVars>>

\* ... then SetContract looks the contract up: one that exists is an error ...
CheckContract(h) ==
    LET c == upload[h].cid IN
    /\ upload[h].pc = "recording"
    /\ IF c \in contracts
       THEN upload' = [upload EXCEPT ![h] = Idle] /\ UNCHANGED dbVars
       ELSE /\ upload' = [upload EXCEPT ![h].pc = "setting"]
            /\ IF InCall(FidOf[c]) THEN DB!Overlap(FidOf[c]) ELSE UNCHANGED dbVars
    /\ UNCHANGED <<downtime, disk, deals, mode, shiftVars, startVars,
                   misses, interrupted, collided, overlapped, noteVars>>

\* ... and writes it.
RecordContract(h) ==
    /\ upload[h].pc = "setting"
    /\ DB!Set(upload[h].cid)
    /\ upload' = [upload EXCEPT ![h] = Idle]
    /\ UNCHANGED <<downtime, disk, deals, mode, shiftVars, startVars,
                   misses, interrupted, collided, overlapped, noteVars>>

\* Any of the steps can fail: saveFile returns and undoes nothing.
UploadFails(h) ==
    /\ ~ calm
    /\ upload[h].pc # "idle"
    /\ interrupted' = interrupted \cup {FidOf[upload[h].cid]}
    /\ upload' = [upload EXCEPT ![h] = Idle]
    /\ UNCHANGED <<dbVars, downtime, disk, deals, mode, shiftVars, startVars,
                   misses, collided, overlapped, noteVars>>

SaveFile(h) ==
    WriteFileToDisk(h) \/ ResetDowntime(h) \/ CheckContract(h) \/ RecordContract(h)

-----------------------------------------------------------------------------
(* startShift: CleanExpired over a snapshot of the downtime database. *)

serverVars == <<deals, upload, mode, startVars, noteVars>>

\* A shift whose CleanExpired will purge the given contracts.
ShiftOver(overdue) ==
    /\ proofs = "sleep"
    /\ proofs' = "clean"
    /\ todo' = overdue
    /\ UNCHANGED <<dbVars, downtime, disk, serverVars, cur, missed,
                   misses, interrupted, collided, overlapped>>

\* Mutants: one shift late, one shift early.
StartShiftLate == ShiftOver({c \in Cids : downtime[c] > MaxMisses + 1})
StartShiftEarly == ShiftOver({c \in Cids : downtime[c] >= MaxMisses})

StartShift == ShiftOver({c \in Cids : downtime[c] > MaxMisses})

\* Purge starts with GetFid; a contract that is not there ends the shift.
PurgeGetFid(c) ==
    /\ proofs = "clean"
    /\ c \in todo
    /\ IF c \in contracts
       THEN /\ proofs' = "purgeDowntime"
            /\ cur' = c
            /\ todo' = todo \ {c}
            /\ collided' = IF UploadingTo(FidOf[c]) THEN collided \cup {FidOf[c]}
                                                    ELSE collided
       ELSE /\ proofs' = "sleep"
            /\ todo' = {}
            /\ UNCHANGED <<cur, collided>>
    /\ UNCHANGED <<dbVars, downtime, disk, serverVars, missed,
                   misses, interrupted, overlapped>>

\* Mutant: the entry of the downtime database stays.
PurgeKeepDowntime ==
    /\ proofs = "purgeDowntime"
    /\ proofs' = "purgeContract"
    /\ UNCHANGED <<dbVars, downtime, disk, serverVars, cur, todo, missed,
                   misses, interrupted, collided, overlapped>>

PurgeDowntime ==
    /\ proofs = "purgeDowntime"
    /\ downtime' = [downtime EXCEPT ![cur] = NoEntry]
    /\ proofs' = "purgeContract"
    /\ UNCHANGED <<dbVars, disk, serverVars, cur, todo, missed,
                   misses, interrupted, collided, overlapped>>

\* DeleteContract reads the contract and the list of its file ...
PurgeReadsList ==
    /\ proofs = "purgeContract"
    /\ IF InCall(FidOf[cur]) THEN DB!Overlap(FidOf[cur]) ELSE UNCHANGED dbVars
    /\ proofs' = "deleteContract"
    /\ UNCHANGED <<downtime, disk, serverVars, cur, todo, missed,
                   misses, interrupted, collided, overlapped>>

\* Mutant: the answer of DeleteContract is not looked at.
PurgeContractOnly ==
    /\ proofs = "deleteContract"
    /\ DB!Delete(cur)
    /\ proofs' = "clean" /\ cur' = NoCid
    /\ misses' = [misses EXCEPT ![cur] = 0]
    /\ overlapped' = overlapped \ {cur}
    /\ UNCHANGED <<downtime, disk, serverVars, todo, missed, interrupted, collided>>

\* ... and deletes.  The file goes only if the contract was its last.
PurgeContract ==
    /\ proofs = "deleteContract"
    /\ DB!Delete(cur)
    /\ IF purge' = NoFid
       THEN proofs' = "clean" /\ cur' = NoCid
       ELSE proofs' = "purgeFile" /\ UNCHANGED cur
    /\ misses' = [misses EXCEPT ![cur] = 0]
    /\ overlapped' = overlapped \ {cur}
    /\ UNCHANGED <<downtime, disk, serverVars, todo, missed, interrupted, collided>>

\* archive.Delete removes the directory.
PurgeFile ==
    /\ proofs = "purgeFile"
    /\ disk' = [disk EXCEPT ![FidOf[cur]] = {}]
    /\ interrupted' = interrupted \ {FidOf[cur]}
    /\ proofs' = "clean"
    /\ cur' = NoCid
    /\ purge' = NoFid
    /\ UNCHANGED <<contracts, raced, downtime, serverVars, todo, missed,
                   misses, collided, overlapped>>

Purge == PurgeDowntime \/ PurgeReadsList \/ PurgeContract \/ PurgeFile

-----------------------------------------------------------------------------
(* handleContracts over a snapshot of the contract database. *)

StartHandling ==
    /\ proofs = "clean"
    /\ todo = {}
    /\ proofs' = "handle"
    /\ todo' = contracts
    /\ UNCHANGED <<dbVars, downtime, disk, serverVars, cur, missed,
                   misses, interrupted, collided, overlapped>>

\* QueryActiveDeal and ContractState: the state of the deal, whoever holds it,
\* or an error, which handleContracts only logs.
Answers(c) ==
    (CASE deals[c] = "none"       -> {"NotFound"}
       [] deals[c] = "unverified" -> {"NotVerified"}
       [] deals[c] = "verified"   -> {"Verified"}
       [] deals[c] = "elsewhere"  -> {"Verified", "NotVerified"})
    \cup (IF calm THEN {} ELSE {"Error"})

\* Mutant: no proof for a deal that is not verified.
HandleFoundIdle(c) ==
    /\ proofs = "handle" /\ c \in todo
    /\ Answers(c) \cap {"Verified", "NotVerified"} # {}
    /\ downtime' = [downtime EXCEPT ![c] = NoEntry]
    /\ misses' = [misses EXCEPT ![c] = 0]
    /\ todo' = todo \ {c}
    /\ UNCHANGED <<dbVars, disk, serverVars, proofs, cur, missed,
                   interrupted, collided, overlapped>>

\* The downtime of a deal the chain knows is deleted, and a failure to do so
\* only logged; a deal that is not verified is to be proved as well.
HandleFound(c) ==
    /\ proofs = "handle" /\ c \in todo
    /\ \E state \in Answers(c) \cap {"Verified", "NotVerified"} :
          IF state = "Verified" THEN UNCHANGED <<proofs, cur>>
                                ELSE proofs' = "prove" /\ cur' = c
    /\ \/ /\ downtime' = [downtime EXCEPT ![c] = NoEntry]
          /\ misses' = [misses EXCEPT ![c] = 0]
       \/ ~ calm /\ UNCHANGED <<downtime, misses>>
    /\ todo' = todo \ {c}
    /\ UNCHANGED <<dbVars, disk, serverVars, missed, interrupted, collided, overlapped>>

HandleError(c) ==
    /\ proofs = "handle" /\ c \in todo
    /\ "Error" \in Answers(c)
    /\ todo' = todo \ {c}
    /\ UNCHANGED <<dbVars, downtime, disk, serverVars, proofs, cur, missed,
                   misses, interrupted, collided, overlapped>>

\* A deal the chain does not know: its contract has missed this shift.
HandleNotFound(c) ==
    /\ proofs = "handle" /\ c \in todo
    /\ "NotFound" \in Answers(c)
    /\ proofs' = "count"
    /\ cur' = c
    /\ misses' = [misses EXCEPT ![c] = IF @ > MaxMisses THEN @ ELSE @ + 1]
    /\ todo' = todo \ {c}
    /\ UNCHANGED <<dbVars, downtime, disk, serverVars, missed,
                   interrupted, collided, overlapped>>

\* IncrementDowntime reads the downtime, none counting as 0 ...
ReadDowntime ==
    /\ proofs = "count"
    /\ proofs' = "increment"
    /\ missed' = IF downtime[cur] = NoEntry THEN 0 ELSE downtime[cur]
    /\ UNCHANGED <<dbVars, downtime, disk, serverVars, cur, todo,
                   misses, interrupted, collided, overlapped>>

\* Mutant: it writes back what it read.
IncrementNothing ==
    /\ proofs = "increment"
    /\ downtime' = [downtime EXCEPT ![cur] = missed]
    /\ proofs' = "handle"
    /\ cur' = NoCid
    /\ missed' = 0
    /\ UNCHANGED <<dbVars, disk, serverVars, todo,
                   misses, interrupted, collided, overlapped>>

\* ... and writes it back plus one.
IncrementDowntime ==
    /\ proofs = "increment"
    /\ downtime' = [downtime EXCEPT ![cur] = missed + 1]
    /\ proofs' = "handle"
    /\ cur' = NoCid
    /\ missed' = 0
    /\ UNCHANGED <<dbVars, disk, serverVars, todo,
                   misses, interrupted, collided, overlapped>>

\* Prove needs the tree and the piece from disk.  With them it asks for
\* attestations and, wanting those, posts the proof; both go through the queue,
\* which only jprovd start runs.  The deal is verified when others attested it
\* or the chain takes the proof, which it may turn down.  Enough answers that
\* attest nothing (module Attestation) leave the proof out and the deal as it is.
ProveDeal ==
    /\ proofs = "prove"
    /\ \/ /\ disk[FidOf[cur]] # Complete
          /\ UNCHANGED <<deals, skipped>>
       \/ /\ disk[FidOf[cur]] = Complete
          /\ mode = "serve"
          /\ \/ /\ deals' = IF deals[cur] = "unverified"
                            THEN [deals EXCEPT ![cur] = "verified"] ELSE deals
                /\ UNCHANGED skipped
             \/ /\ skipped' = IF calm THEN skipped \cup {cur} ELSE skipped
                /\ UNCHANGED deals
             \/ ~ calm /\ UNCHANGED <<deals, skipped>>
    /\ proofs' = "handle"
    /\ cur' = NoCid
    /\ UNCHANGED <<dbVars, downtime, disk, upload, mode, todo, missed, startVars,
                   misses, interrupted, collided, overlapped, misread, calm>>

EndShift ==
    /\ proofs = "handle"
    /\ todo = {}
    /\ proofs' = "sleep"
    /\ UNCHANGED <<dbVars, downtime, disk, serverVars, cur, todo, missed,
                   misses, interrupted, collided, overlapped>>

\* A read, a write or a removal fails, or DeleteContract finds no list, where
\* calls overlapped: startShift returns the error.
ShiftFails ==
    /\ \/ ~ calm /\ proofs \in PurgeSteps \cup Counting
       \/ ~ calm /\ proofs = "clean" /\ todo # {}
       \/ proofs \in {"purgeContract", "deleteContract"} /\ FidOf[cur] \in raced
    /\ proofs' = "sleep"
    /\ cur' = NoCid
    /\ todo' = {}
    /\ missed' = 0
    /\ interrupted' = IF proofs = "purgeFile" THEN interrupted \cup {FidOf[cur]}
                                              ELSE interrupted
    /\ purge' = NoFid
    /\ UNCHANGED <<contracts, raced, downtime, disk, serverVars,
                   misses, collided, overlapped>>

ProofServer ==
    \/ StartShift
    \/ \E c \in Cids : PurgeGetFid(c)
    \/ Purge
    \/ StartHandling
    \/ \E c \in Cids : HandleFound(c) \/ HandleError(c) \/ HandleNotFound(c)
    \/ ReadDowntime \/ IncrementDowntime
    \/ ProveDeal
    \/ EndShift

-----------------------------------------------------------------------------
(* Start-up, shutdown and crash; the prune and reset commands. *)

\* The process starts; RecollectActiveDeals asks the chain for its deals.
Start(m) ==
    /\ mode = "down"
    /\ mode' = m
    /\ proofs' = "collect"
    /\ unread' = Cids
    /\ lapsed' = Cids \ MyDeals
    /\ UNCHANGED <<dbVars, downtime, disk, deals, upload, cur, todo, missed, pruneTodo,
                   misses, interrupted, collided, overlapped, noteVars>>

\* Mutant of ReadPage: the key moves on although the request failed.
ReadPageOrNot(page) ==
    /\ proofs = "collect"
    /\ page # {} /\ page \subseteq unread
    /\ unread' = unread \ page
    /\ \/ todo' = todo \cup (page \cap MyDeals)
       \/ ~ calm /\ unread # Cids /\ UNCHANGED todo
    /\ proofs' = IF unread' = {} THEN "recollect" ELSE "collect"
    /\ UNCHANGED <<dbVars, downtime, disk, deals, upload, mode, cur, missed, pruneTodo,
                   lapsed, misses, interrupted, collided, overlapped, noteVars>>

\* The next page of the chain's deals, as they are by now, of which it keeps
\* the provider's.  A request that fails is repeated after a minute, with the
\* same key: nothing changes.
ReadPage(page) ==
    /\ proofs = "collect"
    /\ page # {} /\ page \subseteq unread
    /\ unread' = unread \ page
    /\ todo' = todo \cup (page \cap MyDeals)
    /\ proofs' = IF unread' = {} THEN "recollect" ELSE "collect"
    /\ UNCHANGED <<dbVars, downtime, disk, deals, upload, mode, cur, missed, pruneTodo,
                   lapsed, misses, interrupted, collided, overlapped, noteVars>>

RecollectDeal(c) ==
    /\ proofs = "recollect"
    /\ c \in todo
    /\ IF c \in contracts THEN UNCHANGED dbVars ELSE DB!Set(c)
    /\ todo' = todo \ {c}
    /\ UNCHANGED <<downtime, disk, serverVars, proofs, cur, missed,
                   misses, interrupted, collided, overlapped>>

\* The proof server starts; jprovd prune lists the directories.
Recollected ==
    /\ proofs = "recollect"
    /\ todo = {}
    /\ proofs' = "sleep"
    /\ pruneTodo' = IF mode = "prune" THEN {f \in Fids : disk[f] # {}} ELSE {}
    /\ lapsed' = {}
    /\ UNCHANGED <<dbVars, downtime, disk, deals, upload, mode, cur, todo, missed, unread,
                   misses, interrupted, collided, overlapped, noteVars>>

Recollect ==
    \/ \E page \in SUBSET Cids : ReadPage(page)
    \/ \E c \in Cids : RecollectDeal(c)
    \/ Recollected

\* The process ends, in an orderly way or not: what was in memory is gone.
Stop ==
    /\ mode' = "down"
    /\ proofs' = "off"
    /\ cur' = NoCid
    /\ todo' = {}
    /\ missed' = 0
    /\ pruneTodo' = {}
    /\ unread' = {}
    /\ lapsed' = {}
    /\ upload' = [h \in Handlers |-> Idle]
    /\ interrupted' = interrupted
          \cup {f \in Fids : UploadingTo(f) \/ (proofs = "purgeFile" /\ FidOf[cur] = f)}
    /\ misread' = {}
    /\ purge' = NoFid
    /\ UNCHANGED <<contracts, raced, downtime, disk, deals, misses, collided, overlapped,
                   skipped, calm>>

\* Recollecting fails, at the first page or at a contract: jprovd start logs
\* it and goes on, jprovd prune ends.
RecollectFails ==
    /\ ~ calm
    /\ \/ proofs = "collect" /\ unread = Cids
       \/ proofs = "recollect" /\ todo # {}
    /\ \/ /\ mode = "serve"
          /\ proofs' = "sleep"
          /\ todo' = {}
          /\ unread' = {}
          /\ lapsed' = {}
          /\ UNCHANGED <<dbVars, downtime, disk, deals, upload, mode, cur, missed, pruneTodo,
                         misses, interrupted, collided, overlapped, noteVars>>
       \/ mode = "prune" /\ Stop

Crash ==
    /\ ~ calm
    /\ mode # "down"
    /\ Stop

\* Mutant: the contracts of the file are not looked up.
PruneAnyFile(f) ==
    /\ f \in pruneTodo
    /\ disk' = [disk EXCEPT ![f] = {}]
    /\ interrupted' = interrupted \ {f}
    /\ pruneTodo' = pruneTodo \ {f}
    /\ UNCHANGED <<dbVars, downtime, deals, upload, mode, shiftVars, unread, lapsed,
                   misses, collided, overlapped, noteVars>>

\* PruneExpiredFiles removes the directory of a file for which GetContracts
\* answers no contract, and a look-up that fails answers the same.
PruneFile(f) ==
    /\ f \in pruneTodo
    /\ \/ /\ {} \in DB!GetContracts(f)
          /\ disk' = [disk EXCEPT ![f] = {}]
          /\ interrupted' = interrupted \ {f}
          /\ UNCHANGED misread
       \/ /\ ~ calm
          /\ disk' = [disk EXCEPT ![f] = {}]
          /\ interrupted' = interrupted \ {f}
          /\ misread' = misread \cup {f}
       \/ /\ DB!GetContracts(f) # {{}}
          /\ UNCHANGED <<disk, interrupted, misread>>
    /\ pruneTodo' = pruneTodo \ {f}
    /\ UNCHANGED <<dbVars, downtime, deals, upload, mode, shiftVars, unread, lapsed,
                   misses, collided, overlapped, skipped, calm>>

PruneDone ==
    /\ mode = "prune" /\ Running
    /\ pruneTodo = {}
    /\ Stop

Prune == (\E f \in Fids : PruneFile(f)) \/ PruneDone

\* jprovd reset removes the storage and the contract database.
Reset ==
    /\ mode = "down" /\ ~ calm
    /\ contracts' = {}
    /\ purge' = NoFid
    /\ raced' = {}
    /\ disk' = [f \in Fids |-> {}]
    /\ interrupted' = {}
    /\ UNCHANGED <<downtime, deals, upload, mode, shiftVars, startVars,
                   misses, collided, overlapped, noteVars>>

-----------------------------------------------------------------------------
(* The environment: users sign and cancel, the chain expires proofs, and a  *)
(* deal that is burned may be claimed by another provider.                  *)

DealStep == [none       |-> {"unverified", "elsewhere"},
             unverified |-> {"none"},
             verified   |-> {"unverified", "none"},
             elsewhere  |-> {"none"}]

Chain ==
    /\ ~ calm
    /\ \E c \in Cids : \E d \in DealStep[deals[c]] \cap DealStates :
          /\ deals' = [deals EXCEPT ![c] = d]
          /\ lapsed' = IF proofs \in {"collect", "recollect"} /\ d \in {"none", "elsewhere"}
                       THEN lapsed \cup {c} ELSE lapsed
    /\ UNCHANGED <<dbVars, downtime, disk, upload, mode, shiftVars, pruneTodo, unread,
                   misses, interrupted, collided, overlapped, noteVars>>

Calm ==
    /\ ~ calm
    /\ calm' = TRUE
    /\ UNCHANGED <<dbVars, downtime, disk, deals, upload, mode, shiftVars, startVars,
                   misses, interrupted, collided, overlapped, misread, skipped>>

Next ==
    \/ \E h \in Handlers : (\E c \in Cids : Receive(h, c)) \/ SaveFile(h) \/ UploadFails(h)
    \/ ProofServer
    \/ ShiftFails
    \/ Start("serve")
    \/ ~ calm /\ Start("prune")
    \/ Recollect
    \/ RecollectFails
    \/ Crash
    \/ Prune
    \/ Chain

Spec == Init /\ [][Next]_vars

\* The operator also resets the provider now and then.
ResetSpec == Init /\ [][Next \/ Reset]_vars

\* StartProofServer loops for ever, a started upload runs on, a process that
\* is down is started again, and a prune runs to its end.
Fairness ==
    /\ WF_vars(ProofServer)
    /\ \A h \in Handlers : WF_vars(SaveFile(h))
    /\ WF_vars(Start("serve"))
    /\ WF_vars(Recollect)
    /\ WF_vars(Prune)

FairSpec == Init /\ [][Next \/ Calm]_vars /\ Fairness

-----------------------------------------------------------------------------

\* Downtime is only ever counted for a contract that is recorded.  CleanExpired
\* gives up the whole shift when an overdue entry has no contract, and no
\* contract would be proved any more; neither crashes and failed steps inside
\* Purge nor uploads in the middle of one may leave such an entry behind.
OverdueHasContract ==
    \A c \in Cids : downtime[c] > 0 => c \in contracts

\* The disk keeps no file that nothing refers to: without a contract, an
\* upload or a purge at work on it, the directory of a file is empty, unless a
\* failure or a crash cut the upload or the purge of that very file off, or
\* calls of the contract database overlapped on it: then its list may name a
\* contract twice, and DeleteContract never answers that it was the last.
NoOrphanFiles ==
    \A f \in Fids :
        \/ disk[f] = {}
        \/ DB!ContractsOf(f) # {}
        \/ UploadingTo(f)
        \/ Purging(f)
        \/ f \in interrupted
        \/ f \in raced

\* When the deals are recollected, every deal that was the provider's all the
\* while is under contract: neither deals that came and went between two pages
\* nor requests that failed in between cost it one.
RecollectsAll ==
    [][proofs = "recollect" /\ proofs' = "sleep" /\ todo = {}
         => MyDeals \ lapsed \subseteq contracts]_vars

\* README: contracts last until the user cancels them.  Erasing a file, by
\* purge or by prune, leaves no contract behind that needs it.  There are
\* three exceptions: an upload overlapped the purge of the file, calls of the
\* contract database overlapped on it, or prune could not look it up and took
\* that for no contract.
EraseOnlyUnneeded ==
    [][\A f \in Fids :
          ~ (disk[f] \subseteq disk'[f]) =>
              DB!ContractsOf(f)' = {} \/ f \in (collided \cup raced \cup misread)']_vars

\* An upload records its contract only over a complete file, also after other
\* uploads, crashes and prunes of the same file, if no purge of it overlapped.
RecordedOverCompleteFile ==
    [][\A h \in Handlers :
          LET f == FidOf[upload[h].cid] IN
          upload[h].pc = "setting" /\ upload'[h].pc = "idle" /\ mode' # "down"
             => disk[f] = Complete \/ f \in collided \/ f \in interrupted']_vars

\* The flag --max-misses: "The amount of intervals a provider can miss their
\* proofs before removing a file".  A contract is removed only after more than
\* that many shifts that did not find its deal, counted from the last upload
\* and from the last shift that cleared its downtime, unless an upload came
\* while the proof server counted a miss of it or held a count to act on.
RemovedAfterMisses ==
    [][\A c \in contracts \ contracts' : misses[c] > MaxMisses \/ c \in overlapped]_vars

\* Once failures, new uploads and the chain settle down, a contract without a
\* deal is removed, and the directory with it if no other contract needs it.
\* The exceptions are a purge cut off between the two, which also the end of
\* jprovd prune does (it takes the proof server down at whatever it is doing),
\* and a file on which calls of the contract database overlapped.
ExpiredIsRemoved ==
    \A c \in Cids :
        calm /\ c \in contracts /\ deals[c] = "none"
            ~> \/ /\ c \notin contracts
                  /\ \/ DB!ContractsOf(FidOf[c]) # {}
                     \/ disk[FidOf[c]] = {}
                     \/ FidOf[c] \in interrupted
               \/ FidOf[c] \in raced

\* Then, too, a shift comes to a recorded deal whose file is complete and has
\* it verified, or leaves the proof out on the answers of other providers, which
\* may be worth nothing.  An overdue count from before the deal became active
\* may remove it first, and a purge that overlapped the upload, or calls of the
\* contract database that overlapped, may cost it its file.
UnverifiedIsProved ==
    \A c \in Cids :
        calm /\ c \in contracts /\ deals[c] = "unverified" /\ disk[FidOf[c]] = Complete
            ~> \/ deals[c] = "verified" \/ c \in skipped
               \/ c \notin contracts \/ FidOf[c] \in collided \cup raced

=============================================================================
