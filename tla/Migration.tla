------------------------------- MODULE Migration -------------------------------
(***************************************************************************)
(* jprovd migrate (jprovd/provider_commands.go, utils/migrate.go): it walks *)
(* over the directories of the storage and turns the old layout, a file per *)
(* block and the Merkle tree beside the directory, into the new one, one    *)
(* file and its tree in the directory.  A file that fails the check against *)
(* its tree has its directory renamed to corrupted-<name>.                  *)
(*                                                                          *)
(* Beside it the proof server may purge files, HybridCellArchive reads both *)
(* layouts, and --prune-first or jprovd prune removes directories that have *)
(* no contract.  The process may die anywhere and the command be run again. *)
(* A directory name is <<f, d>>: the file id f behind d times "corrupted-". *)
(***************************************************************************)
EXTENDS Integers, FiniteSets

CONSTANTS
    Fids,
    NoFid,       \* no file at hand
    BlockCount,  \* the blocks of a file
    ShortLast,   \* the files whose last block is shorter than the others
    MaxDepth     \* bound: how often a directory is marked corrupted

ASSUME NoFidAssumption == NoFid \notin Fids
ASSUME BlockCountAssumption == BlockCount \in Nat \ {0}
ASSUME ShortLastAssumption == ShortLast \subseteq Fids
ASSUME MaxDepthAssumption == MaxDepth \in Nat \ {0}

VARIABLES
    dir,        \* what each directory holds
    oldTree,    \* the files whose tree is in the storage, beside the directory
    contracts,  \* the files under contract
    step,       \* where the command is
    at,         \* the directory it is at
    todo,       \* the directories it has yet to visit, as it listed them
    count,      \* the blocks GlueAllBlocks counted
    purging,    \* the file the proof server is about to erase
    reader,     \* where a reader of the hybrid archive is
    troubled,   \* history: files since whose last arrival the storing, glueing
                \* or removing was cut off or an access to the disk failed
    misjudged,  \* history: files marked corrupted that were complete
    unbacked,   \* history: files under contract whose directory was erased all
                \* the same, is about to be, or never held them
    unchecked   \* history: files stored from an answer that was not the file

commandVars == <<step, at, todo, count>>
diskVars == <<dir, oldTree>>
historyVars == <<troubled, misjudged, unbacked, unchecked>>
vars == <<diskVars, contracts, commandVars, purging, reader, historyVars>>

Blocks == 0 .. BlockCount - 1
Names == Fids \X (0 .. MaxDepth)
NoName == <<NoFid, 0>>
FidOf(x) == x[1]
Depth(x) == x[2]
Marked(x) == <<x[1], x[2] + 1>>   \* "corrupted-" + name

\* The blocks, how many blocks the file of the directory's name holds (NoFile
\* if it is not there), the tree of that name, and whether a complete file of
\* an older name of the directory lies there too.
NoFile == -1
Contents == [blocks : SUBSET Blocks, file : NoFile .. BlockCount,
             tree : BOOLEAN, renamed : BOOLEAN]
Nothing == [blocks |-> {}, file |-> NoFile, tree |-> FALSE, renamed |-> FALSE]

Wants == Blocks \cup {BlockCount}   \* a piece, or the tree
Reading == [pc : {"legacy", "single", "found", "padded", "missing"},
            fid : Fids, want : Wants]
NotReading == [pc |-> "idle", fid |-> NoFid, want |-> 0]

TypeOK ==
    /\ dir \in [Names -> Contents]
    /\ oldTree \subseteq Fids
    /\ contracts \subseteq Fids
    /\ step \in {"off", "prune", "find", "glue", "tree", "check", "clean"}
    /\ at \in Names \cup {NoName}
    /\ todo \subseteq Names
    /\ count \in 0 .. BlockCount
    /\ purging \in Fids \cup {NoFid}
    /\ reader \in Reading \cup {NotReading}
    /\ troubled \subseteq Fids
    /\ misjudged \subseteq Fids
    /\ unbacked \subseteq Fids
    /\ unchecked \subseteq Fids

\* What the old version leaves: the first blocks of a file, all of them unless
\* it was interrupted; and what the present one writes.
Legacy(k) == [Nothing EXCEPT !.blocks = 0 .. k - 1]
Single == [Nothing EXCEPT !.file = BlockCount, !.tree = TRUE]

Init ==
    /\ \E first \in [Fids -> {Legacy(k) : k \in 1 .. BlockCount} \cup {Single}] :
          /\ dir = [x \in Names |-> IF Depth(x) = 0 THEN first[FidOf(x)] ELSE Nothing]
          /\ oldTree = {f \in Fids : first[f] # Single}
    /\ contracts \in SUBSET Fids
    /\ step = "off"
    /\ at = NoName
    /\ todo = {}
    /\ count = 0
    /\ purging = NoFid
    /\ reader = NotReading
    /\ troubled = {}
    /\ misjudged = {}
    /\ unbacked = {}
    /\ unchecked = {}

-----------------------------------------------------------------------------

Here == dir[at]
Listed == {x \in Names : dir[x] # Nothing /\ Depth(x) < MaxDepth}

\* The whole file is at hand in the directory, in either layout.
Complete(c) == c.blocks = Blocks \/ c.file = BlockCount

\* Some directory still holds all of the file, under whatever name.
OnDisk(f) == \E x \in Names : FidOf(x) = f /\ (Complete(dir[x]) \/ dir[x].renamed)

NextDir == step' = "find" /\ at' = NoName /\ count' = 0

\* The command starts, in a process of its own, and records deals the chain
\* has of the provider, whether their files are there or not; --prune-first
\* lists the directories.
Start ==
    /\ step = "off"
    /\ \/ step' = "prune"
       \/ step' = "find"
    /\ todo' = Listed
    /\ \E recollected \in SUBSET (Fids \ contracts) :
          /\ contracts' = contracts \cup recollected
          /\ unbacked' = unbacked \cup
                {f \in recollected : ~ Complete(dir[<<f, 0>>]) \/ f \in unchecked}
    /\ purging' = NoFid
    /\ reader' = NotReading
    /\ UNCHANGED <<diskVars, at, count, troubled, misjudged, unchecked>>

\* What a removal of a directory may leave when it is cut off.
Remains(c) == [blocks : SUBSET c.blocks, file : {c.file, NoFile},
               tree : {c.tree, FALSE}, renamed : {c.renamed, FALSE}]

\* PruneExpiredFiles removes a directory, the tree beside it first, when there
\* is no contract of its name: a directory marked corrupted never has one, and
\* a look-up that fails reads as none.  A removal that fails ends it.
PruneDir(x) ==
    LET f == FidOf(x)
        ours == Depth(x) = 0 /\ f \in contracts
    IN
    /\ step = "prune"
    /\ x \in todo
    /\ \/ /\ ours
          /\ todo' = todo \ {x}
          /\ UNCHANGED <<diskVars, step, troubled, unbacked>>
       \/ /\ oldTree' = IF Depth(x) = 0 THEN oldTree \ {f} ELSE oldTree
          /\ unbacked' = IF ours THEN unbacked \cup {f} ELSE unbacked
          /\ \/ /\ dir' = [dir EXCEPT ![x] = Nothing]
                /\ todo' = todo \ {x}
                /\ UNCHANGED <<step, troubled>>
             \/ /\ \E rest \in Remains(dir[x]) : dir' = [dir EXCEPT ![x] = rest]
                /\ troubled' = troubled \cup {f}
                /\ step' = "off"
                /\ todo' = {}
    /\ UNCHANGED <<contracts, at, count, purging, reader, misjudged, unchecked>>

\* Then DiscoverFids lists them for the migration; or this was jprovd prune.
Pruned ==
    /\ step = "prune"
    /\ todo = {}
    /\ \/ step' = "find" /\ todo' = Listed
       \/ step' = "off" /\ UNCHANGED todo
    /\ UNCHANGED <<diskVars, contracts, at, count, purging, reader, historyVars>>

\* handleGlueingProcess: a file under the directory's name is taken for
\* migrated, or else it is created, empty.  A directory that was removed since
\* it was listed is one on which every step fails.
FindMigratedFile(x) ==
    /\ step = "find"
    /\ x \in todo
    /\ todo' = todo \ {x}
    /\ IF dir[x] = Nothing
       THEN UNCHANGED <<dir, step, at, count>>
       ELSE /\ at' = x
            /\ IF dir[x].file # NoFile
               THEN step' = "tree" /\ UNCHANGED <<dir, count>>
               ELSE /\ step' = "glue"
                    /\ count' = Cardinality(dir[x].blocks)
                    /\ dir' = [dir EXCEPT ![x].file = 0]
    /\ UNCHANGED <<oldTree, contracts, purging, reader, historyVars>>

\* Mutant of Combine: a gap in the blocks is skipped, and one block more is
\* asked for than there are.
CombineOnAndOn ==
    /\ step = "glue"
    /\ Here.file # NoFile
    /\ IF Here.file <= count
       THEN dir' = [dir EXCEPT ![at].file = @ + 1] /\ UNCHANGED step
       ELSE step' = "tree" /\ UNCHANGED dir
    /\ UNCHANGED <<oldTree, contracts, at, todo, count, purging, reader, historyVars>>

\* Mutant of Combine: the last block is left out.
CombineTooFew ==
    /\ step = "glue"
    /\ IF Here.file < count - 1 /\ Here.file \in Here.blocks
       THEN dir' = [dir EXCEPT ![at].file = @ + 1] /\ UNCHANGED step
       ELSE step' = "tree" /\ UNCHANGED dir
    /\ UNCHANGED <<oldTree, contracts, at, todo, count, purging, reader, historyVars>>

\* glueAllBlocks appends the blocks in order, as many as were counted; one
\* that is not there ends it with an error, which is only printed.
Combine ==
    /\ step = "glue"
    /\ IF Here.file < count /\ Here.file \in Here.blocks
       THEN dir' = [dir EXCEPT ![at].file = @ + 1] /\ UNCHANGED step
       ELSE step' = "tree" /\ UNCHANGED dir
    /\ UNCHANGED <<oldTree, contracts, at, todo, count, purging, reader, historyVars>>

\* handleMerkleTreeProcess: the tree is moved into the directory.
MoveTree ==
    LET f == FidOf(at) IN
    /\ step = "tree"
    /\ IF Depth(at) = 0 /\ f \in oldTree /\ Here # Nothing
       THEN /\ oldTree' = oldTree \ {f}
            /\ dir' = [dir EXCEPT ![at].tree = TRUE]
       ELSE UNCHANGED diskVars
    /\ step' = "check"
    /\ UNCHANGED <<contracts, at, todo, count, purging, reader, historyVars>>

\* markCorruptedFile renames the directory, if the new name is free: the file
\* and the tree in it are then not of the directory's name any more.
MarkCorrupted ==
    /\ IF Here # Nothing /\ dir[Marked(at)] = Nothing
       THEN /\ dir' = [dir EXCEPT
                  ![at] = Nothing,
                  ![Marked(at)] = [Nothing EXCEPT
                      !.blocks = Here.blocks,
                      !.renamed = Here.renamed \/ Here.file = BlockCount]]
            /\ misjudged' = IF Depth(at) = 0 /\ Complete(Here)
                            THEN misjudged \cup {FidOf(at)} ELSE misjudged
       ELSE UNCHANGED <<dir, misjudged>>
    /\ NextDir

\* postGlueCheck builds the tree of the file and compares the roots; without a
\* file or a tree of the directory's name it fails.  What was stored unchecked
\* may have the tree of whatever it is, and pass.
Intact == Here.file = BlockCount /\ Here.tree
MayPass == Here.file # NoFile /\ Here.tree /\ FidOf(at) \in unchecked

\* Mutant: whatever is there passes.
CheckNothing ==
    /\ step = "check"
    /\ step' = "clean"
    /\ UNCHANGED <<diskVars, contracts, at, todo, count, purging, reader, historyVars>>

Check ==
    /\ step = "check"
    /\ \/ /\ Intact \/ MayPass
          /\ step' = "clean"
          /\ UNCHANGED <<dir, at, count, misjudged>>
       \/ /\ ~ Intact \/ FidOf(at) \in unchecked
          /\ MarkCorrupted
    /\ UNCHANGED <<oldTree, contracts, todo, purging, reader, troubled, unbacked, unchecked>>

\* Mutant: the blocks stay.
CleanNothing ==
    /\ step = "clean"
    /\ NextDir
    /\ UNCHANGED <<diskVars, contracts, todo, purging, reader, historyVars>>

\* cleanOld removes the blocks one by one.
CleanOld ==
    /\ step = "clean"
    /\ \/ \E b \in Here.blocks :
             /\ dir' = [dir EXCEPT ![at].blocks = @ \ {b}]
             /\ UNCHANGED <<step, at, count>>
       \/ /\ Here.blocks = {}
          /\ NextDir
          /\ UNCHANGED dir
    /\ UNCHANGED <<oldTree, contracts, todo, purging, reader, historyVars>>

Finish ==
    /\ step = "find"
    /\ todo = {}
    /\ step' = "off"
    /\ UNCHANGED <<diskVars, contracts, at, todo, count, purging, reader, historyVars>>

\* The file of the directory cannot be looked for, and is then taken for
\* migrated, or it or the blocks cannot be opened.
FindFails(x) ==
    /\ step = "find"
    /\ x \in todo
    /\ dir[x] # Nothing
    /\ troubled' = troubled \cup {FidOf(x)}
    /\ todo' = todo \ {x}
    /\ at' = x
    /\ step' = "tree"
    /\ UNCHANGED <<diskVars, contracts, count, purging, reader, misjudged, unbacked, unchecked>>

\* An access to the disk fails: every step prints the error and goes on with
\* the next one; a check that could not be made counts as failed.
DiskFails ==
    /\ step \in {"glue", "tree", "check", "clean"}
    /\ troubled' = troubled \cup {FidOf(at)}
    /\ \/ step = "glue" /\ step' = "tree" /\ UNCHANGED <<dir, at, count, misjudged>>
       \/ step = "tree" /\ step' = "check" /\ UNCHANGED <<dir, at, count, misjudged>>
       \/ step = "check" /\ MarkCorrupted
       \/ step \in {"check", "clean"} /\ NextDir /\ UNCHANGED <<dir, misjudged>>
    /\ UNCHANGED <<oldTree, contracts, todo, purging, reader, unbacked, unchecked>>

\* The process ends anywhere, and the proof server with it.
Crash ==
    /\ step' = "off"
    /\ at' = NoName
    /\ todo' = {}
    /\ count' = 0
    /\ purging' = NoFid
    /\ reader' = NotReading
    /\ troubled' = IF step = "glue" /\ Here.file < count
                   THEN troubled \cup {FidOf(at)} ELSE troubled
    /\ UNCHANGED <<diskVars, contracts, misjudged, unbacked, unchecked>>

Migrate ==
    \/ Start
    \/ \E x \in Names : PruneDir(x) \/ FindMigratedFile(x)
    \/ Pruned \/ Combine \/ MoveTree \/ Check \/ CleanOld \/ Finish

-----------------------------------------------------------------------------
(* The proof server, and jprovd start between two runs of the command. *)

\* Purge deletes a contract and then, if that was the last one, the directory:
\* not the tree beside it.  After overlapping calls on the list of the file
\* (ContractMap) it may be told so although others are left.
PurgeContract(f) ==
    /\ purging = NoFid
    /\ f \in contracts
    /\ \/ contracts' = contracts \ {f} /\ unbacked' = unbacked \ {f}
       \/ UNCHANGED contracts /\ unbacked' = unbacked \cup {f}
    /\ purging' = f
    /\ UNCHANGED <<diskVars, commandVars, reader, troubled, misjudged, unchecked>>

\* The removal may be cut off.
PurgeFile ==
    LET x == <<purging, 0>> IN
    /\ purging # NoFid
    /\ \/ dir' = [dir EXCEPT ![x] = Nothing] /\ UNCHANGED troubled
       \/ /\ \E rest \in Remains(dir[x]) : dir' = [dir EXCEPT ![x] = rest]
          /\ troubled' = troubled \cup {purging}
    /\ purging' = NoFid
    /\ UNCHANGED <<oldTree, contracts, commandVars, reader, misjudged, unbacked, unchecked>>

\* While no migration runs a file is stored anew, by an upload or by a hand,
\* and put under contract: the new file is written over what lies there.  If
\* its directory is about to be purged, that goes on.
Store(f) ==
    LET forget(files) == IF f \in unchecked THEN files ELSE files \ {f} IN
    /\ step = "off"
    /\ dir' = [dir EXCEPT ![<<f, 0>>].file = BlockCount, ![<<f, 0>>].tree = TRUE]
    /\ contracts' = contracts \cup {f}
    /\ troubled' = forget(troubled)
    /\ misjudged' = forget(misjudged)
    /\ unbacked' = IF purging = f \/ f \in unchecked THEN unbacked \cup {f}
                                                     ELSE unbacked \ {f}
    /\ UNCHANGED <<oldTree, commandVars, purging, reader, unchecked>>

\* It is cut off before the contract is recorded, with as much of the file as
\* there was or has come since, with its tree or without.
StoreCutOff(f) ==
    LET x == <<f, 0>> IN
    /\ step = "off"
    /\ \E size \in 0 .. BlockCount, tree \in {dir[x].tree, TRUE} :
          /\ size >= dir[x].file
          /\ dir' = [dir EXCEPT ![x].file = size, ![x].tree = tree]
    /\ troubled' = troubled \cup {f}
    /\ UNCHANGED <<oldTree, contracts, commandVars, purging, reader,
                   misjudged, unbacked, unchecked>>

\* A hand takes in and records what a provider answered, which is not the file
\* (Strays), with the tree of that.
StoreUnchecked(f) ==
    LET x == <<f, 0>> IN
    /\ step = "off"
    /\ \E size \in 0 .. BlockCount :
          dir' = [dir EXCEPT ![x].file = size, ![x].tree = TRUE]
    /\ contracts' = contracts \cup {f}
    /\ troubled' = troubled \cup {f}
    /\ unbacked' = unbacked \cup {f}
    /\ unchecked' = unchecked \cup {f}
    /\ UNCHANGED <<oldTree, commandVars, purging, reader, misjudged>>

-----------------------------------------------------------------------------
(* HybridCellArchive: GetPiece and RetrieveTree try the old layout first. *)

Read(f, w) ==
    /\ reader.pc # "legacy" /\ reader.pc # "single"
    /\ reader' = [pc |-> "legacy", fid |-> f, want |-> w]
    /\ UNCHANGED <<diskVars, contracts, commandVars, purging, historyVars>>

\* Mutant: the new layout is tried first, and what it has is taken.
TryNewFirst ==
    LET c == dir[<<reader.fid, 0>>] IN
    /\ reader.pc = "legacy"
    /\ reader' = [reader EXCEPT !.pc =
          IF reader.want = BlockCount THEN (IF c.tree THEN "found" ELSE "missing")
          ELSE IF c.file > reader.want THEN "found"
          ELSE IF c.file = NoFile /\ reader.want \in c.blocks THEN "found"
          ELSE "missing"]
    /\ UNCHANGED <<diskVars, contracts, commandVars, purging, historyVars>>

\* getLegacyPiece returns a buffer of the full block size, whatever it read.
TryLegacy ==
    LET c == dir[<<reader.fid, 0>>]
        padded == reader.fid \in ShortLast /\ reader.want = BlockCount - 1
    IN
    /\ reader.pc = "legacy"
    /\ reader' = [reader EXCEPT !.pc =
          IF reader.want = BlockCount
          THEN IF reader.fid \in oldTree THEN "found" ELSE "single"
          ELSE IF reader.want \notin c.blocks THEN "single"
          ELSE IF padded THEN "padded" ELSE "found"]
    /\ UNCHANGED <<diskVars, contracts, commandVars, purging, historyVars>>

TrySingle ==
    LET c == dir[<<reader.fid, 0>>] IN
    /\ reader.pc = "single"
    /\ reader' = [reader EXCEPT !.pc =
          IF (IF reader.want = BlockCount THEN c.tree ELSE c.file > reader.want)
          THEN "found" ELSE "missing"]
    /\ UNCHANGED <<diskVars, contracts, commandVars, purging, historyVars>>

Reader == (\E f \in Fids, w \in Wants : Read(f, w)) \/ TryLegacy \/ TrySingle

Next ==
    \/ Migrate
    \/ DiskFails \/ \E x \in Names : FindFails(x)
    \/ Crash
    \/ \E f \in Fids : PurgeContract(f) \/ Store(f) \/ StoreCutOff(f) \/ StoreUnchecked(f)
    \/ PurgeFile
    \/ Reader

Spec == Init /\ [][Next]_vars

-----------------------------------------------------------------------------

\* A complete file is marked corrupted only if since its last arrival it was in
\* trouble: its storing, glueing or removing was cut off, an access to the disk
\* failed, or a hand stored an answer that was not the file.  A crash at any
\* other point, a purge beside it that comes to its end and any number of
\* earlier migrations do no harm.
MarkedOnlyAfterTrouble == misjudged \subseteq troubled

\* The last complete copy of a file under contract leaves the disk only if the
\* file was wrongly marked corrupted and its directory pruned: in particular
\* the blocks go only when the file made of them is complete.  The exceptions
\* are files under contract whose directory does not count any more: pruned on
\* a look-up that failed, purged although contracts are left or the file has
\* come back meanwhile, not there when the deal was recollected, or stored from
\* an answer that was not the file.
LastCopyKept ==
    [][\A f \in Fids :
          OnDisk(f) /\ ~ OnDisk(f)' =>
              f \notin contracts \/ f \in misjudged \/ f \in unbacked']_vars

\* MigrateCommand: "This will glue all blocks together into one file per fids
\* stored in your machine".  When a migration has finished, every file under
\* contract that is complete in its directory and met no trouble is one file
\* with its tree, and no block of it is left, whatever runs were cut off before.
MigratedInTheEnd ==
    [][step = "find" /\ step' = "off" /\ todo = {} /\ at = NoName =>
          \A f \in contracts \ troubled :
              LET c == dir[<<f, 0>>] IN
              Complete(c) => c.file = BlockCount /\ c.tree /\ c.blocks = {}]_vars

\* A reader of the hybrid archive finds every piece of a complete file under
\* contract, and its tree, at any moment of a migration, if the file met no
\* trouble; and what it finds is the piece, except for a short last block that
\* it still reads from the old layout.
HybridFinds ==
    [][LET f == reader.fid
           c == dir[<<f, 0>>]
       IN  /\ reader.pc = "single" /\ reader'.pc = "missing" =>
                 f \notin contracts \/ f \in troubled \/ ~ Complete(c)
           /\ reader.pc = "legacy" /\ reader'.pc \in {"padded", "missing"} =>
                 \/ f \in ShortLast /\ reader.want = BlockCount - 1 /\ c.blocks # {}
                 \/ f \notin contracts \/ f \in troubled \/ ~ Complete(c)]_vars

=============================================================================
