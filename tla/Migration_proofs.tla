--------------------------- MODULE Migration_proofs ---------------------------
(* What holds of the migration for any number of files and blocks, however  *)
(* often a directory is marked corrupted.                                   *)
EXTENDS Migration, FiniteSetTheorems, TLAPS

USE NoFidAssumption, BlockCountAssumption, MaxDepthAssumption

(***************************************************************************)
(* Types.  Next to TypeOK, the command has a directory in hand exactly when *)
(* it works on one, and only such whose name can still be marked.           *)
(***************************************************************************)
Working == step \in {"glue", "tree", "check", "clean"}

Places ==
    /\ Working <=> at # NoName
    /\ at # NoName => Depth(at) < MaxDepth
    /\ \A x \in todo : Depth(x) < MaxDepth

TInv == TypeOK /\ Places

LEMMA NameFacts ==
    /\ \A f \in Fids : <<f, 0>> \in Names /\ FidOf(<<f, 0>>) = f /\ Depth(<<f, 0>>) = 0
    /\ \A x \in Names : /\ FidOf(x) \in Fids /\ Depth(x) \in 0 .. MaxDepth
                        /\ x = <<FidOf(x), Depth(x)>> /\ x # NoName
                        /\ Depth(x) = 0 <=> x = <<FidOf(x), 0>>
    /\ \A x \in Names : Depth(x) < MaxDepth =>
          /\ Marked(x) \in Names /\ Marked(x) # x
          /\ FidOf(Marked(x)) = FidOf(x) /\ Depth(Marked(x)) = Depth(x) + 1
  BY DEF Names, FidOf, Depth, Marked, NoName

LEMMA BlocksFacts ==
    /\ Blocks # {} /\ IsFiniteSet(Blocks) /\ Cardinality(Blocks) = BlockCount
    /\ \A B \in SUBSET Blocks : /\ Cardinality(B) \in 0 .. BlockCount
                                /\ Cardinality(B) = BlockCount => B = Blocks
<1>1. IsFiniteSet(Blocks) /\ Cardinality(Blocks) = BlockCount
  BY FS_Interval DEF Blocks
<1>2. \A B \in SUBSET Blocks : /\ Cardinality(B) \in 0 .. BlockCount
                               /\ Cardinality(B) = BlockCount => B = Blocks
  BY <1>1, FS_Subset, FS_CardinalityType
<1>3. Blocks # {}
  BY DEF Blocks
<1> QED
  BY <1>1, <1>2, <1>3

LEMMA ContentsFacts ==
    /\ Nothing \in Contents /\ Single \in Contents
    /\ \A k \in 1 .. BlockCount : Legacy(k) \in Contents
    /\ \A c \in Contents : c # Nothing /\ c.file = NoFile => c.blocks # {} \/ c.tree \/ c.renamed
<1>1. Nothing \in Contents /\ Single \in Contents
  <2>1. Nothing \in Contents
    BY DEF Nothing, Contents, NoFile
  <2>2. BlockCount \in NoFile .. BlockCount
    BY DEF NoFile
  <2>3. Single \in Contents
    BY <2>1, <2>2, Zenon DEF Single, Contents
  <2> QED
    BY <2>1, <2>3
<1>2. ASSUME NEW k \in 1 .. BlockCount PROVE Legacy(k) \in Contents
  <2>1. 0 .. k - 1 \in SUBSET Blocks
    BY DEF Blocks
  <2> QED
    BY <1>1, <2>1 DEF Legacy, Contents
<1>3. ASSUME NEW c \in Contents, c # Nothing, c.file = NoFile
      PROVE  c.blocks # {} \/ c.tree \/ c.renamed
  BY <1>3 DEF Nothing, Contents, NoFile
<1> QED
  BY <1>1, <1>2, <1>3

\* What is left of a directory whose removal was cut off.
LEMMA RemainsFacts ==
    ASSUME NEW c \in Contents, NEW rest \in Remains(c)
    PROVE  /\ rest \in Contents
           /\ rest.blocks \subseteq c.blocks
           /\ rest.file \in {c.file, NoFile}
           /\ rest.tree => c.tree
           /\ rest.renamed => c.renamed
<1>1. /\ c.blocks \in SUBSET Blocks /\ c.file \in NoFile .. BlockCount
      /\ c.tree \in BOOLEAN /\ c.renamed \in BOOLEAN
  BY DEF Contents
<1>2. /\ rest.blocks \in SUBSET c.blocks /\ rest.file \in {c.file, NoFile}
      /\ rest.tree \in {c.tree, FALSE} /\ rest.renamed \in {c.renamed, FALSE}
      /\ rest = [blocks |-> rest.blocks, file |-> rest.file, tree |-> rest.tree,
                 renamed |-> rest.renamed]
  BY DEF Remains
<1>3. rest.file \in NoFile .. BlockCount
  BY <1>1, <1>2 DEF NoFile
<1>4. /\ rest.blocks \in SUBSET Blocks /\ rest.tree \in BOOLEAN /\ rest.renamed \in BOOLEAN
  BY <1>1, <1>2
<1>5. rest \in Contents
  BY <1>2, <1>3, <1>4 DEF Contents
<1> QED
  BY <1>1, <1>2, <1>5

LEMMA InitTInv == Init => TInv
<1> SUFFICES ASSUME Init PROVE TInv
  OBVIOUS
<1>1. dir \in [Names -> Contents]
  BY ContentsFacts, NameFacts DEF Init
<1> QED
  BY <1>1 DEF Init, TInv, TypeOK, Places, Working

LEMMA TypeStep ==
    ASSUME TInv, [Next]_vars
    PROVE  TInv'
<1> USE NameFacts, BlocksFacts, ContentsFacts
    DEF TInv, TypeOK, Places, Working, Here, diskVars, commandVars, historyVars
<1>1. CASE Start
  BY <1>1 DEF Start, Listed
<1>2. ASSUME NEW x \in Names, PruneDir(x) PROVE TInv'
  <2>1. dir' \in [Names -> Contents]
    BY <1>2, RemainsFacts DEF PruneDir
  <2> QED
    BY <1>2, <2>1 DEF PruneDir
<1>3. CASE Pruned
  BY <1>3 DEF Pruned, Listed
<1>4. ASSUME NEW x \in Names, FindMigratedFile(x) PROVE TInv'
  BY <1>4 DEF FindMigratedFile, Contents, NoFile
<1>5. CASE Combine
  BY <1>5 DEF Combine, Contents, NoFile
<1>6. CASE MoveTree
  <2>1. CASE ~ (Depth(at) = 0 /\ FidOf(at) \in oldTree /\ Here # Nothing)
    BY <1>6, <2>1 DEF MoveTree
  <2>2. CASE Depth(at) = 0 /\ FidOf(at) \in oldTree /\ Here # Nothing
    <3>1. at \in Names /\ dir[at] \in Contents
      BY <1>6 DEF MoveTree
    <3>2. dir' = [dir EXCEPT ![at] = [dir[at] EXCEPT !.tree = TRUE]]
      BY <1>6, <2>2 DEF MoveTree
    <3>3. [dir[at] EXCEPT !.tree = TRUE] \in Contents
      BY <3>1 DEF Contents
    <3>4. dir' \in [Names -> Contents]
      BY <3>1, <3>2, <3>3
    <3> QED
      BY <1>6, <2>2, <3>4 DEF MoveTree
  <2> QED
    BY <2>1, <2>2
<1>7. ASSUME MarkCorrupted, at \in Names, Depth(at) < MaxDepth,
             UNCHANGED <<oldTree, contracts, todo, purging, reader, unbacked, unchecked>>,
             troubled' \in SUBSET Fids
      PROVE  TInv'
  <2>1. dir' \in [Names -> Contents]
    <3> DEFINE new == [Nothing EXCEPT !.blocks = Here.blocks,
                                      !.renamed = Here.renamed \/ Here.file = BlockCount]
    <3>1. new \in Contents
      BY <1>7 DEF Nothing, Contents, NoFile
    <3>2. dir' = dir \/ dir' = [dir EXCEPT ![at] = Nothing, ![Marked(at)] = new]
      BY <1>7 DEF MarkCorrupted
    <3> HIDE DEF new
    <3> QED
      BY <1>7, <3>1, <3>2
  <2>2. misjudged' \in SUBSET Fids
    BY <1>7 DEF MarkCorrupted
  <2> QED
    BY <1>7, <2>1, <2>2 DEF MarkCorrupted, NextDir
<1>8. CASE Check
  BY <1>7, <1>8 DEF Check
<1>9. CASE CleanOld
  <2>1. at \in Names /\ Here \in Contents
    BY <1>9 DEF CleanOld
  <2>2. ASSUME NEW b \in Here.blocks PROVE [Here EXCEPT !.blocks = @ \ {b}] \in Contents
    BY <2>1 DEF Contents
  <2>3. ASSUME NEW b \in Here.blocks, dir' = [dir EXCEPT ![at].blocks = @ \ {b}]
        PROVE  dir' \in [Names -> Contents]
    <3> DEFINE new == [Here EXCEPT !.blocks = @ \ {b}]
    <3>1. dir' = [dir EXCEPT ![at] = new] /\ new \in Contents
      BY <2>2, <2>3
    <3> HIDE DEF new
    <3> QED
      BY <2>1, <3>1
  <2> QED
    BY <1>9, <2>3 DEF CleanOld, NextDir
<1>10. CASE Finish
  BY <1>10 DEF Finish
<1>11. CASE DiskFails
  BY <1>7, <1>11 DEF DiskFails, NextDir
<1>12. CASE Crash
  BY <1>12 DEF Crash
<1>13. ASSUME NEW f \in Fids, PurgeContract(f) PROVE TInv'
  BY <1>13 DEF PurgeContract
<1>14. ASSUME NEW f \in Fids, Store(f) \/ StoreCutOff(f) \/ StoreUnchecked(f) PROVE TInv'
  <2>1. dir' \in [Names -> Contents]
    <3>1. ASSUME NEW size \in 0 .. BlockCount, NEW tree \in BOOLEAN,
                 dir' = [dir EXCEPT ![<<f, 0>>].file = size, ![<<f, 0>>].tree = tree]
          PROVE  dir' \in [Names -> Contents]
      <4> DEFINE new == [dir[<<f, 0>>] EXCEPT !.file = size, !.tree = tree]
      <4>1. new \in Contents
        <5>1. dir[<<f, 0>>] \in Contents /\ size \in NoFile .. BlockCount
          BY DEF NoFile
        <5> QED
          BY <5>1, Zenon DEF Contents
      <4>2. dir' = [dir EXCEPT ![<<f, 0>>] = new]
        BY <3>1
      <4> HIDE DEF new
      <4> QED
        BY <4>1, <4>2
    <3>2. dir[<<f, 0>>].tree \in BOOLEAN /\ BlockCount \in 0 .. BlockCount
      BY DEF Contents
    <3> QED
      BY <1>14, <3>1, <3>2 DEF Store, StoreCutOff, StoreUnchecked
  <2> QED
    BY <1>14, <2>1 DEF Store, StoreCutOff, StoreUnchecked
<1>15. CASE PurgeFile
  <2>1. purging \in Fids
    BY <1>15 DEF PurgeFile
  <2>2. \A rest \in Remains(dir[<<purging, 0>>]) : rest \in Contents
    BY <2>1, RemainsFacts
  <2>3. dir' \in [Names -> Contents]
    BY <1>15, <2>1, <2>2 DEF PurgeFile
  <2> QED
    BY <1>15, <2>1, <2>3 DEF PurgeFile
<1>16. CASE Reader
  BY <1>16 DEF Reader, Read, TryLegacy, TrySingle, Reading, NotReading
<1>17. ASSUME NEW x \in Names, FindFails(x) PROVE TInv'
  BY <1>17 DEF FindFails
<1>18. CASE UNCHANGED vars
  BY <1>18 DEF vars
<1> QED
  BY <1>1, <1>2, <1>3, <1>4, <1>5, <1>6, <1>8, <1>9, <1>10, <1>11, <1>12, <1>13, <1>14,
     <1>15, <1>16, <1>17, <1>18
  DEF Next, Migrate

\* The layouts, the places of the command and of a reader keep their types: in
\* particular no file grows beyond its blocks.
THEOREM TypeCorrect == Spec => []TypeOK
<1>1. TInv => TypeOK
  BY DEF TInv
<1> QED
  BY <1>1, InitTInv, TypeStep, PTL DEF Spec

-----------------------------------------------------------------------------
(***************************************************************************)
(* The layout of a directory.  One of an unmarked name has its tree inside  *)
(* or beside it, unless there was trouble, and no file of an older name; one *)
(* of a marked name has no tree, and a file that is being made in it starts *)
(* with blocks that are still there.                                        *)
(***************************************************************************)
Layout ==
    \A x \in Names :
        /\ Depth(x) = 0 =>
              /\ dir[x] # Nothing => dir[x].tree \/ FidOf(x) \in oldTree \cup troubled
              /\ ~ dir[x].renamed
        /\ Depth(x) # 0 =>
              /\ ~ dir[x].tree
              /\ step = "glue" /\ at = x =>
                    \A b \in Blocks : b < dir[x].file => b \in dir[x].blocks

(***************************************************************************)
(* How far the glueing is.  Unless the directory was purged meanwhile, or   *)
(* there was trouble, the file is there from the first step on, its tree by *)
(* the check, and both are intact when the blocks are removed; after trouble *)
(* they are, too, if a contract rests on them.  A file that is half made of *)
(* a full set of blocks is being made or had trouble.                       *)
(***************************************************************************)
Glueing ==
    /\ Working => Here = Nothing \/ Here.file # NoFile \/ FidOf(at) \in troubled
    /\ step = "glue" /\ Here.blocks = Blocks => count = BlockCount
    /\ step = "check" /\ Depth(at) = 0 =>
          Here = Nothing \/ Here.tree \/ FidOf(at) \in troubled
    /\ step = "clean" =>
          /\ Depth(at) = 0
          /\ \/ Here = Nothing \/ Intact
             \/ /\ FidOf(at) \in troubled
                /\ FidOf(at) \notin contracts \/ FidOf(at) \in unbacked
    /\ \A f \in Fids :
          LET c == dir[<<f, 0>>] IN
          c.blocks = Blocks /\ c.file \notin {NoFile, BlockCount} =>
              f \in troubled \/ (step = "glue" /\ at = <<f, 0>>)

(***************************************************************************)
(* Copies.  A file whose contract rests on its directory is not being       *)
(* purged, and a copy of it under a marked name is not the only one unless  *)
(* it was wrongly marked.  What was stored unchecked had trouble, and no    *)
(* contract rests on it.                                                    *)
(***************************************************************************)
Copies ==
    /\ purging \notin contracts \ unbacked
    /\ unchecked \subseteq troubled /\ unchecked \cap contracts \subseteq unbacked
    /\ \A x \in Names :
          /\ Depth(x) # 0 /\ FidOf(x) \in contracts \ unbacked
          /\ Complete(dir[x]) \/ dir[x].renamed
          => FidOf(x) \in misjudged \/ Complete(dir[<<FidOf(x), 0>>])

(***************************************************************************)
(* The directories the migration is through with.                           *)
(***************************************************************************)
Migrated(c) == c.file = BlockCount /\ c.tree /\ c.blocks = {}
Visited ==
    Working \/ step = "find" =>
        \A f \in Fids \ troubled :
            <<f, 0>> \notin todo \cup {at} /\ Complete(dir[<<f, 0>>])
                => Migrated(dir[<<f, 0>>])

(***************************************************************************)
(* A reader that has not found in the old layout what it wants will not     *)
(* find it there later.                                                     *)
(***************************************************************************)
NotInLegacy ==
    reader.pc = "single" =>
        IF reader.want = BlockCount THEN reader.fid \notin oldTree
                                    ELSE reader.want \notin dir[<<reader.fid, 0>>].blocks

MInv == TInv /\ Layout /\ Glueing /\ MarkedOnlyAfterTrouble /\ Copies /\ Visited /\ NotInLegacy

LEMMA TInvInvariant == Spec => []TInv
  BY InitTInv, TypeStep, PTL DEF Spec

\* What a renaming does, if the new name is free.
LEMMA MarkEffect ==
    ASSUME TInv, Working, MarkCorrupted
    PROVE  /\ at \in Names /\ Marked(at) \in Names
           /\ step' = "find" /\ at' = NoName
           /\ \/ dir' = dir /\ misjudged' = misjudged
              \/ /\ Here # Nothing
                 /\ dir'[at] = Nothing
                 /\ dir'[Marked(at)].blocks = Here.blocks
                 /\ dir'[Marked(at)].file = NoFile
                 /\ ~ dir'[Marked(at)].tree
                 /\ dir'[Marked(at)].renamed <=> Here.renamed \/ Here.file = BlockCount
                 /\ \A x \in Names \ {at, Marked(at)} : dir'[x] = dir[x]
                 /\ misjudged' = IF Depth(at) = 0 /\ Complete(Here)
                                 THEN misjudged \cup {FidOf(at)} ELSE misjudged
<1> USE NameFacts DEF TInv, TypeOK, Places, Working
<1>1. at \in Names /\ Marked(at) \in Names /\ at # Marked(at)
  OBVIOUS
<1>2. step' = "find" /\ at' = NoName
  BY DEF MarkCorrupted, NextDir
<1>3. CASE ~ (Here # Nothing /\ dir[Marked(at)] = Nothing)
  BY <1>1, <1>2, <1>3 DEF MarkCorrupted
<1>4. CASE Here # Nothing /\ dir[Marked(at)] = Nothing
  <2> DEFINE new == [Nothing EXCEPT !.blocks = Here.blocks,
                                    !.renamed = Here.renamed \/ Here.file = BlockCount]
  <2>1. dir' = [dir EXCEPT ![at] = Nothing, ![Marked(at)] = new]
    BY <1>4 DEF MarkCorrupted
  <2>2. /\ new.blocks = Here.blocks /\ new.file = NoFile /\ ~ new.tree
        /\ new.renamed <=> Here.renamed \/ Here.file = BlockCount
    BY DEF Nothing
  <2> HIDE DEF new
  <2>3. /\ dir'[at] = Nothing /\ dir'[Marked(at)] = new
        /\ \A x \in Names \ {at, Marked(at)} : dir'[x] = dir[x]
    BY <1>1, <2>1
  <2> QED
    BY <1>1, <1>2, <1>4, <2>2, <2>3 DEF MarkCorrupted
<1> QED
  BY <1>3, <1>4

\* What the other steps do to a directory, field by field.
Others(x) == \A y \in Names \ {x} : dir'[y] = dir[y]

LEMMA NothingFields ==
    Nothing.blocks = {} /\ Nothing.file = NoFile /\ ~ Nothing.tree /\ ~ Nothing.renamed
  BY DEF Nothing

LEMMA AtIsName == TInv /\ Working => at \in Names
  BY DEF TInv, TypeOK, Places

LEMMA FindEffect ==
    ASSUME TInv, NEW x \in Names, FindMigratedFile(x)
    PROVE  \/ dir[x] = Nothing /\ UNCHANGED <<dir, step, at, count>>
           \/ dir[x].file # NoFile /\ step' = "tree" /\ at' = x /\ UNCHANGED <<dir, count>>
           \/ /\ dir[x] # Nothing /\ dir[x].file = NoFile
              /\ step' = "glue" /\ at' = x /\ count' = Cardinality(dir[x].blocks)
              /\ dir'[x] # Nothing /\ dir'[x].blocks = dir[x].blocks /\ dir'[x].file = 0
              /\ dir'[x].tree = dir[x].tree /\ dir'[x].renamed = dir[x].renamed
              /\ Others(x)
<1>1. CASE dir[x] = Nothing \/ dir[x].file # NoFile
  BY <1>1 DEF FindMigratedFile
<1>2. CASE dir[x] # Nothing /\ dir[x].file = NoFile
  <2> DEFINE new == [dir[x] EXCEPT !.file = 0]
  <2>1. /\ dir' = [dir EXCEPT ![x] = new] /\ step' = "glue" /\ at' = x
        /\ count' = Cardinality(dir[x].blocks)
    BY <1>2 DEF FindMigratedFile
  <2>2. /\ new.blocks = dir[x].blocks /\ new.file = 0
        /\ new.tree = dir[x].tree /\ new.renamed = dir[x].renamed
    BY DEF TInv, TypeOK, Contents
  <2> HIDE DEF new
  <2>3. dir'[x] = new /\ Others(x)
    BY <2>1 DEF Others, TInv, TypeOK
  <2>4. new # Nothing
    BY <2>2, NothingFields DEF NoFile
  <2> QED
    BY <1>2, <2>1, <2>2, <2>3, <2>4
<1> QED
  BY <1>1, <1>2

LEMMA CombineEffect ==
    ASSUME TInv, Combine
    PROVE  /\ at \in Names
           /\ \/ /\ Here.file < count /\ Here.file \in Here.blocks /\ step' = step
                 /\ dir'[at] # Nothing /\ dir'[at].blocks = Here.blocks
                 /\ dir'[at].file = Here.file + 1
                 /\ dir'[at].tree = Here.tree /\ dir'[at].renamed = Here.renamed
                 /\ Others(at)
              \/ /\ ~ (Here.file < count /\ Here.file \in Here.blocks)
                 /\ step' = "tree" /\ dir' = dir
<1>1. at \in Names /\ Here \in Contents
  BY AtIsName DEF Combine, Working, TInv, TypeOK, Here
<1>2. CASE Here.file < count /\ Here.file \in Here.blocks
  <2> DEFINE new == [Here EXCEPT !.file = @ + 1]
  <2>1. dir' = [dir EXCEPT ![at] = new] /\ step' = step
    BY <1>2 DEF Combine, Here
  <2>2. /\ new.blocks = Here.blocks /\ new.file = Here.file + 1
        /\ new.tree = Here.tree /\ new.renamed = Here.renamed
    BY <1>1 DEF Contents
  <2> HIDE DEF new
  <2>3. dir'[at] = new /\ Others(at)
    BY <1>1, <2>1 DEF Others, TInv, TypeOK
  <2>4. new # Nothing
    BY <1>2, <2>2, NothingFields
  <2> QED
    BY <1>1, <1>2, <2>1, <2>2, <2>3, <2>4
<1>3. CASE ~ (Here.file < count /\ Here.file \in Here.blocks)
  BY <1>1, <1>3 DEF Combine
<1> QED
  BY <1>2, <1>3

LEMMA MoveTreeEffect ==
    ASSUME TInv, MoveTree
    PROVE  /\ at \in Names
           /\ \/ /\ Depth(at) = 0 /\ FidOf(at) \in oldTree /\ Here # Nothing
                 /\ oldTree' = oldTree \ {FidOf(at)}
                 /\ dir'[at] # Nothing /\ dir'[at].blocks = Here.blocks
                 /\ dir'[at].file = Here.file
                 /\ dir'[at].tree /\ dir'[at].renamed = Here.renamed
                 /\ Others(at)
              \/ /\ ~ (Depth(at) = 0 /\ FidOf(at) \in oldTree /\ Here # Nothing)
                 /\ dir' = dir /\ oldTree' = oldTree
<1>1. at \in Names /\ Here \in Contents
  BY AtIsName DEF MoveTree, Working, TInv, TypeOK, Here
<1>2. CASE Depth(at) = 0 /\ FidOf(at) \in oldTree /\ Here # Nothing
  <2> DEFINE new == [Here EXCEPT !.tree = TRUE]
  <2>1. dir' = [dir EXCEPT ![at] = new] /\ oldTree' = oldTree \ {FidOf(at)}
    BY <1>2 DEF MoveTree, Here
  <2>2. /\ new.blocks = Here.blocks /\ new.file = Here.file
        /\ new.tree /\ new.renamed = Here.renamed
    BY <1>1 DEF Contents
  <2> HIDE DEF new
  <2>3. dir'[at] = new /\ Others(at)
    BY <1>1, <2>1 DEF Others, TInv, TypeOK
  <2>4. new # Nothing
    BY <2>2, NothingFields
  <2> QED
    BY <1>1, <1>2, <2>1, <2>2, <2>3, <2>4
<1>3. CASE ~ (Depth(at) = 0 /\ FidOf(at) \in oldTree /\ Here # Nothing)
  BY <1>1, <1>3 DEF MoveTree, diskVars
<1> QED
  BY <1>2, <1>3

LEMMA CleanEffect ==
    ASSUME TInv, CleanOld
    PROVE  /\ at \in Names
           /\ \/ /\ UNCHANGED <<step, at, count>>
                 /\ dir'[at].blocks \subseteq Here.blocks /\ Here # Nothing
                 /\ dir'[at].file = Here.file
                 /\ dir'[at].tree = Here.tree /\ dir'[at].renamed = Here.renamed
                 /\ Others(at)
              \/ Here.blocks = {} /\ dir' = dir /\ step' = "find" /\ at' = NoName
<1>1. at \in Names /\ Here \in Contents
  BY AtIsName DEF CleanOld, Working, TInv, TypeOK, Here
<1>2. ASSUME NEW b \in Here.blocks, dir' = [dir EXCEPT ![at].blocks = @ \ {b}],
             UNCHANGED <<step, at, count>>
      PROVE  /\ dir'[at].blocks \subseteq Here.blocks /\ Here # Nothing
             /\ dir'[at].file = Here.file
             /\ dir'[at].tree = Here.tree /\ dir'[at].renamed = Here.renamed
             /\ Others(at)
  <2> DEFINE new == [Here EXCEPT !.blocks = @ \ {b}]
  <2>1. dir' = [dir EXCEPT ![at] = new]
    BY <1>2 DEF Here
  <2>2. /\ new.blocks = Here.blocks \ {b} /\ new.file = Here.file
        /\ new.tree = Here.tree /\ new.renamed = Here.renamed
    BY <1>1 DEF Contents
  <2> HIDE DEF new
  <2>3. dir'[at] = new /\ Others(at)
    BY <1>1, <2>1 DEF Others, TInv, TypeOK
  <2>4. Here # Nothing
    BY NothingFields
  <2> QED
    BY <2>2, <2>3, <2>4
<1> QED
  BY <1>1, <1>2 DEF CleanOld, NextDir

\* A file is stored, as far as it goes.
Stored(x, size) ==
    /\ dir'[x].blocks = dir[x].blocks /\ dir'[x].file = size
    /\ dir'[x].renamed = dir[x].renamed
    /\ dir'[x] # Nothing /\ Others(x)

LEMMA WriteEffect ==
    ASSUME TInv, NEW f \in Fids, NEW size \in 0 .. BlockCount, NEW tree \in BOOLEAN,
           dir' = [dir EXCEPT ![<<f, 0>>].file = size, ![<<f, 0>>].tree = tree]
    PROVE  Stored(<<f, 0>>, size) /\ dir'[<<f, 0>>].tree = tree
<1> DEFINE x == <<f, 0>>
           new == [dir[x] EXCEPT !.file = size, !.tree = tree]
<1>1. x \in Names /\ dir[x] \in Contents
  BY NameFacts DEF TInv, TypeOK
<1>2. dir' = [dir EXCEPT ![x] = new]
  OBVIOUS
<1>3. /\ new.blocks = dir[x].blocks /\ new.file = size
      /\ new.tree = tree /\ new.renamed = dir[x].renamed
  BY <1>1 DEF Contents
<1> HIDE DEF new, x
<1>4. dir'[x] = new /\ Others(x)
  BY <1>1, <1>2 DEF Others, TInv, TypeOK
<1>5. new # Nothing
  BY <1>3, NothingFields DEF NoFile
<1> QED
  BY <1>3, <1>4, <1>5 DEF x, Stored

LEMMA StoreEffect ==
    ASSUME TInv, NEW f \in Fids, Store(f)
    PROVE  Stored(<<f, 0>>, BlockCount) /\ dir'[<<f, 0>>].tree
<1>1. BlockCount \in 0 .. BlockCount
  OBVIOUS
<1> QED
  BY <1>1, WriteEffect DEF Store

LEMMA StoreCutOffEffect ==
    ASSUME TInv, NEW f \in Fids, StoreCutOff(f)
    PROVE  /\ \E size \in 0 .. BlockCount :
                 size >= dir[<<f, 0>>].file /\ Stored(<<f, 0>>, size)
           /\ troubled' = troubled \cup {f}
<1>1. dir[<<f, 0>>].tree \in BOOLEAN
  BY NameFacts DEF TInv, TypeOK, Contents
<1> QED
  BY <1>1, WriteEffect DEF StoreCutOff

LEMMA StoreUncheckedEffect ==
    ASSUME TInv, NEW f \in Fids, StoreUnchecked(f)
    PROVE  /\ \E size \in 0 .. BlockCount : Stored(<<f, 0>>, size)
           /\ troubled' = troubled \cup {f} /\ unbacked' = unbacked \cup {f}
  BY WriteEffect DEF StoreUnchecked

\* A directory is removed, by the pruning or by the proof server, and all of it
\* unless that was cut off.
Removed(x) ==
    /\ dir'[x].blocks \subseteq dir[x].blocks
    /\ dir'[x].file \in {dir[x].file, NoFile}
    /\ dir'[x].tree => dir[x].tree
    /\ dir'[x].renamed => dir[x].renamed
    /\ Others(x)
    /\ \/ dir'[x] = Nothing /\ troubled' = troubled
       \/ troubled' = troubled \cup {FidOf(x)}

LEMMA RemoveEffect ==
    ASSUME TInv, NEW x \in Names,
           \/ dir' = [dir EXCEPT ![x] = Nothing] /\ troubled' = troubled
           \/ /\ \E rest \in Remains(dir[x]) : dir' = [dir EXCEPT ![x] = rest]
              /\ troubled' = troubled \cup {FidOf(x)}
    PROVE  Removed(x)
<1>1. dir[x] \in Contents
  BY DEF TInv, TypeOK
<1>2. CASE dir' = [dir EXCEPT ![x] = Nothing] /\ troubled' = troubled
  BY <1>1, <1>2, NothingFields DEF Removed, Others, TInv, TypeOK
<1>3. ASSUME NEW rest \in Remains(dir[x]), dir' = [dir EXCEPT ![x] = rest],
             troubled' = troubled \cup {FidOf(x)}
      PROVE  Removed(x)
  <2>1. dir'[x] = rest /\ Others(x)
    BY <1>3 DEF Others, TInv, TypeOK
  <2> QED
    BY <1>1, <1>3, <2>1, RemainsFacts DEF Removed
<1> QED
  BY <1>2, <1>3

LEMMA PruneEffect ==
    ASSUME TInv, NEW x \in Names, PruneDir(x)
    PROVE  \/ UNCHANGED <<diskVars, step, troubled, unbacked>>
           \/ /\ Removed(x)
              /\ step' \in {"prune", "off"}
              /\ oldTree' = IF Depth(x) = 0 THEN oldTree \ {FidOf(x)} ELSE oldTree
              /\ unbacked' = IF Depth(x) = 0 /\ FidOf(x) \in contracts
                             THEN unbacked \cup {FidOf(x)} ELSE unbacked
<1>1. CASE UNCHANGED <<diskVars, step, troubled, unbacked>>
  BY <1>1
<1>2. CASE ~ UNCHANGED <<diskVars, step, troubled, unbacked>>
  <2>1. /\ step' \in {"prune", "off"}
        /\ oldTree' = IF Depth(x) = 0 THEN oldTree \ {FidOf(x)} ELSE oldTree
        /\ unbacked' = IF Depth(x) = 0 /\ FidOf(x) \in contracts
                       THEN unbacked \cup {FidOf(x)} ELSE unbacked
        /\ \/ dir' = [dir EXCEPT ![x] = Nothing] /\ troubled' = troubled
           \/ /\ \E rest \in Remains(dir[x]) : dir' = [dir EXCEPT ![x] = rest]
              /\ troubled' = troubled \cup {FidOf(x)}
    BY <1>2 DEF PruneDir
  <2>2. Removed(x)
    BY <2>1, RemoveEffect
  <2> QED
    BY <2>1, <2>2
<1> QED
  BY <1>1, <1>2

LEMMA PurgeEffect ==
    ASSUME TInv, PurgeFile
    PROVE  purging \in Fids /\ Removed(<<purging, 0>>)
<1>1. purging \in Fids
  BY DEF PurgeFile, TInv, TypeOK
<1>2. <<purging, 0>> \in Names /\ FidOf(<<purging, 0>>) = purging
  BY <1>1, NameFacts
<1> QED
  BY <1>1, <1>2, RemoveEffect DEF PurgeFile

LEMMA LayoutStep ==
    ASSUME TInv, Layout, Glueing, [Next]_vars
    PROVE  Layout'
<1> USE NameFacts, NothingFields
    DEF TInv, TypeOK, Layout, Places, Working, Here, Others, diskVars, commandVars, historyVars
<1>0. \A b \in Blocks : b \in 0 .. BlockCount - 1
  BY DEF Blocks
<1>1. ASSUME UNCHANGED <<dir, oldTree>>, troubled \subseteq troubled',
             step' # "glue" \/ UNCHANGED <<step, at>>
      PROVE  Layout'
  BY <1>1
<1>2. ASSUME NEW x \in Names, PruneDir(x) PROVE Layout'
  <2>1. step' # "glue"
    BY <1>2 DEF PruneDir
  <2>2. CASE UNCHANGED <<dir, oldTree, troubled>>
    BY <1>1, <2>1, <2>2
  <2>3. CASE /\ Removed(x)
             /\ oldTree' = IF Depth(x) = 0 THEN oldTree \ {FidOf(x)} ELSE oldTree
    BY <2>1, <2>3 DEF Removed
  <2> QED
    BY <1>2, <2>2, <2>3, PruneEffect
<1>3. ASSUME NEW x \in Names, FindMigratedFile(x) PROVE Layout'
  <2>1. oldTree' = oldTree /\ troubled' = troubled
    BY <1>3 DEF FindMigratedFile
  <2> QED
    BY <1>0, <1>3, <2>1, FindEffect DEF FindMigratedFile
<1>4. CASE Combine
  <2>1. oldTree' = oldTree /\ troubled' = troubled /\ at' = at /\ step = "glue"
    BY <1>4 DEF Combine
  <2> QED
    <3>1. /\ at \in Names /\ Here.file \in Int
          /\ Depth(at) # 0 => /\ ~ Here.tree
                             /\ \A b \in Blocks : b < Here.file => b \in Here.blocks
      BY <1>4, <2>1, CombineEffect DEF Contents, NoFile
    <3>2. ASSUME dir' # dir, Depth(at) # 0, NEW b \in Blocks, b < dir'[at].file
          PROVE  b \in dir'[at].blocks
      <4>1. /\ dir'[at].blocks = Here.blocks /\ dir'[at].file = Here.file + 1
            /\ Here.file \in Here.blocks
        BY <1>4, <3>2, CombineEffect
      <4>2. b \in Int /\ (b < Here.file \/ b = Here.file)
        <5>1. b \in Int /\ b < Here.file + 1 /\ Here.file \in Int
          BY <3>1, <3>2, <4>1 DEF Blocks
        <5> HIDE DEF Intact
        <5> QED
          BY <5>1
      <4> QED
        BY <3>1, <3>2, <4>1, <4>2
    <3>3. CASE dir' # dir
      BY <1>4, <2>1, <3>2, <3>3, CombineEffect
    <3>4. CASE dir' = dir
      BY <1>1, <1>4, <2>1, <3>4, CombineEffect
    <3> QED
      BY <3>3, <3>4
<1>5. CASE MoveTree
  BY <1>5, MoveTreeEffect DEF MoveTree
<1>6. ASSUME MarkCorrupted, Working, oldTree' = oldTree, troubled \subseteq troubled' PROVE Layout'
  BY <1>0, <1>6, MarkEffect DEF NoFile
<1>7. CASE Check
  BY <1>1, <1>6, <1>7 DEF Check
<1>8. CASE CleanOld
  <2>1. oldTree' = oldTree /\ at \in Names /\ troubled' = troubled /\ step = "clean"
    BY <1>8, CleanEffect DEF CleanOld
  <2>2. CASE dir' = dir
    BY <1>1, <1>8, <2>1, <2>2, CleanEffect
  <2>3. CASE dir' # dir
    <3>1. /\ Here # Nothing /\ Others(at) /\ step' = "clean" /\ Depth(at) = 0
          /\ dir'[at].tree = Here.tree /\ dir'[at].renamed = Here.renamed
      BY <1>8, <2>1, <2>3, CleanEffect DEF Glueing
    <3> QED
      BY <2>1, <3>1
  <2> QED
    BY <2>2, <2>3
<1>9. CASE DiskFails
  <2>1. Working /\ oldTree' = oldTree /\ troubled \subseteq troubled'
    BY <1>9 DEF DiskFails
  <2>2. MarkCorrupted \/ (dir' = dir /\ step' # "glue")
    BY <1>9 DEF DiskFails, NextDir
  <2> QED
    BY <1>1, <1>6, <2>1, <2>2
<1>10. ASSUME NEW f \in Fids, Store(f) \/ StoreCutOff(f) \/ StoreUnchecked(f) PROVE Layout'
  <2>1. /\ dir'[<<f, 0>>].renamed = dir[<<f, 0>>].renamed
        /\ \A y \in Names \ {<<f, 0>>} : dir'[y] = dir[y]
        /\ dir'[<<f, 0>>].tree \/ f \in troubled'
    BY <1>10, StoreEffect, StoreCutOffEffect, StoreUncheckedEffect DEF Stored
  <2>2. oldTree' = oldTree /\ step' = "off" /\ troubled \ {f} \subseteq troubled'
    BY <1>10 DEF Store, StoreCutOff, StoreUnchecked
  <2> QED
    BY <2>1, <2>2
<1>11. CASE PurgeFile
  <2>1. UNCHANGED <<oldTree, step, at>>
    BY <1>11 DEF PurgeFile
  <2> QED
    BY <1>11, <2>1, PurgeEffect DEF Removed
<1>12. ASSUME NEW x \in Names, FindFails(x) PROVE Layout'
  BY <1>1, <1>12 DEF FindFails
<1>13. CASE Crash
  BY <1>1, <1>13 DEF Crash
<1> QED
  BY <1>1, <1>2, <1>3, <1>4, <1>5, <1>7, <1>8, <1>9, <1>10, <1>11, <1>12, <1>13
  DEF Next, Migrate, Start, Pruned, Finish, PurgeContract, Reader, Read, TryLegacy,
      TrySingle, vars

LEMMA GlueingStep ==
    ASSUME TInv, Layout, Glueing, Copies, [Next]_vars
    PROVE  Glueing'
<1> USE NameFacts, NothingFields
    DEF TInv, TypeOK, Glueing, Intact, Places, Working, Here, Others, diskVars, commandVars,
        historyVars
<1>0. Blocks # {} /\ NoFile # BlockCount /\ NoFile # 0
  BY BlocksFacts DEF NoFile
<1>1. CASE UNCHANGED <<dir, step, at, count, troubled, contracts, unbacked>>
  BY <1>1
<1>2. CASE /\ UNCHANGED <<dir, troubled>>
           /\ step \notin {"glue", "tree", "check", "clean"}
           /\ step' \notin {"glue", "tree", "check", "clean"}
  BY <1>2
<1>3. ASSUME NEW x \in Names, PruneDir(x) PROVE Glueing'
  <2>1. step = "prune" /\ step' \in {"prune", "off"}
    BY <1>3 DEF PruneDir
  <2>2. CASE UNCHANGED <<dir, troubled>>
    BY <1>2, <2>1, <2>2
  <2>3. CASE Removed(x)
    BY <1>0, <2>1, <2>3 DEF Removed
  <2> QED
    BY <1>3, <2>2, <2>3, PruneEffect
<1>4. ASSUME NEW x \in Names, FindMigratedFile(x) PROVE Glueing'
  <2>1. troubled' = troubled /\ step = "find"
    BY <1>4 DEF FindMigratedFile
  <2> QED
    BY <1>0, <1>4, <2>1, FindEffect, BlocksFacts DEF FindMigratedFile, Contents
<1>5. CASE Combine
  <2>1. /\ at \in Names /\ step = "glue" /\ UNCHANGED <<at, count, troubled>>
        /\ Here = Nothing \/ Here.file # NoFile \/ FidOf(at) \in troubled
    BY <1>5, CombineEffect DEF Combine
  <2>2. Here.file \in NoFile .. BlockCount /\ BlockCount \in Nat
    BY <2>1 DEF Contents
  <2>3. CASE Here.file < count /\ Here.file \in Here.blocks
    <3>1. step' = "glue" /\ Here # Nothing /\ Here.file + 1 # NoFile
      BY <1>5, <2>1, <2>2, <2>3 DEF Combine, NoFile
    <3>2. Working' => Here' = Nothing \/ Here'.file # NoFile \/ FidOf(at') \in troubled'
      <4>1. dir'[at].file = Here.file + 1 /\ at' = at
        BY <1>5, <2>1, <2>3, CombineEffect
      <4>2. Here.file # NoFile
        BY <2>3, <2>1 DEF Contents, Blocks, NoFile
      <4> QED
        BY <2>2, <4>1, <4>2 DEF NoFile
    <3>3. step' = "glue" /\ Here'.blocks = Blocks => count' = BlockCount
      BY <1>5, <2>1, <2>3, CombineEffect
    <3>4. \A f \in Fids : LET c == dir'[<<f, 0>>] IN
             c.blocks = Blocks /\ c.file \notin {NoFile, BlockCount} =>
                 f \in troubled' \/ (step' = "glue" /\ at' = <<f, 0>>)
      BY <1>5, <2>1, <2>3, <3>1, CombineEffect
    <3> QED
      BY <3>1, <3>2, <3>3, <3>4
  <2>4. CASE ~ (Here.file < count /\ Here.file \in Here.blocks)
    <3>1. step' = "tree" /\ dir' = dir
      BY <1>5, <2>4, CombineEffect
    <3>2. Here.blocks = Blocks => Here.file = BlockCount \/ FidOf(at) \in troubled
      <4>1. SUFFICES ASSUME Here.blocks = Blocks, FidOf(at) \notin troubled
                     PROVE  Here.file = BlockCount
        OBVIOUS
      <4>2. count = BlockCount /\ Here.file # NoFile
        BY <1>0, <2>1, <4>1
      <4>3. Here.file \in 0 .. BlockCount
        BY <2>2, <4>2 DEF NoFile
      <4>4. ~ (Here.file < BlockCount)
        BY <2>4, <4>1, <4>2, <4>3 DEF Blocks
      <4> QED
        BY <2>2, <4>3, <4>4
    <3> QED
      BY <2>1, <3>1, <3>2
  <2> QED
    BY <2>3, <2>4
<1>6. CASE MoveTree
  BY <1>6, MoveTreeEffect, <1>0 DEF MoveTree, Layout
<1>7. ASSUME MarkCorrupted, step = "check", troubled \subseteq troubled' PROVE Glueing'
  BY <1>0, <1>7, MarkEffect
<1>8. CASE Check
  <2>1. CASE MarkCorrupted
    BY <1>7, <1>8, <2>1 DEF Check
  <2>2. CASE ~ MarkCorrupted
    <3>1. /\ Intact \/ MayPass
          /\ step' = "clean" /\ UNCHANGED <<dir, at, count, troubled, contracts, unbacked>>
      BY <1>8, <2>2 DEF Check
    <3>2. at \in Names /\ Here.tree
      BY <1>8, <3>1 DEF Check, MayPass
    <3>3. Depth(at) = 0
      BY <3>2 DEF Layout
    <3>4. MayPass => /\ FidOf(at) \in troubled
                     /\ FidOf(at) \notin contracts \/ FidOf(at) \in unbacked
      BY DEF MayPass, Copies
    <3>5. step = "check" /\ Here' = Here /\ FidOf(at) \in Fids
      BY <1>8, <3>1, <3>2 DEF Check
    <3>6. \/ Intact'
          \/ /\ FidOf(at') \in troubled'
             /\ FidOf(at') \notin contracts' \/ FidOf(at') \in unbacked'
      <4>1. CASE MayPass
        BY <3>1, <3>4, <4>1
      <4>2. CASE Intact
        BY <3>1, <4>2
      <4> QED
        BY <3>1, <4>1, <4>2
    <3>7. Here' = Nothing \/ Here'.file # NoFile \/ FidOf(at') \in troubled'
      BY <3>1, <3>5
    <3>8. \A f \in Fids : LET c == dir'[<<f, 0>>] IN
             c.blocks = Blocks /\ c.file \notin {NoFile, BlockCount} => f \in troubled'
      BY <3>1, <3>5
    <3> HIDE DEF Intact
    <3> QED
      BY <3>1, <3>3, <3>6, <3>7, <3>8
  <2> QED
    BY <2>1, <2>2
<1>9. CASE CleanOld
  BY <1>0, <1>9, CleanEffect DEF CleanOld
<1>10. CASE DiskFails
  BY <1>7, <1>10 DEF DiskFails, NextDir
<1>11. CASE Crash
  <2>1. /\ dir' = dir /\ step' = "off"
        /\ troubled' = IF step = "glue" /\ Here.file < count
                       THEN troubled \cup {FidOf(at)} ELSE troubled
    BY <1>11 DEF Crash
  <2>2. ASSUME NEW f \in Fids, step = "glue", at = <<f, 0>>, f \notin troubled',
               Here.blocks = Blocks
        PROVE  Here.file = BlockCount
    <3>1. Here \in Contents /\ ~ (Here.file < BlockCount)
      BY <2>1, <2>2
    <3>2. Here.file \in NoFile .. BlockCount
      BY <3>1 DEF Contents
    <3> QED
      BY <3>1, <3>2 DEF NoFile
  <2> QED
    BY <2>1, <2>2
<1>12. ASSUME NEW f \in Fids, Store(f) \/ StoreCutOff(f) \/ StoreUnchecked(f) PROVE Glueing'
  <2>1. /\ dir'[<<f, 0>>].file = BlockCount \/ f \in troubled'
        /\ Others(<<f, 0>>)
    BY <1>12, StoreEffect, StoreCutOffEffect, StoreUncheckedEffect DEF Stored
  <2>2. step = "off" /\ step' = "off" /\ troubled \ {f} \subseteq troubled'
    BY <1>12 DEF Store, StoreCutOff, StoreUnchecked
  <2> QED
    BY <2>1, <2>2
<1>13. CASE PurgeFile
  <2>1. UNCHANGED <<step, at, count, contracts, unbacked>>
    BY <1>13 DEF PurgeFile
  <2>2. purging \in Fids /\ Removed(<<purging, 0>>) /\ FidOf(<<purging, 0>>) = purging
    BY <1>13, PurgeEffect
  <2>3. purging \notin contracts \/ purging \in unbacked
    BY DEF Copies
  <2>4. CASE at = <<purging, 0>>
    <3>1. Here' = Nothing \/ purging \in troubled'
      BY <2>1, <2>2, <2>4 DEF Removed
    <3>2. ASSUME NEW f \in Fids \ {purging} PROVE dir'[<<f, 0>>] = dir[<<f, 0>>]
      <4>1. <<f, 0>> \in Names \ {<<purging, 0>>}
        BY <3>2
      <4> QED
        BY <2>2, <4>1 DEF Removed
    <3>3. Here.blocks = Blocks \/ Here'.blocks # Blocks
      BY <2>1, <2>2, <2>4 DEF Removed, Contents
    <3>4. FidOf(at) = purging /\ Depth(at) = 0
      BY <2>2, <2>4
    <3>5. troubled \subseteq troubled'
      BY <2>2 DEF Removed
    <3> QED
      BY <1>0, <2>1, <2>2, <2>3, <2>4, <3>1, <3>2, <3>3, <3>4, <3>5
  <2>5. CASE at # <<purging, 0>>
    <3>1. Here' = Here \/ at = NoName
      BY <2>1, <2>2, <2>5 DEF Removed
    <3>2. ASSUME NEW f \in Fids \ {purging} PROVE dir'[<<f, 0>>] = dir[<<f, 0>>]
      <4>1. <<f, 0>> \in Names \ {<<purging, 0>>}
        BY <3>2
      <4> QED
        BY <2>2, <4>1 DEF Removed
    <3>3. /\ dir'[<<purging, 0>>] = Nothing \/ purging \in troubled'
          /\ troubled \subseteq troubled'
      BY <2>2 DEF Removed
    <3> QED
      BY <1>0, <2>1, <2>2, <2>5, <3>1, <3>2, <3>3
  <2> QED
    BY <2>4, <2>5
<1>14. ASSUME NEW x \in Names, FindFails(x) PROVE Glueing'
  BY <1>14 DEF FindFails
<1>15. ASSUME NEW f \in Fids, PurgeContract(f) PROVE Glueing'
  BY <1>15 DEF PurgeContract
<1> QED
  BY <1>1, <1>2, <1>3, <1>4, <1>5, <1>6, <1>8, <1>9, <1>10, <1>11, <1>12, <1>13, <1>14, <1>15
  DEF Next, Migrate, Start, Pruned, Finish, Reader, Read, TryLegacy, TrySingle, vars

\* A complete file that fails the check had trouble.
LEMMA FailsOnlyAfterTrouble ==
    ASSUME TInv, Glueing, step = "check", ~ Intact, Depth(at) = 0, Complete(Here)
    PROVE  FidOf(at) \in troubled
<1> USE NameFacts, NothingFields DEF TInv, TypeOK, Glueing, Intact, Places, Working, Here
<1>1. at \in Names /\ at = <<FidOf(at), 0>> /\ FidOf(at) \in Fids
  OBVIOUS
<1>2. Here # Nothing
  BY BlocksFacts DEF Complete, NoFile
<1>3. CASE Here.file = BlockCount
  BY <1>2, <1>3
<1>4. CASE Here.blocks = Blocks /\ Here.file # BlockCount
  BY <1>1, <1>2, <1>4
<1> QED
  BY <1>3, <1>4 DEF Complete

LEMMA MarkedStep ==
    ASSUME TInv, Glueing, Copies, MarkedOnlyAfterTrouble, [Next]_vars
    PROVE  MarkedOnlyAfterTrouble'
<1> USE DEF MarkedOnlyAfterTrouble
<1>1. CASE misjudged' = misjudged /\ troubled \subseteq troubled'
  BY <1>1
<1>2. CASE Check
  <2>1. troubled' = troubled
    BY <1>2 DEF Check
  <2>2. ASSUME misjudged' # misjudged PROVE FidOf(at) \in troubled
    <3>1. /\ ~ Intact \/ FidOf(at) \in unchecked
          /\ step = "check" /\ Depth(at) = 0 /\ Complete(Here)
      BY <1>2, <2>2 DEF Check, MarkCorrupted
    <3> QED
      BY <3>1, FailsOnlyAfterTrouble DEF Copies
  <2>3. misjudged' \in {misjudged, misjudged \cup {FidOf(at)}}
    BY <1>2 DEF Check, MarkCorrupted
  <2> QED
    BY <2>1, <2>2, <2>3
<1>3. CASE DiskFails
  BY <1>3 DEF DiskFails, MarkCorrupted
<1>4. ASSUME NEW f \in Fids, Store(f) PROVE MarkedOnlyAfterTrouble'
  BY <1>4 DEF Store
<1>5. ASSUME NEW x \in Names, PruneDir(x) \/ FindFails(x) PROVE MarkedOnlyAfterTrouble'
  BY <1>1, <1>5 DEF PruneDir, FindFails
<1> QED
  BY <1>1, <1>2, <1>3, <1>4, <1>5
  DEF Next, Migrate, Start, Pruned, FindMigratedFile, Combine, MoveTree, CleanOld,
      Finish, Crash, PurgeContract, PurgeFile, StoreCutOff, StoreUnchecked, Reader, Read,
      TryLegacy, TrySingle, historyVars, vars

LEMMA CopiesStep ==
    ASSUME TInv, Layout, Glueing, Copies, [Next]_vars
    PROVE  Copies'
<1> USE NameFacts, NothingFields
    DEF TInv, TypeOK, Copies, Places, Working, Here, Others, Complete, diskVars, commandVars,
        historyVars
<1>0. Blocks # {} /\ NoFile # BlockCount /\ 0 # BlockCount
  BY BlocksFacts DEF NoFile
<1>1. CASE /\ UNCHANGED <<dir, contracts, purging, misjudged, unbacked, unchecked>>
           /\ troubled \subseteq troubled'
  BY <1>1
<1>2. ASSUME NEW x \in Names, PruneDir(x) PROVE Copies'
  <2>1. UNCHANGED <<contracts, purging, misjudged, unchecked>>
    BY <1>2 DEF PruneDir
  <2>2. CASE UNCHANGED <<dir, troubled, unbacked>>
    BY <1>1, <2>1, <2>2
  <2>3. CASE /\ Removed(x)
             /\ unbacked' = IF Depth(x) = 0 /\ FidOf(x) \in contracts
                            THEN unbacked \cup {FidOf(x)} ELSE unbacked
    <3>1. ASSUME NEW y \in Names, Depth(y) # 0, FidOf(y) \in contracts \ unbacked',
                 Complete(dir'[y]) \/ dir'[y].renamed
          PROVE  FidOf(y) \in misjudged \/ Complete(dir'[<<FidOf(y), 0>>])
      <4>1. Complete(dir[y]) \/ dir[y].renamed
        <5>1. CASE y = x
          <6>1. dir[y].blocks \in SUBSET Blocks
            BY DEF Contents
          <6> QED
            BY <1>0, <2>3, <3>1, <5>1, <6>1 DEF Removed
        <5>2. CASE y # x
          BY <2>3, <3>1, <5>2 DEF Removed
        <5> QED
          BY <5>1, <5>2
      <4>2. FidOf(y) \in contracts \ unbacked
        BY <2>3, <3>1
      <4>3. x # <<FidOf(y), 0>>
        BY <2>3, <3>1, <4>2
      <4>4. <<FidOf(y), 0>> \in Names \ {x}
        BY <4>3
      <4>5. dir'[<<FidOf(y), 0>>] = dir[<<FidOf(y), 0>>]
        BY <2>3, <4>4 DEF Removed
      <4> QED
        BY <3>1, <4>1, <4>2, <4>5
    <3>2. troubled \subseteq troubled' /\ unbacked \subseteq unbacked'
      BY <2>3 DEF Removed
    <3> QED
      BY <2>1, <3>1, <3>2
  <2> QED
    BY <1>2, <2>2, <2>3, PruneEffect
<1>3. ASSUME NEW x \in Names, FindMigratedFile(x) PROVE Copies'
  <2>1. UNCHANGED <<contracts, purging, misjudged, unbacked, unchecked, troubled>>
    BY <1>3 DEF FindMigratedFile
  <2> QED
    BY <1>0, <1>3, <2>1, FindEffect
<1>4. CASE Combine
  <2>1. /\ at \in Names /\ step = "glue" /\ at' = at
        /\ UNCHANGED <<contracts, purging, misjudged, unbacked, unchecked, troubled>>
    BY <1>4, CombineEffect DEF Combine
  <2>2. CASE dir' = dir
    BY <1>1, <2>1, <2>2
  <2>3. CASE dir' # dir
    <3>1. /\ dir'[at].blocks = Here.blocks /\ dir'[at].renamed = Here.renamed
          /\ dir'[at].file = Here.file + 1 /\ Here.file < count /\ Others(at)
          /\ step' = "glue"
      BY <1>4, <2>1, <2>3, CombineEffect
    <3>2. Here \in Contents /\ Here.file # BlockCount
      BY <2>1, <3>1 DEF Contents
    <3>3. Depth(at) # 0 /\ dir'[at].file = BlockCount => Here.blocks = Blocks
      <4>1. \A b \in Blocks : b < BlockCount
        BY DEF Blocks
      <4>2. Layout'
        BY LayoutStep
      <4>3. Depth(at) # 0 => \A b \in Blocks : b < dir'[at].file => b \in dir'[at].blocks
        BY <2>1, <3>1, <4>2 DEF Layout
      <4>4. Here.blocks \in SUBSET Blocks
        BY <3>2 DEF Contents
      <4>5. ASSUME Depth(at) # 0, dir'[at].file = BlockCount PROVE Blocks \subseteq Here.blocks
        BY <3>1, <4>1, <4>3, <4>5
      <4> QED
        BY <4>4, <4>5
    <3>4. Complete(Here) => Complete(dir'[at])
      BY <3>1, <3>2
    <3>5. Depth(at) # 0 /\ Complete(dir'[at]) => Complete(Here)
      BY <3>1, <3>3
    <3> HIDE DEF Complete
    <3>6. Others(at) /\ dir'[at].renamed = Here.renamed
      BY <3>1
    <3> QED
      BY <2>1, <3>4, <3>5, <3>6
  <2> QED
    BY <2>2, <2>3
<1>5. CASE MoveTree
  BY <1>5, MoveTreeEffect DEF MoveTree
<1>6. ASSUME MarkCorrupted, step = "check", troubled \subseteq troubled',
             UNCHANGED <<contracts, purging, unbacked, unchecked>>
      PROVE  Copies'
  BY <1>0, <1>6, MarkEffect DEF Layout
<1>7. CASE Check
  BY <1>1, <1>6, <1>7 DEF Check
<1>8. CASE CleanOld
  <2>1. /\ at \in Names /\ step = "clean"
        /\ UNCHANGED <<contracts, purging, misjudged, unbacked, unchecked, troubled>>
    BY <1>8, CleanEffect DEF CleanOld
  <2>2. CASE dir' = dir
    BY <1>1, <2>1, <2>2
  <2>3. CASE dir' # dir
    <3>1. /\ Others(at) /\ Depth(at) = 0 /\ Here # Nothing
          /\ dir'[at].file = Here.file /\ at = <<FidOf(at), 0>>
      BY <1>8, <2>1, <2>3, CleanEffect DEF Glueing
    <3>2. Here.file = BlockCount \/ FidOf(at) \notin contracts \ unbacked
      BY <2>1, <3>1 DEF Glueing, Intact
    <3>3. ASSUME NEW y \in Names, Depth(y) # 0, FidOf(y) \in contracts \ unbacked,
                 Complete(dir'[y]) \/ dir'[y].renamed
          PROVE  FidOf(y) \in misjudged \/ Complete(dir'[<<FidOf(y), 0>>])
      <4>1. dir'[y] = dir[y]
        BY <3>1, <3>3
      <4>2. CASE FidOf(y) = FidOf(at)
        BY <3>1, <3>2, <3>3, <4>2
      <4>3. CASE FidOf(y) # FidOf(at)
        <5>1. <<FidOf(y), 0>> \in Names \ {at}
          BY <3>1, <4>3
        <5> QED
          BY <3>1, <3>3, <4>1, <5>1
      <4> QED
        BY <4>2, <4>3
    <3> QED
      BY <2>1, <3>3
  <2> QED
    BY <2>2, <2>3
<1>9. CASE DiskFails
  BY <1>1, <1>6, <1>9 DEF DiskFails
<1>10. CASE Crash
  BY <1>10 DEF Crash
<1>11. ASSUME NEW f \in Fids, PurgeContract(f) PROVE Copies'
  BY <1>11 DEF PurgeContract
<1>12. ASSUME NEW f \in Fids, StoreCutOff(f) PROVE Copies'
  <2>1. UNCHANGED <<contracts, purging, misjudged, unbacked, unchecked>>
    BY <1>12 DEF StoreCutOff
  <2>2. PICK size \in 0 .. BlockCount : size >= dir[<<f, 0>>].file /\ Stored(<<f, 0>>, size)
    BY <1>12, StoreCutOffEffect
  <2>3. troubled \subseteq troubled'
    BY <1>12, StoreCutOffEffect
  <2>4. Complete(dir[<<f, 0>>]) => Complete(dir'[<<f, 0>>])
    <3>1. dir[<<f, 0>>].file = BlockCount => size = BlockCount
      BY <2>2
    <3> QED
      BY <2>2, <3>1 DEF Stored
  <2>5. \A y \in Names \ {<<f, 0>>} : dir'[y] = dir[y]
    BY <2>2 DEF Stored
  <2> HIDE DEF Complete
  <2> QED
    BY <2>1, <2>3, <2>4, <2>5
<1>13. ASSUME NEW f \in Fids, StoreUnchecked(f) PROVE Copies'
  <2>1. /\ UNCHANGED <<purging, misjudged>>
        /\ contracts' = contracts \cup {f} /\ unchecked' = unchecked \cup {f}
        /\ unbacked' = unbacked \cup {f} /\ troubled' = troubled \cup {f}
    BY <1>13 DEF StoreUnchecked
  <2>2. \A y \in Names \ {<<f, 0>>} : dir'[y] = dir[y]
    BY <1>13, StoreUncheckedEffect DEF Stored
  <2> HIDE DEF Complete
  <2>3. ASSUME NEW x \in Names, Depth(x) # 0, FidOf(x) \in contracts' \ unbacked',
               Complete(dir'[x]) \/ dir'[x].renamed
        PROVE  FidOf(x) \in misjudged' \/ Complete(dir'[<<FidOf(x), 0>>])
    <3>1. x # <<f, 0>> /\ <<FidOf(x), 0>> \in Names \ {<<f, 0>>}
      BY <2>1, <2>3
    <3> QED
      BY <2>1, <2>2, <2>3, <3>1
  <2> QED
    BY <2>1, <2>3
<1>14. ASSUME NEW x \in Names, FindFails(x) PROVE Copies'
  BY <1>1, <1>14 DEF FindFails
<1>15. CASE Start
  <2>1. PICK recollected \in SUBSET (Fids \ contracts) :
           /\ contracts' = contracts \cup recollected
           /\ unbacked' = unbacked \cup
                 {f \in recollected : ~ Complete(dir[<<f, 0>>]) \/ f \in unchecked}
    BY <1>15 DEF Start
  <2>2. /\ UNCHANGED <<dir, troubled, misjudged, unchecked>> /\ purging' = NoFid
    BY <1>15 DEF Start
  <2> HIDE DEF Complete
  <2> QED
    BY <2>1, <2>2
<1>16. ASSUME NEW f \in Fids, Store(f) PROVE Copies'
  <2>1. /\ Complete(dir'[<<f, 0>>])
        /\ \A y \in Names \ {<<f, 0>>} : dir'[y] = dir[y]
    BY <1>16, StoreEffect DEF Stored
  <2>2. /\ purging' = purging /\ unchecked' = unchecked
        /\ contracts' = contracts \cup {f} /\ misjudged \ {f} \subseteq misjudged'
        /\ unbacked' = IF purging = f \/ f \in unchecked THEN unbacked \cup {f}
                                                         ELSE unbacked \ {f}
        /\ troubled' = IF f \in unchecked THEN troubled ELSE troubled \ {f}
    BY <1>16 DEF Store
  <2> HIDE DEF Complete
  <2>3. ASSUME NEW x \in Names, Depth(x) # 0, FidOf(x) \in contracts' \ unbacked',
               Complete(dir'[x]) \/ dir'[x].renamed, FidOf(x) # f
        PROVE  FidOf(x) \in misjudged' \/ Complete(dir'[<<FidOf(x), 0>>])
    <3>1. x # <<f, 0>> /\ <<FidOf(x), 0>> \in Names \ {<<f, 0>>}
      BY <2>3
    <3> QED
      BY <2>1, <2>2, <2>3, <3>1
  <2> QED
    BY <2>1, <2>2, <2>3
<1>17. CASE PurgeFile
  <2>1. UNCHANGED <<contracts, misjudged, unbacked, unchecked>> /\ purging' = NoFid
    BY <1>17 DEF PurgeFile
  <2>2. purging \in Fids /\ Removed(<<purging, 0>>) /\ troubled \subseteq troubled'
    BY <1>17, PurgeEffect DEF Removed
  <2>3. ASSUME NEW y \in Names, Depth(y) # 0, FidOf(y) \in contracts \ unbacked,
               Complete(dir'[y]) \/ dir'[y].renamed
        PROVE  FidOf(y) \in misjudged \/ Complete(dir'[<<FidOf(y), 0>>])
    <3>1. FidOf(y) # purging
      BY <2>3
    <3>2. y \in Names \ {<<purging, 0>>} /\ <<FidOf(y), 0>> \in Names \ {<<purging, 0>>}
      BY <2>2, <2>3, <3>1
    <3>3. dir'[y] = dir[y] /\ dir'[<<FidOf(y), 0>>] = dir[<<FidOf(y), 0>>]
      BY <2>2, <3>2 DEF Removed
    <3> QED
      BY <2>3, <3>3
  <2> HIDE DEF Complete
  <2> QED
    BY <2>1, <2>2, <2>3
<1> QED
  BY <1>1, <1>2, <1>3, <1>4, <1>5, <1>7, <1>8, <1>9, <1>10, <1>11, <1>12, <1>13, <1>14,
     <1>15, <1>16, <1>17
  DEF Next, Migrate, Pruned, Finish, Reader, Read, TryLegacy, TrySingle, vars

LEMMA VisitedStep ==
    ASSUME TInv, Layout, Glueing, Copies, Visited, [Next]_vars
    PROVE  Visited'
<1> USE NameFacts, NothingFields
    DEF TInv, TypeOK, Visited, Migrated, Places, Working, Here, Others, diskVars,
        commandVars, historyVars
<1>0. Blocks # {} /\ NoFile # BlockCount /\ 0 # BlockCount /\ ~ Complete(Nothing)
  BY BlocksFacts DEF NoFile, Complete
<1>1. CASE UNCHANGED <<dir, step, at, todo, troubled>>
  BY <1>1
<1>2. CASE step' \in {"off", "prune"}
  BY <1>2
<1>3. ASSUME step' = "find", todo' = Listed, UNCHANGED <<dir, troubled>> PROVE Visited'
  <2>1. ASSUME NEW f \in Fids, dir[<<f, 0>>] # Nothing PROVE <<f, 0>> \in Listed
    <3>1. 0 < MaxDepth /\ <<f, 0>> \in Names /\ Depth(<<f, 0>>) = 0
      OBVIOUS
    <3> QED
      BY <2>1, <3>1, Zenon DEF Listed
  <2> QED
    BY <1>0, <1>3, <2>1
<1>4. ASSUME NEW x \in Names, FindMigratedFile(x) PROVE Visited'
  <2>1. todo' = todo \ {x} /\ troubled' = troubled /\ step = "find" /\ at = NoName
    BY <1>4 DEF FindMigratedFile
  <2> QED
    BY <1>0, <1>4, <2>1, FindEffect
<1>5. CASE Combine
  BY <1>5, CombineEffect DEF Combine
<1>6. CASE MoveTree
  BY <1>6, MoveTreeEffect DEF MoveTree
<1>7. CASE Check
  <2>1. Complete(Here) /\ Depth(at) = 0 /\ MarkCorrupted => FidOf(at) \in troubled
    BY <1>7, FailsOnlyAfterTrouble DEF Check, MarkCorrupted, NextDir, Copies
  <2>2. CASE MarkCorrupted
    BY <1>0, <1>7, <2>1, <2>2, MarkEffect DEF Check
  <2>3. CASE ~ MarkCorrupted
    BY <1>7, <2>3 DEF Check
  <2> QED
    BY <2>2, <2>3
<1>8. CASE CleanOld
  BY <1>0, <1>8, CleanEffect DEF CleanOld, Glueing, Intact
<1>9. CASE DiskFails
  BY <1>0, <1>9, MarkEffect DEF DiskFails, NextDir
<1>10. CASE PurgeFile
  <2>1. UNCHANGED <<step, at, todo>>
    BY <1>10 DEF PurgeFile
  <2> QED
    BY <1>0, <1>10, <2>1, PurgeEffect DEF Removed
<1>11. ASSUME NEW x \in Names, FindFails(x) PROVE Visited'
  BY <1>11 DEF FindFails
<1>12. ASSUME NEW x \in Names, PruneDir(x) PROVE Visited'
  BY <1>2, <1>12 DEF PruneDir
<1>13. CASE Start
  BY <1>2, <1>3, <1>13 DEF Start
<1>14. CASE Pruned
  BY <1>2, <1>3, <1>14 DEF Pruned
<1>15. CASE Finish \/ Crash
  BY <1>2, <1>15 DEF Finish, Crash
<1>16. ASSUME NEW f \in Fids, Store(f) \/ StoreCutOff(f) \/ StoreUnchecked(f) PROVE Visited'
  BY <1>2, <1>16 DEF Store, StoreCutOff, StoreUnchecked
<1>17. ASSUME NEW f \in Fids, PurgeContract(f) PROVE Visited'
  BY <1>1, <1>17 DEF PurgeContract
<1>18. CASE UNCHANGED vars \/ Reader
  BY <1>1, <1>18 DEF Reader, Read, TryLegacy, TrySingle, vars
<1> QED
  BY <1>4, <1>5, <1>6, <1>7, <1>8, <1>9, <1>10, <1>11, <1>12, <1>13, <1>14, <1>15, <1>16,
     <1>17, <1>18
  DEF Next, Migrate

LEMMA LegacyStep ==
    ASSUME TInv, NotInLegacy, [Next]_vars
    PROVE  NotInLegacy'
<1> USE NameFacts, NothingFields
    DEF TInv, TypeOK, NotInLegacy, Others, Here, Reading, NotReading, diskVars, commandVars,
        historyVars
<1>1. ASSUME reader' = reader, oldTree' \subseteq oldTree,
             \A f \in Fids : dir'[<<f, 0>>].blocks \subseteq dir[<<f, 0>>].blocks
      PROVE  NotInLegacy'
  BY <1>1
<1>2. ASSUME NEW x \in Names, PruneDir(x) PROVE NotInLegacy'
  <2>1. reader' = reader
    BY <1>2 DEF PruneDir
  <2> QED
    BY <1>1, <1>2, <2>1, PruneEffect DEF Removed
<1>3. ASSUME NEW x \in Names, FindMigratedFile(x) PROVE NotInLegacy'
  BY <1>1, <1>3, FindEffect DEF FindMigratedFile
<1>4. CASE Combine
  BY <1>1, <1>4, CombineEffect DEF Combine
<1>5. CASE MoveTree
  BY <1>1, <1>5, MoveTreeEffect DEF MoveTree
<1>6. ASSUME MarkCorrupted, step = "check", UNCHANGED <<oldTree, reader>> PROVE NotInLegacy'
  BY <1>1, <1>6, MarkEffect DEF Working, Places
<1>7. CASE Check
  BY <1>1, <1>6, <1>7 DEF Check
<1>8. CASE CleanOld
  BY <1>1, <1>8, CleanEffect DEF CleanOld
<1>9. CASE DiskFails
  BY <1>1, <1>6, <1>9 DEF DiskFails
<1>10. CASE Crash
  BY <1>10 DEF Crash
<1>11. ASSUME NEW f \in Fids, Store(f) \/ StoreCutOff(f) \/ StoreUnchecked(f)
       PROVE  NotInLegacy'
  <2>1. UNCHANGED <<oldTree, reader>>
    BY <1>11 DEF Store, StoreCutOff, StoreUnchecked
  <2>2. dir'[<<f, 0>>].blocks = dir[<<f, 0>>].blocks /\ Others(<<f, 0>>)
    BY <1>11, StoreEffect, StoreCutOffEffect, StoreUncheckedEffect DEF Stored
  <2> QED
    BY <1>1, <2>1, <2>2
<1>12. CASE PurgeFile
  <2>1. UNCHANGED <<oldTree, reader>>
    BY <1>12 DEF PurgeFile
  <2> QED
    BY <1>1, <1>12, <2>1, PurgeEffect DEF Removed
<1>13. CASE Reader
  BY <1>13 DEF Reader, Read, TryLegacy, TrySingle
<1>14. CASE UNCHANGED <<dir, oldTree, reader>>
  BY <1>1, <1>14
<1>15. ASSUME NEW x \in Names, FindFails(x) PROVE NotInLegacy'
  BY <1>1, <1>15 DEF FindFails
<1>16. CASE Start
  BY <1>16 DEF Start
<1> QED
  BY <1>2, <1>3, <1>4, <1>5, <1>7, <1>8, <1>9, <1>10, <1>11, <1>12, <1>13, <1>14, <1>15,
     <1>16
  DEF Next, Migrate, Pruned, Finish, PurgeContract, vars

LEMMA MInvInvariant == Spec => []MInv
<1>1. ASSUME Init PROVE Layout /\ Glueing /\ MarkedOnlyAfterTrouble /\ Copies /\ Visited /\ NotInLegacy
  <2> USE NameFacts, NothingFields
  <2>1. PICK first \in [Fids -> {Legacy(k) : k \in 1 .. BlockCount} \cup {Single}] :
           /\ dir = [x \in Names |-> IF Depth(x) = 0 THEN first[FidOf(x)] ELSE Nothing]
           /\ oldTree = {f \in Fids : first[f] # Single}
    BY <1>1 DEF Init
  <2>2. /\ Single.blocks = {} /\ Single.file = BlockCount /\ Single.tree /\ ~ Single.renamed
        /\ \A k \in 1 .. BlockCount : Legacy(k).file = NoFile /\ ~ Legacy(k).renamed
    BY DEF Single, Legacy, Nothing
  <2>3. /\ \A f \in Fids : /\ dir[<<f, 0>>].file \in {NoFile, BlockCount}
                           /\ ~ dir[<<f, 0>>].renamed
                           /\ dir[<<f, 0>>].tree \/ f \in oldTree
        /\ \A x \in Names : Depth(x) # 0 => dir[x] = Nothing
    BY <2>1, <2>2
  <2>4. Layout
    BY <2>3 DEF Layout, NoFile, Blocks
  <2>5. Glueing
    BY <1>1, <2>3 DEF Init, Glueing, Working
  <2>6. Copies
    BY <1>1, <2>3, BlocksFacts DEF Init, Copies, Complete, NoFile
  <2>7. MarkedOnlyAfterTrouble /\ Visited /\ NotInLegacy
    BY <1>1 DEF Init, MarkedOnlyAfterTrouble, Visited, Working, NotInLegacy, NotReading
  <2> QED
    BY <2>4, <2>5, <2>6, <2>7
<1> QED
  BY <1>1, InitTInv, TypeStep, LayoutStep, GlueingStep, MarkedStep, CopiesStep, VisitedStep,
     LegacyStep, PTL DEF Spec, MInv

-----------------------------------------------------------------------------

\* A complete file is marked corrupted only if since its last arrival its
\* storing, glueing or removing was cut off, an access to the disk failed, or
\* some answer that was not the file was stored, whatever else happened before.
THEOREM MarksOnlyAfterTrouble == Spec => []MarkedOnlyAfterTrouble
<1>1. MInv => MarkedOnlyAfterTrouble
  BY DEF MInv
<1> QED
  BY <1>1, MInvInvariant, PTL

\* The last complete copy of a file under contract leaves the disk only if the
\* file was wrongly marked corrupted and its directory pruned, or its directory
\* did not count any more: pruned on a look-up that failed, purged although
\* contracts were left or the file had come back, not there when the deal was
\* recollected, or stored from an answer that was not the file.
THEOREM KeepsLastCopy == Spec => LastCopyKept
<1> DEFINE Lost(f) == OnDisk(f) /\ ~ OnDisk(f)'
           Copy(x) == Complete(dir[x]) \/ dir[x].renamed
           Excused(f) == f \notin contracts \/ f \in misjudged \/ f \in unbacked'
<1>1. ASSUME MInv, [Next]_vars, NEW f \in Fids, Lost(f)
      PROVE  Excused(f)
  <2> USE <1>1, NameFacts, NothingFields
      DEF MInv, TInv, TypeOK, Places, Working, Here, Others, diskVars, commandVars, historyVars
  <2>1. PICK y \in Names : FidOf(y) = f /\ Copy(y)
    BY DEF OnDisk
  <2>2. \A x \in Names : FidOf(x) = f => ~ Copy(x)'
    BY DEF OnDisk
  <2>3. ~ Complete(Nothing) /\ Blocks # {} /\ NoFile # BlockCount /\ 0 # BlockCount
    BY BlocksFacts DEF Complete, NoFile
  <2>4. ASSUME NEW x \in Names, PruneDir(x) PROVE Excused(f)
    <3>1. /\ Removed(x)
          /\ unbacked' = IF Depth(x) = 0 /\ FidOf(x) \in contracts
                         THEN unbacked \cup {FidOf(x)} ELSE unbacked
      BY <2>1, <2>2, <2>4, PruneEffect DEF Complete
    <3>2. \A z \in Names \ {x} : dir'[z] = dir[z]
      BY <3>1 DEF Removed
    <3>3. y = x
      BY <2>1, <2>2, <3>2
    <3>4. CASE Depth(x) = 0
      BY <2>1, <3>1, <3>3, <3>4
    <3>5. CASE Depth(x) # 0
      <4>1. <<f, 0>> \in Names \ {x} /\ FidOf(<<f, 0>>) = f
        BY <3>5
      <4>2. ~ Complete(dir[<<f, 0>>])
        BY <2>2, <3>2, <4>1 DEF Complete
      <4> QED
        BY <2>1, <3>1, <3>3, <3>5, <4>2 DEF Copies
    <3> QED
      BY <3>4, <3>5
  <2>5. ASSUME NEW x \in Names, FindMigratedFile(x) PROVE FALSE
    BY <2>1, <2>2, <2>3, <2>5, FindEffect DEF Complete
  <2>6. CASE Combine
    <3>1. Here.file < count /\ dir' # dir => Here.file # BlockCount
      BY <2>6, CombineEffect DEF Combine, Contents
    <3> QED
      BY <2>1, <2>2, <2>6, <3>1, CombineEffect DEF Complete
  <2>7. CASE MoveTree
    BY <2>1, <2>2, <2>7, MoveTreeEffect DEF Complete
  <2>8. ASSUME MarkCorrupted, step = "check" PROVE FALSE
    <3>1. CASE dir' = dir
      BY <2>1, <2>2, <3>1 DEF Complete
    <3>2. CASE dir' # dir
      <4>1. /\ at \in Names /\ Marked(at) \in Names /\ FidOf(Marked(at)) = FidOf(at)
            /\ dir'[Marked(at)].blocks = Here.blocks
            /\ dir'[Marked(at)].renamed <=> Here.renamed \/ Here.file = BlockCount
            /\ \A x \in Names \ {at, Marked(at)} : dir'[x] = dir[x]
        BY <2>8, <3>2, MarkEffect
      <4>2. dir[Marked(at)] = Nothing
        BY <2>8, <3>2 DEF MarkCorrupted
      <4>3. y \in {at, Marked(at)}
        BY <2>1, <2>2, <4>1 DEF Complete
      <4>4. y = at
        BY <2>1, <2>3, <4>2, <4>3
      <4> QED
        BY <2>1, <2>2, <4>1, <4>4 DEF Complete
    <3> QED
      BY <3>1, <3>2
  <2>9. CASE CleanOld
    <3>1. /\ step = "clean" /\ unbacked' = unbacked /\ y = at
          /\ dir'[at].file = Here.file
          /\ dir'[at].renamed = Here.renamed /\ Here # Nothing
      BY <2>1, <2>2, <2>9, CleanEffect DEF CleanOld, Complete
    <3>2. Here.file # BlockCount
      BY <2>1, <2>2, <3>1 DEF Complete
    <3> QED
      BY <2>1, <3>1, <3>2 DEF Glueing, Intact
  <2>10. ASSUME NEW g \in Fids, Store(g) PROVE FALSE
    BY <2>1, <2>2, <2>10, StoreEffect DEF Complete, Stored
  <2>11. ASSUME NEW g \in Fids, StoreCutOff(g) PROVE FALSE
    <3>1. PICK size \in 0 .. BlockCount : size >= dir[<<g, 0>>].file /\ Stored(<<g, 0>>, size)
      BY <2>11, StoreCutOffEffect
    <3>2. dir[<<g, 0>>].file = BlockCount => size = BlockCount
      BY <3>1
    <3> QED
      BY <2>1, <2>2, <3>1, <3>2 DEF Complete, Stored
  <2>12. ASSUME NEW g \in Fids, StoreUnchecked(g) PROVE Excused(f)
    <3>1. \A z \in Names \ {<<g, 0>>} : dir'[z] = dir[z]
      BY <2>12, StoreUncheckedEffect DEF Stored
    <3>2. f = g
      BY <2>1, <2>2, <3>1
    <3> QED
      BY <2>12, <3>2, StoreUncheckedEffect
  <2>13. CASE PurgeFile
    <3>1. \A z \in Names \ {<<purging, 0>>} : dir'[z] = dir[z]
      BY <2>13, PurgeEffect DEF Removed
    <3>2. f = purging
      BY <2>1, <2>2, <2>13, <3>1, PurgeEffect
    <3> QED
      BY <2>13, <3>2 DEF PurgeFile, Copies
  <2>14. CASE UNCHANGED dir
    BY <2>1, <2>2, <2>14
  <2>15. CASE Check
    BY <2>8, <2>14, <2>15 DEF Check
  <2>16. CASE DiskFails
    BY <2>8, <2>14, <2>16 DEF DiskFails
  <2> QED
    BY <2>4, <2>5, <2>6, <2>7, <2>9, <2>10, <2>11, <2>12, <2>13, <2>14, <2>15, <2>16
    DEF Next, Migrate, Start, Pruned, FindFails, Finish, Crash, PurgeContract, Reader, Read,
        TryLegacy, TrySingle, vars
<1>2. MInv /\ [Next]_vars =>
         [\A f \in Fids : Lost(f) => Excused(f)]_vars
  BY <1>1
<1> QED
  BY <1>2, MInvInvariant, PTL DEF Spec, LastCopyKept

\* When a migration has finished, every file that is complete in its directory
\* and met no trouble is one file with its tree, and no block of it is left.
THEOREM MigratesAll == Spec => MigratedInTheEnd
<1>1. MInv => (step = "find" /\ step' = "off" /\ todo = {} /\ at = NoName =>
                  \A f \in contracts \ troubled :
                      LET c == dir[<<f, 0>>] IN
                      Complete(c) => c.file = BlockCount /\ c.tree /\ c.blocks = {})
  <2> SUFFICES ASSUME MInv, step = "find", todo = {}, at = NoName,
                      NEW f \in contracts \ troubled, Complete(dir[<<f, 0>>])
               PROVE  Migrated(dir[<<f, 0>>])
    BY Zenon DEF Migrated
  <2>1. f \in Fids /\ <<f, 0>> \in Names /\ <<f, 0>> # NoName
    BY NameFacts DEF MInv, TInv, TypeOK
  <2> QED
    BY <2>1 DEF MInv, Visited
<1> QED
  BY <1>1, MInvInvariant, PTL DEF Spec, MigratedInTheEnd

LEMMA ReaderMoves ==
    ASSUME [Next]_vars, reader' # reader, reader' # NotReading
    PROVE  Reader
<1>1. ASSUME NEW f \in Fids, PurgeContract(f) \/ Store(f) \/ StoreCutOff(f) \/ StoreUnchecked(f)
      PROVE  reader' = reader
  BY <1>1 DEF PurgeContract, Store, StoreCutOff, StoreUnchecked
<1>2. ASSUME NEW x \in Names, PruneDir(x) \/ FindMigratedFile(x) \/ FindFails(x)
      PROVE  reader' = reader
  BY <1>2 DEF PruneDir, FindMigratedFile, FindFails
<1> QED
  BY <1>1, <1>2 DEF Next, Migrate, Start, Pruned, Combine, MoveTree, Check, CleanOld, Finish,
     DiskFails, Crash, PurgeFile, vars

\* A reader of the hybrid archive finds every piece of a complete file under
\* contract, and its tree, at any moment of a migration, if the file met no
\* trouble; only a short last block of the old layout is not the piece.
THEOREM HybridFindsAll == Spec => HybridFinds
<1> DEFINE f == reader.fid
           c == dir[<<f, 0>>]
           Excused == f \notin contracts \/ f \in troubled \/ ~ Complete(c)
<1>1. ASSUME MInv, [Next]_vars, reader.pc = "single", reader'.pc = "missing"
      PROVE  Excused
  <2> USE <1>1 DEF MInv, TInv, TypeOK, Reading, NotReading
  <2>1. TrySingle
    BY ReaderMoves DEF Reader, Read, TryLegacy
  <2>2. f \in Fids /\ <<f, 0>> \in Names /\ c \in Contents
    BY NameFacts
  <2>3. CASE reader.want = BlockCount
    <3>1. f \notin oldTree /\ ~ c.tree
      BY <2>1, <2>3 DEF TrySingle, NotInLegacy
    <3>2. c = Nothing \/ f \in troubled
      BY <2>2, <3>1, NameFacts DEF Layout
    <3> QED
      BY <3>2, NothingFields, BlocksFacts DEF Complete, NoFile
  <2>4. CASE reader.want # BlockCount
    <3>1. reader.want \in Blocks /\ reader.want \notin c.blocks /\ ~ (c.file > reader.want)
      BY <2>1, <2>4 DEF TrySingle, NotInLegacy, Wants
    <3>2. c.blocks # Blocks /\ c.file # BlockCount
      BY <3>1 DEF Blocks
    <3> QED
      BY <3>2 DEF Complete
  <2> QED
    BY <2>3, <2>4
<1>2. ASSUME MInv, [Next]_vars, reader.pc = "legacy", reader'.pc \in {"padded", "missing"}
      PROVE  f \in ShortLast /\ reader.want = BlockCount - 1 /\ c.blocks # {}
  <2> USE <1>2 DEF MInv, TInv, TypeOK, Reading, NotReading
  <2>1. TryLegacy
    BY ReaderMoves DEF Reader, Read, TrySingle
  <2> QED
    BY <2>1 DEF TryLegacy
<1>3. MInv /\ [Next]_vars =>
         [/\ reader.pc = "single" /\ reader'.pc = "missing" => Excused
          /\ reader.pc = "legacy" /\ reader'.pc \in {"padded", "missing"} =>
                \/ f \in ShortLast /\ reader.want = BlockCount - 1 /\ c.blocks # {}
                \/ Excused]_vars
  BY <1>1, <1>2
<1> QED
  BY <1>3, MInvInvariant, PTL DEF Spec, HybridFinds

===============================================================================
