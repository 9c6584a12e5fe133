----------------------------- MODULE Strays_proofs -----------------------------
(* What holds of the stray manager for any number of contracts, hands and   *)
(* goroutines, in the middle of crashes and restarts.                       *)
EXTENDS Strays, TLAPS

USE FidOfAssumption, NoFidAssumption, NoCidAssumption, MaxLeftAssumption

LEMMA HandType == \A g \in Goroutines : Hand(g) \in HandIds
  BY DEF Goroutines, Hand

LEMMA InitType == Init => TypeOK
<1> SUFFICES ASSUME Init PROVE TypeOK
  OBVIOUS
<1>1. deals \in [Cids -> {"stray", "ours", "other"}]
  BY DEF Init
<1>2. /\ stray \in [HandIds -> Cids \cup {NoCid}] /\ busy \in [HandIds -> BOOLEAN]
      /\ pc \in [Goroutines -> {"none", "called", "holding", "idle", "done", "free"}
                                   \cup Working]
      /\ arg \in [Goroutines -> Cids \cup {NoCid}]
      /\ left \in [Goroutines -> 0 .. MaxLeft]
  BY DEF Init
<1>3. /\ DB!TypeOK /\ disk \in [Fids -> {"absent", "partial", "whole"}]
      /\ visit \subseteq HandIds /\ manager = "init" /\ recollect = FALSE
  BY DEF Init, DB!TypeOK
<1>4. /\ claimers = {} /\ funded = {} /\ hands = {} /\ pile = {}
      /\ unchecked = {}
      /\ panicked = FALSE /\ raced = FALSE /\ calm = FALSE
  BY DEF Init
<1> QED
  BY <1>1, <1>2, <1>3, <1>4 DEF TypeOK

LEMMA TypeStep ==
    ASSUME TypeOK, [Next]_vars
    PROVE  TypeOK'
<1> USE HandType
    DEF TypeOK, DB!TypeOK, Working, InHand, GoTo, chainVars, managerVars, startVars,
        processVars, historyVars
<1>1. ASSUME NEW h \in HandIds, AddHand(h) PROVE TypeOK'
  BY <1>1 DEF AddHand, TryHand
<1>2. CASE HandsReady
  BY <1>2 DEF HandsReady
<1>3. CASE CollectStrays
  BY <1>3 DEF CollectStrays, StraysOfKnown
<1>4. ASSUME NEW h \in HandIds, Distribute(h) PROVE TypeOK'
  BY <1>4 DEF Distribute
<1>5. CASE StartHands
  <2>1. PICK called : pc' = [g \in Goroutines |-> IF g \in called THEN "called" ELSE pc[g]]
    BY <1>5 DEF StartHands
  <2>2. pc' \in [Goroutines -> {"none", "called", "holding", "idle", "done", "free"} \cup Working]
    BY <2>1
  <2> QED
    BY <1>5, <2>2 DEF StartHands
<1>6. ASSUME NEW g \in Goroutines, Enter(g) \/ CheckBusy(g) \/ TakeHand(g) \/ NilStray(g)
      PROVE  TypeOK'
  <2>1. CASE Enter(g)
    BY <2>1 DEF Enter
  <2>2. CASE CheckBusy(g)
    BY <2>2 DEF CheckBusy
  <2>3. CASE TakeHand(g)
    BY <2>3 DEF TakeHand
  <2>4. CASE NilStray(g)
    BY <2>4 DEF NilStray
  <2> QED
    BY <1>6, <2>1, <2>2, <2>3, <2>4
<1>7. ASSUME NEW g \in Goroutines, Search(g) PROVE TypeOK'
  BY <1>7 DEF Search
<1>8. ASSUME NEW g \in Goroutines, Look(g) \/ NotFound(g) \/ Leave(g) PROVE TypeOK'
  <2>1. CASE Look(g)
    BY <2>1 DEF Look
  <2>2. CASE NotFound(g)
    BY <2>2 DEF NotFound
  <2>3. CASE Leave(g)
    BY <2>3 DEF Leave
  <2> QED
    BY <1>8, <2>1, <2>2, <2>3
<1>9. ASSUME NEW g \in Goroutines, Fetch(g) PROVE TypeOK'
  BY <1>9 DEF Fetch, FetchTo
<1>10. ASSUME NEW g \in Goroutines, Copy(g) PROVE TypeOK'
  BY <1>10 DEF Copy
<1>11. ASSUME NEW g \in Goroutines, ClaimStray(g) \/ Record(g) PROVE TypeOK'
  BY <1>11 DEF ClaimStray, Record
<1>12. CASE Recollect
  BY <1>12 DEF Recollect
<1>13. CASE Restart
  <2>1. /\ stray' \in [HandIds -> Cids \cup {NoCid}] /\ busy' \in [HandIds -> BOOLEAN]
        /\ pc' \in [Goroutines -> {"none", "called", "holding", "idle", "done", "free"}
                                     \cup Working]
        /\ arg' \in [Goroutines -> Cids \cup {NoCid}]
        /\ left' \in [Goroutines -> 0 .. MaxLeft]
    BY <1>13 DEF Restart, Fresh
  <2>2. /\ hands' = {} /\ manager' = "init" /\ visit' = HandIds /\ pile' = {}
        /\ recollect' = FALSE /\ panicked' = FALSE
        /\ UNCHANGED <<contracts, disk, deals, claimers, funded, raced, unchecked, calm>>
    BY <1>13 DEF Restart, Fresh
  <2> QED
    BY <2>1, <2>2
<1>14. CASE Chain
  BY <1>14 DEF Chain
<1>15. CASE UNCHANGED vars
  BY <1>15 DEF vars
<1> QED
  BY <1>1, <1>2, <1>3, <1>4, <1>5, <1>6, <1>7, <1>8, <1>9, <1>10, <1>11, <1>12, <1>13,
     <1>14, <1>15
  DEF Next, Manager, Process

\* The manager, its hands, their goroutines and the disk keep their types; in
\* particular no hand is granted an allowance or used that is not a claimer.
THEOREM TypeCorrect == Spec => []TypeOK
  BY InitType, TypeStep, PTL DEF Spec

-----------------------------------------------------------------------------
(***************************************************************************)
(* Hands.  As long as no goroutine took a hand on checks that were no longer *)
(* true, at most one is between taking a hand and leaving it; the hand is   *)
(* busy all that time, and holds one and the same stray until it lets go.   *)
(***************************************************************************)
AtWork(g) == pc[g] \in Working \cup {"done"}

OneAtWork ==
    /\ \A g \in Goroutines : AtWork(g) \/ pc[g] = "free" => busy[Hand(g)]
    /\ \A g, k \in Goroutines :
          /\ AtWork(g) \/ pc[g] = "free"
          /\ AtWork(k) \/ pc[k] = "free"
          /\ Hand(g) = Hand(k)
          => g = k

KeepsStray ==
    \A g \in Goroutines :
        /\ AtWork(g) => InHand(g) # NoCid
        /\ pc[g] = "copy" => arg[g] = InHand(g)

(***************************************************************************)
(* Files.  What is claimed or recorded is whole on the disk, or is of a file *)
(* that was taken in unchecked; other whole files stay whole.               *)
(***************************************************************************)
Held(c) == disk[FidOf[c]] = "whole" \/ FidOf[c] \in unchecked

HoldsWhatItClaims ==
    /\ \A g \in Goroutines : pc[g] \in {"claim", "record"} => Held(InHand(g))
    /\ \A c \in Cids : deals[c] = "ours" \/ c \in contracts => Held(c)

HInv == OneAtWork /\ KeepsStray /\ HoldsWhatItClaims /\ ~ panicked

SInv == TypeOK /\ (raced \/ HInv)

\* A race is not forgotten, not even by a restart.
LEMMA RaceStays == ASSUME [Next]_vars, raced PROVE raced'
  BY DEF Next, vars, Manager, Process, AddHand, TryHand, Distribute, HandsReady,
     CollectStrays, StartHands, Enter, CheckBusy, TakeHand, NilStray, Search, Look, Fetch,
     FetchTo, Copy, NotFound, ClaimStray, Record, Leave, Recollect, Restart, Chain,
     historyVars

LEMMA HandStep ==
    ASSUME TypeOK, HInv, [Next]_vars, ~ raced'
    PROVE  HInv'
<1> USE HandType
    DEF TypeOK, DB!TypeOK, HInv, OneAtWork, KeepsStray, HoldsWhatItClaims, Held, AtWork,
        Working, InHand, GoTo, chainVars, managerVars, startVars, processVars, historyVars
<1>1. ASSUME NEW h \in HandIds, AddHand(h) PROVE HInv'
  BY <1>1 DEF AddHand, TryHand
<1>2. CASE HandsReady
  BY <1>2 DEF HandsReady
<1>3. CASE CollectStrays
  BY <1>3 DEF CollectStrays
<1>4. ASSUME NEW h \in HandIds, Distribute(h) PROVE HInv'
  BY <1>4 DEF Distribute
<1>5. CASE StartHands
  <2>1. \A g \in Goroutines : pc'[g] = pc[g] \/ pc'[g] = "called"
    BY <1>5 DEF StartHands
  <2> QED
    BY <1>5, <2>1 DEF StartHands
<1>6. ASSUME NEW g \in Goroutines, Enter(g) PROVE HInv'
  BY <1>6 DEF Enter
<1>7. ASSUME NEW g \in Goroutines, CheckBusy(g) PROVE HInv'
  BY <1>7 DEF CheckBusy
<1>8. ASSUME NEW g \in Goroutines, TakeHand(g) PROVE HInv'
  <2>1. ~ busy[Hand(g)] /\ stray[Hand(g)] # NoCid
    BY <1>8 DEF TakeHand
  <2>2. \A k \in Goroutines : AtWork(k) \/ pc[k] = "free" => Hand(k) # Hand(g)
    BY <2>1
  <2>3. \A k \in Goroutines : pc'[k] = IF k = g THEN "search" ELSE pc[k]
    BY <1>8 DEF TakeHand
  <2>4. \A h \in HandIds : busy'[h] = IF h = Hand(g) THEN TRUE ELSE busy[h]
    BY <1>8 DEF TakeHand
  <2>5. OneAtWork'
    <3>1. ASSUME NEW k \in Goroutines, AtWork(k)' \/ pc'[k] = "free"
          PROVE  k = g \/ AtWork(k) \/ pc[k] = "free"
      BY <2>3, <3>1
    <3>2. \A k \in Goroutines : AtWork(k)' \/ pc'[k] = "free" => busy'[Hand(k)]
      BY <2>4, <3>1
    <3>3. ASSUME NEW k \in Goroutines, NEW l \in Goroutines, Hand(k) = Hand(l),
                 AtWork(k)' \/ pc'[k] = "free", AtWork(l)' \/ pc'[l] = "free"
          PROVE  k = l
      BY <2>2, <3>1, <3>3
    <3> HIDE DEF AtWork
    <3> QED
      BY <3>2, <3>3
  <2>6. KeepsStray' /\ HoldsWhatItClaims' /\ ~ panicked'
    BY <1>8, <2>1, <2>3 DEF TakeHand
  <2> QED
    BY <2>5, <2>6
<1>9. ASSUME NEW g \in Goroutines, NilStray(g) PROVE HInv'
  BY <1>9 DEF NilStray
<1>10. ASSUME NEW g \in Goroutines, Search(g) PROVE HInv'
  BY <1>10 DEF Search
<1>11. ASSUME NEW g \in Goroutines, Look(g) PROVE HInv'
  BY <1>11 DEF Look
<1>12. ASSUME NEW g \in Goroutines, Fetch(g) PROVE HInv'
  BY <1>12 DEF Fetch, FetchTo
<1>13. ASSUME NEW g \in Goroutines, Copy(g) PROVE HInv'
  BY <1>13 DEF Copy
<1>14. ASSUME NEW g \in Goroutines, NotFound(g) PROVE HInv'
  BY <1>14 DEF NotFound
<1>15. ASSUME NEW g \in Goroutines, ClaimStray(g) PROVE HInv'
  BY <1>15 DEF ClaimStray
<1>16. ASSUME NEW g \in Goroutines, Record(g) PROVE HInv'
  BY <1>16 DEF Record
<1>17. ASSUME NEW g \in Goroutines, Leave(g) PROVE HInv'
  BY <1>17 DEF Leave
<1>18. CASE Recollect
  BY <1>18 DEF Recollect
<1>19. CASE Restart
  BY <1>19 DEF Restart, Fresh
<1>20. CASE Chain
  BY <1>20 DEF Chain
<1>21. CASE UNCHANGED vars
  BY <1>21 DEF vars
<1> QED
  BY <1>1, <1>2, <1>3, <1>4, <1>5, <1>6, <1>7, <1>8, <1>9, <1>10, <1>11, <1>12, <1>13,
     <1>14, <1>15, <1>16, <1>17, <1>18, <1>19, <1>20, <1>21
  DEF Next, Manager, Process

\* While no goroutine took a hand on checks no longer true, at most one is at
\* work on each hand, which holds its stray until that one lets go of it, and
\* what is claimed or held is whole, or of a file that was taken in though it
\* was not.
THEOREM HandsAreKept == Spec => []SInv
<1>1. Init => SInv
  <2> SUFFICES ASSUME Init PROVE SInv
    OBVIOUS
  <2>1. /\ \A g \in Goroutines : pc[g] = "none"
        /\ \A c \in Cids : deals[c] # "ours" /\ c \notin contracts
        /\ ~ panicked
    BY DEF Init
  <2> QED
    BY <2>1, InitType DEF SInv, HInv, OneAtWork, KeepsStray, HoldsWhatItClaims, AtWork, Working
<1>2. SInv /\ [Next]_vars => SInv'
  BY TypeStep, RaceStays, HandStep DEF SInv
<1> QED
  BY <1>1, <1>2, PTL DEF Spec

\* The process does not end on a nil stray, however often the manager refills
\* a hand and starts goroutines on it, unless one of them took the hand on
\* checks that were no longer true.
THEOREM NoPanicUnraced == Spec => []NoPanic
<1>1. SInv => NoPanic
  BY DEF SInv, HInv, NoPanic
<1> QED
  BY <1>1, HandsAreKept, PTL

\* The contracts recorded, by a hand or from the deals a start finds on the
\* chain, are of whole files, however many hands fetch the same file at once,
\* except for a file of which a hand has taken in, unchecked, a part that lay
\* on the disk or an answer that was not the file.
THEOREM RecordsWholeFiles == Spec => []RecordedOverWholeFile
<1>1. SInv => RecordedOverWholeFile
  BY DEF SInv, HInv, HoldsWhatItClaims, Held, RecordedOverWholeFile, TypeOK, DB!TypeOK
<1> QED
  BY <1>1, HandsAreKept, PTL

=============================================================================
