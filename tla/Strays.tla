-------------------------------- MODULE Strays --------------------------------
(***************************************************************************)
(* The stray manager and its hands (strays/).  In every loop the manager    *)
(* asks the chain for strays, contracts nobody holds any more, keeps those  *)
(* of files it has no contract for, gives one to each hand without, and     *)
(* starts a goroutine on every hand.  That goroutine returns if the hand is *)
(* empty or busy; otherwise it fetches the file from the providers that     *)
(* have it, or falls back on a copy on its own disk, claims the stray on    *)
(* the chain and records the contract.                                      *)
(*                                                                          *)
(* h.Stray and h.Busy are plain fields that manager and goroutines read and *)
(* write without a lock: each access is a step of its own.                  *)
(***************************************************************************)
EXTENDS Contracts, Naturals, FiniteSets

CONSTANTS
    NoCid,      \* no stray: the nil pointer
    HandIds,    \* the hands there are to be, --threads of them
    Slots,      \* bound: the goroutines of each hand alive at a time
    MaxLeft     \* bound: the providers the chain names for a file

ASSUME NoCidAssumption == NoCid \notin Cids
ASSUME HandIdsAssumption == HandIds # {}
ASSUME SlotsAssumption == DOMAIN Slots = HandIds
ASSUME MaxLeftAssumption == MaxLeft \in Nat \ {0}

VARIABLES
    contracts,  \* archivedb
    disk,       \* per file: absent, partial (or without its tree), whole
    deals,      \* external: the chain's view of each contract
    claimers,   \* external: the hands that may claim for the provider
    funded,     \* external: the hands with an allowance for their fees
    hands,      \* m.hands
    manager,    \* where the manager is
    visit,      \* the hands it has yet to visit there
    pile,       \* m.Strays; it is shuffled, so a set
    stray,      \* h.Stray of each hand
    busy,       \* h.Busy of each hand
    pc,         \* where each goroutine is in Process
    arg,        \* the contract a goroutine has passed to a call under way
    left,       \* the providers it has yet to try
    panicked,   \* a nil stray was followed, which ends the process
    raced,      \* history: a goroutine took a hand on checks no longer true
    unchecked,  \* history: files taken in though they were not whole
    recollect,  \* the start has yet to record the deals of the chain
    calm        \* history: from here on nothing fails and nobody interferes

Goroutines == UNION {{h} \X Slots[h] : h \in HandIds}
Hand(g) == g[1]

chainVars == <<deals, claimers, funded>>
managerVars == <<hands, manager, visit, pile>>
startVars == <<managerVars, recollect>>
processVars == <<pc, arg, left>>
historyVars == <<raced, unchecked, calm>>
vars == <<contracts, disk, chainVars, startVars, stray, busy, processVars,
          panicked, historyVars>>

DB == INSTANCE ContractMap WITH purge <- NoFid, raced <- {}

Working == {"search", "look", "fetch", "copy", "claim", "record"}

TypeOK ==
    /\ DB!TypeOK
    /\ disk \in [Fids -> {"absent", "partial", "whole"}]
    /\ deals \in [Cids -> {"stray", "ours", "other"}]
    /\ claimers \subseteq HandIds
    /\ funded \subseteq claimers
    /\ hands \subseteq claimers
    /\ manager \in {"init", "collect", "distribute"}
    /\ visit \subseteq HandIds
    /\ pile \subseteq Cids
    /\ recollect \in BOOLEAN
    /\ stray \in [HandIds -> Cids \cup {NoCid}]
    /\ busy \in [HandIds -> BOOLEAN]
    /\ pc \in [Goroutines -> {"none", "called", "holding", "idle", "done", "free"} \cup Working]
    /\ arg \in [Goroutines -> Cids \cup {NoCid}]
    /\ left \in [Goroutines -> 0 .. MaxLeft]
    /\ panicked \in BOOLEAN
    /\ raced \in BOOLEAN
    /\ unchecked \subseteq Fids
    /\ calm \in BOOLEAN

\* What a start finds in memory: nothing.
Fresh ==
    /\ hands' = {}
    /\ manager' = "init"
    /\ visit' = HandIds
    /\ pile' = {}
    /\ recollect' = FALSE
    /\ stray' = [h \in HandIds |-> NoCid]
    /\ busy' = [h \in HandIds |-> FALSE]
    /\ pc' = [g \in Goroutines |-> "none"]
    /\ arg' = [g \in Goroutines |-> NoCid]
    /\ left' = [g \in Goroutines |-> 0]
    /\ panicked' = FALSE

\* A new provider, whose disk may hold what uploads and purges left there.
Init ==
    /\ contracts = {}
    /\ disk \in [Fids -> {"absent", "partial", "whole"}]
    /\ deals \in [Cids -> {"stray", "other"}]
    /\ claimers = {}
    /\ funded = {}
    /\ hands = {}
    /\ manager = "init"
    /\ visit = HandIds
    /\ pile = {}
    /\ recollect = FALSE
    /\ stray = [h \in HandIds |-> NoCid]
    /\ busy = [h \in HandIds |-> FALSE]
    /\ pc = [g \in Goroutines |-> "none"]
    /\ arg = [g \in Goroutines |-> NoCid]
    /\ left = [g \in Goroutines |-> 0]
    /\ panicked = FALSE
    /\ raced = FALSE
    /\ unchecked = {}
    /\ calm = FALSE

DealsOf(f) == {c \in Cids : FidOf[c] = f /\ deals[c] = "ours"}

-----------------------------------------------------------------------------
(* The manager. *)

\* AddHand: a hand the chain knows as a claimer is added as it is; another is
\* made a claimer and granted an allowance first.  Either transaction can
\* fail, and then the provider goes on without the hand.
TryHand(h, failed) ==
    /\ manager = "init"
    /\ h \in visit
    /\ visit' = visit \ {h}
    /\ \/ /\ h \in claimers
          /\ hands' = hands \cup {h}
          /\ UNCHANGED <<claimers, funded>>
       \/ /\ h \notin claimers
          /\ claimers' = claimers \cup {h}
          /\ funded' = funded \cup {h}
          /\ hands' = hands \cup {h}
       \/ /\ h \notin claimers /\ ~ calm
          /\ claimers' \in {claimers, claimers \cup {h}}
          /\ hands' = failed
          /\ UNCHANGED funded
    /\ UNCHANGED <<contracts, disk, deals, manager, pile, recollect, stray, busy,
                   processVars, panicked, historyVars>>

\* Mutant: the error of authorizeHand is not returned.
AddHandAnyway(h) == TryHand(h, hands \cup {h})

AddHand(h) == TryHand(h, hands)

\* Init ends, without a single hand the provider does not start; beside the
\* manager's loop StartFileServer sets out to record the deals it has.
HandsReady ==
    /\ manager = "init"
    /\ visit = {}
    /\ hands # {}
    /\ manager' = "collect"
    /\ recollect' = TRUE
    /\ UNCHANGED <<contracts, disk, chainVars, hands, visit, pile, stray, busy,
                   processVars, panicked, historyVars>>

\* The strays whose file has a contract, or has none.
StraysOfKnown(known) ==
    {c \in Cids : deals[c] = "stray" /\ (DB!ContractsOf(FidOf[c]) # {} <=> known)}

\* Mutant: the strays of files that are in the database make the pile.
CollectKnown ==
    /\ manager = "collect"
    /\ pile' = StraysOfKnown(TRUE)
    /\ manager' = "distribute"
    /\ visit' = hands
    /\ UNCHANGED <<contracts, disk, chainVars, hands, recollect, stray, busy,
                   processVars, panicked, historyVars>>

\* CollectStrays: of a page of the chain's strays, those whose file is new to
\* the database replace the pile, and those whose look-up fails, as an error
\* reads as no contract; without an answer, or with an empty one, the old pile
\* stays.
CollectStrays ==
    /\ manager = "collect"
    /\ LET strays == {c \in Cids : deals[c] = "stray"} IN
       IF calm
       THEN pile' = IF strays # {} THEN StraysOfKnown(FALSE) ELSE pile
       ELSE pile' \in {pile} \cup SUBSET strays
    /\ manager' = "distribute"
    /\ visit' = hands
    /\ UNCHANGED <<contracts, disk, chainVars, hands, recollect, stray, busy,
                   processVars, panicked, historyVars>>

\* Distribute: a hand without a stray gets the next of the pile.
Distribute(h) ==
    /\ manager = "distribute"
    /\ h \in visit
    /\ visit' = visit \ {h}
    /\ IF stray[h] # NoCid \/ pile = {}
       THEN UNCHANGED <<stray, pile>>
       ELSE \E c \in pile :
               /\ stray' = [stray EXCEPT ![h] = c]
               /\ pile' = pile \ {c}
    /\ UNCHANGED <<contracts, disk, chainVars, hands, manager, recollect, busy,
                   processVars, panicked, historyVars>>

\* Start: a goroutine on every hand, then the pause before the next loop.
StartHands ==
    /\ manager = "distribute"
    /\ visit = {}
    /\ LET Unused(h) == {g \in {h} \X Slots[h] : pc[g] = "none"}
           called == {CHOOSE g \in Unused(h) : TRUE : h \in {k \in hands : Unused(k) # {}}}
       IN  pc' = [g \in Goroutines |-> IF g \in called THEN "called" ELSE pc[g]]
    /\ manager' = "collect"
    /\ UNCHANGED <<contracts, disk, chainVars, hands, visit, pile, recollect, stray, busy,
                   arg, left, panicked, historyVars>>

Manager ==
    \/ \E h \in HandIds : AddHand(h) \/ Distribute(h)
    \/ HandsReady \/ CollectStrays \/ StartHands

-----------------------------------------------------------------------------
(* Process, one goroutine. *)

InHand(g) == stray[Hand(g)]

GoTo(g, place) == pc' = [pc EXCEPT ![g] = place]

\* It returns if the hand holds no stray ...
Enter(g) ==
    /\ pc[g] = "called"
    /\ GoTo(g, IF InHand(g) = NoCid THEN "none" ELSE "holding")
    /\ UNCHANGED <<contracts, disk, chainVars, startVars, stray, busy, arg, left,
                   panicked, historyVars>>

\* ... or is busy ...
CheckBusy(g) ==
    /\ pc[g] = "holding"
    /\ GoTo(g, IF busy[Hand(g)] THEN "none" ELSE "idle")
    /\ UNCHANGED <<contracts, disk, chainVars, startVars, stray, busy, arg, left,
                   panicked, historyVars>>

\* ... and otherwise takes the hand, whatever happened since it looked.
TakeHand(g) ==
    /\ pc[g] = "idle"
    /\ busy' = [busy EXCEPT ![Hand(g)] = TRUE]
    /\ raced' = (raced \/ busy[Hand(g)] \/ InHand(g) = NoCid)
    /\ GoTo(g, "search")
    /\ UNCHANGED <<contracts, disk, chainVars, startVars, stray, arg, left,
                   panicked, unchecked, calm>>

\* Every use of h.Stray follows the pointer anew.
NilStray(g) ==
    /\ pc[g] \in {"search", "look", "claim", "record"} \/ (pc[g] = "fetch" /\ left[g] > 0)
    /\ InHand(g) = NoCid
    /\ panicked' = TRUE
    /\ UNCHANGED <<contracts, disk, chainVars, startVars, stray, busy,
                   processVars, historyVars>>

\* SearchFile: the providers with a deal on the file.  If this one is among
\* them there is nothing to do; an error counts as none.
Search(g) ==
    /\ pc[g] = "search"
    /\ InHand(g) # NoCid
    /\ \/ DealsOf(FidOf[InHand(g)]) # {} /\ GoTo(g, "done") /\ UNCHANGED left
       \/ /\ DealsOf(FidOf[InHand(g)]) = {}
          /\ GoTo(g, "fetch")
          /\ \E n \in 1 .. MaxLeft : left' = [left EXCEPT ![g] = n]
       \/ ~ calm /\ GoTo(g, "look") /\ UNCHANGED left
    /\ UNCHANGED <<contracts, disk, chainVars, startVars, stray, busy, arg,
                   panicked, historyVars>>

\* Nobody has it: FileExist, which is true when there is no file, ends the
\* attempt; whatever there is under the name of the file is good enough.
Look(g) ==
    /\ pc[g] = "look"
    /\ InHand(g) # NoCid
    /\ LET f == FidOf[InHand(g)] IN
       /\ GoTo(g, IF disk[f] = "absent" THEN "done" ELSE "claim")
       /\ unchecked' = IF disk[f] = "partial" THEN unchecked \cup {f} ELSE unchecked
    /\ UNCHANGED <<contracts, disk, chainVars, startVars, stray, busy, arg, left,
                   panicked, raced, calm>>

\* DownloadFileFromURL, from the next provider: the request fails, or the
\* file is opened, which is created if it is not there.  The answer may be
\* the file, or a part of it or something else: nothing compares it with the
\* hash that is its name.
FetchTo(g, opened) ==
    /\ pc[g] = "fetch" /\ left[g] > 0
    /\ InHand(g) # NoCid
    /\ left' = [left EXCEPT ![g] = @ - 1]
    /\ \/ ~ calm /\ UNCHANGED <<pc, arg, disk, unchecked>>
       \/ /\ GoTo(g, "copy")
          /\ arg' = [arg EXCEPT ![g] = InHand(g)]
          /\ \/ /\ disk' = [disk EXCEPT ![FidOf[InHand(g)]] = opened]
                /\ UNCHANGED unchecked
             \/ /\ disk' = [disk EXCEPT ![FidOf[InHand(g)]] = "partial"]
                /\ unchecked' = unchecked \cup {FidOf[InHand(g)]}
    /\ UNCHANGED <<contracts, chainVars, startVars, stray, busy, panicked,
                   raced, calm>>

\* Mutant: it is truncated, as os.Create would.
FetchAnew(g) == FetchTo(g, "partial")

Fetch(g) ==
    FetchTo(g, IF disk[FidOf[InHand(g)]] = "whole" THEN "whole" ELSE "partial")

\* The answer is written over the file, and the tree of as many bytes; or the
\* copy breaks off.  What was once answered wrong may stay so, as an answer
\* longer than the file is not cut by writing the file over it.
Copy(g) ==
    /\ pc[g] = "copy"
    /\ \/ /\ disk' = [disk EXCEPT ![FidOf[arg[g]]] = "whole"]
          /\ GoTo(g, "claim")
       \/ /\ FidOf[arg[g]] \in unchecked
          /\ disk' = [disk EXCEPT ![FidOf[arg[g]]] = "partial"]
          /\ GoTo(g, "claim")
       \/ /\ ~ calm
          /\ GoTo(g, "fetch")
          /\ UNCHANGED disk
    /\ arg' = [arg EXCEPT ![g] = NoCid]
    /\ UNCHANGED <<contracts, chainVars, startVars, stray, busy, left,
                   panicked, historyVars>>

\* No provider is left to try.
NotFound(g) ==
    /\ pc[g] = "fetch" /\ left[g] = 0
    /\ GoTo(g, "done")
    /\ UNCHANGED <<contracts, disk, chainVars, startVars, stray, busy, arg, left,
                   panicked, historyVars>>

\* ClaimStray: the chain gives the contract to the provider, if it is a stray
\* and the hand can pay, or does not.  It may do so and the answer be lost.
ClaimStray(g) ==
    /\ pc[g] = "claim"
    /\ InHand(g) # NoCid
    /\ \/ /\ deals[InHand(g)] = "stray" /\ Hand(g) \in funded
          /\ deals' = [deals EXCEPT ![InHand(g)] = "ours"]
          /\ GoTo(g, "record") \/ (~ calm /\ GoTo(g, "done"))
       \/ /\ ~ calm \/ deals[InHand(g)] # "stray" \/ Hand(g) \notin funded
          /\ GoTo(g, "done")
          /\ UNCHANGED deals
    /\ UNCHANGED <<contracts, disk, claimers, funded, startVars, stray, busy, arg, left,
                   panicked, historyVars>>

\* SetContract, ContractMap's Set unless it is there already; it can fail.
Record(g) ==
    /\ pc[g] = "record"
    /\ InHand(g) # NoCid
    /\ \/ contracts' = contracts \cup {InHand(g)}
       \/ ~ calm /\ UNCHANGED contracts
    /\ GoTo(g, "done")
    /\ UNCHANGED <<disk, chainVars, startVars, stray, busy, arg, left,
                   panicked, historyVars>>

\* Mutants of Leave: busy is reset first, or not at all.
LeaveBusyFirst(g) ==
    /\ \/ /\ pc[g] = "done"
          /\ busy' = [busy EXCEPT ![Hand(g)] = FALSE]
          /\ GoTo(g, "free")
          /\ UNCHANGED stray
       \/ /\ pc[g] = "free"
          /\ stray' = [stray EXCEPT ![Hand(g)] = NoCid]
          /\ GoTo(g, "none")
          /\ UNCHANGED busy
    /\ UNCHANGED <<contracts, disk, chainVars, startVars, arg, left, panicked, historyVars>>

LeaveBusy(g) ==
    /\ pc[g] = "done"
    /\ stray' = [stray EXCEPT ![Hand(g)] = NoCid]
    /\ GoTo(g, "none")
    /\ UNCHANGED <<contracts, disk, chainVars, startVars, busy, arg, left,
                   panicked, historyVars>>

\* The deferred function: the hand lets go of its stray and is free again.
Leave(g) ==
    /\ \/ /\ pc[g] = "done"
          /\ stray' = [stray EXCEPT ![Hand(g)] = NoCid]
          /\ GoTo(g, "free")
          /\ UNCHANGED busy
       \/ /\ pc[g] = "free"
          /\ busy' = [busy EXCEPT ![Hand(g)] = FALSE]
          /\ GoTo(g, "none")
          /\ UNCHANGED stray
    /\ UNCHANGED <<contracts, disk, chainVars, startVars, arg, left, panicked, historyVars>>

Process(g) ==
    \/ Enter(g) \/ CheckBusy(g) \/ TakeHand(g) \/ NilStray(g)
    \/ Search(g) \/ Look(g) \/ Fetch(g) \/ Copy(g) \/ NotFound(g)
    \/ ClaimStray(g) \/ Record(g) \/ Leave(g)

-----------------------------------------------------------------------------
(* The life of the process, and the environment. *)

\* The process ended by itself: a panic, or no hand to start with.
Ended == panicked \/ (manager = "init" /\ visit = {} /\ hands = {})

\* RecollectActiveDeals: the first deal that cannot be recorded ends it.
Recollect ==
    /\ recollect
    /\ recollect' = FALSE
    /\ LET known == {c \in Cids : deals[c] = "ours"} IN
       \E recorded \in IF calm THEN {known} ELSE SUBSET known :
          contracts' = contracts \cup recorded
    /\ UNCHANGED <<disk, chainVars, managerVars, stray, busy, processVars,
                   panicked, historyVars>>

\* It is started again, after that or a crash: what was in memory is gone.
Restart ==
    /\ Ended \/ ~ calm
    /\ Fresh
    /\ UNCHANGED <<contracts, disk, chainVars, historyVars>>

\* A contract loses its provider, or another provider claims it.
Chain ==
    /\ ~ calm
    /\ \E c \in Cids :
          deals' = [deals EXCEPT ![c] = IF @ = "stray" THEN "other" ELSE "stray"]
    /\ UNCHANGED <<contracts, disk, claimers, funded, startVars, stray, busy,
                   processVars, panicked, historyVars>>

\* From here on other providers have every file and nothing fails.
Calm ==
    /\ ~ calm
    /\ calm' = TRUE
    /\ UNCHANGED <<contracts, disk, chainVars, startVars, stray, busy,
                   processVars, panicked, raced, unchecked>>

Next ==
    \/ ~ panicked /\ (Manager \/ Recollect \/ \E g \in Goroutines : Process(g))
    \/ Restart \/ Chain

Spec == Init /\ [][Next]_vars

\* The manager loops for ever, its queries come back, a process that ended is
\* started again, and every goroutine runs on: so do the calls it makes, which
\* for a download is up to the other provider, as the client has no timeout.
Fairness ==
    /\ WF_vars(~ panicked /\ Manager)
    /\ \A g \in Goroutines : WF_vars(~ panicked /\ Process(g))
    /\ WF_vars(~ panicked /\ Recollect)
    /\ WF_vars(Ended /\ Restart)

FairSpec == Init /\ [][Next \/ Calm]_vars /\ Fairness

-----------------------------------------------------------------------------

\* Process: "make the txn, when done, free the hand".  No goroutine finds the
\* stray it works on taken away by another one of the same hand, although the
\* manager starts one in every loop and gives the hand its next stray while the
\* last one is still on its way out; if no goroutine took the hand on checks
\* that were no longer true.
NoPanic == panicked => raced

\* A contract is recorded over the whole file with its tree, also when two
\* hands fetch the same file at once and one of them breaks off; the exception
\* is a file of which a hand has taken, unchecked, a part that lay on the disk
\* or an answer of some provider that was not the file.
RecordedOverWholeFile ==
    \A c \in contracts :
        disk[FidOf[c]] = "whole" \/ FidOf[c] \in unchecked \/ raced

\* Every hand that was given a stray gets rid of it, whatever fails, and also
\* when it was given one while the last goroutine was on its way out.
HandIsFreed == \A h \in HandIds : stray[h] # NoCid ~> stray[h] = NoCid

\* Once calm, every stray is claimed, unless the provider holds the file under
\* another contract, or one of its hands has no allowance: AddHand takes a
\* claimer as it is, and a grant that failed once is not asked for again.
StrayIsServed ==
    \A c \in Cids :
        calm /\ deals[c] = "stray"
            ~> \/ DealsOf(FidOf[c]) # {} \/ DB!ContractsOf(FidOf[c]) # {}
               \/ hands \ funded # {}

=============================================================================
