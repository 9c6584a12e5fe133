------------------------------- MODULE Reporter -------------------------------
(***************************************************************************)
(* The reporter (server/report.go): every half minute the provider either   *)
(* walks a page of the chain's deals and asks for a form against the first  *)
(* provider a file cannot be downloaded from (Report), or walks a page of   *)
(* the reports others have asked for and attests those it is named in, if   *)
(* the file cannot be downloaded (AttestReport).  The page is a copy, and   *)
(* downloads and transactions take their time: deals move on meanwhile.     *)
(* What is sent goes the way of Transactions; MsgReport passes through the  *)
(* queue of UploadQueue on its way, here in no time.                        *)
(***************************************************************************)
EXTENDS Transactions, Sequences, FiniteSets

CONSTANTS
    Deals,          \* deals, numbered in the chain's order
    Providers,      \* everybody who can hold one
    Me,             \* the provider whose reporter this is
    DoReport,       \* --do-report
    PageLimit,      \* 300
    InitialOwner,   \* who holds the deals at first
    InitialReport,  \* which of them are reported to this provider
    InitialLost     \* and, of the files, which sets may be lost

ASSUME DealsAssumption == IsFiniteSet(Deals) /\ Deals \subseteq Nat
ASSUME MeAssumption == Me \in Providers
ASSUME PageLimitAssumption == PageLimit \in Nat
ASSUME InitialReportAssumption == InitialReport \in [Deals -> {"none", "asked", "complete"}]
ASSUME InitialLostAssumption == InitialLost \subseteq SUBSET Deals

VARIABLES
    owner,      \* the chain: who holds each deal
    registered, \* the chain: the providers it knows
    report,     \* the chain: what each deal's report wants of this provider
    granted,    \* the chain: the fees of the reporter's account are paid
    lost,       \* the deals whose file cannot be had from who holds them
    pc,         \* where the reporter is
    round,      \* what the round is for: "form" or "report"
    page,       \* what is left of the page
    target,     \* the provider the file is asked of
    moved       \* history: deals that moved since they were looked up

chainVars == <<owner, registered, report, granted, lost>>
roundVars == <<pc, round, page, target>>
vars == <<txVars, calm, faults, chainVars, roundVars, moved>>

Gone == "gone"
NoDeal == 0

\* Gone and nobody are not the address of a provider.
ASSUME ProvidersAssumption == Gone \notin Providers /\ Nobody \notin Providers
ASSUME InitialOwnerAssumption == InitialOwner \in [Deals -> Providers \cup {Gone}]

ReporterMessages ==
    [kind : {"grant", "other", "form", "report"},
     deal : Deals \cup {NoDeal}, from : Providers \cup {Nobody}]
ASSUME MessagesAssumption == ReporterMessages \subseteq Messages
Plain(kind) == [kind |-> kind, deal |-> NoDeal, from |-> Nobody]

TypeOK ==
    /\ TxTypeOK
    /\ owner \in [Deals -> Providers \cup {Gone}]
    /\ registered \subseteq Providers
    /\ report \in [Deals -> {"none", "asked", "complete"}]
    /\ granted \in BOOLEAN
    /\ lost \subseteq Deals
    /\ pc \in {"start", "granting", "pause", "next", "download", "send"}
    /\ round \in {"none", "form", "report"}
    /\ Len(page) <= PageLimit
    /\ \A i \in 1 .. Len(page) :
          /\ page[i].deal \in Deals
          /\ page[i].provider \in Providers \cup {Nobody}
    /\ target \in Providers \cup {Nobody}
    /\ pc \in {"download", "send"} => page # <<>> /\ target \notin {Me, Nobody}
    /\ moved \subseteq Deals

Init ==
    /\ TxInit
    /\ owner = InitialOwner
    /\ registered = Providers
    /\ report = InitialReport
    /\ granted = FALSE
    /\ lost \in InitialLost
    /\ pc = "start"
    /\ round = "none"
    /\ page = <<>>
    /\ target = Nobody
    /\ moved = {}

-----------------------------------------------------------------------------
(* The start. *)

\* InitReporter asks the chain to let the reporter's account spend the
\* provider's money, at every start; without an answer, or with a refusal
\* (it was granted before), the reporter starts all the same.
InitReporter ==
    /\ pc = "start"
    /\ pc' = "granting"
    /\ Send("provider", Plain("grant"))
    /\ UNCHANGED <<calm, faults, chainVars, round, page, target, moved>>

GrantAnswered ==
    /\ pc = "granting"
    /\ answer["provider"] # "none"
    /\ Taken("provider")
    /\ pc' = "pause"
    /\ UNCHANGED <<phase, message, stale, pending, calm, faults, chainVars,
                   round, page, target, moved>>

-----------------------------------------------------------------------------
(* A round. *)

\* The entries of a page: a deal with its provider, or a report with whether
\* it waits for this provider's attestation.
DealEntry(d) == [deal |-> d, provider |-> owner[d], mine |-> FALSE]
ReportEntry(d) == [deal |-> d, provider |-> Nobody, mine |-> report[d] = "asked"]

Entries(kind) ==
    IF kind = "form"
    THEN {DealEntry(d) : d \in {e \in Deals : owner[e] # Gone}}
    ELSE {ReportEntry(d) : d \in {e \in Deals : report[e] # "none"}}

\* Each entry once, in the order of the deals or against it.
InOrder(entries, reversed) ==
    CHOOSE s \in [1 .. Cardinality(entries) -> entries] :
        \A i, j \in DOMAIN s :
            i < j => IF reversed THEN s[j].deal < s[i].deal ELSE s[i].deal < s[j].deal

FirstOf(s, n) == SubSeq(s, 1, IF Len(s) < n THEN Len(s) ELSE n)

\* Deals some unfinished transaction is about.
Unfinished ==
    {d \in Deals : \E a \in Accounts : pending[a] # NoTx /\ pending[a].message.deal = d}

\* Mutant of StartRound: the page is always read from the same end.
StartRoundForward(kind, reversed) ==
    /\ pc = "pause"
    /\ kind = "form" => DoReport
    /\ round' = kind
    /\ page' = FirstOf(InOrder(Entries(kind), FALSE), PageLimit)
    /\ pc' = "next"
    /\ moved' = moved \cap Unfinished
    /\ UNCHANGED <<txVars, calm, faults, chainVars, target>>

\* A coin decides what the round is for, and another from which end the page
\* is read.  (If the chain does not answer the round is over.)
StartRound(kind, reversed) ==
    /\ pc = "pause"
    /\ kind = "form" => DoReport
    /\ round' = kind
    /\ page' = FirstOf(InOrder(Entries(kind), reversed), PageLimit)
    /\ pc' = "next"
    /\ moved' = moved \cap Unfinished
    /\ UNCHANGED <<txVars, calm, faults, chainVars, target>>

RoundOver ==
    /\ pc' = "pause"
    /\ round' = "none"
    /\ page' = <<>>
    /\ target' = Nobody

GoOn ==
    /\ pc' = "next"
    /\ page' = Tail(page)
    /\ target' = Nobody
    /\ UNCHANGED round

TryDownload(p) ==
    /\ pc' = "download"
    /\ target' = p
    /\ UNCHANGED <<round, page>>

EndRound ==
    /\ pc = "next"
    /\ page = <<>>
    /\ RoundOver
    /\ UNCHANGED <<txVars, calm, faults, chainVars, moved>>

\* A provider's address cannot be had, for good when the chain does not know
\* the provider any more.
Cannot(p) == p \notin registered \/ ~ calm

\* Mutant of LookUpDeal: the provider's own deals are not skipped.
LookUpAnyDeal ==
    /\ pc = "next" /\ round = "form" /\ page # <<>>
    /\ \/ Head(page).provider \in registered /\ TryDownload(Head(page).provider)
       \/ Cannot(Head(page).provider) /\ GoOn
    /\ UNCHANGED <<txVars, calm, faults, chainVars, moved>>

\* Report: the next deal, unless it is the provider's own; its provider's
\* address is looked up, or cannot be, and the round goes on.
LookUpDeal ==
    /\ pc = "next" /\ round = "form" /\ page # <<>>
    /\ LET p == Head(page).provider IN
       \/ p \in registered \ {Me} /\ TryDownload(p)
       \/ (p = Me \/ Cannot(p)) /\ GoOn
    /\ UNCHANGED <<txVars, calm, faults, chainVars, moved>>

\* AttestReport: the next report, unless this provider is not named in it or
\* has attested it.  Its deal is looked up anew, and if that fails the round
\* is over; the provider's own are skipped, and those of a provider whose
\* address cannot be had.
LookUpReport ==
    /\ pc = "next" /\ round = "report" /\ page # <<>>
    /\ LET d == Head(page).deal IN
       IF ~ Head(page).mine
       THEN GoOn /\ UNCHANGED moved
       ELSE /\ \/ owner[d] \in registered \ {Me} /\ TryDownload(owner[d])
               \/ owner[d] # Gone /\ (owner[d] = Me \/ Cannot(owner[d])) /\ GoOn
               \/ (owner[d] = Gone \/ ~ calm) /\ RoundOver
            /\ moved' = moved \ ({d} \ Unfinished)
    /\ UNCHANGED <<txVars, calm, faults, chainVars>>

\* Whether a provider can serve the file: who no longer holds the deal may
\* or may not have kept it.
CanFail(d, p) == d \in lost \/ p # owner[d] \/ ~ calm
CanServe(d, p) == d \notin lost \/ p # owner[d]

\* The message a failed download leads to, and who sends it: the reporter
\* itself, or the provider, by way of the queue.
Accusation(d, p) == [kind |-> round, deal |-> d, from |-> p]
SenderOf(kind) == IF kind = "form" THEN "reporter" ELSE "provider"

\* Mutants of Download: what came back is not looked at; a file that came
\* ends the round.
DownloadInVain ==
    /\ pc = "download"
    /\ LET d == Head(page).deal IN
          Send(SenderOf(round),
               Accusation(d, IF CanFail(d, target) THEN target ELSE Nobody))
    /\ pc' = "send"
    /\ UNCHANGED <<calm, faults, chainVars, round, page, target, moved>>

DownloadEndsRound ==
    /\ pc = "download"
    /\ LET d == Head(page).deal IN
       \/ /\ CanServe(d, target)
          /\ RoundOver
          /\ UNCHANGED txVars
       \/ /\ CanFail(d, target)
          /\ Send(SenderOf(round), Accusation(d, target))
          /\ pc' = "send"
          /\ UNCHANGED <<round, page, target>>
    /\ UNCHANGED <<calm, faults, chainVars, moved>>

\* TestDownloadFileFromURL.  There is no timeout; it ends all the same.
Download ==
    /\ pc = "download"
    /\ LET d == Head(page).deal IN
       \/ /\ CanServe(d, target)
          /\ GoOn
          /\ UNCHANGED txVars
       \/ /\ CanFail(d, target)
          /\ Send(SenderOf(round), Accusation(d, target))
          /\ pc' = "send"
          /\ UNCHANGED <<round, page, target>>
    /\ UNCHANGED <<calm, faults, chainVars, moved>>

\* The answer: an accepted form ends the round, everything else goes on.
Answered ==
    /\ pc = "send"
    /\ answer[SenderOf(round)] # "none"
    /\ Taken(SenderOf(round))
    /\ IF round = "form" /\ answer["reporter"] = "accepted" THEN RoundOver ELSE GoOn
    /\ UNCHANGED <<phase, message, stale, pending, calm, faults, chainVars, moved>>

-----------------------------------------------------------------------------
(* The chain, the node and everybody else. *)

\* A block: what the message of the pending transaction does.  The reporter's
\* transactions are paid for by the provider, once that was granted; any
\* message may fail, and of a report that is not asked for it does.
Pays(a) == a = "reporter" => granted
CanSucceed(a, m) ==
    CASE m.kind = "grant"  -> ~ granted
      [] m.kind = "report" -> report[m.deal] = "asked"
      [] m.kind = "form"   -> Pays(a) /\ owner[m.deal] # Gone
      [] OTHER             -> TRUE

Block(a) ==
    /\ \E ok \in BOOLEAN :
          LET m == pending[a].message IN
          /\ Include(a, ok)
          /\ ok => CanSucceed(a, m)
          /\ calm /\ ~ ok => ~ CanSucceed(a, m)
          /\ granted' = (granted \/ (ok /\ m.kind = "grant"))
          /\ report' = IF ok /\ m.kind = "report"
                       THEN [report EXCEPT ![m.deal] = "complete"]
                       ELSE report
    /\ UNCHANGED <<owner, registered, lost, roundVars, moved>>

\* A deal goes to somebody else, or ends.
DealMoves(d) ==
    /\ Fault
    /\ \E p \in (Providers \cup {Gone}) \ {owner[d]} : owner' = [owner EXCEPT ![d] = p]
    /\ moved' = moved \cup {d}
    /\ UNCHANGED <<txVars, registered, report, granted, lost, roundVars>>

\* A provider leaves the chain (jprovd terminate) or is back; its deals stay
\* until they move.
ProviderChanges(p) ==
    /\ Fault
    /\ registered' = IF p \in registered THEN registered \ {p} ELSE registered \cup {p}
    /\ UNCHANGED <<txVars, owner, report, granted, lost, roundVars, moved>>

\* Its file is lost or found.
FileChanges(d) ==
    /\ Fault
    /\ lost' = IF d \in lost THEN lost \ {d} ELSE lost \cup {d}
    /\ UNCHANGED <<txVars, owner, registered, report, granted, roundVars, moved>>

\* A report that names this provider is made or ends.
ReportChanges(d) ==
    /\ Fault
    /\ report' = [report EXCEPT ![d] = IF @ = "none" THEN "asked" ELSE "none"]
    /\ UNCHANGED <<txVars, owner, registered, granted, lost, roundVars, moved>>

\* The operator runs a command that sends a transaction.
Operate ==
    /\ Fault
    /\ phase["operator"] = "idle"
    /\ answer["operator"] = "none"
    /\ Send("operator", Plain("other"))
    /\ UNCHANGED <<chainVars, roundVars, moved>>

\* The command prints the answer and ends.
OperatorDone ==
    /\ answer["operator"] # "none"
    /\ Taken("operator")
    /\ UNCHANGED <<phase, message, stale, pending, calm, faults, chainVars, roundVars,
                   moved>>

\* The provider stops anywhere and starts again.
Restart ==
    /\ Fault
    /\ pc # "start"
    /\ StopSending({"provider", "reporter"})
    /\ pc' = "start"
    /\ page' = <<>>
    /\ target' = Nobody
    /\ round' = "none"
    /\ UNCHANGED <<chainVars, moved>>

\* From now on nothing changes and nothing fails.
Calm ==
    /\ ~ calm
    /\ calm' = TRUE
    /\ UNCHANGED <<txVars, faults, chainVars, roundVars, moved>>

-----------------------------------------------------------------------------

Round ==
    \/ InitReporter \/ GrantAnswered
    \/ EndRound \/ LookUpDeal \/ LookUpReport \/ Download \/ Answered

Doomed(s) == message[s] # NoMessage /\ ~ CanSucceed(AccountOf(s), message[s])
Sending(s) == SendStep(s, Doomed(s)) /\ UNCHANGED <<chainVars, roundVars, moved>>
Forgotten(a) == Drop(a) /\ UNCHANGED <<chainVars, roundVars, moved>>

Next ==
    \/ Round
    \/ \E kind \in {"form", "report"}, reversed \in BOOLEAN : StartRound(kind, reversed)
    \/ \E s \in Senders : Sending(s)
    \/ \E a \in Accounts : Block(a) \/ Forgotten(a)
    \/ \E d \in Deals : DealMoves(d) \/ FileChanges(d) \/ ReportChanges(d)
    \/ \E p \in Providers : ProviderChanges(p)
    \/ Operate \/ OperatorDone \/ Restart \/ Calm

Spec == Init /\ [][Next]_vars

\* The reporter's loop goes on for ever and its coins come up either way again
\* and again; what is sent is answered; blocks are made.
Fairness ==
    /\ WF_vars(Round)
    /\ \A kind \in {"form", "report"}, reversed \in BOOLEAN :
          SF_vars(StartRound(kind, reversed))
    /\ \A s \in {"provider", "reporter"} : WF_vars(Sending(s))
    /\ \A a \in Accounts : WF_vars(Block(a))

FairSpec == Spec /\ Fairness

-----------------------------------------------------------------------------

\* What the chain is made to believe about a deal is that a download from the
\* provider who holds it failed; that provider is not this one.  It can be
\* wrong only if the deal moved after it was looked up: the page is a copy,
\* and a transaction given up on may be in a block long after.
Accused(a) ==
    /\ pending[a] # NoTx /\ pending'[a] = NoTx
    /\ pending[a].message.kind \in {"form", "report"}
ReportedForCause ==
    [][\A a \in Accounts :
          LET m == pending[a].message IN
          Accused(a) /\ m.deal \notin moved => m.from = owner[m.deal] /\ m.from # Me]_vars

\* A transaction is refused for its sequence only because of one its sender had
\* given up on or, in the provider's account, one of a command the operator
\* runs.  The reporter and the queue never get in each other's way.
SequenceIsOwn ==
    \A s \in {"provider", "reporter"} :
        phase[s] = "prepared" /\ ~ Current(s)
            => Rival(s) \in {Nobody} \cup (IF s = "provider" THEN {"operator"} ELSE {})

\* A report that asks for this provider's attestation about a file that cannot
\* be had is attested once nothing changes and nothing fails: whatever the
\* coins have been, whatever is pending from before, behind reports that lead
\* nowhere.  Not if the chain does not know the holder any more, who is then
\* passed over in every round, nor if from either end the page ends before it or
\* a report whose deal is gone lies before it, which ends the round.
Ahead(d, kind, reversed) ==
    {x \in Entries(kind) : x.deal # d /\ ((x.deal < d) # reversed)}
ReportInReach(d) ==
    \E reversed \in BOOLEAN :
        /\ Cardinality(Ahead(d, "report", reversed)) < PageLimit
        /\ \A x \in Ahead(d, "report", reversed) : x.mine => owner[x.deal] # Gone
AskedIsAttested ==
    \A d \in Deals :
        calm /\ report[d] = "asked" /\ d \in lost /\ owner[d] \in registered \ {Me}
             /\ ReportInReach(d)
          ~> report[d] = "complete"

\* A deal whose file cannot be had has a form asked for against it, unless the
\* chain does not know its holder any more, or from either end the page ends
\* before it or another such deal lies before it: a round ends with the first
\* form.
DealInReach(d) ==
    \E reversed \in BOOLEAN :
        /\ Cardinality(Ahead(d, "form", reversed)) < PageLimit
        /\ \A x \in Ahead(d, "form", reversed) :
              x.deal \in lost => x.provider \notin registered \ {Me}
UnavailableIsReported ==
    \A d \in Deals :
        calm /\ DoReport /\ granted /\ d \in lost /\ owner[d] \in registered \ {Me}
             /\ DealInReach(d)
          ~> pending["reporter"] # NoTx /\ pending["reporter"].message.deal = d

=============================================================================
