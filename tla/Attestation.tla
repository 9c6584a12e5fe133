------------------------------ MODULE Attestation ------------------------------
(***************************************************************************)
(* How the proof server spares itself a proof (postProof and                *)
(* requestAttestation of server/proofs.go) and what a provider does when    *)
(* another asks it to attest (server/attestation.go).  The provider asks    *)
(* the chain for a form, which names other providers; one goroutine each    *)
(* posts the proof to them, and each that is answered 200 adds one to a     *)
(* count they share without a lock.  When all are done, the proof is posted *)
(* to the chain unless Needed of them were counted.                         *)
(*                                                                          *)
(* The contracts of a shift are proved one after the other, each attempt    *)
(* waiting for the one before.  Messages pass through the queue of          *)
(* UploadQueue, here from the append to the answer in one step.             *)
(***************************************************************************)
EXTENDS Integers, FiniteSets

CONSTANTS
    Contracts,      \* the contracts in the provider's database
    Providers,      \* the providers the chain may name in a form
    Mute,           \* those that may take a request and never answer it
    Needed,         \* the answers wanted: 3, "can change in chain params"
    Outcomes        \* what the queue can answer, as in UploadQueue

ASSUME NeededAssumption == Needed \in Nat
ASSUME ProvidersAssumption == IsFiniteSet(Providers)
ASSUME MuteAssumption == Mute \subseteq Providers
ASSUME OutcomesAssumption ==
    Outcomes \subseteq {"error", "rejected", "accepted", "simulated"}

NoContract == "none"

ASSUME NoContractAssumption == NoContract \notin Contracts

VARIABLES
    pc,         \* where the proof server is
    todo,       \* what handleContracts' iterator has left
    contract,   \* the contract it is at
    form,       \* the providers the chain named for it
    goroutine,  \* where the goroutine of each of them is
    count,      \* the successful requests
    seen,       \* the count as that goroutine loaded it
    verified,   \* the chain: the deals proved or attested in this window
    attested,   \* the chain: who attested each deal in this window
    answered,   \* history: the providers that answered 200 to this attempt
    overlapped  \* history: an increment fell between a load and its store

proverVars == <<pc, todo, contract, form>>
countVars == <<goroutine, count, seen, answered, overlapped>>
chainVars == <<verified, attested>>
vars == <<proverVars, countVars, chainVars>>

TypeOK ==
    /\ pc \in {"pause", "next", "asking", "attesting",
               "proving", "panicked"}
    /\ todo \subseteq Contracts
    /\ contract \in Contracts \cup {NoContract}
    /\ form \subseteq Providers
    /\ goroutine \in [Providers -> {"none", "started", "posting", "posted",
                                    "200", "adding", "done"}]
    /\ count \in Nat
    /\ seen \in [Providers -> Nat]
    /\ verified \subseteq Contracts
    /\ attested \in [Contracts -> SUBSET Providers]
    /\ answered \subseteq Providers
    /\ overlapped \in BOOLEAN
    /\ contract = NoContract => form = {} /\ answered = {} /\ count = 0

Init ==
    /\ pc = "pause"
    /\ todo = {}
    /\ contract = NoContract
    /\ form = {}
    /\ goroutine = [p \in Providers |-> "none"]
    /\ count = 0
    /\ seen = [p \in Providers |-> 0]
    /\ verified = {}
    /\ attested = [c \in Contracts |-> {}]
    /\ answered = {}
    /\ overlapped = FALSE

-----------------------------------------------------------------------------

\* handleContracts' loop, as far as attestation is concerned.

StartShift ==
    /\ pc = "pause"
    /\ pc' = "next"
    /\ todo' = Contracts
    /\ UNCHANGED <<contract, form, countVars, chainVars>>

\* A contract whose deal is verified (or cannot be read) is passed over.
Pass ==
    /\ pc = "next"
    /\ \E c \in todo : todo' = todo \ {c}
    /\ UNCHANGED <<pc, contract, form, countVars, chainVars>>

\* One whose deal is not is proved: postProof finds the piece and its tree,
\* and asks for a form.
Prove ==
    /\ pc = "next"
    /\ \E c \in todo \ verified :
          /\ todo' = todo \ {c}
          /\ contract' = c
    /\ pc' = "asking"
    /\ UNCHANGED <<form, countVars, chainVars>>

EndShift ==
    /\ pc = "next"
    /\ todo = {}
    /\ pc' = "pause"
    /\ UNCHANGED <<todo, contract, form, countVars, chainVars>>

\* Mutant of AttemptOver: the count outlives the attempt.
AttemptOverKeepingCount ==
    /\ pc' = "next"
    /\ contract' = NoContract
    /\ form' = {}
    /\ goroutine' = [p \in Providers |-> "none"]
    /\ seen' = [p \in Providers |-> 0]
    /\ answered' = {}
    /\ overlapped' = FALSE
    /\ UNCHANGED <<count, todo>>

\* postProof returns: the attempt's variables go out of scope, and it is the
\* next contract's turn.
AttemptOver ==
    /\ pc' = "next"
    /\ contract' = NoContract
    /\ form' = {}
    /\ goroutine' = [p \in Providers |-> "none"]
    /\ count' = 0
    /\ seen' = [p \in Providers |-> 0]
    /\ answered' = {}
    /\ overlapped' = FALSE
    /\ UNCHANGED todo

-----------------------------------------------------------------------------

\* requestAttestation.

\* The answer to the form.  Nothing is set in the upload of a simulated
\* transaction and the Response that is not there is followed; an accepted
\* one may still carry a form that did not succeed.
FormGranted ==
    /\ pc = "asking"
    /\ "accepted" \in Outcomes
    /\ \E ps \in SUBSET Providers :
          /\ form' = ps
          /\ goroutine' = [p \in Providers |-> IF p \in ps THEN "started" ELSE "none"]
    /\ pc' = "attesting"
    /\ UNCHANGED <<todo, contract, count, seen, answered, overlapped, chainVars>>

FormRefused ==
    /\ pc = "asking"
    /\ \E outcome \in Outcomes :
          pc' = IF outcome = "simulated" THEN "panicked" ELSE "proving"
    /\ UNCHANGED <<todo, contract, form, countVars, chainVars>>

\* A goroutine asks the chain for the address and posts the proof there.  At
\* the first error it returns, which the deferred Done tells the group.
FindProvider(p) ==
    /\ goroutine[p] = "started"
    /\ \E next \in {"posting", "done"} : goroutine' = [goroutine EXCEPT ![p] = next]
    /\ UNCHANGED <<proverVars, count, seen, answered, overlapped, chainVars>>

\* Mutant of Post: a failed request returns without Done.
PostNotDone(p) ==
    /\ goroutine[p] = "posting"
    /\ \E next \in {"posted", "none"} : goroutine' = [goroutine EXCEPT ![p] = next]
    /\ UNCHANGED <<proverVars, count, seen, answered, overlapped, chainVars>>

Post(p) ==
    /\ goroutine[p] = "posting"
    /\ \E next \in {"posted", "done"} : goroutine' = [goroutine EXCEPT ![p] = next]
    /\ UNCHANGED <<proverVars, count, seen, answered, overlapped, chainVars>>

\* attest, at the other provider: an error, or a MsgAttest in its queue, of
\* which it then holds a copy that no answer is ever written to.
AttestResults ==
    {[err |-> "error", sent |-> FALSE], [err |-> "unanswered", sent |-> TRUE]}

\* handleAttestRequest: attest is called when decoding left an error, and that
\* case has returned.  Every error of attest would be an internal error, since
\* errors.Is compares with errors made on the spot.
Handled(err) ==
    IF err # "none"
    THEN {[status |-> "500", sent |-> res.sent] : res \in AttestResults}
    ELSE {[status |-> "200", sent |-> FALSE]}

\* The answer comes back: the handler's, or that of whatever else listens at
\* the address, or none because the connection broke.
Answered(p) ==
    /\ goroutine[p] = "posted"
    /\ \E handled \in Handled("none") \cup {[status |-> "502", sent |-> FALSE]} :
          /\ goroutine' = [goroutine EXCEPT
                ![p] = IF handled.status = "200" THEN "200" ELSE "done"]
          /\ answered' = IF handled.status = "200" THEN answered \cup {p} ELSE answered
          /\ attested' = IF handled.sent
                         THEN [attested EXCEPT ![contract] = @ \cup {p}]
                         ELSE attested
    /\ UNCHANGED <<proverVars, count, seen, overlapped, verified>>

\* count += 1 is a load and a store.
LoadCount(p) ==
    /\ goroutine[p] = "200"
    /\ goroutine' = [goroutine EXCEPT ![p] = "adding"]
    /\ seen' = [seen EXCEPT ![p] = count]
    /\ overlapped' = (overlapped \/ \E q \in Providers : goroutine[q] = "adding")
    /\ UNCHANGED <<proverVars, count, answered, chainVars>>

StoreCount(p) ==
    /\ goroutine[p] = "adding"
    /\ goroutine' = [goroutine EXCEPT ![p] = "done"]
    /\ count' = seen[p] + 1
    /\ UNCHANGED <<proverVars, seen, answered, overlapped, chainVars>>

\* Mutant of AllDone: a goroutine leaves the group when it has its answer,
\* before it has counted it.
AnswersIn == \A p \in form : goroutine[p] \in {"200", "adding", "done"}

\* pwg.Wait returns.
AllDone == \A p \in form : goroutine[p] = "done"

\* The attempt ends without a proof, or goes on to post it.
Skip ==
    /\ pc = "attesting"
    /\ AllDone
    /\ count >= Needed
    /\ AttemptOver
    /\ UNCHANGED chainVars

GiveUp ==
    /\ pc = "attesting"
    /\ AllDone
    /\ count < Needed
    /\ pc' = "proving"
    /\ UNCHANGED <<todo, contract, form, countVars, chainVars>>

-----------------------------------------------------------------------------

\* The end of postProof: the proof is queued and answered.  A proof that was
\* refused is only logged; one that was simulated has no Response either.
ProofAnswered ==
    /\ pc = "proving"
    /\ \E outcome \in Outcomes \ {"simulated"} :
          verified' = IF outcome = "accepted" THEN verified \cup {contract} ELSE verified
    /\ AttemptOver
    /\ UNCHANGED attested

ProofSimulated ==
    /\ pc = "proving"
    /\ "simulated" \in Outcomes
    /\ pc' = "panicked"
    /\ UNCHANGED <<todo, contract, form, countVars, chainVars>>

\* The chain opens a window: every deal has to be proved again.
NewWindow ==
    /\ pc # "panicked"
    /\ verified' = {}
    /\ attested' = [c \in Contracts |-> {}]
    /\ UNCHANGED <<proverVars, countVars>>

-----------------------------------------------------------------------------

Prover ==
    \/ StartShift \/ Pass \/ Prove \/ EndShift
    \/ FormGranted \/ FormRefused \/ Skip \/ GiveUp
    \/ ProofAnswered \/ ProofSimulated

Goroutine(p) == FindProvider(p) \/ Post(p) \/ LoadCount(p) \/ StoreCount(p)

Next ==
    \/ Prover
    \/ \E p \in Providers : Goroutine(p) \/ Answered(p)
    \/ NewWindow

Spec == Init /\ [][Next]_vars

\* The scheduler runs what is ready, the queue answers (EveryUploadAnswered
\* of UploadQueue), and so do the providers that are not mute: their handler
\* has nothing to wait for.
Fairness ==
    /\ WF_vars(Prover)
    /\ \A p \in Providers : WF_vars(Goroutine(p))
    /\ \A p \in Providers \ Mute : WF_vars(Answered(p))

FairSpec == Spec /\ Fairness

-----------------------------------------------------------------------------

\* A proof is left out only when Needed different providers answered 200 to
\* this very attempt, lost increments notwithstanding: they only ever make
\* the count too small.
SkippedOnAnswers ==
    [][pc = "attesting" /\ pc' = "next"
         => Cardinality(answered) >= Needed]_vars

\* The attempt falls back on a proof only for want of answers, or because
\* two increments overlapped and one was lost.
ProvedForWantOfAnswers ==
    [][pc = "attesting" /\ pc' = "proving"
         => Cardinality(answered) < Needed \/ overlapped]_vars

\* Every attempt ends, and with it the shift goes on to the next contract,
\* unless the process panicked or all that is left to wait for are requests
\* which mute providers took: http.Post has no timeout.
WaitingForMute ==
    \A p \in form : goroutine[p] = "done" \/ (p \in Mute /\ goroutine[p] = "posted")
EveryAttemptEnds ==
    \A c \in Contracts :
        contract = c ~> \/ contract # c
                        \/ pc = "panicked"
                        \/ (pc = "attesting" /\ ~ AllDone /\ WaitingForMute)

\* postProof: "request attestation, if we get it, skip all the posting".  A
\* proof is left out only when Needed providers attested the deal.
SkippedWhenAttested ==
    [][pc = "attesting" /\ pc' = "next"
         => Cardinality(attested[contract]) >= Needed]_vars

=============================================================================
