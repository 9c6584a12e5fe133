-------------------------- MODULE Attestation_proofs --------------------------
(* What holds of the count of attestations for any number of contracts and  *)
(* providers, whoever of them is mute, and any number of answers wanted.    *)
EXTENDS Attestation, FiniteSetTheorems, TLAPS

USE NeededAssumption, OutcomesAssumption, NoContractAssumption

(***************************************************************************)
(* Types.  Next to TypeOK, an attempt has a contract, and goroutines exist  *)
(* only for the providers in the form.                                      *)
(***************************************************************************)
AttemptFields ==
    /\ contract = NoContract <=> pc \in {"pause", "next"}
    /\ pc = "asking" => form = {} /\ answered = {} /\ count = 0 /\ ~ overlapped
    /\ contract = NoContract => ~ overlapped
    /\ \A p \in Providers : goroutine[p] # "none" => p \in form
    /\ \A p \in Providers : goroutine[p] \in {"200", "adding"} => p \in answered
    /\ \A p \in answered : goroutine[p] \in {"200", "adding", "done"}

TInv == TypeOK /\ AttemptFields

LEMMA InitTInv == Init => TInv
<1>1. Init => TypeOK
  <2> SUFFICES ASSUME Init PROVE TypeOK
    OBVIOUS
  <2>1. /\ goroutine \in [Providers -> {"none", "started", "posting", "posted", "200",
                                      "adding", "done"}]
        /\ seen \in [Providers -> Nat]
    BY DEF Init
  <2>2. attested \in [Contracts -> SUBSET Providers]
    BY DEF Init
  <2> QED
    BY <2>1, <2>2 DEF Init, TypeOK
<1>2. Init => AttemptFields
  BY DEF Init, AttemptFields
<1> QED
  BY <1>1, <1>2 DEF TInv

LEMMA OverTypes ==
    ASSUME TInv, AttemptOver, verified' \subseteq Contracts, UNCHANGED attested
    PROVE  TInv'
  BY DEF TInv, TypeOK, AttemptFields, AttemptOver

LEMMA TypeStep ==
    ASSUME TInv, [Next]_vars
    PROVE  TInv'
<1> USE DEF TInv, TypeOK, AttemptFields, countVars, chainVars, proverVars
<1>1. CASE StartShift
  BY <1>1 DEF StartShift
<1>2. CASE Pass
  BY <1>2 DEF Pass
<1>3. CASE Prove
  BY <1>3 DEF Prove
<1>4. CASE EndShift
  BY <1>4 DEF EndShift
<1>5. CASE FormGranted
  BY <1>5 DEF FormGranted
<1>6. CASE FormRefused
  BY <1>6 DEF FormRefused
<1>7. CASE Skip
  BY <1>7, OverTypes DEF Skip
<1>8. CASE GiveUp
  BY <1>8 DEF GiveUp
<1>9. CASE ProofAnswered
  BY <1>9, OverTypes DEF ProofAnswered
<1>10. CASE ProofSimulated
  BY <1>10 DEF ProofSimulated
<1>11. ASSUME NEW p \in Providers, FindProvider(p) PROVE TInv'
  BY <1>11 DEF FindProvider
<1>12. ASSUME NEW p \in Providers, Post(p) PROVE TInv'
  BY <1>12 DEF Post
<1>13. ASSUME NEW p \in Providers, Answered(p) PROVE TInv'
  <2>1. p \in form /\ contract # NoContract /\ pc # "asking"
    BY <1>13 DEF Answered
  <2>2. PICK handled \in Handled("none") \cup {[status |-> "502", sent |-> FALSE]} :
          Answered(p)!2!(handled)
    BY <1>13 DEF Answered
  <2>3. handled.sent = FALSE
    BY DEF Handled
  <2>4. attested' = attested
    BY <2>2, <2>3
  <2>5. \/ goroutine' = [goroutine EXCEPT ![p] = "200"] /\ answered' = answered \cup {p}
        \/ goroutine' = [goroutine EXCEPT ![p] = "done"] /\ answered' = answered
    BY <2>2
  <2>6. TypeOK'
    BY <1>13, <2>1, <2>4, <2>5 DEF Answered
  <2>7. AttemptFields'
    BY <1>13, <2>1, <2>5 DEF Answered
  <2> QED
    BY <2>6, <2>7
<1>14. ASSUME NEW p \in Providers, LoadCount(p) PROVE TInv'
  BY <1>14 DEF LoadCount
<1>15. ASSUME NEW p \in Providers, StoreCount(p) PROVE TInv'
  <2>1. p \in form /\ p \in answered /\ contract # NoContract /\ pc # "asking"
    BY <1>15 DEF StoreCount
  <2>2. seen[p] + 1 \in Nat
    OBVIOUS
  <2>3. TypeOK'
    BY <1>15, <2>1, <2>2 DEF StoreCount
  <2>4. AttemptFields'
    BY <1>15, <2>1 DEF StoreCount
  <2> QED
    BY <2>3, <2>4
<1>16. CASE NewWindow
  BY <1>16 DEF NewWindow
<1>17. CASE UNCHANGED vars
  BY <1>17 DEF vars
<1> QED
  BY <1>1, <1>2, <1>3, <1>4, <1>5, <1>6, <1>7, <1>8, <1>9, <1>10, <1>11, <1>12,
     <1>13, <1>14, <1>15, <1>16, <1>17 DEF Next, Prover, Goroutine

\* Between and during attempts the proof server, the goroutines and the count
\* keep their types.
THEOREM TypeCorrect == Spec => []TypeOK
<1>1. Init => TInv
  BY InitTInv
<1>2. TInv /\ [Next]_vars => TInv'
  BY TypeStep
<1>3. TInv => TypeOK
  BY DEF TInv
<1> QED
  BY <1>1, <1>2, <1>3, PTL DEF Spec

-----------------------------------------------------------------------------
(***************************************************************************)
(* The count.  A goroutine that answered and is done has added its one, or  *)
(* another has written over it: the count, and what anyone has loaded of    *)
(* it, is never more than the number of those goroutines.  Without an       *)
(* overlap it is that number.                                               *)
(***************************************************************************)
Finished == {p \in answered : goroutine[p] = "done"}

CountedOnce ==
    /\ count <= Cardinality(Finished)
    /\ \A p \in Providers : goroutine[p] = "adding" => seen[p] <= Cardinality(Finished)

CountedAll ==
    ~ overlapped =>
        /\ count = Cardinality(Finished)
        /\ \A p, q \in Providers :
              goroutine[p] = "adding" =>
                  seen[p] = count /\ (goroutine[q] = "adding" => q = p)

IInv == TInv /\ CountedOnce /\ CountedAll

LEMMA FinishedFinite ==
    ASSUME TInv
    PROVE  /\ IsFiniteSet(Finished)
           /\ Cardinality(Finished) \in Nat
<1>1. Finished \in SUBSET Providers
  BY DEF TInv, TypeOK, Finished
<1> QED
  BY <1>1, ProvidersAssumption, FS_Subset, FS_CardinalityType

\* Nobody answered, nobody adds, and the count is 0.
LEMMA FreshCount ==
    ASSUME answered = {}, count = 0, \A p \in Providers : goroutine[p] # "adding"
    PROVE  CountedOnce /\ CountedAll
<1>1. Finished = {}
  BY DEF Finished
<1>2. Cardinality(Finished) = 0
  BY <1>1, FS_EmptySet
<1> QED
  BY <1>2 DEF CountedOnce, CountedAll

LEMMA InitIInv == Init => IInv
  BY InitTInv, FreshCount DEF Init, IInv

\* A step that moves no goroutine into "adding" or out of it, finishes none
\* that answered, and leaves the count alone.
LEMMA CountKept ==
    ASSUME IInv, TInv', Finished' = Finished, UNCHANGED <<count, seen, overlapped>>,
           \A p \in Providers : goroutine'[p] = "adding" => goroutine[p] = "adding"
    PROVE  IInv'
  BY DEF IInv, CountedOnce, CountedAll

LEMMA CountFresh ==
    ASSUME TInv', answered' = {}, count' = 0,
           \A p \in Providers : goroutine'[p] # "adding"
    PROVE  IInv'
<1>1. Finished' = {}
  BY DEF Finished
<1>2. Cardinality(Finished') = 0
  BY <1>1, FS_EmptySet
<1>3. Cardinality(Finished)' = 0
  BY <1>2
<1> QED
  BY <1>3 DEF IInv, CountedOnce, CountedAll

LEMMA CountStep ==
    ASSUME IInv, [Next]_vars
    PROVE  IInv'
<1>0. TInv /\ TInv'
  BY TypeStep DEF IInv
<1> USE DEF countVars, chainVars, proverVars, Finished
<1>1. CASE UNCHANGED countVars
  BY <1>0, <1>1, CountKept
<1>2. CASE FormGranted
  BY <1>0, <1>2, CountFresh DEF FormGranted, TInv, TypeOK, AttemptFields
<1>3. CASE AttemptOver
  BY <1>0, <1>3, CountFresh DEF AttemptOver
<1>4. ASSUME NEW p \in Providers, FindProvider(p) PROVE IInv'
  <2>1. Finished' = Finished
    BY <1>0, <1>4 DEF FindProvider, TInv, TypeOK, AttemptFields
  <2> QED
    BY <1>0, <1>4, <2>1, CountKept DEF FindProvider, TInv, TypeOK
<1>5. ASSUME NEW p \in Providers, Post(p) PROVE IInv'
  <2>1. Finished' = Finished
    BY <1>0, <1>5 DEF Post, TInv, TypeOK, AttemptFields
  <2> QED
    BY <1>0, <1>5, <2>1, CountKept DEF Post, TInv, TypeOK
<1>6. ASSUME NEW p \in Providers, Answered(p) PROVE IInv'
  <2>1. Finished' = Finished
    BY <1>0, <1>6 DEF Answered, Handled, TInv, TypeOK, AttemptFields
  <2> QED
    BY <1>0, <1>6, <2>1, CountKept DEF Answered, TInv, TypeOK
<1>7. ASSUME NEW p \in Providers, LoadCount(p) PROVE IInv'
  <2>1. Finished' = Finished
    BY <1>0, <1>7 DEF LoadCount, TInv, TypeOK
  <2>2. CountedOnce'
    BY <1>0, <1>7, <2>1 DEF LoadCount, TInv, TypeOK, IInv, CountedOnce
  <2>3. CountedAll'
    <3> SUFFICES ASSUME ~ overlapped'
                 PROVE  CountedAll'
      BY DEF CountedAll
    <3>1. ~ overlapped /\ \A q \in Providers : goroutine[q] # "adding"
      BY <1>7 DEF LoadCount
    <3>2. count' = Cardinality(Finished)'
      BY <1>7, <2>1, <3>1 DEF LoadCount, IInv, CountedAll
    <3>3. \A q \in Providers : goroutine'[q] = "adding" => q = p /\ seen'[q] = count'
      BY <1>0, <1>7, <3>1 DEF LoadCount, TInv, TypeOK
    <3> QED
      BY <3>2, <3>3 DEF CountedAll
  <2> QED
    BY <1>0, <2>2, <2>3 DEF IInv
<1>8. ASSUME NEW p \in Providers, StoreCount(p) PROVE IInv'
  <2>1. p \in answered /\ p \notin Finished
    BY <1>0, <1>8 DEF StoreCount, TInv, TypeOK, AttemptFields
  <2>2. Finished' = Finished \cup {p}
    BY <1>0, <1>8, <2>1 DEF StoreCount, TInv, TypeOK
  <2>3. Cardinality(Finished') = Cardinality(Finished) + 1 /\ Cardinality(Finished) \in Nat
    BY <1>0, <2>1, <2>2, FinishedFinite, FS_AddElement
  <2>4. Cardinality(Finished)' = Cardinality(Finished) + 1
    BY <2>3
  <2> HIDE DEF Finished
  <2>5. CountedOnce'
    <3>1. count' <= Cardinality(Finished)'
      BY <1>0, <1>8, <2>3, <2>4 DEF StoreCount, TInv, TypeOK, IInv, CountedOnce
    <3>2. ASSUME NEW q \in Providers, goroutine'[q] = "adding"
          PROVE  seen'[q] <= Cardinality(Finished)'
      <4>1. goroutine[q] = "adding" /\ seen'[q] = seen[q] /\ seen[q] \in Nat
        BY <1>0, <1>8, <3>2 DEF StoreCount, TInv, TypeOK
      <4>2. seen[q] <= Cardinality(Finished)
        BY <4>1 DEF IInv, CountedOnce
      <4> QED
        BY <2>3, <2>4, <4>1, <4>2
    <3> QED
      BY <3>1, <3>2 DEF CountedOnce
  <2>6. CountedAll'
    BY <1>0, <1>8, <2>3, <2>4 DEF StoreCount, TInv, TypeOK, IInv, CountedAll
  <2> QED
    BY <1>0, <2>5, <2>6 DEF IInv
<1>9. CASE Prover
  BY <1>1, <1>2, <1>3, <1>9
     DEF Prover, StartShift, Pass, Prove, EndShift, FormRefused, Skip, GiveUp,
         ProofAnswered, ProofSimulated
<1>10. CASE NewWindow
  BY <1>1, <1>10 DEF NewWindow
<1>11. CASE UNCHANGED vars
  BY <1>1, <1>11 DEF vars
<1> QED
  BY <1>4, <1>5, <1>6, <1>7, <1>8, <1>9, <1>10, <1>11 DEF Next, Goroutine

\* When all goroutines are done, those that answered are the finished ones.
LEMMA AllFinished ==
    ASSUME TInv, AllDone
    PROVE  Finished = answered
  BY DEF TInv, TypeOK, AttemptFields, AllDone, Finished

\* What ends an attempt's wait, and what the count says then.
LEMMA SkipStep ==
    ASSUME IInv, [Next]_vars, pc = "attesting", pc' = "next"
    PROVE  Cardinality(answered) >= Needed
<1>1. Skip
  BY DEF Next, Prover, Goroutine, StartShift, Pass, Prove, EndShift, FormGranted,
         FormRefused, GiveUp, ProofAnswered, ProofSimulated, FindProvider, Post,
         Answered, LoadCount, StoreCount, NewWindow, vars, proverVars
<1>2. Cardinality(Finished) \in Nat /\ count \in Nat
  BY FinishedFinite DEF IInv, TInv, TypeOK
<1>3. Finished = answered
  BY <1>1, AllFinished DEF Skip, IInv
<1>4. Needed <= count /\ count <= Cardinality(answered)
  BY <1>1, <1>3 DEF Skip, IInv, CountedOnce
<1> QED
  BY <1>2, <1>3, <1>4

LEMMA GiveUpStep ==
    ASSUME IInv, [Next]_vars, pc = "attesting", pc' = "proving"
    PROVE  Cardinality(answered) < Needed \/ overlapped
<1>1. GiveUp
  BY DEF Next, Prover, Goroutine, StartShift, Pass, Prove, EndShift, FormGranted,
         FormRefused, Skip, AttemptOver, ProofAnswered, ProofSimulated, FindProvider,
         Post, Answered, LoadCount, StoreCount, NewWindow, vars, proverVars
<1> QED
  BY <1>1, AllFinished DEF GiveUp, IInv, CountedAll

LEMMA CountAlwaysRight == Spec => []IInv
<1>1. Init => IInv
  BY InitIInv
<1>2. IInv /\ [Next]_vars => IInv'
  BY CountStep
<1> QED
  BY <1>1, <1>2, PTL DEF Spec

\* postProof leaves a proof out only when Needed different providers answered
\* 200 to this attempt, however their increments of the count interleave.
THEOREM SkipsOnAnswers == Spec => SkippedOnAnswers
<1>1. IInv /\ [Next]_vars =>
        [pc = "attesting" /\ pc' = "next" => Cardinality(answered) >= Needed]_vars
  BY SkipStep
<1> QED
  BY <1>1, CountAlwaysRight, PTL DEF Spec, SkippedOnAnswers

\* postProof posts a proof after its wait only when too few answered, unless
\* two increments overlapped.
THEOREM ProvesForWantOfAnswers == Spec => ProvedForWantOfAnswers
<1>1. IInv /\ [Next]_vars =>
        [pc = "attesting" /\ pc' = "proving"
            => Cardinality(answered) < Needed \/ overlapped]_vars
  BY GiveUpStep
<1> QED
  BY <1>1, CountAlwaysRight, PTL DEF Spec, ProvedForWantOfAnswers

=============================================================================
