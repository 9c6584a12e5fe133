---------------------------- MODULE Reporter_proofs ----------------------------
(* What the reporter tells the chain, and how its transactions fare, for    *)
(* any number of deals and providers, any page and any disturbance.         *)
EXTENDS Reporter, FunctionTheorems, FiniteSetTheorems, TLAPS

USE NoMessageAssumption, MaxFaultsAssumption, NoTxAssumption, DealsAssumption,
    MeAssumption, PageLimitAssumption, InitialReportAssumption, InitialLostAssumption,
    MessagesAssumption, ProvidersAssumption, InitialOwnerAssumption

(***************************************************************************)
(* The account.  Who waits for a pending transaction has sent it to its own *)
(* account, and a sequence is put out of date, before it is used, by another *)
(* sender of the account or by a transaction nobody waits for any more.     *)
(***************************************************************************)
OwnAccount ==
    /\ \A a \in Accounts :
          pending[a] # NoTx /\ pending[a].by # Nobody
              => AccountOf(pending[a].by) = a /\ phase[pending[a].by] = "sent"
    /\ \A s \in Senders :
          /\ stale[s] # NotStale => phase[s] = "prepared"
          /\ stale[s] \notin {NotStale, Nobody}
                => AccountOf(stale[s]) = AccountOf(s) /\ stale[s] # s

(***************************************************************************)
(* The round.  Its page is a copy of the chain's entries; the provider and  *)
(* the reporter send nothing but what the reporter waits for, and that is   *)
(* about the entry in hand.                                                 *)
(***************************************************************************)
Entry == [deal : Deals, provider : Providers \cup {Nobody}, mine : BOOLEAN]

Rounds ==
    /\ page \in Seq(Entry)
    /\ pc \in {"next", "download", "send"} => round \in {"form", "report"}
    /\ round = "form" => \A i \in 1 .. Len(page) : page[i].provider # Nobody

MessageOf(s) ==
    IF s = "operator" THEN Plain("other")
    ELSE IF pc = "granting" THEN Plain("grant")
    ELSE Accusation(Head(page).deal, target)

OneSender ==
    /\ \A s \in {"provider", "reporter"} :
          phase[s] # "idle" \/ answer[s] # "none"
              => (pc = "granting" /\ s = "provider") \/ (pc = "send" /\ s = SenderOf(round))
    /\ \A s \in Senders : answer[s] # "none" => phase[s] = "idle"

SentOfRound == \A s \in Senders : phase[s] # "idle" => message[s] = MessageOf(s)

(***************************************************************************)
(* The causes.  What the page, the download under way and every pending     *)
(* transaction say of a deal that has not moved is true of its holder.      *)
(***************************************************************************)
ForCause(m) ==
    m.kind \in {"form", "report"}
        => /\ m.deal \in Deals /\ m.from # Me
           /\ m.deal \notin moved => m.from = owner[m.deal]

Causes ==
    /\ round = "form" =>
          \A i \in 1 .. Len(page) :
              page[i].deal \notin moved => page[i].provider = owner[page[i].deal]
    /\ pc \in {"download", "send"} /\ Head(page).deal \notin moved
          => target = owner[Head(page).deal]
    /\ \A a \in Accounts : pending[a] # NoTx => ForCause(pending[a].message)

RInv == TypeOK /\ OwnAccount /\ Rounds /\ OneSender /\ SentOfRound /\ Causes

-----------------------------------------------------------------------------
(* Pages. *)

LEMMA TailOfPage ==
    ASSUME NEW T, NEW s \in Seq(T), s # <<>>
    PROVE  /\ Head(s) \in T /\ Head(s) = s[1] /\ 1 \in 1 .. Len(s)
           /\ Tail(s) \in Seq(T) /\ Len(Tail(s)) = Len(s) - 1
           /\ \A i \in 1 .. Len(Tail(s)) : i + 1 \in 1 .. Len(s) /\ Tail(s)[i] = s[i + 1]
  OBVIOUS

\* A finite set whose elements have different deals can be put in their order,
\* or against it: an element comes after as many as lie before it.
LEMMA InOrderIsPossible ==
    ASSUME NEW S, IsFiniteSet(S), NEW reversed \in BOOLEAN,
           \A x \in S : x.deal \in Nat,
           \A x, y \in S : x.deal = y.deal => x = y
    PROVE  \E s \in [1 .. Cardinality(S) -> S] :
              \A i, j \in DOMAIN s :
                 i < j => IF reversed THEN s[j].deal < s[i].deal ELSE s[i].deal < s[j].deal
<1> DEFINE Before(x, y) == IF reversed THEN y.deal < x.deal ELSE x.deal < y.deal
           Earlier(x) == {y \in S : Before(y, x)}
           n == Cardinality(S)
           rank == [x \in S |-> Cardinality(Earlier(x)) + 1]
<1>1. n \in Nat
  BY FS_CardinalityType
<1>2. ASSUME NEW x \in S
      PROVE  IsFiniteSet(Earlier(x)) /\ Cardinality(Earlier(x)) \in Nat
             /\ Cardinality(Earlier(x)) < n
  <2>1. Earlier(x) \in SUBSET S /\ x \notin Earlier(x)
    OBVIOUS
  <2>2. IsFiniteSet(Earlier(x)) /\ Cardinality(Earlier(x)) <= n
        /\ (n = Cardinality(Earlier(x)) => S = Earlier(x))
    BY <2>1, FS_Subset
  <2>3. Cardinality(Earlier(x)) \in Nat
    BY <2>2, FS_CardinalityType
  <2>4. n # Cardinality(Earlier(x))
    BY <2>1, <2>2
  <2> HIDE DEF Earlier, n
  <2> QED
    BY <1>1, <2>2, <2>3, <2>4
<1>3. ASSUME NEW x \in S, NEW y \in S, Before(x, y)
      PROVE  rank[x] < rank[y]
  <2>1. Earlier(x) \in SUBSET Earlier(y) /\ x \in Earlier(y) /\ x \notin Earlier(x)
    BY <1>3
  <2>2. Cardinality(Earlier(x)) <= Cardinality(Earlier(y))
        /\ (Cardinality(Earlier(y)) = Cardinality(Earlier(x)) => Earlier(y) = Earlier(x))
    BY <1>2, <2>1, FS_Subset
  <2>3. Cardinality(Earlier(y)) # Cardinality(Earlier(x))
    BY <2>1, <2>2
  <2>4. Cardinality(Earlier(x)) \in Nat /\ Cardinality(Earlier(y)) \in Nat
    BY <1>2
  <2>5. rank[x] = Cardinality(Earlier(x)) + 1 /\ rank[y] = Cardinality(Earlier(y)) + 1
    OBVIOUS
  <2> HIDE DEF Earlier, rank
  <2> QED
    BY <2>2, <2>3, <2>4, <2>5
<1>4. \A x, y \in S : x = y \/ Before(x, y) \/ Before(y, x)
  OBVIOUS
<1>5. rank \in [S -> 1 .. n]
  <2>1. \A x \in S : Cardinality(Earlier(x)) + 1 \in 1 .. n
    <3> HIDE DEF Earlier, n
    <3> QED
      BY <1>1, <1>2
  <2> QED
    BY <2>1
<1>6. rank \in Injection(S, 1 .. n)
  <2>1. \A x, y \in S : rank[x] = rank[y] => x = y
    <3> HIDE DEF Before, rank
    <3>1. \A x \in S : rank[x] \in Nat
      BY <1>1, <1>5
    <3> QED
      BY <1>3, <1>4, <3>1
  <2> HIDE DEF rank, n
  <2> QED
    BY <1>5, <2>1 DEF Injection, IsInjective
<1>7. rank \in Surjection(S, 1 .. n)
  <2>1. IsFiniteSet(1 .. n) /\ Cardinality(1 .. n) = n
    BY <1>1, FS_Interval
  <2> HIDE DEF rank
  <2> QED
    BY <1>6, <2>1, FS_Injection
<1> DEFINE s == [i \in 1 .. n |-> CHOOSE x \in S : rank[x] = i]
<1>8. \A i \in 1 .. n : s[i] \in S /\ rank[s[i]] = i
  <2> HIDE DEF rank, n
  <2>1. \A i \in 1 .. n : \E x \in S : rank[x] = i
    BY <1>7 DEF Surjection
  <2> QED
    BY <2>1
<1>9. \A i, j \in 1 .. n : i < j => Before(s[i], s[j])
  <2> HIDE DEF rank, n, s, Before
  <2> QED
    BY <1>1, <1>3, <1>4, <1>8
<1>10. s \in [1 .. n -> S]
  <2> HIDE DEF rank, n
  <2> QED
    BY <1>8
<1> WITNESS s \in [1 .. n -> S]
<1> QED
  <2>1. DOMAIN s = 1 .. n
    OBVIOUS
  <2> HIDE DEF rank, n, s
  <2> QED
    BY <1>9, <2>1

LEMMA FirstOfSequence ==
    ASSUME NEW T, NEW s \in Seq(T), NEW n \in Nat
    PROVE  FirstOf(s, n) \in Seq(T) /\ Len(FirstOf(s, n)) <= n
<1> DEFINE k == IF Len(s) < n THEN Len(s) ELSE n
<1>1. k \in 0 .. Len(s) /\ k <= n
  OBVIOUS
<1>2. SubSeq(s, 1, k) \in Seq(T) /\ Len(SubSeq(s, 1, k)) = k
  BY <1>1
<1> QED
  BY <1>1, <1>2 DEF FirstOf

LEMMA PageOfEntries ==
    ASSUME NEW kind \in {"form", "report"}, NEW reversed \in BOOLEAN
    PROVE  LET p == FirstOf(InOrder(Entries(kind), reversed), PageLimit) IN
           /\ p \in Seq(Entries(kind))
           /\ Len(p) <= PageLimit
<1> DEFINE S == Entries(kind)
           p == FirstOf(InOrder(S, reversed), PageLimit)
<1>1. \A x \in S : x.deal \in Deals /\ x = IF kind = "form" THEN DealEntry(x.deal)
                                                           ELSE ReportEntry(x.deal)
  BY DEF Entries, DealEntry, ReportEntry
<1>2. IsFiniteSet(S)
  <2>1. IsFiniteSet({x.deal : x \in S})
    <3>1. {x.deal : x \in S} \in SUBSET Deals
      BY <1>1
    <3> QED
      BY <3>1, FS_Subset
  <2> DEFINE f == [x \in S |-> x.deal]
  <2>2. f \in Injection(S, {x.deal : x \in S})
    BY <1>1 DEF Injection, IsInjective
  <2> QED
    BY <2>1, <2>2, FS_Injection
<1>3. InOrder(S, reversed) \in [1 .. Cardinality(S) -> S]
  <2>1. /\ \A x \in S : x.deal \in Nat
        /\ \A x, y \in S : x.deal = y.deal => x = y
    BY <1>1
  <2> HIDE DEF S
  <2> QED
    BY <1>2, <2>1, InOrderIsPossible DEF InOrder
<1>4. Cardinality(S) \in Nat
  BY <1>2, FS_CardinalityType
<1>5. InOrder(S, reversed) \in Seq(S)
  BY <1>3, <1>4
<1>6. p \in Seq(S) /\ Len(p) <= PageLimit
  <2> HIDE DEF S
  <2> QED
    BY <1>5, FirstOfSequence
<1> QED
  BY <1>6

-----------------------------------------------------------------------------
(* The account. *)

\* What there is to read of a pending transaction.
LEMMA PendingType ==
    ASSUME TxTypeOK, NEW a \in Accounts, pending[a] # NoTx
    PROVE  /\ pending[a] \in [by : Senders \cup {Nobody}, message : Messages]
           /\ pending[a].by \in Senders \cup {Nobody}
           /\ pending[a].message \in Messages
  BY DEF TxTypeOK

\* What Abandon leaves of it.
LEMMA Abandoned ==
    ASSUME TxTypeOK, NEW senders, Abandon(senders)
    PROVE  /\ pending' \in [Accounts -> {NoTx} \cup
                               [by : Senders \cup {Nobody}, message : Messages]]
           /\ \A a \in Accounts :
                 /\ pending[a] = NoTx => pending'[a] = NoTx
                 /\ pending[a] # NoTx =>
                       /\ pending'[a] # NoTx
                       /\ pending'[a].message = pending[a].message
                       /\ pending'[a].by = IF pending[a].by \in senders THEN Nobody
                                                                        ELSE pending[a].by
<1> DEFINE Tx == [by : Senders \cup {Nobody}, message : Messages]
<1>1. ASSUME NEW t \in Tx
      PROVE  /\ [t EXCEPT !.by = Nobody] \in Tx
             /\ [t EXCEPT !.by = Nobody].message = t.message
             /\ [t EXCEPT !.by = Nobody].by = Nobody
  OBVIOUS
<1>2. \A t \in Tx : t # NoTx
  OBVIOUS
<1>3. \A a \in Accounts : pending[a] \in {NoTx} \cup Tx
  BY DEF TxTypeOK
<1> HIDE DEF Tx
<1>4. \A a \in Accounts :
         /\ pending'[a] \in {NoTx} \cup Tx
         /\ pending[a] = NoTx => pending'[a] = NoTx
         /\ pending[a] # NoTx =>
               /\ pending'[a] # NoTx
               /\ pending'[a].message = pending[a].message
               /\ pending'[a].by = IF pending[a].by \in senders THEN Nobody
                                                                ELSE pending[a].by
  <2> TAKE a \in Accounts
  <2>1. CASE pending[a] = NoTx \/ pending[a].by \notin senders
    <3>1. pending'[a] = pending[a]
      BY <2>1 DEF Abandon
    <3> QED
      BY <1>3, <2>1, <3>1
  <2>2. CASE pending[a] # NoTx /\ pending[a].by \in senders
    <3>1. pending'[a] = [pending[a] EXCEPT !.by = Nobody] /\ pending[a] \in Tx
      BY <1>3, <2>2 DEF Abandon
    <3> QED
      BY <1>1, <1>2, <2>2, <3>1
  <2> QED
    BY <2>1, <2>2
<1>5. pending' \in [Accounts -> {NoTx} \cup Tx]
  BY <1>4 DEF Abandon
<1> QED
  BY <1>4, <1>5 DEF Tx

LEMMA AccountStep ==
    ASSUME TxTypeOK, OwnAccount, OneSender, [Next]_vars
    PROVE  OwnAccount'
<1> USE DEF OwnAccount, OneSender, txVars, Senders, Accounts, AccountOf, Nobody, NotStale
<1>1. CASE InitReporter
  BY <1>1 DEF InitReporter, Send, TxTypeOK
<1>2. CASE GrantAnswered \/ Answered
  BY <1>2 DEF GrantAnswered, Answered, Taken
<1>3. CASE EndRound \/ LookUpDeal \/ LookUpReport
  BY <1>3 DEF EndRound, LookUpDeal, LookUpReport
<1>4. CASE Download
  BY <1>4 DEF Download, Send, SenderOf, TxTypeOK
<1>5. ASSUME NEW kind \in {"form", "report"}, NEW reversed \in BOOLEAN,
             StartRound(kind, reversed)
      PROVE  OwnAccount'
  BY <1>5 DEF StartRound
<1>6. ASSUME NEW s \in Senders, Prepare(s) \/ NotBroadcast(s, Doomed(s)) \/ Refuse(s)
      PROVE  OwnAccount'
  BY <1>6 DEF Prepare, NotBroadcast, Refuse, Return, TxTypeOK
<1>7. ASSUME NEW s \in Senders, Broadcast(s) PROVE OwnAccount'
  BY <1>7 DEF Broadcast, Current, TxTypeOK
<1>8. ASSUME NEW s \in Senders, TimeOut(s) PROVE OwnAccount'
  BY <1>8, Abandoned DEF TimeOut, Return, TxTypeOK
<1>9. ASSUME NEW a \in Accounts, Block(a) PROVE OwnAccount'
  BY <1>9, PendingType DEF Block, Include, TxTypeOK
<1>10. ASSUME NEW a \in Accounts, Drop(a) PROVE OwnAccount'
  BY <1>10 DEF Drop, TxTypeOK
<1>11. ASSUME NEW d \in Deals, DealMoves(d) \/ FileChanges(d) \/ ReportChanges(d)
       PROVE  OwnAccount'
  BY <1>11 DEF DealMoves, FileChanges, ReportChanges
<1>12. CASE Operate
  BY <1>12 DEF Operate, Send, TxTypeOK
<1>13. CASE OperatorDone
  BY <1>13 DEF OperatorDone
<1>14. CASE Restart
  BY <1>14, Abandoned DEF Restart, StopSending, TxTypeOK
<1>15. CASE Calm \/ UNCHANGED vars \/ \E p \in Providers : ProviderChanges(p)
  BY <1>15 DEF Calm, vars, ProviderChanges
<1> QED
  BY <1>1, <1>2, <1>3, <1>4, <1>5, <1>6, <1>7, <1>8, <1>9, <1>10, <1>11, <1>12, <1>13,
     <1>14, <1>15
  DEF Next, Round, Sending, SendStep, Forgotten

-----------------------------------------------------------------------------
(* The round. *)

\* The page a round starts with.
LEMMA EntryType ==
    ASSUME owner \in [Deals -> Providers \cup {Gone}], NEW kind \in {"form", "report"}
    PROVE  /\ Entries(kind) \subseteq Entry
           /\ \A x \in Entries(kind) :
                 kind = "form" => x.provider # Nobody /\ x.provider = owner[x.deal]
<1>1. ASSUME NEW d \in Deals, owner[d] # Gone
      PROVE  /\ DealEntry(d) \in Entry
             /\ DealEntry(d).provider # Nobody
             /\ DealEntry(d).provider = owner[DealEntry(d).deal]
  <2>1. owner[d] \in Providers /\ owner[d] # Nobody
    BY <1>1
  <2> QED
    BY <2>1 DEF DealEntry, Entry
<1>2. ASSUME NEW d \in Deals
      PROVE  ReportEntry(d) \in Entry
  BY DEF ReportEntry, Entry
<1> QED
  BY <1>1, <1>2 DEF Entries

LEMMA NewPage ==
    ASSUME owner \in [Deals -> Providers \cup {Gone}], NEW kind \in {"form", "report"},
           NEW reversed \in BOOLEAN, StartRound(kind, reversed)
    PROVE  /\ page' \in Seq(Entry) /\ Len(page') <= PageLimit
           /\ kind = "form" => \A i \in 1 .. Len(page') :
                 page'[i].provider # Nobody /\ page'[i].provider = owner[page'[i].deal]
<1>1. page' \in Seq(Entries(kind)) /\ Len(page') <= PageLimit
  BY PageOfEntries DEF StartRound
<1>2. page' \in Seq(Entry)
  BY <1>1, EntryType
<1>3. \A i \in 1 .. Len(page') : page'[i] \in Entries(kind)
  BY <1>1
<1> QED
  BY <1>1, <1>2, <1>3, EntryType

LEMMA RoundStep ==
    ASSUME TypeOK, Rounds, [Next]_vars
    PROVE  Rounds' /\ Len(page') <= PageLimit
<1> USE DEF TypeOK, Rounds, roundVars
<1>1. ASSUME page' = Tail(page), page # <<>>
      PROVE  /\ page' \in Seq(Entry) /\ Len(page') <= PageLimit
             /\ round = "form" => \A i \in 1 .. Len(page') : page'[i].provider # Nobody
  BY <1>1, TailOfPage
<1>2. CASE UNCHANGED roundVars
  BY <1>2
<1>3. CASE UNCHANGED <<round, page>> /\ round' \in {"form", "report"}
  BY <1>3
<1>4. CASE page' = <<>> /\ pc' \notin {"next", "download", "send"}
  BY <1>4
<1>5. CASE InitReporter \/ GrantAnswered
  BY <1>5 DEF InitReporter, GrantAnswered
<1>6. CASE EndRound \/ Restart
  BY <1>4, <1>6 DEF EndRound, RoundOver, Restart
<1>7. CASE LookUpDeal \/ LookUpReport \/ Download \/ Answered
  <2>1. page # <<>>
    BY <1>7 DEF LookUpDeal, LookUpReport, Download, Answered
  <2>2. CASE GoOn /\ pc \in {"next", "download", "send"}
    BY <1>1, <2>1, <2>2 DEF GoOn
  <2>3. CASE RoundOver
    BY <1>4, <2>3 DEF RoundOver
  <2>4. CASE UNCHANGED <<round, page>> /\ pc \in {"next", "download", "send"}
    BY <2>4
  <2> QED
    BY <1>7, <2>2, <2>3, <2>4
    DEF LookUpDeal, LookUpReport, Download, Answered, TryDownload
<1>8. ASSUME NEW kind \in {"form", "report"}, NEW reversed \in BOOLEAN,
             StartRound(kind, reversed)
      PROVE  Rounds' /\ Len(page') <= PageLimit
  BY <1>8, NewPage DEF StartRound
<1> QED
  BY <1>2, <1>5, <1>6, <1>7, <1>8
  DEF Next, Round, vars, Sending, Forgotten, Block, DealMoves, FileChanges, ReportChanges,
      ProviderChanges, Operate, OperatorDone, Calm

LEMMA SenderStep ==
    ASSUME TypeOK, OwnAccount, Rounds, OneSender, SentOfRound, [Next]_vars
    PROVE  OneSender' /\ SentOfRound'
<1> USE DEF TypeOK, TxTypeOK, OwnAccount, Rounds, OneSender, SentOfRound, MessageOf, txVars,
        roundVars, Senders, Accounts, AccountOf, Nobody, SenderOf
<1>1. CASE InitReporter
  BY <1>1 DEF InitReporter, Send
<1>2. CASE GrantAnswered
  BY <1>2 DEF GrantAnswered, Taken
<1>3. CASE EndRound
  BY <1>3 DEF EndRound, RoundOver
<1>4. CASE LookUpDeal \/ LookUpReport
  BY <1>4 DEF LookUpDeal, LookUpReport, GoOn, RoundOver, TryDownload
<1>5. CASE Download
  BY <1>5 DEF Download, Send, GoOn, Accusation
<1>6. CASE Answered
  BY <1>6 DEF Answered, Taken, GoOn, RoundOver
<1>7. ASSUME NEW kind \in {"form", "report"}, NEW reversed \in BOOLEAN,
             StartRound(kind, reversed)
      PROVE  OneSender' /\ SentOfRound'
  BY <1>7 DEF StartRound
<1>8. ASSUME NEW s \in Senders, Sending(s) PROVE OneSender' /\ SentOfRound'
  BY <1>8 DEF Sending, SendStep, Prepare, NotBroadcast, Refuse, Return, Broadcast, TimeOut,
              Accusation
<1>9. ASSUME NEW a \in Accounts, Block(a) PROVE OneSender' /\ SentOfRound'
  BY <1>9, PendingType DEF Block, Include, Accusation
<1>10. ASSUME NEW a \in Accounts, Forgotten(a) PROVE OneSender' /\ SentOfRound'
  BY <1>10 DEF Forgotten, Drop, Accusation
<1>11. ASSUME NEW d \in Deals, DealMoves(d) \/ FileChanges(d) \/ ReportChanges(d)
       PROVE  OneSender' /\ SentOfRound'
  BY <1>11 DEF DealMoves, FileChanges, ReportChanges, Accusation
<1>12. CASE Operate
  BY <1>12 DEF Operate, Send, Accusation
<1>13. CASE OperatorDone
  BY <1>13 DEF OperatorDone, Taken, Accusation
<1>14. CASE Restart
  BY <1>14 DEF Restart, StopSending
<1>15. CASE Calm \/ UNCHANGED vars \/ \E p \in Providers : ProviderChanges(p)
  BY <1>15 DEF Calm, vars, ProviderChanges, Accusation
<1> QED
  BY <1>1, <1>2, <1>3, <1>4, <1>5, <1>6, <1>7, <1>8, <1>9, <1>10, <1>11, <1>12, <1>13,
     <1>14, <1>15
  DEF Next, Round

-----------------------------------------------------------------------------
(* The types. *)

LEMMA MessageType ==
    ASSUME TypeOK, Rounds
    PROVE  /\ Plain("grant") \in Messages /\ Plain("other") \in Messages
           /\ pc \in {"download", "send"} => Accusation(Head(page).deal, target) \in Messages
<1>1. Plain("grant") \in ReporterMessages /\ Plain("other") \in ReporterMessages
  BY DEF Plain, ReporterMessages
<1>2. ASSUME pc \in {"download", "send"}
      PROVE  Accusation(Head(page).deal, target) \in ReporterMessages
  <2>1. Head(page).deal \in Deals /\ target \in Providers /\ round \in {"form", "report"}
    BY <1>2, TailOfPage DEF TypeOK, Rounds, Entry
  <2> QED
    BY <2>1 DEF Accusation, ReporterMessages
<1> QED
  BY <1>1, <1>2

LEMMA TxTypeStep ==
    ASSUME TypeOK, OwnAccount, Rounds, OneSender, SentOfRound, [Next]_vars
    PROVE  TxTypeOK'
<1> USE DEF TypeOK, TxTypeOK, OwnAccount, OneSender, txVars, Senders, Accounts, AccountOf,
        Nobody, NotStale
<1>1. CASE InitReporter
  BY <1>1, MessageType DEF InitReporter, Send
<1>2. CASE GrantAnswered \/ Answered
  BY <1>2 DEF GrantAnswered, Answered, Taken, SenderOf
<1>3. CASE EndRound \/ LookUpDeal \/ LookUpReport
  BY <1>3 DEF EndRound, LookUpDeal, LookUpReport
<1>4. CASE Download
  <2>1. CASE UNCHANGED txVars
    BY <1>4, <2>1 DEF Download
  <2>2. CASE Send(SenderOf(round), Accusation(Head(page).deal, target))
    <3>1. Accusation(Head(page).deal, target) \in Messages
      BY <1>4, MessageType DEF Download
    <3>2. SenderOf(round) \in Senders
      BY DEF SenderOf
    <3> QED
      BY <1>4, <2>2, <3>1, <3>2 DEF Download, Send
  <2> QED
    BY <1>4, <2>1, <2>2 DEF Download
<1>5. ASSUME NEW kind \in {"form", "report"}, NEW reversed \in BOOLEAN,
             StartRound(kind, reversed)
      PROVE  TxTypeOK'
  BY <1>5 DEF StartRound
<1>6. ASSUME NEW s \in Senders, Prepare(s) \/ NotBroadcast(s, Doomed(s)) \/ Refuse(s)
      PROVE  TxTypeOK'
  BY <1>6 DEF Prepare, NotBroadcast, Refuse, Return
<1>7. ASSUME NEW s \in Senders, Broadcast(s) PROVE TxTypeOK'
  <2>1. message[s] = MessageOf(s) /\ message[s] \in Messages
    BY <1>7, MessageType DEF Broadcast, SentOfRound, MessageOf
  <2>2. [by |-> s, message |-> message[s]] \in
            [by : Senders \cup {Nobody}, message : Messages]
    BY <2>1
  <2> QED
    BY <1>7, <2>2 DEF Broadcast
<1>8. ASSUME NEW s \in Senders, TimeOut(s) PROVE TxTypeOK'
  BY <1>8, Abandoned DEF TimeOut, Return, Fault
<1>9. ASSUME NEW a \in Accounts, Block(a) PROVE TxTypeOK'
  BY <1>9, PendingType DEF Block, Include
<1>10. ASSUME NEW a \in Accounts, Drop(a) PROVE TxTypeOK'
  BY <1>10 DEF Drop, Fault
<1>11. ASSUME NEW d \in Deals, DealMoves(d) \/ FileChanges(d) \/ ReportChanges(d)
       PROVE  TxTypeOK'
  BY <1>11 DEF DealMoves, FileChanges, ReportChanges, Fault
<1>12. CASE Operate
  BY <1>12, MessageType DEF Operate, Send, Fault
<1>13. CASE OperatorDone
  BY <1>13 DEF OperatorDone, Taken
<1>14. CASE Restart
  BY <1>14, Abandoned DEF Restart, StopSending, Fault
<1>15. CASE Calm \/ UNCHANGED vars
  <2>1. UNCHANGED <<txVars, faults>> /\ calm' \in {calm, TRUE}
    BY <1>15 DEF Calm, vars
  <2> QED
    BY <2>1
<1>16. ASSUME NEW p \in Providers, ProviderChanges(p) PROVE TxTypeOK'
  BY <1>16 DEF ProviderChanges, Fault
<1> QED
  BY <1>1, <1>2, <1>3, <1>4, <1>5, <1>6, <1>7, <1>8, <1>9, <1>10, <1>11, <1>12, <1>13,
     <1>14, <1>15, <1>16
  DEF Next, Round, Sending, SendStep, Forgotten

\* The chain's part and the round's.
LEMMA RoundTypeStep ==
    ASSUME TypeOK, Rounds, [Next]_vars, TxTypeOK', Rounds', Len(page') <= PageLimit
    PROVE  TypeOK'
<1> USE DEF TypeOK, roundVars, chainVars, Nobody
<1>1. \A i \in 1 .. Len(page') :
         page'[i].deal \in Deals /\ page'[i].provider \in Providers \cup {Nobody}
  <2>1. \A i \in 1 .. Len(page') : page'[i] \in Entry
    BY DEF Rounds
  <2> QED
    BY <2>1 DEF Entry
<1> HIDE DEF Nobody
<1>2. CASE InitReporter \/ GrantAnswered
  BY <1>1, <1>2 DEF InitReporter, GrantAnswered
<1>3. CASE EndRound
  BY <1>1, <1>3 DEF EndRound, RoundOver
<1>4. CASE LookUpDeal
  <2>1. /\ Head(page).provider \in Providers \cup {Nobody}
        /\ round = "form" => Head(page).provider # Nobody
    BY <1>4, TailOfPage DEF LookUpDeal, Rounds, Entry
  <2> QED
    BY <1>1, <1>4, <2>1 DEF LookUpDeal, GoOn, TryDownload
<1>5. CASE LookUpReport
  <2>1. Head(page).deal \in Deals
    BY <1>5, TailOfPage DEF LookUpReport, Rounds, Entry
  <2>2. /\ moved' \subseteq Deals /\ UNCHANGED chainVars /\ round' \in {round, "none"}
        /\ pc' \in {"next", "download", "pause"}
    BY <1>5 DEF LookUpReport, GoOn, RoundOver, TryDownload
  <2>3. owner[Head(page).deal] \in Providers \cup {Gone}
    BY <2>1
  <2>4. /\ target' \in Providers \cup {Nobody}
        /\ pc' = "download" => page' # <<>> /\ target' \notin {Me, Nobody}
    BY <1>5, <2>3 DEF LookUpReport, GoOn, RoundOver, TryDownload
  <2> QED
    BY <1>1, <2>2, <2>4
<1>6. CASE Download
  BY <1>1, <1>6 DEF Download, GoOn
<1>7. CASE Answered
  BY <1>1, <1>7 DEF Answered, GoOn, RoundOver
<1>8. ASSUME NEW kind \in {"form", "report"}, NEW reversed \in BOOLEAN,
             StartRound(kind, reversed)
      PROVE  TypeOK'
  BY <1>1, <1>8 DEF StartRound
<1>9. CASE \E s \in Senders : Sending(s)
  BY <1>1, <1>9 DEF Sending
<1>10. ASSUME NEW a \in Accounts, Block(a) PROVE TypeOK'
  BY <1>1, <1>10 DEF Block
<1>11. ASSUME NEW a \in Accounts, Forgotten(a) PROVE TypeOK'
  BY <1>1, <1>11 DEF Forgotten
<1>12. ASSUME NEW d \in Deals, DealMoves(d) PROVE TypeOK'
  <2>1. PICK p \in Providers \cup {Gone} : owner' = [owner EXCEPT ![d] = p]
    BY <1>12 DEF DealMoves
  <2>2. owner' \in [Deals -> Providers \cup {Gone}]
    BY <2>1
  <2>3. moved' \subseteq Deals
    BY <1>12 DEF DealMoves
  <2> QED
    BY <1>1, <1>12, <2>2, <2>3 DEF DealMoves
<1>13. ASSUME NEW d \in Deals, FileChanges(d) \/ ReportChanges(d) PROVE TypeOK'
  BY <1>1, <1>13 DEF FileChanges, ReportChanges
<1>14. CASE Operate \/ OperatorDone \/ Calm
  BY <1>1, <1>14 DEF Operate, OperatorDone, Calm
<1>15. CASE Restart
  BY <1>1, <1>15 DEF Restart
<1>16. CASE UNCHANGED vars \/ \E p \in Providers : ProviderChanges(p)
  BY <1>1, <1>16 DEF vars, ProviderChanges
<1> QED
  BY <1>2, <1>3, <1>4, <1>5, <1>6, <1>7, <1>8, <1>9, <1>10, <1>11, <1>12, <1>13, <1>14,
     <1>15, <1>16
  DEF Next, Round

-----------------------------------------------------------------------------
(* The causes. *)

LEMMA CauseStep ==
    ASSUME TypeOK, Rounds, OneSender, SentOfRound, Causes, [Next]_vars
    PROVE  Causes'
<1> USE DEF Causes, ForCause, chainVars, roundVars, txVars
<1>1. CASE InitReporter
  BY <1>1 DEF InitReporter, Send
<1>2. CASE GrantAnswered
  BY <1>2 DEF GrantAnswered
<1>3. CASE EndRound
  BY <1>3 DEF EndRound, RoundOver
\* The page, less the entry in hand.
<1>4. ASSUME GoOn, page # <<>>, UNCHANGED <<owner, pending>>, moved' = moved
      PROVE  Causes'
  BY <1>4, TailOfPage DEF GoOn, Rounds
<1>5. CASE LookUpDeal
  <2>1. CASE GoOn
    BY <1>4, <1>5, <2>1 DEF LookUpDeal
  <2>2. CASE TryDownload(Head(page).provider)
    BY <1>5, <2>2, TailOfPage DEF LookUpDeal, TryDownload, Rounds
  <2> QED
    BY <1>5, <2>1, <2>2 DEF LookUpDeal
\* Deals of pending transactions that have moved remain so.
<1>6. ASSUME UNCHANGED <<owner, pending>>, NEW a \in Accounts, pending[a] # NoTx,
             moved \cap Unfinished \subseteq moved'
      PROVE  ForCause(pending[a].message)'
  <2>1. pending[a].message.deal \in moved => pending[a].message.deal \in moved'
    BY <1>6 DEF Unfinished, TypeOK
  <2> QED
    BY <1>6, <2>1
<1>7. CASE LookUpReport
  <2>1. /\ moved \cap Unfinished \subseteq moved' /\ round' # "form"
        /\ UNCHANGED <<owner, pending>>
        /\ pc' = "download" => page' = page /\ target' = owner[Head(page).deal]
        /\ pc' # "send"
    BY <1>7 DEF LookUpReport, GoOn, RoundOver, TryDownload
  <2> QED
    BY <1>6, <2>1
<1>8. CASE Download
  <2>1. CASE GoOn
    <3>1. UNCHANGED txVars /\ page # <<>>
      BY <1>8, <2>1 DEF Download, GoOn, TypeOK
    <3> QED
      BY <1>4, <1>8, <2>1, <3>1 DEF Download
  <2>2. CASE UNCHANGED <<round, page, target>>
    BY <1>8, <2>2 DEF Download, Send
  <2> QED
    BY <1>8, <2>1, <2>2 DEF Download
<1>9. CASE Answered
  BY <1>4, <1>9 DEF Answered, RoundOver, TypeOK
<1>10. ASSUME NEW kind \in {"form", "report"}, NEW reversed \in BOOLEAN,
              StartRound(kind, reversed)
       PROVE  Causes'
  <2>1. UNCHANGED <<owner, pending>> /\ moved' = moved \cap Unfinished /\ pc' = "next"
        /\ round' = kind
    BY <1>10 DEF StartRound
  <2> QED
    BY <1>6, <1>10, <2>1, NewPage DEF TypeOK
<1>11. ASSUME NEW s \in Senders, Broadcast(s), UNCHANGED <<chainVars, roundVars, moved>>
       PROVE  Causes'
  <2>1. message[s] = MessageOf(s)
        /\ (s # "operator" /\ pc # "granting" => pc = "send")
    BY <1>11 DEF Broadcast, SentOfRound, OneSender, Senders
  <2>2. ForCause(message[s])
    BY <2>1, TailOfPage DEF MessageOf, Plain, Accusation, TypeOK, Rounds, Entry
  <2>3. \A a \in Accounts : pending'[a] = IF a = AccountOf(s)
                                          THEN [by |-> s, message |-> message[s]]
                                          ELSE pending[a]
    BY <1>11 DEF Broadcast, TypeOK, TxTypeOK
  <2> QED
    BY <1>11, <2>2, <2>3
<1>12. ASSUME NEW s \in Senders, Sending(s), ~ Broadcast(s)
       PROVE  Causes'
  BY <1>12, Abandoned
  DEF Sending, SendStep, Prepare, NotBroadcast, Refuse, TimeOut, TypeOK
<1>13. ASSUME NEW a \in Accounts, Block(a) \/ Forgotten(a) PROVE Causes'
  BY <1>13 DEF Block, Include, Forgotten, Drop, TypeOK, TxTypeOK
<1>14. ASSUME NEW d \in Deals, DealMoves(d) PROVE Causes'
  <2>1. /\ UNCHANGED <<pending, roundVars>> /\ moved' = moved \cup {d}
        /\ \A e \in Deals : e \notin moved' => owner'[e] = owner[e]
    BY <1>14 DEF DealMoves, TypeOK
  <2>2. /\ \A i \in 1 .. Len(page) : page[i].deal \in Deals
        /\ pc \in {"download", "send"} => Head(page).deal \in Deals
    BY TailOfPage DEF TypeOK, Rounds, Entry
  <2> QED
    BY <2>1, <2>2
<1>15. ASSUME NEW d \in Deals, FileChanges(d) \/ ReportChanges(d) PROVE Causes'
  BY <1>15 DEF FileChanges, ReportChanges
<1>16. CASE Operate \/ OperatorDone \/ Calm \/ UNCHANGED vars
             \/ \E p \in Providers : ProviderChanges(p)
  BY <1>16 DEF Operate, Send, OperatorDone, Calm, vars, ProviderChanges
<1>17. CASE Restart
  BY <1>17, Abandoned DEF Restart, StopSending, TypeOK
<1> QED
  BY <1>1, <1>2, <1>3, <1>5, <1>7, <1>8, <1>9, <1>10, <1>11, <1>12, <1>13, <1>14, <1>15,
     <1>16, <1>17
  DEF Next, Round, Sending

-----------------------------------------------------------------------------

LEMMA Inductive == Spec => []RInv
<1>1. Init => RInv
  <2> SUFFICES ASSUME Init PROVE RInv
    OBVIOUS
  <2> USE DEF Init, TxInit
  <2>1. TypeOK
    <3>1. /\ phase \in [Senders -> {"idle", "started", "prepared", "sent"}]
          /\ answer \in [Senders -> {"none", "error", "rejected", "accepted"}]
          /\ stale \in [Senders -> Senders \cup {Nobody, NotStale}]
      BY DEF NotStale
    <3>2. /\ message \in [Senders -> Messages \cup {NoMessage}]
          /\ pending \in [Accounts -> {NoTx} \cup
                                [by : Senders \cup {Nobody}, message : Messages]]
      OBVIOUS
    <3>3. faults \in 0 .. MaxFaults
      OBVIOUS
    <3>4. calm \in BOOLEAN /\ granted \in BOOLEAN
      OBVIOUS
    <3>5. \A s \in Senders : message[s] = NoMessage /\ stale[s] = NotStale
      OBVIOUS
    <3>6. TxTypeOK
      BY <3>1, <3>2, <3>3, <3>4, <3>5 DEF TxTypeOK
    <3>7. /\ Len(page) = 0 /\ Len(page) <= PageLimit
          /\ pc = "start" /\ round = "none" /\ target = Nobody /\ moved = {}
      OBVIOUS
    <3>8. /\ owner \in [Deals -> Providers \cup {Gone}]
          /\ report \in [Deals -> {"none", "asked", "complete"}]
          /\ lost \subseteq Deals /\ registered \subseteq Providers
      OBVIOUS
    <3> HIDE DEF Init, TxInit
    <3> QED
      BY <3>4, <3>6, <3>7, <3>8 DEF TypeOK
  <2>2. OwnAccount
    BY DEF OwnAccount
  <2>3. Rounds /\ OneSender /\ SentOfRound
    BY DEF Rounds, OneSender, SentOfRound, Senders
  <2>4. Causes
    BY DEF Causes
  <2> QED
    BY <2>1, <2>2, <2>3, <2>4 DEF RInv
<1>2. RInv /\ [Next]_vars => RInv'
  <2> SUFFICES ASSUME RInv, [Next]_vars PROVE RInv'
    OBVIOUS
  <2>1. TypeOK /\ TxTypeOK /\ OwnAccount /\ Rounds /\ OneSender /\ SentOfRound /\ Causes
    BY DEF RInv, TypeOK
  <2>2. OwnAccount'
    BY <2>1, AccountStep
  <2>3. Rounds' /\ Len(page') <= PageLimit
    BY <2>1, RoundStep
  <2>4. OneSender' /\ SentOfRound'
    BY <2>1, SenderStep
  <2>5. TxTypeOK'
    BY <2>1, TxTypeStep
  <2>6. TypeOK'
    BY <2>1, <2>3, <2>5, RoundTypeStep
  <2>7. Causes'
    BY <2>1, CauseStep
  <2> QED
    BY <2>2, <2>3, <2>4, <2>6, <2>7 DEF RInv
<1> QED
  BY <1>1, <1>2, PTL DEF Spec

\* What the reporter, the senders and the chain hold keeps its type: in
\* particular no file is asked of nobody or of the provider itself.
THEOREM TypeCorrect == Spec => []TypeOK
<1>1. RInv => TypeOK
  BY DEF RInv
<1> QED
  BY <1>1, Inductive, PTL

\* A transaction of the reporter or of the queue is refused for its sequence
\* only because of one its sender gave up on or a command of the operator.
THEOREM SequencesAreOwn == Spec => []SequenceIsOwn
<1>1. RInv => SequenceIsOwn
  <2> SUFFICES ASSUME RInv, NEW s \in {"provider", "reporter"},
                      phase[s] = "prepared", ~ Current(s)
               PROVE  Rival(s) \in {Nobody} \cup (IF s = "provider" THEN {"operator"} ELSE {})
    BY DEF SequenceIsOwn
  <2>1. Rival(s) # Nobody =>
          /\ Rival(s) \in Senders
          /\ AccountOf(Rival(s)) = AccountOf(s)
          /\ Rival(s) # s
    BY PendingType
    DEF RInv, TypeOK, TxTypeOK, OwnAccount, Current, Rival, Senders, Accounts, AccountOf
  <2> QED
    BY <2>1 DEF Senders, AccountOf
<1> QED
  BY <1>1, Inductive, PTL

\* What the chain is made to believe of a deal that has not moved is that the
\* one who holds it failed, and that is never this provider.
THEOREM ReportsForCause == Spec => ReportedForCause
<1>1. RInv =>
        \A a \in Accounts :
           LET m == pending[a].message IN
           Accused(a) /\ m.deal \notin moved => m.from = owner[m.deal] /\ m.from # Me
  BY DEF RInv, Causes, ForCause, Accused
<1> QED
  BY <1>1, Inductive, PTL DEF ReportedForCause

=============================================================================
