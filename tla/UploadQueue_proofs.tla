-------------------------- MODULE UploadQueue_proofs --------------------------
(* What holds of the upload queue for any number of uploads of any sizes.   *)
EXTENDS UploadQueue, SequenceTheorems, TLAPS

USE SizeAssumption, MaxMessageSizeAssumption, OutcomesAssumption

(***************************************************************************)
(* Types.  Next to TypeOK, the listener holds a batch only while it is at   *)
(* work, and the result of a transaction once it sent one.                  *)
(***************************************************************************)
ListenerFields ==
    /\ listener \in {"idle", "locked"} => msgs = <<>>
    /\ listener \in {"idle", "locked", "prepared", "sent"} => next = 1
    /\ listener \in {"sent", "answering"} => result \in Outcomes

TInv == TypeOK /\ ListenerFields

LEMMA FieldOfType ==
    \A outcome \in Outcomes : FieldOf(outcome) \in SUBSET {"Err", "Response"}
  BY DEF FieldOf

LEMMA InitTInv == Init => TInv
<1> SUFFICES ASSUME Init PROVE TInv
  OBVIOUS
<1>1. <<>> \in Seq(Uploads) /\ Len(<<>>) = 0
  BY EmptySeq
<1>2. next \in 1 .. Len(msgs) + 1
  BY <1>1 DEF Init
<1>3. seen \in [Uploads -> Seq(Uploads)] /\ wg \in [Uploads -> Int]
  BY <1>1 DEF Init
<1>4. fields \in [Uploads -> SUBSET {"Err", "Response"}]
  BY DEF Init
<1>5. /\ pc \in [Uploads -> {"new", "appending", "waiting", "returned"}]
      /\ fate \in [Uploads -> Outcomes \cup {NoResult}]
  BY DEF Init
<1> QED
  BY <1>1, <1>2, <1>3, <1>4, <1>5 DEF Init, TInv, TypeOK, ListenerFields, NoResult

LEMMA TypeStep ==
    ASSUME TInv, [Next]_vars
    PROVE  TInv'
<1> USE DEF TInv, TypeOK, ListenerFields, uploadVars, listenerVars, answerVars,
            historyVars, ListenerAccess, AppenderAccess
<1>1. ASSUME NEW u \in Uploads, Load(u) PROVE TInv'
  BY <1>1 DEF Load
<1>2. ASSUME NEW u \in Uploads, Store(u) PROVE TInv'
  <2>1. Append(seen[u], u) \in Seq(Uploads) /\ Append(stored, u) \in Seq(Uploads)
    BY AppendProperties
  <2> QED
    BY <1>2, <2>1, EmptySeq DEF Store
<1>3. ASSUME NEW u \in Uploads, WaitReturns(u) PROVE TInv'
  BY <1>3 DEF WaitReturns
<1>4. CASE Lock
  BY <1>4 DEF Lock
<1>5. CASE PrepareMessage
  <2>1. PICK k \in 0 .. Len(queue) : msgs' = SubSeq(queue, 1, k)
    BY <1>5 DEF PrepareMessage
  <2>2. msgs' \in Seq(Uploads)
    BY <2>1, LenProperties, ElementOfSeq, SubSeqProperties
  <2>3. Len(msgs') \in Nat
    BY <2>2, LenProperties
  <2> QED
    BY <1>5, <2>2, <2>3 DEF PrepareMessage
<1>6. CASE SendTx
  <2>1. sent \o msgs \in Seq(Uploads)
    BY ConcatProperties
  <2> QED
    BY <1>6, <2>1 DEF SendTx
<1>7. CASE UpdateQueue
  <2>1. Len(msgs) \in Nat
    BY LenProperties
  <2>2. next' \in 1 .. Len(msgs) + 1
    BY <1>7, <2>1 DEF UpdateQueue
  <2> QED
    BY <1>7, <2>2 DEF UpdateQueue
<1>8. CASE Answer
  <2>1. next + 1 \in 1 .. Len(msgs) + 1
    BY <1>8, LenProperties DEF Answer
  <2>2. CASE next > Len(queue)
    BY <1>8, <2>1, <2>2 DEF Answer
  <2>3. CASE ~ (next > Len(queue))
    <3> DEFINE u == queue[next]
    <3>1. u \in Uploads
      BY <2>3, LenProperties, ElementOfSeq
    <3>2. FieldOf(result) \in SUBSET {"Err", "Response"}
      BY <1>8, FieldOfType DEF Answer
    <3>a. /\ fields' = [fields EXCEPT ![u] = @ \cup FieldOf(result)]
          /\ wg' = [wg EXCEPT ![u] = @ - 1]
      BY <1>8, <2>3 DEF Answer
    <3> HIDE DEF u
    <3>3. fields' \in [Uploads -> SUBSET {"Err", "Response"}]
      BY <3>a, <3>1, <3>2
    <3>4. wg' \in [Uploads -> Int]
      BY <3>a, <3>1, SMTT(30)
    <3>5. panicked' \in BOOLEAN
      BY <1>8, <2>3 DEF Answer
    <3> QED
      BY <1>8, <2>1, <3>3, <3>4, <3>5 DEF Answer
  <2> QED
    BY <2>2, <2>3
<1>9. CASE LoadToPop
  BY <1>9 DEF LoadToPop
<1>10. CASE Pop
  <2>1. SubSeq(popSeen, Len(msgs) + 1, Len(popSeen)) \in Seq(Uploads)
    BY LenProperties, ElementOfSeq, SubSeqProperties
  <2> QED
    BY <1>10, <2>1, EmptySeq DEF Pop, Unlock, NoResult
<1>11. CASE UNCHANGED vars
  BY <1>11 DEF vars
<1> QED
  BY <1>1, <1>2, <1>3, <1>4, <1>5, <1>6, <1>7, <1>8, <1>9, <1>10, <1>11
  DEF Next, Listener

\* Type correctness, in raced runs too: next never leaves the batch.
THEOREM TypeCorrect == Spec => []TypeOK
<1>1. TInv /\ [Next]_vars => TInv'
  BY TypeStep
<1>2. TInv => TypeOK
  BY DEF TInv
<1> QED
  BY <1>1, <1>2, InitTInv, PTL DEF Spec

-----------------------------------------------------------------------------
(***************************************************************************)
(* Order.  In a run that is not raced, whoever is between the load and the  *)
(* store of q.Queue is alone and holds the queue as it is; the batch is the *)
(* head of the queue until it is popped; and what was stored is what was    *)
(* sent followed by what is queued beyond the batch that was sent.          *)
(***************************************************************************)
Alone ==
    /\ \A u, v \in Uploads : pc[u] = "appending" /\ pc[v] = "appending" => u = v
    /\ listener = "popping" => \A u \in Uploads : pc[u] # "appending"

Snapshots ==
    /\ \A u \in Uploads : pc[u] = "appending" => seen[u] = queue
    /\ listener = "popping" => popSeen = queue

BatchIsHead ==
    listener \in {"prepared", "sent", "answering", "popping"} =>
        /\ Len(msgs) <= Len(queue)
        /\ \A i \in 1 .. Len(msgs) : msgs[i] = queue[i]

\* How many uploads at the head of the queue were sent already.
Taken == IF listener \in {"sent", "answering", "popping"} THEN Len(msgs) ELSE 0

StoredIsSentThenQueued ==
    /\ Len(stored) = Len(sent) + Len(queue) - Taken
    /\ \A i \in 1 .. Len(sent) : stored[i] = sent[i]
    /\ \A i \in 1 .. Len(queue) - Taken : stored[Len(sent) + i] = queue[Taken + i]

Order == Alone /\ Snapshots /\ BatchIsHead /\ StoredIsSentThenQueued

OInv == TInv /\ (raced \/ Order)

LEMMA Lengths ==
    ASSUME TInv
    PROVE  /\ Len(queue) \in Nat /\ Len(msgs) \in Nat /\ Len(popSeen) \in Nat
           /\ Len(stored) \in Nat /\ Len(sent) \in Nat
           /\ next \in 1 .. Len(msgs) + 1
           /\ Taken \in Nat
  BY LenProperties DEF TInv, TypeOK, Taken

\* No step takes a race back.
LEMMA RacedStays ==
    ASSUME TInv, [Next]_vars, ~ raced'
    PROVE  ~ raced
  BY DEF TInv, TypeOK, Next, Listener, Load, Store, WaitReturns, Lock,
         PrepareMessage, SendTx, UpdateQueue, Answer, LoadToPop, Pop,
         ListenerAccess, AppenderAccess, historyVars, vars

LEMMA InitOrder == Init => Order
<1> SUFFICES ASSUME Init PROVE Order
  OBVIOUS
<1>1. Len(<<>>) = 0
  BY EmptySeq
<1> QED
  BY <1>1 DEF Init, Order, Alone, Snapshots, BatchIsHead, Taken,
              StoredIsSentThenQueued

\* The steps that neither change the queue nor what is stored, sent or taken.
LEMMA OrderOfUnchangedQueue ==
    ASSUME TInv, Order, UNCHANGED <<queue, uploadVars, popSeen, stored, sent>>,
           UNCHANGED msgs, Taken' = Taken,
           listener' = "popping" => listener = "popping",
           listener' \in {"prepared", "sent", "answering"} =>
               listener \in {"prepared", "sent", "answering"}
    PROVE  Order'
  BY DEF Order, Alone, Snapshots, BatchIsHead, StoredIsSentThenQueued, uploadVars

LEMMA OrderStep ==
    ASSUME TInv, TInv', Order, [Next]_vars, ~ raced'
    PROVE  Order'
<1> USE Lengths
<1>0. ~ raced
  BY RacedStays
<1>1. ASSUME NEW u \in Uploads, Load(u) PROVE Order'
  <2>1. listener # "popping" /\ \A v \in Uploads \ {u} : pc[v] # "appending"
    BY <1>1 DEF Load, AppenderAccess
  <2>2. Alone' /\ Snapshots'
    BY <1>1, <2>1 DEF Load, Order, Alone, Snapshots, TInv, TypeOK, listenerVars
  <2>3. BatchIsHead' /\ StoredIsSentThenQueued'
    BY <1>1 DEF Load, Order, BatchIsHead, StoredIsSentThenQueued, Taken, listenerVars
  <2> QED
    BY <2>2, <2>3 DEF Order
<1>2. ASSUME NEW u \in Uploads, Store(u) PROVE Order'
  <2>1. listener # "popping" /\ \A v \in Uploads \ {u} : pc[v] # "appending"
    BY <1>2 DEF Store, AppenderAccess
  <2>2. queue' = Append(queue, u) /\ stored' = Append(stored, u)
    BY <1>2 DEF Store, Order, Snapshots
  <2>3. /\ Len(queue') = Len(queue) + 1
        /\ \A i \in 1 .. Len(queue) : queue'[i] = queue[i]
        /\ queue'[Len(queue) + 1] = u
    BY <2>2, AppendProperties DEF TInv, TypeOK
  <2>4. /\ Len(stored') = Len(stored) + 1
        /\ \A i \in 1 .. Len(stored) : stored'[i] = stored[i]
        /\ stored'[Len(stored) + 1] = u
    BY <2>2, AppendProperties DEF TInv, TypeOK
  <2>5. /\ Taken' = Taken
        /\ UNCHANGED <<listener, msgs, sent, popSeen>>
    BY <1>2 DEF Store, Taken, listenerVars
  <2>6. Alone' /\ Snapshots'
    BY <1>2, <2>1 DEF Store, Alone, Snapshots, TInv, TypeOK, listenerVars
  <2>7. BatchIsHead'
    <3>1. listener \in {"prepared", "sent", "answering", "popping"} =>
             /\ Len(msgs) <= Len(queue)
             /\ \A i \in 1 .. Len(msgs) : i \in 1 .. Len(queue) /\ msgs[i] = queue[i]
      BY DEF Order, BatchIsHead
    <3> QED
      BY <2>3, <2>5, <3>1 DEF BatchIsHead
  <2>8. Taken <= Len(queue)
    BY DEF Order, BatchIsHead, Taken
  <2>9. StoredIsSentThenQueued'
    <3>1. Len(stored') = Len(sent') + Len(queue') - Taken'
      BY <2>3, <2>4, <2>5 DEF Order, StoredIsSentThenQueued
    <3>2. \A i \in 1 .. Len(sent') : stored'[i] = sent'[i]
      BY <2>4, <2>5, <2>8 DEF Order, StoredIsSentThenQueued
    <3>3. ASSUME NEW i \in 1 .. Len(queue') - Taken'
          PROVE  stored'[Len(sent') + i] = queue'[Taken' + i]
      <4>0. Len(stored) = Len(sent) + Len(queue) - Taken
        BY DEF Order, StoredIsSentThenQueued
      <4>1. CASE i \in 1 .. Len(queue) - Taken
        <5>1. stored[Len(sent) + i] = queue[Taken + i]
          BY <4>1 DEF Order, StoredIsSentThenQueued
        <5>2. Len(sent) + i \in 1 .. Len(stored) /\ Taken + i \in 1 .. Len(queue)
          BY <4>0, <4>1
        <5> QED
          BY <5>1, <5>2, <2>3, <2>4, <2>5
      <4>2. CASE i = Len(queue) - Taken + 1
        <5>1. Len(sent) + i = Len(stored) + 1 /\ Taken + i = Len(queue) + 1
          BY <4>0, <4>2
        <5> QED
          BY <5>1, <2>3, <2>4, <2>5
      <4>3. i \in 1 .. Len(queue) + 1 - Taken
        BY <2>3, <2>5
      <4>4. Taken \in Nat
        BY DEF Taken
      <4>5. i \in 1 .. Len(queue) - Taken \/ i = Len(queue) - Taken + 1
        BY <4>3, <4>4, <2>8
      <4> QED
        BY <4>1, <4>2, <4>5
    <3> QED
      BY <3>1, <3>2, <3>3 DEF StoredIsSentThenQueued
  <2> QED
    BY <2>6, <2>7, <2>9 DEF Order
<1>3. ASSUME NEW u \in Uploads, WaitReturns(u) PROVE Order'
  <2>1. Alone' /\ Snapshots'
    BY <1>3 DEF WaitReturns, Order, Alone, Snapshots, TInv, TypeOK, listenerVars
  <2>2. BatchIsHead' /\ StoredIsSentThenQueued'
    BY <1>3 DEF WaitReturns, Order, BatchIsHead, StoredIsSentThenQueued, Taken,
                listenerVars, historyVars
  <2> QED
    BY <2>1, <2>2 DEF Order
<1>4. CASE Lock
  BY <1>4, OrderOfUnchangedQueue DEF Lock, Taken
<1>5. CASE PrepareMessage
  <2>1. PICK k \in 0 .. Len(queue) : msgs' = SubSeq(queue, 1, k)
    BY <1>5 DEF PrepareMessage
  <2>2. queue \in Seq(Uploads) /\ \A i \in 1 .. k : queue[i] \in Uploads
    <3>1. queue \in Seq(Uploads)
      BY DEF TInv, TypeOK
    <3> QED
      BY <3>1, ElementOfSeq
  <2>3. Len(msgs') = k /\ \A i \in 1 .. k : msgs'[i] = queue[i]
    <3>1. Len(SubSeq(queue, 1, k)) = k /\ \A i \in 1 .. k : SubSeq(queue, 1, k)[i] = queue[i]
      BY <2>2
    <3> QED
      BY <2>1, <3>1
  <2>4. /\ listener = "locked" /\ listener' = "prepared"
        /\ UNCHANGED <<queue, uploadVars, popSeen, stored, sent>>
    BY <1>5 DEF PrepareMessage
  <2>5. Alone' /\ Snapshots'
    BY <2>4 DEF Order, Alone, Snapshots, uploadVars
  <2>6. BatchIsHead'
    BY <2>3, <2>4 DEF BatchIsHead
  <2>7. Taken = 0 /\ Taken' = 0
    BY <2>4 DEF Taken
  <2>8. StoredIsSentThenQueued'
    BY <2>4, <2>7 DEF Order, StoredIsSentThenQueued
  <2> QED
    BY <2>5, <2>6, <2>8 DEF Order
<1>6. CASE SendTx
  <2>1. /\ listener = "prepared" /\ listener' = "sent" /\ sent' = sent \o msgs
        /\ UNCHANGED <<queue, uploadVars, msgs, popSeen, stored>>
    BY <1>6 DEF SendTx
  <2>2. /\ Len(sent') = Len(sent) + Len(msgs)
        /\ \A i \in 1 .. Len(sent) : sent'[i] = sent[i]
        /\ \A i \in 1 .. Len(msgs) : sent'[Len(sent) + i] = msgs[i]
    BY <2>1, ConcatProperties DEF TInv, TypeOK
  <2>3. Alone' /\ Snapshots' /\ BatchIsHead'
    BY <2>1 DEF Order, Alone, Snapshots, BatchIsHead, uploadVars
  <2>4. /\ Taken = 0 /\ Taken' = Len(msgs) /\ Len(msgs) <= Len(queue)
        /\ \A i \in 1 .. Len(msgs) : msgs[i] = queue[i]
    BY <2>1 DEF Taken, Order, BatchIsHead
  <2>5. /\ Len(stored) = Len(sent) + Len(queue)
        /\ \A i \in 1 .. Len(sent) : stored[i] = sent[i]
        /\ \A i \in 1 .. Len(queue) : stored[Len(sent) + i] = queue[i]
    BY <2>4 DEF Order, StoredIsSentThenQueued
  <2>6. StoredIsSentThenQueued'
    <3>1. Len(stored') = Len(sent') + Len(queue') - Taken'
      BY <2>1, <2>2, <2>4, <2>5
    <3>2. ASSUME NEW i \in 1 .. Len(sent') PROVE stored'[i] = sent'[i]
      <4>1. CASE i \in 1 .. Len(sent)
        BY <4>1, <2>1, <2>2, <2>5
      <4>2. CASE i \in Len(sent) + 1 .. Len(sent) + Len(msgs)
        <5> DEFINE j == i - Len(sent)
        <5>1. j \in 1 .. Len(msgs) /\ j \in 1 .. Len(queue) /\ i = Len(sent) + j
          BY <4>2, <2>4
        <5> HIDE DEF j
        <5>2. stored[Len(sent) + j] = queue[j]
          BY <5>1, <2>5
        <5>3. sent'[i] = msgs[j] /\ msgs[j] = queue[j]
          BY <5>1, <2>2, <2>4
        <5> QED
          BY <5>1, <5>2, <5>3, <2>1
      <4> QED
        BY <4>1, <4>2, <2>2
    <3>3. ASSUME NEW i \in 1 .. Len(queue') - Taken'
          PROVE  stored'[Len(sent') + i] = queue'[Taken' + i]
      <4>1. Len(msgs) + i \in 1 .. Len(queue)
        BY <2>1, <2>4
      <4>2. stored[Len(sent) + (Len(msgs) + i)] = queue[Len(msgs) + i]
        BY <4>1, <2>5
      <4> QED
        BY <4>2, <2>1, <2>2, <2>4
    <3> QED
      BY <3>1, <3>2, <3>3 DEF StoredIsSentThenQueued
  <2> QED
    BY <2>3, <2>6 DEF Order
<1>7. CASE UpdateQueue
  BY <1>7, OrderOfUnchangedQueue DEF UpdateQueue, Taken
<1>8. CASE Answer
  BY <1>8, OrderOfUnchangedQueue DEF Answer, Taken
<1>9. CASE LoadToPop
  <2>1. /\ listener = "answering" /\ listener' = "popping" /\ popSeen' = queue
        /\ UNCHANGED <<queue, uploadVars, msgs, stored, sent>>
        /\ \A u \in Uploads : pc[u] # "appending"
    BY <1>9 DEF LoadToPop, ListenerAccess
  <2>2. Taken' = Taken
    BY <2>1 DEF Taken
  <2> QED
    BY <2>1, <2>2 DEF Order, Alone, Snapshots, BatchIsHead, StoredIsSentThenQueued,
                      uploadVars
<1>10. CASE Pop
  <2> DEFINE m == Len(msgs)
             n == Len(queue)
  <2>1. /\ listener = "popping" /\ listener' = "idle"
        /\ queue' = SubSeq(queue, m + 1, n)
        /\ UNCHANGED <<uploadVars, stored, sent>>
        /\ m <= n /\ Taken = m /\ Taken' = 0
    BY <1>10 DEF Pop, Unlock, Order, Snapshots, BatchIsHead, Taken
  <2>2. \A i \in m + 1 .. n : queue[i] \in Uploads
    BY ElementOfSeq DEF TInv, TypeOK
  <2>3. Len(queue') = n - m /\ \A i \in 1 .. n - m : queue'[i] = queue[m + i]
    BY <2>1, <2>2, SubSeqProperties DEF TInv, TypeOK
  <2>4. Alone' /\ Snapshots' /\ BatchIsHead'
    BY <1>10, <2>1 DEF Pop, ListenerAccess, Alone, Snapshots, BatchIsHead, uploadVars
  <2>5. /\ Len(stored) = Len(sent) + n - m
        /\ \A i \in 1 .. Len(sent) : stored[i] = sent[i]
        /\ \A i \in 1 .. n - m : stored[Len(sent) + i] = queue[m + i]
    BY <2>1 DEF Order, StoredIsSentThenQueued
  <2>6. Len(queue') - Taken' = n - m
    BY <2>1, <2>3
  <2>7. \A i \in 1 .. n - m : queue'[Taken' + i] = queue[m + i]
    BY <2>1, <2>3
  <2>8. StoredIsSentThenQueued'
    BY <2>1, <2>5, <2>6, <2>7 DEF StoredIsSentThenQueued
  <2> QED
    BY <2>4, <2>8 DEF Order
<1>11. CASE UNCHANGED vars
  BY <1>11, OrderOfUnchangedQueue DEF vars, Taken, uploadVars, listenerVars, historyVars
<1> QED
  BY <1>1, <1>2, <1>3, <1>4, <1>5, <1>6, <1>7, <1>8, <1>9, <1>10, <1>11
  DEF Next, Listener

\* What the two invariants below rest on: in a run that is not raced, Order.
LEMMA OInvInvariant == Spec => []OInv
<1>1. Init => OInv
  BY InitTInv, InitOrder DEF OInv
<1>2. ASSUME OInv, [Next]_vars PROVE OInv'
  <2>1. TInv'
    BY <1>2, TypeStep DEF OInv
  <2>2. raced' \/ Order'
    BY <1>2, <2>1, RacedStays, OrderStep DEF OInv
  <2> QED
    BY <2>1, <2>2 DEF OInv
<1> QED
  BY <1>1, <1>2, PTL DEF Spec

\* First come, first served: what was sent is the start of what was appended,
\* in that order, whatever the sizes and however appends fall between the
\* listener's steps, as long as no two accesses to q.Queue overlap.
THEOREM SendsInOrder == Spec => []SentInOrder
<1>1. ASSUME OInv PROVE SentInOrder
  <2> SUFFICES ASSUME ~ raced PROVE IsPrefix(sent, stored)
    BY DEF SentInOrder
  <2> USE <1>1, Lengths DEF OInv
  <2>1. Taken <= Len(queue)
    BY DEF Order, BatchIsHead, Taken
  <2>2. Len(sent) <= Len(stored)
    BY <2>1 DEF Order, StoredIsSentThenQueued
  <2>3. \A i \in 1 .. Len(sent) : sent[i] \in Uploads /\ stored[i] \in Uploads
    BY <2>2, ElementOfSeq DEF TInv, TypeOK
  <2> DEFINE s == SubSeq(sent, 1, Len(sent))
             t == SubSeq(stored, 1, Len(sent))
  <2>4. s \in Seq(Uploads) /\ Len(s) = Len(sent)
        /\ \A i \in 1 .. Len(sent) : s[i] = sent[i]
    BY <2>3, SubSeqProperties DEF TInv, TypeOK
  <2>5. t \in Seq(Uploads) /\ Len(t) = Len(sent)
        /\ \A i \in 1 .. Len(sent) : t[i] = stored[i]
    BY <2>2, <2>3, SubSeqProperties DEF TInv, TypeOK
  <2>6. \A i \in 1 .. Len(s) : s[i] = t[i]
    BY <2>4, <2>5 DEF Order, StoredIsSentThenQueued
  <2> HIDE DEF s, t
  <2>7. s = t
    BY <2>4, <2>5, <2>6, SeqEqual
  <2> QED
    BY <2>2, <2>7 DEF IsPrefix, s, t
<1> QED
  BY <1>1, OInvInvariant, PTL

\* Nothing is lost: between two turns of the listener, what was appended is
\* what was sent followed by what is queued.
THEOREM NothingIsLost == Spec => []QueueHoldsTheRest
<1>1. ASSUME OInv PROVE QueueHoldsTheRest
  <2> SUFFICES ASSUME ~ raced, listener = "idle" PROVE stored = sent \o queue
    BY DEF QueueHoldsTheRest
  <2> USE <1>1, Lengths DEF OInv
  <2> DEFINE t == sent \o queue
  <2>1. /\ t \in Seq(Uploads) /\ Len(t) = Len(sent) + Len(queue)
        /\ \A i \in 1 .. Len(sent) : t[i] = sent[i]
        /\ \A i \in 1 .. Len(queue) : t[Len(sent) + i] = queue[i]
    BY ConcatProperties DEF TInv, TypeOK
  <2> HIDE DEF t
  <2>2. Taken = 0
    BY DEF Taken
  <2>3. Len(stored) = Len(t)
    BY <2>1, <2>2 DEF Order, StoredIsSentThenQueued
  <2>4. ASSUME NEW i \in 1 .. Len(stored) PROVE stored[i] = t[i]
    <3>1. CASE i \in 1 .. Len(sent)
      BY <3>1, <2>1 DEF Order, StoredIsSentThenQueued
    <3>2. CASE i \in Len(sent) + 1 .. Len(sent) + Len(queue)
      <4> DEFINE j == i - Len(sent)
      <4>1. j \in 1 .. Len(queue) /\ i = Len(sent) + j
        BY <3>2
      <4> HIDE DEF j
      <4> QED
        BY <4>1, <2>1, <2>2 DEF Order, StoredIsSentThenQueued
    <3> QED
      BY <3>1, <3>2, <2>1, <2>3
  <2>5. stored = t
    BY <2>1, <2>3, <2>4, SeqEqual DEF TInv, TypeOK
  <2> QED
    BY <2>5 DEF t
<1> QED
  BY <1>1, OInvInvariant, PTL

-----------------------------------------------------------------------------
(***************************************************************************)
(* Answers.  In a run that is not raced no upload is appended twice; the    *)
(* batch under way is the tail of what was sent, and of it the first next-1 *)
(* were answered; the counter of a WaitGroup is 0 exactly for the uploads   *)
(* that were answered, and those hold the outcome of their transaction.     *)
(***************************************************************************)
AppendedOnce ==
    /\ \A i, j \in 1 .. Len(stored) : stored[i] = stored[j] => i = j
    /\ \A i \in 1 .. Len(stored) : pc[stored[i]] \in {"waiting", "returned"}

\* How many of the uploads that were sent still wait for their answer.
Unanswered ==
    IF listener = "sent" THEN Len(msgs)
    ELSE IF listener = "answering" THEN Len(msgs) + 1 - next ELSE 0

BatchWasSent ==
    listener \in {"sent", "answering"} =>
        /\ Len(msgs) <= Len(sent)
        /\ \A i \in 1 .. Len(msgs) : /\ sent[Len(sent) - Len(msgs) + i] = msgs[i]
                                     /\ fate[msgs[i]] = result

AnsweredOnce ==
    \A u \in Uploads :
        \/ wg[u] = 1 /\ \A i \in 1 .. Len(sent) - Unanswered : sent[i] # u
        \/ wg[u] = 0 /\ \E i \in 1 .. Len(sent) - Unanswered : sent[i] = u

AnsweredRight ==
    \A u \in Uploads :
        /\ wg[u] = 1 => fields[u] = {} /\ pc[u] # "returned"
        /\ wg[u] = 0 => fate[u] \in Outcomes /\ fields[u] = FieldOf(fate[u])

Answers == AppendedOnce /\ BatchWasSent /\ AnsweredOnce /\ AnsweredRight

AInv == OInv /\ (raced \/ (Answers /\ NoPanic))

LEMMA SentIsStored ==
    ASSUME TInv, Order
    PROVE  /\ Len(sent) <= Len(stored)
           /\ \A i \in 1 .. Len(sent) : sent[i] = stored[i] /\ sent[i] \in Uploads
           /\ \A i \in 1 .. Len(stored) : stored[i] \in Uploads
<1> USE Lengths
<1>1. Len(sent) <= Len(stored)
  BY DEF Order, BatchIsHead, StoredIsSentThenQueued, Taken
<1>2. \A i \in 1 .. Len(stored) : stored[i] \in Uploads
  BY ElementOfSeq DEF TInv, TypeOK
<1> QED
  BY <1>1, <1>2 DEF Order, StoredIsSentThenQueued

\* An upload that was sent before the batch under way was is not in it.
LEMMA SentOnce ==
    ASSUME TInv, Order, AppendedOnce, NEW i \in 1 .. Len(sent), NEW j \in 1 .. Len(sent),
           sent[i] = sent[j]
    PROVE  i = j
  BY Lengths, SentIsStored DEF AppendedOnce

\* A goroutine that moves on from anywhere but "new" was or is past its append.
LEMMA AppendedOnceKept ==
    ASSUME TInv, Order, AppendedOnce, stored' = stored, NEW u \in Uploads, NEW p,
           pc' = [pc EXCEPT ![u] = p], pc[u] = "new" \/ p \in {"waiting", "returned"}
    PROVE  AppendedOnce'
<1>1. ASSUME NEW i \in 1 .. Len(stored) PROVE pc'[stored[i]] \in {"waiting", "returned"}
  <2>1. stored[i] \in Uploads /\ pc[stored[i]] \in {"waiting", "returned"}
    BY SentIsStored DEF AppendedOnce
  <2> QED
    BY <2>1 DEF TInv, TypeOK
<1> QED
  BY <1>1 DEF AppendedOnce

LEMMA InitAnswers == Init => Answers
<1> SUFFICES ASSUME Init PROVE Answers
  OBVIOUS
<1>1. Len(<<>>) = 0
  BY EmptySeq
<1> QED
  BY <1>1 DEF Init, Answers, AppendedOnce, Unanswered, BatchWasSent, AnsweredOnce,
              AnsweredRight

LEMMA AnswersStep ==
    ASSUME TInv, TInv', Order, Answers, NoPanic \/ raced, [Next]_vars, ~ raced'
    PROVE  Answers' /\ NoPanic'
<1> USE Lengths
<1>0. ~ raced
  BY RacedStays
<1>1. ASSUME NEW u \in Uploads, Load(u) PROVE Answers' /\ NoPanic'
  <2>1. AppendedOnce'
    BY <1>1, AppendedOnceKept DEF Load, Answers
  <2>2. BatchWasSent' /\ AnsweredOnce' /\ NoPanic'
    BY <1>0, <1>1 DEF Load, Answers, BatchWasSent, AnsweredOnce, Unanswered, NoPanic,
                      listenerVars, answerVars
  <2>3. AnsweredRight'
    BY <1>1 DEF Load, Answers, AnsweredRight, answerVars, TInv, TypeOK
  <2> QED
    BY <2>1, <2>2, <2>3 DEF Answers
<1>2. ASSUME NEW u \in Uploads, Store(u) PROVE Answers' /\ NoPanic'
  <2>1. /\ Len(stored') = Len(stored) + 1
        /\ \A i \in 1 .. Len(stored) : stored'[i] = stored[i]
        /\ stored'[Len(stored) + 1] = u
    BY <1>2, AppendProperties DEF Store, TInv, TypeOK
  <2>2. pc[u] = "appending" /\ pc' = [pc EXCEPT ![u] = "waiting"]
    BY <1>2 DEF Store
  <2>3. AppendedOnce'
    <3>1. \A i \in 1 .. Len(stored) : stored[i] # u /\ stored[i] \in Uploads
      BY <2>2, SentIsStored DEF Answers, AppendedOnce
    <3>2. \A i \in 1 .. Len(stored') : i \in 1 .. Len(stored) \/ i = Len(stored) + 1
      BY <2>1
    <3>3. ASSUME NEW i \in 1 .. Len(stored'), NEW j \in 1 .. Len(stored'),
                 stored'[i] = stored'[j]
          PROVE  i = j
      <4>1. CASE i \in 1 .. Len(stored) /\ j \in 1 .. Len(stored)
        <5>1. stored[i] = stored[j]
          BY <2>1, <3>3, <4>1
        <5> QED
          BY <4>1, <5>1 DEF Answers, AppendedOnce
      <4>2. CASE i = Len(stored) + 1 \/ j = Len(stored) + 1
        BY <2>1, <3>1, <3>2, <3>3, <4>2
      <4> QED
        BY <3>2, <4>1, <4>2
    <3>4. ASSUME NEW i \in 1 .. Len(stored') PROVE pc'[stored'[i]] \in {"waiting", "returned"}
      <4>1. CASE i \in 1 .. Len(stored)
        <5>1. pc'[stored[i]] = pc[stored[i]]
          BY <2>2, <3>1, <4>1 DEF TInv, TypeOK
        <5> QED
          BY <2>1, <4>1, <5>1 DEF Answers, AppendedOnce
      <4>2. CASE i = Len(stored) + 1
        BY <2>1, <2>2, <4>2 DEF TInv, TypeOK
      <4> QED
        BY <3>2, <4>1, <4>2
    <3> QED
      BY <3>3, <3>4 DEF AppendedOnce
  <2>4. BatchWasSent' /\ AnsweredOnce' /\ NoPanic'
    BY <1>0, <1>2 DEF Store, Answers, BatchWasSent, AnsweredOnce, Unanswered, NoPanic,
                      listenerVars, answerVars
  <2>5. AnsweredRight'
    BY <1>2 DEF Store, Answers, AnsweredRight, answerVars, TInv, TypeOK
  <2> QED
    BY <2>3, <2>4, <2>5 DEF Answers
<1>3. ASSUME NEW u \in Uploads, WaitReturns(u) PROVE Answers' /\ NoPanic'
  <2>1. /\ wg[u] = 0 /\ pc' = [pc EXCEPT ![u] = "returned"]
        /\ panicked' = (u \in Provers /\ fields[u] = {})
        /\ UNCHANGED <<listenerVars, wg, fields, historyVars>>
    BY <1>3 DEF WaitReturns
  <2>2. NoPanic'
    BY <2>1 DEF NoPanic, Answers, AnsweredRight, FieldOf, historyVars
  <2>3. AppendedOnce' /\ AnsweredRight'
    <3>1. AppendedOnce'
      BY <2>1, AppendedOnceKept DEF Answers, historyVars
    <3>2. AnsweredRight'
      <4>1. \A v \in Uploads : wg[v] = 1 => v # u /\ pc'[v] = pc[v]
        BY <2>1 DEF TInv, TypeOK
      <4> QED
        BY <2>1, <4>1 DEF Answers, AnsweredRight, historyVars
    <3> QED
      BY <3>1, <3>2
  <2>4. BatchWasSent' /\ AnsweredOnce'
    BY <2>1 DEF Answers, BatchWasSent, AnsweredOnce, Unanswered, historyVars, listenerVars
  <2> QED
    BY <2>2, <2>3, <2>4 DEF Answers
<1>4. CASE Lock
  BY <1>0, <1>4 DEF Lock, uploadVars, answerVars, Answers, AppendedOnce, BatchWasSent,
     AnsweredOnce, AnsweredRight, Unanswered, NoPanic
<1>5. CASE PrepareMessage
  BY <1>0, <1>5 DEF PrepareMessage, uploadVars, answerVars, Answers, AppendedOnce,
     BatchWasSent, AnsweredOnce, AnsweredRight, Unanswered, NoPanic
<1>6. CASE SendTx
  <2>1. PICK outcome \in Outcomes :
           /\ result' = outcome
           /\ fate' = [u \in Uploads |-> IF u \in ToSet(msgs) THEN outcome ELSE fate[u]]
    BY <1>6 DEF SendTx
  <2>2. /\ listener = "prepared" /\ listener' = "sent" /\ sent' = sent \o msgs
        /\ UNCHANGED <<uploadVars, msgs, next, answerVars, stored>>
    BY <1>6 DEF SendTx
  <2>3. /\ Len(sent') = Len(sent) + Len(msgs)
        /\ \A i \in 1 .. Len(sent) : sent'[i] = sent[i]
        /\ \A i \in 1 .. Len(msgs) : sent'[Len(sent) + i] = msgs[i]
    BY <2>2, ConcatProperties DEF TInv, TypeOK
  <2>4. ToSet(msgs) = {msgs[i] : i \in 1 .. Len(msgs)}
    BY LenProperties DEF ToSet, TInv, TypeOK
  <2>5. \A i \in 1 .. Len(msgs) : msgs[i] \in Uploads
    BY ElementOfSeq DEF TInv, TypeOK
  <2>6. ASSUME NEW u \in Uploads, wg[u] = 0 PROVE u \notin ToSet(msgs)
    <3>1. PICK j \in 1 .. Len(sent) : sent[j] = u
      BY <2>2, <2>6 DEF Answers, AnsweredOnce, Unanswered
    <3>2. stored[j] = u /\ j \in 1 .. Len(stored)
      BY <3>1, SentIsStored
    <3>3. ASSUME NEW i \in 1 .. Len(msgs) PROVE msgs[i] # u
      <4>1. Taken = 0 /\ msgs[i] = queue[i] /\ i \in 1 .. Len(queue)
        BY <2>2 DEF Taken, Order, BatchIsHead
      <4>2. stored[Len(sent) + i] = queue[i] /\ Len(sent) + i \in 1 .. Len(stored)
        BY <4>1 DEF Order, StoredIsSentThenQueued
      <4> QED
        BY <3>1, <3>2, <4>1, <4>2 DEF Answers, AppendedOnce
    <3> QED
      BY <2>4, <3>3
  <2>7. AppendedOnce' /\ NoPanic'
    <3>1. AppendedOnce'
      BY <2>2 DEF Answers, AppendedOnce, uploadVars
    <3>2. panicked' = FALSE
      <4>1. ~ panicked
        BY <2>2 DEF Next, vars, listenerVars
      <4> QED
        BY <4>1, <2>2 DEF answerVars, TInv, TypeOK
    <3> QED
      BY <3>1, <3>2 DEF NoPanic
  <2>8. BatchWasSent'
    BY <2>1, <2>2, <2>3, <2>4, <2>5 DEF BatchWasSent
  <2>9. AnsweredOnce'
    <3>1. Len(sent) - Unanswered = Len(sent) /\ Len(sent') - Unanswered' = Len(sent)
      BY <2>2, <2>3 DEF Unanswered
    <3>2. wg' = wg /\ \A i \in 1 .. Len(sent) : sent'[i] = sent[i]
      BY <2>2, <2>3 DEF answerVars
    <3>3. \A u \in Uploads : \/ wg[u] = 1 /\ \A i \in 1 .. Len(sent) : sent[i] # u
                             \/ wg[u] = 0 /\ \E i \in 1 .. Len(sent) : sent[i] = u
      BY <3>1 DEF Answers, AnsweredOnce
    <3>4. \A u \in Uploads : \/ wg'[u] = 1 /\ \A i \in 1 .. Len(sent) : sent'[i] # u
                             \/ wg'[u] = 0 /\ \E i \in 1 .. Len(sent) : sent'[i] = u
      BY <3>2, <3>3
    <3> QED
      BY <3>1, <3>4 DEF AnsweredOnce
  <2>10. AnsweredRight'
    BY <2>1, <2>2, <2>6 DEF Answers, AnsweredRight, answerVars, uploadVars
  <2> QED
    BY <2>7, <2>8, <2>9, <2>10 DEF Answers
<1>7. CASE UpdateQueue
  <2>1. next' = 1
    BY <1>7, EmptySeq DEF UpdateQueue, Order, BatchIsHead
  <2> QED
    <3>1. /\ listener = "sent" /\ listener' = "answering"
          /\ UNCHANGED <<queue, uploadVars, msgs, result, answerVars, stored, sent, fate>>
      BY <1>7 DEF UpdateQueue
    <3>2. AppendedOnce' /\ BatchWasSent' /\ NoPanic'
      BY <1>0, <3>1 DEF uploadVars, answerVars, Answers, AppendedOnce, BatchWasSent, NoPanic
    <3>3. Unanswered' = Unanswered
      BY <2>1, <3>1 DEF Unanswered
    <3>4. AnsweredOnce' /\ AnsweredRight'
      BY <3>1, <3>3 DEF uploadVars, answerVars, Answers, AnsweredOnce, AnsweredRight
    <3> QED
      BY <3>2, <3>4 DEF Answers
<1>8. CASE Answer
  <2> DEFINE u == queue[next]
             a == Len(sent) - Len(msgs) + next
  <2>1. /\ listener = "answering" /\ next <= Len(msgs) /\ next' = next + 1
        /\ UNCHANGED <<queue, uploadVars, listener, msgs, result, popSeen, stored, sent, fate>>
    BY <1>8 DEF Answer
  <2>2. next \in 1 .. Len(msgs) /\ next <= Len(queue) /\ u = msgs[next] /\ u \in Uploads
    <3>1. /\ next \in 1 .. Len(msgs) /\ Len(msgs) <= Len(queue)
          /\ \A i \in 1 .. Len(msgs) : msgs[i] = queue[i]
      BY <2>1 DEF Order, BatchIsHead
    <3>2. next \in 1 .. Len(queue)
      BY <3>1
    <3>3. u \in Uploads
      BY <3>2, ElementOfSeq DEF TInv, TypeOK
    <3> QED
      BY <3>1, <3>2, <3>3
  <2>3. a \in 1 .. Len(sent) /\ sent[a] = u /\ fate[u] = result
    <3>1. /\ Len(msgs) <= Len(sent)
          /\ sent[Len(sent) - Len(msgs) + next] = msgs[next] /\ fate[msgs[next]] = result
      BY <2>1, <2>2 DEF Answers, BatchWasSent
    <3>2. Len(sent) - Len(msgs) + next \in 1 .. Len(sent)
      BY <2>2, <3>1
    <3> HIDE DEF u
    <3> QED
      BY <2>2, <3>1, <3>2
  <2>4. Len(sent) - Unanswered = a - 1 /\ (Len(sent) - Unanswered)' = a
    BY <2>1, <2>2 DEF Unanswered
  <2>5. \A i \in 1 .. a - 1 : sent[i] # u
    <3>1. \A i \in 1 .. a - 1 : i \in 1 .. Len(sent) /\ i # a
      <4> HIDE DEF a
      <4> QED
        BY <2>3
    <3> QED
      BY <2>3, <3>1, SentOnce DEF Answers
  <2>6. wg[u] = 1
    BY <2>2, <2>4, <2>5 DEF Answers, AnsweredOnce
  <2>7. /\ fields' = [fields EXCEPT ![u] = @ \cup FieldOf(result)]
        /\ wg' = [wg EXCEPT ![u] = @ - 1]
        /\ panicked' = (wg[u] <= 0)
    BY <1>8, <2>2 DEF Answer
  <2> HIDE DEF u, a
  <2>8. AppendedOnce' /\ BatchWasSent' /\ NoPanic'
    <3>1. AppendedOnce' /\ BatchWasSent'
      BY <2>1 DEF Answers, AppendedOnce, BatchWasSent, uploadVars
    <3>2. ~ (wg[u] <= 0)
      BY <2>6
    <3>3. ~ panicked'
      BY <2>7, <3>2
    <3> QED
      BY <3>1, <3>3 DEF NoPanic
  <2>9. wg'[u] = 0 /\ \A v \in Uploads \ {u} : wg'[v] = wg[v] /\ fields'[v] = fields[v]
    <3>1. wg'[u] = wg[u] - 1
      BY <2>2, <2>7 DEF TInv, TypeOK
    <3>2. \A v \in Uploads \ {u} : wg'[v] = wg[v] /\ fields'[v] = fields[v]
      BY <2>7 DEF TInv, TypeOK
    <3> QED
      BY <2>6, <3>1, <3>2
  <2>10. AnsweredOnce'
    <3>1. \E i \in 1 .. a : sent'[i] = u
      BY <2>1, <2>3
    <3>2. ASSUME NEW v \in Uploads \ {u}
          PROVE  \/ wg'[v] = 1 /\ \A i \in 1 .. a : sent'[i] # v
                 \/ wg'[v] = 0 /\ \E i \in 1 .. a : sent'[i] = v
      <4>1. 1 .. a = (1 .. a - 1) \cup {a}
        BY <2>3
      <4>2. \/ wg[v] = 1 /\ \A i \in 1 .. a - 1 : sent[i] # v
            \/ wg[v] = 0 /\ \E i \in 1 .. a - 1 : sent[i] = v
        BY <2>4 DEF Answers, AnsweredOnce
      <4>3. wg'[v] = wg[v] /\ sent' = sent /\ sent[a] # v
        BY <2>1, <2>3, <2>9
      <4> QED
        BY <4>1, <4>2, <4>3
    <3> QED
      BY <2>4, <2>9, <3>1, <3>2 DEF AnsweredOnce
  <2>11. AnsweredRight'
    <3>1. fields'[u] = FieldOf(result)
      <4>1. fields[u] = {}
        BY <2>2, <2>6 DEF Answers, AnsweredRight
      <4>2. fields \in [Uploads -> SUBSET {"Err", "Response"}]
        BY DEF TInv, TypeOK
      <4> QED
        BY <2>2, <2>7, <4>1, <4>2
    <3>2. result \in Outcomes
      BY <2>1 DEF TInv, ListenerFields
    <3> QED
      BY <2>1, <2>3, <2>9, <3>1, <3>2 DEF Answers, AnsweredRight, uploadVars
  <2> QED
    BY <2>8, <2>10, <2>11 DEF Answers
<1>9. CASE LoadToPop
  <2>1. Unanswered = 0 /\ Unanswered' = 0
    BY <1>9 DEF LoadToPop, Unanswered
  <2>2. ~ panicked'
    <3>1. ~ (Len(queue) < Len(msgs))
      BY <1>9 DEF LoadToPop, Order, BatchIsHead
    <3>2. panicked' = (Len(queue) < Len(msgs))
      BY <1>9 DEF LoadToPop
    <3> QED
      BY <3>1, <3>2
  <2> QED
    BY <1>9, <2>1, <2>2 DEF LoadToPop, uploadVars, Answers, AppendedOnce, BatchWasSent,
       AnsweredOnce, AnsweredRight, NoPanic
<1>10. CASE Pop
  <2>1. Unanswered = 0 /\ Unanswered' = 0
    BY <1>10 DEF Pop, Unlock, Unanswered
  <2> QED
    BY <1>0, <1>10, <2>1 DEF Pop, Unlock, uploadVars, answerVars, Answers, AppendedOnce,
       BatchWasSent, AnsweredOnce, AnsweredRight, NoPanic
<1>11. CASE UNCHANGED vars
  BY <1>0, <1>11 DEF vars, uploadVars, listenerVars, answerVars, historyVars, Answers,
     AppendedOnce, BatchWasSent, AnsweredOnce, AnsweredRight, Unanswered, NoPanic
<1> QED
  BY <1>1, <1>2, <1>3, <1>4, <1>5, <1>6, <1>7, <1>8, <1>9, <1>10, <1>11
  DEF Next, Listener

LEMMA AInvInvariant == Spec => []AInv
<1>1. Init => OInv /\ AInv
  BY InitTInv, InitOrder, InitAnswers DEF OInv, AInv, Init, NoPanic
<1>2. ASSUME AInv, OInv, OInv', [Next]_vars PROVE AInv'
  <2>1. CASE raced'
    BY <1>2, <2>1 DEF AInv
  <2>2. CASE ~ raced'
    <3>1. Answers' /\ NoPanic'
      BY <1>2, <2>2, RacedStays, AnswersStep DEF AInv, OInv
    <3> QED
      BY <1>2, <3>1 DEF AInv
  <2> QED
    BY <2>1, <2>2
<1> QED
  BY <1>1, <1>2, OInvInvariant, PTL DEF Spec

\* A caller that wakes up reads the outcome of the transaction that carried
\* its own message, as long as no two accesses to q.Queue overlap.
THEOREM AnswersOwn == Spec => []AnswerIsOwn
<1>1. ASSUME AInv PROVE AnswerIsOwn
  <2> SUFFICES ASSUME ~ raced, NEW u \in Uploads, pc[u] = "returned"
               PROVE  /\ fate[u] # NoResult
                      /\ "Err" \in fields[u] <=> fate[u] \in {"error", "rejected"}
                      /\ "Response" \in fields[u] <=> fate[u] = "accepted"
    BY DEF AnswerIsOwn
  <2>1. wg[u] = 0
    BY <1>1 DEF AInv, Answers, AnsweredOnce, AnsweredRight
  <2>2. fate[u] \in Outcomes /\ fields[u] = FieldOf(fate[u])
    BY <1>1, <2>1 DEF AInv, Answers, AnsweredRight
  <2> QED
    BY <2>2 DEF FieldOf, NoResult
<1> QED
  BY <1>1, AInvInvariant, PTL

\* No WaitGroup goes below zero, no index or slice runs past the end, and no
\* caller follows a Response that is not there unless its transaction was only
\* simulated, as long as no two accesses to q.Queue overlap.
THEOREM NeverPanics == Spec => []NoPanic
<1>1. AInv => NoPanic
  BY DEF AInv, NoPanic
<1> QED
  BY <1>1, AInvInvariant, PTL

=============================================================================
