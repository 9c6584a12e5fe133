------------------------------ MODULE UploadQueue ------------------------------
(***************************************************************************)
(* The queue of messages for the chain (queue/queue.go).  Http handlers,    *)
(* proof goroutines and the reporter append an upload and wait on its       *)
(* WaitGroup; one listener sends the longest prefix that fits in a          *)
(* transaction, writes the result into the uploads it sent, wakes them and  *)
(* slices the prefix off.  There is no lock: appending and popping each     *)
(* load q.Queue, compute, and store it, and Locked only keeps a second      *)
(* listener out.                                                            *)
(*                                                                          *)
(* Accesses that do not overlap a load-store pair of another goroutine see  *)
(* a queue value whole.  Once some do (raced), Go promises nothing; the     *)
(* model then goes on with whole slice values, the mildest outcome, and the *)
(* properties that need the queue intact are about runs that are not raced. *)
(***************************************************************************)
EXTENDS Integers, Sequences, SequencesExt

CONSTANTS
    Uploads,         \* every message handed to the queue, each by its goroutine
    Provers,         \* those of postProof, which takes for granted an answer
    Size,            \* the size of an upload's message
    MaxMessageSize,  \* --max-msg-size
    Outcomes         \* what utils.SendTx can come back with

ASSUME ProversAssumption == Provers \subseteq Uploads
ASSUME SizeAssumption == Size \in [Uploads -> Nat \ {0}]
ASSUME MaxMessageSizeAssumption == MaxMessageSize \in Nat
ASSUME OutcomesAssumption ==
    Outcomes \subseteq {"error", "rejected", "accepted", "simulated"}

VARIABLES
    queue,      \* q.Queue
    pc,         \* where the goroutine of each upload is
    seen,       \* q.Queue as that goroutine loaded it
    wg,         \* the counter of each upload's WaitGroup
    fields,     \* which of Err and Response are set in each upload
    listener,   \* where the listener is; Locked is listener # "idle"
    msgs,       \* the batch: what PrepareMessage returned
    result,     \* what SendTx returned for it
    next,       \* UpdateQueue's i
    popSeen,    \* q.Queue as the listener loaded it to slice it
    panicked,   \* a goroutine panicked, which ends the process
    stored,     \* history: the uploads in the order they were appended
    sent,       \* history: the uploads in the order they were sent
    fate,       \* history: the result of the transaction that carried each
    raced       \* history: an access overlapped another goroutine's store

uploadVars == <<pc, seen>>
listenerVars == <<listener, msgs, result, next, popSeen>>
answerVars == <<wg, fields, panicked>>
historyVars == <<stored, sent, fate, raced>>
vars == <<queue, uploadVars, listenerVars, answerVars, historyVars>>

NoResult == "none"

TypeOK ==
    /\ queue \in Seq(Uploads)
    /\ pc \in [Uploads -> {"new", "appending", "waiting", "returned"}]
    /\ seen \in [Uploads -> Seq(Uploads)]
    /\ wg \in [Uploads -> Int]
    /\ fields \in [Uploads -> SUBSET {"Err", "Response"}]
    /\ listener \in {"idle", "locked", "prepared", "sent", "answering", "popping"}
    /\ msgs \in Seq(Uploads)
    /\ result \in Outcomes \cup {NoResult}
    /\ next \in 1 .. Len(msgs) + 1
    /\ popSeen \in Seq(Uploads)
    /\ panicked \in BOOLEAN
    /\ stored \in Seq(Uploads)
    /\ sent \in Seq(Uploads)
    /\ fate \in [Uploads -> Outcomes \cup {NoResult}]
    /\ raced \in BOOLEAN

Init ==
    /\ queue = <<>>
    /\ pc = [u \in Uploads |-> "new"]
    /\ seen = [u \in Uploads |-> <<>>]
    /\ wg = [u \in Uploads |-> 1]
    /\ fields = [u \in Uploads |-> {}]
    /\ listener = "idle"
    /\ msgs = <<>>
    /\ result = NoResult
    /\ next = 1
    /\ popSeen = <<>>
    /\ panicked = FALSE
    /\ stored = <<>>
    /\ sent = <<>>
    /\ fate = [u \in Uploads |-> NoResult]
    /\ raced = FALSE

-----------------------------------------------------------------------------

\* An access while another goroutine is between the load and the store of
\* q.Queue; the listener is the accessor unless an upload is named.
ListenerAccess == raced' = (raced \/ \E u \in Uploads : pc[u] = "appending")
AppenderAccess(u) ==
    raced' = (\/ raced
              \/ listener = "popping"
              \/ \E v \in Uploads \ {u} : pc[v] = "appending")

\* Append and MakeContract load the queue.  Append's search for the same
\* message finds nothing: every caller has just allocated its message.
Load(u) ==
    /\ pc[u] = "new"
    /\ pc' = [pc EXCEPT ![u] = "appending"]
    /\ seen' = [seen EXCEPT ![u] = queue]
    /\ AppenderAccess(u)
    /\ UNCHANGED <<queue, listenerVars, answerVars, stored, sent, fate>>

\* They store it with the upload at its end; the caller then waits.
Store(u) ==
    /\ pc[u] = "appending"
    /\ queue' = Append(seen[u], u)
    /\ stored' = Append(stored, u)
    /\ pc' = [pc EXCEPT ![u] = "waiting"]
    /\ seen' = [seen EXCEPT ![u] = <<>>]
    /\ AppenderAccess(u)
    /\ UNCHANGED <<listenerVars, answerVars, sent, fate>>

\* wg.Wait returns and the caller reads Err and Response; postProof follows
\* the pointer in Response whenever Err is not set.
WaitReturns(u) ==
    /\ pc[u] = "waiting"
    /\ wg[u] = 0
    /\ pc' = [pc EXCEPT ![u] = "returned"]
    /\ panicked' = (u \in Provers /\ fields[u] = {})
    /\ UNCHANGED <<queue, seen, listenerVars, wg, fields, historyVars>>

-----------------------------------------------------------------------------

\* listenOnce takes the lock and goes on if the queue is not empty; if it is,
\* it releases the lock again, which changes nothing.
Lock ==
    /\ listener = "idle"
    /\ queue # <<>>
    /\ listener' = "locked"
    /\ ListenerAccess
    /\ UNCHANGED <<queue, uploadVars, msgs, result, next, popSeen, answerVars,
                   stored, sent, fate>>

\* The sizes of the first k messages together.
PrefixSize(k) ==
    LET size[i \in 0 .. k] == IF i = 0 THEN 0 ELSE size[i - 1] + Size[queue[i]]
    IN  size[k]

\* How many messages fit: the longest prefix within the limit.
IsBatch(k) ==
    /\ PrefixSize(k) <= MaxMessageSize
    /\ k < Len(queue) => PrefixSize(k + 1) > MaxMessageSize

PrepareMessage ==
    /\ listener = "locked"
    /\ \E k \in 0 .. Len(queue) :
          /\ IsBatch(k)
          /\ msgs' = SubSeq(queue, 1, k)
    /\ listener' = "prepared"
    /\ ListenerAccess
    /\ UNCHANGED <<queue, uploadVars, result, next, popSeen, answerVars,
                   stored, sent, fate>>

\* The transaction, which may take seconds, is broadcast and comes back.
SendTx ==
    /\ listener = "prepared"
    /\ \E outcome \in Outcomes :
          /\ result' = outcome
          /\ fate' = [u \in Uploads |->
                        IF u \in ToSet(msgs) THEN outcome ELSE fate[u]]
    /\ sent' = sent \o msgs
    /\ listener' = "sent"
    /\ UNCHANGED <<queue, uploadVars, msgs, next, popSeen, answerVars, stored, raced>>

\* UpdateQueue returns at once when the queue is too short for the batch.
UpdateQueue ==
    /\ listener = "sent"
    /\ listener' = "answering"
    /\ next' = IF queue = <<>> \/ Len(queue) < Len(msgs) THEN Len(msgs) + 1 ELSE 1
    /\ ListenerAccess
    /\ UNCHANGED <<queue, uploadVars, msgs, result, popSeen, answerVars,
                   stored, sent, fate>>

\* The field a result is written to: both ways a transaction can fail go to
\* Err, and a simulated one sets neither.
FieldOf(outcome) ==
    CASE outcome \in {"error", "rejected"} -> {"Err"}
      [] outcome = "accepted"              -> {"Response"}
      [] outcome = "simulated"             -> {}

\* Mutant of Answer: the loop runs over the whole queue, not over the batch.
AnswerAll ==
    /\ listener = "answering"
    /\ next <= Len(queue)
    /\ LET u == queue[next] IN
          /\ fields' = [fields EXCEPT ![u] = @ \cup FieldOf(result)]
          /\ wg' = [wg EXCEPT ![u] = @ - 1]
          /\ panicked' = (wg[u] <= 0)
    /\ next' = next + 1
    /\ ListenerAccess
    /\ UNCHANGED <<queue, uploadVars, listener, msgs, result, popSeen,
                   stored, sent, fate>>

\* One turn of UpdateQueue's loop: it indexes q.Queue afresh, answers that
\* upload and calls Done, which panics below zero.
Answer ==
    /\ listener = "answering"
    /\ next <= Len(msgs)
    /\ ListenerAccess
    /\ IF next > Len(queue)
       THEN /\ panicked' = TRUE
            /\ UNCHANGED <<wg, fields>>
       ELSE LET u == queue[next] IN
            /\ fields' = [fields EXCEPT ![u] = @ \cup FieldOf(result)]
            /\ wg' = [wg EXCEPT ![u] = @ - 1]
            /\ panicked' = (wg[u] <= 0)
    /\ next' = next + 1
    /\ UNCHANGED <<queue, uploadVars, listener, msgs, result, popSeen,
                   stored, sent, fate>>

\* The queue is loaded to slice the batch off; a queue shorter than the batch
\* makes the slice expression panic.
LoadToPop ==
    /\ listener = "answering"
    /\ next > Len(msgs)
    /\ popSeen' = queue
    /\ panicked' = (Len(queue) < Len(msgs))
    /\ listener' = "popping"
    /\ ListenerAccess
    /\ UNCHANGED <<queue, uploadVars, msgs, result, next, wg, fields,
                   stored, sent, fate>>

\* The listener is done: the batch is forgotten and the lock released.
Unlock ==
    /\ listener' = "idle"
    /\ msgs' = <<>>
    /\ result' = NoResult
    /\ next' = 1
    /\ popSeen' = <<>>

\* Mutants of Pop: one upload too few, one too many.
PopTooFew ==
    /\ listener = "popping"
    /\ queue' = SubSeq(popSeen, Len(msgs), Len(popSeen))
    /\ Unlock
    /\ ListenerAccess
    /\ UNCHANGED <<uploadVars, answerVars, stored, sent, fate>>

PopTooMany ==
    /\ listener = "popping"
    /\ queue' = SubSeq(popSeen, Len(msgs) + 2, Len(popSeen))
    /\ Unlock
    /\ ListenerAccess
    /\ UNCHANGED <<uploadVars, answerVars, stored, sent, fate>>

\* The rest is stored back and the lock released.
Pop ==
    /\ listener = "popping"
    /\ queue' = SubSeq(popSeen, Len(msgs) + 1, Len(popSeen))
    /\ Unlock
    /\ ListenerAccess
    /\ UNCHANGED <<uploadVars, answerVars, stored, sent, fate>>

Listener ==
    Lock \/ PrepareMessage \/ SendTx \/ UpdateQueue \/ Answer \/ LoadToPop \/ Pop

Next ==
    /\ ~ panicked
    /\ \/ \E u \in Uploads : Load(u) \/ Store(u) \/ WaitReturns(u)
       \/ Listener

Spec == Init /\ [][Next]_vars

\* The listener loops for ever (StartListener), SendTx comes back (the node
\* answers or the connection breaks), the Go scheduler runs every goroutine that
\* is ready.  Nobody has to append anything.
Fairness ==
    /\ WF_vars(~ panicked /\ Listener)
    /\ \A u \in Uploads : WF_vars(~ panicked /\ (Store(u) \/ WaitReturns(u)))

FairSpec == Spec /\ Fairness

-----------------------------------------------------------------------------

\* "In FCFS order" (PrepareMessage): the uploads are sent in the order they
\* were appended, none skipped and none sent again, while appends fall between
\* any two steps of the listener.
SentInOrder == raced \/ IsPrefix(sent, stored)

\* Whatever was appended and not popped is still queued: the pop takes off
\* the batch that was sent and nothing that arrived meanwhile.
QueueHoldsTheRest ==
    raced \/ listener # "idle" \/ stored = sent \o queue

\* A caller that wakes up reads the outcome of the transaction that carried
\* its own message: an answer by position in a queue that kept growing still
\* reaches the right upload, and a caller never wakes before it was sent.
AnswerIsOwn ==
    raced \/ \A u \in Uploads :
                pc[u] = "returned" =>
                    /\ fate[u] # NoResult
                    /\ "Err" \in fields[u] <=> fate[u] \in {"error", "rejected"}
                    /\ "Response" \in fields[u] <=> fate[u] = "accepted"

\* No goroutine panics: no WaitGroup below zero, no index or slice past the
\* end, no Response followed that is not there.  The last does happen to
\* postProof when the transaction was only simulated (--dry-run).
NoPanic == raced \/ ~ panicked \/ \E u \in Provers : fate[u] = "simulated"

\* Every appended upload is answered, behind whatever else keeps coming,
\* unless a message above the size limit reaches the head and stays there.
HeadTooLarge == queue # <<>> /\ Size[queue[1]] > MaxMessageSize
EveryUploadAnswered ==
    \A u \in Uploads :
        pc[u] = "appending" ~> (pc[u] = "returned" \/ raced \/ HeadTooLarge)

=============================================================================
