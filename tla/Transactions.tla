----------------------------- MODULE Transactions -----------------------------
(***************************************************************************)
(* How the provider's transactions reach the chain (utils/tx.go, and its    *)
(* copy for the reporter's key in server/report.go).  SendTx reads the      *)
(* account's sequence from the last block, simulates, signs, broadcasts and *)
(* waits for the transaction to be in a block.  Nothing keeps two senders   *)
(* of one account apart: the running provider sends its own messages one    *)
(* after the other, but a command the operator runs meanwhile is another    *)
(* process with the same account.  The reporter has an account of its own.  *)
(*                                                                          *)
(* Sequences are relative: the one a sender read is current until a         *)
(* transaction of its account is in a block.  The node counts its pending   *)
(* transactions and a sender does not, so while one is pending no other of  *)
(* its account is taken.  A dry run, in which SendTx returns nothing, is    *)
(* left to UploadQueue.                                                     *)
(***************************************************************************)
EXTENDS Integers

CONSTANTS
    Messages,   \* what can be sent
    NoMessage,
    NoTx,
    MaxFaults   \* bound on what comes between, of all kinds together

ASSUME NoMessageAssumption == NoMessage \notin Messages
ASSUME MaxFaultsAssumption == MaxFaults \in Nat

VARIABLES
    phase,      \* how far SendTx is, for each sender
    message,    \* what it sends
    stale,      \* whose transaction made the sequence it read out of date
    answer,     \* what SendTx returned, until its caller has looked at it
    pending,    \* the node: the pending transaction of each account
    calm,       \* from now on nothing fails (for liveness)
    faults      \* bound: what has come between so far

txVars == <<phase, message, stale, answer, pending>>

Senders == {"provider", "operator", "reporter"}
Accounts == {"provider", "reporter"}

Nobody == "nobody"  \* who waits for a transaction that was given up on
NotStale == "fresh"

ASSUME NoTxAssumption == NoTx \notin [by : Senders \cup {Nobody}, message : Messages]

\* Mutant of AccountOf: the key is used as it is.
AccountOfSameKey(s) == "provider"

\* createPrivKey moves the provider's key on by the bytes of "reporting".
AccountOf(s) == IF s = "reporter" THEN "reporter" ELSE "provider"

TxTypeOK ==
    /\ phase \in [Senders -> {"idle", "started", "prepared", "sent"}]
    /\ message \in [Senders -> Messages \cup {NoMessage}]
    /\ stale \in [Senders -> Senders \cup {Nobody, NotStale}]
    /\ answer \in [Senders -> {"none", "error", "rejected", "accepted"}]
    /\ pending \in [Accounts -> {NoTx} \cup
                        [by : Senders \cup {Nobody}, message : Messages]]
    /\ calm \in BOOLEAN
    /\ faults \in 0 .. MaxFaults
    /\ \A s \in Senders : phase[s] = "idle" => message[s] = NoMessage /\ stale[s] = NotStale

TxInit ==
    /\ phase = [s \in Senders |-> "idle"]
    /\ message = [s \in Senders |-> NoMessage]
    /\ stale = [s \in Senders |-> NotStale]
    /\ answer = [s \in Senders |-> "none"]
    /\ pending = [a \in Accounts |-> NoTx]
    /\ calm = FALSE
    /\ faults = 0

-----------------------------------------------------------------------------

\* Something comes between: the chain, the node, the operator or a crash.
Fault ==
    /\ ~ calm
    /\ faults < MaxFaults
    /\ faults' = faults + 1
    /\ UNCHANGED calm

\* SendTx is called with m.
Send(s, m) ==
    /\ phase' = [phase EXCEPT ![s] = "started"]
    /\ message' = [message EXCEPT ![s] = m]
    /\ UNCHANGED <<stale, answer, pending>>

\* It returns.
Return(s, result) ==
    /\ phase' = [phase EXCEPT ![s] = "idle"]
    /\ message' = [message EXCEPT ![s] = NoMessage]
    /\ answer' = [answer EXCEPT ![s] = result]
    /\ stale' = [stale EXCEPT ![s] = NotStale]

\* The node takes a transaction with the sequence after the last one it knows.
Current(s) == stale[s] = NotStale /\ pending[AccountOf(s)] = NoTx

\* prepareFactory: the account exists and its sequence is read, as of the
\* last block.
Prepare(s) ==
    /\ phase[s] = "started"
    /\ \/ /\ phase' = [phase EXCEPT ![s] = "prepared"]
          /\ UNCHANGED <<message, stale, answer>>
       \/ ~ calm /\ Return(s, "error")
    /\ UNCHANGED <<pending, calm, faults>>

\* CalculateGas, with gas set to auto, can fail for every reason the
\* transaction itself would, a message that is bound to fail included, and it
\* may be that it cannot be signed or that the node is not there.
NotBroadcast(s, doomed) ==
    /\ phase[s] = "prepared"
    /\ doomed \/ ~ (calm /\ Current(s))
    /\ Return(s, "error")
    /\ UNCHANGED <<pending, calm, faults>>

\* The transaction is signed and broadcast.  The node takes it ...
Broadcast(s) ==
    /\ phase[s] = "prepared"
    /\ Current(s)
    /\ phase' = [phase EXCEPT ![s] = "sent"]
    /\ pending' = [pending EXCEPT ![AccountOf(s)] = [by |-> s, message |-> message[s]]]
    /\ UNCHANGED <<message, stale, answer, calm, faults>>

\* ... or refuses it for its sequence, with a code that is not 0.
Refuse(s) ==
    /\ phase[s] = "prepared"
    /\ ~ Current(s)
    /\ Return(s, "rejected")
    /\ UNCHANGED <<pending, calm, faults>>

\* A block with the pending transaction of an account: it uses up the
\* sequence whether its message succeeds or not.
Include(a, ok) ==
    LET s == pending[a].by IN
    /\ pending[a] # NoTx
    /\ pending' = [pending EXCEPT ![a] = NoTx]
    /\ stale' = [t \in Senders |->
                    IF AccountOf(t) = a /\ phase[t] = "prepared" THEN s ELSE stale[t]]
    /\ IF s = Nobody
       THEN UNCHANGED <<phase, message, answer>>
       ELSE /\ phase' = [phase EXCEPT ![s] = "idle"]
            /\ message' = [message EXCEPT ![s] = NoMessage]
            /\ answer' = [answer EXCEPT ![s] = IF ok THEN "accepted" ELSE "rejected"]
    /\ UNCHANGED <<calm, faults>>

\* The node forgets it: its pool is full, or it restarts.
Drop(a) ==
    /\ Fault
    /\ pending[a] # NoTx
    /\ pending' = [pending EXCEPT ![a] = NoTx]
    /\ UNCHANGED <<phase, message, stale, answer>>

\* Nobody waits for the transactions of these senders any more.
Abandon(senders) ==
    pending' = [a \in Accounts |->
        IF pending[a] # NoTx /\ pending[a].by \in senders
        THEN [pending[a] EXCEPT !.by = Nobody]
        ELSE pending[a]]

\* The node does not wait for the block any longer, or the connection breaks:
\* SendTx returns an error, and the transaction may be in a block later.
TimeOut(s) ==
    /\ phase[s] = "sent"
    /\ IF pending[AccountOf(s)] = NoTx THEN UNCHANGED <<calm, faults>> ELSE Fault
    /\ Return(s, "error")
    /\ Abandon({s})

\* The process of these senders ends in the middle of what they send.
StopSending(senders) ==
    /\ phase' = [s \in Senders |-> IF s \in senders THEN "idle" ELSE phase[s]]
    /\ message' = [s \in Senders |-> IF s \in senders THEN NoMessage ELSE message[s]]
    /\ stale' = [s \in Senders |-> IF s \in senders THEN NotStale ELSE stale[s]]
    /\ answer' = [s \in Senders |-> IF s \in senders THEN "none" ELSE answer[s]]
    /\ Abandon(senders)

\* Its caller has looked at the answer.
Taken(s) == answer' = [answer EXCEPT ![s] = "none"]

\* A step of SendTx, whose message is bound to fail or not.
SendStep(s, doomed) ==
    Prepare(s) \/ NotBroadcast(s, doomed) \/ Broadcast(s) \/ Refuse(s) \/ TimeOut(s)

\* Whose transaction keeps a sender's from being taken.
Rival(s) == IF stale[s] # NotStale THEN stale[s] ELSE pending[AccountOf(s)].by
=============================================================================
