----------------------------- MODULE RecvCache -----------------------------
(***************************************************************************)
(* RpcBridgeRecvCache: the mailboxes the receiving trainer keeps for       *)
(* messages that arrive before, while or after an operator asks for them.  *)
(*                                                                         *)
(* RpcBridge lets QueryResult take a message in one step.  Here it is what *)
(* the code does: it registers a notification, releases the lock, sleeps,  *)
(* may time out, and looks again; the handlers store messages meanwhile.   *)
(* The network is arbitrary: a message that was sent may be handled at any *)
(* time, in any order and any number of times.                             *)
(***************************************************************************)
EXTENDS Integers

CONSTANTS
  Keys,       \* (slot_key, content_key)
  DataKeys,   \* the entries of kData messages: wait_consumer
  KeyOf,      \* mailbox of message m
  MaxSeq      \* bound: messages the peer sends

ASSUME RecvCacheAssumption ==
  /\ MaxSeq \in Nat
  /\ DataKeys \subseteq Keys
  /\ KeyOf \in [0..MaxSeq -> Keys]

NoMsg == -1
Msgs == 0..(MaxSeq - 1)

VARIABLES
  sent,               \* messages the peer has sent
  next_recv_seq_num,  \* RunStepStats::next_recv_seq_num
  state,              \* RecvCacheEntry::state
  rdata,              \* RecvCacheEntry::rdata, kept when the entry is IDLE
  callback,           \* whether RecvCacheEntry::callback_ is set
  query,              \* progress of the QueryResult call on each entry
  notified,           \* the Notification on that call's stack
  consumed            \* history: messages QueryResult has returned

entryVars == <<state, rdata, callback, notified>>
vars == <<sent, next_recv_seq_num, entryVars, query, consumed>>

TypeOK ==
  /\ sent \in 0..MaxSeq
  /\ next_recv_seq_num \in 0..MaxSeq
  /\ state \in [Keys -> {"IDLE", "WAIT", "ACTIVE"}]
  /\ rdata \in [Keys -> {NoMsg} \cup Msgs]
  /\ callback \in [Keys -> BOOLEAN]
  /\ query \in [Keys -> {"idle", "wait", "timeout"}]
  /\ notified \in [Keys -> BOOLEAN]
  /\ consumed \in SUBSET Msgs

Init ==
  /\ sent = 0
  /\ next_recv_seq_num = 0
  /\ state = [k \in Keys |-> "IDLE"]
  /\ rdata = [k \in Keys |-> NoMsg]
  /\ callback = [k \in Keys |-> FALSE]
  /\ query = [k \in Keys |-> "idle"]
  /\ notified = [k \in Keys |-> FALSE]
  /\ consumed = {}

-----------------------------------------------------------------------------
(* The peer and the handlers                                               *)

PeerSends ==
  /\ sent < MaxSeq
  /\ sent' = sent + 1
  /\ UNCHANGED <<next_recv_seq_num, entryVars, query, consumed>>

\* Mutant: wait_consumer is ignored.
RejectNever(m) == FALSE

\* OnReceived refuses a data message while the entry holds one.
Reject(m) == KeyOf[m] \in DataKeys /\ state[KeyOf[m]] = "ACTIVE"

\* OnReceived stores m and wakes the call that waits for it.
OnReceived(m) ==
  LET k == KeyOf[m] IN
  /\ rdata' = [rdata EXCEPT ![k] = m]
  /\ state' = [state EXCEPT ![k] = "ACTIVE"]
  /\ notified' = [notified EXCEPT ![k] = @ \/ (state[k] = "WAIT" /\ callback[k])]
  /\ UNCHANGED callback

\* TransmitHandler and StreamTransmitHandler: only the next message in order
\* is stored; duplicates, messages from the future and rejected ones are
\* answered and change nothing.
TransmitHandler(m) ==
  /\ m < sent
  /\ m = next_recv_seq_num
  /\ ~Reject(m)
  /\ OnReceived(m)
  /\ next_recv_seq_num' = next_recv_seq_num + 1
  /\ UNCHANGED <<sent, query, consumed>>

-----------------------------------------------------------------------------
(* QueryResult: one call at a time on each entry                           *)

\* Mutant: the entry stays ACTIVE.
QueryResultCachedKept(k) ==
  /\ query[k] = "idle"
  /\ state[k] = "ACTIVE"
  /\ consumed' = consumed \cup {rdata[k]}
  /\ UNCHANGED <<sent, next_recv_seq_num, entryVars, query>>

\* The message is there already.
QueryResultCached(k) ==
  /\ query[k] = "idle"
  /\ state[k] = "ACTIVE"
  /\ consumed' = consumed \cup {rdata[k]}
  /\ state' = [state EXCEPT ![k] = "IDLE"]
  /\ UNCHANGED <<sent, next_recv_seq_num, rdata, callback, notified, query>>

\* It is not: register a notification, release mu_ and wait.
QueryResultWaits(k) ==
  /\ query[k] = "idle"
  /\ state[k] # "ACTIVE"
  /\ state' = [state EXCEPT ![k] = "WAIT"]
  /\ callback' = [callback EXCEPT ![k] = TRUE]
  /\ notified' = [notified EXCEPT ![k] = FALSE]
  /\ query' = [query EXCEPT ![k] = "wait"]
  /\ UNCHANGED <<sent, next_recv_seq_num, rdata, consumed>>

\* WaitForNotificationWithTimeout returns false; mu_ is not held yet.
QueryResultTimesOut(k) ==
  /\ query[k] = "wait"
  /\ ~notified[k]
  /\ query' = [query EXCEPT ![k] = "timeout"]
  /\ UNCHANGED <<sent, next_recv_seq_num, entryVars, consumed>>

\* Mutant: a call that timed out does not look at the entry again.
QueryResultReturnsBlind(k) ==
  /\ query[k] = "timeout" \/ (query[k] = "wait" /\ notified[k])
  /\ consumed' = IF query[k] = "wait" THEN consumed \cup {rdata[k]} ELSE consumed
  /\ state' = [state EXCEPT ![k] = "IDLE"]
  /\ callback' = [callback EXCEPT ![k] = FALSE]
  /\ query' = [query EXCEPT ![k] = "idle"]
  /\ UNCHANGED <<sent, next_recv_seq_num, rdata, notified>>

\* Woken or timed out, the call takes mu_ again: it returns the message if it
\* was notified or finds one, and "Timeout" otherwise.
QueryResultReturns(k) ==
  /\ query[k] = "timeout" \/ (query[k] = "wait" /\ notified[k])
  /\ consumed' = IF query[k] = "wait" \/ state[k] = "ACTIVE"
                 THEN consumed \cup {rdata[k]} ELSE consumed
  /\ state' = [state EXCEPT ![k] = "IDLE"]
  /\ callback' = [callback EXCEPT ![k] = FALSE]
  /\ query' = [query EXCEPT ![k] = "idle"]
  /\ UNCHANGED <<sent, next_recv_seq_num, rdata, notified>>

-----------------------------------------------------------------------------
Query(k) ==
  \/ QueryResultCached(k)
  \/ QueryResultWaits(k)
  \/ QueryResultTimesOut(k)
  \/ QueryResultReturns(k)

Next ==
  \/ PeerSends
  \/ \E m \in Msgs : TransmitHandler(m)
  \/ \E k \in Keys : Query(k)

Spec == Init /\ [][Next]_vars

\* The training loop keeps asking; the sender keeps resending the message the
\* receiver waits for; calls that wait are woken or time out.
Fairness ==
  /\ \A m \in Msgs : SF_vars(TransmitHandler(m))
  /\ \A k \in Keys : WF_vars(Query(k))

FairSpec == Spec /\ Fairness

-----------------------------------------------------------------------------
(* Properties                                                              *)

\* Message m is in its mailbox.
Stored(m) == state[KeyOf[m]] = "ACTIVE" /\ rdata[KeyOf[m]] = m

\* A data message stored in the cache is waiting in its entry or was returned,
\* never both and never neither.  In particular a call whose wait times out at
\* the moment the message arrives does not throw it away when it sets the
\* entry to IDLE (rpc_bridge_agent.cc, QueryResult).
DataReturnedOnce ==
  \A m \in Msgs :
    KeyOf[m] \in DataKeys =>
      /\ m < next_recv_seq_num <=> m \in consumed \/ Stored(m)
      /\ ~(m \in consumed /\ Stored(m))

\* The mailboxes the operators see.
Mailbox == [k \in Keys |-> IF state[k] = "ACTIVE" THEN rdata[k] ELSE NoMsg]

Channel == INSTANCE ReliableChannel
             WITH delivered <- next_recv_seq_num, mailbox <- Mailbox

\* The waiting and the timeouts do not show: every OK of a QueryResult call
\* takes one message out of a full mailbox.
ImplementsChannel == Channel!Spec

\* Every data message is returned by some call, however often calls time out.
EventuallyReturned ==
  \A m \in Msgs : KeyOf[m] \in DataKeys => (m < sent ~> m \in consumed)

\* A call that was notified finds its message, what an ACTIVE entry holds was
\* delivered to that entry, and an entry is only reset by its own call.
Waiting ==
  /\ \A k \in Keys :
       /\ notified[k] /\ query[k] # "idle" => state[k] = "ACTIVE"
       /\ state[k] = "WAIT" => query[k] # "idle" /\ callback[k]
       /\ state[k] = "ACTIVE" =>
            rdata[k] \in Msgs /\ KeyOf[rdata[k]] = k /\ rdata[k] < next_recv_seq_num
  /\ \A m \in consumed : m < next_recv_seq_num
  /\ next_recv_seq_num <= sent

IInv == TypeOK /\ Waiting /\ DataReturnedOnce
=============================================================================
