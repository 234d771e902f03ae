-------------------------- MODULE RecvCacheProofs --------------------------
(***************************************************************************)
(* The mailboxes of RecvCache never lose or repeat a data message and      *)
(* implement the reliable channel, for any keys and any number of messages.*)
(***************************************************************************)
EXTENDS RecvCache, TLAPS

USE RecvCacheAssumption DEF NoMsg, Msgs

\* Storing the next message keeps the entries consistent.
LEMMA HandlerStep ==
  ASSUME IInv, NEW m \in Msgs, TransmitHandler(m)
  PROVE  IInv'
<1> USE DEF IInv
<1> DEFINE k == KeyOf[m]
<1>1. /\ m = next_recv_seq_num /\ m < sent /\ k \in Keys
      /\ next_recv_seq_num' = m + 1
      /\ rdata' = [rdata EXCEPT ![k] = m]
      /\ state' = [state EXCEPT ![k] = "ACTIVE"]
      /\ notified' = [notified EXCEPT ![k] = @ \/ (state[k] = "WAIT" /\ callback[k])]
      /\ k \in DataKeys => state[k] # "ACTIVE"
      /\ UNCHANGED <<sent, callback, query, consumed>>
  BY DEF TransmitHandler, OnReceived, Reject, TypeOK
<1> HIDE DEF k
<1>2. TypeOK'
  <2>1. rdata' \in [Keys -> {NoMsg} \cup Msgs] /\ state' \in [Keys -> {"IDLE", "WAIT", "ACTIVE"}]
    BY <1>1 DEF TypeOK
  <2>2. notified' \in [Keys -> BOOLEAN]
    BY <1>1, Zenon DEF TypeOK
  <2>3. next_recv_seq_num' \in 0..MaxSeq
    BY <1>1 DEF TypeOK
  <2> QED
    BY <1>1, <2>1, <2>2, <2>3 DEF TypeOK
<1>3. \A j \in Keys : /\ state'[j] = IF j = k THEN "ACTIVE" ELSE state[j]
                      /\ rdata'[j] = IF j = k THEN m ELSE rdata[j]
                      /\ j # k => notified'[j] = notified[j]
  BY <1>1 DEF TypeOK
<1>4. Waiting'
  <2>1. ASSUME NEW j \in Keys
        PROVE  /\ notified'[j] /\ query'[j] # "idle" => state'[j] = "ACTIVE"
               /\ state'[j] = "WAIT" => query'[j] # "idle" /\ callback'[j]
               /\ state'[j] = "ACTIVE" =>
                    /\ rdata'[j] \in Msgs
                    /\ KeyOf[rdata'[j]] = j
                    /\ rdata'[j] < next_recv_seq_num'
    BY <1>1, <1>3 DEF Waiting, TypeOK, k
  <2> QED
    BY <1>1, <2>1 DEF Waiting, TypeOK
<1>5. DataReturnedOnce'
  <2> SUFFICES ASSUME NEW n \in Msgs, KeyOf[n] \in DataKeys
               PROVE  /\ n < next_recv_seq_num' <=> n \in consumed' \/ Stored(n)'
                      /\ ~(n \in consumed' /\ Stored(n)')
    BY DEF DataReturnedOnce
  <2>1. KeyOf[n] \in Keys
    OBVIOUS
  <2>2. CASE n = m
    BY <1>1, <1>3, <2>1, <2>2 DEF Waiting, Stored, TypeOK, k
  <2>3. CASE n # m
    <3>1. Stored(n)' <=> Stored(n)
      <4>1. CASE KeyOf[n] = k
        BY <1>1, <1>3, <2>3, <4>1 DEF Stored
      <4>2. CASE KeyOf[n] # k
        BY <1>3, <2>1, <4>2 DEF Stored
      <4> QED
        BY <4>1, <4>2
    <3>2. n < next_recv_seq_num' <=> n < next_recv_seq_num
      BY <1>1, <2>3 DEF TypeOK
    <3> QED
      BY <1>1, <3>1, <3>2 DEF DataReturnedOnce
  <2> QED
    BY <2>2, <2>3
<1> QED
  BY <1>2, <1>4, <1>5

\* Taking a message out of its entry, or leaving an empty entry, keeps them
\* consistent.
LEMMA ReturnStep ==
  ASSUME IInv, NEW k \in Keys, QueryResultCached(k) \/ QueryResultReturns(k)
  PROVE  IInv'
<1> USE DEF IInv
<1>1. /\ state' = [state EXCEPT ![k] = "IDLE"]
      /\ UNCHANGED <<sent, next_recv_seq_num, rdata, notified>>
      /\ consumed' = IF state[k] = "ACTIVE" THEN consumed \cup {rdata[k]} ELSE consumed
      /\ query' = [query EXCEPT ![k] = "idle"]
      /\ callback' \in [Keys -> BOOLEAN]
      /\ \A j \in Keys \ {k} : callback'[j] = callback[j]
  <2>1. CASE QueryResultCached(k)
    BY <2>1 DEF QueryResultCached, TypeOK
  <2>2. CASE QueryResultReturns(k)
    BY <2>2 DEF QueryResultReturns, Waiting, TypeOK
  <2> QED
    BY <2>1, <2>2
<1>2. state[k] = "ACTIVE" => rdata[k] \in Msgs /\ rdata[k] < next_recv_seq_num
                             /\ KeyOf[rdata[k]] = k
  BY DEF Waiting
<1>3. \A j \in Keys : /\ state'[j] = IF j = k THEN "IDLE" ELSE state[j]
                      /\ query'[j] = IF j = k THEN "idle" ELSE query[j]
  BY <1>1 DEF TypeOK
<1>4. TypeOK'
  BY <1>1, <1>2 DEF TypeOK
<1>5. Waiting'
  BY <1>1, <1>2, <1>3 DEF Waiting, TypeOK
<1>6. DataReturnedOnce'
  <2> SUFFICES ASSUME NEW n \in Msgs, KeyOf[n] \in DataKeys
               PROVE  /\ n < next_recv_seq_num' <=> n \in consumed' \/ Stored(n)'
                      /\ ~(n \in consumed' /\ Stored(n)')
    BY DEF DataReturnedOnce
  <2>1. /\ n < next_recv_seq_num <=> n \in consumed \/ Stored(n)
        /\ ~(n \in consumed /\ Stored(n))
    BY DEF DataReturnedOnce
  <2>2. KeyOf[n] \in Keys
    OBVIOUS
  <2>3. CASE KeyOf[n] = k
    BY <1>1, <1>2, <1>3, <2>1, <2>2, <2>3 DEF Stored
  <2>4. CASE KeyOf[n] # k
    BY <1>1, <1>2, <1>3, <2>1, <2>2, <2>4 DEF Stored
  <2> QED
    BY <2>3, <2>4
<1> QED
  BY <1>4, <1>5, <1>6

\* Every step keeps the invariant.
LEMMA InvStep ==
  ASSUME IInv, [Next]_vars
  PROVE  IInv'
<1>1. CASE PeerSends
  BY <1>1 DEF PeerSends, entryVars, IInv, TypeOK, Waiting, DataReturnedOnce, Stored
<1>2. ASSUME NEW k \in Keys, QueryResultWaits(k)
      PROVE  IInv'
  <2>1. TypeOK'
    BY <1>2 DEF QueryResultWaits, IInv, TypeOK
  <2>2. Waiting'
    BY <1>2 DEF QueryResultWaits, IInv, TypeOK, Waiting
  <2>3. \A j \in Keys : state'[j] = "ACTIVE" <=> state[j] = "ACTIVE"
    BY <1>2 DEF QueryResultWaits, IInv, TypeOK
  <2>4. DataReturnedOnce'
    BY <1>2, <2>3 DEF QueryResultWaits, IInv, DataReturnedOnce, Stored
  <2> QED
    BY <2>1, <2>2, <2>4 DEF IInv
<1>3. ASSUME NEW k \in Keys, QueryResultTimesOut(k)
      PROVE  IInv'
  BY <1>3 DEF QueryResultTimesOut, entryVars, IInv, TypeOK, Waiting,
              DataReturnedOnce, Stored
<1>4. CASE UNCHANGED vars
  BY <1>4 DEF vars, entryVars, IInv, TypeOK, Waiting, DataReturnedOnce, Stored
<1> QED
  BY <1>1, <1>2, <1>3, <1>4, HandlerStep, ReturnStep DEF Next, Query

-----------------------------------------------------------------------------
\* The entries, the notifications and the history are consistent in every
\* reachable state.
THEOREM Invariance == Spec => []IInv
<1>1. Init => IInv
  BY DEF Init, IInv, TypeOK, Waiting, DataReturnedOnce, Stored
<1>2. IInv /\ [Next]_vars => IInv'
  BY InvStep
<1> QED
  BY <1>1, <1>2, PTL DEF Spec

\* No timeout loses a data message and no call returns one twice.
THEOREM DataOnce == Spec => []DataReturnedOnce
<1>1. IInv => DataReturnedOnce
  BY DEF IInv
<1> QED
  BY <1>1, Invariance, PTL

\* What the operators see of an entry, pointwise.
LEMMA MailboxAt ==
  ASSUME NEW k \in Keys
  PROVE  /\ Mailbox[k] = IF state[k] = "ACTIVE" THEN rdata[k] ELSE NoMsg
         /\ Mailbox'[k] = IF state'[k] = "ACTIVE" THEN rdata'[k] ELSE NoMsg
  BY DEF Mailbox

\* A call that returns takes the message of its entry, if there is one.
LEMMA ReturnEffect ==
  ASSUME IInv, NEW k \in Keys, QueryResultCached(k) \/ QueryResultReturns(k)
  PROVE  /\ \A j \in Keys : state'[j] = IF j = k THEN "IDLE" ELSE state[j]
         /\ sent' = sent /\ next_recv_seq_num' = next_recv_seq_num /\ rdata' = rdata
         /\ state[k] = "ACTIVE" => consumed' = consumed \cup {rdata[k]}
         /\ state[k] # "ACTIVE" => consumed' = consumed
<1>0. TypeOK /\ Waiting
  BY DEF IInv
<1>1. CASE QueryResultCached(k)
  BY <1>0, <1>1 DEF QueryResultCached, TypeOK
<1>2. CASE QueryResultReturns(k)
  <2>1. query[k] = "wait" => state[k] = "ACTIVE"
    BY <1>0, <1>2 DEF QueryResultReturns, Waiting
  <2> QED
    BY <1>0, <1>2, <2>1 DEF QueryResultReturns, TypeOK
<1> QED
  BY <1>1, <1>2

\* The channel step of a handled message.
LEMMA HandlerDelivers ==
  ASSUME IInv, NEW m \in Msgs, TransmitHandler(m)
  PROVE  Channel!Deliver
<1>0. TypeOK
  BY DEF IInv
<1>1. /\ m = next_recv_seq_num /\ m < sent
      /\ rdata' = [rdata EXCEPT ![KeyOf[m]] = m]
      /\ state' = [state EXCEPT ![KeyOf[m]] = "ACTIVE"]
      /\ KeyOf[m] \in DataKeys => state[KeyOf[m]] # "ACTIVE"
      /\ next_recv_seq_num' = next_recv_seq_num + 1
      /\ sent' = sent /\ consumed' = consumed
  BY DEF TransmitHandler, OnReceived, Reject
<1>2. KeyOf[m] \in Keys
  BY RecvCacheAssumption DEF Msgs
<1>3. \A j \in Keys : /\ state'[j] = IF j = KeyOf[m] THEN "ACTIVE" ELSE state[j]
                      /\ rdata'[j] = IF j = KeyOf[m] THEN m ELSE rdata[j]
  BY <1>0, <1>1 DEF TypeOK
<1>4. Mailbox' = [Mailbox EXCEPT ![KeyOf[m]] = m]
  BY <1>2, <1>3 DEF Mailbox
<1>5. KeyOf[m] \in DataKeys => Mailbox[KeyOf[m]] = NoMsg
  BY <1>1, <1>2, MailboxAt
<1> QED
  BY <1>1, <1>4, <1>5 DEF Channel!Deliver, Channel!NoMsg, NoMsg

\* The channel step of a returning call.
LEMMA ReturnConsumes ==
  ASSUME IInv, NEW k \in Keys, QueryResultCached(k) \/ QueryResultReturns(k)
  PROVE  Channel!Next \/ UNCHANGED Channel!vars
<1>1. /\ \A j \in Keys : state'[j] = IF j = k THEN "IDLE" ELSE state[j]
      /\ sent' = sent /\ next_recv_seq_num' = next_recv_seq_num /\ rdata' = rdata
      /\ state[k] = "ACTIVE" => consumed' = consumed \cup {rdata[k]}
      /\ state[k] # "ACTIVE" => consumed' = consumed
  BY ReturnEffect
<1>2. CASE state[k] = "ACTIVE"
  <2>1. Mailbox' = [Mailbox EXCEPT ![k] = NoMsg]
    BY <1>1 DEF Mailbox
  <2>2. Mailbox[k] = rdata[k]
    BY <1>2, MailboxAt
  <2>3. rdata[k] # NoMsg
    BY <1>2 DEF IInv, Waiting, Msgs, NoMsg
  <2>4. Channel!Consume(k)
    BY <1>1, <1>2, <2>1, <2>2, <2>3 DEF Channel!Consume, Channel!NoMsg, NoMsg
  <2> QED
    BY <2>4 DEF Channel!Next
<1>3. CASE state[k] # "ACTIVE"
  <2>1. Mailbox' = Mailbox
    BY <1>1, <1>3 DEF Mailbox
  <2> QED
    BY <1>1, <1>3, <2>1 DEF Channel!vars
<1> QED
  BY <1>2, <1>3

\* The cache with its waits and timeouts implements the reliable channel's
\* mailboxes over any network.
THEOREM Refinement == Spec => ImplementsChannel
<1>1. Init => Channel!Init
  BY DEF Init, Channel!Init, Channel!NoMsg, Mailbox, NoMsg
<1>2. ASSUME IInv, [Next]_vars
      PROVE  Channel!Next \/ UNCHANGED Channel!vars
  <2>1. CASE PeerSends
    <3>1. Mailbox' = Mailbox
      BY <2>1 DEF PeerSends, Mailbox, entryVars
    <3> QED
      BY <2>1, <3>1 DEF PeerSends, Channel!Next, Channel!Send
  <2>2. ASSUME NEW k \in Keys, QueryResultWaits(k)
        PROVE  UNCHANGED Channel!vars
    <3>1. \A j \in Keys : /\ state'[j] = "ACTIVE" <=> state[j] = "ACTIVE"
                          /\ rdata'[j] = rdata[j]
      BY <2>2 DEF QueryResultWaits, IInv, TypeOK
    <3>2. Mailbox' = Mailbox
      BY <3>1 DEF Mailbox
    <3> QED
      BY <2>2, <3>2 DEF QueryResultWaits, Channel!vars
  <2>3. ASSUME NEW k \in Keys, QueryResultTimesOut(k)
        PROVE  UNCHANGED Channel!vars
    <3>1. Mailbox' = Mailbox
      BY <2>3 DEF QueryResultTimesOut, Mailbox, entryVars
    <3> QED
      BY <2>3, <3>1 DEF QueryResultTimesOut, Channel!vars
  <2>4. CASE UNCHANGED vars
    <3>1. Mailbox' = Mailbox
      BY <2>4 DEF vars, Mailbox, entryVars
    <3> QED
      BY <2>4, <3>1 DEF vars, Channel!vars
  <2> QED
    <3>1. ASSUME NEW m \in Msgs, TransmitHandler(m)
          PROVE  Channel!Next
      BY <1>2, <3>1, HandlerDelivers DEF Channel!Next
    <3>2. ASSUME NEW k \in Keys, Query(k)
          PROVE  Channel!Next \/ UNCHANGED Channel!vars
      BY <1>2, <2>2, <2>3, <3>2, ReturnConsumes DEF Query
    <3>3. Next \/ UNCHANGED vars
      BY <1>2
    <3> HIDE DEF Msgs
    <3> QED
      BY <2>1, <2>4, <3>1, <3>2, <3>3 DEF Next
<1> QED
  BY <1>1, <1>2, Invariance, PTL DEF Spec, ImplementsChannel, Channel!Spec
=============================================================================
