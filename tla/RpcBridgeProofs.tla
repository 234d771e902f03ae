-------------------------- MODULE RpcBridgeProofs --------------------------
(***************************************************************************)
(* Proofs about RpcBridge for every number of messages, streams, failures  *)
(* and mailboxes: the type invariant, the inductive invariant IInv, the    *)
(* safety properties it implies and the refinement of ReliableChannel.     *)
(***************************************************************************)
EXTENDS RpcBridge, SequenceTheorems, TLAPS

USE RpcBridgeAssumption DEF Msgs, NoMsg, NoCb, ResultCodes, Delivered

-----------------------------------------------------------------------------
(* What the steps on a call do to its exchanges                            *)

\* The elements of a sequence, its head and its tail (Zenon and SMT need the
\* element set unexpanded).
LEMMA HeadTailType ==
  ASSUME NEW S, NEW s \in Seq(S), s # <<>>
  PROVE  /\ Len(s) \in Nat \ {0}
         /\ Head(s) = s[1]
         /\ Head(s) \in S
         /\ Tail(s) \in Seq(S)
         /\ Len(Tail(s)) = Len(s) - 1
         /\ \A i \in 1..Len(Tail(s)) : Tail(s)[i] = s[i + 1]
  BY HeadTailProperties

\* Every outstanding exchange is a typed record.
LEMMA ExchangeType ==
  ASSUME TypeOK, NEW g \in Streams
  PROVE  /\ exchanges[g] \in Seq(Exchange)
         /\ Len(exchanges[g]) \in Nat
         /\ \A i \in 1..Len(exchanges[g]) :
              /\ exchanges[g][i] \in Exchange
              /\ exchanges[g][i].seq \in Msgs
              /\ exchanges[g][i].code \in ResultCodes \cup {"PENDING"}
<1>1. exchanges[g] \in Seq(Exchange) /\ Len(exchanges[g]) \in Nat
  BY DEF TypeOK
<1>2. \A i \in 1..Len(exchanges[g]) : exchanges[g][i] \in Exchange
  BY <1>1, ElementOfSeq
<1> QED
  BY <1>1, <1>2 DEF Exchange

\* Queueing a request on a call appends one unanswered exchange to that call
\* and leaves the other calls alone.
LEMMA SendEffect ==
  ASSUME TypeOK, NEW m \in Msgs, SendNextRequest(m)
  PROVE  /\ exchanges' \in [Streams -> Seq(Exchange)]
         /\ stream' \in Streams
         /\ dead' \in SUBSET Streams
         /\ \E g \in Streams :
              /\ Len(exchanges'[g]) = Len(exchanges[g]) + 1
              /\ \A i \in 1..Len(exchanges[g]) : exchanges'[g][i] = exchanges[g][i]
              /\ exchanges'[g][Len(exchanges[g]) + 1] = [seq |-> m, code |-> "PENDING"]
              /\ \A h \in Streams \ {g} : exchanges'[h] = exchanges[h]
<1> DEFINE e == [seq |-> m, code |-> "PENDING"]
<1>1. e \in Exchange
  BY DEF Exchange
<1>2. PICK g \in Streams :
        /\ exchanges' = [exchanges EXCEPT ![g] = Append(@, e)]
        /\ stream' = g
        /\ dead' = dead \ {g} \/ dead' = dead
  BY DEF SendNextRequest
<1> HIDE DEF e
<1>3. exchanges[g] \in Seq(Exchange)
  BY DEF TypeOK
<1>4. exchanges'[g] = Append(exchanges[g], e)
  BY <1>2 DEF TypeOK
<1>5. /\ Append(exchanges[g], e) \in Seq(Exchange)
      /\ Len(Append(exchanges[g], e)) = Len(exchanges[g]) + 1
      /\ \A i \in 1..Len(exchanges[g]) : Append(exchanges[g], e)[i] = exchanges[g][i]
      /\ Append(exchanges[g], e)[Len(exchanges[g]) + 1] = e
  BY <1>1, <1>3, AppendProperties
<1>6. \A h \in Streams \ {g} : exchanges'[h] = exchanges[h]
  BY <1>2 DEF TypeOK
<1>7. exchanges' \in [Streams -> Seq(Exchange)]
  BY <1>2, <1>5 DEF TypeOK
<1>8. dead' \in SUBSET Streams
  BY <1>2 DEF TypeOK
<1> QED
  BY <1>2, <1>4, <1>5, <1>6, <1>7, <1>8 DEF e

\* Completing the head exchange of a call removes it and shifts the others.
LEMMA PopEffect ==
  ASSUME TypeOK, NEW g \in Streams, exchanges[g] # <<>>, PopExchange(g)
  PROVE  /\ exchanges' \in [Streams -> Seq(Exchange)]
         /\ Len(exchanges[g]) > 0
         /\ Head(exchanges[g]) = exchanges[g][1]
         /\ exchanges[g][1] \in Exchange
         /\ Len(exchanges'[g]) = Len(exchanges[g]) - 1
         /\ \A i \in 1..Len(exchanges'[g]) : exchanges'[g][i] = exchanges[g][i + 1]
         /\ \A h \in Streams \ {g} : exchanges'[h] = exchanges[h]
<1>1. exchanges[g] \in Seq(Exchange)
  BY DEF TypeOK
<1>2. exchanges'[g] = Tail(exchanges[g]) /\ \A h \in Streams \ {g} : exchanges'[h] = exchanges[h]
  BY DEF PopExchange, TypeOK
<1>3. /\ Head(exchanges[g]) \in Exchange
      /\ Tail(exchanges[g]) \in Seq(Exchange)
      /\ Len(Tail(exchanges[g])) = Len(exchanges[g]) - 1
      /\ \A i \in 1..Len(Tail(exchanges[g])) : Tail(exchanges[g])[i] = exchanges[g][i + 1]
  BY <1>1, HeadTailProperties
<1>4. Head(exchanges[g]) = exchanges[g][1] /\ Len(exchanges[g]) > 0
  BY <1>1
<1>5. exchanges' \in [Streams -> Seq(Exchange)]
  BY <1>3 DEF PopExchange, TypeOK
<1> QED
  BY <1>2, <1>3, <1>4, <1>5

-----------------------------------------------------------------------------
(* Type correctness                                                        *)

\* What the server computes for a request keeps the receiver's types, as long
\* as the request was numbered by an operator.
LEMMA ReceiveType ==
  ASSUME TypeOK, NEW m \in Msgs, Receive(m)
  PROVE  /\ ResponseCode(m) \in ResultCodes
         /\ link_up' \in BOOLEAN
         /\ next_recv_seq_num' \in 0..MaxSeq
         /\ slot' \in [Keys -> {NoMsg} \cup Msgs]
         /\ consumed' \in SUBSET Msgs
<1>1. next_recv_seq_num \in Int /\ m \in Int
  BY DEF TypeOK
<1>2. ResponseCode(m) \in ResultCodes
  BY <1>1 DEF ResponseCode
<1>3. ResponseCode(m) = "SUCCESS" => m = next_recv_seq_num
  BY <1>1 DEF ResponseCode
<1>4. KeyOf[m] \in Keys
  OBVIOUS
<1>5. next_recv_seq_num' \in 0..MaxSeq
  BY <1>3 DEF Receive, TypeOK
<1>6. slot' \in [Keys -> {NoMsg} \cup Msgs]
  BY <1>4 DEF Receive, TypeOK
<1>7. link_up' \in BOOLEAN /\ consumed' \in SUBSET Msgs
  BY DEF Receive, TypeOK
<1> QED
  BY <1>2, <1>5, <1>6, <1>7

\* What a step of StreamTransmitHandler does, in the terms of the lemmas above.
LEMMA HandlerEffect ==
  ASSUME TypeOK, NEW g \in Streams, StreamTransmitHandler(g)
  PROVE  \E i \in 1..Len(exchanges[g]) :
           /\ exchanges[g][i].seq \in Msgs
           /\ Receive(exchanges[g][i].seq)
           /\ exchanges' \in [Streams -> Seq(Exchange)]
           /\ Len(exchanges'[g]) = Len(exchanges[g])
           /\ exchanges'[g][i] = [seq |-> exchanges[g][i].seq,
                                  code |-> ResponseCode(exchanges[g][i].seq)]
           /\ \A j \in 1..Len(exchanges[g]) : j # i => exchanges'[g][j] = exchanges[g][j]
           /\ \A h \in Streams \ {g} : exchanges'[h] = exchanges[h]
<1>1. PICK i \in 1..Len(exchanges[g]) :
        /\ Receive(exchanges[g][i].seq)
        /\ exchanges' = [exchanges EXCEPT ![g][i] =
                           [seq |-> @.seq, code |-> ResponseCode(exchanges[g][i].seq)]]
  BY DEF StreamTransmitHandler, TypeOK
<1>2. exchanges[g][i].seq \in Msgs
  BY ExchangeType
<1> DEFINE e == [seq |-> exchanges[g][i].seq,
                 code |-> ResponseCode(exchanges[g][i].seq)]
<1>3. e \in Exchange
  BY <1>1, <1>2, ReceiveType DEF Exchange
<1>4. exchanges' = [exchanges EXCEPT ![g] = [exchanges[g] EXCEPT ![i] = e]]
  BY <1>1 DEF TypeOK
<1> HIDE DEF e
<1>5. exchanges[g] \in Seq(Exchange)
  BY DEF TypeOK
<1>6. /\ [exchanges[g] EXCEPT ![i] = e] \in Seq(Exchange)
      /\ Len([exchanges[g] EXCEPT ![i] = e]) = Len(exchanges[g])
      /\ \A j \in 1..Len(exchanges[g]) :
           [exchanges[g] EXCEPT ![i] = e][j] = IF j = i THEN e ELSE exchanges[g][j]
  BY <1>3, <1>5, ExceptSeq
<1>7. exchanges'[g] = [exchanges[g] EXCEPT ![i] = e]
  BY <1>4 DEF TypeOK
<1>8. \A h \in Streams \ {g} : exchanges'[h] = exchanges[h]
  BY <1>4 DEF TypeOK
<1>9. exchanges' \in [Streams -> Seq(Exchange)]
  BY <1>4, <1>6 DEF TypeOK
<1> QED
  BY <1>1, <1>2, <1>6, <1>7, <1>8, <1>9 DEF e

\* Every step of every thread keeps the types; the operators number a message
\* only while the bound allows it.
LEMMA TypeStep ==
  ASSUME TypeOK, Numbered, Owned, [Next]_vars
  PROVE  TypeOK'
<1> USE DEF senderVars, callVars, recvVars
<1>1. CASE EnqueueCheck
  BY <1>1 DEF EnqueueCheck, TypeOK
<1>2. CASE EnqueuePush
  BY <1>2 DEF EnqueuePush, TypeOK, Numbered
<1>3. CASE EnqueueSent
  <2>1. seq_num \in Msgs
    BY <1>3 DEF EnqueueSent, TypeOK, Numbered
  <2>2. SendNextRequest(seq_num)
    BY <1>3 DEF EnqueueSent
  <2>3. finishing' = finishing /\ late' = late /\ failures' = failures
    BY <2>2 DEF SendNextRequest
  <2>4. seq_num' \in 0..MaxSeq
    BY <1>3, <2>1 DEF EnqueueSent
  <2>5. /\ exchanges' \in [Streams -> Seq(Exchange)]
        /\ stream' \in Streams
        /\ dead' \in SUBSET Streams
    BY <2>1, <2>2, SendEffect
  <2> QED
    BY <1>3, <2>3, <2>4, <2>5 DEF EnqueueSent, TypeOK
<1>4. CASE EnqueueFailed
  BY <1>4 DEF EnqueueFailed, TypeOK
<1>5. ASSUME NEW g \in Streams, CallbackPop(g)
      PROVE  TypeOK'
  <2>1. exchanges[g] # <<>> /\ PopExchange(g)
    BY <1>5 DEF CallbackPop, Completed
  <2>2. /\ exchanges' \in [Streams -> Seq(Exchange)]
        /\ Head(exchanges[g]) \in Exchange
    BY <2>1, PopEffect
  <2>3. Outcome(g) \in ResultCodes \cup {"FAILED"}
    BY <1>5, <2>2 DEF CallbackPop, Completed, Outcome, Exchange
  <2>4. cb' \in [seq : Msgs, code : ResultCodes \cup {"FAILED"}]
    BY <1>5, <2>2, <2>3 DEF CallbackPop, Exchange
  <2>5. finishing' \in {NoStream} \cup Streams
    BY <2>1 DEF PopExchange
  <2> QED
    BY <1>5, <2>2, <2>4, <2>5 DEF CallbackPop, TypeOK
<1>6. CASE CallbackDelete
  BY <1>6 DEF CallbackDelete, TriggerResend, TypeOK
<1>7. CASE CallbackRequeue
  <2>1. cb.seq \in Msgs
    BY <1>7 DEF CallbackRequeue, Owned, TypeOK
  <2>2. /\ msg_reexchanges' \in SUBSET Msgs
        /\ cb' \in {NoCb}
        /\ cb_pc' \in {"idle", "trigger"}
    BY <1>7, <2>1 DEF CallbackRequeue, TypeOK
  <2>3. retry_cb' \in {"null", "set", "fired"}
    BY <1>7 DEF CallbackRequeue, TriggerResend, TypeOK
  <2>4. UNCHANGED <<seq_num, enq, channel_state, msg_exchanges, retry_pc,
                    retry_msg, callVars, recvVars>>
    BY <1>7 DEF CallbackRequeue
  <2> QED
    BY <2>2, <2>3, <2>4 DEF TypeOK
<1>26. CASE CallbackDisable \/ CallbackTrigger
  BY <1>26 DEF CallbackDisable, CallbackTrigger, TriggerResend, TypeOK
<1>8. CASE RetryCheck
  BY <1>8 DEF RetryCheck, RetryGoto, TypeOK
<1>9. CASE RetryArm
  BY <1>9 DEF RetryArm, RetryGoto, TypeOK
<1>10. CASE RetryWake
  BY <1>10 DEF RetryWake, RetryGoto, TypeOK
<1>11. CASE RetryReset
  BY <1>11 DEF RetryReset, RetryGoto, ResetCall, TypeOK
<1>12. CASE RetryPop
  BY <1>12 DEF RetryPop, RetryGoto, TypeOK
<1>13. CASE RetrySend
  <2>1. retry_msg \in Msgs
    BY <1>13 DEF RetrySend, RetryGoto, Owned, TypeOK
  <2>2. SendNextRequest(retry_msg)
    BY <1>13 DEF RetrySend
  <2>3. finishing' = finishing /\ late' = late /\ failures' = failures
    BY <2>2 DEF SendNextRequest
  <2>4. /\ exchanges' \in [Streams -> Seq(Exchange)]
        /\ stream' \in Streams
        /\ dead' \in SUBSET Streams
    BY <2>1, <2>2, SendEffect
  <2>5. /\ UNCHANGED <<seq_num, enq, msg_exchanges, cb_pc, cb, recvVars>>
        /\ UNCHANGED <<channel_state, msg_reexchanges, retry_cb, retry_msg>>
        /\ retry_pc' = "await"
    BY <1>13 DEF RetrySend, RetryGoto
  <2> QED
    BY <2>3, <2>4, <2>5 DEF TypeOK
<1>14. CASE RetrySendFailed
  BY <1>14 DEF RetrySendFailed, RetryGoto, TypeOK
<1>15. CASE RetrySlept
  BY <1>15 DEF RetrySlept, RetryGoto, ResetCall, TypeOK
<1>16. ASSUME NEW g \in Streams, RetryAnswered(g)
       PROVE  TypeOK'
  <2>1. exchanges[g] # <<>> /\ PopExchange(g)
    BY <1>16 DEF RetryAnswered, Completed
  <2>2. exchanges' \in [Streams -> Seq(Exchange)]
    BY <2>1, PopEffect
  <2>3. finishing' \in {NoStream} \cup Streams
    BY <2>1 DEF PopExchange
  <2> QED
    BY <1>16, <2>2, <2>3 DEF RetryAnswered, RetryGoto, TypeOK
<1>17. CASE RetryDrained
  BY <1>17 DEF RetryDrained, RetryGoto, TypeOK
<1>18. CASE RetryActivate
  BY <1>18 DEF RetryActivate, RetryGoto, TypeOK
<1>19. CASE ConnectHandler
  BY <1>19 DEF ConnectHandler, TypeOK
<1>20. ASSUME NEW g \in Streams, StreamTransmitHandler(g)
       PROVE  TypeOK'
  <2>1. PICK i \in 1..Len(exchanges[g]) :
          /\ exchanges[g][i].seq \in Msgs
          /\ Receive(exchanges[g][i].seq)
          /\ exchanges' \in [Streams -> Seq(Exchange)]
    BY <1>20, HandlerEffect
  <2>2. /\ link_up' \in BOOLEAN
        /\ next_recv_seq_num' \in 0..MaxSeq
        /\ slot' \in [Keys -> {NoMsg} \cup Msgs]
        /\ consumed' \in SUBSET Msgs
    BY <2>1, ReceiveType
  <2>3. UNCHANGED <<senderVars, stream, dead, finishing, late, failures>>
    BY <1>20 DEF StreamTransmitHandler
  <2> QED
    BY <2>1, <2>2, <2>3 DEF TypeOK
<1>21. ASSUME NEW g \in Streams, StreamTransmitRefused(g)
       PROVE  TypeOK'
  BY <1>21 DEF StreamTransmitRefused, TypeOK
<1>22. ASSUME NEW g \in Streams, StreamTransmitLate(g)
       PROVE  TypeOK'
  <2>1. late[g] \in Seq(Msgs) /\ late[g] # <<>>
    BY <1>22 DEF StreamTransmitLate, TypeOK
  <2>2. Head(late[g]) \in Msgs /\ Tail(late[g]) \in Seq(Msgs)
    BY <2>1, HeadTailType
  <2>3. Receive(Head(late[g])) /\ late' = [late EXCEPT ![g] = Tail(@)]
    BY <1>22 DEF StreamTransmitLate
  <2>4. late' \in [Streams -> Seq(Msgs)]
    BY <2>2, <2>3 DEF TypeOK
  <2>5. /\ link_up' \in BOOLEAN
        /\ next_recv_seq_num' \in 0..MaxSeq
        /\ slot' \in [Keys -> {NoMsg} \cup Msgs]
        /\ consumed' \in SUBSET Msgs
    BY <2>2, <2>3, ReceiveType
  <2> QED
    BY <1>22, <2>4, <2>5 DEF StreamTransmitLate, TypeOK
<1>23. ASSUME NEW k \in Keys, QueryResult(k)
       PROVE  TypeOK'
  <2>1. slot[k] \in Msgs
    BY <1>23 DEF QueryResult, TypeOK
  <2>2. consumed' \in SUBSET Msgs
    BY <1>23, <2>1 DEF QueryResult, TypeOK
  <2>3. slot' \in [Keys -> {NoMsg} \cup Msgs]
    BY <1>23 DEF QueryResult, TypeOK
  <2> QED
    BY <1>23, <2>2, <2>3 DEF QueryResult, TypeOK
<1>24. ASSUME NEW g \in Streams, StreamFails(g)
       PROVE  TypeOK'
  <2>1. PICK a \in 0..Len(exchanges[g]), n \in 0..Len(exchanges[g]) :
          /\ n <= Len(exchanges[g]) - a
          /\ late' = [late EXCEPT ![g] = [i \in 1..n |-> exchanges[g][a + i].seq]]
    BY <1>24 DEF StreamFails
  <2>2. exchanges[g] \in Seq(Exchange) /\ Len(exchanges[g]) \in Nat
    BY DEF TypeOK
  <2>3. \A i \in 1..n : exchanges[g][a + i].seq \in Msgs
    <3> TAKE i \in 1..n
    <3>1. a + i \in 1..Len(exchanges[g])
      BY <2>1, <2>2
    <3> QED
      BY <3>1, ExchangeType
  <2>4. [i \in 1..n |-> exchanges[g][a + i].seq] \in Seq(Msgs)
    BY <2>2, <2>3
  <2>5. late' \in [Streams -> Seq(Msgs)]
    BY <2>1, <2>4 DEF TypeOK
  <2> QED
    BY <1>24, <2>5 DEF StreamFails, TypeOK
<1>25. CASE UNCHANGED vars
  BY <1>25 DEF vars, TypeOK
<1> QED
  BY <1>1, <1>2, <1>3, <1>4, <1>5, <1>6, <1>7, <1>8, <1>9, <1>10, <1>11, <1>12,
     <1>13, <1>14, <1>15, <1>16, <1>17, <1>18, <1>19, <1>20, <1>21, <1>22, <1>23,
     <1>24, <1>25, <1>26
  DEF Next, Operator, Polling, Retry, Receiver, Consumer

-----------------------------------------------------------------------------
(* The inductive invariant                                                 *)

\* Handling a request either stores the message the receiver waits for, or
\* changes nothing; the sender is told to forget it only when it is stored.
LEMMA ReceiveEffect ==
  ASSUME TypeOK, NEW m \in Msgs, Receive(m)
  PROVE  /\ \/ /\ m = next_recv_seq_num
               /\ ~Rejected(m)
               /\ next_recv_seq_num' = next_recv_seq_num + 1
               /\ slot' = [slot EXCEPT ![KeyOf[m]] = m]
            \/ UNCHANGED <<next_recv_seq_num, slot>>
         /\ next_recv_seq_num <= next_recv_seq_num'
         /\ ResponseCode(m) \in Delivered => m < next_recv_seq_num'
         /\ ResponseCode(m) \in ResultCodes
         /\ consumed' = consumed
<1>1. next_recv_seq_num \in Int /\ m \in Int
  BY DEF TypeOK
<1>2. ResponseCode(m) \in ResultCodes
  BY <1>1 DEF ResponseCode
<1>3. CASE ResponseCode(m) = "SUCCESS"
  <2>1. m = next_recv_seq_num /\ ~Rejected(m)
    BY <1>1, <1>3 DEF ResponseCode
  <2> QED
    BY <1>1, <1>2, <1>3, <2>1 DEF Receive
<1>4. CASE ResponseCode(m) # "SUCCESS"
  <2>1. ResponseCode(m) = "MESSAGE_DUPLICATED" => m < next_recv_seq_num
    BY <1>1 DEF ResponseCode
  <2> QED
    BY <1>1, <1>2, <1>4, <2>1 DEF Receive
<1> QED
  BY <1>3, <1>4

\* The receiver never waits for a message beyond those numbered.
LEMMA ReceivedBelow ==
  ASSUME TypeOK, Numbered, NEW m \in Msgs, Receive(m), m < seq_num
  PROVE  next_recv_seq_num' <= seq_num
<1>1. \/ m = next_recv_seq_num /\ next_recv_seq_num' = next_recv_seq_num + 1
      \/ next_recv_seq_num' = next_recv_seq_num
  BY ReceiveEffect
<1> QED
  BY <1>1 DEF Numbered, TypeOK

\* The actions that carry, hold, number or deliver no message.
Quiet ==
  /\ UNCHANGED <<seq_num, enq, msg_exchanges, msg_reexchanges, cb, retry_msg>>
  /\ UNCHANGED <<exchanges, late, next_recv_seq_num>>

\* The steps of the retry thread on its own state, a connection, a refused
\* stream, a consumer's query and a stuttering step are quiet.
LEMMA QuietSteps ==
  /\ RetryCheck \/ RetryArm \/ RetryWake \/ RetryReset => Quiet
  /\ RetrySendFailed \/ RetrySlept \/ RetryDrained \/ RetryActivate => Quiet
  /\ CallbackDisable \/ CallbackTrigger => Quiet
  /\ ConnectHandler => Quiet
  /\ \A g \in Streams : StreamTransmitRefused(g) => Quiet
  /\ \A k \in Keys : QueryResult(k) => Quiet
  /\ UNCHANGED vars => Quiet
  BY DEF Quiet, RetryCheck, RetryArm, RetryWake, RetryReset, RetrySendFailed,
         RetrySlept, RetryDrained, RetryActivate, RetryGoto, ResetCall,
         CallbackDisable, CallbackTrigger, ConnectHandler, StreamTransmitRefused, QueryResult, vars, senderVars,
         callVars, recvVars

\* Every step keeps what is held, in flight and delivered below seq_num.
LEMMA NumberedStep ==
  ASSUME TypeOK, TypeOK', Numbered, Owned, [Next]_vars
  PROVE  Numbered'
<1> USE DEF senderVars, callVars, recvVars
<1>1. CASE EnqueueCheck
  BY <1>1 DEF EnqueueCheck, TypeOK, Numbered
<1>2. CASE EnqueuePush
  BY <1>2 DEF EnqueuePush, TypeOK, Numbered
<1>3. CASE EnqueueSent
  <2>1. seq_num \in Msgs /\ SendNextRequest(seq_num)
    BY <1>3 DEF EnqueueSent, TypeOK, Numbered
  <2>2. PICK g \in Streams :
          /\ Len(exchanges'[g]) = Len(exchanges[g]) + 1
          /\ \A i \in 1..Len(exchanges[g]) : exchanges'[g][i] = exchanges[g][i]
          /\ exchanges'[g][Len(exchanges[g]) + 1] = [seq |-> seq_num, code |-> "PENDING"]
          /\ \A h \in Streams \ {g} : exchanges'[h] = exchanges[h]
    BY <2>1, SendEffect
  <2>3. seq_num' = seq_num + 1 /\ enq' = "idle" /\ late' = late
    BY <1>3 DEF EnqueueSent, SendNextRequest
  <2>4. \A h \in Streams : \A i \in 1..Len(exchanges'[h]) : exchanges'[h][i].seq < seq_num'
    <3> TAKE h \in Streams
    <3>1. Len(exchanges[h]) \in Nat /\ \A i \in 1..Len(exchanges[h]) : exchanges[h][i].seq \in Msgs
      BY ExchangeType
    <3> TAKE i \in 1..Len(exchanges'[h])
    <3>2. CASE h = g /\ i = Len(exchanges[g]) + 1
      BY <2>1, <2>2, <2>3, <3>2
    <3>3. CASE ~(h = g /\ i = Len(exchanges[g]) + 1)
      <4>1. i \in 1..Len(exchanges[h]) /\ exchanges'[h][i] = exchanges[h][i]
        BY <2>2, <3>1, <3>3
      <4>2. exchanges[h][i].seq < seq_num
        BY <4>1 DEF Numbered
      <4> QED
        BY <2>1, <2>3, <3>1, <4>1, <4>2
    <3> QED
      BY <3>2, <3>3
  <2>5. \A h \in Streams : \A i \in 1..Len(late'[h]) : late'[h][i] < seq_num'
    <3> TAKE h \in Streams
    <3> TAKE i \in 1..Len(late'[h])
    <3>1. late[h] \in Seq(Msgs)
      BY DEF TypeOK
    <3>2. late[h][i] \in Msgs
      BY <2>3, <3>1, ElementOfSeq
    <3> QED
      BY <2>1, <2>3, <3>2 DEF Numbered
  <2>6. cb'.seq < seq_num' /\ retry_msg' < seq_num'
    <3>1. cb.seq \in Int /\ retry_msg \in Int
      BY DEF TypeOK
    <3> QED
      BY <1>3, <2>1, <2>3, <3>1 DEF EnqueueSent, Numbered
  <2>7. /\ \A m \in msg_exchanges' : m < seq_num'
        /\ \A m \in msg_reexchanges' : m < seq_num'
        /\ next_recv_seq_num' <= seq_num'
    BY <1>3, <2>1, <2>3 DEF EnqueueSent, Numbered, TypeOK
  <2> QED
    BY <2>3, <2>4, <2>5, <2>6, <2>7 DEF Numbered
<1>4. CASE EnqueueFailed
  BY <1>4 DEF EnqueueFailed, TypeOK, Numbered
<1>5. ASSUME NEW g \in Streams, CallbackPop(g) \/ RetryAnswered(g)
      PROVE  Numbered'
  <2>1. exchanges[g] # <<>> /\ PopExchange(g)
    BY <1>5 DEF CallbackPop, RetryAnswered, Completed
  <2>2. /\ Len(exchanges[g]) > 0
        /\ Head(exchanges[g]) = exchanges[g][1]
        /\ Len(exchanges'[g]) = Len(exchanges[g]) - 1
        /\ \A i \in 1..Len(exchanges'[g]) : exchanges'[g][i] = exchanges[g][i + 1]
        /\ \A h \in Streams \ {g} : exchanges'[h] = exchanges[h]
    BY <2>1, PopEffect
  <2>3. Len(exchanges[g]) \in Nat
    BY ExchangeType
  <2>4. seq_num' = seq_num /\ enq' = enq /\ late' = late /\ next_recv_seq_num' = next_recv_seq_num
        /\ msg_reexchanges' = msg_reexchanges
    BY <1>5 DEF CallbackPop, RetryAnswered, RetryGoto
  <2>5. \A h \in Streams : \A i \in 1..Len(exchanges'[h]) : exchanges'[h][i].seq < seq_num'
    <3>1. \A h \in Streams : \A i \in 1..Len(exchanges[h]) : exchanges[h][i].seq < seq_num
      BY DEF Numbered
    <3>2. \A i \in 1..Len(exchanges'[g]) : exchanges'[g][i].seq < seq_num
      <4> TAKE i \in 1..Len(exchanges'[g])
      <4>1. i + 1 \in 1..Len(exchanges[g])
        BY <2>2, <2>3
      <4>2. exchanges[g][i + 1].seq < seq_num
        BY <3>1, <4>1
      <4> QED
        BY <2>2, <4>2
    <3>3. \A h \in Streams \ {g} :
            \A i \in 1..Len(exchanges'[h]) : exchanges'[h][i].seq < seq_num
      BY <2>2, <3>1
    <3> QED
      BY <2>4, <3>2, <3>3
  <2>6. cb'.seq < seq_num' /\ retry_msg' < seq_num'
    <3>1. exchanges[g][1].seq < seq_num
      BY <2>2, <2>3 DEF Numbered
    <3> QED
      BY <1>5, <2>2, <2>4, <3>1 DEF CallbackPop, RetryAnswered, RetryGoto, Numbered, TypeOK
  <2>7. /\ msg_exchanges' \subseteq msg_exchanges
        /\ enq = "pushed" => seq_num \in msg_exchanges'
    <3>1. 1 \in 1..Len(exchanges[g])
      BY <2>2, <2>3
    <3>2. exchanges[g][1].seq < seq_num
      BY <3>1 DEF Numbered
    <3>3. exchanges[g][1].seq \in Msgs
      BY <3>1, ExchangeType
    <3> QED
      BY <1>5, <2>2, <3>2, <3>3 DEF CallbackPop, RetryAnswered, RetryGoto, Numbered, TypeOK
  <2> QED
    BY <2>4, <2>5, <2>6, <2>7 DEF Numbered
<1>6. CASE CallbackDelete
  BY <1>6 DEF CallbackDelete, TypeOK, Numbered
<1>7. CASE CallbackRequeue
  <2>1. cb.seq \in Msgs
    BY <1>7 DEF CallbackRequeue, Owned, TypeOK
  <2> QED
    BY <1>7, <2>1 DEF CallbackRequeue, TypeOK, Numbered
<1>8. CASE RetryPop
  BY <1>8 DEF RetryPop, RetryGoto, TypeOK, Numbered
<1>9. CASE RetrySend
  <2>1. retry_msg \in Msgs /\ SendNextRequest(retry_msg)
    BY <1>9 DEF RetrySend, RetryGoto, Owned, TypeOK
  <2>2. PICK g \in Streams :
          /\ Len(exchanges'[g]) = Len(exchanges[g]) + 1
          /\ \A i \in 1..Len(exchanges[g]) : exchanges'[g][i] = exchanges[g][i]
          /\ exchanges'[g][Len(exchanges[g]) + 1] = [seq |-> retry_msg, code |-> "PENDING"]
          /\ \A h \in Streams \ {g} : exchanges'[h] = exchanges[h]
    BY <2>1, SendEffect
  <2>3. UNCHANGED <<seq_num, enq, msg_exchanges, msg_reexchanges, cb, retry_msg, late,
                    next_recv_seq_num>>
    BY <1>9 DEF RetrySend, RetryGoto, SendNextRequest
  <2>4. \A h \in Streams : \A i \in 1..Len(exchanges'[h]) : exchanges'[h][i].seq < seq_num
    <3> TAKE h \in Streams
    <3>1. Len(exchanges[h]) \in Nat
      BY ExchangeType
    <3> TAKE i \in 1..Len(exchanges'[h])
    <3>2. CASE h = g /\ i = Len(exchanges[g]) + 1
      BY <2>2, <3>2 DEF Numbered
    <3>3. CASE ~(h = g /\ i = Len(exchanges[g]) + 1)
      <4>1. i \in 1..Len(exchanges[h]) /\ exchanges'[h][i] = exchanges[h][i]
        BY <2>2, <3>1, <3>3
      <4> QED
        BY <4>1 DEF Numbered
    <3> QED
      BY <3>2, <3>3
  <2> QED
    BY <2>3, <2>4 DEF Numbered
<1>10. ASSUME NEW g \in Streams, StreamTransmitHandler(g)
       PROVE  Numbered'
  <2>1. PICK i \in 1..Len(exchanges[g]) :
           /\ exchanges[g][i].seq \in Msgs
           /\ Receive(exchanges[g][i].seq)
           /\ Len(exchanges'[g]) = Len(exchanges[g])
           /\ exchanges'[g][i] = [seq |-> exchanges[g][i].seq,
                                  code |-> ResponseCode(exchanges[g][i].seq)]
           /\ \A j \in 1..Len(exchanges[g]) : j # i => exchanges'[g][j] = exchanges[g][j]
           /\ \A h \in Streams \ {g} : exchanges'[h] = exchanges[h]
    BY <1>10, HandlerEffect
  <2>2. exchanges[g][i].seq < seq_num
    BY DEF Numbered
  <2>3. next_recv_seq_num' <= seq_num
    <3> DEFINE m == exchanges[g][i].seq
    <3>1. m \in Msgs /\ Receive(m) /\ m < seq_num
      BY <2>1, <2>2
    <3> HIDE DEF m
    <3> QED
      BY <3>1, ReceivedBelow
  <2>4. \A h \in Streams : \A j \in 1..Len(exchanges'[h]) : exchanges'[h][j].seq < seq_num
    <3> TAKE h \in Streams
    <3> TAKE j \in 1..Len(exchanges'[h])
    <3>1. CASE h = g /\ j = i
      BY <2>1, <2>2, <3>1
    <3>2. CASE h = g /\ j # i
      BY <2>1, <3>2 DEF Numbered
    <3>3. CASE h # g
      BY <2>1, <3>3 DEF Numbered
    <3> QED
      BY <3>1, <3>2, <3>3
  <2> QED
    BY <1>10, <2>3, <2>4 DEF StreamTransmitHandler, Numbered
<1>11. ASSUME NEW g \in Streams, StreamTransmitLate(g)
       PROVE  Numbered'
  <2>1. late[g] \in Seq(Msgs) /\ late[g] # <<>>
    BY <1>11 DEF StreamTransmitLate, TypeOK
  <2>2. /\ Head(late[g]) \in Msgs
        /\ Head(late[g]) = late[g][1]
        /\ Len(late[g]) \in Nat \ {0}
        /\ Len(Tail(late[g])) = Len(late[g]) - 1
        /\ \A i \in 1..Len(Tail(late[g])) : Tail(late[g])[i] = late[g][i + 1]
    BY <2>1, HeadTailType
  <2>3. Receive(Head(late[g])) /\ late' = [late EXCEPT ![g] = Tail(@)]
    BY <1>11 DEF StreamTransmitLate
  <2>4. Head(late[g]) < seq_num
    BY <2>2 DEF Numbered
  <2>5. next_recv_seq_num' <= seq_num
    BY <2>2, <2>3, <2>4, ReceivedBelow
  <2>6. \A h \in Streams : \A i \in 1..Len(late'[h]) : late'[h][i] < seq_num
    <3> TAKE h \in Streams
    <3>1. CASE h = g
      BY <2>2, <2>3, <3>1 DEF Numbered, TypeOK
    <3>2. CASE h # g
      BY <2>3, <3>2 DEF Numbered, TypeOK
    <3> QED
      BY <3>1, <3>2
  <2> QED
    BY <1>11, <2>5, <2>6 DEF StreamTransmitLate, Numbered
<1>12. ASSUME NEW g \in Streams, StreamFails(g)
       PROVE  Numbered'
  <2>1. PICK a \in 0..Len(exchanges[g]), n \in 0..Len(exchanges[g]) :
          /\ n <= Len(exchanges[g]) - a
          /\ late' = [late EXCEPT ![g] = [i \in 1..n |-> exchanges[g][a + i].seq]]
    BY <1>12 DEF StreamFails
  <2>2. Len(exchanges[g]) \in Nat
    BY ExchangeType
  <2>3. \A i \in 1..n : exchanges[g][a + i].seq < seq_num
    BY <2>1, <2>2 DEF Numbered
  <2>4. Len(late'[g]) = n /\ \A i \in 1..n : late'[g][i] = exchanges[g][a + i].seq
    BY <2>1, <2>2 DEF TypeOK
  <2>5. \A h \in Streams : \A i \in 1..Len(late'[h]) : late'[h][i] < seq_num
    <3> TAKE h \in Streams
    <3>1. CASE h = g
      BY <2>3, <2>4, <3>1
    <3>2. CASE h # g
      BY <2>1, <3>2 DEF Numbered, TypeOK
    <3> QED
      BY <3>1, <3>2
  <2> QED
    BY <1>12, <2>5 DEF StreamFails, Numbered
<1>13. CASE Quiet
  BY <1>13 DEF Quiet, Numbered
<1> QED
  BY <1>1, <1>2, <1>3, <1>4, <1>5, <1>6, <1>7, <1>8, <1>9, <1>10, <1>11, <1>12,
     <1>13, QuietSteps
  DEF Next, Operator, Polling, Retry, Receiver, Consumer

\* Popping the head exchange of a call: what the popped request and the ones
\* that remain were before the step.
LEMMA PopOwned ==
  ASSUME TypeOK, Numbered, Owned, NEW g \in Streams, Completed(g), PopExchange(g)
  PROVE  /\ exchanges[g] # <<>>
         /\ 1 \in 1..Len(exchanges[g])
         /\ Head(exchanges[g]) = exchanges[g][1]
         /\ exchanges[g][1].seq \in Msgs
         /\ exchanges[g][1].seq < seq_num
         /\ \A h \in Streams : \A i \in 1..Len(exchanges'[h]) :
              \E j \in 1..Len(exchanges[h]) :
                /\ exchanges'[h][i] = exchanges[h][j]
                /\ h = g => j = i + 1
                /\ h # g => j = i
                /\ exchanges[h][j].seq # exchanges[g][1].seq
         /\ \A h, q \in Streams :
              \A i \in 1..Len(exchanges'[h]), j \in 1..Len(exchanges'[q]) :
                exchanges'[h][i].seq = exchanges'[q][j].seq => h = q /\ i = j
<1>1. exchanges[g] # <<>>
  BY DEF Completed
<1>2. /\ Len(exchanges[g]) > 0
      /\ Head(exchanges[g]) = exchanges[g][1]
      /\ Len(exchanges'[g]) = Len(exchanges[g]) - 1
      /\ \A i \in 1..Len(exchanges'[g]) : exchanges'[g][i] = exchanges[g][i + 1]
      /\ \A h \in Streams \ {g} : exchanges'[h] = exchanges[h]
  BY <1>1, PopEffect
<1>3. Len(exchanges[g]) \in Nat /\ 1 \in 1..Len(exchanges[g])
  BY <1>2, ExchangeType
<1>4. exchanges[g][1].seq \in Msgs /\ exchanges[g][1].seq < seq_num
  BY <1>3, ExchangeType DEF Numbered
<1>5. ASSUME NEW h \in Streams, NEW i \in 1..Len(exchanges'[h])
      PROVE  \E j \in 1..Len(exchanges[h]) :
               /\ exchanges'[h][i] = exchanges[h][j]
               /\ h = g => j = i + 1
               /\ h # g => j = i
               /\ exchanges[h][j].seq # exchanges[g][1].seq
  <2>1. CASE h = g
    <3>1. i + 1 \in 1..Len(exchanges[g]) /\ i + 1 # 1
      BY <1>2, <1>3, <2>1
    <3>2. exchanges[g][i + 1].seq # exchanges[g][1].seq
      BY <1>3, <3>1 DEF Owned
    <3> QED
      BY <1>2, <2>1, <3>1, <3>2
  <2>2. CASE h # g
    <3>1. i \in 1..Len(exchanges[h]) /\ exchanges'[h] = exchanges[h]
      BY <1>2, <2>2
    <3>2. exchanges[h][i].seq # exchanges[g][1].seq
      BY <1>3, <2>2, <3>1 DEF Owned
    <3> QED
      BY <2>2, <3>1, <3>2
  <2> QED
    BY <2>1, <2>2
<1>6. ASSUME NEW h \in Streams, NEW q \in Streams,
             NEW i \in 1..Len(exchanges'[h]), NEW j \in 1..Len(exchanges'[q]),
             exchanges'[h][i].seq = exchanges'[q][j].seq
      PROVE  h = q /\ i = j
  <2>1. PICK i0 \in 1..Len(exchanges[h]) :
          /\ exchanges'[h][i] = exchanges[h][i0]
          /\ h = g => i0 = i + 1
          /\ h # g => i0 = i
    BY <1>5
  <2>2. PICK j0 \in 1..Len(exchanges[q]) :
          /\ exchanges'[q][j] = exchanges[q][j0]
          /\ q = g => j0 = j + 1
          /\ q # g => j0 = j
    BY <1>5
  <2>3. h = q /\ i0 = j0
    BY <1>6, <2>1, <2>2 DEF Owned
  <2>4. Len(exchanges'[h]) \in Nat /\ Len(exchanges'[q]) \in Nat
    BY <1>2, ExchangeType
  <2> QED
    BY <2>1, <2>2, <2>3, <2>4
<1> QED
  BY <1>1, <1>2, <1>3, <1>4, <1>5, <1>6

\* Sending a request no exchange carries keeps the exchanges distinct.
LEMMA SendOwned ==
  ASSUME TypeOK, Owned, NEW m \in Msgs, SendNextRequest(m),
         \A g \in Streams : \A i \in 1..Len(exchanges[g]) : exchanges[g][i].seq # m
  PROVE  /\ \A h \in Streams : \A i \in 1..Len(exchanges'[h]) :
              \/ exchanges'[h][i] = [seq |-> m, code |-> "PENDING"]
              \/ i \in 1..Len(exchanges[h]) /\ exchanges'[h][i] = exchanges[h][i]
         /\ \A g, h \in Streams :
              \A i \in 1..Len(exchanges'[g]), j \in 1..Len(exchanges'[h]) :
                exchanges'[g][i].seq = exchanges'[h][j].seq => g = h /\ i = j
<1>1. PICK q \in Streams :
        /\ Len(exchanges'[q]) = Len(exchanges[q]) + 1
        /\ \A i \in 1..Len(exchanges[q]) : exchanges'[q][i] = exchanges[q][i]
        /\ exchanges'[q][Len(exchanges[q]) + 1] = [seq |-> m, code |-> "PENDING"]
        /\ \A h \in Streams \ {q} : exchanges'[h] = exchanges[h]
  BY SendEffect
<1>2. \A h \in Streams : Len(exchanges[h]) \in Nat
  BY ExchangeType
<1>3. ASSUME NEW h \in Streams, NEW i \in 1..Len(exchanges'[h])
      PROVE  \/ /\ h = q /\ i = Len(exchanges[q]) + 1
                /\ exchanges'[h][i] = [seq |-> m, code |-> "PENDING"]
             \/ /\ i \in 1..Len(exchanges[h])
                /\ exchanges'[h][i] = exchanges[h][i]
                /\ exchanges[h][i].seq # m
  <2>1. CASE h = q
    BY <1>1, <1>2, <2>1
  <2>2. CASE h # q
    BY <1>1, <2>2
  <2> QED
    BY <2>1, <2>2
<1>4. ASSUME NEW g \in Streams, NEW h \in Streams,
             NEW i \in 1..Len(exchanges'[g]), NEW j \in 1..Len(exchanges'[h]),
             exchanges'[g][i].seq = exchanges'[h][j].seq
      PROVE  g = h /\ i = j
  <2>1. CASE g = q /\ i = Len(exchanges[q]) + 1 /\ exchanges'[g][i].seq = m
    <3>1. exchanges'[h][j].seq = m
      BY <1>4, <2>1
    <3>2. h = q /\ j = Len(exchanges[q]) + 1
      BY <1>3, <3>1
    <3> QED
      BY <2>1, <3>2
  <2>2. CASE /\ i \in 1..Len(exchanges[g])
             /\ exchanges'[g][i] = exchanges[g][i]
             /\ exchanges[g][i].seq # m
    <3>1. j \in 1..Len(exchanges[h]) /\ exchanges'[h][j] = exchanges[h][j]
      BY <1>3, <1>4, <2>2
    <3> QED
      BY <1>4, <2>2, <3>1 DEF Owned
  <2> QED
    BY <1>3, <2>1, <2>2
<1> QED
  BY <1>3, <1>4

\* Every step leaves each request with one owner and each exchange with the
\* owner of its request.
LEMMA OwnedStep ==
  ASSUME TypeOK, TypeOK', Numbered, Owned, [Next]_vars
  PROVE  Owned'
<1> USE DEF senderVars, callVars, recvVars
<1>1. CASE EnqueueCheck
  BY <1>1 DEF EnqueueCheck, Owned, OneOwner
<1>2. CASE EnqueuePush
  <2>1. /\ seq_num \notin msg_reexchanges
        /\ cb.seq # seq_num
        /\ retry_msg # seq_num
    BY DEF Numbered, TypeOK
  <2> QED
    BY <1>2, <2>1 DEF EnqueuePush, Owned, OneOwner
<1>3. CASE EnqueueSent
  <2>1. seq_num \in Msgs /\ SendNextRequest(seq_num) /\ seq_num \in msg_exchanges
    BY <1>3 DEF EnqueueSent, TypeOK, Numbered
  <2>2. \A g \in Streams : \A i \in 1..Len(exchanges[g]) : exchanges[g][i].seq # seq_num
    BY ExchangeType DEF Numbered
  <2>3. /\ \A h \in Streams : \A i \in 1..Len(exchanges'[h]) :
              \/ exchanges'[h][i] = [seq |-> seq_num, code |-> "PENDING"]
              \/ i \in 1..Len(exchanges[h]) /\ exchanges'[h][i] = exchanges[h][i]
        /\ \A g, h \in Streams :
              \A i \in 1..Len(exchanges'[g]), j \in 1..Len(exchanges'[h]) :
                exchanges'[g][i].seq = exchanges'[h][j].seq => g = h /\ i = j
    BY <2>1, <2>2, SendOwned
  <2>4. UNCHANGED <<msg_exchanges, msg_reexchanges, cb, retry_pc, retry_msg>>
    BY <1>3 DEF EnqueueSent
  <2>5. \A h \in Streams : \A i \in 1..Len(exchanges'[h]) :
          \/ exchanges'[h][i].seq \in msg_exchanges
          \/ exchanges'[h][i].seq = retry_msg /\ retry_pc = "await"
    BY <2>1, <2>3 DEF Owned, OneOwner
  <2> QED
    BY <2>3, <2>4, <2>5 DEF Owned, OneOwner
<1>4. CASE EnqueueFailed
  <2>1. \A g \in Streams : \A i \in 1..Len(exchanges[g]) : exchanges[g][i].seq # seq_num
    BY ExchangeType DEF Numbered
  <2> QED
    BY <1>4, <2>1 DEF EnqueueFailed, Owned, OneOwner
<1>5. ASSUME NEW g \in Streams, CallbackPop(g)
      PROVE  Owned'
  <2> DEFINE m == exchanges[g][1].seq
  <2>1. Completed(g) /\ PopExchange(g)
    BY <1>5 DEF CallbackPop
  <2>2. /\ Head(exchanges[g]) = exchanges[g][1]
        /\ m \in Msgs
        /\ \A h \in Streams : \A i \in 1..Len(exchanges'[h]) :
             \E j \in 1..Len(exchanges[h]) :
               /\ exchanges'[h][i] = exchanges[h][j]
               /\ h = g => j = i + 1
               /\ h # g => j = i
               /\ exchanges[h][j].seq # m
    BY <2>1, PopOwned
  <2>3. /\ m \in msg_exchanges
        /\ cb = NoCb
        /\ cb'.seq = m
        /\ msg_exchanges' = msg_exchanges \ {m}
        /\ cb' # NoCb /\ cb_pc' = "outcome"
        /\ UNCHANGED <<msg_reexchanges, retry_pc, retry_msg>>
    BY <1>5, <2>2 DEF CallbackPop, Owned
  <2> HIDE DEF m
  <2>4. \A h \in Streams : \A i \in 1..Len(exchanges'[h]) :
          \/ exchanges'[h][i].seq \in msg_exchanges'
          \/ exchanges'[h][i].seq = retry_msg' /\ retry_pc' = "await"
    <3> TAKE h \in Streams
    <3> TAKE i \in 1..Len(exchanges'[h])
    <3>1. PICK j \in 1..Len(exchanges[h]) :
            exchanges'[h][i] = exchanges[h][j] /\ exchanges[h][j].seq # m
      BY <2>2
    <3>2. \/ exchanges[h][j].seq \in msg_exchanges
          \/ exchanges[h][j].seq = retry_msg /\ retry_pc = "await"
      BY DEF Owned, OneOwner
    <3> QED
      BY <2>3, <3>1, <3>2
  <2>5. \A h, q \in Streams :
          \A i \in 1..Len(exchanges'[h]), j \in 1..Len(exchanges'[q]) :
            exchanges'[h][i].seq = exchanges'[q][j].seq => h = q /\ i = j
    BY <2>1, PopOwned
  <2>6. /\ (msg_exchanges \cap msg_reexchanges = {})'
        /\ (cb.seq \notin msg_exchanges \cup msg_reexchanges)'
        /\ (retry_msg \notin msg_exchanges \cup msg_reexchanges)'
        /\ cb'.seq # retry_msg'
    BY <2>3 DEF Owned, OneOwner
  <2> QED
    BY <2>3, <2>4, <2>5, <2>6 DEF Owned, OneOwner
<1>6. CASE CallbackDelete
  BY <1>6 DEF CallbackDelete, Owned, OneOwner, TypeOK
<1>7. CASE CallbackRequeue
  <2>1. cb.seq \in Msgs
    BY <1>7 DEF CallbackRequeue, Owned, TypeOK
  <2> QED
    BY <1>7, <2>1 DEF CallbackRequeue, Owned, OneOwner, TypeOK
<1>8. CASE RetryPop
  <2>1. retry_msg = NoMsg /\ retry_pc = "pop" /\ retry_pc' = "send"
    BY <1>8 DEF RetryPop, RetryGoto, Owned
  <2> QED
    BY <1>8, <2>1 DEF RetryPop, RetryGoto, Owned, OneOwner, TypeOK
<1>9. CASE RetrySend
  <2>1. /\ retry_msg \in Msgs /\ SendNextRequest(retry_msg)
        /\ retry_pc = "send" /\ retry_pc' = "await"
    BY <1>9 DEF RetrySend, RetryGoto, Owned, TypeOK
  <2>2. \A g \in Streams : \A i \in 1..Len(exchanges[g]) : exchanges[g][i].seq # retry_msg
    BY <2>1 DEF Owned, OneOwner
  <2>3. /\ \A h \in Streams : \A i \in 1..Len(exchanges'[h]) :
              \/ exchanges'[h][i] = [seq |-> retry_msg, code |-> "PENDING"]
              \/ i \in 1..Len(exchanges[h]) /\ exchanges'[h][i] = exchanges[h][i]
        /\ \A g, h \in Streams :
              \A i \in 1..Len(exchanges'[g]), j \in 1..Len(exchanges'[h]) :
                exchanges'[g][i].seq = exchanges'[h][j].seq => g = h /\ i = j
    BY <2>1, <2>2, SendOwned
  <2>4. UNCHANGED <<msg_exchanges, msg_reexchanges, cb_pc, cb, retry_msg>>
    BY <1>9 DEF RetrySend, RetryGoto
  <2>5. \A h \in Streams : \A i \in 1..Len(exchanges'[h]) :
          exchanges'[h][i].seq \in msg_exchanges \/ exchanges'[h][i].seq = retry_msg
    BY <2>1, <2>3 DEF Owned, OneOwner
  <2> QED
    BY <2>1, <2>3, <2>4, <2>5 DEF Owned, OneOwner
<1>10. ASSUME NEW g \in Streams, RetryAnswered(g)
       PROVE  Owned'
  <2> DEFINE m == exchanges[g][1].seq
  <2>1. Completed(g) /\ PopExchange(g)
    BY <1>10 DEF RetryAnswered
  <2>2. /\ Head(exchanges[g]) = exchanges[g][1]
        /\ \A h \in Streams : \A i \in 1..Len(exchanges'[h]) :
             \E j \in 1..Len(exchanges[h]) :
               /\ exchanges'[h][i] = exchanges[h][j]
               /\ h = g => j = i + 1
               /\ h # g => j = i
               /\ exchanges[h][j].seq # m
    BY <2>1, PopOwned
  <2>3. /\ m = retry_msg
        /\ UNCHANGED <<msg_exchanges, msg_reexchanges, cb_pc, cb>>
        /\ cb = NoCb
        /\ \/ retry_msg' = retry_msg /\ retry_pc' \in {"sleep", "send"}
           \/ retry_msg' = NoMsg /\ retry_pc' = "pop"
        /\ retry_pc = "await"
    BY <1>10, <2>2 DEF RetryAnswered, RetryGoto, Owned
  <2> HIDE DEF m
  <2>4. \A h \in Streams : \A i \in 1..Len(exchanges'[h]) :
          exchanges'[h][i].seq \in msg_exchanges
    BY <2>2, <2>3 DEF Owned, OneOwner
  <2>5. \A h, q \in Streams :
          \A i \in 1..Len(exchanges'[h]), j \in 1..Len(exchanges'[q]) :
            exchanges'[h][i].seq = exchanges'[q][j].seq => h = q /\ i = j
    BY <2>1, PopOwned
  <2>6. retry_msg' # NoMsg <=> retry_pc' \in {"send", "await", "sleep"}
    BY <2>3 DEF Owned
  <2>7. retry_msg' \notin msg_exchanges' \cup msg_reexchanges'
    BY <2>3 DEF Owned, OneOwner, TypeOK
  <2> QED
    BY <2>3, <2>4, <2>5, <2>6, <2>7 DEF Owned, OneOwner
<1>11. ASSUME NEW g \in Streams, StreamTransmitHandler(g)
       PROVE  Owned'
  <2>1. PICK k \in 1..Len(exchanges[g]) :
          /\ Len(exchanges'[g]) = Len(exchanges[g])
          /\ exchanges'[g][k] = [seq |-> exchanges[g][k].seq,
                                 code |-> ResponseCode(exchanges[g][k].seq)]
          /\ \A j \in 1..Len(exchanges[g]) : j # k => exchanges'[g][j] = exchanges[g][j]
          /\ \A h \in Streams \ {g} : exchanges'[h] = exchanges[h]
    BY <1>11, HandlerEffect
  <2>2. \A h \in Streams : /\ Len(exchanges'[h]) = Len(exchanges[h])
                           /\ \A i \in 1..Len(exchanges[h]) :
                                exchanges'[h][i].seq = exchanges[h][i].seq
    <3> TAKE h \in Streams
    <3>1. CASE h = g
      <4>1. exchanges'[g][k].seq = exchanges[g][k].seq
        BY <2>1
      <4> QED
        BY <2>1, <3>1, <4>1
    <3>2. CASE h # g
      BY <2>1, <3>2
    <3> QED
      BY <3>1, <3>2
  <2>3. UNCHANGED <<msg_exchanges, msg_reexchanges, cb_pc, cb, retry_pc, retry_msg>>
    BY <1>11 DEF StreamTransmitHandler
  <2>4. \A h, q \in Streams :
          \A i \in 1..Len(exchanges'[h]), j \in 1..Len(exchanges'[q]) :
            exchanges'[h][i].seq = exchanges'[q][j].seq => h = q /\ i = j
    <3> TAKE h, q \in Streams
    <3>1. Len(exchanges'[h]) = Len(exchanges[h]) /\ Len(exchanges'[q]) = Len(exchanges[q])
      BY <2>2
    <3> TAKE i \in 1..Len(exchanges'[h]), j \in 1..Len(exchanges'[q])
    <3>2. i \in 1..Len(exchanges[h]) /\ j \in 1..Len(exchanges[q])
      BY <3>1
    <3>3. /\ exchanges'[h][i].seq = exchanges[h][i].seq
          /\ exchanges'[q][j].seq = exchanges[q][j].seq
      BY <2>2, <3>2
    <3>4. exchanges[h][i].seq = exchanges[q][j].seq => h = q /\ i = j
      BY <3>2 DEF Owned
    <3> QED
      BY <3>3, <3>4
  <2>5. \A h \in Streams : \A i \in 1..Len(exchanges'[h]) :
          \/ exchanges'[h][i].seq \in msg_exchanges
          \/ exchanges'[h][i].seq = retry_msg /\ retry_pc = "await"
    BY <2>2 DEF Owned, OneOwner
  <2> QED
    BY <2>3, <2>4, <2>5 DEF Owned, OneOwner
<1>12. CASE UNCHANGED <<msg_exchanges, msg_reexchanges, cb_pc, cb, retry_pc,
                        retry_msg, exchanges>>
  BY <1>12 DEF Owned, OneOwner
<1>13. CASE RetryCheck \/ RetryArm \/ RetryWake \/ RetryReset
  BY <1>13 DEF RetryCheck, RetryArm, RetryWake, RetryReset, RetryGoto, ResetCall,
               Owned, OneOwner
<1>14. CASE RetrySendFailed \/ RetrySlept \/ RetryDrained \/ RetryActivate
  BY <1>14 DEF RetrySendFailed, RetrySlept, RetryDrained, RetryActivate, RetryGoto,
               ResetCall, Owned, OneOwner
<1>15. ASSUME NEW g \in Streams,
              StreamTransmitRefused(g) \/ StreamTransmitLate(g) \/ StreamFails(g)
       PROVE  Owned'
  BY <1>12, <1>15 DEF StreamTransmitRefused, StreamTransmitLate, StreamFails
<1>16. ASSUME NEW k \in Keys, QueryResult(k)
       PROVE  Owned'
  BY <1>12, <1>16 DEF QueryResult
<1>17. CASE ConnectHandler \/ UNCHANGED vars
  BY <1>12, <1>17 DEF ConnectHandler, vars
<1>18. CASE CallbackDisable \/ CallbackTrigger
  BY <1>18 DEF CallbackDisable, CallbackTrigger, Owned, OneOwner
<1> QED
  BY <1>1, <1>2, <1>3, <1>4, <1>5, <1>6, <1>7, <1>8, <1>9, <1>10, <1>11, <1>13,
     <1>14, <1>15, <1>16, <1>17, <1>18
  DEF Next, Operator, Polling, Retry, Receiver, Consumer

\* No step lets a response that deletes a request outrun the delivery.
LEMMA AckStep ==
  ASSUME TypeOK, TypeOK', Numbered, Owned, AckHonest, [Next]_vars
  PROVE  AckHonest'
<1> USE DEF senderVars, callVars, recvVars
<1>1. ASSUME NEW m \in Msgs, SendNextRequest(m),
             \A g \in Streams : \A i \in 1..Len(exchanges[g]) : exchanges[g][i].seq # m,
             UNCHANGED <<cb, next_recv_seq_num>>
      PROVE  AckHonest'
  <2>1. \A h \in Streams : \A i \in 1..Len(exchanges'[h]) :
          \/ exchanges'[h][i] = [seq |-> m, code |-> "PENDING"]
          \/ i \in 1..Len(exchanges[h]) /\ exchanges'[h][i] = exchanges[h][i]
    BY <1>1, SendOwned
  <2> QED
    BY <1>1, <2>1 DEF AckHonest
<1>2. CASE EnqueueSent
  <2>1. seq_num \in Msgs /\ SendNextRequest(seq_num)
    BY <1>2 DEF EnqueueSent, TypeOK, Numbered
  <2>2. \A g \in Streams : \A i \in 1..Len(exchanges[g]) : exchanges[g][i].seq # seq_num
    BY ExchangeType DEF Numbered
  <2> QED
    BY <1>1, <1>2, <2>1, <2>2 DEF EnqueueSent
<1>3. CASE RetrySend
  <2>1. retry_msg \in Msgs /\ SendNextRequest(retry_msg) /\ retry_pc = "send"
    BY <1>3 DEF RetrySend, RetryGoto, Owned, TypeOK
  <2>2. \A g \in Streams : \A i \in 1..Len(exchanges[g]) : exchanges[g][i].seq # retry_msg
    BY <2>1 DEF Owned, OneOwner
  <2> QED
    BY <1>1, <1>3, <2>1, <2>2 DEF RetrySend, RetryGoto
<1>4. ASSUME NEW g \in Streams, CallbackPop(g) \/ RetryAnswered(g)
      PROVE  AckHonest'
  <2>1. Completed(g) /\ PopExchange(g) /\ next_recv_seq_num' = next_recv_seq_num
    BY <1>4 DEF CallbackPop, RetryAnswered, RetryGoto
  <2>2. /\ 1 \in 1..Len(exchanges[g])
        /\ Head(exchanges[g]) = exchanges[g][1]
        /\ \A h \in Streams : \A i \in 1..Len(exchanges'[h]) :
             \E j \in 1..Len(exchanges[h]) : exchanges'[h][i] = exchanges[h][j]
    BY <2>1, PopOwned
  <2>3. \A h \in Streams : \A i \in 1..Len(exchanges'[h]) :
          exchanges'[h][i].code \in Delivered =>
            exchanges'[h][i].seq < next_recv_seq_num'
    BY <2>1, <2>2 DEF AckHonest
  <2>4. cb'.code \in Delivered => cb'.seq < next_recv_seq_num'
    <3>1. exchanges[g][1].code \in Delivered => exchanges[g][1].seq < next_recv_seq_num
      BY <2>2 DEF AckHonest
    <3>2. CASE CallbackPop(g)
      BY <2>1, <2>2, <3>1, <3>2 DEF CallbackPop, Outcome
    <3>3. CASE RetryAnswered(g)
      BY <2>1, <3>3 DEF RetryAnswered, RetryGoto, AckHonest
    <3> QED
      BY <1>4, <3>2, <3>3
  <2> QED
    BY <2>3, <2>4 DEF AckHonest
<1>5. ASSUME NEW g \in Streams, StreamTransmitHandler(g)
      PROVE  AckHonest'
  <2>1. PICK k \in 1..Len(exchanges[g]) :
          /\ exchanges[g][k].seq \in Msgs
          /\ Receive(exchanges[g][k].seq)
          /\ Len(exchanges'[g]) = Len(exchanges[g])
          /\ exchanges'[g][k] = [seq |-> exchanges[g][k].seq,
                                 code |-> ResponseCode(exchanges[g][k].seq)]
          /\ \A j \in 1..Len(exchanges[g]) : j # k => exchanges'[g][j] = exchanges[g][j]
          /\ \A h \in Streams \ {g} : exchanges'[h] = exchanges[h]
    BY <1>5, HandlerEffect
  <2>2. /\ next_recv_seq_num <= next_recv_seq_num'
        /\ ResponseCode(exchanges[g][k].seq) \in Delivered =>
             exchanges[g][k].seq < next_recv_seq_num'
    BY <2>1, ReceiveEffect
  <2>3. next_recv_seq_num \in Int /\ next_recv_seq_num' \in Int
    BY DEF TypeOK
  <2>4. ASSUME NEW h \in Streams, NEW i \in 1..Len(exchanges'[h]),
               exchanges'[h][i].code \in Delivered
        PROVE  exchanges'[h][i].seq < next_recv_seq_num'
    <3>1. CASE h = g /\ i = k
      BY <2>1, <2>2, <2>4, <3>1
    <3>2. CASE ~(h = g /\ i = k)
      <4>1. i \in 1..Len(exchanges[h]) /\ exchanges'[h][i] = exchanges[h][i]
        BY <2>1, <3>2
      <4>2. exchanges[h][i].seq < next_recv_seq_num
        BY <2>4, <4>1 DEF AckHonest
      <4>3. exchanges[h][i].seq \in Int
        BY <4>1, ExchangeType
      <4> QED
        BY <2>2, <2>3, <4>1, <4>2, <4>3
    <3> QED
      BY <3>1, <3>2
  <2>5. cb' = cb /\ cb.seq \in Int
    BY <1>5 DEF StreamTransmitHandler, TypeOK
  <2>6. cb'.code \in Delivered => cb'.seq < next_recv_seq_num'
    BY <2>2, <2>3, <2>5 DEF AckHonest
  <2> QED
    BY <2>4, <2>6 DEF AckHonest
<1>6. ASSUME NEW g \in Streams, StreamTransmitLate(g)
      PROVE  AckHonest'
  <2>1. late[g] \in Seq(Msgs) /\ late[g] # <<>>
    BY <1>6 DEF StreamTransmitLate, TypeOK
  <2>2. Head(late[g]) \in Msgs /\ Receive(Head(late[g]))
    BY <1>6, <2>1, HeadTailType DEF StreamTransmitLate
  <2>3. next_recv_seq_num <= next_recv_seq_num'
    BY <2>2, ReceiveEffect
  <2>4. /\ exchanges' = exchanges /\ cb' = cb
        /\ cb.seq \in Int /\ next_recv_seq_num \in Int /\ next_recv_seq_num' \in Int
    BY <1>6 DEF StreamTransmitLate, TypeOK
  <2>5. \A h \in Streams : \A i \in 1..Len(exchanges[h]) : exchanges[h][i].seq \in Int
    BY ExchangeType
  <2> QED
    BY <2>3, <2>4, <2>5 DEF AckHonest
<1>7. CASE CallbackDelete \/ CallbackRequeue
  BY <1>7 DEF CallbackDelete, CallbackRequeue, AckHonest
<1>8. CASE UNCHANGED <<cb, exchanges, next_recv_seq_num>>
  BY <1>8 DEF AckHonest
<1>9. CASE EnqueueCheck \/ EnqueuePush \/ EnqueueFailed \/ RetryPop
  BY <1>8, <1>9 DEF EnqueueCheck, EnqueuePush, EnqueueFailed, RetryPop, RetryGoto
<1>10. ASSUME NEW g \in Streams, StreamFails(g)
       PROVE  AckHonest'
  BY <1>8, <1>10 DEF StreamFails
<1>11. CASE Quiet
  BY <1>8, <1>11 DEF Quiet
<1> QED
  BY <1>2, <1>3, <1>4, <1>5, <1>6, <1>7, <1>9, <1>10, <1>11, QuietSteps
  DEF Next, Operator, Polling, Retry, Receiver, Consumer

\* A step that delivers a request changes the receiver's counter upwards only.
LEMMA CounterGrows ==
  ASSUME TypeOK, TypeOK', [Next]_vars
  PROVE  next_recv_seq_num <= next_recv_seq_num'
<1> USE DEF senderVars, callVars, recvVars
<1>1. next_recv_seq_num \in Int
  BY DEF TypeOK
<1>2. ASSUME NEW g \in Streams, StreamTransmitHandler(g)
      PROVE  next_recv_seq_num <= next_recv_seq_num'
  <2>1. PICK i \in 1..Len(exchanges[g]) : exchanges[g][i].seq \in Msgs
                                         /\ Receive(exchanges[g][i].seq)
    BY <1>2, HandlerEffect
  <2> QED
    BY <2>1, ReceiveEffect
<1>3. ASSUME NEW g \in Streams, StreamTransmitLate(g)
      PROVE  next_recv_seq_num <= next_recv_seq_num'
  <2>1. late[g] \in Seq(Msgs) /\ late[g] # <<>>
    BY <1>3 DEF StreamTransmitLate, TypeOK
  <2>2. Head(late[g]) \in Msgs /\ Receive(Head(late[g]))
    BY <1>3, <2>1, HeadTailType DEF StreamTransmitLate
  <2> QED
    BY <2>2, ReceiveEffect
<1>4. CASE Operator
  BY <1>1, <1>4 DEF Operator, EnqueueCheck, EnqueuePush, EnqueueSent, EnqueueFailed
<1>5. CASE Polling
  BY <1>1, <1>5 DEF Polling, CallbackDelete, CallbackDisable, CallbackRequeue,
                    CallbackTrigger, CallbackPop, RetryAnswered,
                    RetryGoto
<1>6. CASE Retry
  BY <1>1, <1>6 DEF Retry, RetryCheck, RetryArm, RetryWake, RetryReset, RetryPop,
                    RetrySend, RetrySendFailed, RetrySlept, RetryDrained,
                    RetryActivate, RetryGoto
<1>7. CASE Quiet
  BY <1>1, <1>7 DEF Quiet
<1>8. ASSUME NEW g \in Streams, StreamFails(g)
      PROVE  next_recv_seq_num <= next_recv_seq_num'
  BY <1>1, <1>8 DEF StreamFails
<1> QED
  BY <1>2, <1>3, <1>4, <1>5, <1>6, <1>7, <1>8, QuietSteps DEF Next, Receiver, Consumer

\* No step makes the sender drop a request the receiver does not have.
LEMMA NoLossStep ==
  ASSUME TypeOK, TypeOK', Numbered, Owned, AckHonest, NoMessageLost, [Next]_vars
  PROVE  NoMessageLost'
<1> USE DEF senderVars, callVars, recvVars
<1> SUFFICES ASSUME NEW m \in Msgs, m < seq_num', ~(m < next_recv_seq_num')
             PROVE  Holds(m)'
  BY DEF NoMessageLost
<1>1. next_recv_seq_num <= next_recv_seq_num' /\ ~(m < next_recv_seq_num)
  <2>1. next_recv_seq_num <= next_recv_seq_num'
    BY CounterGrows
  <2> QED
    BY <2>1 DEF TypeOK
<1>2. m < seq_num => Holds(m)
  BY <1>1 DEF NoMessageLost
<1>3. CASE EnqueueSent
  <2>1. m < seq_num \/ m = seq_num
    BY <1>3 DEF EnqueueSent, TypeOK
  <2>2. seq_num \in msg_exchanges
    BY <1>3 DEF EnqueueSent, Numbered
  <2> QED
    BY <1>2, <1>3, <2>1, <2>2 DEF EnqueueSent, Holds
<1>4. CASE EnqueueCheck \/ EnqueuePush
  BY <1>2, <1>4 DEF EnqueueCheck, EnqueuePush, Holds
<1>5. CASE EnqueueFailed
  <2>1. m < seq_num /\ m # seq_num
    BY <1>5 DEF EnqueueFailed, TypeOK
  <2> QED
    BY <1>2, <1>5, <2>1 DEF EnqueueFailed, Holds
<1>6. ASSUME NEW g \in Streams, CallbackPop(g)
      PROVE  Holds(m)'
  <2>1. m < seq_num /\ Holds(m)
    BY <1>2, <1>6 DEF CallbackPop
  <2>2. /\ cb = NoCb
        /\ msg_exchanges' = msg_exchanges \ {Head(exchanges[g]).seq}
        /\ cb'.seq = Head(exchanges[g]).seq
        /\ UNCHANGED <<msg_reexchanges, retry_msg>>
    BY <1>6 DEF CallbackPop, Owned
  <2>3. m # cb.seq
    BY <2>2
  <2> QED
    BY <2>1, <2>2, <2>3 DEF Holds
<1>7. CASE CallbackDelete
  <2>1. m # cb.seq
    BY <1>1, <1>7 DEF CallbackDelete, AckHonest
  <2> QED
    BY <1>2, <1>7, <2>1 DEF CallbackDelete, Holds
<1>8. CASE CallbackRequeue
  BY <1>2, <1>8 DEF CallbackRequeue, Holds
<1>9. CASE RetryPop
  <2>1. retry_msg = NoMsg
    BY <1>9 DEF RetryPop, RetryGoto, Owned
  <2>2. retry_msg # m
    BY <2>1
  <2> QED
    BY <1>2, <1>9, <2>2 DEF RetryPop, RetryGoto, Holds
<1>10. ASSUME NEW g \in Streams, RetryAnswered(g)
       PROVE  Holds(m)'
  <2>1. Completed(g) /\ PopExchange(g)
    BY <1>10 DEF RetryAnswered
  <2>2. 1 \in 1..Len(exchanges[g]) /\ Head(exchanges[g]) = exchanges[g][1]
    BY <2>1, PopOwned
  <2>3. Outcome(g) \in Delivered => retry_msg < next_recv_seq_num
    BY <1>10, <2>2 DEF RetryAnswered, Outcome, AckHonest
  <2>4. retry_msg' = retry_msg \/ retry_msg # m
    BY <1>1, <1>10, <2>3 DEF RetryAnswered
  <2> QED
    BY <1>2, <1>10, <2>4 DEF RetryAnswered, RetryGoto, Holds
<1>11. CASE UNCHANGED <<seq_num, msg_exchanges, msg_reexchanges, cb, retry_msg>>
  BY <1>2, <1>11 DEF Holds
<1>12. CASE RetrySend
  BY <1>11, <1>12 DEF RetrySend, RetryGoto
<1>13. ASSUME NEW g \in Streams,
              StreamTransmitHandler(g) \/ StreamTransmitLate(g) \/ StreamFails(g)
       PROVE  Holds(m)'
  BY <1>11, <1>13 DEF StreamTransmitHandler, StreamTransmitLate, StreamFails
<1>14. CASE Quiet
  BY <1>11, <1>14 DEF Quiet
<1> QED
  BY <1>3, <1>4, <1>5, <1>6, <1>7, <1>8, <1>9, <1>10, <1>12, <1>13, <1>14, QuietSteps
  DEF Next, Operator, Polling, Retry, Receiver, Consumer

\* Storing a message keeps the mailboxes and their history consistent.
LEMMA ReceiveMailboxes ==
  ASSUME TypeOK, TypeOK', Mailboxes, DataReturnedOnce, NEW m \in Msgs, Receive(m)
  PROVE  Mailboxes' /\ DataReturnedOnce'
<1>1. CASE UNCHANGED <<next_recv_seq_num, slot>>
  BY <1>1, ReceiveEffect DEF Mailboxes, DataReturnedOnce
<1>2. CASE /\ m = next_recv_seq_num
           /\ ~Rejected(m)
           /\ next_recv_seq_num' = next_recv_seq_num + 1
           /\ slot' = [slot EXCEPT ![KeyOf[m]] = m]
  <2>1. consumed' = consumed
    BY ReceiveEffect
  <2>2. KeyOf[m] \in Keys /\ next_recv_seq_num \in Int
    BY DEF TypeOK
  <2>3. \A k \in Keys : slot'[k] = IF k = KeyOf[m] THEN m ELSE slot[k]
    BY <1>2 DEF TypeOK
  <2>4. Mailboxes'
    <3>1. \A k \in Keys : slot'[k] # NoMsg =>
            KeyOf[slot'[k]] = k /\ slot'[k] < next_recv_seq_num'
      BY <1>2, <2>2, <2>3 DEF Mailboxes, TypeOK
    <3>2. \A n \in consumed : n < next_recv_seq_num'
      BY <1>2, <2>2 DEF Mailboxes, TypeOK
    <3> QED
      BY <2>1, <3>1, <3>2 DEF Mailboxes
  <2>5. ASSUME NEW n \in Msgs, KeyOf[n] \in DataKeys
        PROVE  /\ n \in consumed => slot'[KeyOf[n]] # n
               /\ n < next_recv_seq_num' <=> n \in consumed \/ slot'[KeyOf[n]] = n
    <3>1. KeyOf[n] \in Keys
      OBVIOUS
    <3>2. CASE n = m
      <4>1. m \notin consumed
        BY <1>2, <2>2 DEF Mailboxes
      <4>2. slot'[KeyOf[m]] = m
        BY <2>2, <2>3
      <4> QED
        BY <1>2, <2>2, <3>2, <4>1, <4>2
    <3>3. CASE n # m
      <4>1. n < next_recv_seq_num' <=> n < next_recv_seq_num
        BY <1>2, <2>2, <3>3
      <4>2. slot'[KeyOf[n]] = n <=> slot[KeyOf[n]] = n
        <5>1. CASE KeyOf[n] = KeyOf[m]
          BY <1>2, <2>3, <2>5, <3>1, <3>3, <5>1 DEF Rejected
        <5>2. CASE KeyOf[n] # KeyOf[m]
          BY <2>3, <3>1, <5>2
        <5> QED
          BY <5>1, <5>2
      <4> QED
        BY <2>5, <4>1, <4>2 DEF DataReturnedOnce
    <3> QED
      BY <3>2, <3>3
  <2> QED
    BY <2>1, <2>4, <2>5 DEF DataReturnedOnce
<1> QED
  BY <1>1, <1>2, ReceiveEffect

\* Every step keeps them consistent: only the receiver's steps and a consumer
\* touch them.
LEMMA MailboxStep ==
  ASSUME TypeOK, TypeOK', Mailboxes, DataReturnedOnce, [Next]_vars
  PROVE  Mailboxes' /\ DataReturnedOnce'
<1> USE DEF senderVars, callVars, recvVars
<1>1. CASE UNCHANGED <<next_recv_seq_num, slot, consumed>>
  BY <1>1 DEF Mailboxes, DataReturnedOnce
<1>2. ASSUME NEW g \in Streams, StreamTransmitHandler(g)
      PROVE  Mailboxes' /\ DataReturnedOnce'
  <2>1. PICK i \in 1..Len(exchanges[g]) : exchanges[g][i].seq \in Msgs
                                         /\ Receive(exchanges[g][i].seq)
    BY <1>2, HandlerEffect
  <2> QED
    BY <2>1, ReceiveMailboxes
<1>3. ASSUME NEW g \in Streams, StreamTransmitLate(g)
      PROVE  Mailboxes' /\ DataReturnedOnce'
  <2>1. late[g] \in Seq(Msgs) /\ late[g] # <<>>
    BY <1>3 DEF StreamTransmitLate, TypeOK
  <2>2. Head(late[g]) \in Msgs /\ Receive(Head(late[g]))
    BY <1>3, <2>1, HeadTailType DEF StreamTransmitLate
  <2> QED
    BY <2>2, ReceiveMailboxes
<1>4. ASSUME NEW k \in Keys, QueryResult(k)
      PROVE  Mailboxes' /\ DataReturnedOnce'
  <2>1. slot[k] \in Msgs /\ KeyOf[slot[k]] = k /\ slot[k] < next_recv_seq_num
    BY <1>4 DEF QueryResult, Mailboxes, TypeOK
  <2>2. /\ \A j \in Keys : slot'[j] = IF j = k THEN NoMsg ELSE slot[j]
        /\ consumed' = consumed \cup {slot[k]}
        /\ next_recv_seq_num' = next_recv_seq_num
    BY <1>4 DEF QueryResult, TypeOK
  <2>3. Mailboxes'
    BY <2>1, <2>2 DEF Mailboxes
  <2>4. ASSUME NEW n \in Msgs, KeyOf[n] \in DataKeys
        PROVE  /\ n \in consumed' => slot'[KeyOf[n]] # n
               /\ n < next_recv_seq_num' <=> n \in consumed' \/ slot'[KeyOf[n]] = n
    <3>1. KeyOf[n] \in Keys /\ n # NoMsg
      OBVIOUS
    <3>2. CASE n = slot[k]
      BY <2>1, <2>2, <3>1, <3>2
    <3>3. CASE n # slot[k]
      BY <2>2, <2>4, <3>1, <3>3 DEF DataReturnedOnce
    <3> QED
      BY <3>2, <3>3
  <2> QED
    BY <2>3, <2>4 DEF DataReturnedOnce
<1>5. CASE Operator
  BY <1>1, <1>5 DEF Operator, EnqueueCheck, EnqueuePush, EnqueueSent, EnqueueFailed
<1>6. CASE Polling
  BY <1>1, <1>6 DEF Polling, CallbackDelete, CallbackDisable, CallbackRequeue,
                    CallbackTrigger, CallbackPop, RetryAnswered,
                    RetryGoto
<1>7. CASE Retry
  BY <1>1, <1>7 DEF Retry, RetryCheck, RetryArm, RetryWake, RetryReset, RetryPop,
                    RetrySend, RetrySendFailed, RetrySlept, RetryDrained,
                    RetryActivate, RetryGoto
<1>8. ASSUME NEW g \in Streams, StreamTransmitRefused(g) \/ StreamFails(g)
      PROVE  Mailboxes' /\ DataReturnedOnce'
  BY <1>1, <1>8 DEF StreamTransmitRefused, StreamFails
<1>9. CASE ConnectHandler \/ UNCHANGED vars
  BY <1>1, <1>9 DEF ConnectHandler, vars
<1> QED
  BY <1>2, <1>3, <1>4, <1>5, <1>6, <1>7, <1>8, <1>9 DEF Next, Receiver, Consumer

-----------------------------------------------------------------------------
(* The theorems                                                            *)

\* IInv holds initially and every step preserves it: the one induction all the
\* safety results of the bridge follow from.
THEOREM Invariance == Spec => []IInv
<1>1. Init => IInv
  <2> SUFFICES ASSUME Init PROVE IInv
    OBVIOUS
  <2>1. TypeOK
    <3>1. <<>> \in Seq(Exchange) /\ <<>> \in Seq(Msgs)
      OBVIOUS
    <3>2. exchanges \in [Streams -> Seq(Exchange)] /\ late \in [Streams -> Seq(Msgs)]
      BY <3>1 DEF Init
    <3>3. slot \in [Keys -> {NoMsg} \cup Msgs] /\ cb \in {NoCb} /\ cb_pc = "idle"
      BY DEF Init
    <3>4. /\ seq_num \in 0..MaxSeq
          /\ failures \in 0..MaxFailures
          /\ next_recv_seq_num \in 0..MaxSeq
      BY DEF Init
    <3>5. /\ msg_exchanges \in SUBSET Msgs
          /\ msg_reexchanges \in SUBSET Msgs
          /\ consumed \in SUBSET Msgs
          /\ dead \in SUBSET Streams
          /\ link_up \in BOOLEAN
      BY DEF Init
    <3>6. /\ enq = "idle"
          /\ channel_state = "kActive"
          /\ retry_cb = "null"
          /\ retry_pc = "check"
          /\ retry_msg = NoMsg
          /\ stream = NoStream
          /\ finishing = NoStream
      BY DEF Init
    <3> QED
      BY <3>2, <3>3, <3>4, <3>5, <3>6 DEF TypeOK
  <2>2. \A g \in Streams : Len(exchanges[g]) = 0 /\ Len(late[g]) = 0
    BY DEF Init
  <2>3. Numbered
    BY <2>2 DEF Init, Numbered
  <2>4. Owned
    BY <2>2 DEF Init, Owned, OneOwner
  <2>5. AckHonest
    BY <2>2 DEF Init, AckHonest
  <2>6. NoMessageLost /\ Mailboxes
    BY DEF Init, NoMessageLost, Mailboxes
  <2>7. DataReturnedOnce
    BY DEF Init, DataReturnedOnce
  <2> QED
    BY <2>1, <2>3, <2>4, <2>5, <2>6, <2>7 DEF IInv
<1>2. IInv /\ [Next]_vars => IInv'
  <2> SUFFICES ASSUME IInv, [Next]_vars PROVE IInv'
    OBVIOUS
  <2>1. TypeOK'
    BY TypeStep DEF IInv
  <2>2. Numbered' /\ Owned'
    BY <2>1, NumberedStep, OwnedStep DEF IInv
  <2>3. AckHonest' /\ NoMessageLost'
    BY <2>1, AckStep, NoLossStep DEF IInv
  <2>4. Mailboxes' /\ DataReturnedOnce'
    BY <2>1, MailboxStep DEF IInv
  <2> QED
    BY <2>1, <2>2, <2>3, <2>4 DEF IInv
<1> QED
  BY <1>1, <1>2, PTL DEF Spec

\* The types hold in every reachable state, for any number of messages,
\* streams, failures and mailboxes.
THEOREM TypeCorrect == Spec => []TypeOK
<1>1. IInv => TypeOK
  BY DEF IInv
<1> QED
  BY <1>1, Invariance, PTL

\* No message whose operator got OK is lost by the sender.
THEOREM NothingLost == Spec => []NoMessageLost
<1>1. IInv => NoMessageLost
  BY DEF IInv
<1> QED
  BY <1>1, Invariance, PTL

\* A request has one owner and an exchange always finds its cache entry.
THEOREM SingleOwner == Spec => []OneOwner
<1>1. IInv => OneOwner
  BY DEF IInv, Owned
<1> QED
  BY <1>1, Invariance, PTL

\* An acknowledged data message is returned by QueryResult exactly once.
THEOREM DataOnce == Spec => []DataReturnedOnce
<1>1. IInv => DataReturnedOnce
  BY DEF IInv
<1> QED
  BY <1>1, Invariance, PTL

-----------------------------------------------------------------------------
(* Refinement: the bridge implements the reliable channel                   *)

\* Handling a numbered request delivers the next message or changes nothing
\* the channel shows.
LEMMA ReceiveDelivers ==
  ASSUME TypeOK, NEW m \in Msgs, m < seq_num, Receive(m), seq_num' = seq_num
  PROVE  Channel!Deliver \/ UNCHANGED Channel!vars
<1>1. consumed' = consumed
  BY DEF Receive
<1>2. CASE UNCHANGED <<next_recv_seq_num, slot>>
  BY <1>1, <1>2 DEF Channel!vars
<1>3. CASE /\ m = next_recv_seq_num
           /\ ~Rejected(m)
           /\ next_recv_seq_num' = next_recv_seq_num + 1
           /\ slot' = [slot EXCEPT ![KeyOf[m]] = m]
  <2>1. KeyOf[m] \in DataKeys => slot[KeyOf[m]] = NoMsg
    BY <1>3 DEF Rejected
  <2> QED
    BY <1>1, <1>3, <2>1 DEF Channel!Deliver, Channel!NoMsg
<1> QED
  BY <1>2, <1>3, ReceiveEffect

\* Every step of the bridge is a step of the channel or changes nothing of it.
LEMMA ChannelStep ==
  ASSUME TypeOK, Numbered, [Next]_vars
  PROVE  Channel!Next \/ UNCHANGED Channel!vars
<1> USE DEF senderVars, callVars, recvVars
<1>1. CASE UNCHANGED <<seq_num, next_recv_seq_num, slot, consumed>>
  BY <1>1 DEF Channel!vars
<1>2. ASSUME NEW g \in Streams, StreamTransmitHandler(g)
      PROVE  Channel!Next \/ UNCHANGED Channel!vars
  <2>1. PICK i \in 1..Len(exchanges[g]) : exchanges[g][i].seq \in Msgs
                                         /\ Receive(exchanges[g][i].seq)
    BY <1>2, HandlerEffect
  <2>2. exchanges[g][i].seq < seq_num /\ seq_num' = seq_num
    BY <1>2 DEF Numbered, StreamTransmitHandler
  <2> QED
    BY <2>1, <2>2, ReceiveDelivers DEF Channel!Next
<1>3. ASSUME NEW g \in Streams, StreamTransmitLate(g)
      PROVE  Channel!Next \/ UNCHANGED Channel!vars
  <2>1. late[g] \in Seq(Msgs) /\ late[g] # <<>>
    BY <1>3 DEF StreamTransmitLate, TypeOK
  <2>2. Head(late[g]) \in Msgs /\ Receive(Head(late[g]))
    BY <1>3, <2>1, HeadTailType DEF StreamTransmitLate
  <2>3. Head(late[g]) = late[g][1] /\ 1 \in 1..Len(late[g])
    BY <2>1
  <2>4. Head(late[g]) < seq_num /\ seq_num' = seq_num
    BY <1>3, <2>3 DEF Numbered, StreamTransmitLate
  <2> QED
    BY <2>2, <2>4, ReceiveDelivers DEF Channel!Next
<1>4. ASSUME NEW k \in Keys, QueryResult(k)
      PROVE  Channel!Next
  BY <1>4 DEF QueryResult, Channel!Next, Channel!Consume, Channel!NoMsg
<1>5. CASE EnqueueSent
  BY <1>5 DEF EnqueueSent, Channel!Next, Channel!Send
<1>6. CASE EnqueueCheck \/ EnqueuePush \/ EnqueueFailed
  BY <1>1, <1>6 DEF EnqueueCheck, EnqueuePush, EnqueueFailed
<1>7. CASE Polling
  BY <1>1, <1>7 DEF Polling, CallbackDelete, CallbackDisable, CallbackRequeue,
                    CallbackTrigger, CallbackPop, RetryAnswered,
                    RetryGoto
<1>8. CASE Retry
  BY <1>1, <1>8 DEF Retry, RetryCheck, RetryArm, RetryWake, RetryReset, RetryPop,
                    RetrySend, RetrySendFailed, RetrySlept, RetryDrained,
                    RetryActivate, RetryGoto
<1>9. ASSUME NEW g \in Streams, StreamTransmitRefused(g) \/ StreamFails(g)
      PROVE  Channel!Next \/ UNCHANGED Channel!vars
  BY <1>1, <1>9 DEF StreamTransmitRefused, StreamFails
<1>10. CASE ConnectHandler \/ UNCHANGED vars
  BY <1>1, <1>10 DEF ConnectHandler, vars
<1> QED
  BY <1>2, <1>3, <1>4, <1>5, <1>6, <1>7, <1>8, <1>9, <1>10
  DEF Next, Operator, Receiver, Consumer

\* The bridge implements the reliable channel: whatever fails, and however
\* often it resends, the receiver's mailboxes get the operators' messages in
\* order and exactly once.
THEOREM Refinement == Spec => ImplementsChannel
<1>1. Init => Channel!Init
  BY DEF Init, Channel!Init, Channel!NoMsg
<1>2. IInv /\ [Next]_vars => [Channel!Next]_Channel!vars
  BY ChannelStep DEF IInv
<1> QED
  BY <1>1, <1>2, Invariance, PTL DEF Spec, ImplementsChannel, Channel!Spec
=============================================================================
