----------------------------- MODULE RpcBridge -----------------------------
(***************************************************************************)
(* The asynchronous bidirectional-streaming mode of the trainer's RPC      *)
(* bridge, one direction of it: the RpcBridgeAgent of the sending trainer  *)
(* (operator threads, the completion-queue polling thread and the          *)
(* rpc_retry_chk thread) and the StreamTransmitHandler and                 *)
(* RpcBridgeRecvCache of the receiving one, connected by gRPC streams that *)
(* may fail at any moment.                                                 *)
(*                                                                         *)
(* A message is its sequence number.  Critical sections are atomic; a      *)
(* thread that releases a lock between two of them takes two steps.        *)
(***************************************************************************)
EXTENDS Integers, Sequences

CONSTANTS
  Keys,         \* mailboxes of the receive cache
  DataKeys,     \* those of kData messages (wait_consumer)
  KeyOf,        \* mailbox of message m
  Streams,      \* identities for streaming calls, reused when drained
  NoStream,     \* the dispatcher's state_ == nullptr
  MaxSeq,       \* bound: messages the operators send
  MaxFailures   \* bound: stream failures

ASSUME RpcBridgeAssumption ==
  /\ MaxSeq \in Nat
  /\ MaxFailures \in Nat
  /\ NoStream \notin Streams
  /\ DataKeys \subseteq Keys
  /\ KeyOf \in [0..MaxSeq -> Keys]

NoMsg == -1
Msgs == 0..(MaxSeq - 1)

(***************************************************************************)
(* Result codes of a response; PENDING marks an exchange the server has    *)
(* not answered, FAILED the non-OK Status given to a callback.             *)
(***************************************************************************)
ResultCodes == {"SUCCESS", "MESSAGE_DUPLICATED", "MESSAGE_MISSING", "UNKNOWN_ERROR"}
Delivered == {"SUCCESS", "MESSAGE_DUPLICATED"}

VARIABLES
  \* sender: operator threads, serialised by request_write_mu_
  seq_num,            \* RunStepStats::seq_num, the number of the next message
  enq,                \* progress of StreamingRequestEnqueue; not "idle": holds dispatch_mu_
  \* sender: state shared by the three kinds of threads
  channel_state,
  msg_exchanges,      \* requests whose response is awaited (deque and cache)
  msg_reexchanges,    \* requests to resend (priority queue, smallest first)
  retry_cb,           \* retry_cb_: "null", "set", or "fired" once it has notified
  \* sender: polling thread
  cb_pc,              \* progress of the callback of an exchange
  cb,                 \* the request the callback has popped, with the outcome
  finishing,          \* the failed call whose exchanges it is completing
  \* sender: rpc_retry_chk thread
  retry_pc,
  retry_msg,          \* the request it has popped from msg_reexchanges
  \* streaming calls
  stream,             \* the dispatcher's current call
  dead,               \* calls that have failed
  exchanges,          \* outstanding exchanges of each call, in order
  late,               \* requests of a failed call the server may still read
  failures,
  \* receiver
  link_up,
  next_recv_seq_num,
  slot,               \* the ACTIVE message of each cache entry, or NoMsg
  consumed            \* history: messages returned by QueryResult

senderVars == <<seq_num, enq, channel_state, msg_exchanges, msg_reexchanges,
                retry_cb, cb_pc, cb, retry_pc, retry_msg>>
callVars == <<stream, dead, exchanges, finishing, late, failures>>
recvVars == <<link_up, next_recv_seq_num, slot, consumed>>
vars == <<senderVars, callVars, recvVars>>

Exchange == [seq : Msgs, code : ResultCodes \cup {"PENDING"}]
NoCb == [seq |-> NoMsg, code |-> "NONE"]

TypeOK ==
  /\ seq_num \in 0..MaxSeq
  /\ enq \in {"idle", "checked", "pushed"}
  /\ channel_state \in {"kActive", "kInactive"}
  /\ msg_exchanges \in SUBSET Msgs
  /\ msg_reexchanges \in SUBSET Msgs
  /\ retry_cb \in {"null", "set", "fired"}
  /\ cb_pc \in {"idle", "outcome", "requeue", "trigger"}
  /\ cb \in {NoCb} \cup [seq : Msgs, code : ResultCodes \cup {"FAILED"}]
  /\ retry_pc \in {"check", "arm", "wait", "reset", "pop", "send", "await",
                   "sleep", "activate"}
  /\ retry_msg \in {NoMsg} \cup Msgs
  /\ stream \in {NoStream} \cup Streams
  /\ dead \in SUBSET Streams
  /\ exchanges \in [Streams -> Seq(Exchange)]
  /\ finishing \in {NoStream} \cup Streams
  /\ late \in [Streams -> Seq(Msgs)]
  /\ failures \in 0..MaxFailures
  /\ link_up \in BOOLEAN
  /\ next_recv_seq_num \in 0..MaxSeq
  /\ slot \in [Keys -> {NoMsg} \cup Msgs]
  /\ consumed \in SUBSET Msgs

Init ==
  /\ seq_num = 0
  /\ enq = "idle"
  /\ channel_state = "kActive"
  /\ msg_exchanges = {}
  /\ msg_reexchanges = {}
  /\ retry_cb = "null"
  /\ cb_pc = "idle"
  /\ cb = NoCb
  /\ retry_pc = "check"
  /\ retry_msg = NoMsg
  /\ stream = NoStream
  /\ dead = {}
  /\ exchanges = [g \in Streams |-> <<>>]
  /\ finishing = NoStream
  /\ late = [g \in Streams |-> <<>>]
  /\ failures = 0
  /\ link_up = FALSE
  /\ next_recv_seq_num = 0
  /\ slot = [k \in Keys |-> NoMsg]
  /\ consumed = {}

-----------------------------------------------------------------------------
(* FlStreamingRPCDispatcher                                                *)

\* A stream identity no call uses any more.
Free(g) == g # stream /\ exchanges[g] = <<>> /\ late[g] = <<>>

\* SendNextRequest, the live case: create the call if there is none, then
\* queue the request on it.
SendNextRequest(m) ==
  \E g \in Streams :
    /\ \/ /\ stream = NoStream
          /\ Free(g)
          /\ dead' = dead \ {g}
       \/ /\ stream = g
          /\ g \notin dead
          /\ dead' = dead
    /\ stream' = g
    /\ exchanges' = [exchanges EXCEPT
                       ![g] = Append(@, [seq |-> m, code |-> "PENDING"])]
    /\ UNCHANGED <<finishing, late, failures>>

\* SendNextRequest, the other case: the call is dead, `done` is not invoked.
CallDead == stream \in dead

ResetCall ==
  /\ stream' = NoStream
  /\ UNCHANGED <<dead, exchanges, finishing, late, failures>>

-----------------------------------------------------------------------------
(* Operator thread: StreamingRequestEnqueue under dispatch_mu_             *)

DispatchFree == enq = "idle"

EnqueueCheck ==
  /\ enq = "idle"
  /\ seq_num < MaxSeq
  /\ channel_state = "kActive"
  /\ enq' = "checked"
  /\ UNCHANGED <<seq_num, channel_state, msg_exchanges, msg_reexchanges,
                 retry_cb, cb_pc, cb, retry_pc, retry_msg, callVars, recvVars>>

EnqueuePush ==
  /\ enq = "checked"
  /\ msg_exchanges' = msg_exchanges \cup {seq_num}
  /\ enq' = "pushed"
  /\ UNCHANGED <<seq_num, channel_state, msg_reexchanges, retry_cb,
                 cb_pc, cb, retry_pc, retry_msg, callVars, recvVars>>

\* The request is on the stream: the operator gets OK and commits the number.
EnqueueSent ==
  /\ enq = "pushed"
  /\ SendNextRequest(seq_num)
  /\ seq_num' = seq_num + 1
  /\ enq' = "idle"
  /\ UNCHANGED <<channel_state, msg_exchanges, msg_reexchanges, retry_cb,
                 cb_pc, cb, retry_pc, retry_msg, recvVars>>

\* The call was dead: the request is taken back and the operator gets an error.
EnqueueFailed ==
  /\ enq = "pushed"
  /\ CallDead
  /\ msg_exchanges' = msg_exchanges \ {seq_num}
  /\ enq' = "idle"
  /\ UNCHANGED <<seq_num, channel_state, msg_reexchanges, retry_cb,
                 cb_pc, cb, retry_pc, retry_msg, callVars, recvVars>>

-----------------------------------------------------------------------------
(* Polling thread: the callback of an exchange, in the order of its call   *)

\* The head exchange of call g can be completed: answered, or its call failed.
\* The exchanges of a failed call are completed in one go by the polling thread.
Completed(g) ==
  /\ finishing \in {NoStream, g}
  /\ exchanges[g] # <<>>
  /\ g \in dead \/ Head(exchanges[g]).code # "PENDING"

Outcome(g) == IF g \in dead THEN "FAILED" ELSE Head(exchanges[g]).code

PopExchange(g) ==
  /\ exchanges' = [exchanges EXCEPT ![g] = Tail(@)]
  /\ finishing' = IF g \in dead /\ Tail(exchanges[g]) # <<>> THEN g ELSE NoStream

\* First critical section: the request leaves msg_exchanges_.
CallbackPop(g) ==
  /\ cb_pc = "idle"
  /\ cb_pc' = "outcome"
  /\ Completed(g)
  /\ Head(exchanges[g]).seq \in msg_exchanges
  /\ cb' = [seq |-> Head(exchanges[g]).seq, code |-> Outcome(g)]
  /\ msg_exchanges' = msg_exchanges \ {Head(exchanges[g]).seq}
  /\ PopExchange(g)
  /\ UNCHANGED <<seq_num, enq, channel_state, msg_reexchanges, retry_cb,
                 retry_pc, retry_msg, stream, dead, late, failures, recvVars>>

\* "last msg in exchanges queue": wake the retry thread if it is waiting.
TriggerResend(reexchanges) ==
  retry_cb' = IF msg_exchanges = {} /\ reexchanges # {} /\ retry_cb = "set"
              THEN "fired" ELSE retry_cb

\* The peer has the message: the request is deleted.
CallbackDelete ==
  /\ cb_pc = "outcome"
  /\ cb.code \in Delivered
  /\ cb_pc' = "trigger"
  /\ cb' = NoCb
  /\ UNCHANGED <<seq_num, enq, channel_state, msg_exchanges, msg_reexchanges,
                 retry_cb, retry_pc, retry_msg, callVars, recvVars>>

\* The response is an error or the call failed: disable requests (no lock held).
CallbackDisable ==
  /\ cb_pc = "outcome"
  /\ cb.code \notin Delivered
  /\ cb_pc' = "requeue"
  /\ channel_state' = "kInactive"
  /\ UNCHANGED <<seq_num, enq, msg_exchanges, msg_reexchanges, retry_cb, cb,
                 retry_pc, retry_msg, callVars, recvVars>>

\* Mutant: the branch of the shutdown, which deletes the request, is taken.
CallbackRequeueDropped ==
  /\ cb_pc = "requeue"
  /\ cb' = NoCb
  /\ cb_pc' = "trigger"
  /\ UNCHANGED <<seq_num, enq, channel_state, msg_exchanges, msg_reexchanges,
                 retry_cb, retry_pc, retry_msg, callVars, recvVars>>

\* Add to the retry queue; after a failed call in one section with the trigger.
CallbackRequeue ==
  /\ cb_pc = "requeue"
  /\ msg_reexchanges' = msg_reexchanges \cup {cb.seq}
  /\ cb' = NoCb
  /\ \/ /\ cb.code = "FAILED"
        /\ TriggerResend(msg_reexchanges')
        /\ cb_pc' = "idle"
     \/ /\ cb.code # "FAILED"
        /\ UNCHANGED retry_cb
        /\ cb_pc' = "trigger"
  /\ UNCHANGED <<seq_num, enq, channel_state, msg_exchanges, retry_pc,
                 retry_msg, callVars, recvVars>>

CallbackTrigger ==
  /\ cb_pc = "trigger"
  /\ TriggerResend(msg_reexchanges)
  /\ cb_pc' = "idle"
  /\ UNCHANGED <<seq_num, enq, channel_state, msg_exchanges, msg_reexchanges,
                 cb, retry_pc, retry_msg, callVars, recvVars>>

-----------------------------------------------------------------------------
(* rpc_retry_chk thread                                                    *)

RetryGoto(from, to) ==
  /\ retry_pc = from
  /\ retry_pc' = to
  /\ UNCHANGED <<seq_num, enq, msg_exchanges, cb_pc, cb, recvVars>>

\* The unlocked look at msg_reexchanges_ at the top of the loop.
RetryCheck ==
  /\ RetryGoto("check", IF msg_reexchanges = {} THEN "arm" ELSE "pop")
  /\ UNCHANGED <<channel_state, msg_reexchanges, retry_cb, retry_msg, callVars>>

RetryArm ==
  /\ DispatchFree
  /\ RetryGoto("arm", "wait")
  /\ retry_cb' = "set"
  /\ UNCHANGED <<channel_state, msg_reexchanges, retry_msg, callVars>>

RetryWake ==
  /\ retry_cb = "fired"
  /\ RetryGoto("wait", "reset")
  /\ retry_cb' = "null"
  /\ UNCHANGED <<channel_state, msg_reexchanges, retry_msg, callVars>>

RetryReset ==
  /\ DispatchFree
  /\ RetryGoto("reset", "pop")
  /\ ResetCall
  /\ UNCHANGED <<channel_state, msg_reexchanges, retry_cb, retry_msg>>

\* Mutant: top() without pop().
RetryPopKept ==
  /\ RetryGoto("pop", "send")
  /\ \E m \in msg_reexchanges :
       /\ \A n \in msg_reexchanges : m <= n
       /\ retry_msg' = m
  /\ UNCHANGED <<channel_state, msg_reexchanges, retry_cb, callVars>>

RetryPop ==
  /\ RetryGoto("pop", "send")
  /\ \E m \in msg_reexchanges :
       /\ \A n \in msg_reexchanges : m <= n
       /\ retry_msg' = m
       /\ msg_reexchanges' = msg_reexchanges \ {m}
  /\ UNCHANGED <<channel_state, retry_cb, callVars>>

RetrySend ==
  /\ DispatchFree
  /\ RetryGoto("send", "await")
  /\ SendNextRequest(retry_msg)
  /\ UNCHANGED <<channel_state, msg_reexchanges, retry_cb, retry_msg>>

RetrySendFailed ==
  /\ DispatchFree
  /\ CallDead
  /\ RetryGoto("send", "sleep")
  /\ UNCHANGED <<channel_state, msg_reexchanges, retry_cb, retry_msg, callVars>>

\* Mutant: the dead call is kept after the sleep.
RetrySleptNoReset ==
  /\ DispatchFree
  /\ RetryGoto("sleep", "send")
  /\ UNCHANGED <<channel_state, msg_reexchanges, retry_cb, retry_msg, callVars>>

\* After the sleep that follows a failed send or a failed exchange.
RetrySlept ==
  /\ DispatchFree
  /\ RetryGoto("sleep", "send")
  /\ ResetCall
  /\ UNCHANGED <<channel_state, msg_reexchanges, retry_cb, retry_msg>>

\* The exchange of the resent request completes (run by the polling thread).
RetryAnswered(g) ==
  /\ cb_pc = "idle"
  /\ Completed(g)
  /\ Head(exchanges[g]).seq = retry_msg
  /\ PopExchange(g)
  /\ \/ /\ Outcome(g) = "FAILED"
        /\ RetryGoto("await", "sleep")
        /\ UNCHANGED retry_msg
     \/ /\ Outcome(g) \in Delivered
        /\ RetryGoto("await", "pop")
        /\ retry_msg' = NoMsg
     \/ /\ Outcome(g) \notin Delivered \cup {"FAILED"}
        /\ RetryGoto("await", "send")
        /\ UNCHANGED retry_msg
  /\ UNCHANGED <<channel_state, msg_reexchanges, retry_cb, stream, dead, late,
                 failures>>

\* The inner loop found msg_reexchanges_ empty.
RetryDrained ==
  /\ msg_reexchanges = {}
  /\ RetryGoto("pop", "activate")
  /\ UNCHANGED <<channel_state, msg_reexchanges, retry_cb, retry_msg, callVars>>

\* Mutant: the channel is not enabled again.
RetryActivateForgotten ==
  /\ RetryGoto("activate", "check")
  /\ UNCHANGED <<channel_state, msg_reexchanges, retry_cb, retry_msg, callVars>>

RetryActivate ==
  /\ RetryGoto("activate", "check")
  /\ channel_state' = "kActive"
  /\ UNCHANGED <<msg_reexchanges, retry_cb, retry_msg, callVars>>

-----------------------------------------------------------------------------
(* Receiver: StreamTransmitHandler on the single tcq thread                *)

ConnectHandler ==
  /\ ~link_up
  /\ link_up' = TRUE
  /\ UNCHANGED <<senderVars, callVars, next_recv_seq_num, slot, consumed>>

\* Mutant: wait_consumer is never set.
RejectedNever(m) == FALSE

\* OnReceived refuses a data message while the previous one is unconsumed.
Rejected(m) == KeyOf[m] \in DataKeys /\ slot[KeyOf[m]] # NoMsg

\* Mutant: a message from the future is stored too.
ResponseCodeNoGap(m) ==
  CASE m < next_recv_seq_num -> "MESSAGE_DUPLICATED"
    [] m >= next_recv_seq_num /\ Rejected(m) -> "UNKNOWN_ERROR"
    [] OTHER -> "SUCCESS"

ResponseCode(m) ==
  CASE m > next_recv_seq_num -> "MESSAGE_MISSING"
    [] m < next_recv_seq_num -> "MESSAGE_DUPLICATED"
    [] m = next_recv_seq_num /\ Rejected(m) -> "UNKNOWN_ERROR"
    [] OTHER -> "SUCCESS"

\* What handling message m does to the receiver.
Receive(m) ==
  /\ IF ResponseCode(m) = "SUCCESS"
     THEN /\ next_recv_seq_num' = next_recv_seq_num + 1
          /\ slot' = [slot EXCEPT ![KeyOf[m]] = m]
     ELSE UNCHANGED <<next_recv_seq_num, slot>>
  /\ UNCHANGED <<link_up, consumed>>

\* The server reads the first unanswered request of a live call and answers it.
StreamTransmitHandler(g) ==
  /\ link_up
  /\ g \notin dead
  /\ \E i \in 1..Len(exchanges[g]) :
       /\ exchanges[g][i].code = "PENDING"
       /\ \A j \in 1..(i - 1) : exchanges[g][j].code # "PENDING"
       /\ Receive(exchanges[g][i].seq)
       /\ exchanges' = [exchanges EXCEPT ![g][i] =
                          [seq |-> @.seq, code |-> ResponseCode(@.seq)]]
  /\ UNCHANGED <<senderVars, stream, dead, finishing, late, failures>>

\* Without a connected peer the call is finished with CANCELLED.
StreamTransmitRefused(g) ==
  /\ ~link_up
  /\ g \notin dead
  /\ exchanges[g] # <<>>
  /\ dead' = dead \cup {g}
  /\ UNCHANGED <<senderVars, stream, exchanges, finishing, late, failures, recvVars>>

\* The server reads, from its buffers, a request of a call the client gave up.
StreamTransmitLate(g) ==
  /\ late[g] # <<>>
  /\ link_up
  /\ Receive(Head(late[g]))
  /\ late' = [late EXCEPT ![g] = Tail(@)]
  /\ UNCHANGED <<senderVars, stream, dead, exchanges, finishing, failures>>

\* QueryResult returns the message of an ACTIVE entry.
QueryResult(k) ==
  /\ slot[k] # NoMsg
  /\ consumed' = consumed \cup {slot[k]}
  /\ slot' = [slot EXCEPT ![k] = NoMsg]
  /\ UNCHANGED <<senderVars, callVars, link_up, next_recv_seq_num>>

-----------------------------------------------------------------------------
(* The network                                                             *)

\* A call with an exchange outstanding fails.  The responses in flight are lost;
\* of the unanswered requests the server may still read any prefix.
StreamFails(g) ==
  /\ failures < MaxFailures
  /\ g \notin dead
  /\ exchanges[g] # <<>>
  /\ dead' = dead \cup {g}
  /\ \E answered, n \in 0..Len(exchanges[g]) :
       /\ \A i \in 1..Len(exchanges[g]) :
            i <= answered <=> exchanges[g][i].code # "PENDING"
       /\ n <= Len(exchanges[g]) - answered
       /\ late' = [late EXCEPT ![g] =
                     [i \in 1..n |-> exchanges[g][answered + i].seq]]
  /\ failures' = failures + 1
  /\ UNCHANGED <<senderVars, stream, exchanges, finishing, recvVars>>

-----------------------------------------------------------------------------
Operator == EnqueueCheck \/ EnqueuePush \/ EnqueueSent \/ EnqueueFailed

Polling ==
  \/ CallbackDelete \/ CallbackDisable \/ CallbackRequeue \/ CallbackTrigger
  \/ \E g \in Streams : CallbackPop(g) \/ RetryAnswered(g)

Retry ==
  \/ RetryCheck \/ RetryArm \/ RetryWake \/ RetryReset \/ RetryPop \/ RetrySend
  \/ RetrySendFailed \/ RetrySlept \/ RetryDrained \/ RetryActivate

Receiver ==
  \/ ConnectHandler
  \/ \E g \in Streams : \/ StreamTransmitHandler(g)
                        \/ StreamTransmitRefused(g)
                        \/ StreamTransmitLate(g)

Consumer == \E k \in Keys : QueryResult(k)

Next ==
  \/ Operator
  \/ Polling
  \/ Retry
  \/ Receiver
  \/ Consumer
  \/ \E g \in Streams : StreamFails(g)

Spec == Init /\ [][Next]_vars
-----------------------------------------------------------------------------
(* Safety                                                                  *)

\* The sender's four places for a request it still answers for.
Holds(m) ==
  \/ m \in msg_exchanges
  \/ m \in msg_reexchanges
  \/ m = cb.seq
  \/ m = retry_msg

\* A request the operators were told is on its way is either in the receiver's
\* cache already or still held by the sender: no failure of a call, late answer
\* or error response makes the agent delete an undelivered request
\* (rpc_bridge_agent.cc, the callback of StreamingRequestEnqueue and the
\* resend loop).
NoMessageLost ==
  \A m \in Msgs : m < seq_num => m < next_recv_seq_num \/ Holds(m)

\* Every request is in one place only, so it is deleted once, and the callback
\* of an exchange always finds the entry the agent looks up: the lines that log
\* "*** BUG : Unexpected missing cache entry" are never reached.
OneOwner ==
  /\ msg_exchanges \cap msg_reexchanges = {}
  /\ cb.seq \notin msg_exchanges \cup msg_reexchanges
  /\ retry_msg \notin msg_exchanges \cup msg_reexchanges
  /\ cb.seq = retry_msg => cb = NoCb
  /\ \A g \in Streams : \A i \in 1..Len(exchanges[g]) :
       \/ exchanges[g][i].seq \in msg_exchanges
       \/ exchanges[g][i].seq = retry_msg /\ retry_pc = "await"

\* A data message that was acknowledged with SUCCESS is either waiting in its
\* cache entry or was returned by QueryResult, never both and never neither:
\* OnReceived rejects a message rather than overwrite one, and no resend
\* stores a message a second time.
DataReturnedOnce ==
  \A m \in Msgs :
    KeyOf[m] \in DataKeys =>
      /\ m \in consumed => slot[KeyOf[m]] # m
      /\ m < next_recv_seq_num <=> m \in consumed \/ slot[KeyOf[m]] = m

\* "Disable Request, wait retry finish": while requests wait to be resent the
\* channel accepts no new ones.
DisabledUntilResent == channel_state = "kActive" => msg_reexchanges = {}

\* The channel the bridge implements.
Channel == INSTANCE ReliableChannel
             WITH sent <- seq_num, delivered <- next_recv_seq_num, mailbox <- slot

\* Messages reach the mailboxes in order and exactly once, whatever the calls
\* that carry them do.
ImplementsChannel == Channel!Spec

-----------------------------------------------------------------------------
(* The inductive invariant behind the safety properties                    *)

\* Whatever is held, in flight or delivered was numbered by an operator.
Numbered ==
  /\ enq # "idle" => seq_num < MaxSeq
  /\ enq = "pushed" => seq_num \in msg_exchanges
  /\ \A m \in msg_exchanges : m < seq_num \/ (m = seq_num /\ enq = "pushed")
  /\ \A m \in msg_reexchanges : m < seq_num
  /\ cb.seq < seq_num
  /\ retry_msg < seq_num
  /\ next_recv_seq_num <= seq_num
  /\ \A g \in Streams : \A i \in 1..Len(exchanges[g]) : exchanges[g][i].seq < seq_num
  /\ \A g \in Streams : \A i \in 1..Len(late[g]) : late[g][i] < seq_num

\* One exchange at a time carries a request, and it belongs to the request's
\* owner.
Owned ==
  /\ OneOwner
  /\ cb # NoCb <=> cb_pc \in {"outcome", "requeue"}
  /\ retry_msg # NoMsg <=> retry_pc \in {"send", "await", "sleep"}
  /\ \A g, h \in Streams :
       \A i \in 1..Len(exchanges[g]), j \in 1..Len(exchanges[h]) :
         exchanges[g][i].seq = exchanges[h][j].seq => g = h /\ i = j

\* A response that lets the sender delete a request is never premature.
AckHonest ==
  /\ cb.code \in Delivered => cb.seq < next_recv_seq_num
  /\ \A g \in Streams : \A i \in 1..Len(exchanges[g]) :
       exchanges[g][i].code \in Delivered =>
         exchanges[g][i].seq < next_recv_seq_num

\* What the cache holds and what was consumed are messages delivered, each
\* in its own mailbox.
Mailboxes ==
  /\ \A k \in Keys : slot[k] # NoMsg => KeyOf[slot[k]] = k /\ slot[k] < next_recv_seq_num
  /\ \A m \in consumed : m < next_recv_seq_num

IInv == TypeOK /\ Numbered /\ Owned /\ AckHonest /\ NoMessageLost
          /\ Mailboxes /\ DataReturnedOnce

-----------------------------------------------------------------------------
(* Liveness                                                                *)

\* Every thread runs, the peer connects, consumers keep calling QueryResult and
\* the server reads or drops what a failed call left in its buffers.  Only the
\* operators (EnqueueCheck) and failures are under no obligation.
Fairness ==
  /\ WF_vars(EnqueuePush)
  /\ WF_vars(EnqueueSent)
  /\ WF_vars(EnqueueFailed)
  /\ WF_vars(CallbackDelete)
  /\ WF_vars(CallbackDisable)
  /\ WF_vars(CallbackRequeue)
  /\ WF_vars(CallbackTrigger)
  /\ SF_vars(Retry)
  /\ WF_vars(ConnectHandler)
  /\ \A g \in Streams : /\ WF_vars(CallbackPop(g))
                        /\ WF_vars(RetryAnswered(g))
                        /\ WF_vars(StreamTransmitHandler(g))
                        /\ WF_vars(StreamTransmitLate(g))
  /\ \A k \in Keys : WF_vars(QueryResult(k))

FairSpec == Spec /\ Fairness

\* "Disable Request, wait channel recover": a disabled channel is enabled again.
ChannelRecovers == channel_state = "kInactive" ~> channel_state = "kActive"

\* The retry thread sleeps on a callback nobody is left to call.
LostWakeup ==
  /\ retry_pc = "wait"
  /\ retry_cb = "set"
  /\ msg_reexchanges # {}
  /\ msg_exchanges = {}
  /\ cb_pc = "idle"

\* The retry thread resends a request the receiver will answer with
\* MESSAGE_MISSING until a smaller one, queued behind it, has been resent.
ResendOutOfOrder ==
  /\ retry_msg # NoMsg
  /\ \E m \in msg_reexchanges : m < retry_msg
\* The two situations above are the only ways in which the bridge stops: every
\* message whose operator got OK is delivered, or the retry thread is in one of
\* them.
DeliveredUnlessStuck ==
  \A m \in Msgs :
    m < seq_num ~> m < next_recv_seq_num \/ LostWakeup \/ ResendOutOfOrder

\* Likewise a disabled channel.
RecoversUnlessStuck ==
  channel_state = "kInactive" ~>
    channel_state = "kActive" \/ LostWakeup \/ ResendOutOfOrder
=============================================================================
