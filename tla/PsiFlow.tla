------------------------------- MODULE PsiFlow -------------------------------
(***************************************************************************)
(* The exchange of one block (PSI/psi/interconnection_psi): the handshake  *)
(* (shakehand_flow, Context), then up to four threads on each side         *)
(* (diffie_hellman_flow, CipherStore):                                     *)
(*   "enc"      sends the own ids under the own key, batch by batch;       *)
(*   "recv"     adds the own key to the peer's batches, queues them for    *)
(*              "sendDual" and collects them in peer_cipher_set;           *)
(*   "sendDual" returns the batches to the peer on a second channel;       *)
(*   "recvDual" looks the own, returned ciphers up in peer_cipher_set.     *)
(* A thread that raises just ends: threading.Thread tells nobody, and      *)
(* diffie_hellman_flow joins it like one that is done.                     *)
(***************************************************************************)
EXTENDS Integers, Sequences, FiniteSets, SequencesExt, FiniteSetsExt

CONSTANTS HashedIds,       \* the hashed ids
          Inputs,    \* pairs of id columns to exchange
          Offers,    \* pairs of contexts to negotiate
          Batch,     \* BATCH
          Window,    \* throttle_window_size: messages a Send may run ahead
          MaxLinkErrors  \* bound: errors of redis and the link in a behaviour

ASSUME BoundsAssumption == /\ Batch \in Nat \ {0} /\ Window \in Nat \ {0}
                           /\ MaxLinkErrors \in Nat

Side == {"sender", "receiver"}
Other(p) == IF p = "sender" THEN "receiver" ELSE "sender"
Threads == {"enc", "recv", "sendDual", "recvDual"}
Lists == {"algos", "ioVersions", "families", "eccVersions", "suits", "formats"}

(* A context: what it offers, and result_to_rank (-1: both ranks).         *)
Offer == [version: Nat, toRank: {-1, 1}, truncation: BOOLEAN,
          lists: [Lists -> Seq(STRING)]]

ASSUME InputsAssumption == /\ Inputs \subseteq [Side -> Seq(HashedIds)]
                           /\ Offers \subseteq [Side -> Offer]

VARIABLES
  input, offer,  \* the arguments of psi_sender and psi_receiver
  pc,            \* "new", "start", "proposed", "flow", "returned", "raised"
  suit,          \* the cipher suite of the response, or "none"
  main, dua,     \* per party, its messages under way on the two links
  thread,        \* per party and thread: "off", "run", "end", "dead"
  sent,          \* ids encrypted and sent by "enc"
  queue,         \* peer_cipher
  known, done,   \* peer_cipher_set and peer_cipher_set_done
  held,          \* the batch "recvDual" has received and not looked up
  index, taken,  \* local_index_record and local_take_index
  linkErrors         \* errors of redis and the link so far

handshake == <<input, offer, pc, suit>>
store == <<queue, known, done, held, index, taken>>
flowVars == <<handshake, main, dua, thread, sent, store, linkErrors>>

(* A batch: its ciphers and its last flag.                                 *)
Msg(arr, last) == [arr |-> arr, last |-> last]
-----------------------------------------------------------------------------
(* The contexts                                                            *)

Common(a, b, f) == Range(a.lists[f]) \cap Range(b.lists[f])

\* Mutant: whom the result goes to is not compared.
MutNegotiates(mine, req) ==
  /\ mine.version = req.version
  /\ ~(mine.truncation /\ req.truncation)
  /\ \A f \in Lists: Common(mine, req, f) # {}
  /\ "ECDH_PSI" \in Common(mine, req, "algos")
  /\ "ECC" \in Common(mine, req, "families")

(* negotiate_handshake goes through without raising.                       *)
Negotiates(mine, req) ==
  /\ mine.version = req.version
  /\ mine.toRank = req.toRank
  /\ ~(mine.truncation /\ req.truncation)
  /\ \A f \in Lists: Common(mine, req, f) # {}
  /\ "ECDH_PSI" \in Common(mine, req, "algos")
  /\ "ECC" \in Common(mine, req, "families")

(* need_send_cipher and need_recv_cipher of reset_from_response.           *)
NeedSend(p) == offer[p].toRank = -1 \/ p = "sender"
NeedRecv(p) == offer[p].toRank = -1 \/ p = "receiver"

(* The threads diffie_hellman_flow starts.                                 *)
Started(p) == [t \in Threads |->
  IF (t = "sendDual" => NeedSend(p)) /\ (t = "recvDual" => NeedRecv(p))
    THEN "run" ELSE "off"]
-----------------------------------------------------------------------------
(* A cipher is an id under a set of keys; the curve makes their order      *)
(* irrelevant.                                                             *)
Encrypt(p, ids) == [i \in DOMAIN ids |-> [id |-> ids[i], keys |-> {p}]]
DiffieHellman(p, arr) == [i \in DOMAIN arr |->
                            [arr[i] EXCEPT !.keys = @ \cup {p}]]

FlowInit ==
  /\ input \in Inputs
  /\ offer \in Offers
  /\ pc = [p \in Side |-> "new"]
  /\ suit = [p \in Side |-> "none"]
  /\ main = [p \in Side |-> << >>]
  /\ dua = [p \in Side |-> << >>]
  /\ thread = [p \in Side |-> [t \in Threads |-> "off"]]
  /\ sent = [p \in Side |-> 0]
  /\ queue = [p \in Side |-> << >>]
  /\ known = [p \in Side |-> {}]
  /\ done = [p \in Side |-> FALSE]
  /\ held = [p \in Side |-> << >>]
  /\ index = [p \in Side |-> 0]
  /\ taken = [p \in Side |-> << >>]
  /\ linkErrors = 0

(* The key under which the proxy of p's domain finds the worker: set by    *)
(* Register, deleted when the call is left.                                *)
Registered(p) == pc[p] \in {"start", "proposed", "flow"}

(* The key is set; with no address of a redis given, or none to reach,     *)
(* the constructor raises.                                                 *)
Register(p) ==
  /\ pc[p] = "new"
  /\ \/ /\ pc' = [pc EXCEPT ![p] = "start"]
        /\ UNCHANGED linkErrors
     \/ /\ linkErrors < MaxLinkErrors
        /\ pc' = [pc EXCEPT ![p] = "raised"]
        /\ linkErrors' = linkErrors + 1
  /\ UNCHANGED <<input, offer, suit, main, dua, thread, sent, store>>

(* ConnectToMesh succeeds once both are registered; the sender proposes.   *)
Propose ==
  /\ pc["sender"] = "start" /\ Registered("receiver")
  /\ pc' = [pc EXCEPT !["sender"] = "proposed"]
  /\ UNCHANGED <<input, offer, suit, main, dua, thread, sent, store, linkErrors>>

(* raise_exception raises, whatever it meant to raise: the field to name   *)
(* comes as a list, which does not evaluate.                               *)
RaiseException(p) == pc' = [pc EXCEPT ![p] = "raised"]

(* The receiver negotiates and answers, or raises and never answers.  The  *)
(* suite is the first of its own that the sender offers too.               *)
Negotiate ==
  LET mine == offer["receiver"]
      InCommon(s) == s \in Common(mine, offer["sender"], "suits")
  IN  /\ pc["receiver"] = "start" /\ pc["sender"] = "proposed"
      /\ IF Negotiates(mine, offer["sender"])
           THEN /\ pc' = [pc EXCEPT !["receiver"] = "flow"]
                /\ suit' = [suit EXCEPT !["receiver"] =
                              Head(SelectSeq(mine.lists["suits"], InCommon))]
                /\ thread' = [thread EXCEPT !["receiver"] = Started("receiver")]
           ELSE /\ RaiseException("receiver")
                /\ UNCHANGED <<suit, thread>>
      /\ UNCHANGED <<input, offer, main, dua, sent, store, linkErrors>>

(* The sender takes over what the response says.                           *)
ResetFromResponse ==
  /\ pc["sender"] = "proposed" /\ suit["receiver"] # "none"
  /\ pc' = [pc EXCEPT !["sender"] = "flow"]
  /\ suit' = [suit EXCEPT !["sender"] = suit["receiver"]]
  /\ thread' = [thread EXCEPT !["sender"] = Started("sender")]
  /\ UNCHANGED <<input, offer, main, dua, sent, store, linkErrors>>
-----------------------------------------------------------------------------
Running(p, t) == pc[p] = "flow" /\ thread[p][t] = "run"
EndIf(p, t, last) ==
  thread' = IF last THEN [thread EXCEPT ![p][t] = "end"] ELSE thread

IsLastBatch(i, n) == i + Batch >= n

(* calcucipher_and_send: the next batch; an empty column is one empty      *)
(* last batch.                                                             *)
SendEncrypted(p) ==
  LET n    == Len(input[p])
      last == n = 0 \/ IsLastBatch(sent[p], n)
      ids  == SubSeq(input[p], sent[p] + 1, Min({sent[p] + Batch, n}))
  IN  /\ Running(p, "enc") /\ Len(main[p]) < Window
      /\ main' = [main EXCEPT ![p] = Append(@, Msg(Encrypt(p, ids), last))]
      /\ sent' = [sent EXCEPT ![p] = @ + Batch]
      /\ EndIf(p, "enc", last \/ sent[p] + Batch >= n)
      /\ UNCHANGED <<handshake, dua, store, linkErrors>>

\* Mutant: a bounded queue: the receiving thread waits for the sending one.
MutCanQueue(p) == Len(queue[p]) < 1

(* peer_cipher is an unbounded queue.Queue: put never waits.               *)
CanQueue(p) == TRUE

(* recv_and_calcu with calcu_add_peer_cipher: a None that is put before    *)
(* the last array announces it to "sendDual" (a flag of the array here);   *)
(* the set is complete with the last array.                                *)
ReceiveEncrypted(p) ==
  LET q   == Other(p)
      arr == DiffieHellman(p, Head(main[q]).arr)
      last == Head(main[q]).last
  IN  /\ Running(p, "recv") /\ main[q] # << >> /\ CanQueue(p)
      /\ main' = [main EXCEPT ![q] = Tail(@)]
      /\ queue' = [queue EXCEPT ![p] = Append(@, Msg(arr, last))]
      /\ known' = IF NeedRecv(p)
                    THEN [known EXCEPT ![p] = @ \cup Range(arr)] ELSE known
      /\ done' = [done EXCEPT ![p] = @ \/ (NeedRecv(p) /\ last)]
      /\ EndIf(p, "recv", last)
      /\ UNCHANGED <<handshake, dua, sent, held, index, taken, linkErrors>>

(* send_dualenc: the next array goes back; after None it is the last.  The *)
(* sub-world "dua" is taken to have a send window of its own in the link   *)
(* library: a full window of one channel does not hold up the other.       *)
SendDual(p) ==
  /\ Running(p, "sendDual") /\ queue[p] # << >> /\ Len(dua[p]) < Window
  /\ dua' = [dua EXCEPT ![p] = Append(@, Head(queue[p]))]
  /\ queue' = [queue EXCEPT ![p] = Tail(@)]
  /\ EndIf(p, "sendDual", Head(queue[p]).last)
  /\ UNCHANGED <<handshake, main, sent, known, done, held, index, taken,
                 linkErrors>>

(* recv_and_calcu takes the next batch off the second channel.             *)
ReceiveDual(p) ==
  /\ Running(p, "recvDual") /\ held[p] = << >> /\ dua[Other(p)] # << >>
  /\ held' = [held EXCEPT ![p] = <<Head(dua[Other(p)])>>]
  /\ dua' = [dua EXCEPT ![Other(p)] = Tail(@)]
  /\ UNCHANGED <<handshake, main, thread, sent, queue, known, done, index,
                 taken, linkErrors>>

\* Mutant: the look-up does not wait for the whole set.
MutSetReady(p) == TRUE

\* Mutant: the look-up waits for a set that is not empty.
MutSetNotEmpty(p) == done[p] /\ known[p] # {}

(* peer_cipher_set_done.wait()                                             *)
SetReady(p) == done[p]

Ascending(s) == \A i, j \in DOMAIN s: i < j => s[i] < s[j]

(* A loop over positions that appends those of a set S.                    *)
InOrder(S) == CHOOSE s \in [1..Cardinality(S) -> S]:
                Ascending(s) /\ Range(s) = S

(* recv_duaenc_local_cipher: the positions of the ciphers in the set.      *)
TakeCommon(p) ==
  LET m    == held[p][1]
      hits == {i \in DOMAIN m.arr: m.arr[i] \in known[p]}
  IN  /\ Running(p, "recvDual") /\ held[p] # << >> /\ SetReady(p)
      /\ taken' = [taken EXCEPT ![p] = @ \o InOrder({index[p] + i: i \in hits})]
      /\ index' = [index EXCEPT ![p] = @ + Len(m.arr)]
      /\ held' = [held EXCEPT ![p] = << >>]
      /\ EndIf(p, "recvDual", m.last)
      /\ UNCHANGED <<handshake, main, dua, sent, queue, known, done, linkErrors>>

Over(p, t) == thread[p][t] \in {"off", "end", "dead"}

(* WaitLinkTaskFinish, the last call of both sides, may raise once the     *)
(* link has failed.                                                        *)
WaitLinkTaskFinish(r) ==
  r = "raised" => \E q \in Side, t \in Threads: thread[q][t] = "dead"

(* The joins, psi_in.take and the end of the call.                         *)
Return(p) ==
  /\ pc[p] = "flow" /\ \A t \in Threads: Over(p, t)
  /\ \E r \in {"returned", "raised"}:
       /\ WaitLinkTaskFinish(r)
       /\ pc' = [pc EXCEPT ![p] = r]
  /\ UNCHANGED <<input, offer, suit, main, dua, thread, sent, store, linkErrors>>
-----------------------------------------------------------------------------
(* The link raises in a thread; in the handshake, in the caller.           *)
LinkError(p) ==
  /\ linkErrors < MaxLinkErrors
  /\ linkErrors' = linkErrors + 1
  /\ \/ /\ pc[p] \in {"start", "proposed"}
        /\ pc' = [pc EXCEPT ![p] = "raised"]
        /\ UNCHANGED thread
     \/ \E t \in Threads:
          /\ Running(p, t)
          /\ t = "recvDual" => held[p] = << >>
          /\ thread' = [thread EXCEPT ![p][t] = "dead"]
          /\ UNCHANGED pc
  /\ UNCHANGED <<input, offer, suit, main, dua, sent, store>>

(* Thread t of p has ended, or waits for what its dead "recv" was to bring.*)
Gone(p, t) ==
  \/ pc[p] \in {"returned", "raised"}
  \/ pc[p] = "flow" /\ Over(p, t)
  \/ /\ pc[p] = "flow" /\ thread[p]["recv"] = "dead"
     /\ \/ t = "sendDual" /\ queue[p] = << >>
        \/ t = "recvDual" /\ ~done[p] /\ held[p] # << >>

(* Thread t of p waits for a message that will not come or for a window    *)
(* that will not open.                                                     *)
Starved(p, t) ==
  LET q == Other(p) IN
  CASE t = "enc"      -> Len(main[p]) = Window /\ Gone(q, "recv")
    [] t = "recv"     -> main[q] = << >> /\ Gone(q, "enc")
    [] t = "sendDual" -> /\ queue[p] # << >> /\ Len(dua[p]) = Window
                         /\ Gone(q, "recvDual")
    [] t = "recvDual" -> /\ held[p] = << >> /\ dua[q] = << >>
                         /\ Gone(q, "sendDual")

(* Recv and the window give up after recv_timeout_ms and raise.            *)
TimesOut(p) ==
  /\ \/ /\ pc[p] \in {"start", "proposed"} /\ pc[Other(p)] = "raised"
        /\ p = "sender" => suit["receiver"] = "none"
        /\ pc' = [pc EXCEPT ![p] = "raised"]
        /\ UNCHANGED thread
     \/ \E t \in Threads:
          /\ Running(p, t) /\ Starved(p, t)
          /\ thread' = [thread EXCEPT ![p][t] = "dead"]
          /\ UNCHANGED pc
  /\ UNCHANGED <<input, offer, suit, main, dua, sent, store, linkErrors>>

\* Both calls are over, or only threads nobody will wake are left.
FlowStopped ==
  /\ \A p \in Side: \/ pc[p] \in {"returned", "raised"}
                    \/ pc[p] = "flow" /\ thread[p]["recv"] = "dead"
  /\ UNCHANGED flowVars

Handshake == (\E p \in Side: Register(p)) \/ Propose \/ Negotiate \/ ResetFromResponse

ThreadStep(p, t) ==
  \/ t = "enc" /\ SendEncrypted(p)
  \/ t = "recv" /\ ReceiveEncrypted(p)
  \/ t = "sendDual" /\ SendDual(p)
  \/ t = "recvDual" /\ (ReceiveDual(p) \/ TakeCommon(p))

FlowNext ==
  \/ Handshake
  \/ \E p \in Side: \/ \E t \in Threads: ThreadStep(p, t)
                    \/ Return(p) \/ LinkError(p) \/ TimesOut(p)
  \/ FlowStopped

FlowSpec == FlowInit /\ [][FlowNext]_flowVars

(* Every thread runs, and a wait that cannot succeed ends by its timeout.  *)
FlowFairness ==
  /\ WF_flowVars(Handshake)
  /\ \A p \in Side: /\ \A t \in Threads: WF_flowVars(ThreadStep(p, t))
                    /\ WF_flowVars(Return(p)) /\ WF_flowVars(TimesOut(p))

FairFlow == FlowSpec /\ FlowFairness
-----------------------------------------------------------------------------
Ciphers == [id: HashedIds, keys: SUBSET Side]
Batches == [arr: Seq(Ciphers), last: BOOLEAN]

(* The type of every variable.                                             *)
FlowTypeOK ==
  /\ input \in Inputs /\ offer \in Offers
  /\ pc \in [Side -> {"new", "start", "proposed", "flow", "returned", "raised"}]
  /\ DOMAIN suit = Side
  /\ thread \in [Side -> [Threads -> {"off", "run", "end", "dead"}]]
  /\ main \in [Side -> Seq(Batches)] /\ dua \in [Side -> Seq(Batches)]
  /\ queue \in [Side -> Seq(Batches)] /\ held \in [Side -> Seq(Batches)]
  /\ \A p \in Side: /\ Len(main[p]) <= Window /\ Len(dua[p]) <= Window
                    /\ Len(held[p]) <= 1
                    /\ index[p] <= Len(input[p])
  /\ known \in [Side -> SUBSET Ciphers] /\ done \in [Side -> BOOLEAN]
  /\ sent \in [Side -> Nat] /\ index \in [Side -> Nat]
  /\ taken \in [Side -> Seq(Nat)]
  /\ linkErrors \in 0..MaxLinkErrors

CommonPositions(p) ==
  {i \in DOMAIN input[p]: input[p][i] \in Range(input[Other(p)])}

(* At every moment the positions taken are those of the common ids among   *)
(* the ids that have come back, in order and with the duplicates, although *)
(* batches of both directions interleave and the set is filled meanwhile;  *)
(* and once every thread of a party has ended by itself they are all.      *)
TakesCommon ==
  \A p \in Side:
    /\ Ascending(taken[p])
    /\ Range(taken[p]) = CommonPositions(p) \cap 1..index[p]
    /\ thread[p]["recvDual"] = "end" => index[p] = Len(input[p])

(* Two sides that have shaken hands use one suite, and agree on who gets   *)
(* the result: no one waits for ciphers the peer does not send, and the    *)
(* sender gets a result only if both were started to let it.               *)
AgreedContext ==
  /\ \A p \in Side: pc[p] = "flow" =>
       /\ suit[p] = suit["receiver"]
       /\ NeedRecv(p) <=> NeedSend(Other(p))
  /\ NeedRecv("sender") /\ pc["sender"] = "returned" =>
       \A p \in Side: offer[p].toRank = -1

(* A side that has returned and deleted its key is no longer needed: no    *)
(* message to it is under way and the peer has none left to send.          *)
KeptWhileNeeded ==
  \A p \in Side:
    (pc[p] = "returned" /\ \A q \in Side, t \in Threads: thread[q][t] # "dead")
    => /\ main[Other(p)] = << >> /\ dua[Other(p)] = << >>
       /\ Over(Other(p), "enc") /\ Over(Other(p), "sendDual")

(* What a call returns is the whole intersection, whatever happened to the *)
(* peer and to the other threads, unless its own "recvDual" has died.      *)
WholeUnlessCut ==
  \A p \in Side:
    (pc[p] = "returned" /\ NeedRecv(p) /\ thread[p]["recvDual"] # "dead")
    => Ascending(taken[p]) /\ Range(taken[p]) = CommonPositions(p)

(* How far p's ids have come: the batches in each place between its "enc"  *)
(* and its "recvDual" are the next ones of p's column.                     *)
Fetched(p)  == sent[p] - Batch * Len(main[p])
Queued(p)   == Fetched(p) - Batch * Len(queue[Other(p)])
Returned(p) == Queued(p) - Batch * Len(dua[Other(p)])
LookedUp(p) == Returned(p) - Batch * Len(held[p])

(* m is the batch of the column ids after the first o, under the keys.     *)
IsBatch(m, ids, o, keys) ==
  /\ m.last <=> o + Batch >= Len(ids)
  /\ Len(m.arr) = (IF o + Batch <= Len(ids) THEN Batch ELSE Len(ids) - o)
  /\ \A i \in 1..Len(m.arr): m.arr[i] = [id |-> ids[o + i], keys |-> keys]

Consecutive(s, ids, o, keys) ==
  \A i \in 1..Len(s): IsBatch(s[i], ids, o + Batch * (i - 1), keys)

(* No batch of p is lost, repeated or out of order between its places.     *)
Pipeline(p) ==
  /\ Consecutive(main[p], input[p], Fetched(p), {p})
  /\ Consecutive(queue[Other(p)], input[p], Queued(p), Side)
  /\ Consecutive(dua[Other(p)], input[p], Returned(p), Side)
  /\ Consecutive(held[p], input[p], LookedUp(p), Side)
  /\ LookedUp(p) >= 0
  /\ index[p] = IF LookedUp(p) <= Len(input[p]) THEN LookedUp(p)
                                                ELSE Len(input[p])
  /\ sent[p] \in {0, Batch} \/ sent[p] - Batch < Len(input[p])

Complete(o, ids) == o > 0 /\ o >= Len(ids)

(* The state of each thread goes with how far p's ids have come.           *)
Progress(p) ==
  LET q == Other(p) IN
  /\ thread[p]["enc"] = "off" => sent[p] = 0
  /\ thread[p]["enc"] = "run" => ~Complete(sent[p], input[p])
  /\ thread[q]["recv"] = "off" => Fetched(p) = 0
  /\ thread[q]["recv"] = "end" => Complete(Fetched(p), input[p])
  /\ thread[q]["sendDual"] = "off" => dua[q] = << >>
  /\ thread[q]["sendDual"] = "run" => ~Complete(Queued(p), input[p])
  /\ thread[p]["recvDual"] = "end" => Complete(LookedUp(p), input[p])

(* The peer_cipher_set of p's peer holds p's ids received so far, and all  *)
(* of them once it is done.                                                *)
Collected(p) ==
  LET q == Other(p) IN
  /\ known[q] \subseteq {[id |-> x, keys |-> Side]: x \in Range(input[p])}
  /\ NeedRecv(q) => \A i \in DOMAIN input[p]: i <= Fetched(p) =>
                      [id |-> input[p][i], keys |-> Side] \in known[q]
  /\ done[q] => NeedRecv(q) /\ Fetched(p) >= Len(input[p])

(* What the handshake leaves behind.                                       *)
Shaken ==
  /\ suit["receiver"] # "none" => offer["sender"].toRank = offer["receiver"].toRank
  /\ pc["sender"] = "flow" => suit["sender"] = suit["receiver"]
  /\ \A p \in Side:
       /\ pc[p] \in {"new", "start", "proposed"} =>
            \A t \in Threads: thread[p][t] = "off"
       /\ pc[p] \in {"flow", "returned"} =>
            /\ offer["sender"].toRank = offer["receiver"].toRank
            /\ thread[p]["recv"] # "off"
            /\ NeedRecv(p) => thread[p]["recvDual"] # "off"
       /\ pc[p] = "returned" => \A t \in Threads: Over(p, t)
       /\ thread[p]["recvDual"] # "off" => NeedRecv(p)
       /\ thread[p]["sendDual"] # "off" => NeedSend(p)

(* The invariant the proofs rest on.                                       *)
FlowInv == /\ FlowTypeOK /\ Shaken
           /\ \A p \in Side: Pipeline(p) /\ Progress(p) /\ Collected(p)
           /\ TakesCommon /\ WholeUnlessCut /\ AgreedContext /\ KeptWhileNeeded

Accepted == Negotiates(offer["receiver"], offer["sender"])

(* Neither the windows of the two channels nor the wait for the complete   *)
(* set makes the eight threads wait for each other in a circle: without    *)
(* link errors both calls return, or both raise in the handshake.          *)
BothReturn ==
  [](linkErrors = 0) =>
    <>(\A p \in Side: pc[p] = IF Accepted THEN "returned" ELSE "raised")

(* A call ends, returning or raising, unless its "recv" thread has died:   *)
(* then "sendDual" and "recvDual" wait for a queue and an event nobody     *)
(* fills or sets, without any timeout.                                     *)
EndsUnlessReceiverDies ==
  \A p \in Side:
    <>(pc[p] \in {"returned", "raised"} \/ thread[p]["recv"] = "dead")

(* "return intersection result" (the docstrings of psi_sender and          *)
(* psi_receiver): what a call returns is the intersection.                 *)
ReturnsIntersection ==
  \A p \in Side: (pc[p] = "returned" /\ NeedRecv(p)) =>
    taken[p] = SetToSortSeq(CommonPositions(p), <)
=============================================================================
