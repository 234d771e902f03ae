--------------------------- MODULE ExampleIdSync ---------------------------
(***************************************************************************)
(* One partition of a data join: the leader loads its raw data, sends all  *)
(* example ids to the follower (ExampleIdProducer), the follower's         *)
(* handlers put them in a queue (ExampleIdConsumer, AppendExamplesManager) *)
(* and the follower's MemoryDataJoiner takes them from there and writes    *)
(* the ones it has itself to data blocks.                                  *)
(*                                                                         *)
(* Calls may break, with the request executed at once, later or never; a   *)
(* run of the sender that raised is repeated from the start, and both      *)
(* processes may crash and restart.  What happens to a finished data block *)
(* is DataBlockSync's subject.                                             *)
(***************************************************************************)
EXTENDS Naturals, Sequences, SequencesExt

CONSTANTS
  LeaderRaw,    \* raw data the leader may have: sequences of files of ids
  FollowerRaw,  \* the same of the follower
  NoId,         \* a record without a readable example id
  SyncNums,     \* sync_example_id_nums
  Threshold,    \* dump_data_block_threshold
  TimeSpan,     \* whether dump_data_block_time_span is positive
  MaxFaults     \* bound: broken calls and crashes

ASSUME ExampleIdSyncAssumption ==
  /\ SyncNums \in Nat
  /\ Threshold \in Nat \ {0}
  /\ TimeSpan \in BOOLEAN
  /\ MaxFaults \in Nat

\* Raw data are a sequence of files, a file a sequence of records.
ASSUME RawAssumption ==
  \A files \in LeaderRaw \cup FollowerRaw :
    /\ files \in Seq(ToSet(files))
    /\ \A file \in ToSet(files) : file \in Seq(ToSet(file))

VARIABLES
  items,              \* the leader's item_dict: its keys in insertion order
  own,                \* the keys of the follower's item_dict
  \* the leader's example_id_sender_processor
  sender,             \* "idle", "send" or "finish": the call it is about to make
  pos,                \* items of this run that have been sent
  partition_finished,
  follower_finished,
  \* the follower's ExampleIdConsumer
  partition,          \* whether _partition_id is set
  send_finished,      \* _send_example_finished
  queue,              \* batches the joiner has not taken
  late,               \* requests whose caller saw the call break
  \* the follower's joiner
  built,              \* whether build_data_joiner has loaded the raw data
  batch,              \* the batch it works on, with the ids that are left
  maker,              \* the example ids in the open DataBlockMaker
  blocks,             \* the example ids of each data block written
  joiner_finished,    \* _data_joiner_finished
  \* history
  crashed,            \* whether the follower has crashed
  faults

leaderVars == <<sender, pos, partition_finished, follower_finished>>
consumerVars == <<partition, send_finished, queue, late>>
joinerVars == <<built, batch, maker, blocks, joiner_finished>>
raw == <<items, own>>
vars == <<raw, leaderVars, consumerVars, joinerVars, crashed, faults>>

-----------------------------------------------------------------------------
(* Loading the raw data                                                    *)

\* A record without an example id: the handler of the exception raises one
\* itself (print_exc takes no message).  Event times are taken to be readable.
Parses(record) == record # NoId

\* The record iterator of a file gives its first record when it is set up: a
\* file without a record raises StopIteration.
Readable(file) == file # <<>> /\ \A k \in DOMAIN file : Parses(file[k])

\* The records of a file: reset_data_iterator gives the first, __next__ the rest.
Records(file) == <<Head(file)>> \o Tail(file)

\* The files of the directory, sorted; there must be one.  The process does not
\* get to a partition with raw data it cannot load.
Loads(files) == files # <<>> /\ \A k \in DOMAIN files : Readable(files[k])

\* The ids of s without those that come a second time.
FirstOnes(s) ==
  FlattenSeq([i \in DOMAIN s |-> IF \E j \in 1..(i - 1) : s[j] = s[i] THEN <<>> ELSE <<s[i]>>])

\* _load_raw_data_to_mem: an example id keeps the place of its first record.
ItemDict(files) == FirstOnes(FlattenSeq([k \in DOMAIN files |-> Records(files[k])]))

NoBatch == [ids |-> <<>>, finished |-> FALSE, taken |-> FALSE]
Batch(ids, finished) == [ids |-> ids, finished |-> finished, taken |-> TRUE]
Finish == [ids |-> <<>>, finished |-> TRUE, taken |-> FALSE]

Init ==
  /\ \E files \in LeaderRaw : Loads(files) /\ items = ItemDict(files)
  /\ \E files \in FollowerRaw : Loads(files) /\ own = ToSet(ItemDict(files))
  /\ sender = "idle"
  /\ pos = 0
  /\ partition_finished = FALSE
  /\ follower_finished = FALSE
  /\ partition = TRUE
  /\ send_finished = FALSE
  /\ queue = <<>>
  /\ late = {}
  /\ built = FALSE
  /\ batch = NoBatch
  /\ maker = <<>>
  /\ blocks = <<>>
  /\ joiner_finished = FALSE
  /\ crashed = FALSE
  /\ faults = 0

Fault ==
  /\ faults < MaxFaults
  /\ faults' = faults + 1

-----------------------------------------------------------------------------
(* The leader's calls and the follower's handlers                          *)

\* A run of the sender sends all items, whatever next_index the follower says.
StartRun ==
  /\ sender' = "send"
  /\ pos' = 0

\* partition_syncer_to_consumer: of its answer the sender uses this alone.
SyncedFinished == send_finished

\* Once the consumer has dropped the partition, fetch_partition_id raises.
StartPartition ==
  /\ sender = "idle"
  /\ ~follower_finished
  /\ partition
  /\ \/ /\ SyncedFinished
        /\ follower_finished' = TRUE
        /\ UNCHANGED <<sender, pos>>
     \/ /\ ~SyncedFinished
        /\ StartRun
        /\ UNCHANGED follower_finished
  /\ UNCHANGED <<raw, partition_finished, consumerVars, joinerVars, crashed, faults>>

\* Mutant: what does not fill a batch is not sent.
NextBatchFull ==
  LET rest == SubSeq(items, pos + 1, Len(items))
  IN  IF Len(rest) > SyncNums THEN Batch(SubSeq(rest, 1, SyncNums + 1), FALSE)
      ELSE Batch(<<>>, TRUE)

\* A batch is sent when it has more than SyncNums items; what is left at the
\* end, possibly nothing, goes in a batch marked finished.
NextBatch ==
  LET rest == SubSeq(items, pos + 1, Len(items))
  IN  IF Len(rest) > SyncNums THEN Batch(SubSeq(rest, 1, SyncNums + 1), FALSE)
      ELSE Batch(rest, TRUE)

\* append_batch_examples_into_queue; next_example_index is never used.
AppendBatch(b) == queue' = Append(queue, b)

\* The handler takes a batch only for the partition it is set to.
AppendDataItems(b) ==
  \/ partition /\ AppendBatch(b)
  \/ ~partition /\ UNCHANGED queue

\* SyncPartition raises when the partition has been dropped: the run ends.
SyncPartition ==
  /\ sender = "send"
  /\ AppendDataItems(NextBatch)
  /\ \/ /\ partition
        /\ pos' = pos + Len(NextBatch.ids)
        /\ partition_finished' = (partition_finished \/ NextBatch.finished)
        /\ sender' = IF NextBatch.finished THEN "finish" ELSE "send"
     \/ /\ ~partition
        /\ sender' = "idle"
        /\ UNCHANGED <<pos, partition_finished>>
  /\ UNCHANGED <<raw, follower_finished, partition, send_finished, late,
                 joinerVars, crashed, faults>>

\* need_append_into_queue: empty() of a multiprocessing queue may overlook what
\* was put just before.
SeenEmpty == {TRUE, queue = <<>>}

\* reset_consumer_wrap drops the partition, or raises when it sees an item.
ResetConsumerWrap == \E empty \in SeenEmpty : partition' = ~empty

\* finish_partition_transmit notes that all was sent, and looks at the queue.
FinishPartitionTransmit(empty) ==
  /\ send_finished' = TRUE
  /\ empty \in SeenEmpty

\* The follower answers that it is not done when it sees an item; otherwise
\* reset_consumer_wrap looks at the queue again.
FinishPartitionHandler ==
  \E empty \in BOOLEAN :
    /\ FinishPartitionTransmit(empty)
    /\ \/ empty /\ ResetConsumerWrap
       \/ ~empty /\ UNCHANGED partition

\* Mutant: the leader leaves it to the next run to learn what was answered.
FinishPartitionUnheard ==
  /\ sender = "finish"
  /\ sender' = "idle"
  /\ partition /\ FinishPartitionHandler
  /\ UNCHANGED <<raw, pos, partition_finished, follower_finished, queue, late,
                 joinerVars, crashed, faults>>

FinishPartition ==
  /\ sender = "finish"
  /\ sender' = "idle"
  /\ \/ /\ partition
        /\ FinishPartitionHandler
        /\ follower_finished' = ~partition'
     \/ /\ ~partition
        /\ UNCHANGED <<partition, send_finished, follower_finished>>
  /\ UNCHANGED <<raw, pos, partition_finished, queue, late, joinerVars, crashed,
                 faults>>

\* The request the leader is waiting for.
Pending == CASE sender = "send" -> {NextBatch}
             [] sender = "finish" -> {Finish}
             [] OTHER -> {}

\* The call breaks and the run ends; the next period begins a new one.  Of equal
\* requests on their way late holds one: a batch that is appended once more
\* adds copies of ids, and what is stated below is about ids, not copies.
CallBreaks ==
  /\ Pending # {}
  /\ Fault
  /\ sender' = "idle"
  /\ late' = late \cup Pending
  /\ UNCHANGED <<raw, pos, partition_finished, follower_finished, partition,
                 send_finished, queue, joinerVars, crashed>>

\* The follower executes a request whose call has broken.
LateRequest(request) ==
  /\ request \in late
  /\ late' = late \ {request}
  /\ \/ /\ partition
        /\ request = Finish
        /\ FinishPartitionHandler
        /\ UNCHANGED queue
     \/ /\ partition
        /\ request # Finish
        /\ AppendBatch(request)
        /\ UNCHANGED <<partition, send_finished>>
     \/ /\ ~partition
        /\ UNCHANGED <<partition, send_finished, queue>>
  /\ UNCHANGED <<raw, leaderVars, joinerVars, crashed, faults>>

-----------------------------------------------------------------------------
(* The follower's MemoryDataJoiner                                         *)

\* Mutant: the maker is kept after its block has been written.
FinalizeKeepsMaker(ids) ==
  /\ blocks' = Append(blocks, ids)
  /\ maker' = ids
  /\ joiner_finished' = (joiner_finished \/ batch.finished)

\* _data_join_finalizer: the open block is written; the joiner is finished if
\* the batch at hand is the last one.
Finalize(ids) ==
  /\ blocks' = Append(blocks, ids)
  /\ maker' = <<>>
  /\ joiner_finished' = (joiner_finished \/ batch.finished)

\* DataBlockMaker.save and is_data_block_exceed_threshold
Saved(id) == Append(maker, id)
Full(ids) == Len(ids) >= Threshold

\* The build_data_joiner processor; batches may be queued before it.
BuildDataJoiner ==
  /\ ~built
  /\ built' = TRUE
  /\ UNCHANGED <<raw, leaderVars, consumerVars, batch, maker, blocks,
                 joiner_finished, crashed, faults>>

\* The joiner is at the head of its loop: it has raw data (data_join_switch) and
\* is not finished.
AtLoopHead == built /\ ~batch.taken /\ ~joiner_finished

\* The joiner looks at the queue only between two batches.
TakeBatch ==
  /\ AtLoopHead
  /\ queue # <<>>
  /\ batch' = Head(queue)
  /\ queue' = Tail(queue)
  /\ UNCHANGED <<raw, leaderVars, partition, send_finished, late, built, maker,
                 blocks, joiner_finished, crashed, faults>>

\* Mutant: the joiner stops as soon as it is finished.
JoinExampleStops ==
  /\ batch.taken
  /\ batch.ids # <<>>
  /\ LET id == Head(batch.ids) IN
       \/ /\ id \notin own
          /\ batch' = [batch EXCEPT !.ids = Tail(@)]
          /\ UNCHANGED <<maker, blocks, joiner_finished>>
       \/ /\ id \in own
          /\ ~Full(Saved(id))
          /\ batch' = [batch EXCEPT !.ids = Tail(@)]
          /\ maker' = Saved(id)
          /\ UNCHANGED <<blocks, joiner_finished>>
       \/ /\ id \in own
          /\ Full(Saved(id))
          /\ Finalize(Saved(id))
          /\ batch' = IF batch.finished THEN NoBatch ELSE [batch EXCEPT !.ids = Tail(@)]
  /\ UNCHANGED <<raw, leaderVars, consumerVars, built, crashed, faults>>

\* The next id of the batch: skipped, saved, or saved in a block that is full.
JoinExample ==
  /\ batch.taken
  /\ batch.ids # <<>>
  /\ batch' = [batch EXCEPT !.ids = Tail(@)]
  /\ LET id == Head(batch.ids) IN
       \/ /\ id \notin own
          /\ UNCHANGED <<maker, blocks, joiner_finished>>
       \/ /\ id \in own
          /\ ~Full(Saved(id))
          /\ maker' = Saved(id)
          /\ UNCHANGED <<blocks, joiner_finished>>
       \/ /\ id \in own
          /\ Full(Saved(id))
          /\ Finalize(Saved(id))
  /\ UNCHANGED <<raw, leaderVars, consumerVars, built, crashed, faults>>

\* Mutant: the last batch leaves the open block to the next one.
EndBatchLeavesOpen ==
  /\ batch.taken
  /\ batch.ids = <<>>
  /\ batch' = NoBatch
  /\ UNCHANGED <<raw, leaderVars, consumerVars, built, maker, blocks,
                 joiner_finished, crashed, faults>>

\* The end of a batch.  Without an open block the last batch does not finish the
\* joiner.
EndBatch ==
  /\ batch.taken
  /\ batch.ids = <<>>
  /\ batch' = NoBatch
  /\ \/ /\ batch.finished
        /\ maker # <<>>
        /\ Finalize(maker)
     \/ /\ ~(batch.finished /\ maker # <<>>)
        /\ UNCHANGED <<maker, blocks, joiner_finished>>
  /\ UNCHANGED <<raw, leaderVars, consumerVars, built, crashed, faults>>

\* _data_block_finalizer_if_time_span: any open block may be old enough.
Overdue == TimeSpan /\ maker # <<>>

\* Between two batches an overdue block is written.
DumpOnTimeSpan ==
  /\ AtLoopHead
  /\ Overdue
  /\ Finalize(maker)
  /\ UNCHANGED <<raw, leaderVars, consumerVars, built, batch, crashed, faults>>

-----------------------------------------------------------------------------
(* Crash and restart                                                       *)

\* The leader's InitRawDataLoading
NewLeader ==
  /\ sender' = "idle"
  /\ pos' = 0
  /\ partition_finished' = FALSE
  /\ follower_finished' = FALSE

LeaderRestarts ==
  /\ Fault
  /\ NewLeader
  /\ late' = late \cup Pending
  /\ UNCHANGED <<raw, partition, send_finished, queue, joinerVars, crashed>>

\* AppendExamplesManager, of a consumer that is set to its partition.
NewAppender == send_finished' = FALSE

NewConsumer ==
  /\ partition' = TRUE
  /\ NewAppender
  /\ queue' = <<>>

NewJoiner ==
  /\ built' = FALSE
  /\ batch' = NoBatch
  /\ maker' = <<>>
  /\ joiner_finished' = FALSE

\* Only the data blocks remain.  The leader may not notice.
FollowerRestarts ==
  /\ Fault
  /\ NewConsumer
  /\ NewJoiner
  /\ late' = {}
  /\ crashed' = TRUE
  /\ UNCHANGED <<raw, leaderVars, blocks>>

-----------------------------------------------------------------------------
Leader == StartPartition \/ SyncPartition \/ FinishPartition

Joiner == BuildDataJoiner \/ TakeBatch \/ JoinExample \/ EndBatch

Next ==
  \/ Leader
  \/ CallBreaks
  \/ \E request \in late : LateRequest(request)
  \/ Joiner
  \/ DumpOnTimeSpan
  \/ LeaderRestarts
  \/ FollowerRestarts

Spec == Init /\ [][Next]_vars

\* ProcessorManager runs the sender every few seconds, a handler answers, and
\* the joiner polls its queue.  No block need be open for too long, and what
\* breaks need not be executed.
FairSpec == Spec /\ WF_vars(Leader) /\ WF_vars(Joiner)

-----------------------------------------------------------------------------
(* Properties                                                              *)

Joinable(ids) ==
  FlattenSeq([k \in DOMAIN ids |-> IF ids[k] \in own THEN <<ids[k]>> ELSE <<>>])
Queued == FlattenSeq([k \in DOMAIN queue |-> queue[k].ids])
Joined == FlattenSeq(blocks)

\* The same as sets: the ids of both parties, and where they are.
Common == ToSet(items) \cap own
InBlocks == UNION {ToSet(blocks[k]) : k \in DOMAIN blocks}
AtJoiner == InBlocks \cup ToSet(maker) \cup ToSet(batch.ids)
QueuedUpTo(n) == UNION {ToSet(queue[k].ids) : k \in 1..n}
Received == AtJoiner \cup QueuedUpTo(Len(queue))

Batches == [ids : Seq(ToSet(items)), finished : BOOLEAN, taken : {TRUE}]

TypeOK ==
  /\ items \in Seq(ToSet(items))
  /\ sender \in {"idle", "send", "finish"}
  /\ pos \in 0..Len(items)
  /\ partition_finished \in BOOLEAN /\ follower_finished \in BOOLEAN
  /\ partition \in BOOLEAN /\ send_finished \in BOOLEAN
  /\ queue \in Seq(Batches)
  /\ late \subseteq Batches \cup {Finish}
  /\ built \in BOOLEAN
  /\ batch \in Batches \cup {NoBatch}
  /\ maker \in Seq(Common) /\ Len(maker) < Threshold
  /\ blocks \in Seq(Seq(Common))
  /\ joiner_finished \in BOOLEAN
  /\ crashed \in BOOLEAN
  /\ faults \in 0..MaxFaults

\* As long as no call breaks and nothing crashes, the ids common to both parties
\* are joined exactly once and in the leader's order: what is in blocks, in the
\* open maker, in the joiner's batch and in the queue is, in this order, what
\* the leader has sent.
JoinedOnce ==
  faults = 0 =>
    Joined \o maker \o Joinable(batch.ids) \o Joinable(Queued)
      = Joinable(SubSeq(items, 1, pos))

\* Whatever calls break, are repeated or are executed late, and whatever the
\* leader does: when the consumer has been told that the partition is complete,
\* every common id is joined or still on its way, and once the joiner has
\* finished and ended its batch, every common id is in a block.
NothingLost ==
  ~crashed =>
    /\ send_finished => Common \subseteq Received
    /\ joiner_finished /\ ~batch.taken => Common \subseteq InBlocks

-----------------------------------------------------------------------------
(* The inductive invariant behind it                                       *)

\* What a run has sent is with the follower; so is everything once the consumer
\* has been told, or is about to be told late, that the partition is complete.  A
\* batch marked finished completes what was received before it.
Kept ==
  /\ sender # "idle" => {items[i] : i \in 1..pos} \cap own \subseteq Received
  /\ send_finished \/ Finish \in late => Common \subseteq Received
  /\ \A b \in late : b # Finish /\ b.finished => Common \subseteq Received \cup ToSet(b.ids)
  /\ \A k \in 1..Len(queue) :
       queue[k].finished => Common \subseteq AtJoiner \cup QueuedUpTo(k)
  /\ batch.finished \/ joiner_finished => Common \subseteq AtJoiner

\* A run that is about to finish the partition has sent everything.
SentAll == sender = "finish" => pos = Len(items)

\* The joiner is finished by a last batch, and with the batch ends the open block.
FinishedByLast ==
  joiner_finished => IF batch.taken THEN batch.finished ELSE maker = <<>>

\* As long as no call breaks and nothing crashes, one run is all there is: it
\* finds the partition set and not yet told complete, and it is the only one
\* that has sent anything.
OneRun ==
  faults = 0 =>
    /\ late = {}
    /\ sender # "idle" => partition /\ ~send_finished
    /\ sender = "idle" /\ ~send_finished => pos = 0

\* Wherever an id is on its way from the leader to a data block, a last batch or a
\* FinishPartition request finds it received.
Complete == TypeOK /\ (~crashed => Kept) /\ SentAll /\ FinishedByLast

\* The invariant the proofs rest on: nothing is missed, and without faults nothing
\* is sent twice, neither by two runs nor because the raw data have it twice.
IInv == Complete /\ OneRun /\ IsInjective(items)

-----------------------------------------------------------------------------
(* Liveness                                                                *)

\* Every common id gets into a data block, unless the follower crashes: the
\* leader does not learn that the queue, the batch and the open block are gone.
AllJoined == <>(crashed \/ Common \subseteq InBlocks)

\* The leader's processor comes to its end, except when the consumer has dropped
\* the partition without the leader knowing (the answer to FinishPartition was
\* lost, or the leader restarted): then StartPartition raises in every period.
LeaderEnds == <>[](follower_finished \/ (faults > 0 /\ ~partition))
=============================================================================
