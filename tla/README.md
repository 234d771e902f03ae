# A TLA+ development for 9n-mpc

9n-mpc trains models on data that two or more parties hold, without moving the
data: the *Coordinator* of each party starts the jobs, *DataJoin* aligns the
training examples of the parties, the *Trainer* runs a split TensorFlow model
whose halves exchange activations and gradients, *PSI* intersects id sets.
This directory holds TLA+ models of the parts where threads, messages and
failures meet, the TLC runs that check them, and TLAPS proofs of the most
important properties.  Paths below are relative to the repository
(`src/Trainer/...` is `src/src/Trainer/...` in PROJECT.json).

Running: `tlc -config X.cfg M` for the runs listed in PROJECT.json, `tlapm
M.tla` for the `*Proofs` modules.

## 1. Inventory

### Trainer RPC bridge (`src/Trainer/rpc/rpc_bridge`)

Two trainer workers of equal rank, one per party, exchange numbered
`TrainerWorkerMessage`s.

* **Sending side**: `RpcBridgeAgent` and `FlStreamingRPCDispatcher`.  State:
  the step's sequence numbers (`RunStepStats`), `channel_state_`, the requests
  awaiting a response (`msg_exchanges_`, `msg_exchanges_cache_`), the requests
  to resend (`msg_reexchanges_`, a priority queue), `retry_cb_`, the current
  streaming call.  Threads: the TensorFlow operators (serialised by
  `request_write_mu_`), the completion-queue polling thread that runs the
  callbacks, and `rpc_retry_chk`, which resends.  Locks: `dispatch_mu_` and
  `retry_mu_`; `channel_state_`, `msg_reexchanges_.empty()` and `retry_cb_` are
  also used without the lock that guards them elsewhere.  Three modes:
  asynchronous streaming (callbacks and resending), synchronous streaming,
  unary calls.
* **Receiving side**: `TransmitHandler` and `StreamTransmitHandler` accept only
  the next sequence number and put the message into `RpcBridgeRecvCache`;
  operators fetch it with `QueryResult`, which waits with a timeout.
  `WaitPeerReady` and `QueryReadyFile` are the same kind of wait for the peer's
  Connect and for training files.
* **Session**: `FLEnv` (TF_CONFIG, registration, checkpoint directory, download),
  the Connect handshake and the waiting loops of `FLEstimator`, `RpcBridgeMgr`
  (NEW, STARTED, STOPPED), and `exit(138)` when a Connect reaches a STARTED
  trainer.
* **Data blocks**: the leader sends `LoadDataBlock`; the follower fetches the
  block's file from the data centre, queues it and drops repeated requests by
  their count.
* *Hard*: callbacks of a failed call against the resend thread; a request read
  by the server although its call failed; a wait that times out while the
  message is stored; both sides restarting, each because of the other.
* *Correct means*: every message handed over is stored exactly once and in
  order, none is thrown away, a channel disabled by a failure recovers; two
  processes that train together have both seen each other's first message.

### Coordinator (`src/Coordinator`)

State, all in redis: the `AppInfo` of each application (pairs of worker and
address, local status), the lock key, the address of each uuid.
`StartApplication` negotiates with the other party, starts the k8s job and polls
until `worker_num` workers have called `RegisterUUID`; a `CheckAppStatus` thread
watches the jobs and writes the final status.  `GetPairInfo` only reads.
*Hard*: everything is read-modify-write over separate redis commands, by several
coordinator threads or replicas; the lock is a GET followed by a SET with a time
to live; workers are restarted by k8s with a new address.
*Correct means*: a worker that was told OK is registered under its current
address; what is announced to the other party is complete; polling ends.

### DataJoin (`src/DataJoin`)

The leader's workers send example ids partition by partition (`StartPartition`,
`SyncPartition`, `FinishPartition`); the follower queues them, joins them with its
own raw data into data blocks and sends the block metas back; both sides dump
data blocks, one file per block index.  With MODE = distribute each block is also
announced to an HTTP service, which starts a converter process per block and keeps
a table of blocks.  State: the queue and the open block in memory, files on disk
(block data, metas), counters recomputed from them on a restart, the table.
*Hard*: crashes between dumping a block, renaming its meta and sending it;
repeated or lost calls (a lost `FinishPartition` reply is never recovered); a
queue that is empty before its last batch is joined; the binary search that finds
the number of saved metas; directories that are listed while they are written; a
file operation that raises in the middle of a run (`traceback.print_exc(str(e))`
in the handlers raises a TypeError of its own, so the exception always ends the
run, and the next run has to clean up).
*Correct means*: every common example is in a block, in exactly one if nothing
was repeated; both sides end with the same sequence of blocks without gaps; the
table leads from every block to its own data file.

### PSI (`src/PSI`)

Each party starts a driver on its own input.  The driver splits it into blocks
(the files of a directory, or buckets by hash), a `BlockDispatchActor` hands them
to a pool of workers, and each worker exchanges its block with the worker of the
peer that holds the block of the same number.  The exchange is a dual encryption:
each side hashes and encrypts its ids, sends them, encrypts the peer's again,
returns them, and compares what comes back with what it has collected; up to four
threads a side share one link.  State: block status and counts in the dispatcher,
the output references in the driver, the cipher set, the queue and the event of
an exchange.
*Hard*: the two drivers never talk to each other, so rendezvous, splitting and
order must agree by themselves; status calls nobody awaits; threads that die
without a trace; a wait without time-out; windows that are full in both directions.
*Correct means*: the intersection of the inputs, in the order of the input, with
its true counts, and a job that ends.

### Not modelled for a reason of their own

The TensorFlow operator kernels (`_fl_ops.so`), `external_service_impl.cc`, the
Coordinator's protocol files, `DataJoin/utils`, `ResourceManager`, the proxy's
routing script and the data centre's server are not in the repository; they
appear in the models only as the environment the code sees and are marked
external.  Elliptic-curve arithmetic, HTTP and ORM plumbing and generated
protobuf code hold no protocol state.

## 2. Plan

| # | modules | content | state |
|---|---------|---------|-------|
| 1 | ReliableChannel, RpcBridge, RpcBridgeProofs | asynchronous streaming mode, refinement of an abstract channel | done |
| 2 | RecvCache, RecvCacheProofs | QueryResult with waits and timeouts, same abstract channel | done |
| 3 | Registry, RegistryProofs | registration and start of one application | done |
| 4 | ReplicatedLog, DataBlockSync, DataBlockIndex, DataBlockSyncProofs | block metas with crashes and restarts, refinement of a replicated log; the binary search of DataBlockManager against a reference | done |
| 5 | PsiJobs, PsiFlow, PsiProofs | drivers, dispatchers and workers against the intersection; the exchange of one block | done |
| 6 | ExampleIdSync, ExampleIdSyncProofs | example ids from the raw data to the data blocks, with broken calls and crashes | done |
| 7 | TrainerSession, TrainerSessionProofs | registration, connect loop, exit(138), restarts | done |
| 8 | BlockMeta, BlockMetaProofs | registration of blocks in the table | done |
| – | extensions | synchronous and unary modes of the bridge; several applications and the death of the checker thread in Registry; LoadDataBlock | not planned |

Every safety property the runs check is also a theorem (section 5); what is left to TLC is liveness.

## 3. Modules

### ReliableChannel

The abstract specification: messages 0, 1, 2, … are sent, delivered in order to
mailboxes and consumed; a data mailbox must be empty for the next delivery.
Streams, retries and acknowledgements do not occur.

### RpcBridge

One direction of the bridge in its asynchronous streaming mode.  A message is its
sequence number.  A critical section is one action; where the code releases a
lock, or touches shared state without one, the model has two actions.

* `EnqueueCheck/Push/Sent/Failed`: `StreamingRequestEnqueue` on an operator
  thread; a value of `enq` other than `idle` means that `dispatch_mu_` is held.
* `CallbackPop/Delete/Disable/Requeue/Trigger`: the callback of an exchange.
  The lock is released after the entry is popped, and `channel_state_` is
  written outside any lock.
* `Retry*`: the resend thread.  `RetryCheck` is its unlocked look at the queue
  and `RetryArm` sets `retry_cb_` under the other mutex, so a callback may run in
  between and see the value before or after.
* `StreamTransmitHandler`, `StreamTransmitRefused`, `ConnectHandler`, `Receive`:
  the receiver.  `StreamTransmitLate`: requests of a broken call that the server
  still reads from its buffers.
* `StreamFails`: any call with outstanding exchanges may fail; responses in flight
  are lost, and any prefix of the unread requests is still read.

Streams are identities that are reused when drained (`Free`).  A second
notification of the same `Notification` has no effect in a release build and has
none here.  The logging, the shutdown in the destructor and the payloads are left
out.

### RecvCache

The same receiver seen from the operators, with `QueryResult` as the code has it:
look, register a notification, release the lock, sleep, be notified or time out,
lock and look again.  The network delivers anything sent, in any order and any
number of times.  `Mailbox` maps it to ReliableChannel.

### Registry

One application: its workers and their `RegisterUUID` calls, `StartApplication`,
the `CheckAppStatus` thread and redis.  Every redis command is an action; a worker's
address is the number of its incarnation, and calls of earlier incarnations keep
running.  Time enters once: a key with a time to live of `lock_timeout_s` outlives
at most `LockTtl` attempts of a waiting call (`polls`), since every attempt is
followed by a sleep.  `stale_write` is a history variable: an AppInfo was written
by somebody whose copy was out of date.  A redis command may fail at every step of a call, of the polling
loop and of the checker: to `Lock` a GET that fails is one that finds no key (`hiredis_executor.cc:91`),
a poll that cannot read the AppInfo ends StartApplication with an error, and nobody looks at the
result of the checker's SET.  `CheckRegisterNum` also compares `remote_status`, which nothing in
the repository ever sets; the model leaves it out.

### ReplicatedLog

The abstract specification of the data block directories: a log that only grows and
a copy that is extended with the log's next entry.

### DataBlockSync

One partition.  The follower's joiner makes data blocks (`AcquireDataBlockMaker`,
`DumpData`, `DumpMeta`), its `data_block_meta_sender` sends their metas
(`StartPartition`, `GetNextDataBlockMeta`, `SyncPartition`), the leader's
`DataBlockSaver` makes the same blocks from them (`SaverStarts/Takes/Stops` and the
same two dump steps).  `update_data_block_meta` holds the manager's lock and is one
step; the rename of the data file before it is another, so a crash
(`FollowerRestarts`, `LeaderRestarts`) falls between them.  A rename may raise without
or with effect (`DumpDataFails`, `DumpMetaFails`): the saver's run ends with its
switch set and the next run drops what has been saved, the joiner keeps a maker it can
use no more (`stuck`), or only after a failure without effect (`closed`).  A call that is given up may be
executed later (`late`).  `memory` is the follower's meta buffer with its order, because the
order decides what `popitem` removes; the leader's is never read.

What a block holds is a model value (the joiner's matching is in ExampleIdSync), and the leader is assumed to have every example of the ids it sent.
`FinishPartition` is not modelled either: the sender's `join_state` is never set, so it
is not called.

### DataBlockIndex

The binary search of `_sync_saved_data_block_index`, one probe per step, over the number
of meta files in the directory.  DataBlockSync starts its managers from its result.  Its
names differ from those of DataBlockSync, so that one module can prove things about both.

### ExampleIdSync

One partition, from the raw data of both parties to the follower's data blocks.  The
leader (`StartRun`, `NextBatch`, `SyncPartition`, `FinishPartition`) sends everything
it has loaded, in batches of `SyncNums + 1` ids, with a last batch that may be empty;
the follower's handlers append to a queue; the joiner (`BuildDataJoiner`, `TakeBatch`,
`JoinExample`, `EndBatch`, `DumpOnTimeSpan`) joins one id per step, so that handlers and
crashes fall between two ids and inside a batch.  `CallBreaks` is a call that fails at
the leader, with its request executed, dropped or kept (`late`) to be executed at any later
time (`LateRequest`); the leader's next run starts over and sends every id again.
`LeaderRestarts` and `FollowerRestarts` lose what is in memory: of the follower the
queue, the batch at hand and the open block.  Rank and partition of a pair agree in
all calls (both come from the same configuration), so the handlers' checks of them are
left out.  `late` is a set, so two equal late requests are executed as one:
the second would find what the first has left, and an id that is appended twice is joined as one that was
sent twice by two runs is.  `item_dict`, the leader's dictionary of loaded ids, is the concatenation of the files
without the ids that come a second time.  Raw data are sequences of files of ids, with duplicates and with records
that cannot be read.

### TrainerSession

Two trainers, one of each party.  A trainer goes through the phases of `FLEnv` and
`FLEstimator`: `Register`, `GetPairs`, `CleanDirs`, `Download`, `TouchSuccess`, `InitBridge`, `Connect`,
`WaitConnect`, `WaitTrainReady`, `TrainStart`, `Transmit`.  The handlers of its bridge
run meanwhile.  A call finds the peer's process in any phase: the handler's effect and
its answer are one step, `ConnectAnswerLost` is the same without the answer.  What a
process knows about its peer is tagged "current" or "former", and a restart of the peer
turns the first into the second; that is all a property needs of the identity of
processes.  The give-up of the waiting loops after `WaitAttempts` is in the model, so a
follower that waits too long connects again, and its Connect makes a leader that
has started exit.  Without bounds the two trainers can do this to each other for ever.
Three coincidences therefore count as faults, like crashes and lost answers: a follower
that gives up waiting while TrainStart is on its way, a TrainStart that crosses the
Connect of the peer it is linked to, and a trainer that has got a message, is still in
the connect loop and reaches a fresh peer before that peer's Connect makes it exit.
Whether a party has a `checkpoint_hdfs_path` at all is part of its configuration; without
one it downloads nothing.  Three simplifications: `TransmitHandler` accepts any message of the peer while
RpcBridge checks its number, so it accepts more than the code does; a message is handled when it is sent or never, so that one
which outlives its sender and comes after the Connect of the sender's successor is not modelled; and `TrainStart` is
withheld once the faults are used up (see *Fairness*).
`SessionForms` says that the pair forms once they stop.

### BlockMeta

The makers of the partitions, the processes that register a directory, one converter
process per block, and the table.  Both requests are answered before anything is
read, so nothing waits for their outcome; `lost` remembers the registrations that
failed.  The listing of the meta files and that of the data files are two
steps, as are the select and the insert of a row.

### PsiJobs

Both parties' drivers, dispatchers and workers.  A scenario is a pair of command
lines: protocol and kind of input, rows, which entries can be listed and read, type of the id
column, CPUs, `--parallels`, `--buckets`, link, mode.  A sub-directory of the input is one entry, with
the rows of its files.  What makes `run_app` raise before it has workers is `Unusable`; an entry that
cannot be read makes the worker raise that is given it.
`Prepare` splits the input (`Blocks`) and hands out the first blocks; a worker reads
(`ReadBlock`), meets the peer's worker with the same block (`Exchange`), writes
(`WriteBlock`) and posts its counts with a call that arrives later (`Post`, `Deliver`); the driver
hands out the next block (`JobDone`), fails when a worker has raised (`JobRaised`), merges
(`MergeOutput`) and reports (`Report`).  The exchange is atomic here, with its failure on one
side or both (`FaultyExchange`): a side raises, returns a part, or hangs, because `queue.get()`
(`cipher_store.py:51`) and `Event.wait()` (`:73`) have no time-out and `flow.py:118` joins the threads
that wait there.  `WorkerFails` is a registration at redis or a part file that cannot be written, `Abort` a call to the coordinator
that raises (`set_node_status` at the start or the end) or an output file that cannot be written.  `Timeout` is the link's last
retry.  A negative `--buckets` or `--parallels` gives no worker, and the loop of `run_app` then calls
`ray.wait([])` for ever (`Hung`).  The hash is any
function of an id and of the type it was read with: the same id read as a number and as
a string hashes differently, which is why an exchange of such columns finds nothing.
Two ids with the same hash are one id to the code; `ExactResult` is about a hash that
tells the ids of a column apart (`NoCollision`).

### PsiFlow

The inside of `Exchange`.  After the handshake (`Propose`, `Negotiate`, `Handshake`,
`ResetFromResponse`) each side runs its threads; one batch per step, two
channels in each direction with `Window` messages.  The second channel is the sub-world "dua"
(`flow.py:102`); that it has a window of its own, which the messages of the first cannot fill, is an
assumption about yacl, and that both calls return with a window of one depends on it.  `Register` may raise: the default
`--redis-address` is empty and does not split into host and port (`register_uuid.py:23`), or redis
is not there.  A cipher is the id with
the set of keys it was encrypted under, so that encryption commutes and nothing else
is assumed of it.  The `None` that `recv_and_calcu` puts into the queue before the last array is
the last flag of that array.  `LinkError` ends a thread and nothing more; `TimesOut` ends a
receiving one that waits for a peer that is gone.  A key of `CipherStore` per side, the truncation of
ciphers and the formats are reduced to what the handshake compares.

## 4. Runs

| run | question | result |
|-----|----------|--------|
| bridge | can a message be lost, doubled, reordered, owned twice? | no; implements ReliableChannel |
| | is everything delivered and the channel enabled again? | yes, except in the two named situations |
| cache | does a timeout lose or double a message? | no; implements ReliableChannel |
| | is every data message returned? | yes |
| registry_safety | is what is announced complete, and what loses a registration? | complete; only outdated copies |
| registry_live | does StartApplication stop polling? | yes, unless an update was lost |
| registry_lock | is a worker that was told OK registered? | **no** (finding) |
| session | does every process talk to one process of its peer only, under an id of its own? | yes |
| | do the two trainers get to train together? | yes, except a worker that is not the chief after a broken download |
| example_ids | is a common id joined once, and can one get lost? | once without faults; lost only with a crash of the follower |
| | does the leader end? | yes, unless the consumer dropped the partition without its knowledge |
| blocks | do the leader's blocks always agree with the follower's, and does every meta have its data? | yes; implements ReplicatedLog |
| | does every block get to the leader? | yes, unless the meta buffer is full of others |
| index_search | does the binary search end with the last index? | yes |
| block_meta | does every row lead to the block's own file, and does every block get its row? | yes; unless its registration is lost |
| psi_jobs | is a reported result the intersection, with true counts? | yes, where the two splits agree |
| | do both jobs succeed? | yes, through a proxy, with equal splits and without faults |
| | does a job end? | given the link's time-out, unless its own loop waits for ever: for a worker hung in an exchange, or for no worker at all |
| psi_flow | are the ids taken the common ones, at every moment? | yes |
| | do both calls return, and does a call end? | yes without errors; yes unless its receiving thread has died |

session, example_ids, blocks, psi_jobs and psi_flow also check the inductive invariant of
their module (`IInv`, `FlowInv` in PsiFlow, which contains the type invariant).  Those of RpcBridge, RecvCache,
Registry and BlockMeta hold with the configurations of the other runs too (name `IInv` as an
INVARIANT); they are not among the properties of these runs because the theorems say it.

**Bounds.**  RpcBridge: four messages, of which three share one data mailbox (so a
message is rejected, re-queued and overtaken) and the last is of another mailbox; two
streams, so a new call runs while an old one is drained; two stream failures, so that
a resend fails as well.  RecvCache: six messages over one control and two data mailboxes.
Registry: two workers, `LockTimes` 2 so that a lock is acquired at the last attempt
(3 in the liveness run), one fault (a restart, a redis error or a lost reply) in
the safety run.  With `LockTtl >= LockTimes - 1` a call can leak the lock at its
last attempt, its repetition waits for exactly that lock, and so on for ever; the
defaults of the code (20 attempts, a time to live of about 10) exclude that, and so
does the liveness run.  DataBlockSync: three blocks, a meta buffer of one (1024 in the
code) so that it overflows, and two faults, so that something fails while a first
failure is being repaired.  DataBlockIndex: a threshold of 40
(2^53 in the code) with every number of files.  ExampleIdSync: batches of three ids and
blocks of two, so that a block is full inside the last batch and a last batch is
empty; three faults, so that a late request of a first run meets a second run
after a restart.  TrainerSession: three waits before giving up (as in the
code) and five faults: each side may restart and give up while the other recovers;
four clusters, so that both, one or none of the trainers are chief.  BlockMeta: one partition
of two blocks and an empty one, one request for the directory besides the
announcements, three faults; a second request or block exceeds the time of a run.
PsiJobs: twelve pairs of command lines over four ids, up to three blocks and two workers, one
failure (of the link, of redis, of the coordinator or of a file).  PsiFlow: a batch of two ids, columns of none to six (three full batches), a window of one
message, two errors.  Deadlock checking is off where the system may stop: all messages sent and
consumed, all registered, the partition joined, no block to make; PsiJobs, PsiFlow and
TrainerSession are checked with it.

**Fairness.**  RpcBridge: each thread that can move does (weak fairness of each
callback and handler action).  The resend thread has strong fairness, because its
steps need `dispatch_mu_`, which operators take and release again: the mutex
is assumed not to starve it.  Operators need not send and calls need not fail.  The
peer connects and consumers call `QueryResult`: the training loop does.  RecvCache: the
message that is due is handled again and again (strong fairness, which bridge
justifies) and the loop keeps asking.  Registry: calls are served, keys expire,
workers repeat the registration until they are told OK (`prepare_rpc_channel` loops),
the two loops of the coordinator run.  The replies of check_job.py, errors and restarts are not
forced.  DataBlockSync: `ProcessorManager` (not in the repository) runs the sender and the
saver again and again, and the saver ends what it has begun.  The joiner need not make
blocks and nothing need fail.  DataBlockIndex: the constructor runs to its end.
ExampleIdSync: the same processors run again and again (weak fairness of the leader's
sender and of the joiner); broken calls and crashes are bounded and never forced, and
late requests need not be executed.  TrainerSession: each loop goes on and ended processes
are restarted (weak fairness); `TrainStart` has strong fairness: the trainer is past
its waits and runs on by itself, but once the faults are used up the model withholds
the step while the peer is about to connect, so it is not enabled all the time.  BlockMeta: processes that were started run on.  PsiJobs: workers, drivers
and meetings go on; that the link gives up in the end (yacl's retries) is an assumption of
`EndsUnlessHung` only.  PsiFlow: threads that can go on do, and a receive that nobody
answers times out.

### What the finding shows

* *registry_lock*: Lock is GET then SET.  The run has only StartApplication and the calls of two workers
  (`LockSpec`): no fault, no expiry, and the CheckAppStatus thread sleeps.  Both calls find no key, both set it and both read
  the AppInfo without pairs; one writes its pair and is told OK, then the other's write drops it, and the worker
  that was told OK never registers again.  With the whole of `Next` there is a second way, without two callers:
  the checker writes, without the lock (`check_app_status.cc:65`), an AppInfo it read before the registration.

### Disagreements that have no run of their own

These properties state what a comment or a document says, and the code violates them.
They are in the modules; to see the counterexample, name the property alone in the
given configuration.

* `ChannelRecovers` (RpcBridge.cfg): "// Disable Request, wait channel recover"
  (`rpc_bridge_agent.cc:634`), but the channel may stay disabled, in two ways.  The
  resend thread sees an empty queue (line 154, without `retry_mu_`), a callback re-queues its request and finds
  `retry_cb_` null, then the thread sets `retry_cb_` (line 163) and waits for a callback that
  has already come (`LostWakeup`).  Or the thread has popped request n + 1 before the callback
  of n re-queued it: the peer answers n + 1 with `MESSAGE_MISSING` for ever
  (`ResendOutOfOrder`).  bridge shows that there is no third.  The TODO "deadlock ???" at
  lines 257-258 suspects it.
* `DisabledUntilResent` (RpcBridge.cfg, INVARIANT): "// Disable Request, wait retry finish"
  (`rpc_bridge_agent.cc:612`), but the unconditional `kActive` at the end of a round
  (line 281) overrides a callback's `kInactive`.
* `CurrentAddress` (Registry_safety.cfg, INVARIANT): "check service, if has this uuid, replace
  (for restart ip)" (`internal_service_impl.cc:165`), but a delayed call of the old
  incarnation puts the old address back after the new one was told OK.
* `ReachesLeader` (DataBlockSync.cfg, PROPERTY): "输出结果在`../mnist_data/data_block_leader`和
  `../mnist_data/data_block_follower`" (`example/data_join/README.md:14`), but `popitem` removes the newest
  item of the meta buffer (`data_block_manager.py:122`).  When the buffer is full, a
  meta that is read from its file again is removed before it is returned, and the sender raises
  KeyError in every run.  blocks shows that nothing else keeps a block from the leader.
* `AgreedBuckets` (PsiJobs.cfg with `Scenarios <- MCUnequal` and `MaxFaults = 0`, INVARIANT): the help
  of `--buckets` says "0为两侧协商最优分桶" (0: both sides negotiate; `psi_actors.py:1269`), but
  each side takes its own number of workers (line 1367).  With two and three CPUs the side
  with two buckets ends with status 0 and a part of the intersection.
* `ReturnsIntersection` (PsiFlow.cfg, INVARIANT): "return intersection result." (`api.py:44`, `:87`), but
  an error in a thread of the exchange only ends the thread; the call joins it and
  returns the part found so far (`flow.py:118`).

Four more came up on the way and are not stated as properties.  The help of `--buckets` says
"小于0为读取已分桶好的输入" (below 0: the input is in buckets already; `psi_actors.py:1269`), but nothing
reads such an input: a file is split into no block and the job waits for ever on no worker.
`raise_exception` (`base.py:31`) gets the field to name as a list, which its `eval` cannot parse, so that a handshake
that fails raises a SyntaxError in place of the PsiException.  The comment at
`flenv.py:116-117` says "it is possible that the process is restarted", but the success
file that would spare the restarted process the download is in the directory the
chief has just removed (line 111); and a worker that is not the chief
and whose download broke finds the files of the first attempt in every later one
(`DownloadStuck`).  One data file without meta, which a crash between the two renames
leaves when the restarted maker makes a block of other content, makes the registration of
its directory fail for this partition and for those after it (`parse_data_block_meta.py:59`).

## 5. Proofs

Eight modules of proofs, for every value of the constants (any number of messages,
mailboxes, streams, failures, workers, attempts, blocks, ids, command lines and faults).

* **RpcBridgeProofs**.  `Invariance`: `IInv` is inductive.  `NoMessageLost` alone is not: a
  request leaves the sender when a response says it was delivered, so responses must
  be truthful (`AckHonest`), and they only are if an exchange is tied to the request its
  callback pops (`Owned`: one exchange per request, owned by `msg_exchanges` or by the resend
  thread) and if nothing unnumbered is in flight (`Numbered`).  From it follow
  `TypeCorrect`, `NothingLost`, `SingleOwner`, `DataOnce`, and `Refinement`: the
  bridge implements ReliableChannel (EnqueueSent is a Send, an accepting handler step a
  Deliver, QueryResult a Consume, every other step a stutter).
* **RecvCacheProofs**.  `Invariance` (with `Waiting`: a notified call finds an ACTIVE
  entry, which only its own call resets), `DataOnce` and `Refinement`.
* **RegistryProofs**.  `Invariance`, `AnnouncesAll`, `OnlyStaleWritesLose`.  The core
  is that `ReplaceUUIDForNewIp` keeps the list free of duplicates in all copies, also stale ones
  (`Copies`), so that a list of `worker_num` pairs names every worker
  (`FullListNamesAll`, the pigeonhole principle).
* **DataBlockSyncProofs**.  `Invariance`, `ChecksNeverRaise` (`NeverRefused`), `MetasHaveData`,
  `PrefixAlways` and `Refinement`: the two directories implement ReplicatedLog, where the
  follower's rename of a meta appends to the log, the leader's is a `Replicate`, and every
  other step, crashes included, is a stutter.  That the leader's next block continues
  its directory needs the buffer: what is in it is a run of consecutive metas of the follower
  that starts at the leader's next index while a saver works on it (`Buffered`), which in turn needs
  that the saver only runs with its switch set, and that a request on its way or late carries
  a meta the follower has (`OnTheWay`).  `Making` ties a maker's open block to its directory.
  `SearchCorrect` is about DataBlockIndex, for every threshold: the first unused index stays
  between the bounds (`Between`).
* **ExampleIdSyncProofs**.  `Invariance`, `TypeCorrect`, `NothingLostEver`, `JoinedInOrder`
  (`JoinedOnce`) and `NoIdTwice`.  Without a
  crash of the follower no common id is lost.  "Everything the leader has sent is in the queue, at the
  joiner or in a block" is not inductive: a late request may be executed after its
  run, and the consumer drops a partition at the first batch marked finished.  The
  invariant therefore says of every finished batch, whether queued, late or with the joiner, and of a
  late FinishPartition request, that with it everything has been received, and of a
  run that what it has sent is with the follower (`Kept`); that a run that finishes has sent
  everything (`SentAll`); and that only a last batch makes the joiner finish, which closes the
  open block (`FinishedByLast`).
  Without faults the ids in blocks, in the open block, in the joiner's batch and in the queue are,
  in this order, the common ones among what has been sent.  A second run would break that, so the
  invariant says that there is none (`OneRun`: the first run that ends tells the
  consumer that the partition is complete), and that `item_dict` has no id twice; each step then moves an id from the front of
  one of the four places to the end of another.  That concatenation is associative, that the filter of a
  concatenation is that of its parts, and that `FirstOnes` leaves no id twice, are lemmas about
  `FlattenSeq`, each shown by a least counterexample.
* **TrainerSessionProofs**.  `Invariance`, `HearsOne` (`OnePeerProcess`) and `OwnRanks`.  A process that has
  accepted a message is STARTED and exits at the Connect of another process; until it has, a process
  that replaces the one it has heard does not get past Connect (`StartedOnce`).
  The ids of masters, chiefs and workers are adjacent intervals of 0 .. replicas - 1, for a
  cluster of any size.
* **BlockMetaProofs**.  `Invariance`, `RowsAreBlocks` and `RowsStay` (an action property).  The registration
  pairs meta files and data files by the index in their names, after it has compared their numbers.  It is right because metas are
  listed before data files and a meta is made after its data file: equal numbers then mean equal sets
  of blocks (the pigeonhole principle, `FS_Injection`), and each converter
  process works on the pair of one block.
* **PsiProofs**.  Of PsiJobs: `Invariance`, `WorkedOnce` (`BlocksWorkedOnce`), `MarkStands` (an action property),
  `ExactResults` (`ExactResult`) and `CountsReported` (`ReportedCounts`).
  The status of a block is overwritten by calls that arrive at any later time; the block is never handed
  out twice because no call on its way names INIT (`Begun`) and because a block that is still INIT is with
  nobody and has no output (`Fresh`).  Every action changes one party's part of the state, so the
  proof is about four values (`OneParty`) and one lemma per kind of change.
  The result of a job needs more: that after the loop every block has been handed out and every worker
  collected (`Phase`), and that a worker past its exchange, and a block nobody has any longer, have the
  join with the peer's block of the same number (`Outcome`).  The counts are sent in calls that are not waited for, so the
  invariant says of each call on its way, and of what the dispatcher knows, that its counts are zero or the final
  ones (`Counted`); that a PROCSSING still on its way is followed by a PROCESSED of the same worker, or the worker is still at
  it, so that no late PROCSSING erases the counts for good; and that a finished block is known or such a call is on its
  way (`Heard`).  What remains is about data: the buckets of a file, or the files of a directory, together have
  each row of the input once (`BlocksCount`), so that the joins of the blocks have an id as often as the
  input does, or not at all (`JoinsAre`), and the counts of the blocks add up to those of the input and the output.
  Of PsiFlow: `FlowInvariance`, `IntersectionTaken` (`TakesCommon`), `ReturnsWhole` (`WholeUnlessCut`) and
  `NoEarlyReturn` (`KeptWhileNeeded`), for columns, batches and windows of any size.  Between the thread
  that sends an id and the one that looks it up a batch is in one of four places.  The
  invariant says where each place begins in the column, as the number of ids sent less those
  still on their way (`Fetched`, `Queued`, `Returned`, `LookedUp`), that the batches in it are the next ones
  from there (`Pipeline`), how the state of a thread goes with these numbers (`Progress`), and that the
  set has what has been fetched (`Collected`).  A position is then taken for what the column has
  there, and the look-up decides as the whole column of the peer would, since it waits for the set.
  The ids of the two sides share none of this but the flag, so a step is about one side's ids (`Way`)
  and the other's are framed (`WayFrame`).  That a set of positions can be listed in order (`ListExists`)
  is shown without induction: there is no least size of a set that cannot.

Assumptions: `RpcBridgeAssumption`, `RecvCacheAssumption`, `RegistryAssumption`,
`DataBlockIndexAssumption`, `DataBlockSyncAssumption`, `TrainerSessionAssumption`, `BlockMetaAssumption`,
`ExampleIdSyncAssumption` and `RawAssumption` of ExampleIdSync, `NumericAssumption`, `HashAssumption`, `FaultsAssumption`,
`ScenarioAssumption` and `SingleFileAssumption` of PsiJobs (an `--input` that names a file has the rows of at most one), `BoundsAssumption` and
`InputsAssumption` of PsiFlow: all of them are about the shape of the constants.

Model-checked only:

* Liveness (the properties with fairness): the prover handles neither fairness nor ENABLED.

What a loop of the code computes (a sum, a filter, a concatenation) is proved without an induction rule: the
model's loops are recursive functions over the turns of the loop, and a lemma about them assumes that some number of
turns, or some length, violates it and refutes the least one (`LeastOf`).

## 6. Not modelled

* Bridge: the synchronous streaming and the unary mode, the destructor.
* Data block loading (`LoadDataBlock`, `QueryReadyFile`): the data centre that decides the answers is
  not in the repository.
* Coordinator: several applications, and with them the end of the checker thread at a
  failed `InvokeSyn`; the deletion of an application; the external services, whose source is missing.
* Session: the local debug mode, most options of the model configuration, evaluation, export and
  the end of training.
* DataJoin: `FinishPartition` of the block metas and `join_state` (never reached), `stop_processors`,
  event times, `verify_example_ids`; a rename that fails inside ExampleIdSync; the
  `data_source` tables and the redis manager (unused), the proxies and interceptors, the
  database connection; `consumed_status`, which a second registration sets back to 1 and
  only the data centre reads; the `strip('/')` of a directory name at `parse_data_block_meta.py:102`.
* PSI: PIR beyond its exception, `check_auth` (commented out), direct links between parties
  with different numbers of workers beyond the fact that the blocks do not meet, the
  cryptography, yacl and ray.
* The TensorFlow operators and wrappers, generated protobuf code, the proxy.
