--------------------------- MODULE DataBlockSync ---------------------------
(***************************************************************************)
(* How the data blocks the follower joins reach the leader: the joiner's   *)
(* DataBlockMaker and DataBlockManager, the data_block_meta_sender         *)
(* processor, the leader's StartPartition and SyncPartition handlers and   *)
(* its DataBlockSaver.  Both processes may crash and restart, renaming a   *)
(* file may fail (with or without effect), and calls may be given up while *)
(* the peer still executes them.                                           *)
(*                                                                         *)
(* A block is its index and what it holds (its example ids).  The meta     *)
(* files of a party are numbered without gaps, so they are a sequence; the *)
(* block at index i is its element i + 1.                                  *)
(***************************************************************************)
EXTENDS Naturals, Sequences

CONSTANTS
  Contents,     \* what a block may hold
  BufferSize,   \* removed_items_nums_from_buffer
  MaxBlocks,    \* bound: blocks the follower produces
  MaxFaults     \* bound: crashes, failures of file operations, calls given up

ASSUME DataBlockSyncAssumption ==
  /\ BufferSize \in Nat
  /\ MaxBlocks \in Nat
  /\ MaxFaults \in Nat

Parties == {"leader", "follower"}
Indices == 0..MaxBlocks
Block == [index : Indices, content : Contents]

VARIABLES
  \* files
  data,           \* data block files of each party
  metas,          \* meta files of each party
  \* DataBlockManager of each party
  saved,          \* _saved_data_block_index + 1
  saving,         \* whether _saving_data_block_index is set (to the next index)
  memory,         \* the follower's meta buffer: its keys in insertion order
  \* DataBlockMaker of each party
  maker,          \* progress of data_block_finalizer
  block,          \* the block being made
  \* the follower's data_block_meta_sender
  sender,         \* "idle", about to send the "next" meta, or in SyncPartition ("sync")
  next_send,      \* DataJoinerWrapper::next_data_block_index
  \* the leader's DataBlockSaver
  next_index,     \* _next_data_block_index
  meta_buffer,    \* _data_block_meta_buffer
  saver,          \* whether a saver processor is running
  state_switch,   \* _state_switch: left set by a run that ended in an exception
  late,           \* SyncPartition requests whose caller has given up
  faults

managerVars == <<saved, saving, memory>>
makerVars == <<maker, block>>
senderVars == <<sender, next_send>>
saverVars == <<next_index, meta_buffer, saver, state_switch>>
vars == <<data, metas, managerVars, makerVars, senderVars, saverVars, late, faults>>

TypeOK ==
  /\ data \in [Parties -> SUBSET Block]
  /\ metas \in [Parties -> Seq(Contents)]
  /\ \A p \in Parties : Len(metas[p]) <= MaxBlocks
  /\ saved \in [Parties -> Indices]
  /\ saving \in [Parties -> BOOLEAN]
  /\ memory \in Seq(Indices)
  /\ maker \in [Parties -> {"none", "open", "renamed", "closed", "stuck"}]
  /\ block \in [Parties -> Block \cup {<<>>}]
  /\ sender \in {"idle", "next", "sync"}
  /\ next_send \in Indices
  /\ next_index \in Indices
  /\ meta_buffer \in Seq(Block)
  /\ saver \in {"idle", "run"}
  /\ state_switch \in BOOLEAN
  /\ late \in SUBSET Block
  /\ faults \in 0..MaxFaults

Init ==
  /\ data = [p \in Parties |-> {}]
  /\ metas = [p \in Parties |-> <<>>]
  /\ saved = [p \in Parties |-> 0]
  /\ saving = [p \in Parties |-> FALSE]
  /\ memory = <<>>
  /\ maker = [p \in Parties |-> "none"]
  /\ block = [p \in Parties |-> <<>>]
  /\ sender = "idle"
  /\ next_send = 0
  /\ next_index = 0
  /\ meta_buffer = <<>>
  /\ saver = "idle"
  /\ state_switch = FALSE
  /\ late = {}
  /\ faults = 0

Fault ==
  /\ faults < MaxFaults
  /\ faults' = faults + 1

-----------------------------------------------------------------------------
(* DataBlockManager                                                        *)

\* Mutant: a rename that raised is taken for one without effect.
SyncedNever(p) == saved[p]

\* _sync_saved_data_block_index: what became of a rename that failed.
Synced(p) == IF saving[p] /\ Len(metas[p]) > saved[p] THEN saved[p] + 1 ELSE saved[p]

SyncSavedIndex(p) ==
  /\ saved' = [saved EXCEPT ![p] = Synced(p)]
  /\ saving' = [saving EXCEPT ![p] = FALSE]

\* _remove_item_from_data_block_memory_buffer: popitem takes the newest item.
Trimmed(buffer) ==
  IF Len(buffer) > BufferSize THEN SubSeq(buffer, 1, BufferSize) ELSE buffer

Cached(i) == \E k \in 1..Len(memory) : memory[k] = i

\* _sync_data_block_meta of a meta that is not in the buffer: after reading the
\* file the new item may be the one that is removed again (KeyError).
Loads == Len(memory) < BufferSize

-----------------------------------------------------------------------------
(* DataBlockMaker, in both parties                                         *)

\* A maker for block b, with a temporary file to write its examples to.
NewMaker(p, b) ==
  /\ maker' = [maker EXCEPT ![p] = "open"]
  /\ block' = [block EXCEPT ![p] = b]

(* data_block_finalizer                                                    *)

\* The data file gets its name.
DumpData(p) ==
  /\ maker[p] \in {"open", "closed"}
  /\ maker' = [maker EXCEPT ![p] = "renamed"]
  /\ data' = [data EXCEPT ![p] = @ \cup {block[p]}]
  /\ UNCHANGED <<metas, managerVars, block, senderVars, saverVars, late, faults>>

\* The meta file gets its name: update_data_block_meta under the manager's lock.
RenameMeta(p) == metas' = [metas EXCEPT ![p] = Append(@, block[p].content)]

MetaSaved(p) ==
  /\ saved' = [saved EXCEPT ![p] = block[p].index + 1]
  /\ memory' = IF p = "follower" THEN Append(Trimmed(memory), block[p].index)
               ELSE memory
  /\ UNCHANGED saving

\* Mutant: the meta file is renamed before the data file.
DumpMetaFirst(p) ==
  /\ maker[p] = "open"
  /\ ~saving[p]
  /\ block[p].index = saved[p]
  /\ RenameMeta(p)
  /\ MetaSaved(p)
  /\ maker' = [maker EXCEPT ![p] = "none"]
  /\ block' = [block EXCEPT ![p] = <<>>]
  /\ meta_buffer' = IF p = "leader" THEN Tail(meta_buffer) ELSE meta_buffer
  /\ UNCHANGED <<data, senderVars, next_index, saver, state_switch, late, faults>>

\* The maker is done; the leader's saver also drops the meta from its buffer.
DumpMeta(p) ==
  /\ maker[p] = "renamed"
  /\ ~saving[p]
  /\ block[p].index = saved[p]
  /\ RenameMeta(p)
  /\ MetaSaved(p)
  /\ maker' = [maker EXCEPT ![p] = "none"]
  /\ block' = [block EXCEPT ![p] = <<>>]
  /\ meta_buffer' = IF p = "leader" THEN Tail(meta_buffer) ELSE meta_buffer
  /\ UNCHANGED <<data, senderVars, next_index, saver, state_switch, late, faults>>

\* An exception leaves data_block_finalizer.  The saver drops its maker and its
\* run ends; the joiner keeps a maker whose writer is closed.
Raises(p, state) ==
  /\ Fault
  /\ maker' = [maker EXCEPT ![p] = IF p = "leader" THEN "none" ELSE state]
  /\ block' = IF p = "leader" THEN [block EXCEPT ![p] = <<>>] ELSE block
  /\ saver' = IF p = "leader" THEN "idle" ELSE saver
  /\ UNCHANGED <<senderVars, next_index, meta_buffer, state_switch, late>>

DumpDataFails(p) ==
  /\ maker[p] = "open"
  /\ \/ UNCHANGED data /\ Raises(p, "closed")
     \/ data' = [data EXCEPT ![p] = @ \cup {block[p]}] /\ Raises(p, "stuck")
  /\ UNCHANGED <<metas, managerVars>>

\* Renaming the meta file raises, without or with effect, or what follows it
\* (save_data_block_info) does.
DumpMetaFails(p) ==
  /\ maker[p] = "renamed"
  /\ Raises(p, "stuck")
  /\ \/ /\ saving' = [saving EXCEPT ![p] = TRUE]
        /\ UNCHANGED <<metas, saved, memory>>
     \/ /\ saving' = [saving EXCEPT ![p] = TRUE]
        /\ RenameMeta(p)
        /\ UNCHANGED <<saved, memory>>
     \/ /\ RenameMeta(p)
        /\ MetaSaved(p)
  /\ UNCHANGED data

-----------------------------------------------------------------------------
(* The follower: joiner and sender                                         *)

\* The first matching example opens a maker for the next index.
AcquireDataBlockMaker ==
  /\ maker["follower"] = "none"
  /\ Synced("follower") < MaxBlocks
  /\ SyncSavedIndex("follower")
  /\ \E c \in Contents :
       NewMaker("follower", [index |-> Synced("follower"), content |-> c])
  /\ UNCHANGED <<data, metas, memory, senderVars, saverVars, late, faults>>

\* Mutant: the sender goes on where it stopped.
StartPartitionOwnIndex ==
  /\ sender = "idle"
  /\ sender' = "next"
  /\ UNCHANGED <<data, metas, managerVars, makerVars, next_send, saverVars, late, faults>>

\* partition_syncer_to_consumer: the leader's answer to StartPartition.
NextDataBlockIndex == next_index

\* A run of the sender asks where to go on.
StartPartition ==
  /\ sender = "idle"
  /\ sender' = "next"
  /\ next_send' = NextDataBlockIndex
  /\ UNCHANGED <<data, metas, managerVars, makerVars, saverVars, late, faults>>

\* acquire_data_block_meta_by_index: there is no such meta yet, it is sent, or
\* the lookup raises.
GetNextDataBlockMeta ==
  /\ sender = "next"
  /\ SyncSavedIndex("follower")
  /\ \/ /\ next_send >= Synced("follower")
        /\ sender' = "idle"
        /\ UNCHANGED memory
     \/ /\ next_send < Synced("follower")
        /\ Cached(next_send)
        /\ sender' = "sync"
        /\ UNCHANGED memory
     \/ /\ next_send < Synced("follower")
        /\ ~Cached(next_send)
        /\ sender' = IF Loads THEN "sync" ELSE "idle"
        /\ memory' = Trimmed(Append(memory, next_send))
  /\ UNCHANGED <<data, metas, makerVars, next_send, saverVars, late, faults>>

Sent == [index |-> next_send, content |-> metas["follower"][next_send + 1]]

\* The call breaks; the leader may still execute it.
SenderGivesUp ==
  /\ sender = "sync"
  /\ Fault
  /\ sender' = "idle"
  /\ late' = late \cup {Sent}
  /\ UNCHANGED <<data, metas, managerVars, makerVars, next_send, saverVars>>

-----------------------------------------------------------------------------
(* The leader: handlers and saver                                          *)

\* Mutant: the leader numbers what it receives instead of comparing the index.
AppendSentMetaRenumbered(b) ==
  IF next_index < MaxBlocks
  THEN /\ meta_buffer' = Append(meta_buffer, [b EXCEPT !.index = next_index])
       /\ next_index' = next_index + 1
  ELSE UNCHANGED <<meta_buffer, next_index>>

\* append_sent_data_block_meta_to_buffer: only the meta that is due.
AppendSentMeta(b) ==
  IF b.index = next_index
  THEN /\ meta_buffer' = Append(meta_buffer, b)
       /\ next_index' = next_index + 1
  ELSE UNCHANGED <<meta_buffer, next_index>>

SyncPartition ==
  /\ sender = "sync"
  /\ AppendSentMeta(Sent)
  /\ \/ /\ Sent.index = next_index
        /\ sender' = "next"
        /\ next_send' = next_send + 1
     \/ /\ Sent.index # next_index
        /\ sender' = "idle"
        /\ UNCHANGED next_send
  /\ UNCHANGED <<data, metas, managerVars, makerVars, saver, state_switch, late, faults>>

SyncPartitionLate(b) ==
  /\ b \in late
  /\ late' = late \ {b}
  /\ AppendSentMeta(b)
  /\ UNCHANGED <<data, metas, managerVars, makerVars, senderVars, saver,
                 state_switch, faults>>

\* Mutant: metas that have been saved stay in the buffer.
RemoveSavedNever(n) == UNCHANGED meta_buffer

\* _remove_saved_data_block_meta_from_buffer
RemoveSaved(n) ==
  \E k \in 0..Len(meta_buffer) :
    /\ \A i \in 1..k : meta_buffer[i].index < n
    /\ k < Len(meta_buffer) => meta_buffer[k + 1].index >= n
    /\ meta_buffer' = SubSeq(meta_buffer, k + 1, Len(meta_buffer))

\* is_need_save
NeedSave == meta_buffer # <<>>

\* _notify_data_block_manager_sync_state cleans up after a run that raised.
NotifySyncState ==
  \/ /\ state_switch
     /\ SyncSavedIndex("leader")
     /\ RemoveSaved(Synced("leader"))
  \/ /\ ~state_switch
     /\ UNCHANGED <<saved, saving, meta_buffer>>

\* A run of the saver starts.
SaverStarts ==
  /\ saver = "idle"
  /\ NeedSave
  /\ saver' = "run"
  /\ state_switch' = TRUE
  /\ NotifySyncState
  /\ UNCHANGED <<data, metas, memory, makerVars, senderVars, next_index, late, faults>>

SaverTakes ==
  /\ saver = "run"
  /\ maker["leader"] = "none"
  /\ NeedSave
  /\ NewMaker("leader", Head(meta_buffer))
  /\ UNCHANGED <<data, metas, managerVars, senderVars, saverVars, late, faults>>

SaverStops ==
  /\ saver = "run"
  /\ maker["leader"] = "none"
  /\ ~NeedSave
  /\ saver' = "idle"
  /\ state_switch' = FALSE
  /\ UNCHANGED <<data, metas, managerVars, makerVars, senderVars, next_index,
                 meta_buffer, late, faults>>

-----------------------------------------------------------------------------
(* Crash and restart of a process: only the files remain                   *)

\* The managers start from the number of meta files (see DataBlockIndex).
Restarted(p) ==
  /\ saved' = [saved EXCEPT ![p] = Len(metas[p])]
  /\ saving' = [saving EXCEPT ![p] = FALSE]
  /\ maker' = [maker EXCEPT ![p] = "none"]
  /\ block' = [block EXCEPT ![p] = <<>>]

FollowerRestarts ==
  /\ Fault
  /\ Restarted("follower")
  /\ memory' = <<>>
  /\ sender' = "idle"
  /\ next_send' = 0
  /\ late' = IF sender = "sync" THEN late \cup {Sent} ELSE late
  /\ UNCHANGED <<data, metas, saverVars>>

\* A new DataBlockSaver goes on after the blocks that have their meta file.
NewSaver ==
  /\ next_index' = Len(metas["leader"])
  /\ meta_buffer' = <<>>
  /\ saver' = "idle"
  /\ state_switch' = FALSE

LeaderRestarts ==
  /\ Fault
  /\ Restarted("leader")
  /\ NewSaver
  /\ sender' = IF sender = "sync" THEN "idle" ELSE sender
  /\ late' = {}
  /\ UNCHANGED <<data, metas, memory, next_send>>

-----------------------------------------------------------------------------
Sender == StartPartition \/ GetNextDataBlockMeta \/ SyncPartition

Saver == SaverStarts \/ SaverTakes \/ SaverStops

Next ==
  \/ \E p \in Parties : DumpData(p) \/ DumpMeta(p) \/ DumpDataFails(p) \/ DumpMetaFails(p)
  \/ AcquireDataBlockMaker
  \/ Sender
  \/ SenderGivesUp
  \/ \E b \in late : SyncPartitionLate(b)
  \/ Saver
  \/ FollowerRestarts
  \/ LeaderRestarts

Spec == Init /\ [][Next]_vars

\* ProcessorManager runs the sender and the saver again and again, and a run of
\* the saver ends what it has begun.  The joiner need not make any block, and
\* nothing need fail.
Fairness ==
  /\ WF_vars(Sender)
  /\ WF_vars(Saver)
  /\ WF_vars(DumpData("leader"))
  /\ WF_vars(DumpMeta("leader"))

FairSpec == Spec /\ Fairness

-----------------------------------------------------------------------------
(* Properties                                                              *)

\* Whatever crashes, fails or is repeated, the leader's data blocks are a
\* prefix of the follower's: same index, same examples, no gap.
LeaderPrefix ==
  /\ Len(metas["leader"]) <= Len(metas["follower"])
  /\ \A i \in 1..Len(metas["leader"]) : metas["leader"][i] = metas["follower"][i]

\* The consistency checks of update_data_block_meta ("data block of index {} is
\* saving", "the data_block_index must be consecutive") never raise: every run
\* starts from an index that agrees with the files.
NeverRefused ==
  \A p \in Parties :
    maker[p] \in {"open", "renamed"} => ~saving[p] /\ block[p].index = saved[p]

\* A crash between the two renames leaves a data file without meta, never a
\* meta without its data file: a trainer that finds a meta can read the block.
MetaHasData ==
  \A p \in Parties : \A i \in 1..Len(metas[p]) :
    [index |-> i - 1, content |-> metas[p][i]] \in data[p]

Log == INSTANCE ReplicatedLog WITH log <- metas["follower"], copy <- metas["leader"]

\* The two directories behave like a log and its copy.
ImplementsLog == Log!Spec

\* The example's README says that the result is in the data block directories of
\* the leader and of the follower: every block of the follower gets to the
\* leader.
ReachesLeader ==
  \A i \in 1..MaxBlocks : Len(metas["follower"]) >= i ~> Len(metas["leader"]) >= i

\* The buffer is full of other metas: the one the leader needs is read from its
\* file, inserted, and removed again before it is returned, every time.
BufferStuck ==
  /\ next_index < saved["follower"]
  /\ ~Cached(next_index)
  /\ ~Loads

\* That is the only reason why a block does not get to the leader.
ReachesUnlessStuck ==
  \A i \in 1..MaxBlocks :
    Len(metas["follower"]) >= i ~> Len(metas["leader"]) >= i \/ BufferStuck

-----------------------------------------------------------------------------
(* The inductive invariant behind the safety properties                    *)

\* What the managers remember differs from the files only after a rename that
\* raised.
Managers ==
  \A p \in Parties :
    \/ Len(metas[p]) = saved[p]
    \/ saving[p] /\ Len(metas[p]) = saved[p] + 1

\* Whatever is on its way to the leader is a block of the follower.
OnTheWay ==
  /\ sender = "sync" => next_send < Len(metas["follower"])
  /\ \A b \in late : /\ b.index < Len(metas["follower"])
                     /\ b.content = metas["follower"][b.index + 1]
  /\ next_index <= Len(metas["follower"])
  /\ \A i \in 1..Len(meta_buffer) :
       meta_buffer[i].content = metas["follower"][meta_buffer[i].index + 1]

\* The leader's buffer continues its files, except that a run that raised leaves
\* a saved meta at its head, to be removed by the next run, which finds the
\* switch set.
Buffered ==
  /\ saver = "run" => state_switch
  /\ Len(meta_buffer) <= next_index
  /\ \A i \in 1..Len(meta_buffer) :
       meta_buffer[i].index + Len(meta_buffer) = next_index + i - 1
  /\ \/ next_index = saved["leader"] + Len(meta_buffer)
     \/ /\ next_index + 1 = saved["leader"] + Len(meta_buffer)
        /\ saver = "idle"
        /\ state_switch
        /\ ~saving["leader"]
        /\ meta_buffer # <<>>
  /\ saving["leader"] => saver = "idle" /\ state_switch /\ meta_buffer # <<>>
  /\ maker["leader"] # "none" =>
       /\ saver = "run"
       /\ meta_buffer # <<>>
       /\ block["leader"] = Head(meta_buffer)

Making ==
  /\ maker["leader"] \in {"none", "open", "renamed"}
  /\ \A p \in Parties :
       /\ maker[p] # "none" => block[p] \in Block /\ block[p].index < MaxBlocks
       /\ maker[p] = "closed" => ~saving[p] /\ block[p].index = saved[p]
       /\ maker[p] = "renamed" => block[p] \in data[p]

(* The invariant the proofs rest on: it relates the two sides' managers,   *)
(* makers and files to the metas buffered and on their way between them.   *)
IInv == TypeOK /\ Managers /\ OnTheWay /\ Buffered /\ Making /\ NeverRefused
          /\ MetaHasData /\ LeaderPrefix
=============================================================================
