----------------------------- MODULE BlockMeta -----------------------------
(***************************************************************************)
(* How finished data blocks get into the table data_block_meta (MODE =     *)
(* distribute).  The process that makes a partition's blocks announces     *)
(* each one to the HTTP service; somebody may also ask the service to      *)
(* register a whole data block directory.  Either way one converter        *)
(* process per block reads the meta file and posts its content to the      *)
(* service, which selects the block's row and inserts or updates it.       *)
(* Nobody waits for anybody: both requests are answered with success       *)
(* before anything has been read.                                          *)
(*                                                                         *)
(* A block is its partition, its index and what it holds; its id and the   *)
(* name of its data file are made of the three, the name of its meta file  *)
(* of the first two.  Module DataBlockSync has the making of blocks in     *)
(* full.                                                                   *)
(***************************************************************************)
EXTENDS Naturals, Sequences, FiniteSets

CONSTANTS
  Partitions,   \* directories of the data block directory
  Contents,     \* what a block may hold
  MaxBlocks,    \* bound: blocks of each partition
  MaxRequests,  \* bound: requests to register the directory
  MaxFaults     \* bound: crashes and lost calls

ASSUME BlockMetaAssumption ==
  /\ MaxBlocks \in [Partitions -> Nat]
  /\ MaxRequests \in Nat
  /\ MaxFaults \in Nat

Requests == 1..MaxRequests
Maker == 0      \* the other one who registers blocks
Indices == UNION {0..MaxBlocks[p] - 1 : p \in Partitions}

VARIABLES
  \* files
  metas,    \* the meta files of each partition, by index
  data,     \* the data files of each partition
  \* processes
  maker,    \* of each partition, the block at hand and how far it is
  parser,   \* per request, the process that walks the directory
  jobs,     \* converter processes and the HTTP requests they make
  \* the database
  rows,     \* data_block_meta: block id -> dfs_data_block_dir
  \* history
  lost,     \* registrations that were lost: <<who, partition, index>>
  faults

files == <<metas, data>>
vars == <<files, maker, parser, jobs, rows, lost, faults>>

NoBlock == [pc |-> "none"]
Making(pc, b) == [pc |-> pc, block |-> b]

Init ==
  /\ metas = [p \in Partitions |-> <<>>]
  /\ data = [p \in Partitions |-> {}]
  /\ maker = [p \in Partitions |-> NoBlock]
  /\ parser = [r \in Requests |-> [pc |-> "none"]]
  /\ jobs = {}
  /\ rows = <<>>
  /\ lost = {}
  /\ faults = 0

Fault ==
  /\ faults < MaxFaults
  /\ faults' = faults + 1

\* The block a meta file describes.
MetaOf(p, i) == [part |-> p, index |-> i, content |-> metas[p][i + 1]]

-----------------------------------------------------------------------------
(* A partition's maker                                                     *)

\* The data file of the next block gets its name.
DumpData(p) ==
  /\ maker[p].pc = "none"
  /\ Len(metas[p]) < MaxBlocks[p]
  /\ \E c \in Contents :
       LET b == [part |-> p, index |-> Len(metas[p]), content |-> c] IN
       /\ data' = [data EXCEPT ![p] = @ \cup {b}]
       /\ maker' = [maker EXCEPT ![p] = Making("renamed", b)]
  /\ UNCHANGED <<metas, parser, jobs, rows, lost, faults>>

\* Its meta file does.
DumpMeta(p) ==
  /\ maker[p].pc = "renamed"
  /\ metas' = [metas EXCEPT ![p] = Append(@, maker[p].block.content)]
  /\ maker' = [maker EXCEPT ![p].pc = "announce"]
  /\ UNCHANGED <<data, parser, jobs, rows, lost, faults>>

\* run_subprocess: a converter for one meta file and one data file.
Converter(who, p, i, file) ==
  [who |-> who, part |-> p, index |-> i, file |-> file, pc |-> "convert"]

\* save_data_block_info: the request names the two files, and the process it
\* starts only starts the converter.
Announce(p) ==
  /\ maker[p].pc = "announce"
  /\ LET b == maker[p].block IN
       jobs' = jobs \cup {Converter(Maker, p, b.index, b)}
  /\ maker' = [maker EXCEPT ![p] = NoBlock]
  /\ UNCHANGED <<files, parser, rows, lost, faults>>

\* The service cannot be reached, or the process ends; its successor goes on
\* with the index after the last meta file and announces no older block.
MakerFails(p) ==
  /\ maker[p].pc # "none"
  /\ Fault
  /\ maker' = [maker EXCEPT ![p] = NoBlock]
  /\ lost' = IF maker[p].pc = "announce"
             THEN lost \cup {<<Maker, p, maker[p].block.index>>} ELSE lost
  /\ UNCHANGED <<files, parser, jobs, rows>>

-----------------------------------------------------------------------------
(* Registering a directory                                                 *)

\* The service starts the process and answers.
PostDirectory(r) ==
  /\ parser[r].pc = "none"
  /\ parser' = [parser EXCEPT ![r] = [pc |-> "scan", todo |-> Partitions]]
  /\ UNCHANGED <<files, maker, jobs, rows, lost, faults>>

\* The meta files of the next partition are listed,
ListMetas(r) ==
  /\ parser[r].pc = "scan"
  /\ \E p \in parser[r].todo :
       parser' = [parser EXCEPT ![r] =
         [pc |-> "metas", todo |-> @.todo \ {p}, part |-> p,
          count |-> Len(metas[p]), files |-> {}]]
  /\ UNCHANGED <<files, maker, jobs, rows, lost, faults>>

\* then its data files.  The process ends when there are not as many: with it
\* ends the registration of the partitions it has not come to.
ListData(r) ==
  /\ parser[r].pc = "metas"
  /\ LET q == parser[r] IN
       parser' = [parser EXCEPT ![r] =
         IF Cardinality(data[q.part]) = q.count
         THEN [pc |-> "spawn", todo |-> q.todo, part |-> q.part,
               count |-> q.count, files |-> data[q.part], next |-> 0]
         ELSE [pc |-> "dead"]]
  /\ UNCHANGED <<files, maker, jobs, rows, lost, faults>>

\* The converters are started in the order of the index, two seconds apart;
\* meta and data file are paired by the index in their names.
SpawnNext(r) ==
  /\ parser[r].pc = "spawn"
  /\ LET q == parser[r] IN
       \/ /\ q.next < q.count
          /\ \E file \in q.files :
               /\ file.index = q.next
               /\ jobs' = jobs \cup {Converter(r, q.part, q.next, file)}
          /\ parser' = [parser EXCEPT ![r].next = @ + 1]
       \/ /\ q.next = q.count
          /\ parser' = [parser EXCEPT ![r] = [pc |-> "scan", todo |-> q.todo]]
          /\ UNCHANGED jobs
  /\ UNCHANGED <<files, maker, rows, lost, faults>>

ParserFails(r) ==
  /\ parser[r].pc = "spawn"
  /\ Fault
  /\ lost' = lost \cup
       {<<r, parser[r].part, i>> : i \in parser[r].next..parser[r].count - 1}
  /\ parser' = [parser EXCEPT ![r] = [pc |-> "dead"]]
  /\ UNCHANGED <<files, maker, jobs, rows>>

-----------------------------------------------------------------------------
(* Registering a block                                                     *)

\* The block id the converter reads from its meta file.
IdOf(job) == MetaOf(job.part, job.index)

\* Mutant: the update of a block the table does not have.
SelectUpdates(job) ==
  /\ job.pc = "convert"
  /\ jobs' = jobs \ {job}
  /\ UNCHANGED <<files, maker, parser, rows, lost, faults>>

\* The converter posts the block, and the service looks whether it has a row.
Select(job) ==
  /\ job.pc = "convert"
  /\ jobs' = (jobs \ {job}) \cup
       {[job EXCEPT !.pc =
           IF IdOf(job) \in DOMAIN rows THEN "update" ELSE "insert"]}
  /\ UNCHANGED <<files, maker, parser, rows, lost, faults>>

SetRow(id, file) ==
  [b \in DOMAIN rows \cup {id} |-> IF b = id THEN file ELSE rows[b]]

\* The row is written.  Another request may have inserted it since: force_insert
\* then violates the primary key, and the request fails.
Save(job) ==
  /\ job.pc \in {"insert", "update"}
  /\ jobs' = jobs \ {job}
  /\ rows' = IF job.pc = "insert" /\ IdOf(job) \in DOMAIN rows THEN rows
             ELSE SetRow(IdOf(job), job.file)
  /\ UNCHANGED <<files, maker, parser, lost, faults>>

\* A converter dies or its request fails; nobody looks at its result.
JobFails(job) ==
  /\ Fault
  /\ jobs' = jobs \ {job}
  /\ lost' = lost \cup {<<job.who, job.part, job.index>>}
  /\ UNCHANGED <<files, maker, parser, rows>>

-----------------------------------------------------------------------------
\* Mutant: the data files of a partition are listed before its meta files.
ListDataFirst(r) ==
  /\ parser[r].pc = "scan"
  /\ \E p \in parser[r].todo :
       parser' = [parser EXCEPT ![r] =
         [pc |-> "metas", todo |-> @.todo \ {p}, part |-> p, count |-> 0,
          files |-> data[p]]]
  /\ UNCHANGED <<files, maker, jobs, rows, lost, faults>>

ListMetasSecond(r) ==
  /\ parser[r].pc = "metas"
  /\ LET q == parser[r] IN
       parser' = [parser EXCEPT ![r] =
         IF Cardinality(q.files) = Len(metas[q.part])
         THEN [pc |-> "spawn", todo |-> q.todo, part |-> q.part,
               count |-> Len(metas[q.part]), files |-> q.files, next |-> 0]
         ELSE [pc |-> "dead"]]
  /\ UNCHANGED <<files, maker, jobs, rows, lost, faults>>

DataBeforeMetas(r) == ListDataFirst(r) \/ ListMetasSecond(r) \/ SpawnNext(r)

Parser(r) == ListMetas(r) \/ ListData(r) \/ SpawnNext(r)

Job == \E job \in jobs : Select(job) \/ Save(job)

Next ==
  \/ \E p \in Partitions :
       DumpData(p) \/ DumpMeta(p) \/ Announce(p) \/ MakerFails(p)
  \/ \E r \in Requests : PostDirectory(r) \/ Parser(r) \/ ParserFails(r)
  \/ Job
  \/ \E job \in jobs : JobFails(job)

Spec == Init /\ [][Next]_vars

\* Processes that have been started run on; no block need be made, and nobody
\* need register a directory.
FairSpec ==
  /\ Spec
  /\ \A p \in Partitions : WF_vars(Announce(p))
  /\ \A r \in Requests : WF_vars(Parser(r))
  /\ WF_vars(Job)

-----------------------------------------------------------------------------
(* Properties                                                              *)

\* A row is a block that is complete, and it leads to this block's own data
\* file: never to one a crash has left behind under the same index, whatever is
\* written while a directory is listed.
RowIsBlock ==
  \A b \in DOMAIN rows :
    /\ b.index < Len(metas[b.part])
    /\ b = MetaOf(b.part, b.index)
    /\ rows[b] = b

-----------------------------------------------------------------------------
(* The inductive invariant behind it                                       *)

Block == [part : Partitions, index : Nat, content : Contents]

TypeOK ==
  /\ metas \in [Partitions -> Seq(Contents)]
  /\ data \in [Partitions -> SUBSET Block]
  /\ \A p \in Partitions : IsFiniteSet(data[p])
  /\ maker \in [Partitions -> {NoBlock} \cup [pc : {"renamed", "announce"}, block : Block]]
  /\ parser \in [Requests ->
       [pc : {"none", "dead"}]
         \cup [pc : {"scan"}, todo : SUBSET Partitions]
         \cup [pc : {"metas"}, todo : SUBSET Partitions, part : Partitions,
               count : Nat, files : {{}}]
         \cup [pc : {"spawn"}, todo : SUBSET Partitions, part : Partitions,
               count : Nat, files : SUBSET Block, next : Nat]]
  /\ jobs \subseteq [who : {Maker} \cup Requests, part : Partitions, index : Nat,
                    file : Block, pc : {"convert", "insert", "update"}]
  /\ DOMAIN rows \subseteq Block

\* A data file of each complete block is there, perhaps among others of its index
\* that a crash has left behind.
MetasHaveData ==
  \A p \in Partitions : \A i \in 0..(Len(metas[p]) - 1) : MetaOf(p, i) \in data[p]

\* A maker's block is the next one of its partition, then the one just completed.
AtHand ==
  \A p \in Partitions :
    /\ maker[p].pc = "renamed" => /\ maker[p].block \in data[p]
                                  /\ maker[p].block.part = p
                                  /\ maker[p].block.index = Len(metas[p])
    /\ maker[p].pc = "announce" => /\ maker[p].block.index < Len(metas[p])
                                   /\ maker[p].block = MetaOf(p, maker[p].block.index)

\* Files left behind are never paired: with one of them there are more data files
\* than meta files were counted, because these are counted first.
Paired ==
  \A r \in Requests :
    /\ parser[r].pc \in {"metas", "spawn"} => parser[r].count <= Len(metas[parser[r].part])
    /\ parser[r].pc = "spawn" =>
         \A file \in parser[r].files :
           /\ file.index < parser[r].count
           /\ file = MetaOf(parser[r].part, file.index)

\* So a converter gets the two files of one complete block.
JobIsBlock ==
  \A job \in jobs :
    job.index < Len(metas[job.part]) /\ job.file = MetaOf(job.part, job.index)

\* The invariant the proofs rest on: from the maker through listing and converter to
\* the row, an index stands for the two files of one block.
IInv == TypeOK /\ MetasHaveData /\ AtHand /\ Paired /\ JobIsBlock /\ RowIsBlock

-----------------------------------------------------------------------------
(* Liveness                                                                *)

Complete(p, i) == i < Len(metas[p])
InTable(p, i) == Complete(p, i) /\ MetaOf(p, i) \in DOMAIN rows

\* Every block gets its row, unless its announcement is lost; and a request that
\* has paired the files of a partition gets a row for each of its blocks,
\* whatever was lost before, unless it is lost itself.  Two registrations of
\* one block that overlap do not hurt.
EveryBlockRegistered ==
  \A p \in Partitions, i \in Indices :
    /\ Complete(p, i) ~> InTable(p, i) \/ <<Maker, p, i>> \in lost
    /\ \A r \in Requests :
         (parser[r].pc = "spawn" /\ parser[r].part = p /\ i < parser[r].count)
           ~> InTable(p, i) \/ <<r, p, i>> \in lost
=============================================================================
