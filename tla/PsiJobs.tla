------------------------------- MODULE PsiJobs -------------------------------
(***************************************************************************)
(* The job layer of the private set intersection (PSI/psi_actors.py): each *)
(* of two parties runs a driver (run_app), a dispatcher that hands out the *)
(* blocks of its input (BlockDispatchActor), and a pool of workers         *)
(* (PsiPirActor) that read a block, join it with the peer's worker on the  *)
(* block of the same number, write the result and report its counts.       *)
(*                                                                         *)
(* The two drivers never talk to each other: the parties stay in step only *)
(* because both hand their blocks out in the order of their numbers.  The  *)
(* exchange itself is one action here; module PsiFlow models its inside.   *)
(* Blocks are numbered from 1 (block_id + 1), workers too.                 *)
(***************************************************************************)
EXTENDS Integers, Sequences, FiniteSets, SequencesExt, FiniteSetsExt

CONSTANTS Ids,        \* the example ids
          Numeric,    \* the ids a csv reader takes for integers
          HashOf,     \* hash16 of an id written as kind: <<kind, id>> -> Nat
          Scenarios,  \* the pairs of command lines to start from
          MaxFaults   \* bound: failures in one behaviour

ASSUME NumericAssumption == Numeric \subseteq Ids
ASSUME HashAssumption == HashOf \in [{"str", "int"} \X Ids -> Nat]

Party == {"leader", "follower"}   \* the RECEIVER and the SENDER
Peer(p) == IF p = "leader" THEN "follower" ELSE "leader"

Protocols == {"nfs", "hdfs", "http"}
Modes == {"psi", "pir"}

(* A command line: the protocol of --input, whether it names a file or a   *)
(* directory, and the rows (sequences of ids) of the file, or of each      *)
(* entry of the directory in the order of the blocks, where a              *)
(* sub-directory stands for the files in it, one after the other.          *)
(* listable: the entries can be put in order and the first one shows the   *)
(* format (a local directory holds only files or only sub-directories, the   *)
(* first not without a file); unread: the entries that cannot be read (a   *)
(* sub-directory without a file or with files of different columns, no     *)
(* such column, ids of a type without a hash).  Then the arrow type a      *)
(* parquet file declares; CPU, --parallels, --buckets; whether             *)
(* --proxy-remote is a bare port (direct) or a proxy; --work-mode.         *)
Conf == [protocol: Protocols, file: BOOLEAN, data: Seq(Seq(Ids)),
         listable: BOOLEAN, unread: SUBSET Nat, parquet: BOOLEAN,
         kind: {"str", "int"}, cpus: Nat \ {0}, parallels: Int, buckets: Int,
         direct: BOOLEAN, mode: Modes]

ASSUME FaultsAssumption == MaxFaults \in Nat
ASSUME ScenarioAssumption == Scenarios \subseteq [Party -> Conf]

(* An --input that names a file is one file, or none if it is not there.   *)
ASSUME SingleFileAssumption ==
  \A s \in Scenarios: \A p \in Party: s[p].file => Len(s[p].data) <= 1

VARIABLES conf,    \* the command lines
          driver,  \* "start", "running", "merging", "reporting",
                   \* "reported" (status 0), "failed" (500, or nobody told)
          status,  \* data_status of the dispatcher: per block [st, counts]
          worker,  \* per worker [pc, block, out]
          mail,    \* per worker, its change_data_status calls on their way
          refs,    \* per block, its joined rows once they are out
          report,  \* the counts sent with status 0
          faults,  \* failures of the link, a service or a file so far
          gaveUp,  \* some worker gave its peer up
          cut      \* some exchange returned less than the intersection

history == <<faults, gaveUp, cut>>
vars == <<conf, driver, status, worker, mail, refs, report, history>>
-----------------------------------------------------------------------------
(* The number of workers, and the buckets of a single file: --parallels    *)
(* capped by CPU, --buckets or, when 0, the number of workers.             *)
NParallels(c) == IF c.parallels = 0 \/ c.parallels > c.cpus
                   THEN c.cpus ELSE c.parallels

ActualBuckets(c) == IF c.buckets = 0 THEN NParallels(c) ELSE c.buckets

(* The type of the id column: a csv reader infers integers when every      *)
(* value is one, a parquet file declares it.                               *)
KindOf(c, rows) ==
  IF c.parquet THEN c.kind
  ELSE IF Range(rows) \subseteq Numeric THEN "int" ELSE "str"

Block(rows, kind) == [rows |-> rows, kind |-> kind]

(* The rows of a table whose id is in S, in their order.                   *)
Only(rows, S) ==
  LET only[i \in 0..Len(rows)] ==
        IF i = 0 THEN << >>
        ELSE IF rows[i] \in S THEN Append(only[i - 1], rows[i]) ELSE only[i - 1]
  IN  only[Len(rows)]

(* The ids whose hash falls in bucket b of n.                              *)
InBucket(kind, n, b) == {id \in Ids: HashOf[<<kind, id>>] % n = b - 1}

(* repartition_by_hash: the rows whose hash falls in bucket b.             *)
Bucket(c, rows, b) ==
  LET kind == KindOf(c, rows)
  IN  Block(Only(rows, InBucket(kind, ActualBuckets(c), b)), kind)

(* The entries of a directory, each with the type read from it.            *)
DataFiles(c) == [b \in DOMAIN c.data |-> Block(c.data[b], KindOf(c, c.data[b]))]

(* The blocks of an input: the buckets of a file, the files of a directory.*)
Blocks(c) ==
  IF c.file THEN [b \in 1..ActualBuckets(c) |-> Bucket(c, c.data[1], b)]
            ELSE DataFiles(c)

(* What the dispatcher tells run_app of its input.                         *)
NBlocks(c) == Len(Blocks(c))

\* Mutant: as many workers as --parallels says, blocks or not.
MutNWorkers(c) == NParallels(c)

(* run_app starts no more workers than there are blocks.                   *)
NWorkers(c) == Min({NParallels(c), NBlocks(c)})

(* infer_protocol: there is nothing that reads from http.                  *)
Supported(c) == c.protocol # "http"

(* init_data lists the files; it raises when there is none.                *)
Listed(c) == Supported(c) /\ c.listable /\ c.data # << >>

(* The id column of entry b is found, and its values can be hashed.        *)
Readable(c, b) == b \notin c.unread

(* run_app raises before it has started a worker: the input cannot be      *)
(* listed, or the file to split cannot be read or has no rows.  A negative *)
(* --buckets or --parallels does not raise: there are no workers then.     *)
Unusable(c) == \/ ~Listed(c)
               \/ c.file /\ (~Readable(c, 1) \/ c.data[1] = << >>)

(* A row stays when the peer's block holds the same hash.                  *)
Join(mine, theirs) ==
  Only(mine.rows,
       {id \in Ids: \E other \in Range(theirs.rows):
                      HashOf[<<mine.kind, id>>] = HashOf[<<theirs.kind, other>>]})

(* The message change_data_status and the value it overwrites.             *)
Status(st, counts) == [st |-> st, counts |-> counts]
Idle == [pc |-> "idle", block |-> 0, out |-> << >>]
Take(b) == [pc |-> "read", block |-> b, out |-> << >>]

MyBlock(p, a) == Blocks(conf[p])[worker[p][a].block]
-----------------------------------------------------------------------------
Init ==
  /\ conf \in Scenarios
  /\ driver = [p \in Party |-> "start"]
  /\ status = [p \in Party |-> << >>]
  /\ worker = [p \in Party |-> << >>]
  /\ mail = [p \in Party |-> << >>]
  /\ refs = [p \in Party |-> << >>]
  /\ report = [p \in Party |-> [local |-> 0, join |-> 0, whole |-> FALSE]]
  /\ faults = 0
  /\ gaveUp = FALSE
  /\ cut = FALSE

(* The state of a job the coordinator is told: -1 while it runs, 0 when it *)
(* is reported, 500 when __main__ has caught an exception.  The last call  *)
(* may fail too: the job has failed then and the coordinator is not told.  *)
SetNodeStatus(p, st) == driver' = [driver EXCEPT ![p] = st]

(* A driver fails, and its actors die with it, calls on their way included.*)
Fail(p) ==
  /\ SetNodeStatus(p, "failed")
  /\ mail' = [mail EXCEPT ![p] = [a \in DOMAIN @ |-> << >>]]
  /\ worker' = [worker EXCEPT ![p] = [a \in DOMAIN @ |-> Idle]]

(* run_app up to its loop: init_data, the repartition of a single file,    *)
(* and one block for each worker in the order of the blocks.               *)
Prepare(p) ==
  /\ driver[p] = "start"
  /\ IF Unusable(conf[p])
       THEN Fail(p) /\ UNCHANGED <<status, refs>>
       ELSE LET n == NBlocks(conf[p])
                k == NWorkers(conf[p])
            IN  /\ SetNodeStatus(p, "running")
                /\ status' = [status EXCEPT ![p] = [b \in 1..n |->
                     Status(IF b <= k THEN "PREPARED" ELSE "INIT", <<0, 0>>)]]
                /\ worker' = [worker EXCEPT ![p] = [a \in 1..k |-> Take(a)]]
                /\ mail' = [mail EXCEPT ![p] = [a \in 1..k |-> << >>]]
                /\ refs' = [refs EXCEPT ![p] = [b \in 1..n |-> << >>]]
  /\ UNCHANGED <<conf, report, history>>

Post(p, a, st, counts) ==
  mail' = [mail EXCEPT ![p][a] =
             Append(@, <<worker[p][a].block, Status(st, counts)>>)]

(* The table a worker is given: a bucket is in ray's store already, an     *)
(* entry of a directory is read now.                                       *)
GetsTable(p, b) == conf[p].file \/ Readable(conf[p], b)

(* do_action up to the exchange: the status PROCSSING is sent without      *)
(* waiting, the block is read, which may raise, and _do_pir raises.        *)
ReadBlock(p, a) ==
  /\ worker[p][a].pc = "read"
  /\ Post(p, a, "PROCSSING", <<0, 0>>)
  /\ worker' = [worker EXCEPT ![p][a].pc =
                  IF conf[p].mode = "psi" /\ GetsTable(p, worker[p][a].block)
                    THEN "psi" ELSE "raised"]
  /\ UNCHANGED <<conf, driver, status, refs, report, history>>

\* Mutant: the peer's worker is addressed by its number behind a proxy too.
MutCanMeet(a, f) ==
  /\ worker["leader"][a].pc = "psi" /\ worker["follower"][f].pc = "psi"
  /\ worker["leader"][a].block = worker["follower"][f].block
  /\ a = f

(* The two workers that can meet: the task id names the block, and a       *)
(* direct address the worker of the same number.                           *)
CanMeet(a, f) ==
  /\ worker["leader"][a].pc = "psi" /\ worker["follower"][f].pc = "psi"
  /\ worker["leader"][a].block = worker["follower"][f].block
  /\ (\E p \in Party: conf[p].direct) => a = f

MyJoin(p, mine, theirs) == Join(MyBlock(p, mine), MyBlock(Peer(p), theirs))

(* _do_psi of both sides on one block (see PsiFlow).                       *)
Exchange(a, f) ==
  /\ CanMeet(a, f)
  /\ worker' = [worker EXCEPT
       !["leader"][a].pc = "write", !["leader"][a].out = MyJoin("leader", a, f),
       !["follower"][f].pc = "write",
       !["follower"][f].out = MyJoin("follower", f, a)]
  /\ UNCHANGED <<conf, driver, status, mail, refs, report, history>>

(* What a side may come to after a link error: it raises; it hangs, for it *)
(* waits without a time-out for what a thread that is gone was to bring;   *)
(* or it returns the part of the intersection it had.                      *)
Broken(join) ==
  {[pc |-> end, out |-> << >>] : end \in {"raised", "hung"}}
    \cup {[pc |-> "write", out |-> SubSeq(join, 1, n)] : n \in 0..Len(join)}

Shortened(end, join) == end.pc = "write" /\ end.out # join

(* A link error in the exchange: the error ends a thread of PsiFlow, and   *)
(* each side goes on from there.                                           *)
FaultyExchange(a, f) ==
  /\ faults < MaxFaults
  /\ CanMeet(a, f)
  /\ \E l \in Broken(MyJoin("leader", a, f)), r \in Broken(MyJoin("follower", f, a)):
       /\ worker' = [worker EXCEPT
            !["leader"][a] = [@ EXCEPT !.pc = l.pc, !.out = l.out],
            !["follower"][f] = [@ EXCEPT !.pc = r.pc, !.out = r.out]]
       /\ cut' = (cut \/ Shortened(l, MyJoin("leader", a, f))
                      \/ Shortened(r, MyJoin("follower", f, a)))
  /\ faults' = faults + 1
  /\ UNCHANGED <<conf, driver, status, mail, refs, report, gaveUp>>

(* A worker cannot register at redis before the exchange, or cannot write  *)
(* its part file after it.                                                 *)
WorkerFails(p, a) ==
  /\ faults < MaxFaults
  /\ worker[p][a].pc = "psi" \/ (worker[p][a].pc = "write" /\ ~conf[p].file)
  /\ worker' = [worker EXCEPT ![p][a].pc = "raised"]
  /\ faults' = faults + 1
  /\ UNCHANGED <<conf, driver, status, mail, refs, report, gaveUp, cut>>

Partners(p, a) ==
  {b \in DOMAIN worker[Peer(p)]:
     IF p = "leader" THEN CanMeet(a, b) ELSE CanMeet(b, a)}

(* No peer has come for this block: ConnectToMesh gives up after its       *)
(* retries and raises.                                                     *)
Timeout(p, a) ==
  /\ worker[p][a].pc = "psi"
  /\ Partners(p, a) = {}
  /\ worker' = [worker EXCEPT ![p][a].pc = "raised"]
  /\ gaveUp' = TRUE
  /\ UNCHANGED <<conf, driver, status, mail, refs, report, faults, cut>>

(* The rows of a block and of its join.                                    *)
CountValues(p, a) == <<Len(MyBlock(p, a).rows), Len(worker[p][a].out)>>

(* _write_block_data drops the hash column from a part file, which raises  *)
(* for a file without rows: the column was never added to it.              *)
CanDropHash(p, a) == conf[p].file \/ MyBlock(p, a).rows # << >>

(* The part file of a block of a directory.                                *)
WritePart(p, b, rows) == refs' = [refs EXCEPT ![p][b] = rows]

(* do_action after the exchange: the part file of a directory is written,  *)
(* then PROCESSED is sent with the counts, without waiting.                *)
WriteBlock(p, a) ==
  LET w   == worker[p][a]
      ok  == CanDropHash(p, a)
  IN  /\ w.pc = "write"
      /\ worker' = [worker EXCEPT ![p][a].pc =
                      IF ok THEN "returned" ELSE "raised"]
      /\ IF ok THEN Post(p, a, "PROCESSED", CountValues(p, a))
               ELSE UNCHANGED mail
      /\ IF ok /\ ~conf[p].file THEN WritePart(p, w.block, w.out)
                                 ELSE UNCHANGED refs
      /\ UNCHANGED <<conf, driver, status, report, history>>

\* Mutant: the calls of one worker may overtake each other.
MutDeliver(p, a) ==
  /\ mail[p][a] # << >>
  /\ status' = [status EXCEPT ![p][Last(mail[p][a])[1]] = Last(mail[p][a])[2]]
  /\ mail' = [mail EXCEPT ![p][a] = Front(@)]
  /\ UNCHANGED <<conf, driver, worker, refs, report, history>>

(* The dispatcher runs a worker's next change_data_status: calls of one    *)
(* worker keep their order, calls of two do not.                           *)
Deliver(p, a) ==
  /\ mail[p][a] # << >>
  /\ status' = [status EXCEPT ![p][Head(mail[p][a])[1]] = Head(mail[p][a])[2]]
  /\ mail' = [mail EXCEPT ![p][a] = Tail(@)]
  /\ UNCHANGED <<conf, driver, worker, refs, report, history>>

(* The blocks get_next_unprocessed_data_and_use chooses from.              *)
Unprocessed(p) == {b \in DOMAIN status[p]: status[p][b].st = "INIT"}

\* Mutant: the first block no worker has reported yet.
MutNextUnreported(p) ==
  Min({b \in DOMAIN status[p]: status[p][b].st \in {"INIT", "PREPARED"}})

NextBlock(p) == Min(Unprocessed(p))

\* Mutant: the loop ends with the first worker that finds no block.
MutAllIdle(p, a) == TRUE

(* result_refs is empty once the last other worker has been collected.     *)
AllIdle(p, a) == \A b \in DOMAIN worker[p] \ {a}: worker[p][b].pc = "idle"

(* One turn of run_app's loop: ray.wait finds worker a finished; its       *)
(* result is kept and the first unprocessed block goes to it.              *)
JobDone(p, a) ==
  LET w == worker[p][a] IN
  /\ driver[p] = "running"
  /\ w.pc = "returned"
  /\ refs' = IF conf[p].file THEN [refs EXCEPT ![p][w.block] = w.out] ELSE refs
  /\ IF Unprocessed(p) # {}
       THEN /\ status' = [status EXCEPT ![p][NextBlock(p)].st = "PREPARED"]
            /\ worker' = [worker EXCEPT ![p][a] = Take(NextBlock(p))]
            /\ UNCHANGED driver
       ELSE /\ worker' = [worker EXCEPT ![p][a] = Idle]
            /\ driver' = [driver EXCEPT ![p] =
                            IF AllIdle(p, a) THEN "merging" ELSE @]
            /\ UNCHANGED status
  /\ UNCHANGED <<conf, mail, report, history>>

\* Mutant: the exception of a worker is logged and the loop goes on.
MutJobRaised(p, a) ==
  /\ driver[p] = "running"
  /\ worker[p][a].pc = "raised"
  /\ UNCHANGED vars

(* ray.get of a worker that raised raises in the driver.                   *)
JobRaised(p, a) ==
  /\ driver[p] = "running"
  /\ worker[p][a].pc = "raised"
  /\ Fail(p)
  /\ UNCHANGED <<conf, status, refs, report, history>>

(* A bucket without rows keeps the column of its bucket number.            *)
KeepsModColumn(p, b) == Blocks(conf[p])[b].rows = << >>

(* output_single_output_file: parquet tables are concatenated, which fails *)
(* when their columns differ.                                              *)
MergeOutput(p) ==
  /\ driver[p] = "merging"
  /\ IF conf[p].file /\ conf[p].parquet
          /\ \E b \in DOMAIN refs[p]: KeepsModColumn(p, b)
       THEN Fail(p)
       ELSE /\ driver' = [driver EXCEPT ![p] = "reporting"]
            /\ UNCHANGED <<worker, mail>>
  /\ UNCHANGED <<conf, status, refs, report, history>>

(* The loop of get_results over the blocks.                                *)
SumTo(counts, n) ==
  LET sum[b \in 0..n] == IF b = 0 THEN 0 ELSE sum[b - 1] + counts[b]
  IN  sum[n]

(* get_results adds up what the dispatcher knows by now.                   *)
Total(p, i) ==
  SumTo([b \in DOMAIN status[p] |-> status[p][b].counts[i]], Len(status[p]))

(* The counts of the result.  whole records whether every call of the      *)
(* workers had arrived.                                                    *)
Result(p) ==
  [local |-> Total(p, 1), join |-> Total(p, 2),
   whole |-> \A a \in DOMAIN mail[p]: mail[p][a] = << >>]

(* The job is reported with status 0; the process ends, and its actors     *)
(* with it.                                                                *)
Report(p) ==
  /\ driver[p] = "reporting"
  /\ SetNodeStatus(p, "reported")
  /\ report' = [report EXCEPT ![p] = Result(p)]
  /\ mail' = [mail EXCEPT ![p] = [a \in DOMAIN @ |-> << >>]]
  /\ UNCHANGED <<conf, status, worker, refs, history>>

(* The first or the last call to the coordinator raises, or the output     *)
(* file cannot be written.                                                 *)
Abort(p) ==
  /\ faults < MaxFaults
  /\ \/ driver[p] \in {"start", "reporting"}
     \/ driver[p] = "merging" /\ conf[p].file
  /\ Fail(p)
  /\ faults' = faults + 1
  /\ UNCHANGED <<conf, status, refs, report, gaveUp, cut>>

Ended(p) == driver[p] \in {"reported", "failed"}

(* run_app waits for ever: its loop has no worker to wait for, or one that *)
(* never comes back.                                                       *)
Hung(p) ==
  /\ driver[p] = "running"
  /\ \/ DOMAIN worker[p] = {}
     \/ \E a \in DOMAIN worker[p]: worker[p][a].pc = "hung"

\* Each job is over or waits in its loop.
Done == (\A p \in Party: Ended(p) \/ Hung(p)) /\ UNCHANGED vars

WorkerStep(p) ==
  \E a \in DOMAIN worker[p]:
    ReadBlock(p, a) \/ WriteBlock(p, a) \/ Deliver(p, a)

DriverStep(p) ==
  \/ Prepare(p) \/ MergeOutput(p) \/ Report(p)
  \/ \E a \in DOMAIN worker[p]: JobDone(p, a) \/ JobRaised(p, a)

Meet == \E a \in DOMAIN worker["leader"], f \in DOMAIN worker["follower"]:
          Exchange(a, f)

MeetFaulty ==
  \E a \in DOMAIN worker["leader"], f \in DOMAIN worker["follower"]:
    FaultyExchange(a, f)

GiveUp == \E p \in Party: \E a \in DOMAIN worker[p]: Timeout(p, a)

Failures ==
  \/ MeetFaulty
  \/ \E p \in Party: Abort(p) \/ \E a \in DOMAIN worker[p]: WorkerFails(p, a)

Next == \/ \E p \in Party: WorkerStep(p) \/ DriverStep(p)
        \/ Meet \/ Failures \/ GiveUp \/ Done

Spec == Init /\ [][Next]_vars

(* Ray runs every submitted call, the driver loops, and two workers that   *)
(* can meet do; nothing is assumed of the time a peer may take.            *)
Fairness == /\ \A p \in Party: WF_vars(WorkerStep(p)) /\ WF_vars(DriverStep(p))
            /\ WF_vars(Meet)

FairSpec == Spec /\ Fairness
-----------------------------------------------------------------------------
States == {"INIT", "PREPARED", "PROCSSING", "PROCESSED"}

(* The type of every variable: each party's blocks have a status and an    *)
(* output, its workers a mailbox, and a worker without a block is idle.    *)
TypeOK ==
  /\ conf \in Scenarios
  /\ driver \in [Party -> {"start", "running", "merging", "reporting",
                           "reported", "failed"}]
  /\ DOMAIN status = Party /\ DOMAIN worker = Party
  /\ DOMAIN mail = Party /\ DOMAIN refs = Party
  /\ \A p \in Party:
       /\ DOMAIN status[p] \subseteq Nat \ {0}
       /\ DOMAIN refs[p] = DOMAIN status[p]
       /\ DOMAIN mail[p] = DOMAIN worker[p]
       /\ \A b \in DOMAIN status[p]:
            /\ DOMAIN status[p][b] = {"st", "counts"}
            /\ status[p][b].st \in States
       /\ \A a \in DOMAIN worker[p]:
            /\ DOMAIN worker[p][a] = {"pc", "block", "out"}
            /\ worker[p][a].pc \in {"idle", "read", "psi", "write",
                                    "returned", "raised", "hung"}
            /\ worker[p][a].block \in DOMAIN status[p] \cup {0}
            /\ worker[p][a].block = 0 => worker[p][a].pc = "idle"
  /\ faults \in 0..MaxFaults
  /\ gaveUp \in BOOLEAN /\ cut \in BOOLEAN

(* No block is in the hands of two workers of a party, and none is worked  *)
(* on again once its rows are out: the PREPARED mark a block gets when it  *)
(* is handed out is never undone by a late status call.                    *)
BlocksWorkedOnce ==
  \A p \in Party: \A a \in DOMAIN worker[p]:
    LET b == worker[p][a].block IN
    b # 0 => /\ \A c \in DOMAIN worker[p] \ {a}: worker[p][c].block # b
             /\ status[p][b].st # "INIT"
             /\ worker[p][a].pc \in {"read", "psi"} => refs[p][b] = << >>

(* No call on its way sets a block back to INIT.                           *)
Begun ==
  \A p \in Party: \A a \in DOMAIN mail[p]:
    /\ mail[p][a] \in Seq(Range(mail[p][a]))
    /\ \A call \in Range(mail[p][a]):
         /\ call[1] \in DOMAIN status[p]
         /\ DOMAIN call[2] = {"st", "counts"}
         /\ call[2].st \in States \ {"INIT"}

(* A block that has not been handed out has no output.                     *)
Fresh ==
  \A p \in Party: \A b \in DOMAIN status[p]:
    status[p][b].st = "INIT" => refs[p][b] = << >>

(* What is INIT is with nobody, and what has been handed out never becomes *)
(* INIT again.                                                             *)
Dispatched == TypeOK /\ Begun /\ Fresh /\ BlocksWorkedOnce

Active(p) == driver[p] \notin {"start", "failed"}

(* The blocks of a job that has begun; outside its loop every worker has   *)
(* been collected, and after it every block has been handed out.           *)
Phase(p) ==
  /\ driver[p] # "running" => \A a \in DOMAIN worker[p]: worker[p][a].block = 0
  /\ Active(p) =>
       /\ ~Unusable(conf[p])
       /\ status[p] \in Seq(Range(status[p]))
       /\ Len(status[p]) = NBlocks(conf[p])
       /\ refs[p] \in Seq(Seq(Ids))
       /\ driver[p] # "running" => NBlocks(conf[p]) > 0 /\ Unprocessed(p) = {}

Held(p, b) == \E a \in DOMAIN worker[p]: worker[p][a].block = b

(* The peer has a block b too, and rows is the join with it.               *)
Joins(p, b, rows) ==
  /\ ~Unusable(conf[Peer(p)])
  /\ rows = Join(Blocks(conf[p])[b], Blocks(conf[Peer(p)])[b])

(* Unless an exchange was cut short, a worker past it and a block that has *)
(* been collected have the join of this block with the peer's block of the *)
(* same number.                                                            *)
Outcome(p) ==
  /\ \A a \in DOMAIN worker[p]:
       LET w == worker[p][a] IN
       /\ w.out \in Seq(Ids)
       /\ w.pc = "idle" => w.block = 0
       /\ (w.pc = "returned" /\ ~conf[p].file) => refs[p][w.block] = w.out
       /\ (w.pc \in {"write", "returned"} /\ ~cut) => Joins(p, w.block, w.out)
  /\ \A b \in DOMAIN status[p]:
       (status[p][b].st # "INIT" /\ ~Held(p, b) /\ ~cut) => Joins(p, b, refs[p][b])

BlockLen(p, b) == Len(Blocks(conf[p])[b].rows)

(* Block b has been worked on, and its rows and its joined rows are k.     *)
Ends(p, b, k) ==
  /\ status[p][b].st # "INIT"
  /\ \A a \in DOMAIN worker[p]: worker[p][a].block = b =>
       /\ worker[p][a].pc = "returned"
       /\ k = <<BlockLen(p, b), Len(worker[p][a].out)>>
  /\ ~Held(p, b) => k = <<BlockLen(p, b), Len(refs[p][b])>>

Tells(call, b) == call[1] = b /\ call[2].st = "PROCESSED"

(* A count the dispatcher has, or that is on its way to it, is zero or the *)
(* final one; what a worker says of a block before the end is overwritten  *)
(* by what it says of it then, for that is still to come.                  *)
Counted(p) ==
  /\ \A b \in DOMAIN status[p]:
       status[p][b].counts = <<0, 0>> \/ Ends(p, b, status[p][b].counts)
  /\ \A a \in DOMAIN mail[p]: \A i \in DOMAIN mail[p][a]:
       LET call == mail[p][a][i] IN
       IF call[2].st = "PROCESSED" THEN Ends(p, call[1], call[2].counts)
       ELSE /\ call[2].counts = <<0, 0>>
            /\ \/ \E j \in DOMAIN mail[p][a]:
                    j > i /\ Tells(mail[p][a][j], call[1])
               \/ /\ worker[p][a].block = call[1]
                  /\ worker[p][a].pc \in {"psi", "write", "raised", "hung"}

(* The counts of a block that has been worked on are known or on their way.*)
Heard(p) ==
  \A b \in DOMAIN status[p]:
    ( /\ status[p][b].st # "INIT"
      /\ \A a \in DOMAIN worker[p]:
           worker[p][a].block = b => worker[p][a].pc = "returned" )
    => \/ Ends(p, b, status[p][b].counts)
       \/ \E a \in DOMAIN mail[p]: \E i \in DOMAIN mail[p][a]:
            Tells(mail[p][a][i], b)

(* The invariant the proofs rest on.                                       *)
IInv ==
  /\ Dispatched
  /\ \A p \in Party:
       /\ Phase(p)
       /\ Active(p) => Outcome(p) /\ Counted(p)
       /\ (Active(p) /\ driver[p] # "reported") => Heard(p)

AllRows(p) == FlattenSeq(conf[p].data)
Count(s, id) == Len(Only(s, {id}))

(* hash16 tells the ids of a column apart.                                 *)
NoCollision ==
  \A kind \in {"str", "int"}: \A x, y \in Ids:
    HashOf[<<kind, x>>] = HashOf[<<kind, y>>] => x = y

(* The parties cut their inputs the same way: the same kind of input, the  *)
(* same number of blocks, equal ids of the same type in the same block.    *)
SameSplit ==
  LET L == Blocks(conf["leader"])
      F == Blocks(conf["follower"])
  IN  /\ conf["leader"].file = conf["follower"].file
      /\ DOMAIN L = DOMAIN F
      /\ \A b, c \in DOMAIN L:
           /\ L[b].kind = F[c].kind
           /\ Range(L[b].rows) \cap Range(F[c].rows) # {} => b = c

Intersected(p) ==
  \A id \in Ids:
    Count(FlattenSeq(refs[p]), id) =
      IF id \in Range(AllRows(Peer(p))) THEN Count(AllRows(p), id) ELSE 0

(* A party that reports success has exactly the rows whose id the peer     *)
(* holds, each as often as its input has it, however the workers of the    *)
(* two sides were scheduled and whether or not the peer's job failed; two  *)
(* ids with the same hash16 are one id to the code.                        *)
ExactResult ==
  \A p \in Party:
    (driver[p] = "reported" /\ SameSplit /\ NoCollision /\ ~cut) => Intersected(p)

(* The counts sent with status 0 are those of the output, unless some      *)
(* worker's last call was still on its way when the driver asked for them; *)
(* then they are never more.                                               *)
ReportedCounts ==
  \A p \in Party: driver[p] = "reported" =>
    /\ report[p].local <= Len(AllRows(p))
    /\ report[p].join <= Len(FlattenSeq(refs[p]))
    /\ report[p].whole => /\ report[p].local = Len(AllRows(p))
                          /\ report[p].join = Len(FlattenSeq(refs[p]))

(* Nothing in a party's own input makes its job fail.                      *)
Sound(p) ==
  LET c == conf[p] IN
  /\ ~Unusable(c) /\ c.mode = "psi" /\ ~c.direct /\ NWorkers(c) > 0
  /\ ~c.file => \A b \in DOMAIN Blocks(c): Readable(c, b)
  /\ (~c.file \/ c.parquet) =>
       \A b \in DOMAIN Blocks(c): Blocks(c)[b].rows # << >>

(* With a proxy and the same number of blocks on both sides the workers    *)
(* never wait for each other in a circle, whatever --parallels is on each  *)
(* side: unless the link fails or a side is too slow, both jobs succeed.   *)
BothSucceed ==
  ( /\ \A p \in Party: Sound(p)
    /\ DOMAIN Blocks(conf["leader"]) = DOMAIN Blocks(conf["follower"])
    /\ [](faults = 0 /\ ~gaveUp) )
  => <>(\A p \in Party: driver[p] = "reported")

(* Given the give-up of the link, a job ends whatever the two command      *)
(* lines are and whatever becomes of the peer, unless its own loop has     *)
(* nothing to wait for or waits for a worker that hangs: a peer that hangs *)
(* or never had a worker does not keep it.                                 *)
EndsUnlessHung ==
  WF_vars(GiveUp) => \A p \in Party: <>(Ended(p) \/ Hung(p))

(* The help of --buckets: 0 means a number of buckets that is best for     *)
(* both sides, so that two files joined with it are joined completely.     *)
AgreedBuckets ==
  \A p \in Party:
    ( /\ driver[p] = "reported" /\ ~cut
      /\ \A q \in Party: conf[q].file /\ conf[q].buckets = 0
      /\ KindOf(conf["leader"], AllRows("leader")) =
           KindOf(conf["follower"], AllRows("follower")) )
    => Intersected(p)
=============================================================================
