--------------------------- MODULE TrainerSession ---------------------------
(***************************************************************************)
(* A pair of trainers, one of each party, from the start of their          *)
(* processes to the exchange of training messages: FLEnv (registration at  *)
(* the coordinator, model directory, checkpoint), the connect loop of      *)
(* FLEstimator, and the Connect and Transmit handlers of the bridge with   *)
(* the state of RpcBridgeMgr.                                              *)
(*                                                                         *)
(* A process may crash at any time; it also exits when it gets a Connect   *)
(* after it has started to train (exit(138)).  In both cases it is started *)
(* again.  Facts about the peer are marked "current" or "former": the      *)
(* peer's process they are about is running or has been replaced.          *)
(***************************************************************************)
EXTENDS Integers, FiniteSets

CONSTANTS
  Clusters,     \* TF_CONFIG clusters: the number of tasks of each job
  WaitAttempts, \* attempts of _wait_connect and _wait_train_ready
  MaxFaults     \* bound: crashes, lost answers, crossing calls, broken downloads

ASSUME TrainerSessionAssumption ==
  /\ Clusters \subseteq [master : Nat, chief : Nat, worker : Nat, ps : Nat]
  /\ WaitAttempts \in Nat \ {0}
  /\ MaxFaults \in Nat

Parties == {"leader", "follower"}
Peer(p) == IF p = "leader" THEN "follower" ELSE "leader"

VARIABLES
  cluster, task,    \* the TF_CONFIG of each trainer
  checkpoint,       \* whether a trainer is given a checkpoint_hdfs_path
  \* what outlives a process
  registered,       \* the parties the coordinator has an address of
  model_dir,        \* "empty", "partial", "complete" or "success"
  \* FLEnv and FLEstimator
  phase,            \* what each trainer is about to do
  attempts,         \* failed waits in a row
  \* RpcBridgeMgr, RpcBridgeAgentService and RpcBridgeRecvCache
  br_state,         \* "NEW" or "STARTED"
  link,             \* link_up_, and whose Connect set it
  peer_connected,   \* peer_connected_
  train_start,      \* whether a TrainStart message has been received
  exiting,          \* ConnectHandler sleeps before exit(138)
  \* history
  heard,            \* which processes of the peer it accepted messages from
  faults

config == <<cluster, task, checkpoint>>
bridgeVars == <<br_state, link, peer_connected, train_start, exiting, heard>>
vars == <<config, registered, model_dir, phase, attempts, bridgeVars, faults>>

Serving == {"connect", "wait", "follow", "train"}  \* after fl_bridge_server_init

TypeOK ==
  /\ registered \subseteq Parties
  /\ model_dir \in [Parties -> {"empty", "partial", "complete", "success"}]
  /\ phase \in [Parties -> Serving \cup {"register", "pairs", "clean", "download",
                                       "touch", "init"}]
  /\ attempts \in [Parties -> 0..(WaitAttempts - 1)]
  /\ br_state \in [Parties -> {"NEW", "STARTED"}]
  /\ link \in [Parties -> {"down", "current", "former"}]
  /\ peer_connected \in [Parties -> BOOLEAN]
  /\ train_start \in [Parties -> BOOLEAN]
  /\ exiting \in [Parties -> BOOLEAN]
  /\ heard \in [Parties -> SUBSET {"current", "former"}]
  /\ faults \in 0..MaxFaults

-----------------------------------------------------------------------------
(* FLEnv: the configuration                                                *)

Jobs == {"master", "chief", "worker"}
Tasks(c) == UNION {[job : {j}, index : 0..(c[j] - 1)] : j \in Jobs}
Replicas(c) == c.master + c.chief + c.worker

\* _parse_tf_config raises without a parameter server for several workers.
Valid(c) == Replicas(c) > 1 => c.ps >= 1

\* Mutant: masters are not counted in the id of a worker.
WorkerIdNoMaster(c, t) ==
  CASE t.job = "master" -> t.index
    [] t.job = "chief" -> c.master + t.index
    [] t.job = "worker" -> c.chief + t.index

\* worker_id: the rank in Connect requests and the end of the application's uuid.
WorkerId(c, t) ==
  CASE t.job = "master" -> t.index
    [] t.job = "chief" -> c.master + t.index
    [] t.job = "worker" -> c.chief + c.master + t.index

\* channel_appli_id: what the coordinators of both parties pair trainers by.  The
\* application id in it is the same for all trainers of an application.
Channel(c, t) == <<"TrainerWorkerService", WorkerId(c, t)>>

\* run_cluster: a trainer without parameter servers runs locally, as the chief.
IsChief(p) == cluster[p].ps = 0 \/ task[p].job # "worker"

Init ==
  /\ \E c, d \in Clusters :
       /\ Valid(c) /\ Valid(d)
       /\ Replicas(c) = Replicas(d)
       /\ cluster = [p \in Parties |-> IF p = "leader" THEN c ELSE d]
       /\ \E t \in Tasks(c), u \in Tasks(d) :
            /\ Channel(c, t) = Channel(d, u)
            /\ task = [p \in Parties |-> IF p = "leader" THEN t ELSE u]
  /\ checkpoint \in [Parties -> BOOLEAN]
  /\ registered = {}
  /\ model_dir = [p \in Parties |-> "empty"]
  /\ phase = [p \in Parties |-> "register"]
  /\ attempts = [p \in Parties |-> 0]
  /\ br_state = [p \in Parties |-> "NEW"]
  /\ link = [p \in Parties |-> "down"]
  /\ peer_connected = [p \in Parties |-> FALSE]
  /\ train_start = [p \in Parties |-> FALSE]
  /\ exiting = [p \in Parties |-> FALSE]
  /\ heard = [p \in Parties |-> {}]
  /\ faults = 0

Fault ==
  /\ faults < MaxFaults
  /\ faults' = faults + 1

-----------------------------------------------------------------------------
(* A process ends and is started again                                     *)

Aged(fact) == IF fact = "current" THEN "former" ELSE fact

\* The peer's process does not notice: what it knows becomes outdated.
Restart(p) ==
  /\ phase' = [phase EXCEPT ![p] = "register"]
  /\ attempts' = [attempts EXCEPT ![p] = 0]
  /\ br_state' = [br_state EXCEPT ![p] = "NEW"]
  /\ link' = [link EXCEPT ![p] = "down", ![Peer(p)] = Aged(@)]
  /\ peer_connected' = [peer_connected EXCEPT ![p] = FALSE]
  /\ train_start' = [train_start EXCEPT ![p] = FALSE]
  /\ exiting' = [exiting EXCEPT ![p] = FALSE]
  /\ heard' = [heard EXCEPT ![p] = {}, ![Peer(p)] = {Aged(fact) : fact \in @}]

Crash(p) ==
  /\ Fault
  /\ Restart(p)
  /\ UNCHANGED <<config, registered, model_dir>>

\* ConnectHandler's exit(138), three seconds after the Connect.
Exit(p) ==
  /\ exiting[p]
  /\ Restart(p)
  /\ UNCHANGED <<config, registered, model_dir, faults>>

-----------------------------------------------------------------------------
(* FLEnv: registration, model directory and checkpoint                     *)

Goes(p, next) ==
  /\ phase' = [phase EXCEPT ![p] = next]
  /\ UNCHANGED <<config, attempts, bridgeVars>>

\* rpc_channel_uuid_register is repeated until it succeeds.
Register(p) ==
  /\ phase[p] = "register"
  /\ Goes(p, "pairs")
  /\ registered' = registered \cup {p}
  /\ UNCHANGED <<model_dir, faults>>

\* rpc_channel_uuid_getpairs is repeated until the coordinator knows the pair.
GetPairs(p) ==
  /\ phase[p] = "pairs"
  /\ registered = Parties
  /\ Goes(p, "clean")
  /\ UNCHANGED <<registered, model_dir, faults>>

\* rm_dir: the directory is there and empty, whatever was in it.
RmDir(p) == model_dir' = [model_dir EXCEPT ![p] = "empty"]

\* The chief begins with an empty model directory.
CleanDirs(p) ==
  /\ phase[p] = "clean"
  /\ Goes(p, "download")
  /\ \/ IsChief(p) /\ RmDir(p)
     \/ ~IsChief(p) /\ UNCHANGED model_dir
  /\ UNCHANGED <<registered, faults>>

\* download_from_hdfs: the shell command may break, and it does not replace files
\* that are there; either makes check_output raise.
DownloadFromHdfs(p) ==
  \/ /\ model_dir[p] = "empty"
     /\ model_dir' = [model_dir EXCEPT ![p] = "complete"]
     /\ Goes(p, "touch")
     /\ UNCHANGED faults
  \/ /\ model_dir[p] = "empty"
     /\ Fault
     /\ model_dir' = [model_dir EXCEPT ![p] = "partial"]
     /\ Restart(p)
     /\ UNCHANGED config
  \/ /\ model_dir[p] # "empty"
     /\ Restart(p)
     /\ UNCHANGED <<config, model_dir, faults>>

\* A checkpoint that is configured is fetched unless the success file is there.
Download(p) ==
  /\ phase[p] = "download"
  /\ \/ /\ checkpoint[p] => model_dir[p] = "success"
        /\ Goes(p, "init")
        /\ UNCHANGED <<model_dir, faults>>
     \/ /\ checkpoint[p] /\ model_dir[p] # "success"
        /\ DownloadFromHdfs(p)
  /\ UNCHANGED registered

TouchSuccess(p) ==
  /\ phase[p] = "touch"
  /\ model_dir' = [model_dir EXCEPT ![p] = "success"]
  /\ Goes(p, "init")
  /\ UNCHANGED <<registered, faults>>

\* FLEstimator builds its graph and starts the bridge server and its channels.
InitBridge(p) ==
  /\ phase[p] = "init"
  /\ Goes(p, "connect")
  /\ UNCHANGED <<registered, model_dir, faults>>

-----------------------------------------------------------------------------
(* The connect loop and the handlers                                       *)

\* Mutant: a Connect is always accepted.
ConnectHandlerAlways(q) ==
  /\ link' = [link EXCEPT ![q] = "current"]
  /\ peer_connected' = [peer_connected EXCEPT ![q] = TRUE]
  /\ UNCHANGED exiting

\* Mutant: a Connect that comes too late is refused, and that is all.
ConnectHandlerRefuses(q) ==
  /\ br_state[q] = "NEW"
  /\ link' = [link EXCEPT ![q] = "current"]
  /\ peer_connected' = [peer_connected EXCEPT ![q] = TRUE]
  /\ UNCHANGED exiting

\* ConnectHandler of q: the peer is noted before q sends or gets anything;
\* later q takes the link down and exits.
ConnectHandler(q) ==
  \/ /\ br_state[q] = "NEW"
     /\ link' = [link EXCEPT ![q] = "current"]
     /\ peer_connected' = [peer_connected EXCEPT ![q] = TRUE]
     /\ UNCHANGED exiting
  \/ /\ br_state[q] # "NEW"
     /\ link' = [link EXCEPT ![q] = "down"]
     /\ exiting' = [exiting EXCEPT ![q] = TRUE]
     /\ UNCHANGED peer_connected

\* Whether q's bridge service answers: its only thread sleeps before the exit.
Answers(q) == phase[q] \in Serving /\ ~exiting[q]

\* _try_connect: the call is accepted or refused.  A call that reaches nobody is
\* repeated after a pause.  It is a bounded fault that a trainer which has got a
\* message and is still in this loop reaches a fresh peer, before that peer's own
\* Connect makes it exit: outdated, it goes on to train and starts the peer too.
Connect(p) ==
  /\ phase[p] = "connect"
  /\ Answers(Peer(p))
  /\ ConnectHandler(Peer(p))
  /\ phase' = IF exiting'[Peer(p)] THEN phase ELSE [phase EXCEPT ![p] = "wait"]
  /\ IF br_state[p] = "STARTED" /\ br_state[Peer(p)] = "NEW"
     THEN Fault ELSE UNCHANGED faults
  /\ UNCHANGED <<config, registered, model_dir, attempts, br_state, train_start, heard>>

\* The handler is executed, but its answer is lost.
ConnectAnswerLost(p) ==
  /\ phase[p] = "connect"
  /\ Answers(Peer(p))
  /\ ConnectHandler(Peer(p))
  /\ Fault
  /\ UNCHANGED <<config, registered, model_dir, phase, attempts, br_state,
                 train_start, heard>>

\* Mutant: the failed waits are counted from zero.
WaitFailsOnceMore(p) ==
  \/ /\ attempts[p] < WaitAttempts
     /\ attempts' = [attempts EXCEPT ![p] = @ + 1]
     /\ UNCHANGED phase
  \/ /\ attempts[p] = WaitAttempts
     /\ attempts' = [attempts EXCEPT ![p] = 0]
     /\ phase' = [phase EXCEPT ![p] = "connect"]

\* A wait that fails is repeated; the last one sends the trainer back to Connect.
WaitFails(p) ==
  \/ /\ attempts[p] + 1 < WaitAttempts
     /\ attempts' = [attempts EXCEPT ![p] = @ + 1]
     /\ UNCHANGED phase
  \/ /\ attempts[p] + 1 = WaitAttempts
     /\ attempts' = [attempts EXCEPT ![p] = 0]
     /\ phase' = [phase EXCEPT ![p] = "connect"]

\* _wait_connect: WaitPeerReady looks at peer_connected_, which is never reset.
WaitConnect(p) ==
  /\ phase[p] = "wait"
  /\ \/ /\ peer_connected[p]
        /\ phase' = [phase EXCEPT ![p] = IF p = "follower" THEN "follow" ELSE "train"]
        /\ attempts' = [attempts EXCEPT ![p] = 0]
     \/ /\ ~peer_connected[p]
        /\ WaitFails(p)
  /\ UNCHANGED <<config, registered, model_dir, bridgeVars, faults>>

\* The leader's first message to this follower is on its way.
StartOnTheWay == br_state["leader"] = "STARTED" /\ link["follower"] # "down"

\* _wait_train_ready of the follower.  Giving up while TrainStart is on its way
\* is one of the bounded faults: the wait is long compared to a message.
WaitTrainReady ==
  /\ phase["follower"] = "follow"
  /\ \/ /\ train_start["follower"]
        /\ phase' = [phase EXCEPT !["follower"] = "train"]
        /\ attempts' = [attempts EXCEPT !["follower"] = 0]
        /\ UNCHANGED faults
     \/ /\ ~train_start["follower"]
        /\ WaitFails("follower")
        /\ IF StartOnTheWay THEN Fault ELSE UNCHANGED faults
  /\ UNCHANGED <<config, registered, model_dir, bridgeVars>>

\* TrainStartInternal: whatever a trainer sends makes it STARTED.  It is another
\* bounded fault that this crosses a Connect of the peer it is linked to: a
\* trainer that gives up waiting calls Connect at once.
TrainStart(p) ==
  /\ phase[p] = "train"
  /\ br_state[p] = "NEW"
  /\ br_state' = [br_state EXCEPT ![p] = "STARTED"]
  /\ IF phase[Peer(p)] = "connect" /\ link[Peer(p)] = "current"
     THEN Fault ELSE UNCHANGED faults
  /\ UNCHANGED <<config, registered, model_dir, phase, attempts, link,
                 peer_connected, train_start, exiting, heard>>

\* TransmitHandler of q: a message is dropped unless the link is up.  Any other
\* message may be accepted: the sequence numbers and OnReceived, which can only
\* refuse more, are left to RpcBridge and RecvCache.
TransmitHandler(q) ==
  /\ link[q] # "down"
  /\ br_state' = [br_state EXCEPT ![q] = "STARTED"]
  /\ train_start' = [train_start EXCEPT ![q] = TRUE]
  /\ heard' = [heard EXCEPT ![q] = @ \cup {"current"}]

\* A message is handled while the process that sent it lives: it does not outlast
\* the seconds until a restarted process gets to Connect.
Transmit(p) ==
  /\ phase[p] = "train"
  /\ br_state[p] = "STARTED"
  /\ Answers(Peer(p))
  /\ TransmitHandler(Peer(p))
  /\ UNCHANGED <<config, registered, model_dir, phase, attempts, link,
                 peer_connected, exiting, faults>>

-----------------------------------------------------------------------------
Prepare(p) ==
  Register(p) \/ GetPairs(p) \/ CleanDirs(p) \/ Download(p) \/ TouchSuccess(p)
    \/ InitBridge(p)

Train(p) == TrainStart(p) \/ Transmit(p)

Next ==
  \E p \in Parties :
    \/ Prepare(p)
    \/ Connect(p)
    \/ ConnectAnswerLost(p)
    \/ WaitConnect(p)
    \/ p = "follower" /\ WaitTrainReady
    \/ Train(p)
    \/ Exit(p)
    \/ Crash(p)

Spec == Init /\ [][Next]_vars

\* Every loop goes on, and a process that has ended is started again.
Fairness ==
  /\ WF_vars(WaitTrainReady)
  /\ \A p \in Parties :
       /\ WF_vars(Prepare(p)) /\ WF_vars(Connect(p)) /\ WF_vars(WaitConnect(p))
       /\ SF_vars(TrainStart(p)) /\ WF_vars(Transmit(p))
       /\ WF_vars(Exit(p))

FairSpec == Spec /\ Fairness

-----------------------------------------------------------------------------
(* Properties                                                              *)

\* Two trainers are paired by their worker id: no other task of the party has
\* the same one, whatever jobs its cluster is made of.
OwnRank ==
  \A p \in Parties : \A t \in Tasks(cluster[p]) :
    /\ WorkerId(cluster[p], t) < Replicas(cluster[p])
    /\ WorkerId(cluster[p], t) = WorkerId(cluster[p], task[p]) => t = task[p]

\* A process accepts messages of one process of its peer only, so the sequence
\* numbers of both ends start together: crashes, exits, lost answers and
\* time-outs never join a running trainer with a restarted one.
OnePeerProcess == \A p \in Parties : heard[p] # {"current", "former"}

-----------------------------------------------------------------------------
(* The inductive invariant behind the two                                  *)

\* A trainer's configuration is one FLEnv accepts.
Configured ==
  /\ \A p \in Parties : cluster[p] \in Clusters /\ task[p] \in Tasks(cluster[p])
  /\ checkpoint \in [Parties -> BOOLEAN]

\* A process that has accepted a message has started, so it exits at the Connect
\* of another process of its peer: until it has exited, a process that replaces
\* the one it has heard does not get past Connect.
StartedOnce ==
  \A p \in Parties :
    /\ heard[p] # {} => br_state[p] = "STARTED"
    /\ "former" \in heard[p] => phase[Peer(p)] \notin {"wait", "follow", "train"}

\* The invariant the proofs rest on: configurations and phases of the two processes
\* that keep a restarted trainer from a running one.
IInv == TypeOK /\ Configured /\ StartedOnce /\ OnePeerProcess

-----------------------------------------------------------------------------
(* Liveness                                                                *)

Together == \A p \in Parties : phase[p] = "train" /\ heard[p] = {"current"}

\* A worker that is not the chief and whose download broke finds the files again
\* and again.
DownloadStuck == \E p \in Parties : ~IsChief(p) /\ model_dir[p] \in {"partial", "complete"}

\* Once crashes and premature time-outs stop, the two processes get to train
\* with each other and stay together; the one exception is a broken download.
SessionForms == <>[](Together \/ DownloadStuck)
=============================================================================
