----------------------- MODULE TrainerSessionProofs -----------------------
(***************************************************************************)
(* Proofs about TrainerSession for every set of clusters, any number of    *)
(* waits before giving up and any number of faults: types, the uniqueness  *)
(* of worker ids, and that a process never hears two processes of its      *)
(* peer.                                                                   *)
(***************************************************************************)
EXTENDS TrainerSession, TLAPS

USE TrainerSessionAssumption DEF Parties

-----------------------------------------------------------------------------
(* Worker ids                                                              *)

\* A task of a cluster has a known job and an index below the job's size.
LEMMA TaskType ==
  ASSUME NEW c \in Clusters, NEW t \in Tasks(c)
  PROVE  /\ t \in [job : Jobs, index : Nat]
         /\ t.index < c[t.job]
         /\ c.master \in Nat /\ c.chief \in Nat /\ c.worker \in Nat
<1>1. PICK j \in Jobs : t \in [job : {j}, index : 0..(c[j] - 1)]
  BY DEF Tasks
<1>2. c[j] \in Nat
  BY DEF Jobs
<1> QED
  BY <1>1, <1>2

\* The ids of the jobs of a cluster are adjacent intervals: master, chief,
\* worker.
LEMMA WorkerIdType ==
  ASSUME NEW c \in Clusters, NEW t \in Tasks(c)
  PROVE  /\ WorkerId(c, t) \in Nat
         /\ t.job = "master" => WorkerId(c, t) = t.index
         /\ t.job = "chief" => WorkerId(c, t) = c.master + t.index
         /\ t.job = "worker" => WorkerId(c, t) = c.chief + c.master + t.index
         /\ WorkerId(c, t) < Replicas(c)
  BY TaskType DEF WorkerId, Jobs, Replicas

\* So two tasks of a cluster have different ids.
LEMMA WorkerIdInjective ==
  ASSUME NEW c \in Clusters, NEW t \in Tasks(c), NEW u \in Tasks(c),
         WorkerId(c, t) = WorkerId(c, u)
  PROVE  t = u
<1>1. /\ t \in [job : Jobs, index : Nat] /\ u \in [job : Jobs, index : Nat]
      /\ t.index < c[t.job] /\ u.index < c[u.job]
      /\ c.master \in Nat /\ c.chief \in Nat /\ c.worker \in Nat
  BY TaskType
<1>2. t.job = u.job /\ t.index = u.index
  BY <1>1, WorkerIdType DEF Jobs
<1> QED
  BY <1>1, <1>2

-----------------------------------------------------------------------------
(* Steps                                                                   *)

\* Setting a flag of one party.
LEMMA SetTrue ==
  ASSUME NEW S, NEW f \in [S -> BOOLEAN], NEW q \in S
  PROVE  [f EXCEPT ![q] = TRUE] \in [S -> BOOLEAN]
  OBVIOUS

\* No step changes a trainer's configuration.
LEMMA ConfigKept ==
  ASSUME [Next]_vars
  PROVE  UNCHANGED config
  BY DEF Next, vars, config, Prepare, Register, GetPairs, CleanDirs, Download,
         DownloadFromHdfs, TouchSuccess, InitBridge, Goes, Connect,
         ConnectAnswerLost, WaitConnect, WaitTrainReady, Train, TrainStart,
         Transmit, Exit, Crash

\* What the end of a process leaves behind.
LEMMA RestartEffect ==
  ASSUME TypeOK, NEW p \in Parties, Restart(p)
  PROVE  /\ phase' = [phase EXCEPT ![p] = "register"]
         /\ attempts' \in [Parties -> 0..(WaitAttempts - 1)]
         /\ br_state' = [br_state EXCEPT ![p] = "NEW"]
         /\ link' \in [Parties -> {"down", "current", "former"}]
         /\ peer_connected' \in [Parties -> BOOLEAN]
         /\ train_start' \in [Parties -> BOOLEAN]
         /\ exiting' \in [Parties -> BOOLEAN]
         /\ heard' \in [Parties -> SUBSET {"current", "former"}]
         /\ heard'[p] = {}
         /\ heard'[Peer(p)] \subseteq {"former"}
         /\ heard[Peer(p)] = {} => heard'[Peer(p)] = {}
<1>1. Peer(p) \in Parties /\ Peer(p) # p
  BY DEF Peer
<1>2. /\ heard'[p] = {}
      /\ heard'[Peer(p)] = {Aged(fact) : fact \in heard[Peer(p)]}
      /\ DOMAIN heard' = Parties
      /\ heard' = [q \in Parties |-> heard'[q]]
  BY <1>1 DEF Restart, TypeOK
<1>3. {Aged(fact) : fact \in heard[Peer(p)]} \subseteq {"former"}
  BY <1>1 DEF Aged, TypeOK
<1>4. heard' \in [Parties -> SUBSET {"current", "former"}]
  BY <1>1, <1>2, <1>3 DEF Peer
<1>5. link' \in [Parties -> {"down", "current", "former"}]
  BY <1>1 DEF Restart, TypeOK, Aged
<1>6. /\ phase' = [phase EXCEPT ![p] = "register"]
      /\ br_state' = [br_state EXCEPT ![p] = "NEW"]
      /\ attempts' \in [Parties -> 0..(WaitAttempts - 1)]
  BY DEF Restart, TypeOK
<1>7. /\ peer_connected' \in [Parties -> BOOLEAN]
      /\ train_start' \in [Parties -> BOOLEAN]
      /\ exiting' \in [Parties -> BOOLEAN]
  BY DEF Restart, TypeOK
<1> QED
  BY <1>1, <1>2, <1>3, <1>4, <1>5, <1>6, <1>7

-----------------------------------------------------------------------------
(* The inductive invariant                                                 *)

\* The phases of FLEnv touch no bridge, unless the process ends in the download.
LEMMA PrepareKeeps ==
  ASSUME IInv, NEW p \in Parties, Prepare(p)
  PROVE  (TypeOK /\ StartedOnce)'
<1> DEFINE Early == {"register", "pairs", "clean", "download", "touch", "init", "connect"}
<1>1. ASSUME NEW next \in Early, Goes(p, next), registered' \subseteq Parties,
             model_dir' \in [Parties -> {"empty", "partial", "complete", "success"}],
             faults' = faults
      PROVE  (TypeOK /\ StartedOnce)'
  BY <1>1 DEF IInv, TypeOK, StartedOnce, Goes, bridgeVars, Serving, Peer
<1>2. ASSUME Restart(p), registered' = registered,
             model_dir' \in [Parties -> {"empty", "partial", "complete", "success"}],
             faults' \in 0..MaxFaults
      PROVE  (TypeOK /\ StartedOnce)'
  <2>1. TypeOK'
    BY <1>2, RestartEffect DEF IInv, TypeOK, Serving
  <2>2. StartedOnce'
    BY <1>2, RestartEffect DEF IInv, TypeOK, StartedOnce, Peer
  <2> QED
    BY <2>1, <2>2
<1>3. CASE Register(p)
  <2>1. registered' \subseteq Parties
    BY <1>3 DEF Register, IInv, TypeOK
  <2>2. /\ Goes(p, "pairs") /\ "pairs" \in Early /\ faults' = faults
        /\ model_dir' \in [Parties -> {"empty", "partial", "complete", "success"}]
    BY <1>3 DEF Register, IInv, TypeOK
  <2> QED
    BY <1>1, <2>1, <2>2
<1>4. CASE GetPairs(p) \/ TouchSuccess(p) \/ InitBridge(p)
  BY <1>1, <1>4 DEF GetPairs, TouchSuccess, InitBridge, IInv, TypeOK
<1>5. CASE CleanDirs(p)
  BY <1>1, <1>5 DEF CleanDirs, RmDir, IInv, TypeOK
<1>6. CASE Download(p)
  <2>1. registered' = registered
    BY <1>6 DEF Download
  <2>2. model_dir' \in [Parties -> {"empty", "partial", "complete", "success"}]
    BY <1>6 DEF Download, DownloadFromHdfs, IInv, TypeOK
  <2>3. faults' \in 0..MaxFaults
    BY <1>6 DEF Download, DownloadFromHdfs, Fault, IInv, TypeOK
  <2>4. \/ Goes(p, "init") /\ faults' = faults
        \/ Goes(p, "touch") /\ faults' = faults
        \/ Restart(p)
    BY <1>6 DEF Download, DownloadFromHdfs
  <2>5. "init" \in Early /\ "touch" \in Early /\ registered' \subseteq Parties
    BY <2>1 DEF IInv, TypeOK
  <2> HIDE DEF Early
  <2> QED
    BY <1>1, <1>2, <2>1, <2>2, <2>3, <2>4, <2>5
<1> QED
  BY <1>3, <1>4, <1>5, <1>6 DEF Prepare

\* The end of a process: what the peer has heard becomes outdated, and the new
\* process is at its beginning.
LEMMA EndKeeps ==
  ASSUME IInv, NEW p \in Parties, Crash(p) \/ Exit(p)
  PROVE  (TypeOK /\ StartedOnce)'
<1>1. /\ Restart(p)
      /\ registered' = registered /\ model_dir' = model_dir
      /\ faults' \in 0..MaxFaults
  BY DEF Crash, Exit, Fault, IInv, TypeOK
<1>2. TypeOK'
  BY <1>1, RestartEffect DEF IInv, TypeOK, Serving
<1>3. StartedOnce'
  BY <1>1, RestartEffect DEF IInv, TypeOK, StartedOnce, Peer
<1> QED
  BY <1>2, <1>3

\* Only a peer that is still NEW lets a trainer get past Connect, and such a peer
\* has heard nobody.
LEMMA ConnectKeeps ==
  ASSUME IInv, NEW p \in Parties, Connect(p) \/ ConnectAnswerLost(p)
  PROVE  (TypeOK /\ StartedOnce)'
<1>1. Peer(p) \in Parties /\ Peer(Peer(p)) = p
  BY DEF Peer
<1> DEFINE q == Peer(p)
<1>2. /\ link' \in [Parties -> {"down", "current", "former"}]
      /\ peer_connected' \in [Parties -> BOOLEAN]
      /\ exiting' \in [Parties -> BOOLEAN]
  <2>1. ConnectHandler(q)
    BY DEF Connect, ConnectAnswerLost
  <2>2. /\ link' = [link EXCEPT ![q] = "current"] \/ link' = [link EXCEPT ![q] = "down"]
        /\ peer_connected' = peer_connected \/ peer_connected' = [peer_connected EXCEPT ![q] = TRUE]
        /\ exiting' = exiting \/ exiting' = [exiting EXCEPT ![q] = TRUE]
    BY <2>1 DEF ConnectHandler
  <2>3. link' \in [Parties -> {"down", "current", "former"}]
    BY <1>1, <2>2 DEF IInv, TypeOK
  <2>4. peer_connected' \in [Parties -> BOOLEAN]
    <3>1. peer_connected \in [Parties -> BOOLEAN] /\ q \in Parties
      BY <1>1 DEF IInv, TypeOK
    <3> HIDE DEF q, Parties
    <3>2. [peer_connected EXCEPT ![q] = TRUE] \in [Parties -> BOOLEAN]
      BY <3>1, SetTrue, Zenon
    <3> QED
      BY <2>2, <3>1, <3>2, Zenon
  <2>5. exiting' \in [Parties -> BOOLEAN]
    <3>1. exiting \in [Parties -> BOOLEAN] /\ q \in Parties
      BY <1>1 DEF IInv, TypeOK
    <3> HIDE DEF q, Parties
    <3>2. [exiting EXCEPT ![q] = TRUE] \in [Parties -> BOOLEAN]
      BY <3>1, SetTrue, Zenon
    <3> QED
      BY <2>2, <3>1, <3>2, Zenon
  <2> QED
    BY <2>3, <2>4, <2>5
<1>3. /\ phase' = phase \/ phase' = [phase EXCEPT ![p] = "wait"]
      /\ faults' \in 0..MaxFaults
      /\ UNCHANGED <<registered, model_dir, attempts, br_state, train_start, heard>>
  BY DEF Connect, ConnectAnswerLost, Fault, IInv, TypeOK
<1>4. TypeOK'
  BY <1>2, <1>3 DEF IInv, TypeOK, Serving
<1>5. phase' # phase => br_state[Peer(p)] = "NEW"
  BY <1>1 DEF Connect, ConnectAnswerLost, ConnectHandler, IInv, TypeOK
<1>6. phase' # phase => heard[Peer(p)] = {}
  BY <1>1, <1>5 DEF IInv, StartedOnce
<1>7. StartedOnce'
  <2>1. CASE phase' = phase
    BY <1>3, <2>1 DEF IInv, StartedOnce
  <2>2. CASE phase' # phase
    <3>1. phase' = [phase EXCEPT ![p] = "wait"] /\ heard[q] = {} /\ heard' = heard
          /\ br_state' = br_state
      BY <1>3, <1>6, <2>2
    <3>2. ASSUME NEW r \in Parties, "former" \in heard[r]
          PROVE  phase'[Peer(r)] = phase[Peer(r)]
      BY <3>1, <3>2 DEF IInv, TypeOK, Peer
    <3> QED
      BY <3>1, <3>2 DEF IInv, StartedOnce
  <2> QED
    BY <2>1, <2>2
<1> QED
  BY <1>4, <1>7

\* A trainer that waits goes on or back to Connect.
LEMMA WaitKeeps ==
  ASSUME IInv, NEW p \in Parties, WaitConnect(p) \/ (p = "follower" /\ WaitTrainReady)
  PROVE  (TypeOK /\ StartedOnce)'
<1>1. /\ phase[p] \in {"wait", "follow"}
      /\ \E next \in Serving : phase' = [phase EXCEPT ![p] = next]
      /\ UNCHANGED <<registered, model_dir, bridgeVars>>
  BY DEF WaitConnect, WaitTrainReady, WaitFails, IInv, TypeOK, Serving
<1>2. attempts' \in [Parties -> 0..(WaitAttempts - 1)]
  BY DEF WaitConnect, WaitTrainReady, WaitFails, IInv, TypeOK
<1>3. faults' \in 0..MaxFaults
  BY DEF WaitConnect, WaitTrainReady, Fault, IInv, TypeOK
<1>4. TypeOK'
  BY <1>1, <1>2, <1>3 DEF IInv, TypeOK, bridgeVars, Serving
<1>5. StartedOnce'
  BY <1>1 DEF IInv, TypeOK, StartedOnce, bridgeVars, Serving, Peer
<1> QED
  BY <1>4, <1>5

\* Sending and receiving make a trainer STARTED.
LEMMA TrainKeeps ==
  ASSUME IInv, NEW p \in Parties, Train(p)
  PROVE  (TypeOK /\ StartedOnce)'
<1>1. Peer(p) \in Parties /\ Peer(Peer(p)) = p
  BY DEF Peer
<1>2. CASE TrainStart(p)
  <2>1. TypeOK'
    BY <1>2 DEF TrainStart, Fault, IInv, TypeOK
  <2>2. StartedOnce'
    BY <1>2 DEF TrainStart, IInv, TypeOK, StartedOnce
  <2> QED
    BY <2>1, <2>2
<1>3. CASE Transmit(p)
  <2>1. TypeOK'
    BY <1>1, <1>3 DEF Transmit, TransmitHandler, IInv, TypeOK
  <2>2. StartedOnce'
    BY <1>1, <1>3 DEF Transmit, TransmitHandler, IInv, TypeOK, StartedOnce
  <2> QED
    BY <2>1, <2>2
<1> QED
  BY <1>2, <1>3 DEF Train

\* Every step keeps the invariant.  A trainer is heard when it trains, so no
\* earlier process of it has been heard; the end of a process empties what it
\* heard and outdates what its peer did.
LEMMA Step ==
  ASSUME IInv, [Next]_vars
  PROVE  IInv'
<1>1. Configured'
  BY ConfigKept DEF IInv, Configured, config
<1>2. CASE UNCHANGED vars
  BY <1>1, <1>2 DEF IInv, TypeOK, StartedOnce, OnePeerProcess, vars, bridgeVars
<1>3. CASE Next
  <2>1. PICK p \in Parties : 
           \/ Prepare(p) \/ Crash(p) \/ Exit(p) \/ Connect(p) \/ ConnectAnswerLost(p)
           \/ WaitConnect(p) \/ (p = "follower" /\ WaitTrainReady) \/ Train(p)
    BY <1>3 DEF Next
  <2>2. (TypeOK /\ StartedOnce)'
    BY <2>1, PrepareKeeps, EndKeeps, ConnectKeeps, WaitKeeps, TrainKeeps
  <2>3. heard' = heard \/ Restart(p) \/ Transmit(p)
    BY <2>1 DEF Prepare, Register, GetPairs, CleanDirs, Download, DownloadFromHdfs,
                TouchSuccess, InitBridge, Goes, bridgeVars, Connect, ConnectAnswerLost,
                WaitConnect, WaitTrainReady, Train, TrainStart, Exit, Crash
  <2>4. OnePeerProcess'
    <3>1. CASE heard' = heard
      BY <3>1 DEF IInv, OnePeerProcess
    <3>2. CASE Restart(p)
      BY <3>2, RestartEffect DEF IInv, OnePeerProcess, Peer
    <3>3. CASE Transmit(p)
      <4>1. Peer(p) \in Parties /\ Peer(Peer(p)) = p
        BY DEF Peer
      <4>2. "former" \notin heard[Peer(p)]
        BY <3>3, <4>1 DEF Transmit, IInv, StartedOnce
      <4>3. heard' = [heard EXCEPT ![Peer(p)] = @ \cup {"current"}]
        BY <3>3 DEF Transmit, TransmitHandler
      <4> QED
        BY <4>1, <4>2, <4>3 DEF IInv, TypeOK, OnePeerProcess
    <3> QED
      BY <2>3, <3>1, <3>2, <3>3
  <2> QED
    BY <1>1, <2>2, <2>4 DEF IInv
<1> QED
  BY <1>2, <1>3

-----------------------------------------------------------------------------
(* Theorems                                                                *)

\* The invariant holds in every state of every execution: a trainer that has
\* accepted a message has started, and a process that replaces the one it heard
\* does not get past Connect before it has exited.
THEOREM Invariance == Spec => []IInv
<1>1. ASSUME Init PROVE IInv
  <2>1. Configured
    BY <1>1 DEF Init, Configured
  <2>2. TypeOK
    BY <1>1 DEF Init, TypeOK
  <2>3. StartedOnce /\ OnePeerProcess
    BY <1>1 DEF Init, StartedOnce, OnePeerProcess
  <2> QED
    BY <2>1, <2>2, <2>3 DEF IInv
<1> QED
  BY <1>1, Step, PTL DEF Spec

\* Every variable keeps its type: waits are counted below the limit.
THEOREM TypeCorrect == Spec => []TypeOK
  BY Invariance, PTL DEF IInv

\* Crashes, exits, lost answers of Connect and time-outs never join a running
\* trainer with a restarted one.
THEOREM HearsOne == Spec => []OnePeerProcess
  BY Invariance, PTL DEF IInv

\* The worker ids of a cluster of any size are below the number of replicas and
\* no two tasks share one, so the coordinators pair every trainer with one.
THEOREM OwnRanks == Spec => []OwnRank
<1>1. ASSUME IInv PROVE OwnRank
  BY <1>1, WorkerIdType, WorkerIdInjective DEF IInv, Configured, OwnRank
<1> QED
  BY <1>1, Invariance, PTL
=============================================================================
