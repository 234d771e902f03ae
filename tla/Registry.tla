------------------------------ MODULE Registry ------------------------------
(***************************************************************************)
(* The coordinator of the leading party: how the workers of one            *)
(* application register themselves (RegisterUUID), how StartApplication    *)
(* waits until they have, and how the CheckAppStatus thread ends it all.   *)
(* All of them read and write the application's AppInfo in redis with      *)
(* separate commands; RegisterUUID takes the "distribute lock" for it.     *)
(*                                                                         *)
(* A worker is its uuids.  Its address is the number of its incarnation:   *)
(* k8s may restart it, and the call of the old incarnation may still be    *)
(* running in some coordinator.  Every redis command is one step.          *)
(***************************************************************************)
EXTENDS Integers, Sequences, FiniteSets

CONSTANTS
  Workers,      \* the worker_num workers of the application
  LockTimes,    \* FLAGS_lock_times
  LockTtl,      \* attempts to lock that fit into FLAGS_lock_timeout_s
  MaxFaults     \* bound: restarts of workers, redis errors and lost replies

ASSUME RegistryAssumption ==
  /\ IsFiniteSet(Workers)
  /\ LockTimes \in Nat \ {0}
  /\ LockTtl \in Nat
  /\ MaxFaults \in Nat

Ips == 0..MaxFaults
NoIp == -1
Requests == Workers \X Ips    \* the RegisterUUID call of an incarnation
Pair == [uuid : Workers, ip : Ips]
AppInfo == [pairs : Seq(Pair), local_status : {"RUNNING", "FINISH", "SHUTDOWN"}]

VARIABLES
  \* redis
  app_info,     \* the value at app_id
  lock,         \* whether the key lock_str_ + app_id exists
  uuid_ip,      \* the address at each uuid, for the proxy
  \* RegisterUUID
  pc,           \* progress of each call
  index,        \* its attempts to lock
  polls,        \* its futile attempts since the lock was last set
  snapshot,     \* the AppInfo it has read
  \* the workers
  ip,           \* current address
  acked,        \* the address whose registration the worker knows to be OK
  job,          \* the application's k8s job
  \* StartApplication
  starter,
  announced,    \* the pairs it sends to the follower
  \* the CheckAppStatus thread
  watched,      \* app_id is in app_id_set_
  checker,      \* progress of the thread
  checked,      \* the AppInfo it has read
  \* bounds and history
  faults,
  stale_write   \* some AppInfo was written from an outdated copy

redisVars == <<app_info, lock, uuid_ip, stale_write>>
callVars == <<pc, index, polls, snapshot>>
workerVars == <<ip, acked, job>>
starterVars == <<starter, announced>>
checkerVars == <<watched, checker, checked>>
vars == <<redisVars, callVars, workerVars, starterVars, checkerVars, faults>>

NoInfo == [pairs |-> <<>>, local_status |-> "RUNNING"]

TypeOK ==
  /\ app_info \in AppInfo
  /\ lock \in BOOLEAN
  /\ uuid_ip \in [Workers -> Ips \cup {NoIp}]
  /\ pc \in [Requests -> {"idle", "mset", "lock", "lockset", "get", "set",
                          "unlock", "unlockfail", "ok", "failed"}]
  /\ index \in [Requests -> 0..LockTimes]
  /\ polls \in [Requests -> 0..LockTtl]
  /\ snapshot \in [Requests -> AppInfo]
  /\ ip \in [Workers -> Ips]
  /\ acked \in [Workers -> Ips \cup {NoIp}]
  /\ job \in {"none", "running", "finished", "failed"}
  /\ starter \in {"submit", "k8s", "watch", "poll", "send", "ok", "error"}
  /\ announced \in Seq(Pair)
  /\ watched \in BOOLEAN
  /\ checker \in {"sleep", "k8s", "set", "syn", "delete", "dead"}
  /\ checked \in AppInfo
  /\ faults \in 0..MaxFaults
  /\ stale_write \in BOOLEAN

Init ==
  /\ app_info = NoInfo
  /\ lock = FALSE
  /\ uuid_ip = [w \in Workers |-> NoIp]
  /\ pc = [r \in Requests |-> "idle"]
  /\ index = [r \in Requests |-> 0]
  /\ polls = [r \in Requests |-> 0]
  /\ snapshot = [r \in Requests |-> NoInfo]
  /\ ip = [w \in Workers |-> 0]
  /\ acked = [w \in Workers |-> NoIp]
  /\ job = "none"
  /\ starter = "submit"
  /\ announced = <<>>
  /\ watched = FALSE
  /\ checker = "sleep"
  /\ checked = NoInfo
  /\ faults = 0
  /\ stale_write = FALSE

-----------------------------------------------------------------------------
(* RegisterUUID                                                            *)

Goto(r, from, to) ==
  /\ pc[r] = from
  /\ pc' = [pc EXCEPT ![r] = to]

RegisterMset(r) ==
  /\ Goto(r, "mset", "lock")
  /\ uuid_ip' = [uuid_ip EXCEPT ![r[1]] = r[2]]
  /\ index' = [index EXCEPT ![r] = 1]
  /\ UNCHANGED <<app_info, lock, stale_write, polls, snapshot, workerVars,
                 starterVars, checkerVars, faults>>

\* A failed attempt: sleep and try again, or give up after the last one.
LockAgain(r, from) ==
  /\ Goto(r, from, IF index[r] < LockTimes THEN "lock" ELSE "failed")
  /\ index' = [index EXCEPT ![r] = IF @ < LockTimes THEN @ + 1 ELSE 0]

\* Lock: GET finds the key.  It cannot find it for longer than its time to live.
LockBusy(r) ==
  /\ lock
  /\ polls[r] < LockTtl
  /\ LockAgain(r, "lock")
  /\ polls' = [polls EXCEPT ![r] = IF index[r] < LockTimes THEN @ + 1 ELSE 0]
  /\ UNCHANGED <<redisVars, snapshot, workerVars, starterVars, checkerVars, faults>>

\* Lock: GET finds no key.
LockFree(r) ==
  /\ ~lock
  /\ Goto(r, "lock", "lockset")
  /\ polls' = [polls EXCEPT ![r] = 0]
  /\ UNCHANGED <<redisVars, index, snapshot, workerVars, starterVars,
                 checkerVars, faults>>

\* Lock: SET ... EX, whether or not the key exists by now.  The caller takes a
\* success at the last attempt for a failure and leaves the key behind.
LockSet(r) ==
  /\ Goto(r, "lockset", IF index[r] >= LockTimes THEN "failed" ELSE "get")
  /\ lock' = TRUE
  /\ polls' = [s \in Requests |-> 0]
  /\ index' = [index EXCEPT ![r] = 0]
  /\ UNCHANGED <<app_info, uuid_ip, stale_write, snapshot, workerVars,
                 starterVars, checkerVars, faults>>

LockExpires ==
  /\ lock
  /\ lock' = FALSE
  /\ UNCHANGED <<app_info, uuid_ip, stale_write, callVars, workerVars,
                 starterVars, checkerVars, faults>>

RegisterGet(r) ==
  /\ Goto(r, "get", "set")
  /\ snapshot' = [snapshot EXCEPT ![r] = app_info]
  /\ UNCHANGED <<redisVars, index, polls, workerVars, starterVars, checkerVars,
                 faults>>

Registered(pairs, w) == \E i \in 1..Len(pairs) : pairs[i].uuid = w

\* Mutant: the uuids are never found.
ReplaceUUIDForNewIpNever(pairs, w, a) == Append(pairs, [uuid |-> w, ip |-> a])

\* The first pair with the uuid gets the new address; a new one is added if
\* there is none.
ReplaceUUIDForNewIp(pairs, w, a) ==
  IF Registered(pairs, w)
  THEN [i \in 1..Len(pairs) |->
          IF pairs[i].uuid = w /\ \A j \in 1..(i - 1) : pairs[j].uuid # w
          THEN [uuid |-> w, ip |-> a] ELSE pairs[i]]
  ELSE Append(pairs, [uuid |-> w, ip |-> a])

\* Mutant: the AppInfo is rebuilt from the request alone.
RegisterSetOnly(r) ==
  /\ Goto(r, "set", "unlock")
  /\ app_info' = [app_info EXCEPT !.pairs = <<[uuid |-> r[1], ip |-> r[2]]>>]
  /\ stale_write' = (stale_write \/ snapshot[r] # app_info)
  /\ snapshot' = [snapshot EXCEPT ![r] = NoInfo]
  /\ UNCHANGED <<lock, uuid_ip, index, polls, workerVars, starterVars,
                 checkerVars, faults>>

RegisterSet(r) ==
  /\ Goto(r, "set", "unlock")
  /\ app_info' = [snapshot[r] EXCEPT !.pairs = ReplaceUUIDForNewIp(@, r[1], r[2])]
  /\ stale_write' = (stale_write \/ snapshot[r] # app_info)
  /\ snapshot' = [snapshot EXCEPT ![r] = NoInfo]
  /\ UNCHANGED <<lock, uuid_ip, index, polls, workerVars, starterVars,
                 checkerVars, faults>>

\* Unlock deletes the key whoever set it.
RegisterUnlock(r) ==
  /\ Goto(r, "unlock", "ok") \/ Goto(r, "unlockfail", "failed")
  /\ lock' = FALSE
  /\ UNCHANGED <<app_info, uuid_ip, stale_write, index, polls, snapshot,
                 workerVars, starterVars, checkerVars, faults>>

\* A redis command of the call fails.  To Lock a GET that fails is one that
\* finds no key, and Unlock does not look at what becomes of its DEL.
RegisterError(r) ==
  /\ faults < MaxFaults
  /\ faults' = faults + 1
  /\ \/ Goto(r, "mset", "failed") /\ UNCHANGED index
     \/ Goto(r, "lock", "lockset") /\ UNCHANGED index
     \/ LockAgain(r, "lockset")
     \/ Goto(r, "get", "unlockfail") /\ UNCHANGED index
     \/ Goto(r, "set", "unlockfail") /\ UNCHANGED index
     \/ Goto(r, "unlock", "ok") /\ UNCHANGED index
     \/ Goto(r, "unlockfail", "failed") /\ UNCHANGED index
  /\ snapshot' = [snapshot EXCEPT ![r] = NoInfo]
  /\ UNCHANGED <<redisVars, polls, workerVars, starterVars, checkerVars>>

-----------------------------------------------------------------------------
(* The workers: prepare_rpc_channel                                        *)

\* "Wait Register OK": the worker registers until it is told OK.
WorkerCalls(r) ==
  /\ job = "running"
  /\ r[2] = ip[r[1]]
  /\ acked[r[1]] # r[2]
  /\ Goto(r, "idle", "mset")
  /\ UNCHANGED <<redisVars, index, polls, snapshot, workerVars, starterVars,
                 checkerVars, faults>>

\* The call returns; a caller that has been restarted does not learn of it.
WorkerReturns(r) ==
  /\ \/ Goto(r, "ok", "idle") /\ r[2] = ip[r[1]] /\ acked' = [acked EXCEPT ![r[1]] = r[2]]
     \/ Goto(r, "ok", "idle") /\ r[2] # ip[r[1]] /\ UNCHANGED acked
     \/ Goto(r, "failed", "idle") /\ UNCHANGED acked
  /\ UNCHANGED <<redisVars, index, polls, snapshot, ip, job, starterVars,
                 checkerVars, faults>>

\* The reply is lost: to the worker the call has failed.
WorkerReplyLost(r) ==
  /\ faults < MaxFaults
  /\ faults' = faults + 1
  /\ Goto(r, "ok", "idle")
  /\ UNCHANGED <<redisVars, index, polls, snapshot, workerVars, starterVars,
                 checkerVars>>

WorkerRestarts(w) ==
  /\ job = "running"
  /\ faults < MaxFaults
  /\ faults' = faults + 1
  /\ ip[w] < MaxFaults
  /\ ip' = [ip EXCEPT ![w] = @ + 1]
  /\ UNCHANGED <<redisVars, callVars, acked, job, starterVars, checkerVars>>

JobEnds ==
  /\ job = "running"
  /\ job' \in {"finished", "failed"}
  /\ UNCHANGED <<redisVars, callVars, ip, acked, starterVars, checkerVars, faults>>

-----------------------------------------------------------------------------
(* StartApplication                                                        *)

\* The follower accepts the training and the fresh AppInfo is written.
SubmitTrain ==
  /\ starter = "submit"
  /\ app_info' = NoInfo
  /\ starter' = "k8s"
  /\ UNCHANGED <<lock, uuid_ip, stale_write, callVars, workerVars, announced,
                 checkerVars, faults>>

StartK8S ==
  /\ starter = "k8s"
  /\ job' = "running"
  /\ starter' = "watch"
  /\ UNCHANGED <<redisVars, callVars, ip, acked, announced, checkerVars, faults>>

AddAppId ==
  /\ starter = "watch"
  /\ watched' = TRUE
  /\ starter' = "poll"
  /\ UNCHANGED <<redisVars, callVars, workerVars, announced, checker, checked, faults>>

\* Mutant: an application that has ended is waited for like any other.
CheckRegisterNumEnded ==
  IF Len(app_info.pairs) # Cardinality(Workers) THEN -1 ELSE Cardinality(Workers)

\* The remote_status it compares too is written by nobody.
CheckRegisterNum ==
  IF app_info.local_status # "RUNNING" THEN -2
  ELSE IF Len(app_info.pairs) # Cardinality(Workers) THEN -1
  ELSE Cardinality(Workers)

\* One turn of the polling loop: the AppInfo cannot be read, the application
\* has ended, or all workers have registered.
StarterPoll ==
  /\ starter = "poll"
  /\ \/ /\ faults < MaxFaults
        /\ faults' = faults + 1
        /\ starter' = "error"
        /\ UNCHANGED announced
     \/ /\ CheckRegisterNum = -2
        /\ starter' = "error"
        /\ UNCHANGED <<announced, faults>>
     \/ /\ CheckRegisterNum >= 0
        /\ starter' = "send"
        /\ announced' = app_info.pairs
        /\ UNCHANGED faults
  /\ UNCHANGED <<redisVars, callVars, workerVars, checkerVars>>

\* SendUUIDToFollower.
StarterSend ==
  /\ starter = "send"
  /\ starter' \in {"ok", "error"}
  /\ UNCHANGED <<redisVars, callVars, workerVars, announced, checkerVars, faults>>

\* SubmitTrain or StartK8S failed.
StarterFails ==
  /\ starter \in {"submit", "k8s"}
  /\ starter' = "error"
  /\ UNCHANGED <<redisVars, callVars, workerVars, announced, checkerVars, faults>>

-----------------------------------------------------------------------------
(* DoCheckAppStatus                                                        *)

CheckerGet ==
  /\ checker = "sleep"
  /\ watched
  /\ checked' = app_info
  /\ checker' = "k8s"
  /\ UNCHANGED <<redisVars, callVars, workerVars, starterVars, watched, faults>>

\* CheckK8S: a running application is left alone.
CheckerK8S ==
  /\ checker = "k8s"
  /\ \/ /\ job = "running"
        /\ checker' = "sleep"
        /\ checked' = NoInfo
     \/ /\ job # "running"
        /\ checker' = "set"
        /\ checked' = [checked EXCEPT !.local_status =
                         IF job = "finished" THEN "FINISH" ELSE "SHUTDOWN"]
  /\ UNCHANGED <<redisVars, callVars, workerVars, starterVars, watched, faults>>

\* SetAppInfoToRedis, without the lock, and whether or not it succeeds.
CheckerSet ==
  /\ checker = "set"
  /\ checker' = "syn"
  /\ \/ /\ app_info' = checked
        /\ stale_write' = (stale_write \/ checked.pairs # app_info.pairs)
        /\ UNCHANGED faults
     \/ /\ faults < MaxFaults
        /\ faults' = faults + 1
        /\ UNCHANGED <<app_info, stale_write>>
  /\ checked' = NoInfo
  /\ UNCHANGED <<lock, uuid_ip, callVars, workerVars, starterVars, watched>>

\* InvokeSyn: after a failure the thread returns for good.
CheckerSyn ==
  /\ checker = "syn"
  /\ checker' \in {"delete", "dead"}
  /\ UNCHANGED <<redisVars, callVars, workerVars, starterVars, watched, checked, faults>>

DeleteAppId ==
  /\ checker = "delete"
  /\ watched' = FALSE
  /\ checker' = "sleep"
  /\ UNCHANGED <<redisVars, callVars, workerVars, starterVars, checked, faults>>

-----------------------------------------------------------------------------
RegisterUUID(r) ==
  \/ RegisterMset(r) \/ LockBusy(r) \/ LockFree(r) \/ LockSet(r)
  \/ RegisterGet(r) \/ RegisterSet(r) \/ RegisterUnlock(r)
  \/ WorkerCalls(r) \/ WorkerReturns(r)

StartApplication ==
  SubmitTrain \/ StartK8S \/ AddAppId \/ StarterPoll \/ StarterSend \/ StarterFails

DoCheckAppStatus ==
  CheckerGet \/ CheckerK8S \/ CheckerSet \/ CheckerSyn \/ DeleteAppId

Next ==
  \/ \E r \in Requests : RegisterUUID(r) \/ RegisterError(r) \/ WorkerReplyLost(r)
  \/ \E w \in Workers : WorkerRestarts(w)
  \/ LockExpires
  \/ JobEnds
  \/ StartApplication
  \/ DoCheckAppStatus

Spec == Init /\ [][Next]_vars

\* Calls are served, an unused lock expires, workers register until they are
\* told OK, StartApplication polls and the checker wakes up.  Jobs need not
\* end, and errors and restarts need not happen.
Fairness ==
  /\ \A r \in Requests : WF_vars(RegisterUUID(r))
  /\ WF_vars(LockExpires)
  /\ WF_vars(StartApplication)
  /\ WF_vars(CheckerGet)
  /\ WF_vars(CheckerK8S)
  /\ WF_vars(CheckerSet)

FairSpec == Spec /\ Fairness

-----------------------------------------------------------------------------
(* Properties                                                              *)

NoDuplicates(pairs) ==
  \A i, j \in 1..Len(pairs) : pairs[i].uuid = pairs[j].uuid => i = j

\* CheckRegisterNum only compares numbers, yet what StartApplication sends to
\* the follower names every worker, and each once, whatever restarts, retries
\* and lost updates there were.
CompleteMeansAll ==
  announced # <<>> =>
    /\ NoDuplicates(announced)
    /\ \A w \in Workers : Registered(announced, w)

\* A worker that was told OK, and will not register again, is in the AppInfo,
\* as the "distribute lock" of RegisterUUID is there to guarantee.
AcknowledgedKept ==
  \A w \in Workers : acked[w] # NoIp => Registered(app_info.pairs, w)

\* Writing an outdated copy is the only way in which the registration of a
\* worker that was told OK is lost: expired and leaked locks, failed calls,
\* lost replies and restarts alone do no harm.
KeptUnlessStaleWrite == ~stale_write => AcknowledgedKept

\* "if has this uuid, replace (for restart ip)": a worker that was told OK is
\* registered under its current address (unless an update was lost).
CurrentAddress ==
  ~stale_write =>
    \A w \in Workers : acked[w] = ip[w] =>
      \A i \in 1..Len(app_info.pairs) :
        app_info.pairs[i].uuid = w => app_info.pairs[i].ip = ip[w]

\* A worker waits for a pair that is not there, or the end of the job has been
\* noted and overwritten, and nobody will look at it again.
Lost ==
  \/ ~AcknowledgedKept
  \/ job \in {"finished", "failed"} /\ app_info.local_status = "RUNNING" /\ stale_write

\* StartApplication stops polling: it succeeds or finds the application ended,
\* unless a registration or the status has been lost.
StartsUnlessLost == starter = "poll" ~> starter \in {"ok", "error"} \/ Lost

\* The AppInfo and the copies of it never name a worker twice.
Copies ==
  /\ NoDuplicates(app_info.pairs)
  /\ NoDuplicates(checked.pairs)
  /\ \A r \in Requests : NoDuplicates(snapshot[r].pairs)

\* Nothing is registered before the fresh AppInfo is written.
Starting ==
  /\ starter = "submit" => /\ \A r \in Requests : pc[r] = "idle"
                           /\ \A w \in Workers : acked[w] = NoIp
  /\ starter \in {"submit", "k8s"} => job = "none"

\* A call that has written the AppInfo has registered its worker.
Written ==
  ~stale_write => \A r \in Requests :
    pc[r] \in {"unlock", "ok"} => Registered(app_info.pairs, r[1])

IInv == TypeOK /\ Copies /\ Starting /\ Written /\ KeptUnlessStaleWrite
          /\ CompleteMeansAll
=============================================================================
