--------------------------- MODULE RegistryProofs ---------------------------
(***************************************************************************)
(* What Registry guarantees for any number of workers, lock attempts and   *)
(* faults: the announced application is complete, and registrations are    *)
(* only lost to writes of outdated copies.                                 *)
(***************************************************************************)
EXTENDS Registry, FiniteSetTheorems, TLAPS

USE RegistryAssumption

\* ReplaceUUIDForNewIp keeps the list free of duplicates, keeps every worker
\* in it and registers the given one.
LEMMA ReplaceKeeps ==
  ASSUME NEW pairs \in Seq(Pair), NoDuplicates(pairs),
         NEW w \in Workers, NEW a \in Ips
  PROVE  /\ ReplaceUUIDForNewIp(pairs, w, a) \in Seq(Pair)
         /\ NoDuplicates(ReplaceUUIDForNewIp(pairs, w, a))
         /\ Registered(ReplaceUUIDForNewIp(pairs, w, a), w)
         /\ \A v \in Workers :
              Registered(pairs, v) => Registered(ReplaceUUIDForNewIp(pairs, w, a), v)
<1> DEFINE p == [uuid |-> w, ip |-> a]
<1> DEFINE new == ReplaceUUIDForNewIp(pairs, w, a)
<1>0. p \in Pair /\ p.uuid = w
  BY DEF Pair
<1>1. CASE Registered(pairs, w)
  <2>1. new = [i \in 1..Len(pairs) |->
                 IF pairs[i].uuid = w /\ \A j \in 1..(i - 1) : pairs[j].uuid # w
                 THEN p ELSE pairs[i]]
    BY <1>1 DEF ReplaceUUIDForNewIp
  <2>2. \A i \in 1..Len(pairs) : pairs[i] \in Pair
    OBVIOUS
  <2>3. new \in Seq(Pair) /\ Len(new) = Len(pairs)
    BY <1>0, <2>1, <2>2
  <2>4. \A i \in 1..Len(pairs) : new[i].uuid = pairs[i].uuid
    BY <1>0, <2>1
  <2> HIDE DEF new
  <2>5. NoDuplicates(new) /\ \A v \in Workers : Registered(new, v) <=> Registered(pairs, v)
    BY <2>3, <2>4 DEF NoDuplicates, Registered
  <2> QED
    BY <1>1, <2>3, <2>5 DEF new
<1>2. CASE ~Registered(pairs, w)
  <2>1. new = Append(pairs, p)
    BY <1>2 DEF ReplaceUUIDForNewIp
  <2>2. /\ new \in Seq(Pair) /\ Len(new) = Len(pairs) + 1
        /\ \A i \in 1..Len(pairs) : new[i] = pairs[i]
        /\ new[Len(pairs) + 1] = p
    BY <1>0, <2>1
  <2> HIDE DEF new
  <2>3. NoDuplicates(new)
    BY <1>0, <1>2, <2>2 DEF NoDuplicates, Registered
  <2>4. Registered(new, w)
    BY <1>0, <2>2 DEF Registered
  <2>5. \A v \in Workers : Registered(pairs, v) => Registered(new, v)
    BY <2>2 DEF Registered
  <2> QED
    BY <2>2, <2>3, <2>4, <2>5 DEF new
<1> QED
  BY <1>1, <1>2

\* A list as long as there are workers, and without duplicates, names them all.
LEMMA FullListNamesAll ==
  ASSUME NEW pairs \in Seq(Pair), NoDuplicates(pairs),
         Len(pairs) = Cardinality(Workers)
  PROVE  \A w \in Workers : Registered(pairs, w)
<1> DEFINE S == 1..Len(pairs)
<1> DEFINE f == [i \in S |-> pairs[i].uuid]
<1>0. \A i \in S : pairs[i] \in Pair
  OBVIOUS
<1>1. \A i \in S : pairs[i].uuid \in Workers
  BY <1>0 DEF Pair
<1>2. f \in [S -> Workers] /\ \A i, j \in S : f[i] = f[j] => i = j
  BY <1>1 DEF NoDuplicates
<1> HIDE DEF f
<1>3. f \in Injection(S, Workers)
  BY <1>2 DEF Injection, IsInjective
<1>4. Cardinality(S) = Len(pairs)
  BY FS_Interval
<1>5. f \in Surjection(S, Workers)
  BY <1>3, <1>4, FS_Injection
<1> QED
  BY <1>5 DEF Surjection, Registered, f

-----------------------------------------------------------------------------
\* The record a call writes.
LEMMA SetEffect ==
  ASSUME IInv, NEW r \in Requests, RegisterSet(r)
  PROVE  /\ app_info' \in AppInfo
         /\ NoDuplicates(app_info'.pairs)
         /\ Registered(app_info'.pairs, r[1])
         /\ ~stale_write' => /\ ~stale_write
                             /\ \A v \in Workers : Registered(app_info.pairs, v)
                                                     => Registered(app_info'.pairs, v)
         /\ pc' = [pc EXCEPT ![r] = "unlock"]
         /\ snapshot' = [snapshot EXCEPT ![r] = NoInfo]
         /\ stale_write' \in BOOLEAN
<1>1. snapshot[r] \in AppInfo /\ NoDuplicates(snapshot[r].pairs)
  BY DEF IInv, TypeOK, Copies
<1>2. r[1] \in Workers /\ r[2] \in Ips
  BY DEF Requests
<1> DEFINE old == snapshot[r].pairs
<1> DEFINE new == ReplaceUUIDForNewIp(old, r[1], r[2])
<1>3. old \in Seq(Pair)
  BY <1>1 DEF AppInfo
<1>4. /\ new \in Seq(Pair) /\ NoDuplicates(new) /\ Registered(new, r[1])
      /\ \A v \in Workers : Registered(old, v) => Registered(new, v)
  BY <1>1, <1>2, <1>3, ReplaceKeeps
<1>5. app_info' = [snapshot[r] EXCEPT !.pairs = new]
  BY DEF RegisterSet
<1> HIDE DEF new
<1>6. app_info' \in AppInfo /\ app_info'.pairs = new
  BY <1>1, <1>4, <1>5 DEF AppInfo
<1>7. ~stale_write' => ~stale_write /\ snapshot[r] = app_info
  BY DEF RegisterSet
<1>8. stale_write' \in BOOLEAN
  BY DEF RegisterSet
<1> QED
  BY <1>4, <1>6, <1>7, <1>8 DEF RegisterSet, Goto

\* Every step keeps the types.
LEMMA TypeStep ==
  ASSUME IInv, [Next]_vars
  PROVE  TypeOK'
<1>0. TypeOK
  BY DEF IInv
<1> USE DEF redisVars, callVars, workerVars, starterVars, checkerVars
<1>1. ASSUME NEW r \in Requests, RegisterUUID(r) \/ RegisterError(r) \/ WorkerReplyLost(r)
      PROVE  TypeOK'
  <2>0. r[1] \in Workers /\ r[2] \in Ips
    BY DEF Requests
  <2>1. CASE RegisterMset(r)
    BY <1>0, <2>0, <2>1 DEF RegisterMset, Goto, TypeOK
  <2>2. CASE LockBusy(r)
    BY <1>0, <2>2 DEF LockBusy, LockAgain, Goto, TypeOK
  <2>3. CASE LockFree(r)
    BY <1>0, <2>3 DEF LockFree, Goto, TypeOK
  <2>4. CASE LockSet(r)
    BY <1>0, <2>4 DEF LockSet, Goto, TypeOK
  <2>5. CASE RegisterGet(r)
    BY <1>0, <2>5 DEF RegisterGet, Goto, TypeOK
  <2>6. CASE RegisterSet(r)
    <3>1. /\ app_info' \in AppInfo /\ stale_write' \in BOOLEAN
          /\ pc' = [pc EXCEPT ![r] = "unlock"]
          /\ snapshot' = [snapshot EXCEPT ![r] = NoInfo]
      BY <2>6, SetEffect
    <3>2. NoInfo \in AppInfo
      BY DEF NoInfo, AppInfo
    <3> QED
      BY <1>0, <2>6, <3>1, <3>2 DEF RegisterSet, TypeOK
  <2>7. CASE RegisterUnlock(r)
    BY <1>0, <2>7 DEF RegisterUnlock, Goto, TypeOK
  <2>8. CASE WorkerCalls(r)
    BY <1>0, <2>8 DEF WorkerCalls, Goto, TypeOK
  <2>9. CASE WorkerReturns(r)
    <3>1. pc' = [pc EXCEPT ![r] = "idle"]
      BY <2>9 DEF WorkerReturns, Goto
    <3>2. acked' = acked \/ acked' = [acked EXCEPT ![r[1]] = r[2]]
      BY <2>9 DEF WorkerReturns
    <3>3. acked' \in [Workers -> Ips \cup {NoIp}]
      BY <1>0, <2>0, <3>2 DEF TypeOK
    <3> QED
      BY <1>0, <2>9, <3>1, <3>3 DEF WorkerReturns, TypeOK
  <2>10. CASE RegisterError(r)
    <3>1. NoInfo \in AppInfo
      BY DEF NoInfo, AppInfo
    <3> QED
      <4>1. faults' \in 0..MaxFaults
        BY <1>0, <2>10 DEF RegisterError, TypeOK
      <4>2. \E to \in {"failed", "lock", "lockset", "unlockfail", "ok"} : pc' = [pc EXCEPT ![r] = to]
        BY <2>10 DEF RegisterError, LockAgain, Goto
      <4>3. index' = index \/ index' = [index EXCEPT ![r] =
                                          IF @ < LockTimes THEN @ + 1 ELSE 0]
        BY <2>10 DEF RegisterError, LockAgain
      <4>4. index' \in [Requests -> 0..LockTimes]
        BY <1>0, <4>3 DEF TypeOK
      <4>5. /\ snapshot' = [snapshot EXCEPT ![r] = NoInfo]
            /\ UNCHANGED <<redisVars, polls, workerVars, starterVars, checkerVars>>
        BY <2>10 DEF RegisterError
      <4> QED
        BY <1>0, <3>1, <4>1, <4>2, <4>4, <4>5 DEF TypeOK
  <2>11. CASE WorkerReplyLost(r)
    BY <1>0, <2>11 DEF WorkerReplyLost, Goto, TypeOK
  <2> QED
    BY <1>1, <2>1, <2>2, <2>3, <2>4, <2>5, <2>6, <2>7, <2>8, <2>9, <2>10, <2>11
    DEF RegisterUUID
<1>2. CASE \E w \in Workers : WorkerRestarts(w)
  BY <1>0, <1>2 DEF WorkerRestarts, TypeOK, Ips
<1>3. CASE LockExpires
  BY <1>0, <1>3 DEF LockExpires, TypeOK
<1>4. CASE JobEnds
  BY <1>0, <1>4 DEF JobEnds, TypeOK
<1>5. CASE StartApplication
  <2>1. NoInfo \in AppInfo
    BY DEF NoInfo, AppInfo
  <2>2. app_info.pairs \in Seq(Pair)
    BY <1>0 DEF TypeOK, AppInfo
  <2>3. CASE StarterPoll
    BY <1>0, <2>2, <2>3 DEF StarterPoll, TypeOK
  <2> QED
    BY <1>0, <1>5, <2>1, <2>3 DEF StartApplication, SubmitTrain, StartK8S, AddAppId,
       StarterSend, StarterFails, TypeOK
<1>6. CASE DoCheckAppStatus
  <2>1. NoInfo \in AppInfo
    BY DEF NoInfo, AppInfo
  <2>2. CASE CheckerK8S
    <3>1. checked' \in AppInfo
      BY <1>0, <1>6, <2>1, <2>2 DEF CheckerK8S, TypeOK, AppInfo
    <3> QED
      BY <1>0, <2>2, <3>1 DEF CheckerK8S, TypeOK
  <2>3. CASE CheckerSet
    <3>1. app_info' \in {app_info, checked} /\ checked' = NoInfo
      BY <2>3 DEF CheckerSet
    <3>2. stale_write' \in BOOLEAN
      <4>1. stale_write' = stale_write
            \/ stale_write' = (stale_write \/ checked.pairs # app_info.pairs)
        BY <2>3 DEF CheckerSet
      <4> QED
        BY <1>0, <4>1 DEF TypeOK
    <3>3. faults' \in 0..MaxFaults
      BY <1>0, <2>3 DEF CheckerSet, TypeOK
    <3>4. checker' = "syn"
          /\ UNCHANGED <<lock, uuid_ip, callVars, workerVars, starterVars, watched>>
      BY <2>3 DEF CheckerSet
    <3> QED
      BY <1>0, <2>1, <3>1, <3>2, <3>3, <3>4 DEF TypeOK
  <2> QED
    BY <1>0, <1>6, <2>2, <2>3 DEF DoCheckAppStatus, CheckerGet, CheckerSyn,
       DeleteAppId, TypeOK
<1>7. CASE UNCHANGED vars
  BY <1>0, <1>7 DEF vars, TypeOK
<1> QED
  BY <1>1, <1>2, <1>3, <1>4, <1>5, <1>6, <1>7 DEF Next

\* What a step may do to the AppInfo and to the copies of it.
LEMMA InfoStep ==
  ASSUME IInv, [Next]_vars
  PROVE  /\ Copies'
         /\ ~stale_write' => ~stale_write
         /\ starter # "submit" /\ ~stale_write' =>
              \A w \in Workers : Registered(app_info.pairs, w)
                                   => Registered(app_info'.pairs, w)
<1> DEFINE Goal ==
      /\ Copies'
      /\ ~stale_write' => ~stale_write
      /\ starter # "submit" /\ ~stale_write' =>
           \A w \in Workers : Registered(app_info.pairs, w)
                                => Registered(app_info'.pairs, w)
<1>0. TypeOK /\ Copies
  BY DEF IInv
<1> USE DEF redisVars, callVars, workerVars, starterVars, checkerVars
<1>n. NoDuplicates(NoInfo.pairs)
  BY DEF NoDuplicates, NoInfo
<1>u. ASSUME UNCHANGED <<app_info, stale_write, checked>>,
             \A r \in Requests : \/ snapshot'[r] \in {snapshot[r], NoInfo, app_info}
      PROVE  Goal
  BY <1>0, <1>n, <1>u DEF Copies
<1>1. ASSUME NEW r \in Requests, RegisterUUID(r) \/ RegisterError(r) \/ WorkerReplyLost(r)
      PROVE  Goal
  <2>1. CASE RegisterSet(r)
    <3>1. /\ NoDuplicates(app_info'.pairs)
          /\ ~stale_write' => /\ ~stale_write
                              /\ \A v \in Workers : Registered(app_info.pairs, v)
                                                      => Registered(app_info'.pairs, v)
          /\ snapshot' = [snapshot EXCEPT ![r] = NoInfo]
      BY <2>1, SetEffect
    <3>2. checked' = checked
      BY <2>1 DEF RegisterSet
    <3>3. \A q \in Requests : snapshot'[q] \in {snapshot[q], NoInfo}
      BY <1>0, <3>1 DEF TypeOK
    <3>4. Copies'
      BY <1>0, <1>n, <3>1, <3>2, <3>3 DEF Copies
    <3> QED
      BY <3>1, <3>4
  <2>2. CASE ~RegisterSet(r)
    <3>1. UNCHANGED <<app_info, stale_write, checked>>
      BY <1>1, <2>2 DEF RegisterUUID, RegisterMset, LockBusy, LockFree, LockSet,
         RegisterGet, RegisterUnlock, WorkerCalls, WorkerReturns, RegisterError,
         WorkerReplyLost
    <3>2. \/ snapshot' = snapshot
          \/ snapshot' = [snapshot EXCEPT ![r] = NoInfo]
          \/ snapshot' = [snapshot EXCEPT ![r] = app_info]
      BY <1>1, <2>2 DEF RegisterUUID, RegisterMset, LockBusy, LockFree, LockSet,
         RegisterGet, RegisterUnlock, WorkerCalls, WorkerReturns, RegisterError,
         WorkerReplyLost
    <3>3. \A q \in Requests : snapshot'[q] \in {snapshot[q], NoInfo, app_info}
      BY <1>0, <3>2 DEF TypeOK
    <3> QED
      BY <3>1, <3>3, <1>u
  <2> QED
    BY <2>1, <2>2
<1>2. CASE (\E w \in Workers : WorkerRestarts(w)) \/ LockExpires \/ JobEnds \/ UNCHANGED vars
  <2>1. UNCHANGED <<app_info, stale_write, checked, snapshot>>
    BY <1>2 DEF WorkerRestarts, LockExpires, JobEnds, vars
  <2> QED
    BY <2>1, <1>u
<1>3. CASE StartApplication
  <2>1. CASE SubmitTrain
    BY <1>0, <1>n, <2>1 DEF SubmitTrain, Copies
  <2>2. CASE ~SubmitTrain
    <3>1. UNCHANGED <<app_info, stale_write, checked, snapshot>>
      BY <1>3, <2>2 DEF StartApplication, StartK8S, AddAppId, StarterPoll,
         StarterSend, StarterFails
    <3> QED
      BY <3>1, <1>u
  <2> QED
    BY <2>1, <2>2
<1>4. CASE DoCheckAppStatus
  <2>1. CASE CheckerSet
    <3>1. checked' = NoInfo /\ snapshot' = snapshot
      BY <2>1 DEF CheckerSet
    <3>2. \/ /\ app_info' = checked
             /\ ~stale_write' => ~stale_write /\ checked.pairs = app_info.pairs
          \/ app_info' = app_info /\ stale_write' = stale_write
      BY <2>1 DEF CheckerSet
    <3>3. Copies'
      BY <1>0, <1>n, <3>1, <3>2 DEF Copies
    <3> QED
      BY <3>2, <3>3
  <2>2. CASE ~CheckerSet
    <3>1. UNCHANGED <<app_info, stale_write, snapshot>>
      BY <1>4, <2>2 DEF DoCheckAppStatus, CheckerGet, CheckerK8S, CheckerSyn, DeleteAppId
    <3>2. checked'.pairs \in {checked.pairs, app_info.pairs, NoInfo.pairs}
      <4>1. CASE CheckerK8S
        BY <1>0, <4>1 DEF CheckerK8S, TypeOK, AppInfo
      <4> QED
        BY <1>4, <2>2, <4>1 DEF DoCheckAppStatus, CheckerGet, CheckerSyn, DeleteAppId
    <3>3. Copies'
      BY <1>0, <1>n, <3>1, <3>2 DEF Copies
    <3> QED
      BY <3>1, <3>3
  <2> QED
    BY <2>1, <2>2
<1> QED
  BY <1>1, <1>2, <1>3, <1>4 DEF Next

\* A call is only past its write after writing, and a worker is only told OK by
\* a call of its own that is.
LEMMA CallStep ==
  ASSUME IInv, [Next]_vars
  PROVE  /\ \A r \in Requests : pc'[r] \in {"unlock", "ok"} =>
              pc[r] \in {"unlock", "ok"} \/ RegisterSet(r)
         /\ \A w \in Workers : acked'[w] # NoIp =>
              \/ acked[w] # NoIp
              \/ \E r \in Requests : r[1] = w /\ pc[r] = "ok" /\ app_info' = app_info
         /\ Starting'
<1> DEFINE Goal ==
      /\ \A r \in Requests : pc'[r] \in {"unlock", "ok"} =>
           pc[r] \in {"unlock", "ok"} \/ RegisterSet(r)
      /\ \A w \in Workers : acked'[w] # NoIp =>
           \/ acked[w] # NoIp
           \/ \E r \in Requests : r[1] = w /\ pc[r] = "ok" /\ app_info' = app_info
      /\ Starting'
<1>0. TypeOK /\ Starting
  BY DEF IInv
<1> USE DEF redisVars, callVars, workerVars, starterVars, checkerVars
<1>1. ASSUME NEW r \in Requests, RegisterUUID(r) \/ RegisterError(r) \/ WorkerReplyLost(r)
      PROVE  Goal
  <2>0. r[1] \in Workers /\ r[2] \in Ips
    BY DEF Requests
  <2>1. UNCHANGED <<starter, job>>
    BY <1>1 DEF RegisterUUID, RegisterMset, LockBusy, LockFree, LockSet, RegisterGet,
       RegisterSet, RegisterUnlock, WorkerCalls, WorkerReturns, RegisterError,
       WorkerReplyLost
  <2>2. pc[r] # "idle" \/ job = "running"
    BY <1>1 DEF RegisterUUID, RegisterMset, LockBusy, LockFree, LockSet, RegisterGet,
       RegisterSet, RegisterUnlock, WorkerCalls, WorkerReturns, RegisterError,
       WorkerReplyLost, LockAgain, Goto
  <2>3. starter # "submit"
    BY <1>0, <2>2 DEF Starting
  <2>4. Starting'
    BY <1>0, <2>1, <2>3 DEF Starting
  <2>5. \E to \in {"idle", "mset", "lock", "lockset", "get", "set", "unlock",
                   "unlockfail", "ok", "failed"} :
          /\ pc' = [pc EXCEPT ![r] = to]
          /\ to \in {"unlock", "ok"} => pc[r] = "unlock" \/ RegisterSet(r)
    BY <1>1 DEF RegisterUUID, RegisterMset, LockBusy, LockFree, LockSet, RegisterGet,
       RegisterSet, RegisterUnlock, WorkerCalls, WorkerReturns, RegisterError,
       WorkerReplyLost, LockAgain, Goto
  <2>6. \A q \in Requests : pc'[q] \in {"unlock", "ok"} =>
          pc[q] \in {"unlock", "ok"} \/ RegisterSet(q)
    BY <1>0, <2>5 DEF TypeOK
  <2>7. CASE WorkerReturns(r)
    <3>1. app_info' = app_info
      BY <2>7 DEF WorkerReturns
    <3>2. \/ acked' = acked
          \/ pc[r] = "ok" /\ acked' = [acked EXCEPT ![r[1]] = r[2]]
      BY <2>7 DEF WorkerReturns, Goto
    <3>3. \A w \in Workers : acked'[w] # NoIp =>
            acked[w] # NoIp \/ (r[1] = w /\ pc[r] = "ok" /\ app_info' = app_info)
      BY <1>0, <3>1, <3>2 DEF TypeOK
    <3> QED
      BY <2>4, <2>6, <3>3
  <2>8. CASE ~WorkerReturns(r)
    <3>1. acked' = acked
      BY <1>1, <2>8 DEF RegisterUUID, RegisterMset, LockBusy, LockFree, LockSet,
         RegisterGet, RegisterSet, RegisterUnlock, WorkerCalls, RegisterError,
         WorkerReplyLost
    <3> QED
      BY <2>4, <2>6, <3>1
  <2> QED
    BY <2>7, <2>8
<1>2. CASE ~\E r \in Requests : RegisterUUID(r) \/ RegisterError(r) \/ WorkerReplyLost(r)
  <2>1. UNCHANGED <<pc, acked>>
    BY <1>2 DEF Next, WorkerRestarts, LockExpires, JobEnds, vars, StartApplication,
       SubmitTrain, StartK8S, AddAppId, StarterPoll, StarterSend, StarterFails,
       DoCheckAppStatus, CheckerGet, CheckerK8S, CheckerSet, CheckerSyn, DeleteAppId
  <2>2. /\ starter' = "submit" => starter = "submit"
        /\ starter' \in {"submit", "k8s"} => starter \in {"submit", "k8s"} /\ job' = job
    BY <1>0, <1>2 DEF Next, WorkerRestarts, LockExpires, JobEnds, vars, StartApplication,
       SubmitTrain, StartK8S, AddAppId, StarterPoll, StarterSend, StarterFails,
       DoCheckAppStatus, CheckerGet, CheckerK8S, CheckerSet, CheckerSyn, DeleteAppId,
       Starting
  <2> QED
    BY <1>0, <2>1, <2>2 DEF Starting
<1> QED
  BY <1>1, <1>2

\* What is announced to the follower was complete when it was read.
LEMMA AnnouncedStep ==
  ASSUME IInv, [Next]_vars
  PROVE  CompleteMeansAll'
<1> USE DEF redisVars, callVars, workerVars, starterVars, checkerVars
<1>1. CASE StarterPoll
  <2>1. CASE announced' = announced
    BY <2>1 DEF IInv, CompleteMeansAll
  <2>2. CASE CheckRegisterNum >= 0 /\ announced' = app_info.pairs
    <3>1. app_info.pairs \in Seq(Pair) /\ NoDuplicates(app_info.pairs)
      BY DEF IInv, TypeOK, Copies, AppInfo
    <3>2. Len(app_info.pairs) = Cardinality(Workers)
      BY <2>2 DEF CheckRegisterNum
    <3>3. \A w \in Workers : Registered(app_info.pairs, w)
      BY <3>1, <3>2, FullListNamesAll
    <3> QED
      BY <2>2, <3>1, <3>3 DEF CompleteMeansAll
  <2> QED
    BY <1>1, <2>1, <2>2 DEF StarterPoll
<1>2. CASE ~StarterPoll
  <2>1. announced' = announced
    BY <1>2 DEF Next, RegisterUUID, RegisterMset, LockBusy, LockFree, LockSet,
       RegisterGet, RegisterSet, RegisterUnlock, WorkerCalls, WorkerReturns,
       RegisterError, WorkerReplyLost, WorkerRestarts, LockExpires, JobEnds, vars,
       StartApplication, SubmitTrain, StartK8S, AddAppId, StarterSend, StarterFails,
       DoCheckAppStatus, CheckerGet, CheckerK8S, CheckerSet, CheckerSyn, DeleteAppId
  <2> QED
    BY <2>1 DEF IInv, CompleteMeansAll
<1> QED
  BY <1>1, <1>2

\* Every step keeps the invariant.
LEMMA InvStep ==
  ASSUME IInv, [Next]_vars
  PROVE  IInv'
<1>1. Written /\ KeptUnlessStaleWrite /\ Starting
  BY DEF IInv
<1>2. /\ ~stale_write' => ~stale_write
      /\ starter # "submit" /\ ~stale_write' =>
           \A w \in Workers : Registered(app_info.pairs, w)
                                => Registered(app_info'.pairs, w)
  BY InfoStep
<1>3. /\ \A r \in Requests : pc'[r] \in {"unlock", "ok"} =>
           pc[r] \in {"unlock", "ok"} \/ RegisterSet(r)
      /\ \A w \in Workers : acked'[w] # NoIp =>
           \/ acked[w] # NoIp
           \/ \E r \in Requests : r[1] = w /\ pc[r] = "ok" /\ app_info' = app_info
  BY CallStep
<1>4. \A r \in Requests : r[1] \in Workers
  BY DEF Requests
<1>5. Written'
  <2> SUFFICES ASSUME ~stale_write', NEW r \in Requests, pc'[r] \in {"unlock", "ok"}
               PROVE  Registered(app_info'.pairs, r[1])
    BY DEF Written
  <2>1. CASE RegisterSet(r)
    BY <2>1, SetEffect
  <2>2. CASE pc[r] \in {"unlock", "ok"}
    BY <1>1, <1>2, <1>4, <2>2 DEF Written, Starting
  <2> QED
    BY <1>3, <2>1, <2>2
<1>6. KeptUnlessStaleWrite'
  <2> SUFFICES ASSUME ~stale_write', NEW w \in Workers, acked'[w] # NoIp
               PROVE  Registered(app_info'.pairs, w)
    BY DEF KeptUnlessStaleWrite, AcknowledgedKept
  <2>1. CASE acked[w] # NoIp
    BY <1>1, <1>2, <2>1 DEF KeptUnlessStaleWrite, AcknowledgedKept, Starting
  <2>2. CASE \E r \in Requests : r[1] = w /\ pc[r] = "ok" /\ app_info' = app_info
    BY <1>1, <1>2, <2>2 DEF Written
  <2> QED
    BY <1>3, <2>1, <2>2
<1> QED
  BY <1>5, <1>6, TypeStep, InfoStep, CallStep, AnnouncedStep DEF IInv

-----------------------------------------------------------------------------
\* The invariant holds in every reachable state.
THEOREM Invariance == Spec => []IInv
<1>1. Init => IInv
  <2>1. Init => TypeOK
    <3>1. NoInfo \in AppInfo
      BY DEF NoInfo, AppInfo
    <3>2. 0 \in Ips
      BY DEF Ips
    <3>3. <<>> \in Seq(Pair)
      OBVIOUS
    <3>4. Init => /\ pc \in [Requests -> {"idle", "mset", "lock", "lockset", "get", "set",
                                          "unlock", "unlockfail", "ok", "failed"}]
                  /\ snapshot \in [Requests -> AppInfo]
      BY <3>1 DEF Init
    <3>5. Init => /\ index \in [Requests -> 0..LockTimes]
                  /\ polls \in [Requests -> 0..LockTtl]
      BY DEF Init
    <3>6. Init => /\ ip \in [Workers -> Ips]
                  /\ acked \in [Workers -> Ips \cup {NoIp}]
                  /\ uuid_ip \in [Workers -> Ips \cup {NoIp}]
      BY <3>2 DEF Init
    <3>7. Init => /\ app_info \in AppInfo /\ checked \in AppInfo /\ announced \in Seq(Pair)
                  /\ faults \in 0..MaxFaults
      BY <3>1, <3>3 DEF Init
    <3>8. Init => /\ job \in {"none", "running", "finished", "failed"}
                  /\ starter \in {"submit", "k8s", "watch", "poll", "send", "ok", "error"}
                  /\ checker \in {"sleep", "k8s", "set", "syn", "delete", "dead"}
                  /\ lock \in BOOLEAN /\ watched \in BOOLEAN /\ stale_write \in BOOLEAN
      BY DEF Init
    <3> QED
      BY <3>4, <3>5, <3>6, <3>7, <3>8 DEF TypeOK
  <2>2. Init => Copies /\ Starting /\ Written /\ KeptUnlessStaleWrite /\ CompleteMeansAll
    BY DEF Init, Copies, Starting, Written, KeptUnlessStaleWrite, AcknowledgedKept,
       CompleteMeansAll, NoDuplicates, NoInfo
  <2> QED
    BY <2>1, <2>2 DEF IInv
<1>2. IInv /\ [Next]_vars => IInv'
  BY InvStep
<1> QED
  BY <1>1, <1>2, PTL DEF Spec

\* StartApplication announces each worker exactly once, although it only counts
\* the pairs (CheckRegisterNum).
THEOREM AnnouncesAll == Spec => []CompleteMeansAll
<1>1. IInv => CompleteMeansAll
  BY DEF IInv
<1> QED
  BY <1>1, Invariance, PTL

\* A registration that was acknowledged is only lost if an outdated copy of the
\* AppInfo is written over it.
THEOREM OnlyStaleWritesLose == Spec => []KeptUnlessStaleWrite
<1>1. IInv => KeptUnlessStaleWrite
  BY DEF IInv
<1> QED
  BY <1>1, Invariance, PTL
=============================================================================
