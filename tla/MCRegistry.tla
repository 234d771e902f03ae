---------------------------- MODULE MCRegistry -----------------------------
(* Registry with two workers.                                              *)
EXTENDS Registry, TLC

Symmetry == Permutations(Workers)

\* Nothing but the calls of StartApplication and of the workers: the job runs,
\* the lock does not expire, no command fails and the CheckAppStatus thread,
\* which writes without the lock, sleeps.
LockNext == StartApplication \/ \E r \in Requests : RegisterUUID(r)

LockSpec == Init /\ [][LockNext]_vars
=============================================================================
