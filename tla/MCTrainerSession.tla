-------------------------- MODULE MCTrainerSession --------------------------
(***************************************************************************)
(* TrainerSession for TLC: clusters with one task of every job and with    *)
(* workers only, so that both, one or none of the two trainers are chief;  *)
(* a trainer without parameter servers; and a cluster that is refused.     *)
(***************************************************************************)
EXTENDS TrainerSession

Cluster(m, c, w, p) == [master |-> m, chief |-> c, worker |-> w, ps |-> p]

MCClusters ==
  {Cluster(1, 1, 1, 1), Cluster(0, 0, 3, 1), Cluster(0, 0, 1, 0), Cluster(0, 0, 2, 0)}
=============================================================================
