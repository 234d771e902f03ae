--------------------------- MODULE ReplicatedLog ---------------------------
(***************************************************************************)
(* What data-block synchronisation promises: the follower appends data     *)
(* blocks to a log, the leader copies them one by one, in order.  Neither  *)
(* log ever loses, repeats, reorders or changes a block, and the leader's  *)
(* is always a prefix of the follower's.                                   *)
(***************************************************************************)
EXTENDS Naturals, Sequences

CONSTANTS Contents    \* what a data block may hold

VARIABLES
  log,    \* the follower's blocks
  copy    \* the leader's

vars == <<log, copy>>

Init == log = <<>> /\ copy = <<>>

Produce ==
  /\ \E c \in Contents : log' = Append(log, c)
  /\ UNCHANGED copy

Replicate ==
  /\ Len(copy) < Len(log)
  /\ copy' = Append(copy, log[Len(copy) + 1])
  /\ UNCHANGED log

Next == Produce \/ Replicate

Spec == Init /\ [][Next]_vars
=============================================================================
