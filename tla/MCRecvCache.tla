---------------------------- MODULE MCRecvCache ----------------------------
(* RecvCache on a small instance: a TrainStart, then the tensors of two     *)
(* operators, one of which sends twice as often, as in a training step.     *)
EXTENDS RecvCache

MCKeyOf == [m \in 0..MaxSeq |-> CASE m % 4 = 0 -> "start"
                                  [] m % 4 = 2 -> "grad"
                                  [] OTHER -> "data"]
=============================================================================
