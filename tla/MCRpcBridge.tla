---------------------------- MODULE MCRpcBridge ----------------------------
(* RpcBridge on a small instance: three data messages that share a mailbox  *)
(* (so that the second can be rejected while the first is unconsumed), then *)
(* the TrainStart of the next step.                                         *)
EXTENDS RpcBridge

MCKeyOf == [m \in 0..MaxSeq |-> IF m = 3 THEN "start" ELSE "data"]
=============================================================================
