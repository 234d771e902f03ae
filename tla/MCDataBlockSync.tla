-------------------------- MODULE MCDataBlockSync --------------------------
(* DataBlockSync on a small instance.                                       *)
EXTENDS DataBlockSync
=============================================================================
