---------------------------- MODULE MCBlockMeta ----------------------------
(* BlockMeta on two partitions, one of two blocks and one empty.             *)
EXTENDS BlockMeta

MCPartitions == {"p0", "p1"}
MCMaxBlocks == [p \in MCPartitions |-> IF p = "p0" THEN 2 ELSE 0]
=============================================================================
