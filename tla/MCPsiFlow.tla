----------------------------- MODULE MCPsiFlow -----------------------------
(* PsiFlow on pairs of columns around the size of a batch: empty, one       *)
(* batch, two full ones, duplicates; contexts that agree and that do not.   *)
EXTENDS PsiFlow

MCIds == 1..4
Cols(s, r) == [p \in Side |-> IF p = "sender" THEN s ELSE r]

MCInputs == {Cols(<< >>, <<1>>), Cols(<<1, 2, 2, 3>>, <<3, 4, 2>>),
             Cols(<<4, 2, 1, 2, 3>>, <<2, 3, 1, 4, 2, 2>>)}

Context(rank, suits) ==
  [version |-> 1, toRank |-> rank, truncation |-> FALSE,
   lists |-> [f \in Lists |-> CASE f = "algos" -> <<"ECDH_PSI">>
                                [] f = "families" -> <<"ECC">>
                                [] f = "suits" -> suits
                                [] OTHER -> <<"1">>]]

Ours == <<"CURVE25519">>
MCOffers == {Cols(Context(-1, Ours), Context(-1, Ours)),
             Cols(Context(1, <<"SM2", "CURVE25519">>), Context(1, Ours)),
             Cols(Context(-1, Ours), Context(1, Ours)),
             Cols(Context(-1, <<"SM2">>), Context(-1, Ours))}
=============================================================================
