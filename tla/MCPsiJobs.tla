----------------------------- MODULE MCPsiJobs -----------------------------
(* PsiJobs on pairs of command lines chosen so that every way a job can go  *)
(* happens: files and directories, one, two and no workers, empty blocks    *)
(* and inputs, inputs that cannot be listed or read, different numbers of   *)
(* blocks, ids read with different types.                                   *)
EXTENDS PsiJobs

MCIds == {1, 2, 3, 4}
MCNumeric == {1, 2, 3}
MCHashOf == [x \in {"str", "int"} \X MCIds |->
               IF x[1] = "int" THEN x[2] ELSE 10 + x[2]]

File(rows) == [protocol |-> "nfs", file |-> TRUE, data |-> <<rows>>,
               listable |-> TRUE, unread |-> {}, parquet |-> FALSE,
               kind |-> "int", cpus |-> 2, parallels |-> 0, buckets |-> 2,
               direct |-> FALSE, mode |-> "psi"]
Dir(files) == [File(<< >>) EXCEPT !.file = FALSE, !.data = files]
Pair(l, f) == [p \in Party |-> IF p = "leader" THEN l ELSE f]
One(c) == [c EXCEPT !.parallels = 1]
Three(c) == [c EXCEPT !.buckets = 3]

MCScenarios == {
  Pair(Three(File(<<1, 2, 2>>)), One(Three(File(<<3, 2>>)))),
  Pair(One(Dir(<<<<1>>, <<2, 3>>, <<4>>>>)),
       One(Dir(<<<<1>>, <<3>>, <<4, 4>>>>))),
  Pair([File(<<1, 3>>) EXCEPT !.parquet = TRUE], One(File(<<1, 2>>))),
  Pair(One(File(<<1, 4>>)), One(File(<<1, 2>>))),
  Pair(One(Three(File(<<1, 2>>))), One(File(<<1, 2, 3>>))),
  Pair(Dir(<<<<1>>, << >>>>), One(Dir(<<<<1>>, <<2>>>>))),
  Pair([Dir(<<<<1>>>>) EXCEPT !.mode = "pir"], Dir(<<<<1>>>>)),
  Pair(Dir(<< >>), File(<<1>>)),
  Pair([Dir(<<<<1>>, <<2>>>>) EXCEPT !.unread = {2}],
       [Dir(<<<<1>>>>) EXCEPT !.listable = FALSE]),
  Pair([File(<<1>>) EXCEPT !.buckets = -1], Dir(<<<<1>>>>)),
  Pair([File(<<1>>) EXCEPT !.protocol = "http"],
       [Dir(<<<<1>>>>) EXCEPT !.parallels = -1]),
  Pair([Dir(<<<<1>>, <<2>>>>) EXCEPT !.direct = TRUE],
       [One(Dir(<<<<1>>, <<2>>>>)) EXCEPT !.direct = TRUE])}

\* Two files, --buckets 0 and different numbers of CPUs.
MCUnequal == {Pair([File(<<1, 2, 3>>) EXCEPT !.buckets = 0],
                   [File(<<1, 2, 3>>) EXCEPT !.buckets = 0, !.cpus = 3])}
=============================================================================
