-------------------------- MODULE BlockMetaProofs --------------------------
(***************************************************************************)
(* Proofs about BlockMeta for any partitions, contents, numbers of blocks, *)
(* requests and faults: a row of the table is a complete block and leads   *)
(* to its own data file.                                                   *)
(***************************************************************************)
EXTENDS BlockMeta, SequenceTheorems, FiniteSetTheorems, TLAPS

USE BlockMetaAssumption DEF Requests, Maker, NoBlock

-----------------------------------------------------------------------------
(* The next meta file                                                      *)

\* The meta files of a partition are numbered from zero.
LEMMA MetasType ==
  ASSUME TypeOK, NEW p \in Partitions
  PROVE  /\ metas[p] \in Seq(Contents)
         /\ Len(metas[p]) \in Nat
         /\ \A i \in 0..(Len(metas[p]) - 1) : metas[p][i + 1] \in Contents
<1>1. metas[p] \in Seq(Contents) /\ Len(metas[p]) \in Nat
  BY DEF TypeOK
<1>2. \A i \in 1..Len(metas[p]) : metas[p][i] \in Contents
  BY <1>1, ElementOfSeq
<1>3. \A i \in 0..(Len(metas[p]) - 1) : i + 1 \in 1..Len(metas[p])
  BY <1>1
<1> QED
  BY <1>1, <1>2, <1>3

\* What a maker has at hand.
LEMMA MakerType ==
  ASSUME TypeOK, NEW p \in Partitions, maker[p].pc # "none"
  PROVE  /\ maker[p].pc \in {"renamed", "announce"}
         /\ maker[p] \in [pc : {"renamed", "announce"}, block : Block]
         /\ maker[p].block \in Block
         /\ maker[p].block.index \in Nat
         /\ maker[p].block.content \in Contents
<1>1. maker[p] \in {[pc |-> "none"]} \cup [pc : {"renamed", "announce"}, block : Block]
  BY DEF TypeOK
<1>2. maker[p] \in [pc : {"renamed", "announce"}, block : Block]
  BY <1>1
<1>3. maker[p].block \in Block
  BY <1>2
<1> QED
  BY <1>2, <1>3 DEF Block

\* What a process that walks the directory has at hand.
LEMMA ParserType ==
  ASSUME TypeOK, NEW r \in Requests
  PROVE  /\ parser[r].pc \in {"none", "dead", "scan", "metas", "spawn"}
         /\ parser[r].pc \in {"scan", "metas", "spawn"} => parser[r].todo \subseteq Partitions
         /\ parser[r].pc \in {"metas", "spawn"} => /\ parser[r].part \in Partitions
                                                   /\ parser[r].count \in Nat
         /\ parser[r].pc = "spawn" => /\ parser[r].files \subseteq Block
                                      /\ parser[r].next \in Nat
<1>1. parser[r] \in [pc : {"none", "dead"}]
                     \cup [pc : {"scan"}, todo : SUBSET Partitions]
                     \cup [pc : {"metas"}, todo : SUBSET Partitions, part : Partitions,
                           count : Nat, files : {{}}]
                     \cup [pc : {"spawn"}, todo : SUBSET Partitions, part : Partitions,
                           count : Nat, files : SUBSET Block, next : Nat]
  BY DEF TypeOK
<1> QED
  BY <1>1

\* A meta file that gets its name changes no older one.
LEMMA MetasGrow ==
  ASSUME IInv, NEW p \in Partitions, DumpMeta(p)
  PROVE  /\ metas' \in [Partitions -> Seq(Contents)]
         /\ Len(metas'[p]) = Len(metas[p]) + 1
         /\ metas'[p][Len(metas[p]) + 1] = maker[p].block.content
         /\ \A q \in Partitions :
              /\ Len(metas'[q]) \in Nat
              /\ Len(metas[q]) <= Len(metas'[q])
              /\ \A i \in 0..(Len(metas[q]) - 1) : metas'[q][i + 1] = metas[q][i + 1]
              /\ q # p => metas'[q] = metas[q]
<1> DEFINE c == maker[p].block.content
<1>1. maker[p].pc = "renamed" /\ metas' = [metas EXCEPT ![p] = Append(@, c)]
  BY DEF DumpMeta
<1>2. c \in Contents
  BY <1>1, MakerType DEF IInv
<1>3. metas \in [Partitions -> Seq(Contents)] /\ metas[p] \in Seq(Contents)
  BY DEF IInv, TypeOK
<1> HIDE DEF c
<1>4. /\ Append(metas[p], c) \in Seq(Contents)
      /\ Len(Append(metas[p], c)) = Len(metas[p]) + 1
      /\ \A i \in 1..Len(metas[p]) : Append(metas[p], c)[i] = metas[p][i]
      /\ Append(metas[p], c)[Len(metas[p]) + 1] = c
  BY <1>2, <1>3, AppendProperties
<1>5. metas' \in [Partitions -> Seq(Contents)] /\ metas'[p] = Append(metas[p], c)
  BY <1>1, <1>3, <1>4
<1>6. \A q \in Partitions : q # p => metas'[q] = metas[q]
  BY <1>1, <1>3
<1>7. \A q \in Partitions : Len(metas[q]) \in Nat
  BY MetasType DEF IInv
<1>8. \A i \in 0..(Len(metas[p]) - 1) : metas'[p][i + 1] = metas[p][i + 1]
  <2>1. \A i \in 0..(Len(metas[p]) - 1) : i + 1 \in 1..Len(metas[p])
    BY <1>7
  <2> QED
    BY <1>4, <1>5, <2>1
<1>9. ASSUME NEW q \in Partitions
      PROVE  /\ Len(metas'[q]) \in Nat
             /\ Len(metas[q]) <= Len(metas'[q])
             /\ \A i \in 0..(Len(metas[q]) - 1) : metas'[q][i + 1] = metas[q][i + 1]
  <2>1. CASE q = p
    <3>1. Len(metas'[p]) = Len(metas[p]) + 1
      BY <1>4, <1>5
    <3> QED
      BY <1>7, <1>8, <2>1, <3>1
  <2>2. CASE q # p
    BY <1>6, <1>7, <2>2
  <2> QED
    BY <2>1, <2>2
<1> QED
  BY <1>4, <1>5, <1>6, <1>9 DEF c

\* A block that is complete stays what it is.
LEMMA CompleteStays ==
  ASSUME IInv, NEW p \in Partitions, DumpMeta(p),
         NEW q \in Partitions, NEW i \in Nat, i < Len(metas[q])
  PROVE  i < Len(metas'[q]) /\ MetaOf(q, i)' = MetaOf(q, i)
<1>1. Len(metas[q]) \in Nat
  BY MetasType DEF IInv
<1>2. i \in 0..(Len(metas[q]) - 1)
  BY <1>1
<1>3. metas'[q][i + 1] = metas[q][i + 1] /\ Len(metas[q]) <= Len(metas'[q])
         /\ Len(metas'[q]) \in Nat
  BY <1>2, MetasGrow
<1> QED
  BY <1>1, <1>3 DEF MetaOf

\* The step keeps the invariant: the block at hand is the new complete one.
LEMMA DumpMetaKeeps ==
  ASSUME IInv, NEW p \in Partitions, DumpMeta(p)
  PROVE  IInv'
<1>1. TypeOK /\ MetasHaveData /\ AtHand /\ Paired /\ JobIsBlock /\ RowIsBlock
  BY DEF IInv
<1>2. /\ maker[p].pc = "renamed"
      /\ maker' = [maker EXCEPT ![p].pc = "announce"]
      /\ UNCHANGED <<data, parser, jobs, rows>>
  BY DEF DumpMeta
<1>3. /\ maker[p] \in [pc : {"renamed", "announce"}, block : Block]
      /\ maker[p].block \in Block
  BY <1>1, <1>2, MakerType
<1>4. /\ maker'[p] \in [pc : {"renamed", "announce"}, block : Block]
      /\ maker'[p].pc = "announce" /\ maker'[p].block = maker[p].block
      /\ \A q \in Partitions : q # p => maker'[q] = maker[q]
  BY <1>1, <1>2, <1>3 DEF TypeOK
<1>5. maker' \in [Partitions -> {NoBlock} \cup [pc : {"renamed", "announce"}, block : Block]]
  BY <1>1, <1>2, <1>4 DEF TypeOK
<1>6. TypeOK'
  BY <1>1, <1>2, <1>5, MetasGrow DEF TypeOK
<1>7. /\ Len(metas[p]) \in Nat /\ Len(metas'[p]) = Len(metas[p]) + 1
      /\ metas'[p][Len(metas[p]) + 1] = maker[p].block.content
  BY <1>1, MetasType, MetasGrow
<1>8. /\ maker[p].block \in data[p] /\ maker[p].block.part = p
      /\ maker[p].block.index = Len(metas[p])
  BY <1>1, <1>2 DEF AtHand
<1>9. \A i \in Nat : i = Len(metas[p]) => MetaOf(p, i)' = maker[p].block
  <2>1. maker[p].block = [part |-> p, index |-> Len(metas[p]), content |-> maker[p].block.content]
    BY <1>3, <1>8 DEF Block
  <2> QED
    BY <1>7, <2>1 DEF MetaOf
<1>10. MetasHaveData'
  <2>1. SUFFICES ASSUME NEW q \in Partitions, NEW i \in 0..(Len(metas'[q]) - 1)
                 PROVE  MetaOf(q, i)' \in data[q]
    BY <1>2 DEF MetasHaveData
  <2>2. Len(metas[q]) \in Nat
    BY <1>1, MetasType
  <2>3. CASE i < Len(metas[q])
    BY <1>1, <2>2, <2>3, CompleteStays DEF MetasHaveData
  <2>4. CASE ~(i < Len(metas[q]))
    <3>1. q = p /\ i = Len(metas[p])
      BY <1>7, <2>2, <2>4, MetasGrow
    <3> QED
      BY <1>7, <1>8, <1>9, <3>1
  <2> QED
    BY <2>3, <2>4
<1>11. AtHand'
  <2>1. SUFFICES ASSUME NEW q \in Partitions
                 PROVE  /\ maker'[q].pc = "renamed" => /\ maker'[q].block \in data[q]
                                                       /\ maker'[q].block.part = q
                                                       /\ maker'[q].block.index = Len(metas'[q])
                        /\ maker'[q].pc = "announce" =>
                             /\ maker'[q].block.index < Len(metas'[q])
                             /\ maker'[q].block = MetaOf(q, maker[q].block.index)'
    BY <1>2 DEF AtHand
  <2>2. CASE q = p
    <3>1. maker'[q].block = maker[p].block /\ maker'[q].pc = "announce"
      BY <1>4, <2>2
    <3>2. maker'[q].block.index < Len(metas'[q])
      BY <1>7, <1>8, <2>2, <3>1
    <3>3. MetaOf(q, maker[q].block.index)' = maker[p].block
      <4>1. PICK i \in Nat : i = maker'[q].block.index /\ i = Len(metas[p])
        BY <1>7, <1>8, <3>1
      <4>2. MetaOf(q, i)' = maker[p].block
        BY <1>9, <2>2, <4>1
      <4> QED
        BY <4>1, <4>2 DEF MetaOf
    <3> QED
      BY <3>1, <3>2, <3>3
  <2>3. CASE q # p
    <3>1. maker'[q] = maker[q] /\ metas'[q] = metas[q]
      BY <1>4, <2>3, MetasGrow
    <3> QED
      BY <1>1, <3>1 DEF AtHand, MetaOf
  <2> QED
    BY <2>2, <2>3
<1>12. Paired'
  <2>1. SUFFICES ASSUME NEW r \in Requests
                 PROVE  /\ parser[r].pc \in {"metas", "spawn"} =>
                             parser[r].count <= Len(metas'[parser[r].part])
                        /\ parser[r].pc = "spawn" =>
                             \A file \in parser[r].files :
                               /\ file.index < parser[r].count
                               /\ file = MetaOf(parser[r].part, file.index)'
    BY <1>2 DEF Paired, MetaOf
  <2>2. ASSUME parser[r].pc \in {"metas", "spawn"}
        PROVE  /\ parser[r].part \in Partitions
               /\ parser[r].count \in Nat
               /\ parser[r].count <= Len(metas[parser[r].part])
    BY <1>1, <2>2, ParserType DEF Paired
  <2>3. ASSUME parser[r].pc \in {"metas", "spawn"}
        PROVE  parser[r].count <= Len(metas'[parser[r].part])
    BY <1>1, <2>2, <2>3, MetasGrow, MetasType
  <2>4. ASSUME parser[r].pc = "spawn", NEW file \in parser[r].files
        PROVE  /\ file.index < parser[r].count
               /\ file = MetaOf(parser[r].part, file.index)'
    <3>1. /\ file.index < parser[r].count
          /\ file = MetaOf(parser[r].part, file.index)
      BY <1>1, <2>4 DEF Paired
    <3>2. file.index \in Nat
      BY <1>1, <2>4, ParserType DEF Block
    <3>3. /\ parser[r].part \in Partitions
          /\ parser[r].count \in Nat
          /\ parser[r].count <= Len(metas[parser[r].part])
      BY <2>2, <2>4
    <3>4. file.index < Len(metas[parser[r].part])
      BY <1>1, <3>1, <3>2, <3>3, MetasType
    <3> QED
      BY <1>2, <3>1, <3>2, <3>3, <3>4, CompleteStays
  <2> QED
    BY <2>3, <2>4
<1>13. JobIsBlock'
  <2>1. SUFFICES ASSUME NEW job \in jobs
                 PROVE  /\ job.index < Len(metas'[job.part])
                        /\ job.file = MetaOf(job.part, job.index)'
    BY <1>2 DEF JobIsBlock, MetaOf
  <2>2. job.part \in Partitions /\ job.index \in Nat
    BY <1>1 DEF TypeOK
  <2>3. job.index < Len(metas[job.part]) /\ job.file = MetaOf(job.part, job.index)
    BY <1>1 DEF JobIsBlock
  <2> QED
    BY <2>2, <2>3, CompleteStays
<1>14. RowIsBlock'
  <2>1. SUFFICES ASSUME NEW b \in DOMAIN rows
                 PROVE  /\ b.index < Len(metas'[b.part])
                        /\ b = MetaOf(b.part, b.index)'
                        /\ rows[b] = b
    BY <1>2 DEF RowIsBlock, MetaOf
  <2>2. b.part \in Partitions /\ b.index \in Nat
    BY <1>1 DEF TypeOK, Block
  <2>3. b.index < Len(metas[b.part]) /\ b = MetaOf(b.part, b.index) /\ rows[b] = b
    BY <1>1 DEF RowIsBlock
  <2> QED
    BY <2>2, <2>3, CompleteStays
<1> QED
  BY <1>6, <1>10, <1>11, <1>12, <1>13, <1>14 DEF IInv

-----------------------------------------------------------------------------
(* The other steps of a maker                                              *)

\* The data file of the next block gets its name; what a crash left behind under
\* this index stays beside it.
LEMMA DumpDataKeeps ==
  ASSUME IInv, NEW p \in Partitions, DumpData(p)
  PROVE  IInv'
<1>1. TypeOK /\ MetasHaveData /\ AtHand /\ Paired /\ JobIsBlock /\ RowIsBlock
  BY DEF IInv
<1>2. PICK c \in Contents :
        LET b == [part |-> p, index |-> Len(metas[p]), content |-> c] IN
        /\ data' = [data EXCEPT ![p] = @ \cup {b}]
        /\ maker' = [maker EXCEPT ![p] = Making("renamed", b)]
  BY DEF DumpData
<1> DEFINE b == [part |-> p, index |-> Len(metas[p]), content |-> c]
<1>3. UNCHANGED <<metas, parser, jobs, rows>>
  BY DEF DumpData
<1>4. b \in Block /\ b.part = p /\ b.index = Len(metas[p])
  BY <1>1, MetasType DEF Block
<1>5. /\ data' = [data EXCEPT ![p] = @ \cup {b}]
      /\ maker' = [maker EXCEPT ![p] = Making("renamed", b)]
  BY <1>2
<1> HIDE DEF b
<1>6. /\ data' \in [Partitions -> SUBSET Block]
      /\ \A q \in Partitions : data[q] \subseteq data'[q]
      /\ data'[p] = data[p] \cup {b}
      /\ \A q \in Partitions : q # p => data'[q] = data[q]
  BY <1>1, <1>4, <1>5 DEF TypeOK
<1>7. \A q \in Partitions : IsFiniteSet(data'[q])
  <2>1. \A q \in Partitions : IsFiniteSet(data[q])
    BY <1>1 DEF TypeOK
  <2>2. IsFiniteSet(data[p] \cup {b})
    BY <2>1, FS_AddElement
  <2> QED
    BY <1>6, <2>1, <2>2
<1>8. /\ maker'[p] = [pc |-> "renamed", block |-> b]
      /\ \A q \in Partitions : q # p => maker'[q] = maker[q]
  BY <1>1, <1>5 DEF TypeOK, Making
<1>9. maker' \in [Partitions -> {NoBlock} \cup [pc : {"renamed", "announce"}, block : Block]]
  BY <1>1, <1>4, <1>5 DEF TypeOK, Making
<1>10. TypeOK'
  BY <1>1, <1>3, <1>6, <1>7, <1>9 DEF TypeOK
<1>11. MetasHaveData'
  BY <1>1, <1>3, <1>6 DEF MetasHaveData, MetaOf
<1>12. AtHand'
  <2>1. SUFFICES ASSUME NEW q \in Partitions
                 PROVE  /\ maker'[q].pc = "renamed" => /\ maker'[q].block \in data'[q]
                                                       /\ maker'[q].block.part = q
                                                       /\ maker'[q].block.index = Len(metas[q])
                        /\ maker'[q].pc = "announce" =>
                             /\ maker'[q].block.index < Len(metas[q])
                             /\ maker'[q].block = MetaOf(q, maker[q].block.index)'
    BY <1>3 DEF AtHand
  <2>2. CASE q = p
    BY <1>4, <1>6, <1>8, <2>2
  <2>3. CASE q # p
    <3>1. maker'[q] = maker[q] /\ data'[q] = data[q]
      BY <1>6, <1>8, <2>3
    <3> QED
      BY <1>1, <1>3, <3>1 DEF AtHand, MetaOf
  <2> QED
    BY <2>2, <2>3
<1>13. Paired' /\ JobIsBlock' /\ RowIsBlock'
  BY <1>1, <1>3 DEF Paired, JobIsBlock, RowIsBlock, MetaOf
<1> QED
  BY <1>10, <1>11, <1>12, <1>13 DEF IInv

\* The block is announced, or its maker fails.
LEMMA AnnounceKeeps ==
  ASSUME IInv, NEW p \in Partitions, Announce(p) \/ MakerFails(p)
  PROVE  IInv'
<1>1. TypeOK /\ MetasHaveData /\ AtHand /\ Paired /\ JobIsBlock /\ RowIsBlock
  BY DEF IInv
<1>2. maker' = [maker EXCEPT ![p] = NoBlock] /\ UNCHANGED <<metas, data, parser, rows>>
  BY DEF Announce, MakerFails, files
<1>3. /\ maker' \in [Partitions -> {NoBlock} \cup [pc : {"renamed", "announce"}, block : Block]]
      /\ maker'[p].pc = "none"
      /\ \A q \in Partitions : q # p => maker'[q] = maker[q]
  BY <1>1, <1>2 DEF TypeOK
<1>4. jobs' = jobs \/ (maker[p].pc = "announce" /\
        jobs' = jobs \cup {Converter(0, p, maker[p].block.index, maker[p].block)})
  BY DEF Announce, MakerFails
<1>5. /\ jobs' \subseteq [who : {0} \cup 1..MaxRequests, part : Partitions, index : Nat,
                          file : Block, pc : {"convert", "insert", "update"}]
      /\ JobIsBlock'
  <2>1. CASE jobs' = jobs
    BY <1>1, <1>2, <2>1 DEF TypeOK, JobIsBlock, MetaOf
  <2>2. CASE maker[p].pc = "announce" /\
               jobs' = jobs \cup {Converter(0, p, maker[p].block.index, maker[p].block)}
    <3> DEFINE j == Converter(0, p, maker[p].block.index, maker[p].block)
    <3>1. maker[p].block \in Block /\ maker[p].block.index \in Nat
      BY <1>1, <2>2, MakerType
    <3>2. /\ j \in [who : {0} \cup 1..MaxRequests, part : Partitions, index : Nat,
                    file : Block, pc : {"convert", "insert", "update"}]
          /\ j.part = p /\ j.index = maker[p].block.index /\ j.file = maker[p].block
      BY <3>1 DEF Converter
    <3>3. maker[p].block.index < Len(metas[p]) /\ maker[p].block = MetaOf(p, maker[p].block.index)
      BY <1>1, <2>2 DEF AtHand
    <3> HIDE DEF j
    <3>4. jobs' = jobs \cup {j}
      BY <2>2 DEF j
    <3>5. JobIsBlock'
      BY <1>1, <1>2, <3>2, <3>3, <3>4 DEF JobIsBlock, MetaOf
    <3> QED
      BY <1>1, <3>2, <3>4, <3>5 DEF TypeOK
  <2> QED
    BY <1>4, <2>1, <2>2
<1>6. TypeOK'
  BY <1>1, <1>2, <1>3, <1>5 DEF TypeOK
<1>7. AtHand'
  BY <1>1, <1>2, <1>3 DEF AtHand, MetaOf
<1>8. MetasHaveData' /\ Paired' /\ RowIsBlock'
  BY <1>1, <1>2 DEF MetasHaveData, Paired, RowIsBlock, MetaOf
<1> QED
  BY <1>5, <1>6, <1>7, <1>8 DEF IInv

-----------------------------------------------------------------------------
(* The steps of the process that walks the directory                       *)

\* What remains to be shown of a step that only changes parser r and starts
\* converters.
LEMMA ParserKeeps ==
  ASSUME IInv, NEW r \in Requests, NEW q,
         parser' = [parser EXCEPT ![r] = q],
         UNCHANGED <<metas, data, maker, rows>>,
         q \in [pc : {"none", "dead"}]
               \cup [pc : {"scan"}, todo : SUBSET Partitions]
               \cup [pc : {"metas"}, todo : SUBSET Partitions, part : Partitions,
                     count : Nat, files : {{}}]
               \cup [pc : {"spawn"}, todo : SUBSET Partitions, part : Partitions,
                     count : Nat, files : SUBSET Block, next : Nat],
         q.pc \in {"metas", "spawn"} => q.count <= Len(metas[q.part]),
         q.pc = "spawn" => \A file \in q.files : /\ file.index < q.count
                                                 /\ file = MetaOf(q.part, file.index),
         jobs' \subseteq [who : {Maker} \cup Requests, part : Partitions, index : Nat,
                          file : Block, pc : {"convert", "insert", "update"}],
         \A job \in jobs' : /\ job.index < Len(metas[job.part])
                            /\ job.file = MetaOf(job.part, job.index)
  PROVE  IInv'
<1>1. TypeOK /\ MetasHaveData /\ AtHand /\ Paired /\ JobIsBlock /\ RowIsBlock
  BY DEF IInv
<1>2. parser'[r] = q /\ \A s \in Requests : s # r => parser'[s] = parser[s]
  BY <1>1 DEF TypeOK
<1>3. TypeOK'
  <2>1. parser' \in [Requests ->
          [pc : {"none", "dead"}]
            \cup [pc : {"scan"}, todo : SUBSET Partitions]
            \cup [pc : {"metas"}, todo : SUBSET Partitions, part : Partitions,
                  count : Nat, files : {{}}]
            \cup [pc : {"spawn"}, todo : SUBSET Partitions, part : Partitions,
                  count : Nat, files : SUBSET Block, next : Nat]]
    BY <1>1 DEF TypeOK
  <2> QED
    BY <1>1, <2>1 DEF TypeOK
<1>4. Paired'
  <2>1. SUFFICES ASSUME NEW s \in Requests
                 PROVE  /\ parser'[s].pc \in {"metas", "spawn"} =>
                             parser'[s].count <= Len(metas[parser'[s].part])
                        /\ parser'[s].pc = "spawn" =>
                             \A file \in parser'[s].files :
                               /\ file.index < parser'[s].count
                               /\ file = MetaOf(parser[s].part, file.index)'
    BY DEF Paired
  <2>2. CASE s = r
    BY <1>2, <2>2 DEF MetaOf
  <2>3. CASE s # r
    BY <1>1, <1>2, <2>3 DEF Paired, MetaOf
  <2> QED
    BY <2>2, <2>3
<1>5. JobIsBlock'
  BY DEF JobIsBlock, MetaOf
<1>6. MetasHaveData' /\ AtHand' /\ RowIsBlock'
  BY <1>1 DEF MetasHaveData, AtHand, RowIsBlock, MetaOf
<1> QED
  BY <1>3, <1>4, <1>5, <1>6 DEF IInv

\* When there are as many data files as meta files were counted before, every
\* data file is that of a meta file: each meta file has one of its own, so
\* nothing is left for a crash.
LEMMA ListedPair ==
  ASSUME IInv, NEW p \in Partitions, NEW n \in Nat, n <= Len(metas[p]),
         Cardinality(data[p]) = n
  PROVE  \A file \in data[p] : file.index < n /\ file = MetaOf(p, file.index)
<1> DEFINE f == [i \in 0..(n - 1) |-> MetaOf(p, i)]
<1>1. Len(metas[p]) \in Nat /\ IsFiniteSet(data[p])
  BY MetasType DEF IInv, TypeOK
<1>2. \A i \in 0..(n - 1) : MetaOf(p, i) \in data[p] /\ MetaOf(p, i).index = i
  <2>1. \A i \in 0..(n - 1) : i \in 0..(Len(metas[p]) - 1)
    BY <1>1
  <2> QED
    BY <2>1 DEF IInv, MetasHaveData, MetaOf
<1>3. f \in Injection(0..(n - 1), data[p])
  BY <1>2 DEF Injection, IsInjective
<1>4. Cardinality(0..(n - 1)) = n
  BY FS_Interval
<1>5. f \in Surjection(0..(n - 1), data[p])
  BY <1>1, <1>3, <1>4, FS_Injection
<1>6. \A file \in data[p] : \E i \in 0..(n - 1) : f[i] = file
  BY <1>5 DEF Surjection
<1>7. \A file \in data[p] : \E i \in 0..(n - 1) : MetaOf(p, i) = file
  BY <1>6
<1> QED
  BY <1>2, <1>7

\* The steps of a parser, one by one.
LEMMA WalkKeeps ==
  ASSUME IInv, NEW r \in Requests, PostDirectory(r) \/ Parser(r) \/ ParserFails(r)
  PROVE  IInv'
<1>1. TypeOK /\ Paired /\ JobIsBlock
  BY DEF IInv
<1>2. /\ jobs \subseteq [who : {Maker} \cup Requests, part : Partitions, index : Nat,
                         file : Block, pc : {"convert", "insert", "update"}]
      /\ \A job \in jobs : /\ job.index < Len(metas[job.part])
                           /\ job.file = MetaOf(job.part, job.index)
  BY <1>1 DEF TypeOK, JobIsBlock
<1>3. UNCHANGED <<metas, data, maker, rows>>
  BY DEF PostDirectory, Parser, ListMetas, ListData, SpawnNext, ParserFails, files
<1>4. CASE PostDirectory(r)
  <2> DEFINE q == [pc |-> "scan", todo |-> Partitions]
  <2>1. parser' = [parser EXCEPT ![r] = q] /\ jobs' = jobs
    BY <1>4 DEF PostDirectory
  <2>2. q \in [pc : {"scan"}, todo : SUBSET Partitions] /\ q.pc = "scan"
    OBVIOUS
  <2> HIDE DEF q
  <2> QED
    BY <1>2, <1>3, <2>1, <2>2, ParserKeeps
<1>5. CASE ListMetas(r)
  <2>1. parser[r].pc = "scan" /\ parser[r].todo \subseteq Partitions /\ jobs' = jobs
    BY <1>1, <1>5, ParserType DEF ListMetas
  <2>2. PICK p \in parser[r].todo :
          parser' = [parser EXCEPT ![r] =
            [pc |-> "metas", todo |-> @.todo \ {p}, part |-> p,
             count |-> Len(metas[p]), files |-> {}]]
    BY <1>5 DEF ListMetas
  <2> DEFINE q == [pc |-> "metas", todo |-> parser[r].todo \ {p}, part |-> p,
                   count |-> Len(metas[p]), files |-> {}]
  <2>3. parser' = [parser EXCEPT ![r] = q]
    BY <2>2
  <2>4. p \in Partitions /\ Len(metas[p]) \in Nat
    BY <1>1, <2>1, MetasType
  <2>5. /\ q \in [pc : {"metas"}, todo : SUBSET Partitions, part : Partitions,
                  count : Nat, files : {{}}]
        /\ q.pc = "metas" /\ q.part = p /\ q.count = Len(metas[p])
    BY <2>1, <2>4
  <2> HIDE DEF q
  <2>6. q.count <= Len(metas[q.part])
    BY <2>4, <2>5
  <2> QED
    BY <1>2, <1>3, <2>1, <2>3, <2>5, <2>6, ParserKeeps
<1>6. CASE ListData(r)
  <2> DEFINE o == parser[r]
  <2>1. /\ o.pc = "metas" /\ o.todo \subseteq Partitions /\ o.part \in Partitions
        /\ o.count \in Nat /\ o.count <= Len(metas[o.part]) /\ jobs' = jobs
    BY <1>1, <1>6, ParserType DEF ListData, Paired
  <2> DEFINE u == [pc |-> "spawn", todo |-> o.todo, part |-> o.part,
                   count |-> o.count, files |-> data[o.part], next |-> 0]
             v == [pc |-> "dead"]
  <2>2. \/ Cardinality(data[o.part]) = o.count /\ parser' = [parser EXCEPT ![r] = u]
        \/ parser' = [parser EXCEPT ![r] = v]
    BY <1>6 DEF ListData
  <2>3. v \in [pc : {"none", "dead"}] /\ v.pc = "dead"
    OBVIOUS
  <2>4. /\ u \in [pc : {"spawn"}, todo : SUBSET Partitions, part : Partitions,
                  count : Nat, files : SUBSET Block, next : Nat]
        /\ u.pc = "spawn" /\ u.part = o.part /\ u.count = o.count /\ u.files = data[o.part]
    BY <1>1, <2>1 DEF TypeOK
  <2> HIDE DEF o, u, v
  <2>5. CASE parser' = [parser EXCEPT ![r] = v]
    BY <1>2, <1>3, <2>1, <2>3, <2>5, ParserKeeps
  <2>6. CASE Cardinality(data[o.part]) = o.count /\ parser' = [parser EXCEPT ![r] = u]
    <3>1. \A file \in data[o.part] : file.index < o.count /\ file = MetaOf(o.part, file.index)
      BY <2>1, <2>6, ListedPair
    <3>2. /\ u.count <= Len(metas[u.part])
          /\ \A file \in u.files : file.index < u.count /\ file = MetaOf(u.part, file.index)
      BY <2>1, <2>4, <3>1
    <3> QED
      BY <1>2, <1>3, <2>1, <2>4, <2>6, <3>2, ParserKeeps
  <2> QED
    BY <2>2, <2>5, <2>6
<1>7. CASE SpawnNext(r)
  <2> DEFINE o == parser[r]
  <2>1. /\ o.pc = "spawn" /\ o.todo \subseteq Partitions /\ o.part \in Partitions
        /\ o.count \in Nat /\ o.count <= Len(metas[o.part]) /\ o.next \in Nat
        /\ o.files \subseteq Block
        /\ \A file \in o.files : file.index < o.count /\ file = MetaOf(o.part, file.index)
    BY <1>1, <1>7, ParserType DEF SpawnNext, Paired
  <2>2. CASE o.next = o.count /\ parser' = [parser EXCEPT ![r] = [pc |-> "scan", todo |-> o.todo]]
               /\ jobs' = jobs
    <3> DEFINE q == [pc |-> "scan", todo |-> o.todo]
    <3>1. parser' = [parser EXCEPT ![r] = q]
      BY <2>2
    <3>2. q \in [pc : {"scan"}, todo : SUBSET Partitions] /\ q.pc = "scan"
      BY <2>1
    <3> HIDE DEF q
    <3> QED
      BY <1>2, <1>3, <2>2, <3>1, <3>2, ParserKeeps
  <2>3. CASE /\ o.next < o.count
             /\ \E file \in o.files :
                  /\ file.index = o.next
                  /\ jobs' = jobs \cup {Converter(r, o.part, o.next, file)}
             /\ parser' = [parser EXCEPT ![r].next = @ + 1]
    <3>1. PICK file \in o.files :
            /\ file.index = o.next
            /\ jobs' = jobs \cup {Converter(r, o.part, o.next, file)}
      BY <2>3
    <3> DEFINE j == Converter(r, o.part, o.next, file)
               q == [o EXCEPT !.next = @ + 1]
    <3>2. /\ j \in [who : {Maker} \cup Requests, part : Partitions, index : Nat,
                    file : Block, pc : {"convert", "insert", "update"}]
          /\ j.index = o.next /\ j.part = o.part /\ j.file = file
      BY <2>1, <3>1 DEF Converter
    <3>3. j.index < Len(metas[j.part]) /\ j.file = MetaOf(j.part, j.index)
      <4>1. Len(metas[o.part]) \in Nat
        BY <1>1, <2>1, MetasType
      <4>2. o.next < Len(metas[o.part])
        BY <2>1, <2>3, <4>1
      <4>3. file = MetaOf(o.part, o.next)
        BY <2>1, <3>1
      <4> HIDE DEF j, o
      <4> QED
        BY <3>2, <4>2, <4>3
    <3>4. jobs' = jobs \cup {j}
      BY <3>1
    <3>5. parser' = [parser EXCEPT ![r] = q]
      BY <2>3
    <3>6. o \in [pc : {"spawn"}, todo : SUBSET Partitions, part : Partitions,
                 count : Nat, files : SUBSET Block, next : Nat]
      BY <1>1, <2>1 DEF TypeOK
    <3>7. /\ q \in [pc : {"spawn"}, todo : SUBSET Partitions, part : Partitions,
                    count : Nat, files : SUBSET Block, next : Nat]
          /\ q.pc = "spawn" /\ q.part = o.part /\ q.count = o.count /\ q.files = o.files
      BY <3>6
    <3> HIDE DEF j, q, o
    <3>8. /\ jobs' \subseteq [who : {Maker} \cup Requests, part : Partitions, index : Nat,
                              file : Block, pc : {"convert", "insert", "update"}]
          /\ \A job \in jobs' : /\ job.index < Len(metas[job.part])
                                /\ job.file = MetaOf(job.part, job.index)
      BY <1>2, <3>2, <3>3, <3>4
    <3>9. /\ q.count <= Len(metas[q.part])
          /\ \A f \in q.files : f.index < q.count /\ f = MetaOf(q.part, f.index)
      BY <2>1, <3>7
    <3> QED
      BY <1>3, <3>5, <3>7, <3>8, <3>9, ParserKeeps
  <2> QED
    BY <1>7, <2>2, <2>3 DEF SpawnNext
<1>8. CASE ParserFails(r)
  <2> DEFINE q == [pc |-> "dead"]
  <2>1. parser' = [parser EXCEPT ![r] = q] /\ jobs' = jobs
    BY <1>8 DEF ParserFails
  <2>2. q \in [pc : {"none", "dead"}] /\ q.pc = "dead"
    OBVIOUS
  <2> HIDE DEF q
  <2> QED
    BY <1>2, <1>3, <2>1, <2>2, ParserKeeps
<1> QED
  BY <1>4, <1>5, <1>6, <1>7, <1>8 DEF Parser

-----------------------------------------------------------------------------
(* The steps of a converter                                                *)

\* A converter looks whether there is a row, writes it or fails.
LEMMA JobKeeps ==
  ASSUME IInv, NEW job \in jobs, Select(job) \/ Save(job) \/ JobFails(job)
  PROVE  IInv'
<1>1. TypeOK /\ MetasHaveData /\ AtHand /\ Paired /\ JobIsBlock /\ RowIsBlock
  BY DEF IInv
<1>2. UNCHANGED <<metas, data, maker, parser>>
  BY DEF Select, Save, JobFails, files
<1>3. /\ job \in [who : {Maker} \cup Requests, part : Partitions, index : Nat,
                  file : Block, pc : {"convert", "insert", "update"}]
      /\ job.index < Len(metas[job.part]) /\ job.file = MetaOf(job.part, job.index)
  BY <1>1 DEF TypeOK, JobIsBlock
<1>4. /\ jobs' \subseteq [who : {Maker} \cup Requests, part : Partitions, index : Nat,
                          file : Block, pc : {"convert", "insert", "update"}]
      /\ JobIsBlock'
  <2>1. CASE jobs' = jobs \ {job}
    BY <1>1, <1>2, <2>1 DEF TypeOK, JobIsBlock, MetaOf
  <2>2. CASE \E pc \in {"update", "insert"} : jobs' = (jobs \ {job}) \cup {[job EXCEPT !.pc = pc]}
    <3>1. PICK pc \in {"update", "insert"} : jobs' = (jobs \ {job}) \cup {[job EXCEPT !.pc = pc]}
      BY <2>2
    <3> DEFINE j == [job EXCEPT !.pc = pc]
    <3>2. /\ j \in [who : {Maker} \cup Requests, part : Partitions, index : Nat,
                    file : Block, pc : {"convert", "insert", "update"}]
          /\ j.part = job.part /\ j.index = job.index /\ j.file = job.file
      BY <1>3
    <3>3. jobs' = (jobs \ {job}) \cup {j}
      BY <3>1
    <3> HIDE DEF j
    <3>4. JobIsBlock'
      BY <1>1, <1>2, <1>3, <3>2, <3>3 DEF JobIsBlock, MetaOf
    <3> QED
      BY <1>1, <3>2, <3>3, <3>4 DEF TypeOK
  <2> QED
    BY <2>1, <2>2 DEF Select, Save, JobFails
<1>5. DOMAIN rows' \subseteq Block /\ RowIsBlock'
  <2>1. CASE rows' = rows
    BY <1>1, <1>2, <2>1 DEF TypeOK, RowIsBlock, MetaOf
  <2>2. CASE rows' = SetRow(IdOf(job), job.file)
    <3> DEFINE id == job.file
    <3>1. /\ id \in Block /\ id = MetaOf(job.part, job.index)
          /\ id.part = job.part /\ id.index = job.index
      BY <1>3 DEF MetaOf
    <3>2. rows' = [b \in DOMAIN rows \cup {id} |-> IF b = id THEN id ELSE rows[b]]
      BY <2>2, <3>1 DEF SetRow, IdOf
    <3>3. id.index < Len(metas[id.part]) /\ id = MetaOf(id.part, id.index)
      BY <1>3, <3>1
    <3> HIDE DEF id
    <3>4. /\ DOMAIN rows' = DOMAIN rows \cup {id}
          /\ \A b \in DOMAIN rows' : b = id \/ (b \in DOMAIN rows /\ rows'[b] = rows[b])
          /\ rows'[id] = id
      BY <3>2
    <3>5. RowIsBlock'
      BY <1>1, <1>2, <3>3, <3>4 DEF RowIsBlock, MetaOf
    <3> QED
      BY <1>1, <3>1, <3>4, <3>5 DEF TypeOK
  <2> QED
    BY <2>1, <2>2 DEF Select, Save, JobFails
<1>6. TypeOK'
  BY <1>1, <1>2, <1>4, <1>5 DEF TypeOK
<1>7. MetasHaveData' /\ AtHand' /\ Paired'
  BY <1>1, <1>2 DEF MetasHaveData, AtHand, Paired, MetaOf
<1> QED
  BY <1>4, <1>5, <1>6, <1>7 DEF IInv

-----------------------------------------------------------------------------
(* Theorems                                                                *)

\* The invariant holds initially: there are no files and no rows.
LEMMA Initially ==
  ASSUME Init
  PROVE  IInv
<1>1. /\ metas \in [Partitions -> Seq(Contents)]
      /\ \A p \in Partitions : metas[p] = <<>> /\ Len(metas[p]) = 0
  BY DEF Init
<1>2. /\ data \in [Partitions -> SUBSET Block]
      /\ \A p \in Partitions : IsFiniteSet(data[p])
  BY FS_EmptySet DEF Init
<1>3. /\ maker \in [Partitions -> {NoBlock} \cup [pc : {"renamed", "announce"}, block : Block]]
      /\ \A p \in Partitions : maker[p].pc = "none"
  BY DEF Init
<1>4. /\ parser \in [Requests -> [pc : {"none", "dead"}]]
      /\ \A r \in Requests : parser[r].pc = "none"
  BY DEF Init
<1>5. jobs = {} /\ DOMAIN rows = {}
  BY DEF Init
<1>6. TypeOK
  BY <1>1, <1>2, <1>3, <1>4, <1>5 DEF TypeOK
<1>7. MetasHaveData /\ AtHand /\ Paired
  BY <1>1, <1>3, <1>4 DEF MetasHaveData, AtHand, Paired
<1>8. JobIsBlock /\ RowIsBlock
  BY <1>5 DEF JobIsBlock, RowIsBlock
<1> QED
  BY <1>6, <1>7, <1>8 DEF IInv

\* Every step keeps it.
LEMMA Step ==
  ASSUME IInv, [Next]_vars
  PROVE  IInv'
<1>1. CASE UNCHANGED vars
  <2>1. UNCHANGED <<metas, data, maker, parser, jobs, rows>>
    BY <1>1 DEF vars, files
  <2>2. TypeOK'
    BY <2>1 DEF IInv, TypeOK
  <2>3. MetasHaveData' /\ AtHand' /\ Paired'
    BY <2>1 DEF IInv, MetasHaveData, AtHand, Paired, MetaOf
  <2>4. JobIsBlock' /\ RowIsBlock'
    BY <2>1 DEF IInv, JobIsBlock, RowIsBlock, MetaOf
  <2> QED
    BY <2>2, <2>3, <2>4 DEF IInv
<1>2. CASE \E p \in Partitions : DumpData(p) \/ DumpMeta(p) \/ Announce(p) \/ MakerFails(p)
  BY <1>2, DumpDataKeeps, DumpMetaKeeps, AnnounceKeeps
<1>3. CASE \E r \in Requests : PostDirectory(r) \/ Parser(r) \/ ParserFails(r)
  BY <1>3, WalkKeeps
<1>4. CASE Job \/ \E job \in jobs : JobFails(job)
  BY <1>4, JobKeeps DEF Job
<1> QED
  BY <1>1, <1>2, <1>3, <1>4 DEF Next

\* The invariant holds in every state of every execution: the files a converter
\* is given are those of one complete block, although both listings of a
\* directory are taken while it is written and crashes leave data files behind.
THEOREM Invariance == Spec => []IInv
<1> QED
  BY Initially, Step, PTL DEF Spec

\* A row is a complete block and leads to this block's own data file.
THEOREM RowsAreBlocks == Spec => []RowIsBlock
  BY Invariance, PTL DEF IInv

\* Rows are never removed, and a row that is written again keeps its file: what a
\* trainer has found in the table stays true.
THEOREM RowsStay == Spec => [][\A b \in DOMAIN rows : b \in DOMAIN rows' /\ rows'[b] = rows[b]]_vars
<1> DEFINE Stays == \A b \in DOMAIN rows : b \in DOMAIN rows' /\ rows'[b] = rows[b]
<1>1. ASSUME IInv, IInv', [Next]_vars PROVE Stays
  <2>1. rows' = rows \/ \E job \in jobs : rows' = SetRow(IdOf(job), job.file)
    BY <1>1 DEF Next, vars, DumpData, DumpMeta, Announce, MakerFails, PostDirectory, Parser,
                ListMetas, ListData, SpawnNext, ParserFails, Job, Select, Save, JobFails
  <2>2. DOMAIN rows \subseteq DOMAIN rows'
    BY <2>1 DEF SetRow
  <2> QED
    BY <1>1, <2>2 DEF IInv, RowIsBlock
<1> QED
  BY <1>1, Invariance, PTL DEF Spec
=============================================================================
