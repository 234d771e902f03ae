------------------------ MODULE DataBlockSyncProofs ------------------------
(***************************************************************************)
(* Proofs about DataBlockSync for every set of contents, buffer size,      *)
(* number of blocks and number of faults: the inductive invariant, the     *)
(* safety properties in it, and that the two directories implement the     *)
(* replicated log; and, for every threshold, about the search with which a *)
(* manager finds its last index (DataBlockIndex).                          *)
(***************************************************************************)
EXTENDS DataBlockSync, DataBlockIndex, SequenceTheorems, TLAPS

USE DataBlockSyncAssumption DEF Parties, Indices

-----------------------------------------------------------------------------
(* Facts about the state                                                   *)

\* Setting or resetting a flag of one party.
LEMMA FlagType ==
  ASSUME NEW S, NEW f \in [S -> BOOLEAN], NEW q \in S, NEW v \in BOOLEAN
  PROVE  /\ [f EXCEPT ![q] = v] \in [S -> BOOLEAN]
         /\ [f EXCEPT ![q] = v][q] = v
         /\ \A r \in S \ {q} : [f EXCEPT ![q] = v][r] = f[r]
  OBVIOUS

\* The meta files of a party.
LEMMA MetasType ==
  ASSUME TypeOK, NEW p \in Parties
  PROVE  /\ metas[p] \in Seq(Contents)
         /\ Len(metas[p]) \in 0..MaxBlocks
         /\ \A i \in 1..Len(metas[p]) : metas[p][i] \in Contents
<1>1. metas[p] \in Seq(Contents) /\ Len(metas[p]) <= MaxBlocks
  BY DEF TypeOK
<1>2. Len(metas[p]) \in Nat
  BY <1>1
<1> QED
  BY <1>1, <1>2, ElementOfSeq

\* The leader's buffer: consecutive blocks, the last one just before next_index,
\* all of them blocks of the follower.
LEMMA BufferFacts ==
  ASSUME TypeOK, OnTheWay, Buffered
  PROVE  /\ meta_buffer \in Seq(Block)
         /\ Len(meta_buffer) \in Nat
         /\ next_index \in Nat /\ next_index <= Len(metas["follower"])
         /\ \A i \in 1..Len(meta_buffer) :
              /\ meta_buffer[i] \in Block
              /\ meta_buffer[i].index \in Nat
              /\ meta_buffer[i].index = next_index - Len(meta_buffer) + i - 1
              /\ meta_buffer[i].index < Len(metas["follower"])
              /\ meta_buffer[i].index < MaxBlocks
              /\ meta_buffer[i].content = metas["follower"][meta_buffer[i].index + 1]
<1>1. meta_buffer \in Seq(Block) /\ Len(meta_buffer) \in Nat
  BY DEF TypeOK
<1>2. \A i \in 1..Len(meta_buffer) : meta_buffer[i] \in Block
  BY <1>1, ElementOfSeq
<1>3. next_index \in Nat /\ next_index <= Len(metas["follower"])
  BY DEF TypeOK, OnTheWay
<1>4. Len(metas["follower"]) \in 0..MaxBlocks
  BY MetasType
<1>5. \A i \in 1..Len(meta_buffer) :
        /\ meta_buffer[i].index \in Nat
        /\ meta_buffer[i].index + Len(meta_buffer) = next_index + i - 1
        /\ meta_buffer[i].content = metas["follower"][meta_buffer[i].index + 1]
  BY <1>2 DEF Buffered, OnTheWay, Block
<1>6. \A i \in 1..Len(meta_buffer) :
        /\ meta_buffer[i].index = next_index - Len(meta_buffer) + i - 1
        /\ meta_buffer[i].index < Len(metas["follower"])
        /\ meta_buffer[i].index < MaxBlocks
  <2> TAKE i \in 1..Len(meta_buffer)
  <2> DEFINE k == meta_buffer[i].index
             n == Len(meta_buffer)
             l == Len(metas["follower"])
  <2>1. k \in Nat /\ k + n = next_index + i - 1 /\ i \in 1..n
    BY <1>5
  <2> HIDE DEF k, n, l
  <2>2. l \in 0..MaxBlocks /\ next_index <= l /\ n \in Nat
    BY <1>1, <1>3, <1>4 DEF l, n
  <2>3. k = next_index - n + i - 1 /\ k < l /\ k < MaxBlocks
    BY <1>3, <2>1, <2>2, DataBlockSyncAssumption
  <2> QED BY <2>3 DEF k, n, l
<1> QED
  BY <1>1, <1>2, <1>3, <1>5, <1>6

\* A buffer that is not empty begins with a block.
LEMMA HeadFacts ==
  ASSUME TypeOK, OnTheWay, Buffered, meta_buffer # <<>>
  PROVE  /\ Len(meta_buffer) \in Nat \ {0}
         /\ Head(meta_buffer) = meta_buffer[1]
         /\ Head(meta_buffer) \in Block
         /\ Head(meta_buffer).index = next_index - Len(meta_buffer)
         /\ Head(meta_buffer).index < MaxBlocks
         /\ Head(meta_buffer).index < Len(metas["follower"])
         /\ Head(meta_buffer).content = metas["follower"][Head(meta_buffer).index + 1]
<1>1. meta_buffer \in Seq(Block)
  BY DEF TypeOK
<1>2. Len(meta_buffer) \in Nat \ {0} /\ Head(meta_buffer) = meta_buffer[1]
  BY <1>1
<1>3. 1 \in 1..Len(meta_buffer) /\ next_index \in Nat
  BY <1>2 DEF TypeOK
<1> QED
  BY <1>2, <1>3, BufferFacts

\* What _sync_saved_data_block_index finds is the number of meta files.
LEMMA SyncedIsLen ==
  ASSUME TypeOK, Managers, NEW p \in Parties
  PROVE  Synced(p) = Len(metas[p])
<1>1. Len(metas[p]) \in Nat /\ saved[p] \in Nat
  BY MetasType DEF TypeOK
<1> QED
  BY <1>1 DEF Synced, Managers

\* What is being sent is a block of the follower.
LEMMA SentIsBlock ==
  ASSUME TypeOK, OnTheWay, sender = "sync"
  PROVE  /\ Sent \in Block
         /\ Sent.index = next_send
         /\ Sent.index < Len(metas["follower"])
         /\ Sent.content = metas["follower"][Sent.index + 1]
<1>1. next_send \in 0..MaxBlocks /\ next_send < Len(metas["follower"])
  BY DEF TypeOK, OnTheWay
<1>2. metas["follower"][next_send + 1] \in Contents
  BY <1>1, MetasType
<1> QED
  BY <1>1, <1>2 DEF Sent, Block

-----------------------------------------------------------------------------
(* What the steps of a maker do                                            *)

\* A maker that has renamed its data file is about to add the next block.
LEMMA MakerFacts ==
  ASSUME IInv, NEW p \in Parties, maker[p] = "renamed"
  PROVE  /\ block[p] \in Block
         /\ block[p].index \in Nat /\ block[p].content \in Contents
         /\ block[p].index = Len(metas[p])
         /\ saved[p] = Len(metas[p])
         /\ Len(metas[p]) < MaxBlocks
         /\ saving[p] = FALSE
         /\ block[p] \in data[p]
<1>1. block[p] \in Block /\ block[p].index < MaxBlocks /\ block[p] \in data[p]
  BY DEF IInv, Making
<1>2. ~saving[p] /\ block[p].index = saved[p]
  BY DEF IInv, NeverRefused
<1>3. Len(metas[p]) = saved[p]
  BY <1>2 DEF IInv, Managers
<1>4. saving[p] \in BOOLEAN
  BY DEF IInv, TypeOK
<1>5. block[p].index \in Nat /\ block[p].content \in Contents
  BY <1>1 DEF Block
<1> QED
  BY <1>1, <1>2, <1>3, <1>4, <1>5

\* The files after the meta file has got its name.
LEMMA RenameEffect ==
  ASSUME IInv, NEW p \in Parties, maker[p] = "renamed", RenameMeta(p)
  PROVE  /\ metas' \in [Parties -> Seq(Contents)]
         /\ metas'[p] = Append(metas[p], block[p].content)
         /\ Len(metas'[p]) = Len(metas[p]) + 1
         /\ Len(metas'[p]) \in 0..MaxBlocks
         /\ \A i \in 1..Len(metas[p]) : metas'[p][i] = metas[p][i]
         /\ metas'[p][Len(metas[p]) + 1] = block[p].content
         /\ \A q \in Parties \ {p} : metas'[q] = metas[q]
<1>1. metas \in [Parties -> Seq(Contents)] /\ metas[p] \in Seq(Contents)
  BY DEF IInv, TypeOK
<1>2. block[p].content \in Contents /\ Len(metas[p]) < MaxBlocks
  BY MakerFacts
<1>3. metas'[p] = Append(metas[p], block[p].content)
  BY <1>1 DEF RenameMeta
<1>4. \A q \in Parties \ {p} : metas'[q] = metas[q]
  BY <1>1 DEF RenameMeta
<1>5. /\ Append(metas[p], block[p].content) \in Seq(Contents)
      /\ Len(Append(metas[p], block[p].content)) = Len(metas[p]) + 1
      /\ \A i \in 1..Len(metas[p]) : Append(metas[p], block[p].content)[i] = metas[p][i]
      /\ Append(metas[p], block[p].content)[Len(metas[p]) + 1] = block[p].content
  BY <1>1, <1>2, AppendProperties
<1>6. metas' \in [Parties -> Seq(Contents)]
  BY <1>1, <1>5 DEF RenameMeta
<1>7. Len(metas[p]) \in Nat
  BY <1>1
<1> QED
  BY <1>2, <1>3, <1>4, <1>5, <1>6, <1>7

\* Every meta file has its data file, the new one too.
LEMMA RenameKeepsData ==
  ASSUME IInv, NEW p \in Parties, maker[p] = "renamed", RenameMeta(p), data' = data
  PROVE  MetaHasData'
<1>1. SUFFICES ASSUME NEW q \in Parties, NEW i \in 1..Len(metas'[q])
               PROVE  [index |-> i - 1, content |-> metas'[q][i]] \in data[q]
  BY DEF MetaHasData
<1>2. Len(metas[q]) \in Nat /\ Len(metas[p]) \in Nat
  BY MetasType DEF IInv
<1>3. CASE i \in 1..Len(metas[q])
  <2>1. metas'[q][i] = metas[q][i]
    BY <1>3, RenameEffect
  <2> QED
    BY <1>3, <2>1 DEF IInv, MetaHasData
<1>4. CASE i \notin 1..Len(metas[q])
  <2>1. q = p /\ i = Len(metas[p]) + 1
    BY <1>2, <1>4, RenameEffect
  <2>2. metas'[q][i] = block[p].content
    BY <2>1, RenameEffect
  <2>3. block[p].index = Len(metas[p]) /\ block[p] \in Block /\ block[p] \in data[p]
    BY MakerFacts
  <2>4. Len(metas[p]) = i - 1
    BY <1>2, <2>1
  <2>5. block[p] = [index |-> i - 1, content |-> block[p].content]
    BY <2>3, <2>4 DEF Block
  <2> QED
    BY <2>1, <2>2, <2>3, <2>5
<1> QED
  BY <1>3, <1>4

\* The block the leader adds is the follower's at that index.
LEMMA LeaderCopies ==
  ASSUME IInv, maker["leader"] = "renamed"
  PROVE  /\ Len(metas["leader"]) < Len(metas["follower"])
         /\ block["leader"].content = metas["follower"][Len(metas["leader"]) + 1]
<1>1. block["leader"] = Head(meta_buffer) /\ meta_buffer # <<>>
  BY DEF IInv, Buffered
<1>2. block["leader"].index = Len(metas["leader"])
  BY MakerFacts
<1> QED
  BY <1>1, <1>2, HeadFacts DEF IInv

\* So the leader's files stay a prefix of the follower's, whoever adds one.
LEMMA RenameKeepsPrefix ==
  ASSUME IInv, NEW p \in Parties, maker[p] = "renamed", RenameMeta(p)
  PROVE  LeaderPrefix'
<1>1. /\ Len(metas["leader"]) \in Nat /\ Len(metas["follower"]) \in Nat
      /\ Len(metas["leader"]) <= Len(metas["follower"])
      /\ \A i \in 1..Len(metas["leader"]) : metas["leader"][i] = metas["follower"][i]
  BY MetasType DEF IInv, LeaderPrefix
<1>2. CASE p = "leader"
  <2>1. /\ metas'["follower"] = metas["follower"]
        /\ Len(metas'["leader"]) = Len(metas["leader"]) + 1
        /\ \A i \in 1..Len(metas["leader"]) : metas'["leader"][i] = metas["leader"][i]
        /\ metas'["leader"][Len(metas["leader"]) + 1] = block["leader"].content
    BY <1>2, RenameEffect
  <2> QED
    BY <1>1, <1>2, <2>1, LeaderCopies DEF LeaderPrefix
<1>3. CASE p = "follower"
  <2>1. /\ metas'["leader"] = metas["leader"]
        /\ Len(metas'["follower"]) = Len(metas["follower"]) + 1
        /\ \A i \in 1..Len(metas["follower"]) : metas'["follower"][i] = metas["follower"][i]
    BY <1>3, RenameEffect
  <2> QED
    BY <1>1, <2>1 DEF LeaderPrefix
<1> QED
  BY <1>2, <1>3

\* What is on its way stays a block of the follower: its files only grow, and
\* nothing is added to the leader's buffer.
LEMMA OnTheWayStays ==
  ASSUME IInv,
         Len(metas'["follower"]) \in Nat,
         Len(metas["follower"]) <= Len(metas'["follower"]),
         \A i \in 1..Len(metas["follower"]) : metas'["follower"][i] = metas["follower"][i],
         UNCHANGED <<sender, next_send, late, next_index>>,
         \A i \in 1..Len(meta_buffer') :
           \E j \in 1..Len(meta_buffer) : meta_buffer'[i] = meta_buffer[j]
  PROVE  OnTheWay'
<1>1. /\ Len(metas["follower"]) \in Nat
      /\ next_send \in Nat /\ next_index \in Nat
      /\ late \subseteq Block
  BY MetasType DEF IInv, TypeOK
<1>2. /\ sender' = "sync" => next_send' < Len(metas'["follower"])
      /\ next_index' <= Len(metas'["follower"])
  BY <1>1 DEF IInv, OnTheWay
<1>3. ASSUME NEW b \in late'
      PROVE  /\ b.index < Len(metas'["follower"])
             /\ b.content = metas'["follower"][b.index + 1]
  <2>1. /\ b.index \in Nat
        /\ b.index < Len(metas["follower"])
        /\ b.content = metas["follower"][b.index + 1]
    BY <1>1, <1>3 DEF IInv, OnTheWay, Block
  <2>2. b.index + 1 \in 1..Len(metas["follower"])
    BY <1>1, <2>1
  <2> QED
    BY <1>1, <2>1, <2>2
<1>4. ASSUME NEW i \in 1..Len(meta_buffer')
      PROVE  meta_buffer'[i].content = metas'["follower"][meta_buffer'[i].index + 1]
  <2>1. PICK j \in 1..Len(meta_buffer) : meta_buffer'[i] = meta_buffer[j]
    BY <1>4
  <2>2. /\ meta_buffer[j].index \in Nat
        /\ meta_buffer[j].index < Len(metas["follower"])
        /\ meta_buffer[j].content = metas["follower"][meta_buffer[j].index + 1]
    BY BufferFacts DEF IInv
  <2>3. meta_buffer[j].index + 1 \in 1..Len(metas["follower"])
    BY <1>1, <2>2
  <2> QED
    BY <2>1, <2>2, <2>3
<1> QED
  BY <1>2, <1>3, <1>4 DEF OnTheWay

\* Making room in the meta buffer keeps its keys' type.
LEMMA TrimmedType ==
  ASSUME NEW s \in Seq(Indices)
  PROVE  Trimmed(s) \in Seq(Indices)
<1>1. Len(s) \in Nat /\ \A i \in 1..Len(s) : s[i] \in Indices
  BY ElementOfSeq
<1>2. Len(s) > BufferSize => \A i \in 1..BufferSize : s[i] \in Indices
  BY <1>1
<1>3. Len(s) > BufferSize => SubSeq(s, 1, BufferSize) \in Seq(Indices)
  BY <1>2, SubSeqProperties
<1> QED
  BY <1>3 DEF Trimmed

\* update_data_block_meta up to its end.
LEMMA MetaSavedEffect ==
  ASSUME IInv, NEW p \in Parties, maker[p] = "renamed", MetaSaved(p)
  PROVE  /\ saved' \in [Parties -> Indices]
         /\ saved'[p] = Len(metas[p]) + 1
         /\ \A q \in Parties \ {p} : saved'[q] = saved[q]
         /\ memory' \in Seq(Indices)
         /\ saving' = saving
<1>1. /\ block[p].index = Len(metas[p]) /\ Len(metas[p]) < MaxBlocks
      /\ Len(metas[p]) \in Nat
  BY MakerFacts, MetasType DEF IInv
<1>2. saved \in [Parties -> Indices] /\ memory \in Seq(Indices)
  BY DEF IInv, TypeOK
<1>3. saved' = [saved EXCEPT ![p] = Len(metas[p]) + 1] /\ saving' = saving
  BY <1>1 DEF MetaSaved
<1>4. Append(Trimmed(memory), block[p].index) \in Seq(Indices)
  BY <1>1, <1>2, TrimmedType, AppendProperties
<1>5. memory' \in Seq(Indices)
  BY <1>2, <1>4 DEF MetaSaved
<1> QED
  BY <1>1, <1>2, <1>3, <1>5

-----------------------------------------------------------------------------
(* The steps of a maker keep the invariant                                 *)

\* The meta file gets its name: the manager counts it, and the leader's saver
\* goes on with the next meta of its buffer.
LEMMA DumpMetaKeeps ==
  ASSUME IInv, NEW p \in Parties, DumpMeta(p)
  PROVE  IInv'
<1>1. /\ maker[p] = "renamed" /\ RenameMeta(p) /\ MetaSaved(p)
      /\ maker' = [maker EXCEPT ![p] = "none"]
      /\ block' = [block EXCEPT ![p] = <<>>]
      /\ meta_buffer' = IF p = "leader" THEN Tail(meta_buffer) ELSE meta_buffer
      /\ UNCHANGED <<data, sender, next_send, next_index, saver, state_switch, late, faults>>
  BY DEF DumpMeta, senderVars
<1>2. TypeOK /\ Managers /\ OnTheWay /\ Buffered /\ Making /\ NeverRefused
  BY DEF IInv
<1>3. p = "leader" => /\ meta_buffer # <<>> /\ saver = "run"
                      /\ next_index = saved["leader"] + Len(meta_buffer)
  BY <1>1, <1>2 DEF Buffered
<1>4. p = "leader" => /\ Len(meta_buffer') = Len(meta_buffer) - 1
                      /\ Len(meta_buffer) \in Nat \ {0}
                      /\ \A i \in 1..Len(meta_buffer') : meta_buffer'[i] = meta_buffer[i + 1]
  BY <1>1, <1>2, <1>3, HeadTailProperties, HeadFacts DEF TypeOK
<1>5. meta_buffer' \in Seq(Block)
  BY <1>1, <1>2, <1>3, HeadTailProperties DEF TypeOK
<1>6. TypeOK'
  <2>1. /\ saved' \in [Parties -> Indices] /\ memory' \in Seq(Indices) /\ saving' = saving
    BY <1>1, MetaSavedEffect
  <2>2. metas' \in [Parties -> Seq(Contents)] /\ \A q \in Parties : Len(metas'[q]) <= MaxBlocks
    BY <1>1, <1>2, RenameEffect DEF TypeOK
  <2>3. /\ maker' \in [Parties -> {"none", "open", "renamed", "closed", "stuck"}]
        /\ block' \in [Parties -> Block \cup {<<>>}]
    BY <1>1, <1>2 DEF TypeOK
  <2> QED
    BY <1>1, <1>2, <1>5, <2>1, <2>2, <2>3 DEF TypeOK
<1>7. Managers'
  <2>1. Len(metas'[p]) = saved'[p]
    BY <1>1, RenameEffect, MetaSavedEffect
  <2>2. \A q \in Parties \ {p} : /\ metas'[q] = metas[q] /\ saved'[q] = saved[q]
                                 /\ saving'[q] = saving[q]
    BY <1>1, RenameEffect, MetaSavedEffect
  <2> QED
    BY <1>2, <2>1, <2>2 DEF Managers
<1>8. OnTheWay'
  <2>1. /\ Len(metas'["follower"]) \in Nat
        /\ Len(metas["follower"]) <= Len(metas'["follower"])
        /\ \A i \in 1..Len(metas["follower"]) : metas'["follower"][i] = metas["follower"][i]
    BY <1>1, <1>2, RenameEffect, MetasType
  <2>2. \A i \in 1..Len(meta_buffer') :
          \E j \in 1..Len(meta_buffer) : meta_buffer'[i] = meta_buffer[j]
    BY <1>1, <1>4
  <2> QED
    BY <1>1, <2>1, <2>2, OnTheWayStays
<1>9. Buffered'
  <2>1. CASE p = "leader"
    <3>1. saved["leader"] = Len(metas["leader"]) /\ saving["leader"] = FALSE
      BY <1>1, <2>1, MakerFacts
    <3>2. saved'["leader"] = Len(metas["leader"]) + 1 /\ saving' = saving
      BY <1>1, <2>1, MetaSavedEffect
    <3>3. maker'["leader"] = "none"
      BY <1>1, <1>2, <2>1 DEF TypeOK
    <3>4. next_index \in Nat /\ Len(meta_buffer) <= next_index
      BY <1>2 DEF TypeOK, Buffered
    <3>5. ASSUME NEW i \in 1..Len(meta_buffer')
          PROVE  meta_buffer'[i].index + Len(meta_buffer') = next_index + i - 1
      <4>1. /\ meta_buffer'[i] = meta_buffer[i + 1]
            /\ Len(meta_buffer') = Len(meta_buffer) - 1
            /\ Len(meta_buffer) \in Nat
            /\ i + 1 \in 1..Len(meta_buffer)
        BY <1>4, <2>1
      <4>2. meta_buffer[i + 1].index = next_index - Len(meta_buffer) + (i + 1) - 1
        BY <1>2, <4>1, BufferFacts
      <4> QED
        BY <3>4, <4>1, <4>2
    <3>6. saved["leader"] \in Nat /\ state_switch
      BY <1>2, <1>3, <2>1 DEF TypeOK, Buffered
    <3>7. /\ next_index' = saved'["leader"] + Len(meta_buffer')
          /\ Len(meta_buffer') <= next_index'
      BY <1>1, <1>3, <1>4, <2>1, <3>1, <3>2, <3>4, <3>6
    <3>8. saving'["leader"] = FALSE /\ state_switch' = state_switch /\ next_index' = next_index
      BY <1>1, <3>1, <3>2
    <3> QED
      BY <3>3, <3>5, <3>6, <3>7, <3>8 DEF Buffered
  <2>2. CASE p = "follower"
    <3>1. saved'["leader"] = saved["leader"] /\ saving' = saving
      BY <1>1, <2>2, MetaSavedEffect
    <3>2. maker'["leader"] = maker["leader"] /\ block'["leader"] = block["leader"]
      BY <1>1, <1>2, <2>2 DEF TypeOK
    <3>3. meta_buffer' = meta_buffer
      BY <1>1, <2>2
    <3> QED
      BY <1>1, <1>2, <3>1, <3>2, <3>3 DEF Buffered
  <2> QED
    BY <2>1, <2>2
<1>10. Making' /\ NeverRefused'
  <2>1. maker'[p] = "none"
    BY <1>1, <1>2 DEF TypeOK
  <2>2. \A q \in Parties \ {p} : /\ maker'[q] = maker[q] /\ block'[q] = block[q]
                                 /\ saved'[q] = saved[q] /\ saving'[q] = saving[q]
    BY <1>1, <1>2, MetaSavedEffect DEF TypeOK
  <2>3. Making'
    BY <1>1, <1>2, <2>1, <2>2 DEF Making
  <2>4. NeverRefused'
    BY <1>2, <2>1, <2>2 DEF NeverRefused
  <2> QED
    BY <2>3, <2>4
<1>11. MetaHasData' /\ LeaderPrefix'
  BY <1>1, RenameKeepsData, RenameKeepsPrefix
<1> QED
  BY <1>6, <1>7, <1>8, <1>9, <1>10, <1>11 DEF IInv

\* An exception leaves data_block_finalizer: the saver's run ends, the joiner
\* keeps its maker.
LEMMA RaisesEffect ==
  ASSUME IInv, NEW p \in Parties, NEW state \in {"closed", "stuck"}, maker[p] # "none",
         Raises(p, state)
  PROVE  /\ maker' \in [Parties -> {"none", "open", "renamed", "closed", "stuck"}]
         /\ block' \in [Parties -> Block \cup {<<>>}]
         /\ saver' \in {"idle", "run"}
         /\ faults' \in 0..MaxFaults
         /\ p = "leader" => maker'["leader"] = "none" /\ saver' = "idle"
         /\ p = "follower" => /\ maker'["follower"] = state
                              /\ block'["follower"] = block["follower"]
                              /\ saver' = saver
         /\ \A q \in Parties \ {p} : maker'[q] = maker[q] /\ block'[q] = block[q]
         /\ UNCHANGED <<sender, next_send, next_index, meta_buffer, state_switch, late>>
<1>1. /\ maker \in [Parties -> {"none", "open", "renamed", "closed", "stuck"}]
      /\ block \in [Parties -> Block \cup {<<>>}]
      /\ saver \in {"idle", "run"}
      /\ faults \in 0..MaxFaults
  BY DEF IInv, TypeOK
<1>2. faults' \in 0..MaxFaults
  BY <1>1 DEF Raises, Fault
<1>3. UNCHANGED <<sender, next_send, next_index, meta_buffer, state_switch, late>>
  BY DEF Raises, senderVars
<1>4. CASE p = "leader"
  BY <1>1, <1>2, <1>3, <1>4 DEF Raises
<1>5. CASE p = "follower"
  BY <1>1, <1>2, <1>3, <1>5 DEF Raises
<1> QED
  BY <1>4, <1>5

\* The leader's buffer after a run of the saver that raised: nothing of it has
\* been removed, whether or not its first block has its meta file.
LEMMA RaisesKeepsBuffered ==
  ASSUME IInv, maker["leader"] # "none",
         saver' = "idle", maker'["leader"] = "none",
         UNCHANGED <<next_index, meta_buffer, state_switch>>,
         \/ saved'["leader"] = saved["leader"]
         \/ saved'["leader"] = saved["leader"] + 1 /\ saving'["leader"] = FALSE
  PROVE  Buffered'
<1>1. /\ saver = "run" /\ state_switch /\ meta_buffer # <<>>
      /\ Len(meta_buffer) <= next_index
      /\ next_index = saved["leader"] + Len(meta_buffer)
      /\ \A i \in 1..Len(meta_buffer) :
           meta_buffer[i].index + Len(meta_buffer) = next_index + i - 1
  BY DEF IInv, Buffered
<1>2. /\ Len(meta_buffer) \in Nat /\ saved["leader"] \in Nat
  BY DEF IInv, TypeOK
<1>3. \/ next_index' = saved'["leader"] + Len(meta_buffer')
      \/ /\ next_index' + 1 = saved'["leader"] + Len(meta_buffer')
         /\ saving'["leader"] = FALSE
  BY <1>1, <1>2
<1> QED
  BY <1>1, <1>3 DEF Buffered

\* Renaming the meta file, or what follows it, raises.
LEMMA DumpMetaFailsKeeps ==
  ASSUME IInv, NEW p \in Parties, DumpMetaFails(p)
  PROVE  IInv'
<1>1. maker[p] = "renamed" /\ Raises(p, "stuck") /\ data' = data
  BY DEF DumpMetaFails
<1>2. TypeOK /\ Managers /\ OnTheWay /\ Buffered /\ Making /\ NeverRefused /\ MetaHasData
        /\ LeaderPrefix
  BY DEF IInv
<1>3. metas' = metas \/ RenameMeta(p)
  BY DEF DumpMetaFails
<1>4. \/ saving' = [saving EXCEPT ![p] = TRUE] /\ UNCHANGED <<saved, memory>>
      \/ RenameMeta(p) /\ MetaSaved(p)
  BY DEF DumpMetaFails
<1>5. /\ saving \in [Parties -> BOOLEAN] /\ saving[p] = FALSE
      /\ saved \in [Parties -> Indices] /\ memory \in Seq(Indices)
      /\ saved[p] = Len(metas[p]) /\ Len(metas[p]) \in Nat
  BY <1>1, <1>2, MakerFacts, MetasType DEF TypeOK
<1>6. /\ saved' \in [Parties -> Indices] /\ memory' \in Seq(Indices)
      /\ \/ saved'[p] = saved[p]
         \/ saved'[p] = saved[p] + 1 /\ saving' = saving
      /\ \A q \in Parties \ {p} : saved'[q] = saved[q]
  BY <1>1, <1>4, <1>5, MetaSavedEffect
<1>7. saving' \in [Parties -> BOOLEAN] /\ \A q \in Parties \ {p} : saving'[q] = saving[q]
  <2> HIDE DEF Parties
  <2>1. CASE saving' = [saving EXCEPT ![p] = TRUE]
    BY <1>5, <2>1, FlagType, Zenon
  <2>2. CASE RenameMeta(p) /\ MetaSaved(p)
    BY <1>5, <2>2 DEF MetaSaved
  <2> QED
    BY <1>4, <2>1, <2>2
<1>8. TypeOK'
  <2>1. metas' \in [Parties -> Seq(Contents)] /\ \A q \in Parties : Len(metas'[q]) <= MaxBlocks
    BY <1>1, <1>2, <1>3, RenameEffect DEF TypeOK
  <2> QED
    BY <1>1, <1>2, <1>6, <1>7, <2>1, RaisesEffect DEF TypeOK
<1>9. Managers'
  <2>1. \A q \in Parties \ {p} : metas'[q] = metas[q]
    BY <1>1, <1>3, RenameEffect
  <2>2. CASE saving' = [saving EXCEPT ![p] = TRUE] /\ UNCHANGED <<saved, memory>>
    <3>1. Len(metas'[p]) = saved'[p] \/ Len(metas'[p]) = saved'[p] + 1
      BY <1>1, <1>3, <1>5, <2>2, RenameEffect
    <3>2. saving'[p]
      BY <1>5, <2>2
    <3> QED
      BY <1>2, <1>6, <1>7, <2>1, <3>1, <3>2 DEF Managers
  <2>3. CASE RenameMeta(p) /\ MetaSaved(p)
    <3>1. Len(metas'[p]) = saved'[p]
      BY <1>1, <2>3, RenameEffect, MetaSavedEffect
    <3> QED
      BY <1>2, <1>6, <1>7, <2>1, <3>1 DEF Managers
  <2> QED
    BY <1>4, <2>2, <2>3
<1>10. OnTheWay'
  <2>1. /\ Len(metas'["follower"]) \in Nat
        /\ Len(metas["follower"]) <= Len(metas'["follower"])
        /\ \A i \in 1..Len(metas["follower"]) : metas'["follower"][i] = metas["follower"][i]
    BY <1>1, <1>2, <1>3, RenameEffect, MetasType
  <2>2. UNCHANGED <<sender, next_send, late, next_index, meta_buffer>>
    BY <1>1, RaisesEffect
  <2> QED
    BY <2>1, <2>2, OnTheWayStays
<1>11. Buffered'
  <2>1. CASE p = "leader"
    <3>1. /\ saver' = "idle" /\ maker'["leader"] = "none"
          /\ UNCHANGED <<next_index, meta_buffer, state_switch>>
      BY <1>1, <2>1, RaisesEffect
    <3> QED
      BY <1>1, <1>5, <1>6, <2>1, <3>1, RaisesKeepsBuffered
  <2>2. CASE p = "follower"
    <3>1. /\ saver' = saver /\ maker'["leader"] = maker["leader"]
          /\ block'["leader"] = block["leader"]
          /\ UNCHANGED <<next_index, meta_buffer, state_switch>>
      BY <1>1, <2>2, RaisesEffect
    <3>2. saved'["leader"] = saved["leader"] /\ saving'["leader"] = saving["leader"]
      BY <1>6, <1>7, <2>2
    <3> QED
      BY <1>2, <3>1, <3>2 DEF Buffered
  <2> QED
    BY <2>1, <2>2
<1>12. Making' /\ NeverRefused'
  <2>1. maker'[p] \in {"none", "stuck"} /\ (maker'[p] = "stuck" => p = "follower" /\ block'[p] = block[p])
    BY <1>1, RaisesEffect
  <2>2. \A q \in Parties \ {p} : /\ maker'[q] = maker[q] /\ block'[q] = block[q]
                                 /\ saved'[q] = saved[q] /\ saving'[q] = saving[q]
    BY <1>1, <1>6, <1>7, RaisesEffect
  <2>3. Making'
    BY <1>1, <1>2, <2>1, <2>2 DEF Making
  <2>4. NeverRefused'
    BY <1>2, <2>1, <2>2 DEF NeverRefused
  <2> QED
    BY <2>3, <2>4
<1>13. MetaHasData' /\ LeaderPrefix'
  <2>1. CASE metas' = metas
    BY <1>1, <1>2, <2>1 DEF MetaHasData, LeaderPrefix
  <2>2. CASE RenameMeta(p)
    BY <1>1, <2>2, RenameKeepsData, RenameKeepsPrefix
  <2> QED
    BY <1>3, <2>1, <2>2
<1> QED
  BY <1>8, <1>9, <1>10, <1>11, <1>12, <1>13 DEF IInv

\* The data file gets its name, or its renaming raises.
LEMMA DumpDataKeeps ==
  ASSUME IInv, NEW p \in Parties, DumpData(p) \/ DumpDataFails(p)
  PROVE  IInv'
<1>1. TypeOK /\ Managers /\ OnTheWay /\ Buffered /\ Making /\ NeverRefused /\ MetaHasData
        /\ LeaderPrefix
  BY DEF IInv
<1>2. maker[p] \in {"open", "closed"} /\ block[p] \in Block
  BY <1>1 DEF DumpData, DumpDataFails, Making
<1>3. /\ data' \in [Parties -> SUBSET Block]
      /\ \A q \in Parties : data[q] \subseteq data'[q]
  BY <1>1, <1>2 DEF DumpData, DumpDataFails, TypeOK
<1>4. /\ UNCHANGED <<metas, saved, saving, memory>>
      /\ UNCHANGED <<sender, next_send, next_index, meta_buffer, state_switch, late>>
  BY DEF DumpData, DumpDataFails, Raises, managerVars, senderVars, saverVars
<1>5. MetaHasData'
  BY <1>1, <1>3, <1>4 DEF MetaHasData
<1>6. Managers' /\ LeaderPrefix' /\ OnTheWay'
  BY <1>1, <1>4 DEF Managers, LeaderPrefix, OnTheWay
<1>7. CASE DumpData(p)
  <2>1. /\ maker' = [maker EXCEPT ![p] = "renamed"] /\ block' = block
        /\ saver' = saver /\ faults' = faults
    BY <1>7 DEF DumpData, saverVars
  <2>2. block[p] \in data'[p]
    BY <1>1, <1>7 DEF DumpData, TypeOK
  <2>3. TypeOK'
    BY <1>1, <1>3, <1>4, <2>1 DEF TypeOK
  <2>4. Buffered'
    BY <1>1, <1>2, <1>4, <2>1 DEF Buffered, TypeOK
  <2>5. Making'
    BY <1>1, <1>2, <1>3, <1>4, <2>1, <2>2 DEF Making, TypeOK
  <2>6. NeverRefused'
    BY <1>1, <1>2, <1>4, <2>1 DEF NeverRefused, Making, TypeOK
  <2> QED
    BY <1>5, <1>6, <2>3, <2>4, <2>5, <2>6 DEF IInv
<1>8. CASE DumpDataFails(p)
  <2>1. maker[p] = "open" /\ \E state \in {"closed", "stuck"} : Raises(p, state)
    BY <1>8 DEF DumpDataFails
  <2>2. PICK state \in {"closed", "stuck"} : Raises(p, state)
    BY <2>1
  <2>3. TypeOK'
    BY <1>1, <1>3, <1>4, <2>1, <2>2, RaisesEffect DEF TypeOK
  <2>4. Buffered'
    <3>1. CASE p = "leader"
      BY <1>4, <2>1, <2>2, <3>1, RaisesEffect, RaisesKeepsBuffered
    <3>2. CASE p = "follower"
      <4>1. /\ saver' = saver /\ maker'["leader"] = maker["leader"]
            /\ block'["leader"] = block["leader"]
        BY <2>1, <2>2, <3>2, RaisesEffect
      <4> QED
        BY <1>1, <1>4, <4>1 DEF Buffered
    <3> QED
      BY <3>1, <3>2
  <2>5. /\ maker'[p] \in {"none", state}
        /\ maker'[p] = state => p = "follower" /\ block'[p] = block[p]
        /\ \A q \in Parties \ {p} : maker'[q] = maker[q] /\ block'[q] = block[q]
    BY <2>1, <2>2, RaisesEffect
  <2>6. Making'
    BY <1>1, <1>3, <1>4, <2>1, <2>5 DEF Making, NeverRefused
  <2>7. NeverRefused'
    BY <1>1, <1>4, <2>5 DEF NeverRefused
  <2> QED
    BY <1>5, <1>6, <2>3, <2>4, <2>6, <2>7 DEF IInv
<1> QED
  BY <1>7, <1>8

-----------------------------------------------------------------------------
(* The steps of the follower keep the invariant                            *)

\* The index is compared with the files: afterwards both agree and no rename is
\* in doubt.
LEMMA SyncEffect ==
  ASSUME IInv, NEW p \in Parties, SyncSavedIndex(p)
  PROVE  /\ saved' \in [Parties -> Indices]
         /\ saved'[p] = Len(metas[p])
         /\ saving' \in [Parties -> BOOLEAN]
         /\ saving'[p] = FALSE
         /\ \A q \in Parties \ {p} : saved'[q] = saved[q] /\ saving'[q] = saving[q]
<1>1. Synced(p) = Len(metas[p]) /\ Len(metas[p]) \in 0..MaxBlocks
  BY SyncedIsLen, MetasType DEF IInv
<1>2. saved' = [saved EXCEPT ![p] = Len(metas[p])] /\ saved \in [Parties -> Indices]
  BY <1>1 DEF SyncSavedIndex, IInv, TypeOK
<1>3. saving' = [saving EXCEPT ![p] = FALSE] /\ saving \in [Parties -> BOOLEAN]
  BY DEF SyncSavedIndex, IInv, TypeOK
<1>4. /\ saving' \in [Parties -> BOOLEAN] /\ saving'[p] = FALSE
      /\ \A q \in Parties \ {p} : saving'[q] = saving[q]
  <2> HIDE DEF Parties
  <2> QED
    BY <1>3, FlagType, Zenon
<1> QED
  BY <1>1, <1>2, <1>4

\* After that, the managers agree with the files.
LEMMA SyncKeepsManagers ==
  ASSUME IInv, NEW p \in Parties, SyncSavedIndex(p), metas' = metas
  PROVE  Managers'
  BY SyncEffect DEF IInv, Managers

\* The joiner opens a maker for the next block.
LEMMA AcquireKeeps ==
  ASSUME IInv, AcquireDataBlockMaker
  PROVE  IInv'
<1>1. TypeOK /\ Managers /\ OnTheWay /\ Buffered /\ Making /\ NeverRefused /\ MetaHasData
        /\ LeaderPrefix
  BY DEF IInv
<1>2. /\ SyncSavedIndex("follower")
      /\ UNCHANGED <<data, metas, memory, sender, next_send, next_index, meta_buffer,
                     saver, state_switch, late, faults>>
  BY DEF AcquireDataBlockMaker, senderVars, saverVars
<1>3. PICK c \in Contents :
        NewMaker("follower", [index |-> Synced("follower"), content |-> c])
  BY DEF AcquireDataBlockMaker
<1> DEFINE b == [index |-> Len(metas["follower"]), content |-> c]
<1>4. /\ Synced("follower") = Len(metas["follower"])
      /\ Len(metas["follower"]) \in Nat
      /\ Len(metas["follower"]) < MaxBlocks
  BY <1>1, SyncedIsLen, MetasType DEF AcquireDataBlockMaker
<1>5. b \in Block /\ b.index = Len(metas["follower"])
  BY <1>4 DEF Block
<1>6. maker' = [maker EXCEPT !["follower"] = "open"] /\ block' = [block EXCEPT !["follower"] = b]
  BY <1>3, <1>4 DEF NewMaker
<1> HIDE DEF b
<1>7. /\ maker' \in [Parties -> {"none", "open", "renamed", "closed", "stuck"}]
      /\ block' \in [Parties -> Block \cup {<<>>}]
      /\ maker'["follower"] = "open" /\ block'["follower"] = b
      /\ maker'["leader"] = maker["leader"] /\ block'["leader"] = block["leader"]
  BY <1>1, <1>5, <1>6 DEF TypeOK
<1>8. /\ saved' \in [Parties -> Indices] /\ saving' \in [Parties -> BOOLEAN]
      /\ saved'["follower"] = Len(metas["follower"]) /\ saving'["follower"] = FALSE
      /\ saved'["leader"] = saved["leader"] /\ saving'["leader"] = saving["leader"]
  BY <1>2, SyncEffect
<1>9. TypeOK'
  BY <1>1, <1>2, <1>7, <1>8 DEF TypeOK
<1>10. Managers'
  BY <1>2, SyncKeepsManagers
<1>11. OnTheWay' /\ MetaHasData' /\ LeaderPrefix'
  BY <1>1, <1>2 DEF OnTheWay, MetaHasData, LeaderPrefix
<1>12. Buffered'
  BY <1>1, <1>2, <1>7, <1>8 DEF Buffered
<1>13. Making'
  BY <1>1, <1>2, <1>4, <1>5, <1>7, <1>8 DEF Making
<1>14. NeverRefused'
  BY <1>1, <1>5, <1>7, <1>8 DEF NeverRefused
<1> QED
  BY <1>9, <1>10, <1>11, <1>12, <1>13, <1>14 DEF IInv

\* The sender asks where to go on, and looks for the next meta.
LEMMA SenderKeeps ==
  ASSUME IInv, StartPartition \/ GetNextDataBlockMeta
  PROVE  IInv'
<1>1. TypeOK /\ Managers /\ OnTheWay /\ Buffered /\ Making /\ NeverRefused /\ MetaHasData
        /\ LeaderPrefix
  BY DEF IInv
<1>2. CASE StartPartition
  <2>1. /\ sender' = "next" /\ next_send' = next_index
        /\ UNCHANGED <<data, metas, saved, saving, memory, maker, block, next_index,
                       meta_buffer, saver, state_switch, late, faults>>
    BY <1>2 DEF StartPartition, NextDataBlockIndex, managerVars, makerVars, saverVars
  <2>2. TypeOK' /\ OnTheWay'
    BY <1>1, <2>1 DEF TypeOK, OnTheWay
  <2>3. Managers' /\ Buffered' /\ Making' /\ NeverRefused' /\ MetaHasData' /\ LeaderPrefix'
    BY <1>1, <2>1 DEF Managers, Buffered, Making, NeverRefused, MetaHasData, LeaderPrefix
  <2> QED
    BY <2>2, <2>3 DEF IInv
<1>3. CASE GetNextDataBlockMeta
  <2>1. /\ SyncSavedIndex("follower")
        /\ UNCHANGED <<data, metas, maker, block, next_send, next_index, meta_buffer,
                       saver, state_switch, late, faults>>
    BY <1>3 DEF GetNextDataBlockMeta, makerVars, saverVars
  <2>2. /\ saved' \in [Parties -> Indices] /\ saving' \in [Parties -> BOOLEAN]
        /\ saved'["follower"] = Len(metas["follower"]) /\ saving'["follower"] = FALSE
        /\ saved'["leader"] = saved["leader"] /\ saving'["leader"] = saving["leader"]
    BY <2>1, SyncEffect
  <2>3. memory' \in Seq(Indices)
    <3>1. memory \in Seq(Indices) /\ next_send \in Indices
      BY <1>1 DEF TypeOK
    <3>2. Trimmed(Append(memory, next_send)) \in Seq(Indices)
      BY <3>1, AppendProperties, TrimmedType
    <3> QED
      BY <1>3, <3>1, <3>2 DEF GetNextDataBlockMeta
  <2>4. /\ sender' \in {"idle", "sync"}
        /\ sender' = "sync" => next_send < Len(metas["follower"])
    <3>1. Synced("follower") = Len(metas["follower"])
      BY <1>1, SyncedIsLen
    <3> QED
      BY <1>3, <3>1 DEF GetNextDataBlockMeta
  <2>5. TypeOK'
    BY <1>1, <2>1, <2>2, <2>3, <2>4 DEF TypeOK
  <2>6. Managers'
    BY <2>1, SyncKeepsManagers
  <2>7. OnTheWay'
    BY <1>1, <2>1, <2>4 DEF OnTheWay
  <2>8. Buffered'
    BY <1>1, <2>1, <2>2 DEF Buffered
  <2>9. saved["follower"] = Len(metas["follower"]) \/ saving["follower"]
    BY <1>1 DEF Managers
  <2>10. Making'
    BY <1>1, <2>1, <2>2, <2>9 DEF Making
  <2>11. NeverRefused'
    BY <1>1, <2>1, <2>2, <2>9 DEF NeverRefused
  <2>12. MetaHasData' /\ LeaderPrefix'
    BY <1>1, <2>1 DEF MetaHasData, LeaderPrefix
  <2> QED
    BY <2>5, <2>6, <2>7, <2>8, <2>10, <2>11, <2>12 DEF IInv
<1> QED
  BY <1>2, <1>3

\* A call is given up, and the leader may still execute it.
LEMMA GivesUpKeeps ==
  ASSUME IInv, SenderGivesUp
  PROVE  IInv'
<1>1. TypeOK /\ Managers /\ OnTheWay /\ Buffered /\ Making /\ NeverRefused /\ MetaHasData
        /\ LeaderPrefix
  BY DEF IInv
<1>2. /\ sender = "sync" /\ sender' = "idle" /\ late' = late \cup {Sent}
      /\ UNCHANGED <<data, metas, saved, saving, memory, maker, block, next_send,
                     next_index, meta_buffer, saver, state_switch>>
  BY DEF SenderGivesUp, managerVars, makerVars, saverVars
<1>3. faults' \in 0..MaxFaults
  BY <1>1 DEF SenderGivesUp, Fault, TypeOK
<1>4. /\ Sent \in Block
      /\ Sent.index < Len(metas["follower"])
      /\ Sent.content = metas["follower"][Sent.index + 1]
  BY <1>1, <1>2, SentIsBlock
<1>5. TypeOK'
  BY <1>1, <1>2, <1>3, <1>4 DEF TypeOK
<1>6. OnTheWay'
  BY <1>1, <1>2, <1>4 DEF OnTheWay
<1>7. Managers' /\ Buffered' /\ Making' /\ NeverRefused' /\ MetaHasData' /\ LeaderPrefix'
  BY <1>1, <1>2 DEF Managers, Buffered, Making, NeverRefused, MetaHasData, LeaderPrefix
<1> QED
  BY <1>5, <1>6, <1>7 DEF IInv

-----------------------------------------------------------------------------
(* The steps of the leader keep the invariant                              *)

\* A meta that is due continues the buffer; another one changes nothing.
LEMMA AppendSentEffect ==
  ASSUME IInv, NEW b \in Block, AppendSentMeta(b),
         b.index < Len(metas["follower"]),
         b.content = metas["follower"][b.index + 1]
  PROVE  /\ meta_buffer' \in Seq(Block)
         /\ next_index' \in Indices
         /\ next_index' <= Len(metas["follower"])
         /\ \A i \in 1..Len(meta_buffer') :
              /\ meta_buffer'[i].content = metas["follower"][meta_buffer'[i].index + 1]
              /\ meta_buffer'[i].index + Len(meta_buffer') = next_index' + i - 1
         /\ Len(meta_buffer') <= next_index'
         /\ next_index' - Len(meta_buffer') = next_index - Len(meta_buffer)
         /\ meta_buffer # <<>> => /\ meta_buffer' # <<>>
                                  /\ Head(meta_buffer') = Head(meta_buffer)
<1>1. /\ meta_buffer \in Seq(Block) /\ Len(meta_buffer) \in Nat
      /\ next_index \in Nat /\ next_index <= Len(metas["follower"])
      /\ Len(meta_buffer) <= next_index
      /\ Len(metas["follower"]) \in 0..MaxBlocks
  BY BufferFacts, MetasType DEF IInv, Buffered
<1>2. \A i \in 1..Len(meta_buffer) :
        /\ meta_buffer[i].index \in Nat
        /\ meta_buffer[i].index = next_index - Len(meta_buffer) + i - 1
        /\ meta_buffer[i].content = metas["follower"][meta_buffer[i].index + 1]
  BY BufferFacts DEF IInv
<1>3. CASE b.index # next_index
  <2>1. meta_buffer' = meta_buffer /\ next_index' = next_index
    BY <1>3 DEF AppendSentMeta
  <2> QED
    BY <1>1, <1>2, <2>1
<1>4. CASE b.index = next_index
  <2>1. meta_buffer' = Append(meta_buffer, b) /\ next_index' = next_index + 1
    BY <1>4 DEF AppendSentMeta
  <2>2. /\ meta_buffer' \in Seq(Block)
        /\ meta_buffer' # <<>>
        /\ Len(meta_buffer') = Len(meta_buffer) + 1
        /\ \A i \in 1..Len(meta_buffer) : meta_buffer'[i] = meta_buffer[i]
        /\ meta_buffer'[Len(meta_buffer) + 1] = b
    BY <1>1, <2>1, AppendProperties
  <2>3. next_index' \in Indices /\ next_index' <= Len(metas["follower"])
    BY <1>1, <1>4, <2>1
  <2>4. ASSUME NEW i \in 1..Len(meta_buffer')
        PROVE  /\ meta_buffer'[i].content = metas["follower"][meta_buffer'[i].index + 1]
               /\ meta_buffer'[i].index + Len(meta_buffer') = next_index' + i - 1
    <3>1. CASE i \in 1..Len(meta_buffer)
      <4>1. meta_buffer'[i] = meta_buffer[i]
        BY <2>2, <3>1
      <4>2. /\ meta_buffer[i].index \in Nat
            /\ meta_buffer[i].index = next_index - Len(meta_buffer) + i - 1
            /\ meta_buffer[i].content = metas["follower"][meta_buffer[i].index + 1]
        BY <1>2, <3>1
      <4>3. meta_buffer[i].index + (Len(meta_buffer) + 1) = (next_index + 1) + i - 1
        <5>1. /\ meta_buffer[i].index \in Int /\ Len(meta_buffer) \in Int
              /\ next_index \in Int /\ i \in Int
          BY <1>1, <3>1, <4>2
        <5>2. meta_buffer[i].index = next_index - Len(meta_buffer) + i - 1
          BY <4>2
        <5> QED
          BY ONLY <5>1, <5>2
      <4> QED
        BY <2>1, <2>2, <4>1, <4>2, <4>3
    <3>2. CASE i = Len(meta_buffer) + 1
      <4>1. meta_buffer'[i] = b
        BY <2>2, <3>2
      <4>2. b.index + (Len(meta_buffer) + 1) = (next_index + 1) + i - 1
        BY <1>1, <1>4, <3>2
      <4> QED
        BY <2>1, <2>2, <4>1, <4>2
    <3> QED
      BY <1>1, <2>2, <3>1, <3>2
  <2>5. meta_buffer # <<>> => Head(meta_buffer') = Head(meta_buffer)
    BY <1>1, <2>1, HeadTailAppend
  <2> QED
    BY <1>1, <2>1, <2>2, <2>3, <2>4, <2>5
<1> QED
  BY <1>3, <1>4

\* So it keeps what the invariant says of the buffer.
LEMMA AppendSentKeeps ==
  ASSUME IInv, NEW b \in Block, AppendSentMeta(b),
         b.index < Len(metas["follower"]),
         b.content = metas["follower"][b.index + 1],
         UNCHANGED <<saved, saving, maker, block, saver, state_switch>>
  PROVE  Buffered'
<1>1. /\ Len(meta_buffer') <= next_index'
      /\ next_index' - Len(meta_buffer') = next_index - Len(meta_buffer)
      /\ meta_buffer # <<>> => /\ meta_buffer' # <<>>
                               /\ Head(meta_buffer') = Head(meta_buffer)
      /\ \A i \in 1..Len(meta_buffer') :
           meta_buffer'[i].index + Len(meta_buffer') = next_index' + i - 1
  BY AppendSentEffect
<1>2. /\ Len(meta_buffer) \in Nat /\ next_index \in Nat /\ saved["leader"] \in Nat
  BY DEF IInv, TypeOK
<1>3. Len(meta_buffer') \in Nat /\ next_index' \in Nat
  BY AppendSentEffect
<1>4. \/ next_index' = saved["leader"] + Len(meta_buffer')
      \/ /\ next_index' + 1 = saved["leader"] + Len(meta_buffer')
         /\ saver = "idle" /\ state_switch /\ ~saving["leader"] /\ meta_buffer # <<>>
  <2>1. CASE next_index = saved["leader"] + Len(meta_buffer)
    BY <1>1, <1>2, <1>3, <2>1
  <2>2. CASE /\ next_index + 1 = saved["leader"] + Len(meta_buffer)
             /\ saver = "idle" /\ state_switch /\ ~saving["leader"] /\ meta_buffer # <<>>
    <3>1. \A m, k, n, l, v \in Int : m - k = n - l /\ n + 1 = v + l => m + 1 = v + k
      OBVIOUS
    <3>2. /\ next_index' - Len(meta_buffer') = next_index - Len(meta_buffer)
          /\ next_index + 1 = saved["leader"] + Len(meta_buffer)
      BY <1>1, <2>2
    <3>3. next_index' + 1 = saved["leader"] + Len(meta_buffer')
      BY <1>2, <1>3, <3>1, <3>2
    <3> QED
      BY <2>2, <3>3
  <2> QED
    BY <2>1, <2>2 DEF IInv, Buffered
<1> QED
  BY <1>1, <1>4 DEF IInv, Buffered

\* SyncPartition, called in time or executed late.
LEMMA SyncPartitionKeeps ==
  ASSUME IInv, SyncPartition \/ \E b \in late : SyncPartitionLate(b)
  PROVE  IInv'
<1>1. TypeOK /\ Managers /\ OnTheWay /\ Buffered /\ Making /\ NeverRefused /\ MetaHasData
        /\ LeaderPrefix
  BY DEF IInv
<1>2. PICK b \in Block :
        /\ AppendSentMeta(b)
        /\ b.index < Len(metas["follower"])
        /\ b.content = metas["follower"][b.index + 1]
  <2>1. CASE SyncPartition
    BY <1>1, <2>1, SentIsBlock DEF SyncPartition
  <2>2. CASE \E b \in late : SyncPartitionLate(b)
    BY <1>1, <2>2 DEF SyncPartitionLate, TypeOK, OnTheWay
  <2> QED
    BY <2>1, <2>2
<1>3. UNCHANGED <<data, metas, saved, saving, memory, maker, block, saver, state_switch, faults>>
  BY DEF SyncPartition, SyncPartitionLate, managerVars, makerVars
<1>4. late' \subseteq late
  BY DEF SyncPartition, SyncPartitionLate
<1>5. /\ next_send' \in Indices
      /\ sender' \in {"idle", "next"} \/ (sender' = sender /\ next_send' = next_send)
  <2>1. CASE SyncPartition
    <3>1. sender = "sync" /\ next_send \in Nat /\ next_send < Len(metas["follower"])
      BY <1>1, <2>1 DEF SyncPartition, TypeOK, OnTheWay
    <3>2. Len(metas["follower"]) \in 0..MaxBlocks
      BY <1>1, MetasType
    <3> QED
      BY <2>1, <3>1, <3>2 DEF SyncPartition
  <2>2. CASE \E c \in late : SyncPartitionLate(c)
    BY <1>1, <2>2 DEF SyncPartitionLate, senderVars, TypeOK
  <2> QED
    BY <2>1, <2>2
<1>6. /\ meta_buffer' \in Seq(Block)
      /\ next_index' \in Indices
      /\ next_index' <= Len(metas["follower"])
      /\ \A i \in 1..Len(meta_buffer') :
           meta_buffer'[i].content = metas["follower"][meta_buffer'[i].index + 1]
  BY <1>2, AppendSentEffect
<1>7. TypeOK'
  BY <1>1, <1>3, <1>4, <1>5, <1>6 DEF TypeOK
<1>8. OnTheWay'
  BY <1>1, <1>3, <1>4, <1>5, <1>6 DEF OnTheWay
<1>9. Buffered'
  BY <1>2, <1>3, AppendSentKeeps
<1>10. Managers' /\ Making' /\ NeverRefused' /\ MetaHasData' /\ LeaderPrefix'
  BY <1>1, <1>3 DEF Managers, Making, NeverRefused, MetaHasData, LeaderPrefix
<1> QED
  BY <1>7, <1>8, <1>9, <1>10 DEF IInv

\* A new run of the saver removes a meta that has its file: afterwards the buffer
\* continues the files.
LEMMA RemoveSavedEffect ==
  ASSUME IInv, NEW n \in Nat, RemoveSaved(n),
         \/ n = next_index - Len(meta_buffer)
         \/ n = next_index - Len(meta_buffer) + 1 /\ meta_buffer # <<>>
  PROVE  /\ meta_buffer' \in Seq(Block)
         /\ Len(meta_buffer') \in Nat
         /\ next_index = n + Len(meta_buffer')
         /\ \A i \in 1..Len(meta_buffer') :
              meta_buffer'[i].index + Len(meta_buffer') = next_index + i - 1
         /\ \A i \in 1..Len(meta_buffer') :
              \E j \in 1..Len(meta_buffer) : meta_buffer'[i] = meta_buffer[j]
<1> DEFINE L == Len(meta_buffer)
<1>1. L \in Nat /\ next_index \in Nat /\ L <= next_index
  BY BufferFacts DEF IInv, Buffered
<1>2. \A i \in 1..L : /\ meta_buffer[i] \in Block
                      /\ meta_buffer[i].index = next_index - L + i - 1
  BY BufferFacts DEF IInv
<1>3. PICK k \in 0..L :
        /\ \A i \in 1..k : meta_buffer[i].index < n
        /\ k < L => meta_buffer[k + 1].index >= n
        /\ meta_buffer' = SubSeq(meta_buffer, k + 1, L)
  BY DEF RemoveSaved
<1>4. meta_buffer # <<>> => L > 0
  BY BufferFacts DEF IInv
<1>5. k = n - (next_index - L)
  <2>1. CASE k = 0
    <3>1. L > 0 => meta_buffer[1].index = next_index - L /\ meta_buffer[1].index >= n
      BY <1>1, <1>2, <1>3, <2>1
    <3> QED
      BY <1>1, <1>4, <2>1, <3>1
  <2>2. CASE k > 0
    <3>1. meta_buffer[k].index = next_index - L + k - 1 /\ meta_buffer[k].index < n
      BY <1>1, <1>2, <1>3, <2>2
    <3> QED
      BY <1>1, <2>2, <3>1
  <2> QED
    BY <2>1, <2>2
<1>6. \A i \in (k + 1)..L : meta_buffer[i] \in Block
  BY <1>2
<1>7. /\ meta_buffer' \in Seq(Block)
      /\ Len(meta_buffer') = L - k
      /\ \A i \in 1..(L - k) : meta_buffer'[i] = meta_buffer[k + i]
  <2>1. k + 1 \in Int /\ L \in Int
    BY <1>1
  <2>2. /\ SubSeq(meta_buffer, k + 1, L) \in Seq(Block)
        /\ Len(SubSeq(meta_buffer, k + 1, L)) = IF k + 1 <= L THEN L - (k + 1) + 1 ELSE 0
        /\ \A i \in 1..(L - (k + 1) + 1) :
             SubSeq(meta_buffer, k + 1, L)[i] = meta_buffer[(k + 1) + i - 1]
    BY <1>6, <2>1, SubSeqProperties
  <2> HIDE DEF L
  <2>3. \A i \in 1..(L - k) : (k + 1) + i - 1 = k + i /\ i \in 1..(L - (k + 1) + 1)
    BY <1>1
  <2> QED
    BY <1>1, <1>3, <2>2, <2>3
<1>8. next_index = n + Len(meta_buffer')
  BY <1>1, <1>5, <1>7
<1>9. ASSUME NEW i \in 1..Len(meta_buffer')
      PROVE  /\ meta_buffer'[i].index + Len(meta_buffer') = next_index + i - 1
             /\ \E j \in 1..Len(meta_buffer) : meta_buffer'[i] = meta_buffer[j]
  <2>1. i \in 1..(L - k) /\ k + i \in 1..L
    BY <1>1, <1>7
  <2>2. meta_buffer'[i] = meta_buffer[k + i]
    BY <1>7, <2>1
  <2>3. meta_buffer[k + i].index = next_index - L + (k + i) - 1
    BY <1>2, <2>1
  <2>4. meta_buffer[k + i].index + (L - k) = next_index + i - 1
    <3> HIDE DEF L
    <3> QED
      BY <1>1, <2>1, <2>3
  <2> QED
    BY <1>7, <2>1, <2>2, <2>4
<1> QED
  BY <1>1, <1>7, <1>8, <1>9

\* A run of the saver starts; after one that raised it compares its buffer with
\* the files first.
LEMMA SaverStartsKeeps ==
  ASSUME IInv, SaverStarts
  PROVE  IInv'
<1>1. TypeOK /\ Managers /\ OnTheWay /\ Buffered /\ Making /\ NeverRefused /\ MetaHasData
        /\ LeaderPrefix
  BY DEF IInv
<1>2. /\ saver = "idle" /\ meta_buffer # <<>> /\ saver' = "run" /\ state_switch' = TRUE
      /\ UNCHANGED <<data, metas, memory, maker, block, sender, next_send, next_index,
                     late, faults>>
  BY DEF SaverStarts, NotifySyncState, NeedSave, makerVars, senderVars
<1>3. maker["leader"] = "none"
  BY <1>1, <1>2 DEF Buffered
<1>4. /\ Len(meta_buffer) \in Nat /\ next_index \in Nat /\ Len(meta_buffer) <= next_index
      /\ saved["leader"] \in Nat /\ Len(metas["leader"]) \in Nat
      /\ Len(metas["follower"]) \in Nat
  BY <1>1, BufferFacts, MetasType DEF TypeOK, Buffered
<1>5. CASE state_switch
  <2>1. SyncSavedIndex("leader") /\ RemoveSaved(Len(metas["leader"]))
    BY <1>1, <1>5, SyncedIsLen DEF SaverStarts, NotifySyncState
  <2>2. /\ saved' \in [Parties -> Indices] /\ saving' \in [Parties -> BOOLEAN]
        /\ saved'["leader"] = Len(metas["leader"]) /\ saving'["leader"] = FALSE
        /\ saved'["follower"] = saved["follower"] /\ saving'["follower"] = saving["follower"]
    BY <2>1, SyncEffect
  <2>3. \/ Len(metas["leader"]) = next_index - Len(meta_buffer)
        \/ Len(metas["leader"]) = next_index - Len(meta_buffer) + 1
    <3>1. CASE next_index = saved["leader"] + Len(meta_buffer)
      BY <1>1, <1>4, <3>1 DEF Managers
    <3>2. CASE next_index + 1 = saved["leader"] + Len(meta_buffer) /\ ~saving["leader"]
      <4>1. Len(metas["leader"]) = saved["leader"]
        BY <1>1, <3>2 DEF Managers
      <4> QED
        BY <1>4, <3>2, <4>1
    <3> QED
      BY <1>1, <3>1, <3>2 DEF Buffered
  <2>4. /\ meta_buffer' \in Seq(Block)
        /\ Len(meta_buffer') \in Nat
        /\ next_index = Len(metas["leader"]) + Len(meta_buffer')
        /\ \A i \in 1..Len(meta_buffer') :
             meta_buffer'[i].index + Len(meta_buffer') = next_index + i - 1
        /\ \A i \in 1..Len(meta_buffer') :
             \E j \in 1..Len(meta_buffer) : meta_buffer'[i] = meta_buffer[j]
    BY <1>2, <1>4, <2>1, <2>3, RemoveSavedEffect
  <2>5. TypeOK'
    BY <1>1, <1>2, <2>2, <2>4 DEF TypeOK
  <2>6. Managers'
    BY <1>2, <2>1, SyncKeepsManagers
  <2>7. OnTheWay'
    BY <1>2, <1>4, <2>4, OnTheWayStays
  <2>8. Len(meta_buffer') <= next_index
    BY <1>4, <2>4
  <2>9. Buffered'
    BY <1>2, <1>3, <2>2, <2>4, <2>8 DEF Buffered
  <2>10. Making' /\ NeverRefused'
    BY <1>1, <1>2, <1>3, <2>2 DEF Making, NeverRefused
  <2>11. MetaHasData' /\ LeaderPrefix'
    BY <1>1, <1>2 DEF MetaHasData, LeaderPrefix
  <2> QED
    BY <2>5, <2>6, <2>7, <2>9, <2>10, <2>11 DEF IInv
<1>6. CASE ~state_switch
  <2>1. UNCHANGED <<saved, saving, meta_buffer>>
    BY <1>6 DEF SaverStarts, NotifySyncState
  <2>2. TypeOK'
    BY <1>1, <1>2, <2>1 DEF TypeOK
  <2>3. Buffered'
    BY <1>1, <1>2, <1>3, <1>6, <2>1 DEF Buffered
  <2>4. Managers' /\ OnTheWay' /\ Making' /\ NeverRefused' /\ MetaHasData' /\ LeaderPrefix'
    BY <1>1, <1>2, <2>1 DEF Managers, OnTheWay, Making, NeverRefused, MetaHasData, LeaderPrefix
  <2> QED
    BY <2>2, <2>3, <2>4 DEF IInv
<1> QED
  BY <1>5, <1>6

\* The saver takes the first meta of its buffer, or finds it empty.
LEMMA SaverKeeps ==
  ASSUME IInv, SaverTakes \/ SaverStops
  PROVE  IInv'
<1>1. TypeOK /\ Managers /\ OnTheWay /\ Buffered /\ Making /\ NeverRefused /\ MetaHasData
        /\ LeaderPrefix
  BY DEF IInv
<1>2. /\ saver = "run" /\ maker["leader"] = "none"
      /\ UNCHANGED <<data, metas, saved, saving, memory, sender, next_send, next_index,
                     meta_buffer, late, faults>>
  BY DEF SaverTakes, SaverStops, managerVars, senderVars, saverVars
<1>3. /\ next_index = saved["leader"] + Len(meta_buffer)
      /\ saving["leader"] = FALSE
  BY <1>1, <1>2 DEF Buffered, TypeOK
<1>4. Managers' /\ OnTheWay' /\ MetaHasData' /\ LeaderPrefix'
  BY <1>1, <1>2 DEF Managers, OnTheWay, MetaHasData, LeaderPrefix
<1>5. CASE SaverTakes
  <2> DEFINE b == Head(meta_buffer)
  <2>1. meta_buffer # <<>> /\ NewMaker("leader", b) /\ UNCHANGED <<saver, state_switch>>
    BY <1>5 DEF SaverTakes, NeedSave, saverVars
  <2>2. /\ b \in Block /\ b.index < MaxBlocks
        /\ b.index = next_index - Len(meta_buffer)
    BY <1>1, <2>1, HeadFacts
  <2>3. b.index = saved["leader"]
    <3>1. saved["leader"] \in Nat /\ Len(meta_buffer) \in Nat
      BY <1>1 DEF TypeOK
    <3> HIDE DEF b
    <3> QED
      BY <1>3, <2>2, <3>1
  <2>4. /\ maker' = [maker EXCEPT !["leader"] = "open"]
        /\ block' = [block EXCEPT !["leader"] = b]
    BY <2>1 DEF NewMaker
  <2>5. /\ maker' \in [Parties -> {"none", "open", "renamed", "closed", "stuck"}]
        /\ block' \in [Parties -> Block \cup {<<>>}]
        /\ maker'["leader"] = "open" /\ block'["leader"] = b
        /\ maker'["follower"] = maker["follower"] /\ block'["follower"] = block["follower"]
    BY <1>1, <2>2, <2>4 DEF TypeOK
  <2>6. TypeOK'
    BY <1>1, <1>2, <2>1, <2>5 DEF TypeOK
  <2>7. Buffered'
    BY <1>1, <1>2, <2>1, <2>5 DEF Buffered
  <2> HIDE DEF b
  <2>8. Making'
    BY <1>1, <1>2, <2>2, <2>5 DEF Making
  <2>9. NeverRefused'
    BY <1>1, <1>2, <1>3, <2>3, <2>5 DEF NeverRefused
  <2> QED
    BY <1>4, <2>6, <2>7, <2>8, <2>9 DEF IInv
<1>6. CASE SaverStops
  <2>1. meta_buffer = <<>> /\ saver' = "idle" /\ state_switch' = FALSE /\ UNCHANGED <<maker, block>>
    BY <1>6 DEF SaverStops, NeedSave, makerVars
  <2>2. TypeOK'
    BY <1>1, <1>2, <2>1 DEF TypeOK
  <2>3. Buffered'
    BY <1>1, <1>2, <1>3, <2>1 DEF Buffered
  <2>4. Making' /\ NeverRefused'
    BY <1>1, <1>2, <2>1 DEF Making, NeverRefused
  <2> QED
    BY <1>4, <2>2, <2>3, <2>4 DEF IInv
<1> QED
  BY <1>5, <1>6

-----------------------------------------------------------------------------
(* Restarts keep the invariant                                             *)

\* A new process has no maker, and its manager counts the files.
LEMMA RestartedEffect ==
  ASSUME IInv, NEW p \in Parties, Restarted(p)
  PROVE  /\ saved' \in [Parties -> Indices] /\ saved'[p] = Len(metas[p])
         /\ saving' \in [Parties -> BOOLEAN] /\ saving'[p] = FALSE
         /\ maker' \in [Parties -> {"none", "open", "renamed", "closed", "stuck"}]
         /\ maker'[p] = "none"
         /\ block' \in [Parties -> Block \cup {<<>>}]
         /\ \A q \in Parties \ {p} :
              /\ saved'[q] = saved[q] /\ saving'[q] = saving[q]
              /\ maker'[q] = maker[q] /\ block'[q] = block[q]
<1>1. TypeOK /\ Len(metas[p]) \in 0..MaxBlocks
  BY MetasType DEF IInv
<1>2. /\ saved' \in [Parties -> Indices] /\ saved'[p] = Len(metas[p])
      /\ \A q \in Parties \ {p} : saved'[q] = saved[q]
  BY <1>1 DEF Restarted, TypeOK
<1>3. /\ saving' \in [Parties -> BOOLEAN] /\ saving'[p] = FALSE
      /\ \A q \in Parties \ {p} : saving'[q] = saving[q]
  <2>1. saving' = [saving EXCEPT ![p] = FALSE] /\ saving \in [Parties -> BOOLEAN]
    BY <1>1 DEF Restarted, TypeOK
  <2> HIDE DEF Parties
  <2> QED
    BY <2>1, FlagType, Zenon
<1>4. /\ maker' \in [Parties -> {"none", "open", "renamed", "closed", "stuck"}]
      /\ maker'[p] = "none"
      /\ \A q \in Parties \ {p} : maker'[q] = maker[q]
  BY <1>1 DEF Restarted, TypeOK
<1>5. /\ block' \in [Parties -> Block \cup {<<>>}]
      /\ \A q \in Parties \ {p} : block'[q] = block[q]
  BY <1>1 DEF Restarted, TypeOK
<1> QED
  BY <1>2, <1>3, <1>4, <1>5

\* The leader's metas may outlive the follower's process on their way; a new
\* saver goes on after the leader's files.
LEMMA RestartKeeps ==
  ASSUME IInv, FollowerRestarts \/ LeaderRestarts
  PROVE  IInv'
<1>1. TypeOK /\ Managers /\ OnTheWay /\ Buffered /\ Making /\ NeverRefused /\ MetaHasData
        /\ LeaderPrefix
  BY DEF IInv
<1>2. PICK p \in Parties : /\ Restarted(p)
                           /\ p = "follower" => FollowerRestarts
                           /\ p = "leader" => LeaderRestarts
  BY DEF FollowerRestarts, LeaderRestarts
<1>3. UNCHANGED <<data, metas>> /\ faults' \in 0..MaxFaults
  BY <1>1 DEF FollowerRestarts, LeaderRestarts, Fault, TypeOK
<1>4. Managers'
  BY <1>1, <1>2, <1>3, RestartedEffect DEF Managers
<1>5. Making' /\ NeverRefused'
  BY <1>1, <1>2, <1>3, RestartedEffect DEF Making, NeverRefused
<1>6. MetaHasData' /\ LeaderPrefix'
  BY <1>1, <1>3 DEF MetaHasData, LeaderPrefix
<1>7. CASE p = "follower"
  <2>1. /\ memory' = <<>> /\ sender' = "idle" /\ next_send' = 0
        /\ late' = IF sender = "sync" THEN late \cup {Sent} ELSE late
        /\ UNCHANGED <<next_index, meta_buffer, saver, state_switch>>
    BY <1>2, <1>7 DEF FollowerRestarts, saverVars
  <2>2. sender = "sync" => /\ Sent \in Block
                           /\ Sent.index < Len(metas["follower"])
                           /\ Sent.content = metas["follower"][Sent.index + 1]
    BY <1>1, SentIsBlock
  <2>3. TypeOK'
    <3>1. /\ saved' \in [Parties -> Indices] /\ saving' \in [Parties -> BOOLEAN]
          /\ maker' \in [Parties -> {"none", "open", "renamed", "closed", "stuck"}]
          /\ block' \in [Parties -> Block \cup {<<>>}]
      BY <1>2, RestartedEffect
    <3>2. memory' \in Seq(Indices) /\ late' \in SUBSET Block /\ next_send' \in Indices
      BY <1>1, <2>1, <2>2 DEF TypeOK
    <3> QED
      BY <1>1, <1>3, <2>1, <3>1, <3>2 DEF TypeOK
  <2>4. OnTheWay'
    BY <1>1, <1>3, <2>1, <2>2 DEF OnTheWay
  <2>5. Buffered'
    BY <1>1, <1>2, <1>7, <2>1, RestartedEffect DEF Buffered
  <2> QED
    BY <1>4, <1>5, <1>6, <2>3, <2>4, <2>5 DEF IInv
<1>8. CASE p = "leader"
  <2>1. /\ next_index' = Len(metas["leader"]) /\ meta_buffer' = <<>>
        /\ saver' = "idle" /\ state_switch' = FALSE
        /\ sender' = IF sender = "sync" THEN "idle" ELSE sender
        /\ late' = {}
        /\ UNCHANGED <<memory, next_send>>
    BY <1>2, <1>8 DEF LeaderRestarts, NewSaver
  <2>2. /\ Len(metas["leader"]) \in 0..MaxBlocks
        /\ Len(metas["leader"]) <= Len(metas["follower"])
    BY <1>1, MetasType DEF LeaderPrefix
  <2>3. meta_buffer' \in Seq(Block) /\ Len(meta_buffer') = 0
    BY <2>1
  <2>4. TypeOK'
    BY <1>1, <1>2, <1>3, <2>1, <2>2, <2>3, RestartedEffect DEF TypeOK
  <2>5. OnTheWay'
    BY <1>3, <2>1, <2>2, <2>3 DEF OnTheWay
  <2>6. Buffered'
    <3>1. /\ saved'["leader"] = Len(metas["leader"]) /\ saving'["leader"] = FALSE
          /\ maker'["leader"] = "none"
      BY <1>2, <1>8, RestartedEffect
    <3>2. /\ next_index' = saved'["leader"] + Len(meta_buffer')
          /\ Len(meta_buffer') <= next_index'
      BY <2>1, <2>2, <2>3, <3>1
    <3> QED
      BY <2>1, <2>3, <3>1, <3>2 DEF Buffered
  <2> QED
    BY <1>4, <1>5, <1>6, <2>4, <2>5, <2>6 DEF IInv
<1> QED
  BY <1>7, <1>8

-----------------------------------------------------------------------------
(* Theorems                                                                *)

\* Every step keeps the invariant.
LEMMA Step ==
  ASSUME IInv, [Next]_vars
  PROVE  IInv'
<1>1. CASE UNCHANGED vars
  <2>1. UNCHANGED <<data, metas, saved, saving, memory, maker, block, sender, next_send,
                    next_index, meta_buffer, saver, state_switch, late, faults>>
    BY <1>1 DEF vars, managerVars, makerVars, senderVars, saverVars
  <2>2. TypeOK' /\ Managers' /\ OnTheWay' /\ Buffered'
    BY <2>1 DEF IInv, TypeOK, Managers, OnTheWay, Buffered
  <2>3. Making' /\ NeverRefused' /\ MetaHasData' /\ LeaderPrefix'
    BY <2>1 DEF IInv, Making, NeverRefused, MetaHasData, LeaderPrefix
  <2> QED
    BY <2>2, <2>3 DEF IInv
<1>2. CASE \E p \in Parties : DumpData(p) \/ DumpMeta(p) \/ DumpDataFails(p) \/ DumpMetaFails(p)
  BY <1>2, DumpDataKeeps, DumpMetaKeeps, DumpMetaFailsKeeps
<1>3. CASE AcquireDataBlockMaker \/ Sender \/ SenderGivesUp \/ \E b \in late : SyncPartitionLate(b)
  BY <1>3, AcquireKeeps, SenderKeeps, SyncPartitionKeeps, GivesUpKeeps DEF Sender
<1>4. CASE Saver
  BY <1>4, SaverStartsKeeps, SaverKeeps DEF Saver
<1>5. CASE FollowerRestarts \/ LeaderRestarts
  BY <1>5, RestartKeeps
<1> QED
  BY <1>1, <1>2, <1>3, <1>4, <1>5 DEF Next

\* The invariant holds initially: there are no files and no blocks.
LEMMA Initially ==
  ASSUME Init
  PROVE  IInv
<1>1. TypeOK
  <2>1. <<>> \in Seq(Contents) /\ <<>> \in Seq(Indices) /\ <<>> \in Seq(Block) /\ Len(<<>>) = 0
    OBVIOUS
  <2>2. /\ metas \in [Parties -> Seq(Contents)]
        /\ \A p \in Parties : Len(metas[p]) <= MaxBlocks
    BY <2>1 DEF Init
  <2>3. /\ data \in [Parties -> SUBSET Block] /\ saved \in [Parties -> Indices]
        /\ maker \in [Parties -> {"none", "open", "renamed", "closed", "stuck"}]
        /\ block \in [Parties -> Block \cup {<<>>}]
    BY DEF Init
  <2>4. saving \in [Parties -> BOOLEAN]
    BY DEF Init
  <2>5. /\ memory = <<>> /\ meta_buffer = <<>> /\ sender = "idle" /\ next_send = 0
        /\ next_index = 0 /\ saver = "idle" /\ state_switch = FALSE /\ late = {} /\ faults = 0
    BY DEF Init
  <2>6. memory \in Seq(Indices) /\ meta_buffer \in Seq(Block)
    BY <2>1, <2>5
  <2>7. /\ sender \in {"idle", "next", "sync"} /\ saver \in {"idle", "run"}
        /\ next_send \in Indices /\ next_index \in Indices /\ faults \in 0..MaxFaults
    BY <2>5
  <2>8. state_switch \in BOOLEAN /\ late \in SUBSET Block
    BY <2>5
  <2> QED
    BY <2>2, <2>3, <2>4, <2>6, <2>7, <2>8 DEF TypeOK
<1>2. Managers /\ LeaderPrefix /\ MetaHasData
  BY DEF Init, Managers, LeaderPrefix, MetaHasData
<1>3. OnTheWay /\ Buffered
  BY DEF Init, OnTheWay, Buffered
<1>4. Making /\ NeverRefused
  BY DEF Init, Making, NeverRefused
<1> QED
  BY <1>1, <1>2, <1>3, <1>4 DEF IInv

\* The invariant holds in every state of every execution: the managers agree
\* with the files except after a rename that raised, what is on its way is a
\* block of the follower, and the leader's buffer continues its files.
THEOREM Invariance == Spec => []IInv
<1> QED
  BY Initially, Step, PTL DEF Spec

\* The consistency checks of update_data_block_meta never raise, whatever
\* crashes, fails or is repeated.
THEOREM ChecksNeverRaise == Spec => []NeverRefused
  BY Invariance, PTL DEF IInv

\* A meta file never lacks its data file.
THEOREM MetasHaveData == Spec => []MetaHasData
  BY Invariance, PTL DEF IInv

\* The leader's data blocks are always a prefix of the follower's.
THEOREM PrefixAlways == Spec => []LeaderPrefix
  BY Invariance, PTL DEF IInv

\* The only steps that change a directory are those that rename a meta file.
LEMMA MetasChange ==
  ASSUME Next
  PROVE  \/ metas' = metas
         \/ \E p \in Parties : maker[p] = "renamed" /\ RenameMeta(p)
  BY DEF Next, DumpData, DumpMeta, DumpDataFails, DumpMetaFails, AcquireDataBlockMaker,
         Sender, StartPartition, GetNextDataBlockMeta, SyncPartition, SenderGivesUp,
         SyncPartitionLate, Saver, SaverStarts, NotifySyncState, SaverTakes, SaverStops,
         FollowerRestarts, LeaderRestarts

\* The two directories implement the replicated log: a meta file that gets its
\* name is a block appended by the follower or copied, in order, by the leader,
\* and nothing else is ever done to them.
THEOREM Refinement == Spec => ImplementsLog
<1>1. ASSUME Init PROVE Log!Init
  BY <1>1 DEF Init, Log!Init
<1>2. ASSUME IInv, [Next]_vars PROVE [Log!Next]_(Log!vars)
  <2>1. CASE metas' = metas
    BY <2>1 DEF Log!vars
  <2>2. CASE \E p \in Parties : maker[p] = "renamed" /\ RenameMeta(p)
    <3>1. PICK p \in Parties : maker[p] = "renamed" /\ RenameMeta(p)
      BY <2>2
    <3>2. CASE p = "follower"
      <4>1. /\ metas'["follower"] = Append(metas["follower"], block["follower"].content)
            /\ metas'["leader"] = metas["leader"]
        BY <1>2, <3>1, <3>2, RenameEffect
      <4>2. block["follower"].content \in Contents
        BY <1>2, <3>1, <3>2, MakerFacts
      <4> QED
        BY <4>1, <4>2 DEF Log!Next, Log!Produce
    <3>3. CASE p = "leader"
      <4>1. /\ metas'["leader"] = Append(metas["leader"], block["leader"].content)
            /\ metas'["follower"] = metas["follower"]
        BY <1>2, <3>1, <3>3, RenameEffect
      <4>2. /\ Len(metas["leader"]) < Len(metas["follower"])
            /\ block["leader"].content = metas["follower"][Len(metas["leader"]) + 1]
        BY <1>2, <3>1, <3>3, LeaderCopies
      <4> QED
        BY <4>1, <4>2 DEF Log!Next, Log!Replicate
    <3> QED
      BY <3>2, <3>3
  <2>3. CASE UNCHANGED vars
    BY <2>3 DEF vars, Log!vars
  <2> QED
    BY <1>2, <2>1, <2>2, <2>3, MetasChange
<1> QED
  BY <1>1, <1>2, Invariance, PTL DEF Spec, ImplementsLog, Log!Spec

-----------------------------------------------------------------------------
(* The search for the last index, from which the managers start            *)

\* No probe moves a bound past the first unused index.
LEMMA ProbeStep ==
  ASSUME DataBlockIndexAssumption, SearchInv, Probe
  PROVE  SearchInv'
<1> DEFINE mid == (low_index + high_index) \div 2
<1>1. /\ low_index \in Nat /\ high_index \in Int /\ number \in Nat
      /\ low_index <= high_index
      /\ Threshold \in Nat
  BY DEF SearchInv, SearchTypeOK, Probe, DataBlockIndexAssumption
<1>2. mid \in Int /\ low_index <= mid /\ mid <= high_index
  BY <1>1
<1>3. /\ UNCHANGED <<number, saved_index>>
      /\ saved_index = NotFound
      /\ \/ mid < number /\ low_index' = mid + 1 /\ high_index' = high_index
         \/ ~(mid < number) /\ high_index' = mid - 1 /\ low_index' = low_index
  BY DEF Probe, Exists
<1> HIDE DEF mid
<1>4. SearchTypeOK'
  BY <1>1, <1>2, <1>3 DEF SearchInv, SearchTypeOK
<1>5. Between'
  BY <1>1, <1>2, <1>3 DEF SearchInv, SearchTypeOK, Between
<1> QED
  BY <1>4, <1>5 DEF SearchInv

\* The bounds always enclose the first unused index (_sync_saved_data_block_index).
THEOREM SearchInvariance == Search => []SearchInv
<1> USE DataBlockIndexAssumption
<1>1. SearchInit => SearchInv
  BY DEF DataBlockIndexAssumption, SearchInit, SearchInv, SearchTypeOK, Between, NotFound
<1>2. SearchInv /\ [SearchNext]_searchVars => SearchInv'
  <2> SUFFICES ASSUME SearchInv, [SearchNext]_searchVars
               PROVE  SearchInv'
    OBVIOUS
  <2>1. CASE Probe
    BY <2>1, ProbeStep
  <2>2. CASE Found
    BY <2>2 DEF Found, SearchInv, SearchTypeOK, Between, NotFound
  <2>3. CASE UNCHANGED searchVars
    BY <2>3 DEF searchVars, SearchInv, SearchTypeOK, Between
  <2> QED
    BY <2>1, <2>2, <2>3 DEF SearchNext
<1> QED
  BY <1>1, <1>2, PTL DEF Search

\* Whatever the number of meta files and the threshold, a search that has ended
\* has found the last of them.
THEOREM SearchCorrect == Search => []FindsLast
<1>1. SearchInv => FindsLast
  BY DEF SearchInv, SearchTypeOK, Between, FindsLast, NotFound
<1> QED
  BY <1>1, SearchInvariance, PTL
=============================================================================
