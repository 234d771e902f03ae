------------------------ MODULE ExampleIdSyncProofs ------------------------
(***************************************************************************)
(* Proofs about ExampleIdSync for any raw data, batch size, block size and *)
(* number of faults: types, that no common id is lost by calls that break, *)
(* are repeated or are executed late, and that without faults the common   *)
(* ids are joined in the order they were sent and none of them twice.      *)
(***************************************************************************)
EXTENDS ExampleIdSync, SequenceTheorems, WellFoundedInduction, TLAPS

USE ExampleIdSyncAssumption

-----------------------------------------------------------------------------
(* Induction, by the least counterexample                                  *)

\* A set of naturals that is not empty has a least element.
LEMMA LeastOf ==
  ASSUME NEW T, T \subseteq Nat, T # {}
  PROVE  \E x \in T : \A y \in T : x <= y
<1>1. PICK x \in T : \A y \in T : ~(<<y, x>> \in OpToRel(<, Nat))
  BY NatLessThanWellFounded, WFMin
<1>2. \A y \in T : ~(y < x)
  BY <1>1 DEF OpToRel
<1> QED
  BY <1>2

-----------------------------------------------------------------------------
(* Concatenation of many sequences                                         *)

\* f has the concatenations of the first 1, 2, ..., n parts.
Sums(ss, f, n) == f = [i \in 1..n |-> IF i = 1 THEN ss[i] ELSE f[i - 1] \o ss[i]]

\* The partial concatenations of a sequence of sequences exist.
LEMMA SumsExist ==
  ASSUME NEW ss, NEW N \in Nat
  PROVE  \E f : Sums(ss, f, N)
<1> DEFINE Bad == {n \in Nat : ~ \E f : Sums(ss, f, n)}
<1>1. SUFFICES ASSUME Bad # {} PROVE FALSE
  OBVIOUS
<1>2. PICK n \in Bad : \A m \in Bad : n <= m
  BY <1>1, LeastOf
<1>3. CASE n = 0
  <2> DEFINE f == [i \in 1..0 |-> ss[i]]
  <2>1. f = [i \in 1..0 |-> IF i = 1 THEN ss[i] ELSE f[i - 1] \o ss[i]]
    OBVIOUS
  <2> QED
    BY <1>2, <1>3, <2>1 DEF Sums
<1>4. CASE n # 0
  <2>1. n - 1 \in Nat /\ n - 1 \notin Bad
    BY <1>2, <1>4
  <2>2. PICK f : Sums(ss, f, n - 1)
    BY <2>1
  <2> DEFINE g == [i \in 1..n |-> IF i < n THEN f[i]
                                  ELSE IF i = 1 THEN ss[i] ELSE f[i - 1] \o ss[i]]
  <2>3. ASSUME NEW i \in 1..n
        PROVE  g[i] = IF i = 1 THEN ss[i] ELSE g[i - 1] \o ss[i]
    <3>1. CASE i < n
      <4>1. i \in 1..(n - 1) /\ g[i] = f[i]
        BY <2>1, <3>1
      <4>2. f[i] = IF i = 1 THEN ss[i] ELSE f[i - 1] \o ss[i]
        BY <2>2, <4>1 DEF Sums
      <4>3. i # 1 => g[i - 1] = f[i - 1]
        BY <3>1
      <4> QED
        BY <4>1, <4>2, <4>3
    <3>2. CASE i = n
      <4>1. i # 1 => g[i - 1] = f[i - 1]
        BY <3>2
      <4> QED
        BY <3>2, <4>1
    <3> QED
      BY <1>2, <3>1, <3>2
  <2>4. g = [i \in 1..n |-> g[i]]
    OBVIOUS
  <2> HIDE DEF g
  <2>5. [i \in 1..n |-> g[i]] = [i \in 1..n |-> IF i = 1 THEN ss[i] ELSE g[i - 1] \o ss[i]]
    BY <2>3
  <2>6. Sums(ss, g, n)
    BY <2>4, <2>5 DEF Sums
  <2> QED
    BY <1>2, <2>6
<1> QED
  BY <1>3, <1>4

\* FlattenSeq by its partial concatenations.
LEMMA FlattenBySums ==
  ASSUME NEW ss, Len(ss) \in Nat \ {0}
  PROVE  \E f : Sums(ss, f, Len(ss)) /\ FlattenSeq(ss) = f[Len(ss)]
<1> DEFINE f == CHOOSE f : f = [i \in 1..Len(ss) |->
                                  IF i = 1 THEN ss[i] ELSE f[i - 1] \o ss[i]]
<1>1. Sums(ss, f, Len(ss))
  BY SumsExist DEF Sums
<1>2. FlattenSeq(ss) = f[Len(ss)]
  BY DEF FlattenSeq
<1> QED
  BY <1>1, <1>2

\* The partial concatenations are sequences over the same set.
LEMMA SumsType ==
  ASSUME NEW S, NEW n \in Nat, NEW ss \in Seq(Seq(S)), n <= Len(ss), NEW f, Sums(ss, f, n)
  PROVE  \A i \in 1..n : f[i] \in Seq(S)
<1> DEFINE Bad == {i \in 1..n : f[i] \notin Seq(S)}
<1>1. SUFFICES ASSUME Bad # {} PROVE FALSE
  OBVIOUS
<1>2. PICK i \in Bad : \A j \in Bad : i <= j
  <2>1. Bad \subseteq Nat
    OBVIOUS
  <2> QED
    BY <1>1, <2>1, LeastOf
<1>3. Len(ss) \in Nat /\ \A j \in 1..Len(ss) : ss[j] \in Seq(S)
  BY LenProperties, ElementOfSeq
<1>4. ss[i] \in Seq(S)
  BY <1>2, <1>3
<1>5. f[i] = IF i = 1 THEN ss[i] ELSE f[i - 1] \o ss[i]
  BY <1>2 DEF Sums
<1>6. i # 1
  BY <1>2, <1>4, <1>5
<1>7. i - 1 \in 1..n /\ i - 1 \notin Bad
  BY <1>2, <1>6
<1>8. f[i - 1] \in Seq(S)
  BY <1>7
<1>9. f[i - 1] \o ss[i] \in Seq(S)
  BY <1>4, <1>8, ConcatProperties
<1> QED
  BY <1>2, <1>5, <1>6, <1>9

Agree(ss, tt, n) == \A i \in 1..n : ss[i] = tt[i]

\* Two sequences that agree on their first n elements have the same partial
\* concatenations up to there.
LEMMA SumsAgree ==
  ASSUME NEW ss, NEW tt, NEW f, NEW g, NEW m \in Nat, NEW n \in Nat, m <= n,
         Sums(ss, f, m), Sums(tt, g, n), Agree(ss, tt, m)
  PROVE  Agree(f, g, m)
<1> DEFINE Bad == {i \in 1..m : f[i] # g[i]}
<1>1. SUFFICES ASSUME Bad # {} PROVE FALSE
  BY DEF Agree
<1>2. PICK i \in Bad : \A j \in Bad : i <= j
  <2>1. Bad \subseteq Nat
    OBVIOUS
  <2> QED
    BY <1>1, <2>1, LeastOf
<1>3. i \in 1..m /\ i \in 1..n /\ ss[i] = tt[i]
  BY <1>2 DEF Agree
<1>4. /\ f[i] = IF i = 1 THEN ss[i] ELSE f[i - 1] \o ss[i]
      /\ g[i] = IF i = 1 THEN tt[i] ELSE g[i - 1] \o tt[i]
  BY <1>3 DEF Sums
<1>5. i # 1
  BY <1>2, <1>3, <1>4
<1>6. i - 1 \in 1..m /\ i - 1 \notin Bad
  BY <1>2, <1>3, <1>5
<1>7. f[i - 1] = g[i - 1]
  BY <1>6
<1> QED
  BY <1>2, <1>3, <1>4, <1>5, <1>7

\* Nothing concatenated.
LEMMA FlattenNone == FlattenSeq(<<>>) = <<>>
  BY EmptySeq DEF FlattenSeq

\* A concatenation of sequences is a sequence over the same set.
LEMMA FlattenType ==
  ASSUME NEW S, NEW ss \in Seq(Seq(S))
  PROVE  FlattenSeq(ss) \in Seq(S)
<1>1. CASE ss = <<>>
  BY <1>1, FlattenNone, EmptySeq
<1>2. CASE ss # <<>>
  <2>1. Len(ss) \in Nat \ {0}
    BY <1>2, EmptySeq
  <2>2. PICK f : Sums(ss, f, Len(ss)) /\ FlattenSeq(ss) = f[Len(ss)]
    BY <2>1, FlattenBySums
  <2> QED
    BY <2>1, <2>2, SumsType
<1> QED
  BY <1>1, <1>2

\* One more sequence comes last.
LEMMA FlattenAppend ==
  ASSUME NEW S, NEW ss \in Seq(Seq(S)), NEW s \in Seq(S)
  PROVE  FlattenSeq(Append(ss, s)) = FlattenSeq(ss) \o s
<1> DEFINE tt == Append(ss, s)
           n  == Len(ss)
<1>1. /\ tt \in Seq(Seq(S)) /\ Len(tt) = n + 1 /\ tt[n + 1] = s
      /\ \A i \in 1..n : tt[i] = ss[i]
      /\ n \in Nat
  BY AppendProperties, LenProperties
<1> HIDE DEF tt
<1>2. Len(tt) \in Nat \ {0}
  BY <1>1
<1>3. PICK g : Sums(tt, g, Len(tt)) /\ FlattenSeq(tt) = g[Len(tt)]
  BY <1>2, FlattenBySums
<1>4. g[n + 1] = IF n + 1 = 1 THEN tt[n + 1] ELSE g[n] \o tt[n + 1]
  <2>1. n + 1 \in 1..Len(tt) /\ (n + 1) - 1 = n
    BY <1>1
  <2> QED
    BY <1>3, <2>1 DEF Sums
<1>5. CASE n = 0
  <2>1. ss = <<>>
    BY <1>5, EmptySeq
  <2>2. <<>> \o s = s
    BY ConcatEmptySeq
  <2> QED
    BY <1>1, <1>3, <1>4, <1>5, <2>1, <2>2, FlattenNone DEF tt
<1>6. CASE n # 0
  <2>1. PICK f : Sums(ss, f, n) /\ FlattenSeq(ss) = f[n]
    BY <1>1, <1>6, FlattenBySums
  <2>2. f[n] = g[n]
    <3>1. n <= Len(tt) /\ n \in 1..n
      BY <1>1, <1>6
    <3>2. n \in Nat /\ Len(tt) \in Nat /\ Agree(ss, tt, n)
      BY <1>1, <1>2 DEF Agree
    <3> HIDE DEF n
    <3>3. Agree(f, g, n)
      BY <1>3, <2>1, <3>1, <3>2, SumsAgree
    <3> QED
      BY <3>1, <3>3 DEF Agree
  <2> QED
    BY <1>1, <1>3, <1>4, <1>6, <2>1, <2>2 DEF tt
<1> QED
  BY <1>5, <1>6

\* One sequence concatenated.
LEMMA FlattenSingle ==
  ASSUME NEW S, NEW s \in Seq(S)
  PROVE  FlattenSeq(<<s>>) = s
<1>1. <<>> \in Seq(Seq(S)) /\ <<s>> = Append(<<>>, s)
  BY EmptySeq
<1>2. FlattenSeq(Append(<<>>, s)) = FlattenSeq(<<>>) \o s
  BY <1>1, FlattenAppend
<1>3. <<>> \o s = s
  BY ConcatEmptySeq
<1> QED
  BY <1>1, <1>2, <1>3, FlattenNone

\* A sequence begins with its head.
LEMMA HeadFirst ==
  ASSUME NEW S, NEW s \in Seq(S), s # <<>>
  PROVE  s = <<Head(s)>> \o Tail(s)
<1>1. Len(s) \in Nat \ {0}
  BY EmptySeq
<1>2. 1 \in 1..Len(s) /\ Len(s) \in 1..Len(s)
  BY <1>1
<1>3. SubSeq(s, 1, Len(s)) = <<s[1]>> \o SubSeq(s, 1 + 1, Len(s))
  BY <1>2, SubSeqRecursiveFirst
<1>4. SubSeq(s, 1, Len(s)) = s
  BY SubSeqFull
<1>5. Tail(s) = SubSeq(s, 2, Len(s)) /\ Head(s) = s[1]
  BY TailIsSubSeq
<1> QED
  BY <1>3, <1>4, <1>5

\* A sequence ends in an element or is empty.
LEMMA EndsIn ==
  ASSUME NEW S, NEW s \in Seq(S), s # <<>>
  PROVE  \E t \in Seq(S), x \in S : s = Append(t, x) /\ Len(s) = Len(t) + 1
<1>1. Len(s) \in Nat \ {0} /\ \A i \in 1..Len(s) : s[i] \in S
  BY EmptySeq, LenProperties, ElementOfSeq
<1>0. PICK n \in Nat : Len(s) = n + 1
  <2>1. Len(s) - 1 \in Nat /\ Len(s) = (Len(s) - 1) + 1
    BY <1>1
  <2> QED
    BY <2>1
<1> DEFINE t == SubSeq(s, 1, n)
<1>2. /\ t \in Seq(S) /\ Len(t) = n
      /\ \A i \in 1..n : t[i] = s[i]
  <2>1. 1 \in Int /\ n \in Int /\ \A i \in 1..n : s[i] \in S
    BY <1>0, <1>1
  <2>2. /\ t \in Seq(S)
        /\ Len(t) = IF 1 <= n THEN n - 1 + 1 ELSE 0
        /\ \A i \in 1..(n - 1 + 1) : t[i] = s[1 + i - 1]
    BY <2>1, SubSeqProperties
  <2> HIDE DEF t
  <2> QED
    BY <1>0, <2>2
<1>3. s[Len(s)] \in S
  BY <1>1
<1> HIDE DEF t
<1>4. s = Append(t, s[Len(s)])
  <2>1. /\ Append(t, s[Len(s)]) \in Seq(S) /\ Len(Append(t, s[Len(s)])) = Len(t) + 1
        /\ Append(t, s[Len(s)])[Len(t) + 1] = s[Len(s)]
        /\ \A i \in 1..Len(t) : Append(t, s[Len(s)])[i] = t[i]
    BY <1>2, <1>3, AppendProperties
  <2>2. \A i \in 1..Len(s) : Append(t, s[Len(s)])[i] = s[i]
    BY <1>0, <1>1, <1>2, <2>1
  <2> QED
    BY <1>0, <1>1, <1>2, <2>1, <2>2, SeqEqual
<1>5. Len(s) = Len(t) + 1
  BY <1>0, <1>2
<1> QED
  BY <1>2, <1>3, <1>4, <1>5

\* Appending to a concatenation.
LEMMA ConcatAppend ==
  ASSUME NEW S, NEW s \in Seq(S), NEW t \in Seq(S), NEW x \in S
  PROVE  s \o Append(t, x) = Append(s \o t, x) /\ s \o t \in Seq(S)
<1>1. Append(t, x) = t \o <<x>> /\ <<x>> \in Seq(S)
  BY AppendIsConcat
<1>2. s \o t \in Seq(S)
  BY ConcatProperties
<1>3. Append(s \o t, x) = (s \o t) \o <<x>>
  BY <1>2, AppendIsConcat
<1>4. (s \o t) \o <<x>> = s \o (t \o <<x>>)
  BY <1>1, ConcatAssociative
<1> QED
  BY <1>1, <1>2, <1>3, <1>4

\* Appending to a concatenation of two.
LEMMA ConcatThree ==
  ASSUME NEW S, NEW s \in Seq(S), NEW t \in Seq(S), NEW u \in Seq(S), NEW st, st = s \o t
  PROVE  st \o u = s \o (t \o u)
  BY ConcatAssociative

\* The concatenation of two sequences of sequences.
LEMMA FlattenConcat ==
  ASSUME NEW S, NEW ss \in Seq(Seq(S)), NEW tt \in Seq(Seq(S))
  PROVE  FlattenSeq(ss \o tt) = FlattenSeq(ss) \o FlattenSeq(tt)
<1> DEFINE Good(uu) == FlattenSeq(ss \o uu) = FlattenSeq(ss) \o FlattenSeq(uu)
           Bad == {n \in Nat : \E uu \in Seq(Seq(S)) : Len(uu) = n /\ ~Good(uu)}
<1>0. \A uu \in Seq(Seq(S)) : Len(uu) \in Nat
  BY LenProperties
<1>1. SUFFICES ASSUME Bad # {} PROVE FALSE
  BY <1>0
<1>2. PICK n \in Bad : \A m \in Bad : n <= m
  BY <1>1, LeastOf
<1>3. PICK uu \in Seq(Seq(S)) : Len(uu) = n /\ ~Good(uu)
  BY <1>2
<1>4. FlattenSeq(ss) \in Seq(S)
  BY FlattenType
<1>5. uu # <<>>
  <2>1. ss \o <<>> = ss /\ FlattenSeq(ss) \o <<>> = FlattenSeq(ss)
    BY <1>4, ConcatEmptySeq
  <2> QED
    BY <1>3, <2>1, FlattenNone
<1>6. PICK vv \in Seq(Seq(S)), v \in Seq(S) : uu = Append(vv, v) /\ Len(uu) = Len(vv) + 1
  BY <1>5, EndsIn
<1>7. Good(vv)
  <2>1. Len(vv) \in Nat /\ ~(n <= Len(vv))
    BY <1>0, <1>3, <1>6
  <2> QED
    BY <1>2, <2>1
<1>8. ss \o uu = Append(ss \o vv, v) /\ ss \o vv \in Seq(Seq(S))
  BY <1>6, ConcatAppend
<1>9. FlattenSeq(ss \o uu) = FlattenSeq(ss \o vv) \o v
  BY <1>8, FlattenAppend
<1>10. FlattenSeq(uu) = FlattenSeq(vv) \o v
  BY <1>6, FlattenAppend
<1>11. FlattenSeq(vv) \in Seq(S)
  BY FlattenType
<1>12. FlattenSeq(ss \o vv) = FlattenSeq(ss) \o FlattenSeq(vv)
  BY <1>7
<1>13. FlattenSeq(ss \o uu) = FlattenSeq(ss) \o FlattenSeq(uu)
  <2> HIDE DEF Good, Bad
  <2>1. v \in Seq(S)
    OBVIOUS
  <2> QED
    BY ONLY <1>4, <1>9, <1>10, <1>11, <1>12, <2>1, ConcatThree, SMTT(60)
<1> QED
  BY <1>3, <1>13

-----------------------------------------------------------------------------
(* Sets of elements                                                        *)

\* The elements of a sequence.
LEMMA ToSetIndices ==
  ASSUME NEW S, NEW s \in Seq(S)
  PROVE  /\ Len(s) \in Nat
         /\ \A x : x \in ToSet(s) <=> \E i \in 1..Len(s) : x = s[i]
         /\ ToSet(s) \subseteq S
         /\ \A i \in 1..Len(s) : s[i] \in S
<1>1. DOMAIN s = 1..Len(s) /\ Len(s) \in Nat /\ \A i \in 1..Len(s) : s[i] \in S
  BY LenProperties, ElementOfSeq
<1> QED
  BY <1>1 DEF ToSet

\* Appending an element.
LEMMA ToSetAppend ==
  ASSUME NEW S, NEW s \in Seq(S), NEW e \in S
  PROVE  ToSet(Append(s, e)) = ToSet(s) \cup {e}
<1> DEFINE t == Append(s, e)
<1>1. /\ t \in Seq(S)
      /\ Len(t) = Len(s) + 1
      /\ \A i \in 1..Len(s) : t[i] = s[i]
      /\ t[Len(s) + 1] = e
  BY AppendProperties
<1> HIDE DEF t
<1>2. /\ Len(s) \in Nat
      /\ \A x : x \in ToSet(s) <=> \E i \in 1..Len(s) : x = s[i]
  BY ToSetIndices
<1>3. \A x : x \in ToSet(t) <=> \E i \in 1..Len(t) : x = t[i]
  BY <1>1, ToSetIndices
<1>4. \A i \in 1..Len(t) : i \in 1..Len(s) \/ i = Len(s) + 1
  BY <1>1, <1>2
<1>5. \A i \in 1..Len(s) : i \in 1..Len(t)
  BY <1>1, <1>2
<1>6. Len(s) + 1 \in 1..Len(t)
  BY <1>1, <1>2
<1>7. ToSet(t) = ToSet(s) \cup {e}
  BY <1>1, <1>2, <1>3, <1>4, <1>5, <1>6
<1> QED
  BY <1>7 DEF t

\* Taking the first element away.
LEMMA ToSetTail ==
  ASSUME NEW S, NEW s \in Seq(S), s # <<>>
  PROVE  /\ Head(s) \in S
         /\ Tail(s) \in Seq(S)
         /\ ToSet(s) = ToSet(Tail(s)) \cup {Head(s)}
<1> DEFINE t == Tail(s)
<1>1. /\ Head(s) \in S /\ t \in Seq(S)
      /\ Len(t) = Len(s) - 1
      /\ \A i \in 1..Len(t) : t[i] = s[i + 1]
  BY HeadTailProperties
<1>2. Head(s) = s[1] /\ Len(s) \in Nat \ {0}
  BY EmptySeq
<1> HIDE DEF t
<1>3. \A x : x \in ToSet(s) <=> \E i \in 1..Len(s) : x = s[i]
  BY ToSetIndices
<1>4. \A x : x \in ToSet(t) <=> \E i \in 1..Len(t) : x = t[i]
  BY <1>1, ToSetIndices
<1>5. ASSUME NEW x \in ToSet(s) PROVE x \in ToSet(t) \cup {Head(s)}
  <2>1. PICK i \in 1..Len(s) : x = s[i]
    BY <1>3, <1>5
  <2>2. CASE i = 1
    BY <1>2, <2>1, <2>2
  <2>3. CASE i # 1
    <3>1. i - 1 \in 1..Len(t) /\ (i - 1) + 1 = i
      BY <1>1, <1>2, <2>3
    <3>2. t[i - 1] = s[i]
      BY <1>1, <3>1
    <3> QED
      BY <1>4, <2>1, <3>1, <3>2
  <2> QED
    BY <2>2, <2>3
<1>6. ASSUME NEW x \in ToSet(t) \cup {Head(s)} PROVE x \in ToSet(s)
  <2>1. CASE x = Head(s)
    BY <1>2, <1>3, <2>1
  <2>2. CASE x \in ToSet(t)
    <3>1. PICK i \in 1..Len(t) : x = t[i]
      BY <1>4, <2>2
    <3>2. i + 1 \in 1..Len(s) /\ x = s[i + 1]
      BY <1>1, <1>2, <3>1
    <3> QED
      BY <1>3, <3>2
  <2> QED
    BY <1>6, <2>1, <2>2
<1> QED
  BY <1>1, <1>5, <1>6 DEF t

\* A part of a sequence has the elements between its ends.
LEMMA ToSetSubSeq ==
  ASSUME NEW S, NEW s \in Seq(S), NEW m \in 1..(Len(s) + 1), NEW n \in 0..Len(s), m <= n + 1
  PROVE  /\ SubSeq(s, m, n) \in Seq(S)
         /\ Len(SubSeq(s, m, n)) = n - m + 1
         /\ \A x : x \in ToSet(SubSeq(s, m, n)) <=> \E i \in m..n : x = s[i]
<1>1. Len(s) \in Nat /\ \A i \in 1..Len(s) : s[i] \in S
  BY ToSetIndices
<1>2. m \in Int /\ n \in Int /\ \A i \in m..n : i \in 1..Len(s)
  BY <1>1
<1> DEFINE t == SubSeq(s, m, n)
<1>3. /\ t \in Seq(S)
      /\ Len(t) = IF m <= n THEN n - m + 1 ELSE 0
      /\ \A i \in 1..(n - m + 1) : t[i] = s[m + i - 1]
  BY <1>1, <1>2, SubSeqProperties
<1> HIDE DEF t
<1>4. Len(t) = n - m + 1
  BY <1>1, <1>2, <1>3
<1>5. \A x : x \in ToSet(t) <=> \E i \in 1..Len(t) : x = t[i]
  BY <1>3, ToSetIndices
<1>6. ASSUME NEW x, x \in ToSet(t) PROVE \E i \in m..n : x = s[i]
  <2>1. PICK i \in 1..(n - m + 1) : x = t[i]
    BY <1>4, <1>5, <1>6
  <2>2. m + i - 1 \in m..n /\ x = s[m + i - 1]
    BY <1>2, <1>3, <2>1
  <2> QED
    BY <2>2
<1>7. ASSUME NEW x, NEW i \in m..n, x = s[i] PROVE x \in ToSet(t)
  <2>1. i - m + 1 \in 1..(n - m + 1) /\ m + (i - m + 1) - 1 = i
    BY <1>1, <1>2
  <2>2. t[i - m + 1] = s[i]
    BY <1>3, <2>1
  <2> QED
    BY <1>4, <1>5, <1>7, <2>1, <2>2
<1> QED
  BY <1>3, <1>4, <1>6, <1>7 DEF t

\* Nothing is in the empty sequence.
LEMMA ToSetEmpty == ToSet(<<>>) = {}
  BY DEF ToSet

\* The ids in a sequence of blocks with one more block.
LEMMA BlocksAppend ==
  ASSUME NEW S, NEW s \in Seq(S), NEW e \in S, NEW t, t = Append(s, e)
  PROVE  \A x : (\E k \in 1..Len(t) : x \in ToSet(t[k]))
               <=> (\E k \in 1..Len(s) : x \in ToSet(s[k])) \/ x \in ToSet(e)
<1>1. /\ Len(t) = Len(s) + 1
      /\ \A i \in 1..Len(s) : t[i] = s[i]
      /\ t[Len(s) + 1] = e
  BY AppendProperties
<1>2. Len(s) \in Nat
  BY LenProperties
<1> DEFINE n == Len(s)
<1>3. /\ \A k \in 1..Len(t) : k \in 1..n \/ k = n + 1
      /\ \A k \in 1..n : k \in 1..Len(t)
      /\ n + 1 \in 1..Len(t)
  BY <1>1, <1>2
<1>4. ASSUME NEW x, NEW k \in 1..Len(t), x \in ToSet(t[k])
      PROVE  (\E i \in 1..n : x \in ToSet(s[i])) \/ x \in ToSet(e)
  BY <1>1, <1>3, <1>4
<1>5. ASSUME NEW x, x \in ToSet(e) PROVE \E k \in 1..Len(t) : x \in ToSet(t[k])
  BY <1>1, <1>3, <1>5
<1>6. ASSUME NEW x, NEW k \in 1..n, x \in ToSet(s[k])
      PROVE  \E i \in 1..Len(t) : x \in ToSet(t[i])
  BY <1>1, <1>3, <1>6
<1> QED
  BY <1>4, <1>5, <1>6

\* The ids in a sequence of batches with one more batch.
LEMMA QueueAppend ==
  ASSUME NEW S, NEW s \in Seq(S), NEW e \in S, NEW t, t = Append(s, e)
  PROVE  \A x : (\E k \in 1..Len(t) : x \in ToSet(t[k].ids))
               <=> (\E k \in 1..Len(s) : x \in ToSet(s[k].ids)) \/ x \in ToSet(e.ids)
<1>1. /\ Len(t) = Len(s) + 1
      /\ \A i \in 1..Len(s) : t[i] = s[i]
      /\ t[Len(s) + 1] = e
  BY AppendProperties
<1>2. Len(s) \in Nat
  BY LenProperties
<1> DEFINE n == Len(s)
<1>3. /\ \A k \in 1..Len(t) : k \in 1..n \/ k = n + 1
      /\ \A k \in 1..n : k \in 1..Len(t)
      /\ n + 1 \in 1..Len(t)
  BY <1>1, <1>2
<1>4. ASSUME NEW x, NEW k \in 1..Len(t), x \in ToSet(t[k].ids)
      PROVE  (\E i \in 1..n : x \in ToSet(s[i].ids)) \/ x \in ToSet(e.ids)
  BY <1>1, <1>3, <1>4
<1>5. ASSUME NEW x, x \in ToSet(e.ids) PROVE \E k \in 1..Len(t) : x \in ToSet(t[k].ids)
  BY <1>1, <1>3, <1>5
<1>6. ASSUME NEW x, NEW k \in 1..n, x \in ToSet(s[k].ids)
      PROVE  \E i \in 1..Len(t) : x \in ToSet(t[i].ids)
  BY <1>1, <1>3, <1>6
<1> QED
  BY <1>4, <1>5, <1>6

-----------------------------------------------------------------------------
(* The leader's batches                                                    *)

\* The next batch holds the items from pos on; with the last one all are sent.
LEMMA NextBatchIs ==
  ASSUME TypeOK
  PROVE  /\ NextBatch \in Batches
         /\ NextBatch # Finish
         /\ pos + Len(NextBatch.ids) \in 0..Len(items)
         /\ NextBatch.finished => pos + Len(NextBatch.ids) = Len(items)
         /\ \A i \in (pos + 1)..(pos + Len(NextBatch.ids)) :
              items[i] \in ToSet(NextBatch.ids)
<1> DEFINE S == ToSet(items)
           rest == SubSeq(items, pos + 1, Len(items))
           full == SubSeq(rest, 1, SyncNums + 1)
<1>1. items \in Seq(S) /\ pos \in 0..Len(items)
  BY DEF TypeOK
<1> HIDE DEF S
<1>2. Len(items) \in Nat /\ pos \in Nat /\ pos <= Len(items)
  BY <1>1, LenProperties
<1>3. /\ rest \in Seq(S) /\ Len(rest) = Len(items) - pos
      /\ \A x : x \in ToSet(rest) <=> \E i \in (pos + 1)..Len(items) : x = items[i]
  <2> DEFINE m == pos + 1
             n == Len(items)
  <2>1. /\ m \in 1..(Len(items) + 1) /\ n \in 0..Len(items)
        /\ m <= n + 1 /\ n - m + 1 = n - pos
    BY <1>2
  <2> HIDE DEF m, n
  <2>2. /\ SubSeq(items, m, n) \in Seq(S)
        /\ Len(SubSeq(items, m, n)) = n - m + 1
        /\ \A x : x \in ToSet(SubSeq(items, m, n)) <=> \E i \in m..n : x = items[i]
    BY <1>1, <2>1, ToSetSubSeq
  <2> QED
    BY <2>1, <2>2 DEF m, n
<1>4. \A i \in 1..Len(rest) : rest[i] = items[pos + i]
  <2>1. /\ pos + 1 \in Int /\ Len(items) \in Int
        /\ \A i \in (pos + 1)..Len(items) : items[i] \in S
    BY <1>1, <1>2, ElementOfSeq
  <2>2. \A i \in 1..(Len(items) - (pos + 1) + 1) : rest[i] = items[(pos + 1) + i - 1]
    BY <1>1, <2>1, SubSeqProperties
  <2>3. \A i \in 1..Len(rest) : i \in 1..(Len(items) - (pos + 1) + 1) /\ (pos + 1) + i - 1 = pos + i
    BY <1>2, <1>3
  <2> QED
    BY <2>2, <2>3
<1> HIDE DEF rest
<1>5. CASE Len(rest) > SyncNums
  <2>1. NextBatch = [ids |-> full, finished |-> FALSE, taken |-> TRUE]
    BY <1>5 DEF NextBatch, Batch, rest
  <2> DEFINE n == SyncNums + 1
  <2>2. 1 \in 1..(Len(rest) + 1) /\ n \in 0..Len(rest) /\ 1 <= n + 1 /\ n - 1 + 1 = n
    BY <1>2, <1>3, <1>5
  <2> HIDE DEF n
  <2>3. /\ SubSeq(rest, 1, n) \in Seq(S)
        /\ Len(SubSeq(rest, 1, n)) = n
        /\ \A x : x \in ToSet(SubSeq(rest, 1, n)) <=> \E i \in 1..n : x = rest[i]
    <3>1. /\ SubSeq(rest, 1, n) \in Seq(S)
          /\ Len(SubSeq(rest, 1, n)) = n - 1 + 1
      BY <1>3, <2>2, ToSetSubSeq
    <3>2. \A x : x \in ToSet(SubSeq(rest, 1, n)) <=> \E i \in 1..n : x = rest[i]
      BY <1>3, <2>2, ToSetSubSeq
    <3> QED
      BY <2>2, <3>1, <3>2
  <2>4. /\ full \in Seq(S) /\ Len(full) = SyncNums + 1
        /\ \A x : x \in ToSet(full) <=> \E i \in 1..(SyncNums + 1) : x = rest[i]
    BY <2>3 DEF n
  <2> HIDE DEF full
  <2>5. ASSUME NEW i \in (pos + 1)..(pos + Len(full)) PROVE items[i] \in ToSet(full)
    <3>1. /\ i - pos \in 1..(SyncNums + 1) /\ i - pos \in 1..Len(rest)
          /\ pos + (i - pos) = i
      BY <1>2, <1>3, <1>5, <2>4
    <3> QED
      BY <1>4, <2>4, <3>1
  <2>6. pos + Len(full) \in 0..Len(items)
    BY <1>2, <1>3, <1>5, <2>4
  <2> QED
    BY <2>1, <2>4, <2>5, <2>6 DEF Batches, Finish, S
<1>6. CASE ~(Len(rest) > SyncNums)
  <2>1. NextBatch = [ids |-> rest, finished |-> TRUE, taken |-> TRUE]
    BY <1>6 DEF NextBatch, Batch, rest
  <2>2. pos + Len(rest) = Len(items) /\ Len(items) \in 0..Len(items)
    BY <1>2, <1>3
  <2>3. \A i \in (pos + 1)..(pos + Len(rest)) : items[i] \in ToSet(rest)
    BY <1>3, <2>2
  <2> QED
    BY <1>3, <2>1, <2>2, <2>3 DEF Batches, Finish, S
<1> QED
  BY <1>5, <1>6

-----------------------------------------------------------------------------
(* The ids of a sequence that both parties have, and its first ones        *)

Bits(s, A) == [k \in DOMAIN s |-> IF s[k] \in A THEN <<s[k]>> ELSE <<>>]
Only(s, A) == FlattenSeq(Bits(s, A))

\* What is picked of each element.
LEMMA BitsIs ==
  ASSUME NEW S, NEW A, NEW s \in Seq(S)
  PROVE  /\ Bits(s, A) \in Seq(Seq(S))
         /\ Len(Bits(s, A)) = Len(s)
         /\ \A k \in 1..Len(s) : Bits(s, A)[k] = IF s[k] \in A THEN <<s[k]>> ELSE <<>>
<1>1. Len(s) \in Nat /\ DOMAIN s = 1..Len(s) /\ \A k \in 1..Len(s) : s[k] \in S
  BY LenProperties, ElementOfSeq
<1> DEFINE n == Len(s)
           b == [k \in 1..n |-> IF s[k] \in A THEN <<s[k]>> ELSE <<>>]
<1>2. Bits(s, A) = b
  BY <1>1 DEF Bits
<1>3. \A k \in 1..n : (IF s[k] \in A THEN <<s[k]>> ELSE <<>>) \in Seq(S)
  BY <1>1
<1>4. b \in [1..n -> Seq(S)] /\ n \in Nat
  BY <1>1, <1>3
<1>5. b \in Seq(Seq(S)) /\ Len(b) = n
  BY <1>4
<1> QED
  BY <1>2, <1>5

\* What is picked from a sequence is a sequence.
LEMMA OnlyType ==
  ASSUME NEW S, NEW A, NEW s \in Seq(S)
  PROVE  Only(s, A) \in Seq(S)
<1>1. Bits(s, A) \in Seq(Seq(S))
  BY BitsIs
<1> QED
  BY <1>1, FlattenType DEF Only

\* Picking from a concatenation.
LEMMA OnlyConcat ==
  ASSUME NEW S, NEW A, NEW s \in Seq(S), NEW t \in Seq(S)
  PROVE  Only(s \o t, A) = Only(s, A) \o Only(t, A)
<1>1. /\ s \o t \in Seq(S) /\ Len(s \o t) = Len(s) + Len(t)
      /\ \A i \in 1..Len(s) + Len(t) : (s \o t)[i] = IF i <= Len(s) THEN s[i] ELSE t[i - Len(s)]
  BY ConcatProperties
<1> DEFINE st == s \o t
           bs == Bits(s, A)
           bt == Bits(t, A)
           b  == Bits(st, A)
<1> HIDE DEF st
<1>2. /\ bs \in Seq(Seq(S)) /\ Len(bs) = Len(s)
      /\ \A k \in 1..Len(s) : bs[k] = IF s[k] \in A THEN <<s[k]>> ELSE <<>>
  BY BitsIs
<1>3. /\ bt \in Seq(Seq(S)) /\ Len(bt) = Len(t)
      /\ \A k \in 1..Len(t) : bt[k] = IF t[k] \in A THEN <<t[k]>> ELSE <<>>
  BY BitsIs
<1>4. /\ b \in Seq(Seq(S)) /\ Len(b) = Len(st)
      /\ \A k \in 1..Len(st) : b[k] = IF st[k] \in A THEN <<st[k]>> ELSE <<>>
  <2>1. st \in Seq(S)
    BY <1>1 DEF st
  <2> QED
    BY <2>1, BitsIs
<1>5. Len(s) \in Nat /\ Len(t) \in Nat
  BY LenProperties
<1> HIDE DEF bs, bt, b
<1>6. /\ bs \o bt \in Seq(Seq(S)) /\ Len(bs \o bt) = Len(s) + Len(t)
      /\ \A i \in 1..Len(s) + Len(t) : (bs \o bt)[i] = IF i <= Len(s) THEN bs[i] ELSE bt[i - Len(s)]
  <2> DEFINE T == Seq(S)
  <2>1. bs \in Seq(T) /\ bt \in Seq(T)
    BY <1>2, <1>3
  <2> HIDE DEF T
  <2>2. /\ bs \o bt \in Seq(T) /\ Len(bs \o bt) = Len(bs) + Len(bt)
        /\ \A i \in 1..Len(bs) + Len(bt) :
             (bs \o bt)[i] = IF i <= Len(bs) THEN bs[i] ELSE bt[i - Len(bs)]
    BY <2>1, ConcatProperties
  <2> QED
    BY <1>2, <1>3, <2>2 DEF T
<1>7. ASSUME NEW k \in 1..(Len(s) + Len(t)) PROVE b[k] = (bs \o bt)[k]
  <2>1. b[k] = IF st[k] \in A THEN <<st[k]>> ELSE <<>>
    BY <1>1, <1>4 DEF st
  <2>2. CASE k <= Len(s)
    <3>1. k \in 1..Len(s) /\ st[k] = s[k] /\ (bs \o bt)[k] = bs[k]
      BY <1>1, <1>5, <1>6, <2>2 DEF st
    <3> QED
      BY <1>2, <2>1, <3>1
  <2>3. CASE ~(k <= Len(s))
    <3>1. k - Len(s) \in 1..Len(t)
      BY <1>5, <2>3
    <3>2. st[k] = t[k - Len(s)] /\ (bs \o bt)[k] = bt[k - Len(s)]
      BY <1>1, <1>6, <2>3 DEF st
    <3> QED
      BY <1>3, <2>1, <3>1, <3>2
  <2> QED
    BY <2>2, <2>3
<1>8. b = bs \o bt
  <2>1. Len(b) = Len(s) + Len(t) /\ Len(bs \o bt) = Len(b)
    BY <1>1, <1>4, <1>6 DEF st
  <2>2. \A k \in 1..Len(b) : b[k] = (bs \o bt)[k]
    BY <1>7, <2>1
  <2> QED
    BY <1>4, <1>6, <2>1, <2>2, SeqEqual
<1>9. FlattenSeq(bs \o bt) = FlattenSeq(bs) \o FlattenSeq(bt)
  BY <1>2, <1>3, FlattenConcat
<1> QED
  BY <1>8, <1>9 DEF Only, st, b, bs, bt

\* Picking from nothing and from one element.
LEMMA OnlyOne ==
  ASSUME NEW A
  PROVE  /\ Only(<<>>, A) = <<>>
         /\ \A x : Only(<<x>>, A) = IF x \in A THEN <<x>> ELSE <<>>
<1>1. Only(<<>>, A) = <<>>
  <2>1. Bits(<<>>, A) = <<>>
    BY DEF Bits
  <2> QED
    BY <2>1, FlattenNone DEF Only
<1>2. ASSUME NEW x PROVE Only(<<x>>, A) = IF x \in A THEN <<x>> ELSE <<>>
  <2> DEFINE y == IF x \in A THEN <<x>> ELSE <<>>
  <2>1. Bits(<<x>>, A) = <<y>>
    BY DEF Bits
  <2> DEFINE S == {x}
  <2>7. x \in S
    OBVIOUS
  <2> HIDE DEF S
  <2>2. y \in Seq(S)
    BY <2>7, EmptySeq
  <2> HIDE DEF y
  <2>6. <<>> \in Seq(Seq(S)) /\ <<y>> = Append(<<>>, y)
    BY EmptySeq
  <2>3. FlattenSeq(Append(<<>>, y)) = FlattenSeq(<<>>) \o y
    BY <2>2, <2>6, FlattenAppend
  <2>4. <<>> \o y = y
    BY <2>2, ConcatEmptySeq
  <2>5. Only(<<x>>, A) = y
    BY <2>1, <2>3, <2>4, <2>6, FlattenNone DEF Only
  <2> QED
    BY <2>5 DEF y
<1> QED
  BY <1>1, <1>2

\* A new element leaves the elements of a sequence distinct.
LEMMA InjectiveAppend ==
  ASSUME NEW S, NEW f \in Seq(S), NEW x \in S, x \notin ToSet(f), IsInjective(f)
  PROVE  IsInjective(Append(f, x))
<1> DEFINE g == Append(f, x)
<1>1. /\ g \in Seq(S) /\ Len(g) = Len(f) + 1 /\ g[Len(f) + 1] = x
      /\ \A i \in 1..Len(f) : g[i] = f[i]
  BY AppendProperties
<1>2. /\ Len(f) \in Nat /\ DOMAIN f = 1..Len(f)
      /\ \A i \in 1..Len(f) : f[i] # x
  BY LenProperties, ToSetIndices
<1> HIDE DEF g
<1>3. DOMAIN g = 1..(Len(f) + 1)
  BY <1>1, LenProperties
<1>4. \A i \in 1..(Len(f) + 1) : i \in 1..Len(f) \/ i = Len(f) + 1
  BY <1>2
<1>5. ASSUME NEW i \in DOMAIN g, NEW j \in DOMAIN g, g[i] = g[j] PROVE i = j
  <2>1. CASE i \in 1..Len(f) /\ j \in 1..Len(f)
    BY <1>1, <1>2, <1>5, <2>1 DEF IsInjective
  <2>2. CASE i = Len(f) + 1 /\ j \in 1..Len(f)
    BY <1>1, <1>2, <1>5, <2>2
  <2>3. CASE j = Len(f) + 1 /\ i \in 1..Len(f)
    BY <1>1, <1>2, <1>5, <2>3
  <2> QED
    BY <1>3, <1>4, <2>1, <2>2, <2>3
<1> QED
  BY <1>5 DEF IsInjective, g

\* What is picked from distinct elements is distinct.
LEMMA OnlyInjective ==
  ASSUME NEW S, NEW A, NEW s \in Seq(S), IsInjective(s)
  PROVE  IsInjective(Only(s, A))
<1> DEFINE Good(u) == /\ ToSet(Only(u, A)) \subseteq ToSet(u)
                      /\ IsInjective(u) => IsInjective(Only(u, A))
           Bad == {n \in Nat : \E u \in Seq(S) : Len(u) = n /\ ~Good(u)}
<1>0. \A u \in Seq(S) : Len(u) \in Nat
  BY LenProperties
<1>1. SUFFICES ASSUME Bad # {} PROVE FALSE
  BY <1>0
<1>2. PICK n \in Bad : \A m \in Bad : n <= m
  BY <1>1, LeastOf
<1>3. PICK u \in Seq(S) : Len(u) = n /\ ~Good(u)
  BY <1>2
<1>4. u # <<>>
  <2>1. Only(<<>>, A) = <<>>
    BY OnlyOne
  <2>2. Good(<<>>)
    BY <2>1
  <2> QED
    BY <1>3, <2>2
<1>5. PICK t \in Seq(S), x \in S : u = Append(t, x) /\ Len(u) = Len(t) + 1
  BY <1>4, EndsIn
<1>6. Good(t)
  <2>1. Len(t) \in Nat /\ ~(n <= Len(t))
    BY <1>0, <1>3, <1>5
  <2> QED
    BY <1>2, <2>1
<1> HIDE DEF Bad
<1> DEFINE f == Only(t, A)
<1>7. ToSet(f) \subseteq ToSet(t) /\ (IsInjective(t) => IsInjective(f))
  BY <1>6
<1>8. ~(ToSet(Only(u, A)) \subseteq ToSet(u) /\ (IsInjective(u) => IsInjective(Only(u, A))))
  BY <1>3
<1> HIDE DEF Good
<1>9. ToSet(u) = ToSet(t) \cup {x}
  BY <1>5, ToSetAppend
<1>10. Only(u, A) = IF x \in A THEN Append(f, x) ELSE f
  <2>1. u = t \o <<x>> /\ <<x>> \in Seq(S)
    BY <1>5, AppendIsConcat
  <2>2. Only(t \o <<x>>, A) = Only(t, A) \o Only(<<x>>, A)
    BY <2>1, OnlyConcat
  <2>3. Only(<<x>>, A) = IF x \in A THEN <<x>> ELSE <<>>
    BY OnlyOne
  <2>4. f \in Seq(S)
    BY OnlyType
  <2> HIDE DEF f
  <2>5. Append(f, x) = f \o <<x>> /\ f \o <<>> = f
    BY <2>4, AppendIsConcat, ConcatEmptySeq
  <2> QED
    BY <2>1, <2>2, <2>3, <2>5 DEF f
<1>11. f \in Seq(S)
  BY OnlyType
<1> HIDE DEF f
<1>12. ASSUME IsInjective(u) PROVE IsInjective(t) /\ x \notin ToSet(t)
  <2>1. /\ Len(u) = Len(t) + 1 /\ u[Len(t) + 1] = x /\ \A i \in 1..Len(t) : u[i] = t[i]
    BY <1>5, AppendProperties
  <2>2. Len(t) \in Nat /\ DOMAIN t = 1..Len(t) /\ DOMAIN u = 1..Len(u)
    BY LenProperties
  <2>3. \A i \in 1..Len(t) : i \in DOMAIN u /\ Len(t) + 1 \in DOMAIN u /\ i # Len(t) + 1
    BY <2>1, <2>2
  <2>4. IsInjective(t)
    BY <1>12, <2>1, <2>2, <2>3 DEF IsInjective
  <2>5. \A i \in 1..Len(t) : t[i] # x
    BY <1>12, <2>1, <2>3 DEF IsInjective
  <2>6. x \notin ToSet(t)
    BY <2>5, ToSetIndices
  <2> QED
    BY <2>4, <2>6
<1>13. CASE x \notin A
  BY <1>7, <1>8, <1>9, <1>10, <1>12, <1>13
<1>14. CASE x \in A
  <2>1. ToSet(Append(f, x)) = ToSet(f) \cup {x}
    BY <1>11, ToSetAppend
  <2>2. IsInjective(u) => IsInjective(Append(f, x))
    <3> SUFFICES ASSUME IsInjective(u) PROVE IsInjective(Append(f, x))
      OBVIOUS
    <3>1. IsInjective(f) /\ x \notin ToSet(f)
      BY <1>7, <1>12
    <3> QED
      BY <1>11, <3>1, InjectiveAppend
  <2> QED
    BY <1>7, <1>8, <1>9, <1>10, <1>14, <2>1, <2>2
<1> QED
  BY <1>13, <1>14

\* Parts of a sequence of distinct elements.
LEMMA InjectiveParts ==
  ASSUME NEW S, NEW s \in Seq(S), NEW t \in Seq(S), IsInjective(s \o t)
  PROVE  IsInjective(s)
<1> DEFINE st == s \o t
<1>1. /\ st \in Seq(S) /\ Len(st) = Len(s) + Len(t)
      /\ \A i \in 1..Len(s) + Len(t) : st[i] = IF i <= Len(s) THEN s[i] ELSE t[i - Len(s)]
  BY ConcatProperties
<1>2. IsInjective(st)
  OBVIOUS
<1> HIDE DEF st
<1>3. Len(s) \in Nat /\ Len(t) \in Nat /\ DOMAIN s = 1..Len(s) /\ DOMAIN st = 1..Len(st)
  BY <1>1, LenProperties
<1>4. \A i \in DOMAIN s : i \in DOMAIN st /\ st[i] = s[i]
  BY <1>1, <1>3
<1> QED
  BY <1>2, <1>4 DEF IsInjective

Marks(s) ==
  [i \in DOMAIN s |-> IF \E j \in 1..(i - 1) : s[j] = s[i] THEN <<>> ELSE <<s[i]>>]

\* What FirstOnes takes at each place.
LEMMA MarksIs ==
  ASSUME NEW S, NEW s \in Seq(S)
  PROVE  /\ Marks(s) \in Seq(Seq(S))
         /\ Len(Marks(s)) = Len(s)
         /\ \A i \in 1..Len(s) :
              Marks(s)[i] = IF \E j \in 1..(i - 1) : s[j] = s[i] THEN <<>> ELSE <<s[i]>>
<1>1. Len(s) \in Nat /\ DOMAIN s = 1..Len(s) /\ \A k \in 1..Len(s) : s[k] \in S
  BY LenProperties, ElementOfSeq
<1> DEFINE n == Len(s)
           e(i) == IF \E j \in 1..(i - 1) : s[j] = s[i] THEN <<>> ELSE <<s[i]>>
           b == [i \in 1..n |-> e(i)]
<1>2. Marks(s) = b
  BY <1>1 DEF Marks
<1>3. \A i \in 1..n : e(i) \in Seq(S)
  BY <1>1
<1> HIDE DEF e
<1>4. b \in [1..n -> Seq(S)] /\ n \in Nat
  BY <1>1, <1>3
<1>5. b \in Seq(Seq(S)) /\ Len(b) = n
  BY <1>4
<1>6. \A i \in 1..n : b[i] = e(i)
  OBVIOUS
<1> QED
  BY <1>2, <1>5, <1>6 DEF e

\* The last id of a sequence is one of its first ones when it is new.
LEMMA FirstOnesAppend ==
  ASSUME NEW S, NEW t \in Seq(S), NEW x \in S
  PROVE  /\ FirstOnes(t) \in Seq(S)
         /\ x \in ToSet(t) => FirstOnes(Append(t, x)) = FirstOnes(t)
         /\ x \notin ToSet(t) => FirstOnes(Append(t, x)) = Append(FirstOnes(t), x)
<1> DEFINE s == Append(t, x)
           n == Len(t)
           e == IF x \in ToSet(t) THEN <<>> ELSE <<x>>
<1>1. /\ s \in Seq(S) /\ Len(s) = n + 1 /\ s[n + 1] = x /\ n \in Nat
      /\ \A i \in 1..n : s[i] = t[i]
  BY AppendProperties, LenProperties
<1>2. x \in ToSet(t) <=> \E i \in 1..n : x = t[i]
  BY ToSetIndices
<1>3. e \in Seq(S)
  BY EmptySeq
<1> HIDE DEF s
<1>4. /\ Marks(t) \in Seq(Seq(S)) /\ Len(Marks(t)) = n
      /\ \A i \in 1..n :
           Marks(t)[i] = IF \E j \in 1..(i - 1) : t[j] = t[i] THEN <<>> ELSE <<t[i]>>
  BY MarksIs
<1>5. /\ Marks(s) \in Seq(Seq(S)) /\ Len(Marks(s)) = n + 1
      /\ \A i \in 1..(n + 1) :
           Marks(s)[i] = IF \E j \in 1..(i - 1) : s[j] = s[i] THEN <<>> ELSE <<s[i]>>
  <2>1. /\ Marks(s) \in Seq(Seq(S)) /\ Len(Marks(s)) = Len(s)
        /\ \A i \in 1..Len(s) :
             Marks(s)[i] = IF \E j \in 1..(i - 1) : s[j] = s[i] THEN <<>> ELSE <<s[i]>>
    BY <1>1, MarksIs
  <2> QED
    BY <1>1, <2>1
<1>6. Marks(s)[n + 1] = e
  <2>1. (\E j \in 1..n : s[j] = x) <=> x \in ToSet(t)
    BY <1>1, <1>2
  <2>2. n + 1 \in 1..(n + 1) /\ (n + 1) - 1 = n
    BY <1>1
  <2>3. Marks(s)[n + 1] = IF \E j \in 1..n : s[j] = x THEN <<>> ELSE <<x>>
    BY <1>1, <1>5, <2>2
  <2> QED
    BY <2>1, <2>3
<1>7. ASSUME NEW i \in 1..n PROVE Marks(s)[i] = Marks(t)[i]
  <2>1. i \in 1..(n + 1) /\ s[i] = t[i] /\ \A j \in 1..(i - 1) : s[j] = t[j]
    BY <1>1
  <2>2. (\E j \in 1..(i - 1) : s[j] = s[i]) <=> \E j \in 1..(i - 1) : t[j] = t[i]
    BY <2>1
  <2> QED
    BY <1>4, <1>5, <2>1, <2>2
<1> DEFINE a == Append(Marks(t), e)
<1>8. /\ a \in Seq(Seq(S)) /\ Len(a) = n + 1 /\ a[n + 1] = e
      /\ \A i \in 1..n : a[i] = Marks(t)[i]
  <2> HIDE DEF e
  <2> DEFINE m == Marks(t)
             T == Seq(S)
  <2>1. m \in Seq(T) /\ e \in T /\ Len(m) = n
    BY <1>3, <1>4
  <2> HIDE DEF m, T
  <2>2. /\ Append(m, e) \in Seq(T) /\ Len(Append(m, e)) = Len(m) + 1
        /\ Append(m, e)[Len(m) + 1] = e
        /\ \A i \in 1..Len(m) : Append(m, e)[i] = m[i]
    BY <2>1, AppendProperties
  <2> QED
    BY <2>1, <2>2 DEF m, T
<1>9. Marks(s) = a
  <2> HIDE DEF a
  <2>1. \A i \in 1..(n + 1) : i \in 1..n \/ i = n + 1
    BY <1>1
  <2>2. \A i \in 1..(n + 1) : Marks(s)[i] = a[i]
    BY <1>6, <1>7, <1>8, <2>1
  <2> QED
    BY <1>5, <1>8, <2>2, SeqEqual
<1>10. FlattenSeq(a) = FlattenSeq(Marks(t)) \o e
  <2> HIDE DEF e
  <2> QED
    BY <1>3, <1>4, FlattenAppend
<1>11. FirstOnes(t) \in Seq(S)
  BY <1>4, FlattenType DEF FirstOnes, Marks
<1>12. FirstOnes(s) = FirstOnes(t) \o e
  BY <1>9, <1>10 DEF FirstOnes, Marks
<1>13. CASE x \in ToSet(t)
  BY <1>11, <1>12, <1>13, ConcatEmptySeq DEF s
<1>14. CASE x \notin ToSet(t)
  BY <1>11, <1>12, <1>14, AppendIsConcat DEF s
<1> QED
  BY <1>11, <1>13, <1>14

\* Without the ids that come a second time all ids are there, and each once.
LEMMA FirstOnesIs ==
  ASSUME NEW S, NEW s \in Seq(S)
  PROVE  /\ FirstOnes(s) \in Seq(S)
         /\ ToSet(FirstOnes(s)) = ToSet(s)
         /\ IsInjective(FirstOnes(s))
<1> DEFINE Good(u) == /\ FirstOnes(u) \in Seq(S)
                      /\ ToSet(FirstOnes(u)) = ToSet(u)
                      /\ IsInjective(FirstOnes(u))
           Bad == {n \in Nat : \E u \in Seq(S) : Len(u) = n /\ ~Good(u)}
<1>0. \A u \in Seq(S) : Len(u) \in Nat
  BY LenProperties
<1>1. SUFFICES ASSUME Bad # {} PROVE FALSE
  BY <1>0
<1>2. PICK n \in Bad : \A m \in Bad : n <= m
  BY <1>1, LeastOf
<1>3. PICK u \in Seq(S) : Len(u) = n /\ ~Good(u)
  BY <1>2
<1>4. u # <<>>
  <2>1. Marks(<<>>) = <<>>
    BY DEF Marks
  <2>2. FirstOnes(<<>>) = <<>>
    BY <2>1, FlattenNone DEF FirstOnes, Marks
  <2>3. IsInjective(<<>>)
    BY DEF IsInjective
  <2>4. <<>> \in Seq(S)
    BY EmptySeq
  <2>5. Good(<<>>)
    BY <2>2, <2>3, <2>4
  <2> QED
    BY <1>3, <2>5
<1>5. PICK t \in Seq(S), x \in S : u = Append(t, x) /\ Len(u) = Len(t) + 1
  BY <1>4, EndsIn
<1>6. Good(t)
  <2>1. Len(t) \in Nat /\ ~(n <= Len(t))
    BY <1>0, <1>3, <1>5
  <2> QED
    BY <1>2, <2>1
<1> HIDE DEF Bad
<1>7. ToSet(u) = ToSet(t) \cup {x}
  BY <1>5, ToSetAppend
<1>8. CASE x \in ToSet(t)
  <2>1. FirstOnes(u) = FirstOnes(t)
    BY <1>5, <1>8, FirstOnesAppend
  <2> QED
    BY <1>3, <1>6, <1>7, <1>8, <2>1
<1>9. CASE x \notin ToSet(t)
  <2> DEFINE f == FirstOnes(t)
             g == Append(f, x)
  <2>1. FirstOnes(u) = g
    BY <1>5, <1>9, FirstOnesAppend
  <2>2. f \in Seq(S) /\ ToSet(f) = ToSet(t) /\ IsInjective(f)
    BY <1>6
  <2> HIDE DEF f
  <2>3. g \in Seq(S) /\ ToSet(g) = ToSet(u)
    BY <1>7, <2>2, ToSetAppend, AppendProperties
  <2>4. IsInjective(g)
    BY <1>9, <2>2, InjectiveAppend
  <2> QED
    BY <1>3, <2>1, <2>3, <2>4
<1> QED
  BY <1>8, <1>9

\* A sequence is one of its own elements.
LEMMA SeqOfOwn ==
  ASSUME NEW S, NEW s \in Seq(S)
  PROVE  s \in Seq(ToSet(s))
<1>1. Len(s) \in Nat /\ s \in [1..Len(s) -> S] /\ DOMAIN s = 1..Len(s)
  BY LenProperties
<1>2. \A i \in 1..Len(s) : s[i] \in ToSet(s)
  BY ToSetIndices
<1>3. s \in [1..Len(s) -> ToSet(s)]
  BY <1>1, <1>2
<1> QED
  BY <1>1, <1>3

\* Raw data that load give a sequence of ids, each of them once.
LEMMA ItemDictIs ==
  ASSUME NEW files \in LeaderRaw \cup FollowerRaw, Loads(files)
  PROVE  ItemDict(files) \in Seq(ToSet(ItemDict(files))) /\ IsInjective(ItemDict(files))
<1> DEFINE F == ToSet(files)
           S == UNION {ToSet(file) : file \in F}
           r == [k \in DOMAIN files |-> Records(files[k])]
<1>1. files \in Seq(F) /\ \A file \in F : file \in Seq(ToSet(file))
  BY RawAssumption
<1>2. \A file \in F : ToSet(file) \subseteq S
  OBVIOUS
<1> HIDE DEF S, F
<1>3. Len(files) \in Nat /\ DOMAIN files = 1..Len(files) /\ \A k \in 1..Len(files) : files[k] \in F
  BY <1>1, LenProperties, ElementOfSeq
<1>4. ASSUME NEW k \in 1..Len(files) PROVE Records(files[k]) \in Seq(S)
  <2> DEFINE file == files[k]
  <2>1. file \in F /\ file # <<>>
    BY <1>3 DEF Loads, Readable
  <2>2. file \in Seq(S)
    BY <1>1, <1>2, <2>1, SeqMonotonic
  <2> HIDE DEF file
  <2>3. Head(file) \in S /\ Tail(file) \in Seq(S)
    BY <2>1, <2>2, ToSetTail
  <2>4. <<Head(file)>> \in Seq(S)
    BY <2>3
  <2>5. <<Head(file)>> \o Tail(file) \in Seq(S)
    BY <2>3, <2>4, ConcatProperties
  <2> QED
    BY <2>5 DEF Records, file
<1>5. r \in Seq(Seq(S))
  <2>1. r \in [1..Len(files) -> Seq(S)]
    BY <1>3, <1>4
  <2> QED
    BY <1>3, <2>1
<1> HIDE DEF r
<1>6. FlattenSeq(r) \in Seq(S)
  BY <1>5, FlattenType
<1>7. FirstOnes(FlattenSeq(r)) \in Seq(S) /\ IsInjective(FirstOnes(FlattenSeq(r)))
  BY <1>6, FirstOnesIs
<1>8. ItemDict(files) = FirstOnes(FlattenSeq(r))
  BY DEF ItemDict, r
<1> QED
  BY <1>7, <1>8, SeqOfOwn

-----------------------------------------------------------------------------
(* Where the ids are                                                       *)

\* What depends on the raw data alone stays.
LEMMA SameRaw ==
  ASSUME UNCHANGED raw
  PROVE  Common' = Common /\ Batches' = Batches /\ items' = items /\ own' = own
  BY DEF raw, Common, Batches

\* An element sent or joinable is one of the ids of the leader.
LEMMA SentIsCommon ==
  ASSUME TypeOK, NEW i \in 1..pos, items[i] \in own
  PROVE  items[i] \in Common
<1>1. items \in Seq(ToSet(items)) /\ pos \in 0..Len(items)
  BY DEF TypeOK
<1>2. Len(items) \in Nat /\ \A j \in 1..Len(items) : items[j] \in ToSet(items)
  BY <1>1, ToSetIndices
<1>3. i \in 1..Len(items)
  BY <1>1, <1>2
<1> QED
  BY <1>2, <1>3 DEF Common

\* What the leader has sent when it has sent everything.
LEMMA AllIsSent ==
  ASSUME TypeOK, NEW x \in Common
  PROVE  \E i \in 1..Len(items) : x = items[i] /\ items[i] \in own
<1>1. items \in Seq(ToSet(items))
  BY DEF TypeOK
<1>2. \A y : y \in ToSet(items) <=> \E i \in 1..Len(items) : y = items[i]
  BY <1>1, ToSetIndices
<1> QED
  BY <1>2 DEF Common

\* The joiner has no batch, or one with ids of the leader.
LEMMA BatchAtHand ==
  ASSUME TypeOK
  PROVE  /\ batch.taken \in BOOLEAN /\ batch.finished \in BOOLEAN
         /\ ~batch.taken => batch = NoBatch
         /\ batch.taken => batch \in Batches
         /\ batch.ids \in Seq(ToSet(items))
<1>1. batch \in Batches \cup {NoBatch}
  BY DEF TypeOK
<1>2. CASE batch \in Batches
  BY <1>2 DEF Batches
<1>3. CASE batch = NoBatch
  <2>1. batch.ids = <<>> /\ batch.taken = FALSE /\ batch.finished = FALSE
    BY <1>3 DEF NoBatch
  <2>2. <<>> \in Seq(ToSet(items))
    BY EmptySeq
  <2> QED
    BY <1>3, <2>1, <2>2
<1> QED
  BY <1>1, <1>2, <1>3

\* The places of an id.
LEMMA InBlocksIs ==
  ASSUME TypeOK
  PROVE  \A x : x \in InBlocks <=> \E k \in 1..Len(blocks) : x \in ToSet(blocks[k])
<1>1. blocks \in Seq(Seq(Common))
  BY DEF TypeOK
<1>2. DOMAIN blocks = 1..Len(blocks)
  BY <1>1, LenProperties
<1> QED
  BY <1>2 DEF InBlocks

\* One more data block.
LEMMA BlockWritten ==
  ASSUME TypeOK, UNCHANGED raw, NEW ids \in Seq(Common), blocks' = Append(blocks, ids)
  PROVE  /\ blocks' \in Seq(Seq(Common))
         /\ InBlocks' = InBlocks \cup ToSet(ids)
<1>1. blocks \in Seq(Seq(Common))
  BY DEF TypeOK
<1>2. blocks' \in Seq(Seq(Common))
  BY <1>1, AppendProperties
<1>3. DOMAIN blocks' = 1..Len(blocks')
  BY <1>2, LenProperties
<1>4. \A x : x \in InBlocks' <=> \E k \in 1..Len(blocks') : x \in ToSet(blocks'[k])
  BY <1>3 DEF InBlocks
<1>5. \A x : x \in InBlocks' <=> x \in InBlocks \/ x \in ToSet(ids)
  BY <1>1, <1>4, InBlocksIs, BlocksAppend
<1> QED
  BY <1>2, <1>5

\* A batch put in the queue is received after all others.
LEMMA BatchQueued ==
  ASSUME TypeOK, NEW b \in Batches, queue' = Append(queue, b), UNCHANGED <<raw, joinerVars>>
  PROVE  /\ queue' \in Seq(Batches) /\ Len(queue') = Len(queue) + 1
         /\ \A k \in 1..Len(queue) : queue'[k] = queue[k]
         /\ queue'[Len(queue) + 1] = b
         /\ AtJoiner' = AtJoiner
         /\ \A k \in 1..Len(queue) : QueuedUpTo(k)' = QueuedUpTo(k)
         /\ Received' = Received \cup ToSet(b.ids)
<1>1. queue \in Seq(Batches)
  BY DEF TypeOK
<1>2. /\ queue' \in Seq(Batches) /\ Len(queue') = Len(queue) + 1
      /\ \A k \in 1..Len(queue) : queue'[k] = queue[k]
      /\ queue'[Len(queue) + 1] = b
  BY <1>1, AppendProperties
<1>3. Len(queue) \in Nat
  BY <1>1, LenProperties
<1>4. AtJoiner' = AtJoiner
  BY DEF AtJoiner, InBlocks, joinerVars
<1>5. ASSUME NEW n \in 1..Len(queue) PROVE QueuedUpTo(n)' = QueuedUpTo(n)
  <2>1. \A k \in 1..n : queue'[k] = queue[k]
    BY <1>2, <1>3
  <2>2. \A x : x \in QueuedUpTo(n)' <=> x \in QueuedUpTo(n)
    BY <2>1 DEF QueuedUpTo
  <2> QED
    BY <2>2
<1>6. \A x : x \in Received <=> x \in AtJoiner \/ \E k \in 1..Len(queue) : x \in ToSet(queue[k].ids)
  BY DEF Received, QueuedUpTo
<1>7. \A x : x \in Received' <=> x \in AtJoiner' \/ \E k \in 1..Len(queue') : x \in ToSet(queue'[k].ids)
  BY DEF Received, QueuedUpTo
<1>8. \A x : x \in Received' <=> x \in Received \/ x \in ToSet(b.ids)
  <2>1. \A x : (\E k \in 1..Len(queue') : x \in ToSet(queue'[k].ids))
               <=> (\E k \in 1..Len(queue) : x \in ToSet(queue[k].ids)) \/ x \in ToSet(b.ids)
    BY <1>1, QueueAppend
  <2> QED
    BY <1>4, <1>6, <1>7, <2>1
<1> QED
  BY <1>2, <1>4, <1>5, <1>8

\* A batch taken from the queue goes to the joiner, and the others move up.
LEMMA BatchTaken ==
  ASSUME TypeOK, UNCHANGED <<raw, maker, blocks>>, queue # <<>>, ~batch.taken,
         batch' = Head(queue), queue' = Tail(queue)
  PROVE  /\ batch' \in Batches /\ batch' = queue[1]
         /\ queue' \in Seq(Batches) /\ Len(queue') = Len(queue) - 1
         /\ \A k \in 1..Len(queue') : k + 1 \in 1..Len(queue) /\ queue'[k] = queue[k + 1]
         /\ AtJoiner' = AtJoiner \cup ToSet(batch'.ids)
         /\ \A k \in 1..Len(queue') :
              AtJoiner \cup QueuedUpTo(k + 1) \subseteq AtJoiner' \cup QueuedUpTo(k)'
         /\ Received \subseteq Received'
<1>1. queue \in Seq(Batches)
  BY DEF TypeOK
<1>2. /\ batch' \in Batches
      /\ queue' \in Seq(Batches) /\ Len(queue') = Len(queue) - 1
      /\ \A k \in 1..Len(queue') : queue'[k] = queue[k + 1]
  BY <1>1, HeadTailProperties
<1>3. batch' = queue[1] /\ Len(queue) \in Nat /\ Len(queue) # 0
  BY <1>1, EmptySeq, LenProperties
<1>4. \A k \in 1..Len(queue') : k + 1 \in 1..Len(queue)
  BY <1>2, <1>3
<1>5. AtJoiner' = AtJoiner \cup ToSet(batch'.ids)
  <2>1. batch.ids = <<>>
    BY BatchAtHand DEF NoBatch
  <2> QED
    BY <2>1, ToSetEmpty DEF AtJoiner, InBlocks
<1>6. ASSUME NEW k \in Nat, NEW i \in 1..(k + 1), k <= Len(queue'),
             NEW x \in ToSet(queue[i].ids)
      PROVE  x \in AtJoiner' \/ \E j \in 1..k : x \in ToSet(queue'[j].ids)
  <2>1. CASE i = 1
    BY <1>3, <1>5, <2>1
  <2>2. CASE i # 1
    <3>1. /\ i - 1 \in 1..k /\ i - 1 \in 1..Len(queue') /\ (i - 1) + 1 = i
      BY <1>2, <1>3, <1>6, <2>2
    <3>2. queue'[i - 1] = queue[i]
      BY <1>2, <3>1
    <3> QED
      BY <3>1, <3>2
  <2> QED
    BY <2>1, <2>2
<1>7. ASSUME NEW k \in 1..Len(queue')
      PROVE  AtJoiner \cup QueuedUpTo(k + 1) \subseteq AtJoiner' \cup QueuedUpTo(k)'
  <2>1. k \in Nat /\ k <= Len(queue')
    BY <1>2, <1>3
  <2>2. ASSUME NEW x \in QueuedUpTo(k + 1) PROVE x \in AtJoiner' \cup QueuedUpTo(k)'
    <3>1. PICK i \in 1..(k + 1) : x \in ToSet(queue[i].ids)
      BY DEF QueuedUpTo
    <3>2. x \in AtJoiner' \/ \E j \in 1..k : x \in ToSet(queue'[j].ids)
      BY <1>6, <2>1, <3>1
    <3> QED
      BY <3>2 DEF QueuedUpTo
  <2> QED
    BY <1>5, <2>2
<1>8. Received \subseteq Received'
  <2>1. /\ Len(queue') \in Nat /\ Len(queue') <= Len(queue')
        /\ \A i \in 1..Len(queue) : i \in 1..(Len(queue') + 1)
    BY <1>2, <1>3
  <2>2. ASSUME NEW x \in Received PROVE x \in Received'
    <3>1. CASE x \in AtJoiner
      BY <1>5, <3>1 DEF Received
    <3>2. CASE x \in QueuedUpTo(Len(queue))
      <4>1. PICK i \in 1..Len(queue) : x \in ToSet(queue[i].ids)
        BY <3>2 DEF QueuedUpTo
      <4>2. x \in AtJoiner' \/ \E j \in 1..Len(queue') : x \in ToSet(queue'[j].ids)
        BY <1>6, <2>1, <4>1
      <4> QED
        BY <4>2 DEF Received, QueuedUpTo
    <3> QED
      BY <3>1, <3>2 DEF Received
  <2> QED
    BY <2>2
<1> QED
  BY <1>2, <1>3, <1>4, <1>5, <1>7, <1>8

-----------------------------------------------------------------------------
(* What keeps Kept                                                         *)

\* The leader and the handlers of FinishPartition move no id.
LEMMA KeptInPlace ==
  ASSUME TypeOK, Kept,
         UNCHANGED <<raw, queue, batch, maker, blocks, joiner_finished>>,
         sender' # "idle" => {items[i] : i \in 1..pos'} \cap own \subseteq Received,
         send_finished' \/ Finish \in late' => Common \subseteq Received,
         \A b \in late' : b # Finish /\ b.finished => Common \subseteq Received \cup ToSet(b.ids)
  PROVE  Kept'
<1>1. Common' = Common /\ items' = items /\ own' = own
  BY SameRaw
<1>2. AtJoiner' = AtJoiner
  BY DEF AtJoiner, InBlocks
<1>3. \A k \in 1..Len(queue) : QueuedUpTo(k)' = QueuedUpTo(k)
  BY DEF QueuedUpTo
<1>4. Received' = Received
  BY <1>2 DEF Received, QueuedUpTo
<1> QED
  BY <1>1, <1>2, <1>3, <1>4 DEF Kept

\* The joiner moves ids to the open block and to the blocks written.
LEMMA KeptAtJoiner ==
  ASSUME TypeOK, Kept,
         UNCHANGED <<raw, leaderVars, consumerVars>>,
         AtJoiner \cap Common \subseteq AtJoiner',
         batch'.finished \/ joiner_finished' => batch.finished \/ joiner_finished
  PROVE  Kept'
<1>1. /\ Common' = Common /\ items' = items /\ own' = own
      /\ UNCHANGED <<sender, pos, send_finished, queue, late>>
  BY SameRaw DEF leaderVars, consumerVars
<1>2. ASSUME NEW k PROVE QueuedUpTo(k)' = QueuedUpTo(k)
  BY <1>1 DEF QueuedUpTo
<1>3. Received \cap Common \subseteq Received'
  <2>1. QueuedUpTo(Len(queue))' = QueuedUpTo(Len(queue))
    BY <1>1 DEF QueuedUpTo
  <2> QED
    BY <2>1 DEF Received
<1>4. sender' # "idle" => {items'[i] : i \in 1..pos'} \cap own' \subseteq Received'
  BY <1>1, <1>3, SentIsCommon DEF Kept
<1>5. send_finished' \/ Finish \in late' => Common' \subseteq Received'
  BY <1>1, <1>3 DEF Kept
<1>6. \A b \in late' : b # Finish /\ b.finished => Common' \subseteq Received' \cup ToSet(b.ids)
  BY <1>1, <1>3 DEF Kept
<1>7. \A k \in 1..Len(queue') :
        queue'[k].finished => Common' \subseteq AtJoiner' \cup QueuedUpTo(k)'
  BY <1>1, <1>2 DEF Kept
<1>8. batch'.finished \/ joiner_finished' => Common' \subseteq AtJoiner'
  BY <1>1 DEF Kept
<1> QED
  BY <1>4, <1>5, <1>6, <1>7, <1>8 DEF Kept

\* A batch that goes into the queue; a last one must complete what was received.
LEMMA KeptQueued ==
  ASSUME TypeOK, Kept, NEW b \in Batches, queue' = Append(queue, b),
         UNCHANGED <<raw, joinerVars, send_finished>>, late' \subseteq late,
         b.finished => Common \subseteq Received \cup ToSet(b.ids),
         sender' # "idle" => {items[i] : i \in 1..pos'} \cap own \subseteq Received \cup ToSet(b.ids)
  PROVE  Kept'
<1>1. /\ Common' = Common /\ items' = items /\ own' = own
      /\ UNCHANGED <<batch, joiner_finished>>
  BY SameRaw DEF joinerVars
<1>2. /\ Len(queue') = Len(queue) + 1
      /\ \A k \in 1..Len(queue) : queue'[k] = queue[k]
      /\ queue'[Len(queue) + 1] = b
      /\ AtJoiner' = AtJoiner
      /\ \A k \in 1..Len(queue) : QueuedUpTo(k)' = QueuedUpTo(k)
      /\ Received' = Received \cup ToSet(b.ids)
  BY BatchQueued
<1>3. Len(queue) \in Nat
  BY LenProperties DEF TypeOK
<1>4. sender' # "idle" => {items'[i] : i \in 1..pos'} \cap own' \subseteq Received'
  BY <1>1, <1>2
<1>5. send_finished' \/ Finish \in late' => Common' \subseteq Received'
  BY <1>1, <1>2 DEF Kept
<1>6. \A c \in late' : c # Finish /\ c.finished => Common' \subseteq Received' \cup ToSet(c.ids)
  BY <1>1, <1>2 DEF Kept
<1>7. ASSUME NEW k \in 1..Len(queue'), queue'[k].finished
      PROVE  Common' \subseteq AtJoiner' \cup QueuedUpTo(k)'
  <2>1. CASE k \in 1..Len(queue)
    BY <1>1, <1>2, <1>7, <2>1 DEF Kept
  <2>2. CASE k = Len(queue')
    <3>1. b.finished
      BY <1>2, <1>7, <2>2
    <3>2. QueuedUpTo(k)' \cup AtJoiner' = Received'
      BY <2>2 DEF Received, QueuedUpTo
    <3> QED
      BY <1>1, <1>2, <3>1, <3>2
  <2> QED
    BY <1>2, <1>3, <2>1, <2>2
<1>8. batch'.finished \/ joiner_finished' => Common' \subseteq AtJoiner'
  BY <1>1, <1>2 DEF Kept
<1> QED
  BY <1>4, <1>5, <1>6, <1>7, <1>8 DEF Kept

-----------------------------------------------------------------------------
(* The steps of the leader                                                 *)

\* A run starts with nothing sent.
LEMMA StartPartitionStep ==
  ASSUME Complete, StartPartition
  PROVE  Complete'
<1>1. TypeOK /\ (~crashed => Kept) /\ SentAll /\ FinishedByLast
  BY DEF Complete
<1>2. /\ UNCHANGED <<raw, consumerVars, joinerVars, crashed, faults, partition_finished>>
      /\ \/ UNCHANGED <<sender, pos>> /\ follower_finished' = TRUE
         \/ sender' = "send" /\ pos' = 0 /\ UNCHANGED follower_finished
  BY DEF StartPartition, StartRun, SyncedFinished
<1>3. /\ Common' = Common /\ Batches' = Batches /\ items' = items /\ own' = own
      /\ UNCHANGED <<partition, send_finished, queue, late>>
      /\ UNCHANGED <<built, batch, maker, blocks, joiner_finished>>
  BY <1>2, SameRaw DEF consumerVars, joinerVars
<1>4. TypeOK'
  <2>1. Len(items) \in Nat
    BY <1>1, LenProperties DEF TypeOK
  <2>2. pos' \in 0..Len(items)
    BY <1>1, <1>2, <2>1 DEF TypeOK
  <2>3. sender' \in {"idle", "send", "finish"} /\ follower_finished' \in BOOLEAN
    BY <1>1, <1>2 DEF TypeOK
  <2> QED
    BY <1>1, <1>2, <1>3, <2>2, <2>3 DEF TypeOK
<1>5. ASSUME ~crashed' PROVE Kept'
  <2>1. Kept
    BY <1>1, <1>2, <1>5
  <2>2. sender' # "idle" => {items[i] : i \in 1..pos'} \cap own \subseteq Received
    BY <1>2, <2>1 DEF Kept
  <2>3. send_finished' \/ Finish \in late' => Common \subseteq Received
    BY <1>3, <2>1 DEF Kept
  <2>4. \A b \in late' : b # Finish /\ b.finished => Common \subseteq Received \cup ToSet(b.ids)
    BY <1>3, <2>1 DEF Kept
  <2> QED
    BY <1>1, <1>2, <1>3, <2>1, <2>2, <2>3, <2>4, KeptInPlace
<1>6. SentAll' /\ FinishedByLast'
  BY <1>1, <1>2, <1>3 DEF SentAll, FinishedByLast
<1> QED
  BY <1>4, <1>5, <1>6 DEF Complete

\* The batch sent has what comes after the items sent before; the last one
\* completes them.
LEMMA SyncPartitionStep ==
  ASSUME Complete, SyncPartition
  PROVE  Complete'
<1>1. TypeOK /\ (~crashed => Kept) /\ SentAll /\ FinishedByLast
  BY DEF Complete
<1>2. /\ UNCHANGED <<raw, follower_finished, partition, send_finished, late,
                     joinerVars, crashed, faults>>
      /\ sender = "send"
  BY DEF SyncPartition
<1>3. /\ Common' = Common /\ Batches' = Batches /\ items' = items /\ own' = own
      /\ UNCHANGED <<built, batch, maker, blocks, joiner_finished>>
  BY <1>2, SameRaw DEF joinerVars
<1>4. CASE ~partition
  <2>1. sender' = "idle" /\ UNCHANGED <<pos, partition_finished, queue>>
    BY <1>4 DEF SyncPartition, AppendDataItems
  <2>2. TypeOK'
    BY <1>1, <1>2, <1>3, <2>1 DEF TypeOK
  <2>3. ASSUME ~crashed' PROVE Kept'
    <3>1. Kept
      BY <1>1, <1>2, <2>3
    <3>2. send_finished' \/ Finish \in late' => Common \subseteq Received
      BY <1>2, <3>1 DEF Kept
    <3>3. \A b \in late' : b # Finish /\ b.finished => Common \subseteq Received \cup ToSet(b.ids)
      BY <1>2, <3>1 DEF Kept
    <3> QED
      BY <1>1, <1>2, <1>3, <2>1, <3>1, <3>2, <3>3, KeptInPlace
  <2>4. SentAll' /\ FinishedByLast'
    BY <1>1, <1>3, <2>1 DEF SentAll, FinishedByLast
  <2> QED
    BY <2>2, <2>3, <2>4 DEF Complete
<1>5. CASE partition
  <2> DEFINE b == NextBatch
             n == Len(b.ids)
  <2>1. /\ queue' = Append(queue, b)
        /\ pos' = pos + n
        /\ partition_finished' = (partition_finished \/ b.finished)
        /\ sender' = IF b.finished THEN "finish" ELSE "send"
    BY <1>5 DEF SyncPartition, AppendDataItems, AppendBatch
  <2>2. /\ b \in Batches
        /\ pos + n \in 0..Len(items)
        /\ b.finished => pos + n = Len(items)
        /\ \A i \in (pos + 1)..(pos + n) : items[i] \in ToSet(b.ids)
    BY <1>1, NextBatchIs
  <2> HIDE DEF b
  <2>3. b.finished \in BOOLEAN /\ n \in Nat
    <3>1. b.finished \in BOOLEAN /\ b.ids \in Seq(ToSet(items))
      BY <2>2 DEF Batches
    <3> QED
      BY <3>1, LenProperties
  <2>4. pos \in Nat /\ Len(items) \in Nat /\ pos <= Len(items)
    <3>1. items \in Seq(ToSet(items)) /\ pos \in 0..Len(items)
      BY <1>1 DEF TypeOK
    <3> QED
      BY <3>1, LenProperties
  <2> HIDE DEF n
  <2>5. TypeOK'
    <3>1. queue' \in Seq(Batches)
      BY <1>1, <2>1, <2>2, AppendProperties DEF TypeOK
    <3>2. pos' \in 0..Len(items)
      BY <2>1, <2>2
    <3>3. partition_finished' \in BOOLEAN
      BY <1>1, <2>1, <2>3 DEF TypeOK
    <3>4. sender' \in {"idle", "send", "finish"}
      BY <2>1
    <3> QED
      BY <1>1, <1>2, <1>3, <3>1, <3>2, <3>3, <3>4 DEF TypeOK
  <2>6. ASSUME ~crashed' PROVE Kept'
    <3>1. Kept
      BY <1>1, <1>2, <2>6
    <3>2. {items[i] : i \in 1..pos} \cap own \subseteq Received
      BY <1>2, <3>1 DEF Kept
    <3>3. ASSUME NEW i \in 1..(pos + n), items[i] \in own
          PROVE  items[i] \in Received \cup ToSet(b.ids)
      <4>1. i \in 1..pos \/ i \in (pos + 1)..(pos + n)
        BY <2>3, <2>4
      <4> QED
        BY <2>2, <3>2, <3>3, <4>1
    <3>4. {items[i] : i \in 1..pos'} \cap own \subseteq Received \cup ToSet(b.ids)
      BY <2>1, <3>3
    <3>5. b.finished => Common \subseteq Received \cup ToSet(b.ids)
      BY <1>1, <2>2, <3>3, AllIsSent
    <3>6. UNCHANGED <<raw, joinerVars, send_finished>> /\ late' \subseteq late
      BY <1>2
    <3> QED
      BY <1>1, <2>1, <2>2, <3>1, <3>4, <3>5, <3>6, KeptQueued
  <2>7. SentAll'
    BY <1>3, <2>1, <2>2 DEF SentAll
  <2>8. FinishedByLast'
    BY <1>1, <1>3 DEF FinishedByLast
  <2> QED
    BY <2>5, <2>6, <2>7, <2>8 DEF Complete
<1> QED
  BY <1>4, <1>5

\* What the leader waits for is its next batch or the end of a run.
LEMMA PendingIs ==
  ASSUME NEW b \in Pending
  PROVE  \/ sender = "send" /\ b = NextBatch
         \/ sender = "finish" /\ b = Finish
  BY DEF Pending

\* Before FinishPartition everything was sent, so everything has been received.
LEMMA FinishKnows ==
  ASSUME TypeOK, Kept, SentAll, sender = "finish"
  PROVE  Common \subseteq Received
<1>1. {items[i] : i \in 1..Len(items)} \cap own \subseteq Received
  BY DEF Kept, SentAll
<1> QED
  BY <1>1, AllIsSent

\* A batch that completes the items completes what was received.
LEMMA LastCompletes ==
  ASSUME TypeOK, Kept, sender = "send", NextBatch.finished
  PROVE  Common \subseteq Received \cup ToSet(NextBatch.ids)
<1> DEFINE n == Len(NextBatch.ids)
<1>1. /\ NextBatch \in Batches /\ pos + n = Len(items)
      /\ \A i \in (pos + 1)..(pos + n) : items[i] \in ToSet(NextBatch.ids)
  BY NextBatchIs
<1>2. n \in Nat /\ pos \in Nat
  <2>1. NextBatch.ids \in Seq(ToSet(items))
    BY <1>1 DEF Batches
  <2>2. items \in Seq(ToSet(items)) /\ pos \in 0..Len(items)
    BY DEF TypeOK
  <2> QED
    BY <2>1, <2>2, LenProperties
<1> HIDE DEF n
<1>3. ASSUME NEW x \in Common PROVE x \in Received \cup ToSet(NextBatch.ids)
  <2>1. PICK i \in 1..(pos + n) : x = items[i] /\ items[i] \in own
    BY <1>1, AllIsSent
  <2>2. i \in 1..pos \/ i \in (pos + 1)..(pos + n)
    BY <1>2
  <2>3. CASE i \in 1..pos
    BY <2>1, <2>3 DEF Kept
  <2>4. CASE i \in (pos + 1)..(pos + n)
    BY <1>1, <2>1, <2>4
  <2> QED
    BY <2>2, <2>3, <2>4
<1> QED
  BY <1>3

\* The handler of FinishPartition leaves the batches alone.
LEMMA FinishHandlerIs ==
  ASSUME FinishPartitionHandler, partition \in BOOLEAN
  PROVE  send_finished' = TRUE /\ partition' \in BOOLEAN
  BY DEF FinishPartitionHandler, FinishPartitionTransmit, ResetConsumerWrap, SeenEmpty

\* The consumer is told that the partition is complete when it is.
LEMMA FinishPartitionStep ==
  ASSUME Complete, FinishPartition
  PROVE  Complete'
<1>1. TypeOK /\ (~crashed => Kept) /\ SentAll /\ FinishedByLast
  BY DEF Complete
<1>2. /\ UNCHANGED <<raw, pos, partition_finished, queue, late, joinerVars, crashed, faults>>
      /\ sender = "finish" /\ sender' = "idle"
  BY DEF FinishPartition
<1>3. /\ Common' = Common /\ Batches' = Batches /\ items' = items /\ own' = own
      /\ UNCHANGED <<built, batch, maker, blocks, joiner_finished>>
  BY <1>2, SameRaw DEF joinerVars
<1>4. send_finished' \in BOOLEAN /\ partition' \in BOOLEAN /\ follower_finished' \in BOOLEAN
  BY <1>1, FinishHandlerIs DEF FinishPartition, TypeOK
<1>5. TypeOK'
  BY <1>1, <1>2, <1>3, <1>4 DEF TypeOK
<1>6. ASSUME ~crashed' PROVE Kept'
  <2>1. Kept
    BY <1>1, <1>2, <1>6
  <2>2. Common \subseteq Received
    BY <1>1, <1>2, <2>1, FinishKnows
  <2> QED
    BY <1>1, <1>2, <1>3, <2>1, <2>2, KeptInPlace
<1>7. SentAll' /\ FinishedByLast'
  BY <1>1, <1>2, <1>3 DEF SentAll, FinishedByLast
<1> QED
  BY <1>5, <1>6, <1>7 DEF Complete

\* What the leader was waiting for becomes late: a broken call, and a restart.
LEMMA BecomesLate ==
  ASSUME Complete, Fault, late' = late \cup Pending, sender' = "idle",
         pos' \in 0..Len(items), partition_finished' \in BOOLEAN, follower_finished' \in BOOLEAN,
         UNCHANGED <<raw, partition, send_finished, queue, joinerVars, crashed>>
  PROVE  Complete'
<1>1. TypeOK /\ (~crashed => Kept) /\ SentAll /\ FinishedByLast
  BY DEF Complete
<1>2. /\ Common' = Common /\ Batches' = Batches /\ items' = items /\ own' = own
      /\ UNCHANGED <<built, batch, maker, blocks, joiner_finished>>
  BY SameRaw DEF joinerVars
<1>3. TypeOK'
  <2>1. faults' \in 0..MaxFaults
    BY <1>1 DEF TypeOK, Fault
  <2>2. late' \subseteq Batches \cup {Finish}
    <3>1. Pending \subseteq Batches \cup {Finish}
      BY <1>1, PendingIs, NextBatchIs
    <3> QED
      BY <1>1, <3>1 DEF TypeOK
  <2> QED
    BY <1>1, <1>2, <2>1, <2>2 DEF TypeOK
<1>4. ASSUME ~crashed' PROVE Kept'
  <2>1. Kept
    BY <1>1, <1>4
  <2>2. send_finished' \/ Finish \in late' => Common \subseteq Received
    <3>1. CASE send_finished \/ Finish \in late
      BY <2>1, <3>1 DEF Kept
    <3>2. CASE Finish \in Pending
      <4>1. sender = "finish"
        BY <1>1, <3>2, PendingIs, NextBatchIs
      <4> QED
        BY <1>1, <2>1, <4>1, FinishKnows
    <3> QED
      BY <3>1, <3>2
  <2>3. ASSUME NEW b \in late', b # Finish, b.finished
        PROVE  Common \subseteq Received \cup ToSet(b.ids)
    <3>1. CASE b \in late
      BY <2>1, <2>3, <3>1 DEF Kept
    <3>2. CASE b \in Pending
      <4>1. sender = "send" /\ b = NextBatch
        BY <2>3, <3>2, PendingIs
      <4> QED
        BY <1>1, <2>1, <2>3, <4>1, LastCompletes
    <3> QED
      BY <3>1, <3>2
  <2> QED
    BY <1>1, <1>2, <2>1, <2>2, <2>3, KeptInPlace
<1>5. SentAll' /\ FinishedByLast'
  BY <1>1, <1>2 DEF SentAll, FinishedByLast
<1> QED
  BY <1>3, <1>4, <1>5 DEF Complete

\* A broken call ends the run; the request may still be executed.
LEMMA CallBreaksStep ==
  ASSUME Complete, CallBreaks
  PROVE  Complete'
<1>1. TypeOK
  BY DEF Complete
<1> QED
  BY <1>1, BecomesLate DEF CallBreaks, TypeOK

\* A restarted leader has forgotten what it waited for.
LEMMA LeaderRestartsStep ==
  ASSUME Complete, LeaderRestarts
  PROVE  Complete'
<1>1. items \in Seq(ToSet(items))
  BY DEF Complete, TypeOK
<1>2. 0 \in 0..Len(items)
  BY <1>1, LenProperties
<1> QED
  BY <1>2, BecomesLate DEF LeaderRestarts, NewLeader

\* A request executed late is a batch, which may complete the items, or the end
\* of a run that had sent everything.
LEMMA LateRequestStep ==
  ASSUME Complete, NEW request \in late, LateRequest(request)
  PROVE  Complete'
<1>1. TypeOK /\ (~crashed => Kept) /\ SentAll /\ FinishedByLast
  BY DEF Complete
<1>2. UNCHANGED <<raw, leaderVars, joinerVars, crashed, faults>> /\ late' = late \ {request}
  BY DEF LateRequest
<1>3. /\ Common' = Common /\ Batches' = Batches /\ items' = items /\ own' = own
      /\ UNCHANGED <<built, batch, maker, blocks, joiner_finished>>
      /\ UNCHANGED <<sender, pos, partition_finished, follower_finished>>
  BY <1>2, SameRaw DEF joinerVars, leaderVars
<1>4. SentAll' /\ FinishedByLast'
  BY <1>1, <1>3 DEF SentAll, FinishedByLast
<1>5. CASE partition /\ request # Finish
  <2>1. queue' = Append(queue, request) /\ UNCHANGED <<partition, send_finished>>
    BY <1>5 DEF LateRequest, AppendBatch
  <2>2. request \in Batches
    BY <1>1, <1>5 DEF TypeOK
  <2>3. queue' \in Seq(Batches)
    BY <1>1, <2>1, <2>2, AppendProperties DEF TypeOK
  <2>4. TypeOK'
    BY <1>1, <1>2, <1>3, <2>1, <2>3 DEF TypeOK
  <2>5. ASSUME ~crashed' PROVE Kept'
    <3>1. Kept
      BY <1>1, <1>2, <2>5
    <3>2. request.finished => Common \subseteq Received \cup ToSet(request.ids)
      BY <1>5, <3>1 DEF Kept
    <3>3. sender' # "idle" => {items[i] : i \in 1..pos'} \cap own \subseteq Received \cup ToSet(request.ids)
      BY <1>3, <3>1 DEF Kept
    <3>4. UNCHANGED <<raw, joinerVars, send_finished>> /\ late' \subseteq late
      BY <1>2, <2>1
    <3> QED
      BY <1>1, <2>1, <2>2, <3>1, <3>2, <3>3, <3>4, KeptQueued
  <2> QED
    BY <1>4, <2>4, <2>5 DEF Complete
<1>6. CASE ~(partition /\ request # Finish)
  <2>1. /\ UNCHANGED queue
        /\ send_finished' \in BOOLEAN /\ partition' \in BOOLEAN
        /\ send_finished' => send_finished \/ request = Finish
    <3>1. CASE partition
      <4>1. request = Finish /\ FinishPartitionHandler /\ UNCHANGED queue
        BY <1>6, <3>1 DEF LateRequest
      <4> QED
        BY <1>1, <4>1, FinishHandlerIs DEF TypeOK
    <3>2. CASE ~partition
      <4>1. UNCHANGED <<partition, send_finished, queue>>
        BY <3>2 DEF LateRequest
      <4> QED
        BY <1>1, <4>1 DEF TypeOK
    <3> QED
      BY <3>1, <3>2
  <2>2. TypeOK'
    BY <1>1, <1>2, <1>3, <2>1 DEF TypeOK
  <2>3. ASSUME ~crashed' PROVE Kept'
    <3>1. Kept
      BY <1>1, <1>2, <2>3
    <3>2. sender' # "idle" => {items[i] : i \in 1..pos'} \cap own \subseteq Received
      BY <1>3, <3>1 DEF Kept
    <3>3. send_finished' \/ Finish \in late' => Common \subseteq Received
      BY <1>2, <2>1, <3>1 DEF Kept
    <3>4. \A b \in late' : b # Finish /\ b.finished => Common \subseteq Received \cup ToSet(b.ids)
      BY <1>2, <3>1 DEF Kept
    <3> QED
      BY <1>1, <1>2, <1>3, <2>1, <3>1, <3>2, <3>3, <3>4, KeptInPlace
  <2> QED
    BY <1>4, <2>2, <2>3 DEF Complete
<1> QED
  BY <1>5, <1>6

-----------------------------------------------------------------------------
(* The steps of the follower                                               *)

\* Loading the raw data moves nothing.
LEMMA BuildDataJoinerStep ==
  ASSUME Complete, BuildDataJoiner
  PROVE  Complete'
<1>1. TypeOK /\ (~crashed => Kept) /\ SentAll /\ FinishedByLast
  BY DEF Complete
<1>2. /\ UNCHANGED <<raw, leaderVars, consumerVars, batch, maker, blocks,
                     joiner_finished, crashed, faults>>
      /\ built' = TRUE
  BY DEF BuildDataJoiner
<1>3. /\ Common' = Common /\ Batches' = Batches /\ items' = items /\ own' = own
      /\ UNCHANGED <<sender, pos, partition_finished, follower_finished>>
      /\ UNCHANGED <<partition, send_finished, queue, late>>
  BY <1>2, SameRaw DEF leaderVars, consumerVars
<1>4. TypeOK'
  BY <1>1, <1>2, <1>3 DEF TypeOK
<1>5. ASSUME ~crashed' PROVE Kept'
  <2>1. Kept
    BY <1>1, <1>2, <1>5
  <2>2. AtJoiner' = AtJoiner
    BY <1>2 DEF AtJoiner, InBlocks
  <2> QED
    BY <1>1, <1>2, <2>1, <2>2, KeptAtJoiner
<1>6. SentAll' /\ FinishedByLast'
  BY <1>1, <1>2, <1>3 DEF SentAll, FinishedByLast
<1> QED
  BY <1>4, <1>5, <1>6 DEF Complete

\* A last batch has, with what the joiner had before, all common ids.
LEMMA TakeBatchStep ==
  ASSUME Complete, TakeBatch
  PROVE  Complete'
<1>1. TypeOK /\ (~crashed => Kept) /\ SentAll /\ FinishedByLast
  BY DEF Complete
<1>2. /\ UNCHANGED <<raw, leaderVars, partition, send_finished, late, built, maker,
                     blocks, joiner_finished, crashed, faults>>
      /\ ~batch.taken /\ ~joiner_finished
      /\ queue # <<>> /\ batch' = Head(queue) /\ queue' = Tail(queue)
  BY DEF TakeBatch, AtLoopHead
<1>3. /\ Common' = Common /\ Batches' = Batches /\ items' = items /\ own' = own
      /\ UNCHANGED <<sender, pos, partition_finished, follower_finished>>
  BY <1>2, SameRaw DEF leaderVars
<1>4. /\ batch' \in Batches /\ batch' = queue[1]
      /\ queue' \in Seq(Batches) /\ Len(queue') = Len(queue) - 1
      /\ \A k \in 1..Len(queue') : k + 1 \in 1..Len(queue) /\ queue'[k] = queue[k + 1]
      /\ AtJoiner' = AtJoiner \cup ToSet(batch'.ids)
      /\ \A k \in 1..Len(queue') :
           AtJoiner \cup QueuedUpTo(k + 1) \subseteq AtJoiner' \cup QueuedUpTo(k)'
      /\ Received \subseteq Received'
  BY <1>1, <1>2, BatchTaken
<1>5. TypeOK'
  BY <1>1, <1>2, <1>3, <1>4 DEF TypeOK
<1>6. ASSUME ~crashed' PROVE Kept'
  <2>1. Kept
    BY <1>1, <1>2, <1>6
  <2>2. sender' # "idle" => {items'[i] : i \in 1..pos'} \cap own' \subseteq Received'
    BY <1>3, <1>4, <2>1 DEF Kept
  <2>3. send_finished' \/ Finish \in late' => Common' \subseteq Received'
    BY <1>2, <1>3, <1>4, <2>1 DEF Kept
  <2>4. \A b \in late' : b # Finish /\ b.finished => Common' \subseteq Received' \cup ToSet(b.ids)
    BY <1>2, <1>3, <1>4, <2>1 DEF Kept
  <2>5. ASSUME NEW k \in 1..Len(queue'), queue'[k].finished
        PROVE  Common' \subseteq AtJoiner' \cup QueuedUpTo(k)'
    <3>1. k + 1 \in 1..Len(queue) /\ queue[k + 1].finished
      BY <1>4, <2>5
    <3>2. Common \subseteq AtJoiner \cup QueuedUpTo(k + 1)
      BY <2>1, <3>1 DEF Kept
    <3> QED
      BY <1>3, <1>4, <3>2
  <2>6. batch'.finished \/ joiner_finished' => Common' \subseteq AtJoiner'
    <3>1. SUFFICES ASSUME batch'.finished PROVE Common \subseteq AtJoiner'
      BY <1>2, <1>3
    <3>2. 1 \in 1..Len(queue)
      <4>1. queue \in Seq(Batches)
        BY <1>1 DEF TypeOK
      <4>2. Len(queue) \in Nat /\ Len(queue) # 0
        BY <1>2, <4>1, LenProperties, EmptySeq
      <4> QED
        BY <4>2
    <3>3. Common \subseteq AtJoiner \cup QueuedUpTo(1)
      BY <1>4, <2>1, <3>1, <3>2 DEF Kept
    <3>4. QueuedUpTo(1) = ToSet(queue[1].ids)
      <4>1. \A k \in 1..1 : k = 1
        OBVIOUS
      <4>2. \A x : x \in QueuedUpTo(1) <=> x \in ToSet(queue[1].ids)
        BY <4>1 DEF QueuedUpTo
      <4> QED
        BY <4>2
    <3> QED
      BY <1>4, <3>3, <3>4
  <2> QED
    BY <2>2, <2>3, <2>4, <2>5, <2>6 DEF Kept
<1>7. SentAll' /\ FinishedByLast'
  BY <1>1, <1>2, <1>3 DEF SentAll, FinishedByLast
<1> QED
  BY <1>5, <1>6, <1>7 DEF Complete

\* The joiner's part of the invariant with its data moved: what TypeOK and Kept
\* need to know of the batch, the open block and the blocks.
LEMMA JoinerStep ==
  ASSUME Complete, UNCHANGED <<raw, leaderVars, consumerVars, built, crashed, faults>>,
         batch' \in Batches \cup {NoBatch},
         maker' \in Seq(Common), Len(maker') < Threshold,
         blocks' \in Seq(Seq(Common)), joiner_finished' \in BOOLEAN,
         AtJoiner \cap Common \subseteq AtJoiner',
         batch'.finished \/ joiner_finished' => batch.finished \/ joiner_finished,
         FinishedByLast'
  PROVE  Complete'
<1>1. TypeOK /\ (~crashed => Kept) /\ SentAll
  BY DEF Complete
<1>2. /\ Common' = Common /\ Batches' = Batches /\ items' = items /\ own' = own
      /\ UNCHANGED <<sender, pos, partition_finished, follower_finished>>
      /\ UNCHANGED <<partition, send_finished, queue, late>>
  BY SameRaw DEF leaderVars, consumerVars
<1>3. TypeOK'
  BY <1>1, <1>2 DEF TypeOK
<1>4. ~crashed' => Kept'
  BY <1>1, KeptAtJoiner
<1>5. SentAll'
  BY <1>1, <1>2 DEF SentAll
<1> QED
  BY <1>3, <1>4, <1>5 DEF Complete

\* A block written has what was in the open one, which is empty then.
LEMMA FinalizeIs ==
  ASSUME TypeOK, UNCHANGED raw, NEW ids \in Seq(Common), Finalize(ids)
  PROVE  /\ blocks' \in Seq(Seq(Common)) /\ InBlocks' = InBlocks \cup ToSet(ids)
         /\ maker' = <<>> /\ maker' \in Seq(Common) /\ Len(maker') < Threshold
         /\ joiner_finished' \in BOOLEAN
         /\ joiner_finished' => batch.finished \/ joiner_finished
<1>1. /\ blocks' = Append(blocks, ids) /\ maker' = <<>>
      /\ joiner_finished' = (joiner_finished \/ batch.finished)
  BY DEF Finalize
<1>2. joiner_finished \in BOOLEAN /\ batch.finished \in BOOLEAN
  BY BatchAtHand DEF TypeOK
<1>3. <<>> \in Seq(Common) /\ Len(<<>>) = 0
  BY EmptySeq
<1> QED
  BY <1>1, <1>2, <1>3, BlockWritten

\* An id taken from the batch is in the open block or a written one, unless the
\* follower does not have it.
LEMMA JoinExampleStep ==
  ASSUME Complete, JoinExample
  PROVE  Complete'
<1> DEFINE id == Head(batch.ids)
<1>1. TypeOK /\ FinishedByLast
  BY DEF Complete
<1>2. /\ UNCHANGED <<raw, leaderVars, consumerVars, built, crashed, faults>>
      /\ batch.taken /\ batch.ids # <<>>
      /\ batch' = [batch EXCEPT !.ids = Tail(@)]
  BY DEF JoinExample
<1>3. /\ batch \in Batches /\ batch.finished \in BOOLEAN
      /\ batch.ids \in Seq(ToSet(items))
  BY <1>1, <1>2, BatchAtHand
<1>4. /\ id \in ToSet(items) /\ Tail(batch.ids) \in Seq(ToSet(items))
      /\ ToSet(batch.ids) = ToSet(Tail(batch.ids)) \cup {id}
  BY <1>2, <1>3, ToSetTail
<1> HIDE DEF id
<1>5. /\ batch' \in Batches
      /\ batch'.ids = Tail(batch.ids)
      /\ batch'.finished = batch.finished /\ batch'.taken
  BY <1>2, <1>3, <1>4 DEF Batches
<1>6. ToSet(batch.ids) = ToSet(batch'.ids) \cup {id}
  BY <1>4, <1>5
<1>7. maker \in Seq(Common) /\ Len(maker) < Threshold /\ blocks \in Seq(Seq(Common))
      /\ joiner_finished \in BOOLEAN
  BY <1>1 DEF TypeOK
<1>8. joiner_finished => batch.finished
  BY <1>1, <1>2 DEF FinishedByLast
<1>9. CASE id \notin own
  <2>1. UNCHANGED <<maker, blocks, joiner_finished>>
    BY <1>9 DEF JoinExample, id
  <2>2. AtJoiner \cap Common \subseteq AtJoiner'
    <3>1. id \notin Common
      BY <1>9 DEF Common
    <3> QED
      BY <1>6, <2>1, <3>1 DEF AtJoiner, InBlocks
  <2>3. FinishedByLast'
    BY <1>5, <1>8, <2>1 DEF FinishedByLast
  <2> QED
    BY <1>2, <1>5, <1>7, <2>1, <2>2, <2>3, JoinerStep
<1>10. CASE id \in own
  <2>1. id \in Common
    BY <1>4, <1>10 DEF Common
  <2>2. /\ Saved(id) \in Seq(Common)
        /\ ToSet(Saved(id)) = ToSet(maker) \cup {id}
        /\ Len(Saved(id)) \in Nat
    <3>1. Saved(id) = Append(maker, id)
      BY DEF Saved
    <3>2. Append(maker, id) \in Seq(Common) /\ ToSet(Append(maker, id)) = ToSet(maker) \cup {id}
      BY <1>7, <2>1, AppendProperties, ToSetAppend
    <3> QED
      BY <3>1, <3>2, LenProperties
  <2>3. CASE ~Full(Saved(id))
    <3>1. maker' = Saved(id) /\ UNCHANGED <<blocks, joiner_finished>>
      BY <1>10, <2>3 DEF JoinExample, id
    <3>2. Len(maker') < Threshold
      BY <2>2, <2>3, <3>1 DEF Full
    <3>3. AtJoiner \cap Common \subseteq AtJoiner'
      BY <1>6, <2>2, <3>1 DEF AtJoiner, InBlocks
    <3>4. FinishedByLast'
      BY <1>5, <1>8, <3>1 DEF FinishedByLast
    <3> QED
      BY <1>2, <1>5, <1>7, <2>2, <3>1, <3>2, <3>3, <3>4, JoinerStep
  <2>4. CASE Full(Saved(id))
    <3>1. Finalize(Saved(id))
      BY <1>10, <2>4 DEF JoinExample, id
    <3>2. /\ blocks' \in Seq(Seq(Common)) /\ InBlocks' = InBlocks \cup ToSet(Saved(id))
          /\ maker' \in Seq(Common) /\ Len(maker') < Threshold
          /\ joiner_finished' \in BOOLEAN
          /\ joiner_finished' => batch.finished \/ joiner_finished
      BY <1>1, <1>2, <2>2, <3>1, FinalizeIs
    <3>3. AtJoiner \cap Common \subseteq AtJoiner'
      BY <1>6, <2>2, <3>2 DEF AtJoiner
    <3>4. FinishedByLast'
      BY <1>5, <1>8, <3>2 DEF FinishedByLast
    <3> QED
      BY <1>2, <1>5, <3>2, <3>3, <3>4, JoinerStep
  <2> QED
    BY <2>3, <2>4
<1> QED
  BY <1>9, <1>10

\* With the last batch ends the open block.
LEMMA EndBatchStep ==
  ASSUME Complete, EndBatch
  PROVE  Complete'
<1>1. TypeOK /\ FinishedByLast
  BY DEF Complete
<1>2. /\ UNCHANGED <<raw, leaderVars, consumerVars, built, crashed, faults>>
      /\ batch.taken /\ batch.ids = <<>> /\ batch' = NoBatch
  BY DEF EndBatch
<1>3. ~batch'.taken /\ ~batch'.finished /\ batch'.ids = <<>> /\ batch' \in Batches \cup {NoBatch}
  BY <1>2 DEF NoBatch
<1>4. ToSet(batch.ids) = {}
  BY <1>2, ToSetEmpty
<1>5. maker \in Seq(Common) /\ Len(maker) < Threshold /\ blocks \in Seq(Seq(Common))
      /\ joiner_finished \in BOOLEAN
  BY <1>1 DEF TypeOK
<1>6. CASE batch.finished /\ maker # <<>>
  <2>1. Finalize(maker)
    BY <1>6 DEF EndBatch
  <2>2. /\ blocks' \in Seq(Seq(Common)) /\ InBlocks' = InBlocks \cup ToSet(maker)
        /\ maker' = <<>> /\ maker' \in Seq(Common) /\ Len(maker') < Threshold
        /\ joiner_finished' \in BOOLEAN
        /\ joiner_finished' => batch.finished \/ joiner_finished
    BY <1>1, <1>2, <1>5, <2>1, FinalizeIs
  <2>3. AtJoiner \cap Common \subseteq AtJoiner'
    BY <1>4, <2>2 DEF AtJoiner
  <2>4. FinishedByLast'
    BY <1>3, <2>2 DEF FinishedByLast
  <2> QED
    BY <1>2, <1>3, <2>2, <2>3, <2>4, JoinerStep
<1>7. CASE ~(batch.finished /\ maker # <<>>)
  <2>1. UNCHANGED <<maker, blocks, joiner_finished>>
    BY <1>7 DEF EndBatch
  <2>2. AtJoiner \cap Common \subseteq AtJoiner'
    BY <1>4, <2>1 DEF AtJoiner, InBlocks
  <2>3. FinishedByLast'
    BY <1>1, <1>2, <1>3, <1>7, <2>1 DEF FinishedByLast
  <2> QED
    BY <1>2, <1>3, <1>5, <2>1, <2>2, <2>3, JoinerStep
<1> QED
  BY <1>6, <1>7

\* Between two batches the open block may be written at any time.
LEMMA DumpOnTimeSpanStep ==
  ASSUME Complete, DumpOnTimeSpan
  PROVE  Complete'
<1>1. TypeOK
  BY DEF Complete
<1>2. /\ UNCHANGED <<raw, leaderVars, consumerVars, built, batch, crashed, faults>>
      /\ ~batch.taken /\ ~joiner_finished /\ Finalize(maker)
  BY DEF DumpOnTimeSpan, AtLoopHead
<1>3. ~batch.finished
  BY <1>1, <1>2, BatchAtHand DEF NoBatch
<1>4. maker \in Seq(Common) /\ batch' \in Batches \cup {NoBatch} /\ batch'.ids = batch.ids
  BY <1>1, <1>2 DEF TypeOK
<1>5. /\ blocks' \in Seq(Seq(Common)) /\ InBlocks' = InBlocks \cup ToSet(maker)
      /\ maker' = <<>> /\ maker' \in Seq(Common) /\ Len(maker') < Threshold
      /\ joiner_finished' \in BOOLEAN
      /\ joiner_finished' => batch.finished \/ joiner_finished
  BY <1>1, <1>2, <1>4, FinalizeIs
<1>6. AtJoiner \cap Common \subseteq AtJoiner'
  BY <1>4, <1>5 DEF AtJoiner
<1>7. FinishedByLast'
  BY <1>2, <1>3, <1>5 DEF FinishedByLast
<1> QED
  BY <1>2, <1>4, <1>5, <1>6, <1>7, JoinerStep

\* A restarted follower has its blocks and nothing else.
LEMMA FollowerRestartsStep ==
  ASSUME Complete, FollowerRestarts
  PROVE  Complete'
<1>1. TypeOK /\ SentAll
  BY DEF Complete
<1>2. /\ UNCHANGED <<raw, leaderVars, blocks>>
      /\ partition' = TRUE /\ send_finished' = FALSE /\ queue' = <<>> /\ late' = {}
      /\ built' = FALSE /\ batch' = NoBatch /\ maker' = <<>> /\ joiner_finished' = FALSE
      /\ crashed' = TRUE
  BY DEF FollowerRestarts, NewConsumer, NewAppender, NewJoiner
<1>3. /\ Common' = Common /\ Batches' = Batches /\ items' = items
      /\ UNCHANGED <<sender, pos, partition_finished, follower_finished>>
  BY <1>2, SameRaw DEF leaderVars
<1>4. TypeOK'
  <2>1. faults' \in 0..MaxFaults
    BY <1>1 DEF TypeOK, FollowerRestarts, Fault
  <2>2. queue' \in Seq(Batches) /\ maker' \in Seq(Common) /\ Len(maker') < Threshold
    BY <1>2, EmptySeq
  <2> QED
    BY <1>1, <1>2, <1>3, <2>1, <2>2 DEF TypeOK
<1>5. SentAll' /\ FinishedByLast'
  BY <1>1, <1>2, <1>3 DEF SentAll, FinishedByLast
<1> QED
  BY <1>2, <1>4, <1>5 DEF Complete

-----------------------------------------------------------------------------
(* The order in which the ids are joined                                   *)

IdsOf(q) == [k \in DOMAIN q |-> q[k].ids]
HaveIds(B, S) == \A b \in B : b.ids \in Seq(S)

\* The ids of each batch.
LEMMA IdsOfIs ==
  ASSUME NEW S, NEW B, HaveIds(B, S), NEW q \in Seq(B)
  PROVE  /\ IdsOf(q) \in Seq(Seq(S))
         /\ Len(IdsOf(q)) = Len(q)
         /\ \A k \in 1..Len(q) : IdsOf(q)[k] = q[k].ids
<1>1. Len(q) \in Nat /\ DOMAIN q = 1..Len(q) /\ \A k \in 1..Len(q) : q[k].ids \in Seq(S)
  BY LenProperties, ElementOfSeq DEF HaveIds
<1> DEFINE n == Len(q)
           i == [k \in 1..n |-> q[k].ids]
<1>2. IdsOf(q) = i
  BY <1>1 DEF IdsOf
<1>3. i \in [1..n -> Seq(S)] /\ n \in Nat
  BY <1>1
<1>4. i \in Seq(Seq(S)) /\ Len(i) = n
  BY <1>3
<1> QED
  BY <1>2, <1>4

\* A batch put into the queue comes last.
LEMMA FlattenQueued ==
  ASSUME NEW S, NEW B, HaveIds(B, S), NEW q \in Seq(B), NEW b \in B
  PROVE  FlattenSeq(IdsOf(Append(q, b))) = FlattenSeq(IdsOf(q)) \o b.ids
<1> DEFINE T == Seq(S)
           r == Append(q, b)
           i == IdsOf(q)
           j == IdsOf(r)
           n == Len(q)
<1>1. /\ r \in Seq(B) /\ Len(r) = n + 1 /\ r[n + 1] = b /\ n \in Nat
      /\ \A k \in 1..n : r[k] = q[k]
  BY AppendProperties, LenProperties
<1> HIDE DEF r
<1>2. i \in Seq(T) /\ Len(i) = n /\ \A k \in 1..n : i[k] = q[k].ids
  BY IdsOfIs
<1>3. j \in Seq(T) /\ Len(j) = Len(r) /\ \A k \in 1..Len(r) : j[k] = r[k].ids
  BY <1>1, IdsOfIs
<1>4. b.ids \in T
  BY DEF HaveIds
<1> HIDE DEF i, j, T
<1> DEFINE a == Append(i, b.ids)
<1>5. /\ a \in Seq(T) /\ Len(a) = Len(i) + 1 /\ a[Len(i) + 1] = b.ids
      /\ \A k \in 1..Len(i) : a[k] = i[k]
  BY <1>2, <1>4, AppendProperties
<1> HIDE DEF a, n
<1>6. \A k \in 1..(n + 1) : k \in 1..n \/ k = n + 1
  BY <1>1
<1>7. \A k \in 1..(n + 1) : j[k] = a[k]
  BY <1>1, <1>2, <1>3, <1>5, <1>6
<1>8. j = a
  <2>1. Len(j) = n + 1 /\ Len(a) = Len(j)
    BY <1>1, <1>2, <1>3, <1>5
  <2> QED
    BY <1>3, <1>5, <1>7, <2>1, SeqEqual
<1>9. FlattenSeq(a) = FlattenSeq(i) \o b.ids
  BY <1>2, <1>4, FlattenAppend DEF a, T
<1> QED
  BY <1>8, <1>9 DEF i, j, r

\* The batch at the head of the queue comes first.
LEMMA FlattenTaken ==
  ASSUME NEW S, NEW B, HaveIds(B, S), NEW q \in Seq(B), q # <<>>
  PROVE  FlattenSeq(IdsOf(q)) = Head(q).ids \o FlattenSeq(IdsOf(Tail(q)))
<1> DEFINE T == Seq(S)
           t == Tail(q)
           i == IdsOf(q)
           j == IdsOf(t)
           n == Len(q)
           h == Head(q).ids
<1>1. /\ Head(q) \in B /\ t \in Seq(B) /\ Len(t) = n - 1
      /\ \A k \in 1..Len(t) : t[k] = q[k + 1]
  BY HeadTailProperties
<1>2. Head(q) = q[1] /\ n \in Nat \ {0}
  BY EmptySeq
<1>3. h \in T
  BY <1>1 DEF HaveIds
<1> HIDE DEF t
<1>4. i \in Seq(T) /\ Len(i) = n /\ \A k \in 1..n : i[k] = q[k].ids
  BY IdsOfIs
<1>5. j \in Seq(T) /\ Len(j) = Len(t) /\ \A k \in 1..Len(t) : j[k] = t[k].ids
  BY <1>1, IdsOfIs
<1> HIDE DEF i, j, T
<1> DEFINE a == <<h>> \o j
<1>6. <<h>> \in Seq(T) /\ Len(<<h>>) = 1 /\ <<h>>[1] = h
  BY <1>3
<1>7. /\ a \in Seq(T) /\ Len(a) = 1 + Len(j)
      /\ \A k \in 1..(1 + Len(j)) : a[k] = IF k <= 1 THEN <<h>>[k] ELSE j[k - 1]
  BY <1>5, <1>6, ConcatProperties
<1> HIDE DEF a, n
<1>8. ASSUME NEW k \in 1..n PROVE i[k] = a[k]
  <2>1. CASE k = 1
    <3>1. 1 \in 1..(1 + Len(j)) /\ 1 \in 1..n
      BY <1>1, <1>2, <1>5
    <3>2. a[1] = h /\ i[1] = q[1].ids
      BY <1>4, <1>6, <1>7, <3>1
    <3> QED
      BY <1>2, <2>1, <3>2
  <2>2. CASE k # 1
    <3>1. /\ k - 1 \in 1..Len(t) /\ k \in 1..(1 + Len(j)) /\ ~(k <= 1)
          /\ (k - 1) + 1 = k
      BY <1>1, <1>2, <1>5, <2>2
    <3>2. a[k] = j[k - 1] /\ j[k - 1] = t[k - 1].ids /\ t[k - 1] = q[k]
      BY <1>1, <1>5, <1>7, <3>1
    <3> QED
      BY <1>4, <3>2
  <2> QED
    BY <2>1, <2>2
<1>9. i = a
  <2>1. Len(i) = n /\ Len(a) = Len(i)
    BY <1>1, <1>2, <1>4, <1>5, <1>7
  <2> QED
    BY <1>4, <1>7, <1>8, <2>1, SeqEqual
<1>10. FlattenSeq(<<h>> \o j) = FlattenSeq(<<h>>) \o FlattenSeq(j)
  BY <1>5, <1>6, FlattenConcat DEF T
<1>11. FlattenSeq(<<h>>) = h
  BY <1>3, FlattenSingle DEF T
<1> QED
  BY <1>9, <1>10, <1>11 DEF i, j, t, a

InLine ==
  Joined \o maker \o Only(batch.ids, own) \o Only(Queued, own)
    = Only(SubSeq(items, 1, pos), own)

\* The order is what JoinedOnce is about.
LEMMA InLineIs ==
  /\ JoinedOnce <=> (faults = 0 => InLine)
  /\ JoinedOnce' <=> (faults' = 0 => InLine')
  BY DEF JoinedOnce, InLine, Joinable, Only, Bits

\* The places of the ids are sequences of the leader's ids.
LEMMA PlacesType ==
  ASSUME TypeOK
  PROVE  /\ Joined \in Seq(ToSet(items))
         /\ maker \in Seq(ToSet(items))
         /\ batch.ids \in Seq(ToSet(items))
         /\ Queued \in Seq(ToSet(items))
         /\ HaveIds(Batches, ToSet(items))
         /\ Queued = FlattenSeq(IdsOf(queue))
<1> DEFINE S == ToSet(items)
<1>1. Common \subseteq S
  BY DEF Common
<1>2. HaveIds(Batches, S)
  BY DEF Batches, HaveIds
<1>3. batch.ids \in Seq(S)
  <2>1. NoBatch.ids = <<>> /\ <<>> \in Seq(S)
    BY EmptySeq DEF NoBatch
  <2> QED
    BY <1>2, <2>1 DEF TypeOK, HaveIds
<1>4. FlattenSeq(blocks) \in Seq(Common) /\ maker \in Seq(Common)
  BY FlattenType DEF TypeOK
<1>5. queue \in Seq(Batches)
  BY DEF TypeOK
<1> HIDE DEF S
<1>6. IdsOf(queue) \in Seq(Seq(S))
  BY <1>2, <1>5, IdsOfIs
<1>7. FlattenSeq(IdsOf(queue)) \in Seq(S)
  BY <1>6, FlattenType
<1>8. FlattenSeq(blocks) \in Seq(S) /\ maker \in Seq(S)
  BY <1>1, <1>4, SeqMonotonic
<1> QED
  BY <1>2, <1>3, <1>7, <1>8 DEF Joined, Queued, IdsOf, S

\* A batch holds the items that follow those already sent.
LEMMA NextBatchFollows ==
  ASSUME TypeOK
  PROVE  /\ SubSeq(items, 1, pos) \in Seq(ToSet(items))
         /\ SubSeq(items, 1, pos) \o NextBatch.ids
              = SubSeq(items, 1, pos + Len(NextBatch.ids))
<1> DEFINE S == ToSet(items)
           L == Len(items)
           rest == SubSeq(items, pos + 1, L)
           n == pos + Len(NextBatch.ids)
<1>1. items \in Seq(S) /\ pos \in 0..L
  BY DEF TypeOK
<1> HIDE DEF S
<1>2. L \in Nat /\ pos \in Nat /\ pos <= L
  BY <1>1, LenProperties
<1>3. n \in 0..L /\ n >= pos
  <2>1. NextBatch.ids \in Seq(S) /\ n \in 0..L
    BY NextBatchIs DEF Batches, S
  <2>2. Len(NextBatch.ids) \in Nat
    BY <2>1, LenProperties
  <2> QED
    BY <1>2, <2>1, <2>2
<1>4. Len(rest) = L - pos
  <2> DEFINE m == pos + 1
             l == L
  <2>1. /\ m \in 1..(Len(items) + 1) /\ l \in 0..Len(items)
        /\ m <= l + 1 /\ l - m + 1 = L - pos
    BY <1>2
  <2> HIDE DEF m, l
  <2>2. Len(SubSeq(items, m, l)) = l - m + 1
    BY <1>1, <2>1, ToSetSubSeq
  <2> QED
    BY <2>1, <2>2 DEF m, l
<1>5. NextBatch.ids = SubSeq(items, pos + 1, n)
  <2>1. CASE Len(rest) > SyncNums
    <3>1. NextBatch.ids = SubSeq(rest, 1, SyncNums + 1)
      BY <2>1 DEF NextBatch, Batch
    <3> DEFINE i == pos + 1
               j == L
               m == 1
               k == SyncNums + 1
    <3>2. /\ i \in 1..Len(items) /\ j \in 1..Len(items)
          /\ m \in 1..j - i + 1 /\ k \in 1..j - i + 1
          /\ i + m - 1 = pos + 1 /\ i + k - 1 = pos + SyncNums + 1
      BY <1>2, <1>4, <2>1
    <3> HIDE DEF i, j, m, k
    <3>3. SubSeq(SubSeq(items, i, j), m, k) = SubSeq(items, i + m - 1, i + k - 1)
      BY <1>1, <3>2, SubSeqOfSubSeq
    <3>4. SubSeq(rest, 1, SyncNums + 1) = SubSeq(items, pos + 1, pos + SyncNums + 1)
      BY <3>2, <3>3 DEF i, j, m, k
    <3>5. Len(SubSeq(rest, 1, SyncNums + 1)) = SyncNums + 1
      <4>1. rest \in Seq(S)
        <5> DEFINE a == pos + 1
        <5>1. a \in 1..(Len(items) + 1) /\ L \in 0..Len(items) /\ a <= L + 1
          BY <1>2
        <5> HIDE DEF a
        <5>2. SubSeq(items, a, L) \in Seq(S)
          BY <1>1, <5>1, ToSetSubSeq
        <5> QED
          BY <5>2 DEF a
      <4> DEFINE b == SyncNums + 1
      <4>2. 1 \in 1..(Len(rest) + 1) /\ b \in 0..Len(rest) /\ 1 <= b + 1 /\ b - 1 + 1 = b
        BY <1>2, <1>4, <2>1
      <4> HIDE DEF b, rest
      <4>3. Len(SubSeq(rest, 1, b)) = b - 1 + 1
        BY <4>1, <4>2, ToSetSubSeq
      <4> QED
        BY <4>2, <4>3 DEF b
    <3>6. n = pos + SyncNums + 1
      BY <1>2, <3>1, <3>5
    <3> QED
      BY <3>1, <3>4, <3>6
  <2>2. CASE ~(Len(rest) > SyncNums)
    <3>1. NextBatch.ids = rest
      BY <2>2 DEF NextBatch, Batch
    <3>2. n = L
      BY <1>2, <1>4, <3>1
    <3> QED
      BY <3>1, <3>2
  <2> QED
    BY <2>1, <2>2
<1> HIDE DEF n, rest
<1>6. 1 \in 1..(Len(items) + 1) /\ pos \in (1 - 1)..Len(items) /\ n \in pos..Len(items)
  BY <1>2, <1>3
<1>7. SubSeq(items, 1, pos) \o SubSeq(items, pos + 1, n) = SubSeq(items, 1, n)
  BY <1>1, <1>6, ConcatAdjacentSubSeq
<1>8. SubSeq(items, 1, pos) \in Seq(S)
  <2>1. 1 \in 1..(Len(items) + 1) /\ pos \in 0..Len(items) /\ 1 <= pos + 1
    BY <1>2
  <2> QED
    BY <1>1, <2>1, ToSetSubSeq
<1> QED
  BY <1>5, <1>7, <1>8 DEF n, S

\* A batch sent and queued: both sides of the equation grow by what it has of
\* the follower's ids.
LEMMA SyncInLine ==
  ASSUME TypeOK, OneRun, faults = 0, InLine, SyncPartition
  PROVE  InLine'
<1> DEFINE S == ToSet(items)
           u == NextBatch.ids
<1>1. partition /\ sender = "send"
  BY DEF OneRun, SyncPartition
<1>2. /\ queue' = Append(queue, NextBatch) /\ pos' = pos + Len(u)
      /\ UNCHANGED <<items, own, blocks, maker, batch>>
  BY <1>1 DEF SyncPartition, AppendDataItems, AppendBatch, raw, joinerVars
<1>3. NextBatch \in Batches /\ queue \in Seq(Batches)
  BY NextBatchIs DEF TypeOK
<1>4. /\ Joined \in Seq(S) /\ maker \in Seq(S) /\ batch.ids \in Seq(S) /\ Queued \in Seq(S)
      /\ HaveIds(Batches, S) /\ Queued = FlattenSeq(IdsOf(queue))
  BY PlacesType
<1>5. u \in Seq(S)
  BY <1>3, <1>4 DEF HaveIds
<1>6. /\ SubSeq(items, 1, pos) \in Seq(S)
      /\ SubSeq(items, 1, pos) \o u = SubSeq(items, 1, pos')
  BY <1>2, NextBatchFollows
<1> HIDE DEF S, u
<1>7. Queued' = Queued \o u
  <2>1. FlattenSeq(IdsOf(Append(queue, NextBatch))) = FlattenSeq(IdsOf(queue)) \o u
    BY <1>3, <1>4, FlattenQueued DEF u
  <2>2. Queued' = FlattenSeq(IdsOf(queue'))
    BY DEF Queued, IdsOf
  <2> QED
    BY <1>2, <1>4, <2>1, <2>2
<1>8. Joined' = Joined
  BY <1>2 DEF Joined
<1> DEFINE q == Only(Queued, own)
           b == Only(batch.ids, own)
           v == Only(u, own)
           s == Only(SubSeq(items, 1, pos), own)
<1>9. /\ q \in Seq(S) /\ b \in Seq(S) /\ v \in Seq(S) /\ s \in Seq(S)
      /\ Only(Queued \o u, own) = q \o v
      /\ Only(SubSeq(items, 1, pos) \o u, own) = s \o v
  <2>1. q \in Seq(S) /\ b \in Seq(S) /\ v \in Seq(S) /\ s \in Seq(S)
    BY <1>4, <1>5, <1>6, OnlyType
  <2>2. Only(Queued \o u, own) = q \o v
    BY <1>4, <1>5, OnlyConcat
  <2>3. Only(SubSeq(items, 1, pos) \o u, own) = s \o v
    BY <1>5, <1>6, OnlyConcat
  <2> QED
    BY <2>1, <2>2, <2>3
<1>10. Joined \o maker \o b \o q = s
  BY DEF InLine
<1> HIDE DEF q, b, v, s
<1> DEFINE w == Joined \o maker \o b
<1>11. w \in Seq(S)
  <2>1. Joined \o maker \in Seq(S)
    BY <1>4, ConcatProperties
  <2> QED
    BY <1>9, <2>1, ConcatProperties
<1> HIDE DEF w
<1>12. (w \o q) \o v = w \o (q \o v)
  BY ONLY <1>9, <1>11, ConcatAssociative, SMTT(60)
<1>13. w \o q = s
  BY <1>10 DEF w
<1>14. w \o Only(Queued', own') = Only(SubSeq(items', 1, pos'), own')
  BY <1>2, <1>6, <1>7, <1>9, <1>12, <1>13
<1> QED
  BY <1>2, <1>8, <1>14 DEF InLine, w, b

\* The joiner takes the batch at the head of the queue.
LEMMA TakeInLine ==
  ASSUME TypeOK, InLine, TakeBatch
  PROVE  InLine'
<1> DEFINE S == ToSet(items)
           h == Head(queue).ids
           t == FlattenSeq(IdsOf(Tail(queue)))
<1>1. /\ queue # <<>> /\ batch' = Head(queue) /\ queue' = Tail(queue) /\ ~batch.taken
      /\ UNCHANGED <<items, own, blocks, maker, pos>>
  BY DEF TakeBatch, AtLoopHead, raw, leaderVars
<1>2. batch.ids = <<>>
  BY <1>1, BatchAtHand DEF NoBatch
<1>3. /\ Joined \in Seq(S) /\ maker \in Seq(S)
      /\ HaveIds(Batches, S) /\ Queued = FlattenSeq(IdsOf(queue))
  BY PlacesType
<1>4. queue \in Seq(Batches)
  BY DEF TypeOK
<1> HIDE DEF S
<1>5. Head(queue) \in Batches /\ Tail(queue) \in Seq(Batches)
  BY <1>1, <1>4, HeadTailProperties
<1>6. h \in Seq(S) /\ t \in Seq(S)
  <2>1. IdsOf(Tail(queue)) \in Seq(Seq(S))
    BY <1>3, <1>5, IdsOfIs
  <2> QED
    BY <1>3, <1>5, <2>1, FlattenType DEF HaveIds
<1>7. Queued = h \o t
  BY <1>1, <1>3, <1>4, FlattenTaken
<1>8. Queued' = t /\ batch'.ids = h /\ Joined' = Joined
  BY <1>1 DEF Queued, IdsOf, Joined
<1> HIDE DEF h, t
<1> DEFINE w == Joined \o maker
<1>9. w \in Seq(S)
  BY <1>3, ConcatProperties
<1>10. Only(batch.ids, own) = <<>>
  BY <1>2, OnlyOne
<1>11. w \o Only(batch.ids, own) \o Only(Queued, own) = Only(SubSeq(items, 1, pos), own)
  BY DEF InLine
<1> HIDE DEF w
<1>12. (w \o <<>>) \o Only(Queued, own) = (w \o Only(h, own)) \o Only(t, own)
  <2>1. Only(h \o t, own) = Only(h, own) \o Only(t, own)
    BY <1>6, OnlyConcat
  <2>2. Only(h, own) \in Seq(S) /\ Only(t, own) \in Seq(S)
    BY <1>6, OnlyType
  <2>3. (w \o Only(h, own)) \o Only(t, own) = w \o (Only(h, own) \o Only(t, own))
    BY <1>9, <2>2, ConcatAssociative
  <2>4. w \o <<>> = w
    BY <1>9, ConcatEmptySeq
  <2> QED
    BY <1>7, <2>1, <2>3, <2>4
<1>13. (w \o Only(h, own)) \o Only(t, own) = Only(SubSeq(items', 1, pos'), own')
  BY <1>1, <1>10, <1>11, <1>12
<1> QED
  BY <1>1, <1>8, <1>13 DEF InLine, w

\* A block written: its ids, which were in the maker or are just saved, come
\* after those of the blocks before.
LEMMA WrittenLast ==
  ASSUME TypeOK, NEW ids, Finalize(ids), ids \in Seq(Common)
  PROVE  Joined' \o maker' = Joined \o ids
<1>1. blocks' = Append(blocks, ids) /\ maker' = <<>>
  BY DEF Finalize
<1>2. blocks \in Seq(Seq(Common))
  BY DEF TypeOK
<1>3. FlattenSeq(Append(blocks, ids)) = FlattenSeq(blocks) \o ids
  BY <1>2, FlattenAppend
<1>4. FlattenSeq(blocks) \in Seq(Common)
  BY <1>2, FlattenType
<1>5. FlattenSeq(blocks) \o ids \in Seq(Common)
  BY <1>4, ConcatProperties
<1>6. (FlattenSeq(blocks) \o ids) \o <<>> = FlattenSeq(blocks) \o ids
  BY <1>5, ConcatEmptySeq
<1> QED
  BY <1>1, <1>3, <1>6 DEF Joined

\* The open block is written between two batches or at the end of one.
LEMMA FinalizeInLine ==
  ASSUME TypeOK, InLine, Finalize(maker), batch'.ids = batch.ids,
         UNCHANGED <<items, own, queue, pos>>
  PROVE  InLine'
<1>1. Joined' \o maker' = Joined \o maker
  BY WrittenLast DEF TypeOK
<1>2. Queued' = Queued
  BY DEF Queued
<1> QED
  BY <1>1, <1>2 DEF InLine

\* The next id of the batch: skipped, or appended to what has been joined.
LEMMA JoinInLine ==
  ASSUME TypeOK, InLine, JoinExample
  PROVE  InLine'
<1> DEFINE S == ToSet(items)
           x == Head(batch.ids)
           t == Tail(batch.ids)
<1>1. /\ batch.taken /\ batch.ids # <<>> /\ batch' = [batch EXCEPT !.ids = t]
      /\ UNCHANGED <<items, own, queue, pos>>
  BY DEF JoinExample, raw, leaderVars, consumerVars
<1>2. /\ Joined \in Seq(S) /\ maker \in Seq(S) /\ batch.ids \in Seq(S) /\ Queued \in Seq(S)
  BY PlacesType
<1>3. batch'.ids = t
  <2>1. batch \in Batches
    BY <1>1, BatchAtHand
  <2> QED
    BY <1>1, <2>1 DEF Batches
<1>4. Queued' = Queued
  BY <1>1 DEF Queued
<1> HIDE DEF S
<1>5. x \in S /\ t \in Seq(S) /\ batch.ids = <<x>> \o t
  <2>1. x \in S /\ t \in Seq(S)
    BY <1>1, <1>2, HeadTailProperties
  <2>2. batch.ids = <<Head(batch.ids)>> \o Tail(batch.ids)
    BY <1>1, <1>2, HeadFirst
  <2> QED
    BY <2>1, <2>2
<1>6. x \in own => x \in Common
  <2>1. S = ToSet(items)
    BY DEF S
  <2> QED
    BY <1>5, <2>1 DEF Common
<1>7. \/ x \notin own /\ UNCHANGED <<maker, blocks>>
      \/ x \in own /\ maker' = Append(maker, x) /\ UNCHANGED blocks
      \/ x \in own /\ Finalize(Append(maker, x))
  BY DEF JoinExample, Saved
<1> HIDE DEF x, t
<1> DEFINE b == Only(t, own)
           q == Only(Queued, own)
           e == Only(<<x>>, own)
<1>16. <<x>> \in Seq(S)
  BY <1>5
<1>8. Only(batch.ids, own) = e \o b
  BY <1>5, <1>16, OnlyConcat
<1>9. b \in Seq(S) /\ e \in Seq(S)
  BY <1>5, <1>16, OnlyType
<1>10. e = IF x \in own THEN <<x>> ELSE <<>>
  BY OnlyOne
<1>11. Joined \o maker \o (e \o b) \o q = Only(SubSeq(items, 1, pos), own)
  BY <1>8 DEF InLine
<1> HIDE DEF b, q, e
<1> DEFINE w == Joined \o maker
<1>12. w \in Seq(S)
  BY <1>2, ConcatProperties
<1> HIDE DEF w
<1>13. w \o (e \o b) = (w \o e) \o b
  BY <1>9, <1>12, ConcatAssociative
<1>14. Joined' \o maker' = w \o e
  <2>1. CASE x \notin own /\ UNCHANGED <<maker, blocks>>
    <3>1. w \o <<>> = w
      BY <1>12, ConcatEmptySeq
    <3>2. Joined' = Joined
      BY <2>1 DEF Joined
    <3> QED
      BY <1>10, <2>1, <3>1, <3>2 DEF w
  <2>2. ASSUME x \in own PROVE Joined \o Append(maker, x) = w \o e
    <3>1. Joined \o Append(maker, x) = Append(Joined \o maker, x)
      BY <1>2, <1>5, ConcatAppend
    <3>2. Append(w, x) = w \o <<x>>
      BY <1>5, <1>12, AppendIsConcat
    <3> QED
      BY <1>10, <2>2, <3>1, <3>2 DEF w
  <2>3. CASE x \in own /\ maker' = Append(maker, x) /\ UNCHANGED blocks
    <3>1. Joined' = Joined
      BY <2>3 DEF Joined
    <3> QED
      BY <2>2, <2>3, <3>1
  <2>4. CASE x \in own /\ Finalize(Append(maker, x))
    <3>1. maker \in Seq(Common)
      BY DEF TypeOK
    <3>2. Append(maker, x) \in Seq(Common)
      BY <1>6, <2>4, <3>1, AppendProperties
    <3>3. Joined' \o maker' = Joined \o Append(maker, x)
      BY <2>4, <3>2, WrittenLast
    <3> QED
      BY <2>2, <2>4, <3>3
  <2> QED
    BY <1>7, <2>1, <2>3, <2>4
<1>15. ((Joined' \o maker') \o b) \o q = Only(SubSeq(items, 1, pos), own)
  BY <1>11, <1>13, <1>14 DEF w
<1> QED
  BY <1>1, <1>3, <1>4, <1>15 DEF InLine, b, q

\* Nothing is left of a batch that ends.
LEMMA EndInLine ==
  ASSUME TypeOK, InLine, EndBatch
  PROVE  InLine'
<1>1. /\ batch.ids = <<>> /\ batch' = NoBatch
      /\ UNCHANGED <<items, own, queue, pos>>
      /\ Finalize(maker) \/ UNCHANGED <<maker, blocks>>
  BY DEF EndBatch, raw, leaderVars, consumerVars
<1>2. batch'.ids = batch.ids
  BY <1>1 DEF NoBatch
<1>3. CASE Finalize(maker)
  BY <1>1, <1>2, <1>3, FinalizeInLine
<1>4. CASE UNCHANGED <<maker, blocks>>
  BY <1>1, <1>2, <1>4 DEF InLine, Joined, Queued
<1> QED
  BY <1>1, <1>3, <1>4

\* Nothing moves when nothing that holds an id changes.
LEMMA SameLine ==
  ASSUME InLine, UNCHANGED <<items, own, blocks, maker, batch, queue, pos>>
  PROVE  InLine'
  BY DEF InLine, Joined, Queued

\* Without faults a second run never begins, and the order is kept.
LEMMA OrderStep ==
  ASSUME Complete, OneRun, JoinedOnce, [Next]_vars
  PROVE  OneRun' /\ JoinedOnce'
<1>1. TypeOK
  BY DEF Complete
<1>2. faults \in Nat
  BY <1>1 DEF TypeOK
<1>3. SUFFICES ASSUME faults' = 0
               PROVE  /\ late' = {}
                      /\ sender' # "idle" => partition' /\ ~send_finished'
                      /\ sender' = "idle" /\ ~send_finished' => pos' = 0
                      /\ InLine'
  BY InLineIs DEF OneRun
<1>4. ~Fault
  BY <1>2, <1>3 DEF Fault
<1>5. faults = 0
  BY <1>3, <1>4 DEF Next, Leader, Joiner, StartPartition, SyncPartition, FinishPartition,
     CallBreaks, LateRequest, BuildDataJoiner, TakeBatch, JoinExample, EndBatch,
     DumpOnTimeSpan, LeaderRestarts, FollowerRestarts, vars
<1>6. /\ InLine /\ late = {}
      /\ sender # "idle" => partition /\ ~send_finished
      /\ sender = "idle" /\ ~send_finished => pos = 0
  BY <1>5, InLineIs DEF OneRun
<1>7. CASE StartPartition
  <2>1. /\ UNCHANGED <<items, own, blocks, maker, batch, queue, late, partition, send_finished>>
        /\ sender = "idle" /\ partition
        /\ \/ send_finished /\ UNCHANGED <<sender, pos>>
           \/ ~send_finished /\ sender' = "send" /\ pos' = 0
    BY <1>7 DEF StartPartition, StartRun, SyncedFinished, raw, consumerVars, joinerVars
  <2>2. pos' = pos
    BY <1>6, <2>1
  <2>3. InLine'
    BY <1>6, <2>1, <2>2, SameLine
  <2> QED
    BY <1>6, <2>1, <2>2, <2>3
<1>8. CASE SyncPartition
  <2>1. InLine'
    BY <1>1, <1>5, <1>6, <1>8, SyncInLine
  <2>2. /\ sender = "send" /\ UNCHANGED <<partition, send_finished, late>>
        /\ partition => sender' \in {"send", "finish"}
    BY <1>8 DEF SyncPartition
  <2> QED
    BY <1>6, <2>1, <2>2
<1>9. CASE FinishPartition
  <2>1. /\ sender = "finish" /\ sender' = "idle"
        /\ UNCHANGED <<items, own, blocks, maker, batch, queue, pos, late>>
        /\ partition => send_finished' = TRUE
    BY <1>9 DEF FinishPartition, FinishPartitionHandler, FinishPartitionTransmit, raw, joinerVars
  <2>2. InLine'
    BY <1>6, <2>1, SameLine
  <2> QED
    BY <1>6, <2>1, <2>2
<1>10. CASE BuildDataJoiner
  <2>1. UNCHANGED <<items, own, blocks, maker, batch, queue, pos, late, sender, partition, send_finished>>
    BY <1>10 DEF BuildDataJoiner, raw, leaderVars, consumerVars
  <2>2. InLine'
    BY <1>6, <2>1, SameLine
  <2> QED
    BY <1>6, <2>1, <2>2
<1>11. CASE TakeBatch
  <2>1. UNCHANGED <<pos, late, sender, partition, send_finished>>
    BY <1>11 DEF TakeBatch, AtLoopHead, leaderVars
  <2>2. InLine'
    BY <1>1, <1>6, <1>11, TakeInLine
  <2> QED
    BY <1>6, <2>1, <2>2
<1>12. CASE JoinExample
  <2>1. UNCHANGED <<pos, late, sender, partition, send_finished>>
    BY <1>12 DEF JoinExample, leaderVars, consumerVars
  <2>2. InLine'
    BY <1>1, <1>6, <1>12, JoinInLine
  <2> QED
    BY <1>6, <2>1, <2>2
<1>13. CASE EndBatch
  <2>1. UNCHANGED <<pos, late, sender, partition, send_finished>>
    BY <1>13 DEF EndBatch, leaderVars, consumerVars
  <2>2. InLine'
    BY <1>1, <1>6, <1>13, EndInLine
  <2> QED
    BY <1>6, <2>1, <2>2
<1>14. CASE DumpOnTimeSpan
  <2>1. /\ Finalize(maker) /\ batch'.ids = batch.ids
        /\ UNCHANGED <<items, own, queue, pos, late, sender, partition, send_finished>>
    BY <1>14 DEF DumpOnTimeSpan, AtLoopHead, raw, leaderVars, consumerVars
  <2>2. InLine'
    BY <1>1, <1>6, <2>1, FinalizeInLine
  <2> QED
    BY <1>6, <2>1, <2>2
<1>15. CASE UNCHANGED vars
  <2>1. UNCHANGED <<items, own, blocks, maker, batch, queue, pos, late, sender, partition, send_finished>>
    BY <1>15 DEF vars, raw, leaderVars, consumerVars, joinerVars
  <2>2. InLine'
    BY <1>6, <2>1, SameLine
  <2> QED
    BY <1>6, <2>1, <2>2
<1>16. ~CallBreaks /\ ~LeaderRestarts /\ ~FollowerRestarts
  BY <1>4 DEF CallBreaks, LeaderRestarts, FollowerRestarts
<1>17. ~ \E request \in late : LateRequest(request)
  BY <1>6
<1> QED
  BY <1>7, <1>8, <1>9, <1>10, <1>11, <1>12, <1>13, <1>14, <1>15, <1>16, <1>17
     DEF Next, Leader, Joiner

-----------------------------------------------------------------------------
(* The invariant and what it implies                                       *)

\* The processes start with nothing sent, received or joined.
LEMMA Initially ==
  ASSUME Init
  PROVE  Complete
<1>1. /\ sender = "idle" /\ pos = 0 /\ partition_finished = FALSE /\ follower_finished = FALSE
      /\ partition = TRUE /\ send_finished = FALSE /\ queue = <<>> /\ late = {}
      /\ built = FALSE /\ batch = NoBatch /\ maker = <<>> /\ blocks = <<>>
      /\ joiner_finished = FALSE /\ crashed = FALSE /\ faults = 0
  BY DEF Init
<1>2. items \in Seq(ToSet(items))
  BY ItemDictIs DEF Init
<1>3. TypeOK
  <2>1. pos \in 0..Len(items)
    BY <1>1, <1>2, LenProperties
  <2>2. queue \in Seq(Batches) /\ maker \in Seq(Common) /\ Len(maker) < Threshold
        /\ blocks \in Seq(Seq(Common))
    BY <1>1, EmptySeq
  <2>3. faults \in 0..MaxFaults
    BY <1>1
  <2> QED
    BY <1>1, <1>2, <2>1, <2>2, <2>3 DEF TypeOK
<1>4. Kept
  <2>1. Len(queue) = 0 /\ batch.finished = FALSE
    BY <1>1, EmptySeq DEF NoBatch
  <2>2. \A k \in 1..Len(queue) : FALSE
    BY <2>1
  <2> QED
    BY <1>1, <2>1, <2>2 DEF Kept
<1>5. SentAll /\ FinishedByLast
  BY <1>1 DEF SentAll, FinishedByLast
<1> QED
  BY <1>3, <1>4, <1>5 DEF Complete

\* A step in which nothing happens.
LEMMA Stutter ==
  ASSUME Complete, UNCHANGED vars
  PROVE  Complete'
<1>1. UNCHANGED <<raw, leaderVars, consumerVars, joinerVars, crashed, faults>>
  BY DEF vars
<1>2. /\ UNCHANGED <<items, own>>
      /\ UNCHANGED <<sender, pos, partition_finished, follower_finished>>
      /\ UNCHANGED <<partition, send_finished, queue, late>>
      /\ UNCHANGED <<built, batch, maker, blocks, joiner_finished>>
  BY <1>1 DEF raw, leaderVars, consumerVars, joinerVars
<1>3. Common' = Common /\ Batches' = Batches
  BY <1>2 DEF Common, Batches
<1>4. TypeOK'
  BY <1>1, <1>2, <1>3 DEF Complete, TypeOK
<1>5. ~crashed' => Kept'
  <2>1. AtJoiner' = AtJoiner
    BY <1>2 DEF AtJoiner, InBlocks
  <2> QED
    BY <1>1, <1>2, <2>1, KeptAtJoiner DEF Complete
<1>6. SentAll' /\ FinishedByLast'
  BY <1>2 DEF Complete, SentAll, FinishedByLast
<1> QED
  BY <1>4, <1>5, <1>6 DEF Complete

\* Every step keeps the invariant.
LEMMA Step == Complete /\ [Next]_vars => Complete'
<1> SUFFICES ASSUME Complete, [Next]_vars PROVE Complete'
  OBVIOUS
<1>1. CASE Leader
  BY <1>1, StartPartitionStep, SyncPartitionStep, FinishPartitionStep DEF Leader
<1>2. CASE CallBreaks
  BY <1>2, CallBreaksStep
<1>3. CASE \E request \in late : LateRequest(request)
  BY <1>3, LateRequestStep
<1>4. CASE Joiner
  BY <1>4, BuildDataJoinerStep, TakeBatchStep, JoinExampleStep, EndBatchStep DEF Joiner
<1>5. CASE DumpOnTimeSpan
  BY <1>5, DumpOnTimeSpanStep
<1>6. CASE LeaderRestarts
  BY <1>6, LeaderRestartsStep
<1>7. CASE FollowerRestarts
  BY <1>7, FollowerRestartsStep
<1>8. CASE UNCHANGED vars
  BY <1>8, Stutter
<1> QED
  BY <1>1, <1>2, <1>3, <1>4, <1>5, <1>6, <1>7, <1>8 DEF Next

\* At the start one run is to come, and nothing has been sent or joined.
LEMMA OrderInitially ==
  ASSUME Init
  PROVE  OneRun /\ JoinedOnce /\ IsInjective(items)
<1>1. OneRun
  BY DEF Init, OneRun
<1>2. IsInjective(items)
  BY ItemDictIs DEF Init
<1>3. JoinedOnce
  <2>1. blocks = <<>> /\ maker = <<>> /\ batch = NoBatch /\ queue = <<>> /\ pos = 0
    BY DEF Init
  <2>2. Joined = <<>>
    BY <2>1, FlattenNone DEF Joined
  <2>3. Queued = <<>>
    <3>1. IdsOf(<<>>) = <<>>
      BY DEF IdsOf
    <3> QED
      BY <2>1, <3>1, FlattenNone DEF Queued, IdsOf
  <2>4. batch.ids = <<>>
    BY <2>1 DEF NoBatch
  <2>5. SubSeq(items, 1, pos) = <<>>
    BY <2>1, SubSeqEmpty
  <2>6. Only(<<>>, own) = <<>>
    BY OnlyOne
  <2>7. <<>> \o <<>> = <<>>
    <3>1. <<>> \in Seq({})
      BY EmptySeq
    <3> QED
      BY <3>1, ConcatEmptySeq
  <2>8. InLine
    BY <2>1, <2>2, <2>3, <2>4, <2>5, <2>6, <2>7 DEF InLine
  <2> QED
    BY <2>8, InLineIs
<1> QED
  BY <1>1, <1>2, <1>3

\* The raw data stay as they are.
LEMMA RawStays ==
  ASSUME [Next]_vars
  PROVE  UNCHANGED <<items, own>>
  BY DEF Next, Leader, Joiner, StartPartition, SyncPartition, FinishPartition,
     CallBreaks, LateRequest, BuildDataJoiner, TakeBatch, JoinExample, EndBatch,
     DumpOnTimeSpan, LeaderRestarts, FollowerRestarts, vars, raw

\* The invariant together with the order, which is inductive only with it.
LEMMA InOrder == Spec => [](IInv /\ JoinedOnce)
<1>1. Init => IInv /\ JoinedOnce
  BY Initially, OrderInitially DEF IInv
<1>2. IInv /\ JoinedOnce /\ [Next]_vars => (IInv /\ JoinedOnce)'
  <2> SUFFICES ASSUME IInv, JoinedOnce, [Next]_vars PROVE IInv' /\ JoinedOnce'
    OBVIOUS
  <2>1. Complete /\ OneRun /\ IsInjective(items)
    BY DEF IInv
  <2>2. Complete'
    BY <2>1, Step
  <2>3. OneRun' /\ JoinedOnce'
    BY <2>1, OrderStep
  <2>4. IsInjective(items')
    BY <2>1, RawStays
  <2> QED
    BY <2>2, <2>3, <2>4 DEF IInv
<1> QED
  BY <1>1, <1>2, PTL DEF Spec

\* The inductive invariant holds in every state: what a run has sent is with the
\* follower, a batch marked finished, in the queue, at the joiner or still on its
\* way, completes what was received before it, and without faults one run is all
\* there is.
THEOREM Invariance == Spec => []IInv
  BY InOrder, PTL

\* As long as no call breaks and nothing crashes, what is in blocks, in the open
\* block, in the joiner's batch and in the queue is, in this order, what the
\* leader has sent of the common ids: whatever the batch and block sizes, however
\* often a block is written because its time is over, and whatever empty() of the
\* queue says when the partition is finished.
THEOREM JoinedInOrder == Spec => []JoinedOnce
  BY InOrder, PTL

\* As long as no call breaks and nothing crashes, no id is in two data blocks or
\* twice in one, also when the raw data of the leader have it in several records.
THEOREM NoIdTwice == Spec => [](faults = 0 => IsInjective(Joined))
<1>1. IInv /\ JoinedOnce => (faults = 0 => IsInjective(Joined))
  <2> SUFFICES ASSUME IInv, JoinedOnce, faults = 0 PROVE IsInjective(Joined)
    OBVIOUS
  <2> DEFINE S == ToSet(items)
             sent == SubSeq(items, 1, pos)
  <2>1. TypeOK /\ IsInjective(items) /\ InLine
    BY InLineIs DEF IInv, Complete
  <2>2. /\ Joined \in Seq(S) /\ maker \in Seq(S) /\ batch.ids \in Seq(S) /\ Queued \in Seq(S)
    BY <2>1, PlacesType
  <2>3. sent \in Seq(S) /\ items \in Seq(S) /\ pos \in 0..Len(items)
    BY <2>1, NextBatchFollows DEF TypeOK
  <2> HIDE DEF S
  <2>4. IsInjective(sent)
    <3> DEFINE rest == SubSeq(items, pos + 1, Len(items))
    <3>1. Len(items) \in Nat /\ pos \in Nat /\ pos <= Len(items)
      BY <2>3, LenProperties
    <3>2. sent \o rest = SubSeq(items, 1, Len(items))
      <4>1. /\ 1 \in 1..(Len(items) + 1) /\ pos \in (1 - 1)..Len(items)
            /\ Len(items) \in pos..Len(items)
        BY <3>1
      <4> QED
        BY <2>3, <4>1, ConcatAdjacentSubSeq
    <3>3. SubSeq(items, 1, Len(items)) = items
      BY <2>3, SubSeqFull
    <3>4. rest \in Seq(S)
      <4> DEFINE m == pos + 1
                 l == Len(items)
      <4>1. m \in 1..(Len(items) + 1) /\ l \in 0..Len(items) /\ m <= l + 1
        BY <3>1
      <4> HIDE DEF m, l
      <4>2. SubSeq(items, m, l) \in Seq(S)
        BY <2>3, <4>1, ToSetSubSeq
      <4> QED
        BY <4>2 DEF m, l
    <3>5. IsInjective(sent \o rest)
      BY <2>1, <3>2, <3>3
    <3> HIDE DEF rest, sent
    <3> QED
      BY <2>3, <3>4, <3>5, InjectiveParts
  <2> HIDE DEF sent
  <2> DEFINE b == Only(batch.ids, own)
             q == Only(Queued, own)
  <2>5. IsInjective(Only(sent, own))
    BY <2>3, <2>4, OnlyInjective
  <2>6. b \in Seq(S) /\ q \in Seq(S)
    BY <2>2, OnlyType
  <2>7. ((Joined \o maker) \o b) \o q = Only(sent, own)
    BY <2>1 DEF InLine, sent
  <2> HIDE DEF b, q
  <2>8. Joined \o maker \in Seq(S)
    BY <2>2, ConcatProperties
  <2>9. (Joined \o maker) \o b \in Seq(S)
    BY <2>6, <2>8, ConcatProperties
  <2>10. IsInjective((Joined \o maker) \o b)
    BY <2>5, <2>6, <2>7, <2>9, InjectiveParts
  <2>11. IsInjective(Joined \o maker)
    BY <2>6, <2>8, <2>10, InjectiveParts
  <2> QED
    BY <2>2, <2>11, InjectiveParts
<1> QED
  BY <1>1, InOrder, PTL

\* Types: what is queued, late or taken are batches of the leader's ids, the open
\* block is never full, and blocks have only ids of both parties.
THEOREM TypeCorrect == Spec => []TypeOK
<1>1. IInv => TypeOK
  BY DEF IInv, Complete
<1> QED
  BY <1>1, Invariance, PTL

\* No common id is lost while the follower runs, whatever calls break, are
\* repeated or are executed late and however often the leader restarts: when the
\* consumer has been told that the partition is complete every common id is
\* joined or on its way, and when the joiner has finished it is in a block.
THEOREM NothingLostEver == Spec => []NothingLost
<1>1. IInv => NothingLost
  <2> SUFFICES ASSUME IInv, ~crashed PROVE
               /\ send_finished => Common \subseteq Received
               /\ joiner_finished /\ ~batch.taken => Common \subseteq InBlocks
    BY DEF NothingLost
  <2>1. TypeOK /\ Kept /\ FinishedByLast
    BY DEF IInv, Complete
  <2>2. send_finished => Common \subseteq Received
    BY <2>1 DEF Kept
  <2>3. ASSUME joiner_finished, ~batch.taken PROVE Common \subseteq InBlocks
    <3>1. maker = <<>>
      BY <2>1, <2>3 DEF FinishedByLast
    <3>2. batch.ids = <<>>
      BY <2>1, <2>3, BatchAtHand DEF NoBatch
    <3>3. Common \subseteq AtJoiner
      BY <2>1, <2>3 DEF Kept
    <3> QED
      BY <3>1, <3>2, <3>3, ToSetEmpty DEF AtJoiner
  <2> QED
    BY <2>2, <2>3
<1> QED
  BY <1>1, Invariance, PTL
=============================================================================
