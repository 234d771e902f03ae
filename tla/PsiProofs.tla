----------------------------- MODULE PsiProofs -----------------------------
(***************************************************************************)
(* Proofs about the private set intersection, in two parts.                *)
(*                                                                         *)
(* PsiJobs, for any command lines, hash function, number of blocks and     *)
(* workers and number of link errors: no block is ever in the hands of two *)
(* workers of a party or handed out again; a job that is reported has the  *)
(* intersection, and the counts it is reported with are those of its       *)
(* output unless a call was late.  Every action changes one party's        *)
(* dispatcher, workers, calls and output, so the invariant is stated for   *)
(* these four (OneParty, then Made, Known, Said and Told) and each kind of *)
(* change has a lemma that knows nothing of the rest of the state.  That   *)
(* the blocks together have the rows of the input, and their joins those   *)
(* of the intersection, is a matter of sums, filters and concatenations    *)
(* only.                                                                   *)
(*                                                                         *)
(* PsiFlow, for any columns, contexts, batch size, window and number of    *)
(* link errors: what a side takes is the intersection as far as its ids    *)
(* have come back.  The ids of the two sides go two ways that share no     *)
(* variable but the flag the look-up waits for, so the invariant is stated *)
(* for one way (Way); a step changes one of them and WayFrame keeps the    *)
(* other.                                                                  *)
(***************************************************************************)
EXTENDS PsiJobs, PsiFlow, FiniteSetTheorems, SequenceTheorems,
        WellFoundedInduction, TLAPS

Pcs == {"idle", "read", "psi", "write", "returned", "raised", "hung"}

AStatus(v) == DOMAIN v = {"st", "counts"} /\ v.st \in States
AWorker(w, B) == /\ DOMAIN w = {"pc", "block", "out"}
                 /\ w.pc \in Pcs
                 /\ w.block \in B \cup {0}
                 /\ w.block = 0 => w.pc = "idle"
ACall(c, B) == /\ c[1] \in B
               /\ DOMAIN c[2] = {"st", "counts"}
               /\ c[2].st \in States \ {"INIT"}

(* The parts of the invariant for one party: s the status of its blocks,   *)
(* w its workers, m their calls on the way, r the output of its blocks.    *)
Parts(s, w, m, r) ==
  /\ DOMAIN s \subseteq Nat \ {0}
  /\ DOMAIN r = DOMAIN s
  /\ DOMAIN m = DOMAIN w
  /\ \A b \in DOMAIN s: AStatus(s[b])
  /\ \A a \in DOMAIN w: AWorker(w[a], DOMAIN s)

Calls(s, m) ==
  \A a \in DOMAIN m: /\ m[a] \in Seq(Range(m[a]))
                     /\ \A c \in Range(m[a]): ACall(c, DOMAIN s)

Unborn(s, r) == \A b \in DOMAIN s: s[b].st = "INIT" => r[b] = << >>

Once(s, w, r) ==
  \A a \in DOMAIN w:
    w[a].block # 0 => /\ \A c \in DOMAIN w \ {a}: w[c].block # w[a].block
                      /\ s[w[a].block].st # "INIT"
                      /\ w[a].pc \in {"read", "psi"} => r[w[a].block] = << >>

OneParty(s, w, m, r) ==
  Parts(s, w, m, r) /\ Calls(s, m) /\ Unborn(s, r) /\ Once(s, w, r)

Globals == /\ conf \in Scenarios
           /\ driver \in [Party -> {"start", "running", "merging",
                                    "reporting", "reported", "failed"}]
           /\ faults \in 0..MaxFaults
           /\ gaveUp \in BOOLEAN /\ cut \in BOOLEAN

Indexed == /\ DOMAIN status = Party /\ DOMAIN worker = Party
           /\ DOMAIN mail = Party /\ DOMAIN refs = Party

OneOf(p) == OneParty(status[p], worker[p], mail[p], refs[p])

(* The invariant of PsiJobs is the one of the two parties side by side.    *)
LEMMA Split == Dispatched <=> Globals /\ Indexed /\ \A p \in Party: OneOf(p)
  BY DEF Dispatched, TypeOK, Begun, Fresh, BlocksWorkedOnce, Globals, Indexed, OneOf,
         OneParty, Parts, Calls, Unborn, Once, AStatus, AWorker, ACall, Pcs

(* The least element of a set of numbers, which Min picks.                 *)
LEMMA LeastOf ==
  ASSUME NEW T, T \subseteq Nat, T # {}
  PROVE  \E x \in T: \A y \in T: x <= y
<1>1. PICK x \in T: \A y \in T: ~(<<y, x>> \in OpToRel(<, Nat))
  BY NatLessThanWellFounded, WFMin
<1>2. \A y \in T: ~(y < x)
  BY <1>1 DEF OpToRel
<1> QED BY <1>2

(* What Min of a nonempty set of numbers is.                               *)
LEMMA MinIs ==
  ASSUME NEW T, T \subseteq Nat, T # {}
  PROVE  Min(T) \in T /\ \A y \in T: Min(T) <= y
  BY LeastOf DEF Min
-----------------------------------------------------------------------------
(* A worker goes on with its block: pc and out change, and it does not     *)
(* start to work on it again.                                              *)
LEMMA Moved ==
  ASSUME NEW s, NEW w, NEW m, NEW r, OneParty(s, w, m, r),
         NEW a \in DOMAIN w, NEW v,
         DOMAIN v = {"pc", "block", "out"}, v.pc \in Pcs,
         v.block = w[a].block, v.block # 0,
         v.pc \in {"read", "psi"} => w[a].pc \in {"read", "psi"}
  PROVE  OneParty(s, [w EXCEPT ![a] = v], m, r)
<1> DEFINE w2 == [w EXCEPT ![a] = v]
<1>1. /\ DOMAIN w2 = DOMAIN w /\ w2[a] = v
      /\ \A c \in DOMAIN w \ {a}: w2[c] = w[c]
      /\ \A c \in DOMAIN w: w2[c].block = w[c].block
  OBVIOUS
<1> HIDE DEF w2
<1>2. Parts(s, w2, m, r)
  BY <1>1 DEF OneParty, Parts, AWorker
<1>3. Once(s, w2, r)
  BY <1>1 DEF OneParty, Once
<1> QED
  BY <1>2, <1>3 DEF OneParty, w2

(* A worker sends a status other than INIT for a block.                    *)
LEMMA Posted ==
  ASSUME NEW s, NEW w, NEW m, NEW r, OneParty(s, w, m, r),
         NEW a \in DOMAIN w, NEW b \in DOMAIN s,
         NEW st \in States \ {"INIT"}, NEW counts
  PROVE  OneParty(s, w, [m EXCEPT ![a] = Append(@, <<b, Status(st, counts)>>)], r)
<1> DEFINE call == <<b, Status(st, counts)>>
           q == Append(m[a], call)
           m2 == [m EXCEPT ![a] = q]
<1>1. a \in DOMAIN m /\ m[a] \in Seq(Range(m[a]))
  BY DEF OneParty, Parts, Calls
<1>2. ACall(call, DOMAIN s)
  BY DEF ACall, Status
<1>3. q \in Seq(Range(q)) /\ \A c \in Range(q): c = call \/ c \in Range(m[a])
  <2> HIDE DEF call
  <2>1. /\ q \in Seq(Range(m[a]) \cup {call}) /\ Len(q) = Len(m[a]) + 1
        /\ DOMAIN q = 1..Len(q) /\ DOMAIN m[a] = 1..Len(m[a]) /\ Len(m[a]) \in Nat
        /\ \A i \in 1..Len(m[a]): q[i] = m[a][i]
        /\ q[Len(m[a]) + 1] = call
    BY <1>1
  <2> HIDE DEF q
  <2>2. q \in [1..Len(q) -> Range(q)]
    BY <2>1 DEF Range
  <2>3. q \in Seq(Range(q))
    BY <2>1, <2>2
  <2>4. \A c \in Range(q): c = call \/ c \in Range(m[a])
    BY <2>1 DEF Range
  <2> QED BY <2>3, <2>4
<1> HIDE DEF call, q
<1>4. /\ DOMAIN m2 = DOMAIN m /\ m2[a] = q
      /\ \A c \in DOMAIN m \ {a}: m2[c] = m[c]
  BY <1>1
<1> HIDE DEF m2
<1>5. Calls(s, m2)
  <2> SUFFICES ASSUME NEW c \in DOMAIN m2
               PROVE  /\ m2[c] \in Seq(Range(m2[c]))
                      /\ \A k \in Range(m2[c]): ACall(k, DOMAIN s)
    BY DEF Calls
  <2>1. CASE c = a
    BY <2>1, <1>1, <1>2, <1>3, <1>4 DEF OneParty, Calls
  <2>2. CASE c # a
    BY <2>2, <1>4 DEF OneParty, Calls
  <2> QED BY <2>1, <2>2
<1>6. Parts(s, w, m2, r)
  BY <1>4 DEF OneParty, Parts
<1> QED
  BY <1>5, <1>6 DEF OneParty, m2, q, call

(* The dispatcher runs the next call of a worker.                          *)
LEMMA Delivered ==
  ASSUME NEW s, NEW w, NEW m, NEW r, OneParty(s, w, m, r),
         NEW a \in DOMAIN w, m[a] # << >>
  PROVE  OneParty([s EXCEPT ![Head(m[a])[1]] = Head(m[a])[2]], w,
                  [m EXCEPT ![a] = Tail(@)], r)
<1> DEFINE b == Head(m[a])[1]
           v == Head(m[a])[2]
           q == Tail(m[a])
           s2 == [s EXCEPT ![b] = v]
           m2 == [m EXCEPT ![a] = q]
<1>1. a \in DOMAIN m /\ m[a] \in Seq(Range(m[a]))
  BY DEF OneParty, Parts, Calls
<1>2. Head(m[a]) \in Range(m[a])
  BY <1>1
<1>3. b \in DOMAIN s /\ DOMAIN v = {"st", "counts"} /\ v.st \in States \ {"INIT"}
  BY <1>1, <1>2 DEF OneParty, Calls, ACall
<1>4. q \in Seq(Range(q)) /\ Range(q) \subseteq Range(m[a])
  <2>1. /\ q \in Seq(Range(m[a])) /\ DOMAIN q = 1..Len(q) /\ Len(q) \in Nat
        /\ DOMAIN m[a] = 1..Len(m[a]) /\ Len(q) = Len(m[a]) - 1
        /\ \A i \in 1..Len(q): q[i] = m[a][i + 1]
    BY <1>1
  <2> HIDE DEF q
  <2>2. q \in [1..Len(q) -> Range(q)]
    BY <2>1 DEF Range
  <2>3. q \in Seq(Range(q))
    BY <2>1, <2>2
  <2>4. \A i \in 1..Len(q): q[i] \in Range(m[a])
    BY <2>1 DEF Range
  <2> QED BY <2>1, <2>3, <2>4 DEF Range
<1> HIDE DEF b, v, q
<1>5. /\ DOMAIN m2 = DOMAIN m /\ m2[a] = q
      /\ \A c \in DOMAIN m \ {a}: m2[c] = m[c]
      /\ DOMAIN s2 = DOMAIN s /\ s2[b] = v
      /\ \A c \in DOMAIN s \ {b}: s2[c] = s[c]
  BY <1>1, <1>3
<1> HIDE DEF s2, m2
<1>6. Parts(s2, w, m2, r)
  BY <1>3, <1>5 DEF OneParty, Parts, AStatus
<1>7. Calls(s2, m2)
  <2> SUFFICES ASSUME NEW c \in DOMAIN m2
               PROVE  /\ m2[c] \in Seq(Range(m2[c]))
                      /\ \A k \in Range(m2[c]): ACall(k, DOMAIN s)
    BY <1>5 DEF Calls
  <2>1. CASE c = a
    BY <2>1, <1>1, <1>4, <1>5 DEF OneParty, Calls
  <2>2. CASE c # a
    BY <2>2, <1>5 DEF OneParty, Calls
  <2> QED BY <2>1, <2>2
<1>8. \A c \in DOMAIN s: s2[c].st = "INIT" => s[c].st = "INIT"
  BY <1>3, <1>5
<1>9. Unborn(s2, r)
  BY <1>5, <1>8 DEF OneParty, Unborn
<1>10. Once(s2, w, r)
  BY <1>8 DEF OneParty, Once, Parts, AWorker
<1> QED
  BY <1>6, <1>7, <1>9, <1>10 DEF OneParty, s2, m2, b, v, q

(* The output of a worker's block is written once it has stopped working   *)
(* on it.                                                                  *)
LEMMA Written ==
  ASSUME NEW s, NEW w, NEW m, NEW r, OneParty(s, w, m, r),
         NEW a \in DOMAIN w, w[a].pc \notin {"idle", "read", "psi"}, NEW rows
  PROVE  OneParty(s, w, m, [r EXCEPT ![w[a].block] = rows])
<1> DEFINE b == w[a].block
           r2 == [r EXCEPT ![b] = rows]
<1>1. b \in DOMAIN s /\ b # 0
  BY DEF OneParty, Parts, AWorker
<1>2. /\ s[b].st # "INIT"
      /\ \A c \in DOMAIN w \ {a}: w[c].block # b
  BY <1>1 DEF OneParty, Once
<1>3. w[a].block = b
  OBVIOUS
<1> HIDE DEF b
<1>4. DOMAIN r2 = DOMAIN r /\ \A c \in DOMAIN r \ {b}: r2[c] = r[c]
  OBVIOUS
<1> HIDE DEF r2
<1>5. Parts(s, w, m, r2)
  BY <1>4 DEF OneParty, Parts
<1>6. Unborn(s, r2)
  BY <1>2, <1>4 DEF OneParty, Parts, Unborn
<1>7. Once(s, w, r2)
  <2> SUFFICES ASSUME NEW c \in DOMAIN w, w[c].block # 0
               PROVE  /\ \A d \in DOMAIN w \ {c}: w[d].block # w[c].block
                      /\ s[w[c].block].st # "INIT"
                      /\ w[c].pc \in {"read", "psi"} => r2[w[c].block] = << >>
    BY DEF Once
  <2>1. /\ \A d \in DOMAIN w \ {c}: w[d].block # w[c].block
        /\ s[w[c].block].st # "INIT"
        /\ w[c].pc \in {"read", "psi"} => r[w[c].block] = << >>
        /\ w[c].block \in DOMAIN r
    BY DEF OneParty, Once, Parts, AWorker
  <2>2. w[c].pc \in {"read", "psi"} => w[c].block # b
    BY <1>2
  <2> QED
    BY <2>1, <2>2, <1>4
<1> QED
  BY <1>5, <1>6, <1>7 DEF OneParty, r2, b

(* A block nobody has goes to a worker.                                    *)
LEMMA HandedOut ==
  ASSUME NEW s, NEW w, NEW m, NEW r, OneParty(s, w, m, r),
         NEW a \in DOMAIN w, NEW b \in DOMAIN s, s[b].st = "INIT"
  PROVE  OneParty([s EXCEPT ![b].st = "PREPARED"], [w EXCEPT ![a] = Take(b)],
                  m, r)
<1> DEFINE s2 == [s EXCEPT ![b].st = "PREPARED"]
           w2 == [w EXCEPT ![a] = Take(b)]
<1>1. \A c \in DOMAIN w: w[c].block # b
  BY DEF OneParty, Parts, AWorker, Once
<1>2. b \in Nat \ {0} /\ r[b] = << >> /\ DOMAIN s[b] = {"st", "counts"}
  BY DEF OneParty, Parts, AStatus, Unborn
<1>3. /\ DOMAIN s2 = DOMAIN s /\ s2[b].st = "PREPARED"
      /\ DOMAIN s2[b] = {"st", "counts"}
      /\ \A c \in DOMAIN s \ {b}: s2[c] = s[c]
  BY <1>2
<1>4. /\ DOMAIN w2 = DOMAIN w /\ w2[a] = Take(b)
      /\ \A c \in DOMAIN w \ {a}: w2[c] = w[c]
  OBVIOUS
<1>5. Take(b).pc = "read" /\ Take(b).block = b /\ AWorker(Take(b), DOMAIN s)
  BY <1>2 DEF Take, AWorker, Pcs
<1> HIDE DEF s2, w2
<1>6. Parts(s2, w2, m, r)
  BY <1>3, <1>4, <1>5 DEF OneParty, Parts, AStatus, States
<1>7. Calls(s2, m)
  BY <1>3 DEF OneParty, Calls
<1>8. Unborn(s2, r)
  BY <1>3 DEF OneParty, Unborn
<1>9. Once(s2, w2, r)
  <2> SUFFICES ASSUME NEW c \in DOMAIN w, w2[c].block # 0
               PROVE  /\ \A d \in DOMAIN w \ {c}: w2[d].block # w2[c].block
                      /\ s2[w2[c].block].st # "INIT"
                      /\ w2[c].pc \in {"read", "psi"} => r[w2[c].block] = << >>
    BY <1>4 DEF Once
  <2>1. CASE c = a
    BY <2>1, <1>1, <1>2, <1>3, <1>4, <1>5
  <2>2. CASE c # a
    <3>1. w2[c] = w[c] /\ w[c].block # b
      BY <2>2, <1>1, <1>4
    <3>2. /\ \A d \in DOMAIN w \ {c}: w[d].block # w[c].block
          /\ s[w[c].block].st # "INIT"
          /\ w[c].pc \in {"read", "psi"} => r[w[c].block] = << >>
          /\ w[c].block \in DOMAIN s
      BY <3>1 DEF OneParty, Once, Parts, AWorker
    <3> QED
      BY <3>1, <3>2, <1>1, <1>3, <1>4, <1>5
  <2> QED BY <2>1, <2>2
<1> QED
  BY <1>6, <1>7, <1>8, <1>9 DEF OneParty, s2, w2

(* A worker for whom there is no block left.                               *)
LEMMA Rested ==
  ASSUME NEW s, NEW w, NEW m, NEW r, OneParty(s, w, m, r), NEW a \in DOMAIN w
  PROVE  OneParty(s, [w EXCEPT ![a] = Idle], m, r)
<1> DEFINE w2 == [w EXCEPT ![a] = Idle]
<1>1. /\ DOMAIN w2 = DOMAIN w /\ w2[a] = Idle
      /\ \A c \in DOMAIN w \ {a}: w2[c] = w[c]
  OBVIOUS
<1>2. Idle.block = 0 /\ AWorker(Idle, DOMAIN s)
  BY DEF Idle, AWorker, Pcs
<1> HIDE DEF w2
<1>3. Parts(s, w2, m, r)
  BY <1>1, <1>2 DEF OneParty, Parts
<1>4. Once(s, w2, r)
  BY <1>1, <1>2 DEF OneParty, Once
<1> QED
  BY <1>3, <1>4 DEF OneParty, w2

(* Calls that are lost with the actors of a party.                         *)
LEMMA Silenced ==
  ASSUME NEW s, NEW w, NEW m, NEW r, OneParty(s, w, m, r)
  PROVE  OneParty(s, w, [a \in DOMAIN m |-> << >>], r)
<1>1. \A x: x \notin Range(<< >>)
  BY DEF Range
<1>2. << >> \in Seq(Range(<< >>))
  OBVIOUS
<1>3. Calls(s, [a \in DOMAIN m |-> << >>])
  BY <1>1, <1>2 DEF Calls
<1> QED
  BY <1>3 DEF OneParty, Parts

(* The workers of a party that fails.                                      *)
LEMMA Stopped ==
  ASSUME NEW s, NEW w, NEW m, NEW r, OneParty(s, w, m, r)
  PROVE  OneParty(s, [a \in DOMAIN w |-> Idle], m, r)
<1>1. Idle.block = 0 /\ AWorker(Idle, DOMAIN s)
  BY DEF Idle, AWorker, Pcs
<1>2. Parts(s, [a \in DOMAIN w |-> Idle], m, r)
  BY <1>1 DEF OneParty, Parts
<1>3. Once(s, [a \in DOMAIN w |-> Idle], r)
  BY <1>1 DEF Once
<1> QED
  BY <1>2, <1>3 DEF OneParty

(* A party's blocks and workers when its loop begins: a block each for the *)
(* first k of n.                                                           *)
LEMMA Prepared ==
  ASSUME NEW n \in Nat, NEW k \in Int, k <= n
  PROVE  OneParty([b \in 1..n |->
                     Status(IF b <= k THEN "PREPARED" ELSE "INIT", <<0, 0>>)],
                  [a \in 1..k |-> Take(a)],
                  [a \in 1..k |-> << >>], [b \in 1..n |-> << >>])
<1> DEFINE s == [b \in 1..n |->
                   Status(IF b <= k THEN "PREPARED" ELSE "INIT", <<0, 0>>)]
           w == [a \in 1..k |-> Take(a)]
           m == [a \in 1..k |-> << >>]
           r == [b \in 1..n |-> << >>]
<1>1. /\ DOMAIN s = 1..n /\ DOMAIN w = 1..k /\ DOMAIN m = 1..k /\ DOMAIN r = 1..n
      /\ \A b \in 1..n: r[b] = << >>
      /\ \A a \in 1..k: m[a] = << >>
  OBVIOUS
<1>2. \A b \in 1..n: AStatus(s[b]) /\ (b <= k => s[b].st # "INIT")
  BY DEF AStatus, Status, States
<1>3. \A a \in 1..k: w[a].block = a /\ a \in 1..n /\ AWorker(w[a], 1..n)
  BY DEF Take, AWorker, Pcs
<1> HIDE DEF s, w, m, r
<1>4. Parts(s, w, m, r)
  BY <1>1, <1>2, <1>3 DEF Parts
<1>5. Calls(s, m)
  <2>1. \A x: x \notin Range(<< >>)
    BY DEF Range
  <2>2. << >> \in Seq(Range(<< >>))
    OBVIOUS
  <2> QED BY <1>1, <2>1, <2>2 DEF Calls
<1>6. Unborn(s, r)
  BY <1>1 DEF Unborn
<1>7. Once(s, w, r)
  BY <1>1, <1>2, <1>3 DEF Once
<1> QED
  BY <1>4, <1>5, <1>6, <1>7 DEF OneParty, s, w, m, r
-----------------------------------------------------------------------------
(* A step that leaves the other party alone.                               *)
Others(p) == \A q \in Party \ {p}: /\ status'[q] = status[q]
                                   /\ worker'[q] = worker[q]
                                   /\ mail'[q] = mail[q]
                                   /\ refs'[q] = refs[q]

(* Such a step preserves the invariant if it does so for its party.        *)
LEMMA OneSide ==
  ASSUME Dispatched, NEW p \in Party, Globals', Indexed', Others(p), OneOf(p)'
  PROVE  Dispatched'
<1>1. \A q \in Party: OneOf(q)
  BY Split
<1>2. \A q \in Party: OneOf(q)'
  BY <1>1 DEF Others, OneOf
<1> QED
  BY <1>2 DEF Dispatched, TypeOK, Begun, Fresh, BlocksWorkedOnce, Globals, Indexed,
     OneOf, OneParty, Parts, Calls, Unborn, Once, AStatus, AWorker, ACall, Pcs

(* The first action of a worker on its block.                              *)
LEMMA ReadBlockStep ==
  ASSUME Dispatched, NEW p \in Party, NEW a \in DOMAIN worker[p], ReadBlock(p, a)
  PROVE  Dispatched'
<1> DEFINE x == IF conf[p].mode = "psi" /\ GetsTable(p, worker[p][a].block)
                  THEN "psi" ELSE "raised"
           v == [worker[p][a] EXCEPT !.pc = x]
           b == worker[p][a].block
<1>1. Globals /\ Indexed /\ OneOf(p)
  BY Split
<1>2. DOMAIN worker[p][a] = {"pc", "block", "out"} /\ b \in DOMAIN status[p]
      /\ b # 0
  BY <1>1 DEF OneOf, OneParty, Parts, AWorker, ReadBlock
<1>3. OneParty(status[p], [worker[p] EXCEPT ![a] = v], mail[p], refs[p])
  <2>1. /\ DOMAIN v = {"pc", "block", "out"} /\ v.pc = x /\ v.block = b
    BY <1>2
  <2>2. x \in Pcs /\ worker[p][a].pc = "read"
    BY DEF Pcs, ReadBlock
  <2> QED BY <1>1, <1>2, <2>1, <2>2, Moved DEF OneOf
<1>4. DOMAIN [worker[p] EXCEPT ![a] = v] = DOMAIN worker[p]
  OBVIOUS
<1>5. OneParty(status[p], [worker[p] EXCEPT ![a] = v],
        [mail[p] EXCEPT ![a] = Append(@, <<b, Status("PROCSSING", <<0, 0>>)>>)],
        refs[p])
  BY <1>2, <1>3, <1>4, Posted DEF States
<1>6. /\ worker'[p] = [worker[p] EXCEPT ![a] = v]
      /\ mail'[p] = [mail[p] EXCEPT ![a] =
                       Append(@, <<b, Status("PROCSSING", <<0, 0>>)>>)]
      /\ status' = status /\ refs' = refs
      /\ Others(p) /\ Indexed'
  BY <1>1 DEF ReadBlock, Post, Indexed, Others
<1>7. OneOf(p)'
  BY <1>5, <1>6 DEF OneOf
<1>8. Globals'
  BY <1>1 DEF ReadBlock, Globals, history
<1> QED
  BY <1>6, <1>7, <1>8, OneSide

(* A worker that finds no peer raises.                                     *)
LEMMA TimeoutStep ==
  ASSUME Dispatched, NEW p \in Party, NEW a \in DOMAIN worker[p], Timeout(p, a)
  PROVE  Dispatched'
<1> DEFINE v == [worker[p][a] EXCEPT !.pc = "raised"]
<1>1. Globals /\ Indexed /\ OneOf(p)
  BY Split
<1>2. /\ DOMAIN worker[p][a] = {"pc", "block", "out"}
      /\ worker[p][a].block # 0
  BY <1>1 DEF OneOf, OneParty, Parts, AWorker, Timeout
<1>3. OneParty(status[p], [worker[p] EXCEPT ![a] = v], mail[p], refs[p])
  <2>1. /\ DOMAIN v = {"pc", "block", "out"} /\ v.pc = "raised"
        /\ v.block = worker[p][a].block
    BY <1>2
  <2> QED BY <1>1, <1>2, <2>1, Moved DEF OneOf, Pcs
<1>4. /\ worker'[p] = [worker[p] EXCEPT ![a] = v]
      /\ status' = status /\ refs' = refs /\ mail' = mail
      /\ Others(p) /\ Indexed'
  BY <1>1 DEF Timeout, Indexed, Others
<1>5. OneOf(p)'
  BY <1>3, <1>4 DEF OneOf
<1>6. Globals'
  BY <1>1 DEF Timeout, Globals
<1> QED
  BY <1>4, <1>5, <1>6, OneSide

(* A worker that cannot register or cannot write raises.                   *)
LEMMA WorkerFailsStep ==
  ASSUME Dispatched, NEW p \in Party, NEW a \in DOMAIN worker[p], WorkerFails(p, a)
  PROVE  Dispatched'
<1> DEFINE v == [worker[p][a] EXCEPT !.pc = "raised"]
<1>1. Globals /\ Indexed /\ OneOf(p)
  BY Split
<1>2. /\ DOMAIN worker[p][a] = {"pc", "block", "out"}
      /\ worker[p][a].block # 0
  BY <1>1 DEF OneOf, OneParty, Parts, AWorker, WorkerFails
<1>3. OneParty(status[p], [worker[p] EXCEPT ![a] = v], mail[p], refs[p])
  <2>1. /\ DOMAIN v = {"pc", "block", "out"} /\ v.pc = "raised"
        /\ v.block = worker[p][a].block
    BY <1>2
  <2> QED BY <1>1, <1>2, <2>1, Moved DEF OneOf, Pcs
<1>4. /\ worker'[p] = [worker[p] EXCEPT ![a] = v]
      /\ status' = status /\ refs' = refs /\ mail' = mail
      /\ Others(p) /\ Indexed'
  BY <1>1 DEF WorkerFails, Indexed, Others
<1>5. OneOf(p)'
  BY <1>3, <1>4 DEF OneOf
<1>6. Globals'
  BY <1>1, FaultsAssumption DEF WorkerFails, Globals
<1> QED
  BY <1>4, <1>5, <1>6, OneSide

(* The output of a worker is written and its counts are sent.              *)
LEMMA WriteBlockStep ==
  ASSUME Dispatched, NEW p \in Party, NEW a \in DOMAIN worker[p], WriteBlock(p, a)
  PROVE  Dispatched'
<1> DEFINE ok == CanDropHash(p, a)
           b == worker[p][a].block
           x == IF ok THEN "returned" ELSE "raised"
           v == [worker[p][a] EXCEPT !.pc = x]
           w2 == [worker[p] EXCEPT ![a] = v]
           m2 == IF ok THEN [mail[p] EXCEPT ![a] = Append(@,
                              <<b, Status("PROCESSED", CountValues(p, a))>>)]
                       ELSE mail[p]
           r2 == IF ok /\ ~conf[p].file
                   THEN [refs[p] EXCEPT ![b] = worker[p][a].out] ELSE refs[p]
<1>1. Globals /\ Indexed /\ OneOf(p)
  BY Split
<1>2. /\ DOMAIN worker[p][a] = {"pc", "block", "out"} /\ b \in DOMAIN status[p]
      /\ b # 0 /\ worker[p][a].pc = "write"
  BY <1>1 DEF OneOf, OneParty, Parts, AWorker, WriteBlock
<1>3. OneParty(status[p], worker[p], mail[p], r2)
  BY <1>1, <1>2, Written DEF OneOf
<1> HIDE DEF ok
<1>4. OneParty(status[p], w2, mail[p], r2)
  <2>1. /\ DOMAIN v = {"pc", "block", "out"} /\ v.pc = x /\ v.block = b
    BY <1>2
  <2>2. x \in Pcs /\ x \notin {"read", "psi"}
    BY DEF Pcs
  <2> HIDE DEF r2, x, v
  <2> QED BY <1>2, <1>3, <2>1, <2>2, Moved
<1>5. OneParty(status[p], w2, m2, r2)
  <2>1. DOMAIN w2 = DOMAIN worker[p] /\ "PROCESSED" \in States \ {"INIT"}
    BY DEF States
  <2> HIDE DEF r2, w2
  <2> QED BY <1>2, <1>4, <2>1, Posted
<1>6. /\ worker'[p] = w2 /\ mail'[p] = m2 /\ refs'[p] = r2 /\ status' = status
      /\ Others(p) /\ Indexed'
  BY <1>1 DEF WriteBlock, WritePart, Post, Indexed, Others, ok
<1>7. OneOf(p)'
  BY <1>5, <1>6 DEF OneOf
<1>8. Globals'
  BY <1>1 DEF WriteBlock, Globals, history
<1> QED
  BY <1>6, <1>7, <1>8, OneSide

(* A status call of a worker arrives.                                      *)
LEMMA DeliverStep ==
  ASSUME Dispatched, NEW p \in Party, NEW a \in DOMAIN worker[p], Deliver(p, a)
  PROVE  Dispatched'
<1>1. Globals /\ Indexed /\ OneOf(p)
  BY Split
<1>2. OneParty([status[p] EXCEPT ![Head(mail[p][a])[1]] = Head(mail[p][a])[2]],
               worker[p], [mail[p] EXCEPT ![a] = Tail(@)], refs[p])
  BY <1>1, Delivered DEF OneOf, Deliver
<1>3. /\ status'[p] = [status[p] EXCEPT ![Head(mail[p][a])[1]] =
                         Head(mail[p][a])[2]]
      /\ mail'[p] = [mail[p] EXCEPT ![a] = Tail(@)]
      /\ worker' = worker /\ refs' = refs
      /\ Others(p) /\ Indexed'
  BY <1>1 DEF Deliver, Indexed, Others
<1>4. OneOf(p)'
  BY <1>2, <1>3 DEF OneOf
<1>5. Globals'
  BY <1>1 DEF Deliver, Globals, history
<1> QED
  BY <1>3, <1>4, <1>5, OneSide

(* The blocks of an input are numbered, and there are no more workers than *)
(* blocks.                                                                 *)
LEMMA WorkerBound ==
  ASSUME NEW c \in Conf
  PROVE  /\ NBlocks(c) \in Nat /\ DOMAIN Blocks(c) = 1..NBlocks(c)
         /\ NWorkers(c) \in Int /\ NWorkers(c) <= NBlocks(c)
<1>1. c.cpus \in Nat /\ c.parallels \in Int /\ c.buckets \in Int
      /\ c.data \in Seq(Seq(Ids)) /\ c.file \in BOOLEAN
  BY DEF Conf
<1>2. NParallels(c) \in Int /\ ActualBuckets(c) \in Int
  BY <1>1 DEF NParallels, ActualBuckets
<1>3. NBlocks(c) \in Nat /\ DOMAIN Blocks(c) = 1..NBlocks(c)
  <2>1. CASE c.file
    <3> DEFINE n == ActualBuckets(c)
               B == [b \in 1..n |-> Bucket(c, c.data[1], b)]
    <3>1. \E k \in Nat: 1..n = 1..k
      <4>1. CASE n \in Nat
        BY <4>1
      <4>2. CASE n \notin Nat
        <5>1. 1..n = {} /\ 1..0 = {}
          BY <4>2, <1>2
        <5> QED BY <5>1
      <4> QED BY <4>1, <4>2
    <3>2. Blocks(c) = B
      BY <2>1 DEF Blocks
    <3> HIDE DEF n
    <3>3. DOMAIN B = 1..n
      OBVIOUS
    <3>4. B \in [1..n -> Range(B)]
      BY DEF Range
    <3> HIDE DEF B
    <3>5. B \in Seq(Range(B))
      <4>1. PICK k \in Nat: 1..n = 1..k
        BY <3>1
      <4>2. B \in [1..k -> Range(B)]
        BY <4>1, <3>4
      <4> QED BY <4>2
    <3> QED BY <3>2, <3>5 DEF NBlocks
  <2>2. CASE ~c.file
    <3> DEFINE B == DataFiles(c)
    <3>1. Blocks(c) = B
      BY <2>2 DEF Blocks
    <3>2. DOMAIN c.data = 1..Len(c.data) /\ Len(c.data) \in Nat
      BY <1>1
    <3>3. B \in [DOMAIN c.data -> Range(B)]
      BY DEF Range, DataFiles
    <3> HIDE DEF B
    <3>4. B \in Seq(Range(B))
      BY <3>2, <3>3
    <3> QED BY <3>1, <3>4 DEF NBlocks
  <2> QED BY <2>1, <2>2
<1> DEFINE T == {NParallels(c), NBlocks(c)}
<1>4. Min(T) \in T /\ \A y \in T: Min(T) <= y
  <2>1. NParallels(c) <= NBlocks(c) \/ NBlocks(c) <= NParallels(c)
    BY <1>2, <1>3
  <2>2. \E x \in T: \A y \in T: x <= y
    BY <1>2, <1>3, <2>1
  <2> QED BY <2>2 DEF Min
<1> QED
  BY <1>2, <1>3, <1>4 DEF NWorkers

(* A driver that fails.                                                    *)
LEMMA FailStep ==
  ASSUME Dispatched, NEW p \in Party, Fail(p),
         faults' \in 0..MaxFaults, UNCHANGED <<conf, status, refs, gaveUp, cut>>
  PROVE  Dispatched'
<1>1. Globals /\ Indexed /\ OneOf(p)
  BY Split
<1>2. OneParty(status[p], worker[p], [a \in DOMAIN mail[p] |-> << >>], refs[p])
  BY <1>1, Silenced DEF OneOf
<1>3. OneParty(status[p], [a \in DOMAIN worker[p] |-> Idle],
               [a \in DOMAIN mail[p] |-> << >>], refs[p])
  BY <1>2, Stopped
<1>4. /\ worker'[p] = [a \in DOMAIN worker[p] |-> Idle]
      /\ mail'[p] = [a \in DOMAIN mail[p] |-> << >>]
      /\ Others(p) /\ Indexed'
  BY <1>1 DEF Fail, Indexed, Others
<1>5. OneOf(p)'
  BY <1>3, <1>4 DEF OneOf
<1>6. Globals'
  BY <1>1 DEF Fail, SetNodeStatus, Globals
<1> QED
  BY <1>4, <1>5, <1>6, OneSide

(* The first blocks go to the workers.                                     *)
LEMMA PrepareStep ==
  ASSUME Dispatched, NEW p \in Party, Prepare(p)
  PROVE  Dispatched'
<1>1. Globals /\ Indexed /\ OneOf(p)
  BY Split
<1>2. CASE Unusable(conf[p])
  BY <1>1, <1>2, FailStep DEF Prepare, history, Globals
<1>3. CASE ~Unusable(conf[p])
  <2> DEFINE n == NBlocks(conf[p])
             k == NWorkers(conf[p])
  <2>1. conf[p] \in Conf
    BY <1>1, ScenarioAssumption DEF Globals
  <2>2. n \in Nat /\ k \in Int /\ k <= n
    BY <2>1, WorkerBound
  <2>3. /\ status'[p] = [b \in 1..n |->
             Status(IF b <= k THEN "PREPARED" ELSE "INIT", <<0, 0>>)]
        /\ worker'[p] = [a \in 1..k |-> Take(a)]
        /\ mail'[p] = [a \in 1..k |-> << >>]
        /\ refs'[p] = [b \in 1..n |-> << >>]
        /\ Others(p) /\ Indexed'
    BY <1>1, <1>3 DEF Prepare, Indexed, Others
  <2>4. Globals'
    BY <1>1, <1>3 DEF Prepare, SetNodeStatus, Globals, history
  <2> HIDE DEF n, k
  <2>5. OneOf(p)'
    BY <2>2, <2>3, Prepared DEF OneOf
  <2> QED
    BY <2>3, <2>4, <2>5, OneSide
<1> QED
  BY <1>2, <1>3

(* A worker is collected and gets the first block nobody has, if any.      *)
LEMMA JobDoneStep ==
  ASSUME Dispatched, NEW p \in Party, NEW a \in DOMAIN worker[p], JobDone(p, a)
  PROVE  Dispatched'
<1> DEFINE b == worker[p][a].block
           r2 == IF conf[p].file THEN [refs[p] EXCEPT ![b] = worker[p][a].out]
                                 ELSE refs[p]
<1>1. Globals /\ Indexed /\ OneOf(p)
  BY Split
<1>2. OneParty(status[p], worker[p], mail[p], r2)
  BY <1>1, Written DEF OneOf, JobDone
<1>3. /\ refs'[p] = r2 /\ mail' = mail
      /\ \A q \in Party \ {p}: refs'[q] = refs[q]
      /\ DOMAIN refs' = Party
  BY <1>1 DEF JobDone, Indexed
<1>4. Globals'
  BY <1>1 DEF JobDone, Globals, history
<1> HIDE DEF r2
<1>5. CASE Unprocessed(p) # {}
  <2> DEFINE c == NextBlock(p)
  <2>1. c \in DOMAIN status[p] /\ status[p][c].st = "INIT"
    <3>1. Unprocessed(p) \subseteq Nat
      BY <1>1 DEF OneOf, OneParty, Parts, Unprocessed
    <3>2. c \in Unprocessed(p)
      BY <3>1, <1>5, MinIs DEF NextBlock
    <3> QED BY <3>2 DEF Unprocessed
  <2>2. /\ status'[p] = [status[p] EXCEPT ![c].st = "PREPARED"]
        /\ worker'[p] = [worker[p] EXCEPT ![a] = Take(c)]
        /\ \A q \in Party \ {p}: status'[q] = status[q] /\ worker'[q] = worker[q]
        /\ DOMAIN status' = Party /\ DOMAIN worker' = Party
    BY <1>1, <1>5 DEF JobDone, Indexed
  <2> HIDE DEF c
  <2>3. OneOf(p)'
    BY <1>2, <1>3, <2>1, <2>2, HandedOut DEF OneOf
  <2>4. Others(p) /\ Indexed'
    BY <1>1, <1>3, <2>2 DEF Others, Indexed
  <2> QED
    BY <1>4, <2>3, <2>4, OneSide
<1>6. CASE Unprocessed(p) = {}
  <2>1. /\ worker'[p] = [worker[p] EXCEPT ![a] = Idle] /\ status' = status
        /\ \A q \in Party \ {p}: worker'[q] = worker[q]
        /\ DOMAIN worker' = Party
    BY <1>1, <1>6 DEF JobDone, Indexed
  <2>2. OneOf(p)'
    BY <1>2, <1>3, <2>1, Rested DEF OneOf
  <2>3. Others(p) /\ Indexed'
    BY <1>1, <1>3, <2>1 DEF Others, Indexed
  <2> QED
    BY <1>4, <2>2, <2>3, OneSide
<1> QED
  BY <1>5, <1>6

(* A worker's exception ends the driver.                                   *)
LEMMA JobRaisedStep ==
  ASSUME Dispatched, NEW p \in Party, NEW a \in DOMAIN worker[p], JobRaised(p, a)
  PROVE  Dispatched'
<1>1. Globals
  BY Split
<1> QED BY <1>1, FailStep DEF JobRaised, history, Globals

(* The driver fails outside its loop.                                      *)
LEMMA AbortStep ==
  ASSUME Dispatched, NEW p \in Party, Abort(p)
  PROVE  Dispatched'
<1>1. Globals
  BY Split
<1>2. faults' \in 0..MaxFaults
  BY <1>1, FaultsAssumption DEF Abort, Globals
<1> QED BY <1>2, FailStep DEF Abort

(* The output is merged, or the merge fails.                               *)
LEMMA MergeOutputStep ==
  ASSUME Dispatched, NEW p \in Party, MergeOutput(p)
  PROVE  Dispatched'
<1>1. Globals /\ Indexed /\ OneOf(p)
  BY Split
<1>2. CASE Fail(p)
  BY <1>1, <1>2, FailStep DEF MergeOutput, history, Globals
<1>3. CASE driver' = [driver EXCEPT ![p] = "reporting"] /\ UNCHANGED <<worker, mail>>
  <2>1. UNCHANGED <<conf, status, refs, worker, mail, faults, gaveUp, cut>>
    BY <1>3 DEF MergeOutput, history
  <2>2. Globals' /\ Indexed' /\ Others(p) /\ OneOf(p)'
    BY <1>1, <1>3, <2>1 DEF Globals, Indexed, Others, OneOf
  <2> QED BY <2>2, OneSide
<1> QED
  BY <1>2, <1>3 DEF MergeOutput

(* The result is reported and the actors end.                              *)
LEMMA ReportStep ==
  ASSUME Dispatched, NEW p \in Party, Report(p)
  PROVE  Dispatched'
<1>1. Globals /\ Indexed /\ OneOf(p)
  BY Split
<1>2. OneParty(status[p], worker[p], [a \in DOMAIN mail[p] |-> << >>], refs[p])
  BY <1>1, Silenced DEF OneOf
<1>3. /\ mail'[p] = [a \in DOMAIN mail[p] |-> << >>]
      /\ status' = status /\ worker' = worker /\ refs' = refs
      /\ Others(p) /\ Indexed'
  BY <1>1 DEF Report, Indexed, Others
<1>4. OneOf(p)'
  BY <1>2, <1>3 DEF OneOf
<1>5. Globals'
  BY <1>1 DEF Report, SetNodeStatus, Globals, history
<1> QED
  BY <1>3, <1>4, <1>5, OneSide

(* A worker after an exchange, with its block.                             *)
Goes(v, w) == /\ DOMAIN v = {"pc", "block", "out"}
              /\ v.pc \in {"write", "raised", "hung"}
              /\ v.block = w.block

(* Two workers that meet go on with their blocks, each its own way.        *)
LEMMA MeetStep ==
  ASSUME Dispatched, Globals', status' = status, mail' = mail, refs' = refs,
         NEW a \in DOMAIN worker["leader"], NEW f \in DOMAIN worker["follower"],
         CanMeet(a, f), DOMAIN worker' = DOMAIN worker, NEW vl, NEW vf,
         Goes(vl, worker["leader"][a]), Goes(vf, worker["follower"][f]),
         worker'["leader"] = [worker["leader"] EXCEPT ![a] = vl],
         worker'["follower"] = [worker["follower"] EXCEPT ![f] = vf]
  PROVE  Dispatched'
<1>1. Globals /\ Indexed /\ OneOf("leader") /\ OneOf("follower")
  BY Split DEF Party
<1>2. worker["leader"][a].block # 0 /\ worker["follower"][f].block # 0
  BY <1>1 DEF OneOf, OneParty, Parts, AWorker, CanMeet
<1>3. OneOf("leader")'
  <2>1. OneParty(status["leader"], [worker["leader"] EXCEPT ![a] = vl],
                 mail["leader"], refs["leader"])
    BY <1>1, <1>2, Moved DEF OneOf, Pcs, Goes
  <2> QED BY <2>1 DEF OneOf
<1>4. OneOf("follower")'
  <2>1. OneParty(status["follower"], [worker["follower"] EXCEPT ![f] = vf],
                 mail["follower"], refs["follower"])
    BY <1>1, <1>2, Moved DEF OneOf, Pcs, Goes
  <2> QED BY <2>1 DEF OneOf
<1>5. Indexed' /\ \A p \in Party: OneOf(p)'
  BY <1>1, <1>3, <1>4 DEF Indexed, Party
<1> QED
  BY <1>5 DEF Dispatched, TypeOK, Begun, Fresh, BlocksWorkedOnce, Globals, Indexed,
     OneOf, OneParty, Parts, Calls, Unborn, Once, AStatus, AWorker, ACall, Pcs

(* Every worker is a record of a position, a block and an output.          *)
LEMMA WorkerShape ==
  ASSUME Dispatched
  PROVE  /\ \A a \in DOMAIN worker["leader"]:
              DOMAIN worker["leader"][a] = {"pc", "block", "out"}
         /\ \A f \in DOMAIN worker["follower"]:
              DOMAIN worker["follower"][f] = {"pc", "block", "out"}
  BY DEF Dispatched, TypeOK, Party

(* The exchange of a block.                                                *)
LEMMA ExchangeStep ==
  ASSUME Dispatched, NEW a \in DOMAIN worker["leader"],
         NEW f \in DOMAIN worker["follower"], Exchange(a, f)
  PROVE  Dispatched'
<1>1. Globals /\ Indexed
  BY Split
<1>2. Globals'
  BY <1>1 DEF Exchange, Globals, history
<1> DEFINE wl == worker["leader"][a]
           wf == worker["follower"][f]
           vl == [wl EXCEPT !.pc = "write", !.out = MyJoin("leader", a, f)]
           vf == [wf EXCEPT !.pc = "write", !.out = MyJoin("follower", f, a)]
<1>3. /\ DOMAIN worker' = DOMAIN worker
      /\ worker'["leader"] = [worker["leader"] EXCEPT ![a] = vl]
      /\ worker'["follower"] = [worker["follower"] EXCEPT ![f] = vf]
  BY <1>1 DEF Exchange, Indexed, Party
<1>4. Goes(vl, wl) /\ Goes(vf, wf)
  BY WorkerShape DEF Goes
<1>5. status' = status /\ mail' = mail /\ refs' = refs /\ CanMeet(a, f)
  BY DEF Exchange
<1> HIDE DEF vl, vf
<1> QED
  BY <1>2, <1>3, <1>4, <1>5, MeetStep

(* The exchange of a block when the link fails.                            *)
LEMMA FaultyExchangeStep ==
  ASSUME Dispatched, NEW a \in DOMAIN worker["leader"],
         NEW f \in DOMAIN worker["follower"], FaultyExchange(a, f)
  PROVE  Dispatched'
<1>1. Globals /\ Indexed
  BY Split
<1>2. PICK l \in Broken(MyJoin("leader", a, f)),
           r \in Broken(MyJoin("follower", f, a)):
       /\ worker' = [worker EXCEPT
            !["leader"][a] = [@ EXCEPT !.pc = l.pc, !.out = l.out],
            !["follower"][f] = [@ EXCEPT !.pc = r.pc, !.out = r.out]]
       /\ cut' = (cut \/ Shortened(l, MyJoin("leader", a, f))
                      \/ Shortened(r, MyJoin("follower", f, a)))
  BY DEF FaultyExchange
<1> DEFINE wl == worker["leader"][a]
           wf == worker["follower"][f]
           vl == [wl EXCEPT !.pc = l.pc, !.out = l.out]
           vf == [wf EXCEPT !.pc = r.pc, !.out = r.out]
<1>3. l.pc \in {"write", "raised", "hung"} /\ r.pc \in {"write", "raised", "hung"}
  BY DEF Broken
<1>4. Globals'
  <2>1. faults' \in 0..MaxFaults
    BY <1>1, FaultsAssumption DEF FaultyExchange, Globals
  <2>2. cut' \in BOOLEAN
    BY <1>2
  <2> QED BY <1>1, <2>1, <2>2 DEF FaultyExchange, Globals
<1>5. /\ DOMAIN worker' = DOMAIN worker
      /\ worker'["leader"] = [worker["leader"] EXCEPT ![a] = vl]
      /\ worker'["follower"] = [worker["follower"] EXCEPT ![f] = vf]
  BY <1>1, <1>2 DEF Indexed, Party
<1>6. Goes(vl, wl) /\ Goes(vf, wf)
  BY <1>3, WorkerShape DEF Goes
<1>7. status' = status /\ mail' = mail /\ refs' = refs /\ CanMeet(a, f)
  BY DEF FaultyExchange
<1> HIDE DEF vl, vf
<1> QED
  BY <1>4, <1>5, <1>6, <1>7, MeetStep
-----------------------------------------------------------------------------
(* Before the drivers begin nothing has been handed out.                   *)
LEMMA Initially == Init => Dispatched
<1> SUFFICES ASSUME Init PROVE Dispatched
  OBVIOUS
<1>1. \A p \in Party: status[p] = << >> /\ worker[p] = << >>
                      /\ mail[p] = << >> /\ refs[p] = << >>
  BY DEF Init
<1>2. OneParty(<< >>, << >>, << >>, << >>)
  BY DEF OneParty, Parts, Calls, Unborn, Once
<1>3. Globals /\ Indexed
  <2>1. faults \in 0..MaxFaults
    BY FaultsAssumption DEF Init
  <2>2. gaveUp \in BOOLEAN /\ cut \in BOOLEAN
    BY DEF Init
  <2>3. driver \in [Party -> {"start", "running", "merging", "reporting",
                             "reported", "failed"}]
    BY DEF Init
  <2> QED BY <2>1, <2>2, <2>3 DEF Init, Globals, Indexed
<1> QED
  BY <1>1, <1>2, <1>3, Split DEF OneOf

(* Every step of the two jobs preserves the invariant.                     *)
LEMMA Step == Dispatched /\ [Next]_vars => Dispatched'
<1> SUFFICES ASSUME Dispatched, [Next]_vars PROVE Dispatched'
  OBVIOUS
<1>1. ASSUME NEW p \in Party, WorkerStep(p) PROVE Dispatched'
  BY <1>1, ReadBlockStep, WriteBlockStep, DeliverStep DEF WorkerStep
<1>2. ASSUME NEW p \in Party, DriverStep(p) PROVE Dispatched'
  BY <1>2, PrepareStep, MergeOutputStep, ReportStep, JobDoneStep, JobRaisedStep
     DEF DriverStep
<1>3. CASE Meet
  BY <1>3, ExchangeStep DEF Meet
<1>4. CASE Failures
  BY <1>4, FaultyExchangeStep, AbortStep, WorkerFailsStep DEF Failures, MeetFaulty
<1>5. CASE GiveUp
  BY <1>5, TimeoutStep DEF GiveUp
<1>6. CASE UNCHANGED vars
  BY <1>6 DEF vars, history, Dispatched, TypeOK, Begun, Fresh, BlocksWorkedOnce
<1>7. CASE Done
  BY <1>7, <1>6 DEF Done
<1> QED
  BY <1>1, <1>2, <1>3, <1>4, <1>5, <1>6, <1>7 DEF Next

(* The invariant of the dispatchers, the workers, their calls and outputs  *)
(* holds in every reachable state.                                         *)
LEMMA AlwaysDispatched == Spec => []Dispatched
<1> QED BY Initially, Step, PTL DEF Spec

(* No block is with two workers of a party, none is worked on again once   *)
(* its rows are out, and no late status call makes run_app hand it out a   *)
(* second time: whatever the inputs, the numbers of workers and blocks,    *)
(* the order in which calls arrive and the exchanges that fail.            *)
THEOREM WorkedOnce == Spec => []BlocksWorkedOnce
<1>1. Dispatched => BlocksWorkedOnce
  BY DEF Dispatched
<1> QED BY <1>1, AlwaysDispatched, PTL
-----------------------------------------------------------------------------
(* A block that has been handed out does not become INIT again.            *)
StaysBegun(p) ==
  driver[p] # "start" =>
    \A b \in DOMAIN status[p]:
      status[p][b].st # "INIT" =>
        b \in DOMAIN status'[p] /\ status'[p][b].st # "INIT"

(* A status call on its way never names INIT.                              *)
LEMMA DeliverKeeps ==
  ASSUME Dispatched, NEW p \in Party, NEW a \in DOMAIN worker[p], Deliver(p, a),
         NEW q \in Party
  PROVE  StaysBegun(q)
<1>1. Indexed /\ OneOf(p)
  BY Split
<1> DEFINE d == Head(mail[p][a])[1]
           v == Head(mail[p][a])[2]
<1>2. v.st # "INIT" /\ d \in DOMAIN status[p]
  <2>1. a \in DOMAIN mail[p] /\ mail[p][a] \in Seq(Range(mail[p][a]))
    BY <1>1 DEF OneOf, OneParty, Parts, Calls
  <2>2. Head(mail[p][a]) \in Range(mail[p][a])
    BY <2>1 DEF Deliver
  <2> QED BY <1>1, <2>1, <2>2 DEF OneOf, OneParty, Calls, ACall
<1>3. status' = [status EXCEPT ![p][d] = v]
  BY DEF Deliver
<1> HIDE DEF d, v
<1> QED
  BY <1>1, <1>2, <1>3 DEF StaysBegun, Indexed

(* The next block goes from INIT to PREPARED.                              *)
LEMMA JobDoneKeeps ==
  ASSUME Dispatched, NEW p \in Party, NEW a \in DOMAIN worker[p], JobDone(p, a),
         NEW q \in Party
  PROVE  StaysBegun(q)
<1>1. Indexed /\ OneOf(p)
  BY Split
<1>2. CASE UNCHANGED status
  BY <1>2 DEF StaysBegun
<1>3. CASE status' = [status EXCEPT ![p][NextBlock(p)].st = "PREPARED"]
  <2>1. \A b \in DOMAIN status[p]: DOMAIN status[p][b] = {"st", "counts"}
    BY <1>1 DEF OneOf, OneParty, Parts, AStatus
  <2> DEFINE c == NextBlock(p)
  <2>2. status' = [status EXCEPT ![p][c].st = "PREPARED"]
    BY <1>3
  <2> HIDE DEF c
  <2> QED
    BY <1>1, <2>1, <2>2 DEF StaysBegun, Indexed
<1> QED
  BY <1>2, <1>3 DEF JobDone

(* The mark a block gets when it is handed out stands from then on: no     *)
(* status call that arrives late, no failure of the driver and nothing the *)
(* peer does makes get_next_unprocessed_data_and_use find the block again. *)
THEOREM MarkStands == Spec => [][\A p \in Party: StaysBegun(p)]_vars
<1>1. Dispatched /\ [Next]_vars => [\A p \in Party: StaysBegun(p)]_vars
  <2> SUFFICES ASSUME Dispatched, Next, NEW q \in Party
               PROVE  StaysBegun(q)
    BY DEF StaysBegun
  <2>1. CASE UNCHANGED status
    BY <2>1 DEF StaysBegun
  <2>2. ASSUME NEW p \in Party, WorkerStep(p) PROVE StaysBegun(q)
    BY <2>1, <2>2, DeliverKeeps DEF WorkerStep, ReadBlock, WriteBlock
  <2>3. ASSUME NEW p \in Party, Prepare(p) PROVE StaysBegun(q)
    <3>1. driver[p] = "start" /\ (q # p => status'[q] = status[q])
      BY <2>3, Split DEF Prepare, Indexed
    <3> QED BY <3>1 DEF StaysBegun
  <2>4. ASSUME NEW p \in Party, DriverStep(p) PROVE StaysBegun(q)
    BY <2>1, <2>3, <2>4, JobDoneKeeps
       DEF DriverStep, MergeOutput, Report, JobRaised
  <2>5. CASE Meet \/ Failures \/ GiveUp \/ Done
    BY <2>1, <2>5 DEF Meet, Failures, MeetFaulty, GiveUp, Done, Exchange,
                      FaultyExchange, Abort, WorkerFails, Timeout, vars
  <2> QED
    BY <2>2, <2>4, <2>5 DEF Next
<1> QED BY <1>1, AlwaysDispatched, PTL DEF Spec

-----------------------------------------------------------------------------
(* What the loops of the model compute: sums of counts, filters of rows,   *)
(* concatenations of blocks.  Each is the last of the results after every  *)
(* turn, which exist because there is no least turn without one.           *)

(* f has the sums up to each turn of a loop over the counts c.             *)
Adds(c, f, n) == f = [i \in 0..n |-> IF i = 0 THEN 0 ELSE f[i - 1] + c[i]]

(* The results of a sum up to each turn exist.                            *)
LEMMA AddsExist ==
  ASSUME NEW c, NEW N \in Nat
  PROVE  \E f: Adds(c, f, N)
<1> DEFINE Bad == {n \in Nat: ~ \E f: Adds(c, f, n)}
<1>1. SUFFICES ASSUME Bad # {} PROVE FALSE
  OBVIOUS
<1>2. PICK n \in Bad: \A m \in Bad: n <= m
  BY <1>1, LeastOf
<1>3. CASE n = 0
  <2> DEFINE f == [i \in 0..0 |-> 0]
  <2>1. f = [i \in 0..0 |-> IF i = 0 THEN 0 ELSE f[i - 1] + c[i]]
    OBVIOUS
  <2> QED
    BY <1>2, <1>3, <2>1 DEF Adds
<1>4. CASE n # 0
  <2>1. n - 1 \in Nat /\ n - 1 \notin Bad
    BY <1>2, <1>4
  <2>2. PICK f: Adds(c, f, n - 1)
    BY <2>1
  <2> DEFINE g == [i \in 0..n |-> IF i < n THEN f[i] ELSE f[i - 1] + c[i]]
  <2>3. ASSUME NEW i \in 0..n
        PROVE  g[i] = IF i = 0 THEN 0 ELSE g[i - 1] + c[i]
    <3>1. CASE i < n
      <4>1. i \in 0..(n - 1) /\ g[i] = f[i]
        BY <2>1, <3>1
      <4>2. f[i] = IF i = 0 THEN 0 ELSE f[i - 1] + c[i]
        BY <2>2, <4>1 DEF Adds
      <4>3. i # 0 => g[i - 1] = f[i - 1]
        BY <3>1
      <4> QED
        BY <4>1, <4>2, <4>3
    <3>2. CASE i = n
      <4>1. g[i - 1] = f[i - 1] /\ i # 0
        BY <3>2, <1>4, <1>2
      <4> QED
        BY <3>2, <4>1
    <3> QED
      BY <1>2, <3>1, <3>2
  <2>4. g = [i \in 0..n |-> g[i]]
    OBVIOUS
  <2> HIDE DEF g
  <2>5. [i \in 0..n |-> g[i]] = [i \in 0..n |-> IF i = 0 THEN 0 ELSE g[i - 1] + c[i]]
    BY <2>3
  <2>6. Adds(c, g, n)
    BY <2>4, <2>5 DEF Adds
  <2> QED
    BY <1>2, <2>6
<1> QED
  BY <1>3, <1>4

(* f has what a loop over the rows s has kept after each turn.             *)
Keeps(s, S, f, n) == f = [i \in 0..n |->
    IF i = 0 THEN << >> ELSE IF s[i] \in S THEN Append(f[i - 1], s[i]) ELSE f[i - 1]]

(* The results of a filter up to each turn exist.                            *)
LEMMA KeepsExist ==
  ASSUME NEW s, NEW S, NEW N \in Nat
  PROVE  \E f: Keeps(s, S, f, N)
<1> DEFINE Bad == {n \in Nat: ~ \E f: Keeps(s, S, f, n)}
<1>1. SUFFICES ASSUME Bad # {} PROVE FALSE
  OBVIOUS
<1>2. PICK n \in Bad: \A m \in Bad: n <= m
  BY <1>1, LeastOf
<1>3. CASE n = 0
  <2> DEFINE f == [i \in 0..0 |-> << >>]
  <2>1. f = [i \in 0..0 |->
            IF i = 0 THEN << >> ELSE IF s[i] \in S THEN Append(f[i - 1], s[i]) ELSE f[i - 1]]
    OBVIOUS
  <2> QED
    BY <1>2, <1>3, <2>1 DEF Keeps
<1>4. CASE n # 0
  <2>1. n - 1 \in Nat /\ n - 1 \notin Bad
    BY <1>2, <1>4
  <2>2. PICK f: Keeps(s, S, f, n - 1)
    BY <2>1
  <2> DEFINE g == [i \in 0..n |->
          IF i < n THEN f[i] ELSE IF s[i] \in S THEN Append(f[i - 1], s[i]) ELSE f[i - 1]]
  <2>3. ASSUME NEW i \in 0..n
        PROVE  g[i] = IF i = 0 THEN << >>
            ELSE IF s[i] \in S THEN Append(g[i - 1], s[i]) ELSE g[i - 1]
    <3>1. CASE i < n
      <4>1. i \in 0..(n - 1) /\ g[i] = f[i]
        BY <2>1, <3>1
      <4>2. f[i] = IF i = 0 THEN << >>
                ELSE IF s[i] \in S THEN Append(f[i - 1], s[i]) ELSE f[i - 1]
        BY <2>2, <4>1 DEF Keeps
      <4>3. i # 0 => g[i - 1] = f[i - 1]
        BY <3>1
      <4> QED
        BY <4>1, <4>2, <4>3
    <3>2. CASE i = n
      <4>1. g[i - 1] = f[i - 1] /\ i # 0
        BY <3>2, <1>4, <1>2
      <4> QED
        BY <3>2, <4>1
    <3> QED
      BY <1>2, <3>1, <3>2
  <2>4. g = [i \in 0..n |-> g[i]]
    OBVIOUS
  <2> HIDE DEF g
  <2>5. [i \in 0..n |-> g[i]] = [i \in 0..n |->
            IF i = 0 THEN << >> ELSE IF s[i] \in S THEN Append(g[i - 1], s[i]) ELSE g[i - 1]]
    BY <2>3
  <2>6. Keeps(s, S, g, n)
    BY <2>4, <2>5 DEF Keeps
  <2> QED
    BY <1>2, <2>6
<1> QED
  BY <1>3, <1>4

(* SumTo is the last of the sums, which begin in the same way for every    *)
(* number of turns.                                                        *)
LEMMA SumIs ==
  ASSUME NEW c, NEW n \in Nat
  PROVE  \E f: Adds(c, f, n) /\ SumTo(c, n) = f[n]
<1> DEFINE f == CHOOSE f: f = [b \in 0..n |-> IF b = 0 THEN 0 ELSE f[b - 1] + c[b]]
<1>1. Adds(c, f, n)
  BY AddsExist DEF Adds
<1>2. SumTo(c, n) = f[n]
  BY DEF SumTo
<1> QED
  BY <1>1, <1>2

(* Two sequences agree up to n.                                            *)
Agree(f, g, n) == \A i \in 1..n: f[i] = g[i]

(* Sums of what agrees are the same.                                       *)
LEMMA AddsAgree ==
  ASSUME NEW c, NEW d, NEW f, NEW g, NEW m \in Nat, NEW n \in Nat, m <= n,
         Adds(c, f, m), Adds(d, g, n), Agree(c, d, m)
  PROVE  f[m] = g[m]
<1> DEFINE Bad == {i \in 0..m: f[i] # g[i]}
<1>1. SUFFICES ASSUME Bad # {} PROVE FALSE
  OBVIOUS
<1>2. PICK i \in Bad: \A j \in Bad: i <= j
  <2>1. Bad \subseteq Nat
    OBVIOUS
  <2> QED
    BY <1>1, <2>1, LeastOf
<1>3. i \in 0..m /\ i \in 0..n
  BY <1>2
<1>4. /\ f[i] = IF i = 0 THEN 0 ELSE f[i - 1] + c[i]
      /\ g[i] = IF i = 0 THEN 0 ELSE g[i - 1] + d[i]
  BY <1>3 DEF Adds
<1>5. i # 0
  BY <1>2, <1>4
<1>6. i - 1 \in 0..m /\ i - 1 \notin Bad /\ c[i] = d[i]
  BY <1>2, <1>3, <1>5 DEF Agree
<1>7. f[i - 1] = g[i - 1]
  BY <1>6
<1> QED
  BY <1>2, <1>4, <1>5, <1>6, <1>7

(* No turn of the loop of get_results.                                     *)
LEMMA SumNone == ASSUME NEW c PROVE SumTo(c, 0) = 0
<1>1. PICK f: Adds(c, f, 0) /\ SumTo(c, 0) = f[0]
  BY SumIs
<1> QED
  BY <1>1 DEF Adds

(* One more turn.                                                          *)
LEMMA SumNext ==
  ASSUME NEW c, NEW n \in Nat
  PROVE  SumTo(c, n + 1) = SumTo(c, n) + c[n + 1]
<1>1. PICK f: Adds(c, f, n) /\ SumTo(c, n) = f[n]
  BY SumIs
<1>2. PICK g: Adds(c, g, n + 1) /\ SumTo(c, n + 1) = g[n + 1]
  BY SumIs
<1>3. g[n + 1] = g[n] + c[n + 1]
  <2>1. n + 1 \in 0..(n + 1) /\ n + 1 # 0 /\ (n + 1) - 1 = n
    OBVIOUS
  <2> QED
    BY <1>2, <2>1 DEF Adds
<1>4. f[n] = g[n]
  <2>1. n + 1 \in Nat /\ n <= n + 1 /\ Agree(c, c, n)
    BY DEF Agree
  <2>2. Adds(c, f, n) /\ Adds(c, g, n + 1)
    BY <1>1, <1>2
  <2> QED
    BY <2>1, <2>2, AddsAgree
<1> QED
  BY <1>1, <1>2, <1>3, <1>4

(* The sums of the same numbers.                                           *)
LEMMA SumAgree ==
  ASSUME NEW c, NEW d, NEW n \in Nat, Agree(c, d, n)
  PROVE  SumTo(c, n) = SumTo(d, n)
<1>1. PICK f: Adds(c, f, n) /\ SumTo(c, n) = f[n]
  BY SumIs
<1>2. PICK g: Adds(d, g, n) /\ SumTo(d, n) = g[n]
  BY SumIs
<1>3. f[n] = g[n]
  BY <1>1, <1>2, AddsAgree
<1> QED
  BY <1>1, <1>2, <1>3

(* The first n are numbers, and no more than those of d.                   *)
Numbers(c, n) == \A i \in 1..n: c[i] \in Nat
AtMost(c, d, n) == \A i \in 1..n: c[i] <= d[i]

(* A sum of numbers is a number, and no more than one of greater numbers.  *)
LEMMA SumAtMost ==
  ASSUME NEW c, NEW d, NEW N \in Nat, Numbers(c, N), Numbers(d, N), AtMost(c, d, N)
  PROVE  SumTo(c, N) \in Nat /\ SumTo(d, N) \in Nat /\ SumTo(c, N) <= SumTo(d, N)
<1> DEFINE Good(n) == /\ SumTo(c, n) \in Nat /\ SumTo(d, n) \in Nat
                      /\ SumTo(c, n) <= SumTo(d, n)
           Bad == {n \in Nat: n <= N /\ ~Good(n)}
<1>1. SUFFICES ASSUME Bad # {} PROVE FALSE
  OBVIOUS
<1>2. PICK n \in Bad: \A m \in Bad: n <= m
  BY <1>1, LeastOf
<1>3. n # 0
  BY <1>2, SumNone
<1>4. PICK m \in Nat: n = m + 1
  <2>1. n - 1 \in Nat /\ n = (n - 1) + 1
    BY <1>2, <1>3
  <2> QED BY <2>1
<1>5. Good(m)
  BY <1>2, <1>4
<1>6. /\ c[m + 1] \in Nat /\ d[m + 1] \in Nat /\ c[m + 1] <= d[m + 1]
  <2>1. m + 1 \in 1..N
    BY <1>2, <1>4
  <2> QED BY <2>1 DEF Numbers, AtMost
<1>7. /\ SumTo(c, m + 1) = SumTo(c, m) + c[m + 1]
      /\ SumTo(d, m + 1) = SumTo(d, m) + d[m + 1]
  BY SumNext
<1>8. Good(m + 1)
  BY <1>5, <1>6, <1>7
<1> QED
  BY <1>2, <1>4, <1>8

(* One number of a sum is one more.                                        *)
LEMMA SumOneMore ==
  ASSUME NEW c, NEW d, NEW N \in Nat, Numbers(c, N), NEW k \in 1..N,
         \A i \in 1..N: d[i] = IF i = k THEN c[i] + 1 ELSE c[i]
  PROVE  SumTo(d, N) = SumTo(c, N) + 1
<1> DEFINE Good(n) == /\ SumTo(c, n) \in Nat
                      /\ SumTo(d, n) = SumTo(c, n) + (IF n < k THEN 0 ELSE 1)
           Bad == {n \in Nat: n <= N /\ ~Good(n)}
<1>1. SUFFICES ASSUME Bad # {} PROVE FALSE
  OBVIOUS
<1>2. PICK n \in Bad: \A m \in Bad: n <= m
  BY <1>1, LeastOf
<1>3. n # 0
  BY <1>2, SumNone
<1>4. PICK m \in Nat: n = m + 1
  <2>1. n - 1 \in Nat /\ n = (n - 1) + 1
    BY <1>2, <1>3
  <2> QED BY <2>1
<1>5. Good(m)
  BY <1>2, <1>4
<1>6. c[m + 1] \in Nat /\ d[m + 1] = IF m + 1 = k THEN c[m + 1] + 1 ELSE c[m + 1]
  <2>1. m + 1 \in 1..N
    BY <1>2, <1>4
  <2> QED BY <2>1 DEF Numbers
<1>7. /\ SumTo(c, m + 1) = SumTo(c, m) + c[m + 1]
      /\ SumTo(d, m + 1) = SumTo(d, m) + d[m + 1]
  BY SumNext
<1>8. Good(m + 1)
  BY <1>5, <1>6, <1>7
<1> QED
  BY <1>2, <1>4, <1>8

(* Only is the last of the filters of the first rows.                      *)
LEMMA OnlyIs ==
  ASSUME NEW s, NEW S, Len(s) \in Nat
  PROVE  \E f: Keeps(s, S, f, Len(s)) /\ Only(s, S) = f[Len(s)]
<1> DEFINE f == CHOOSE f: f = [i \in 0..Len(s) |->
                  IF i = 0 THEN << >>
                  ELSE IF s[i] \in S THEN Append(f[i - 1], s[i]) ELSE f[i - 1]]
<1>1. Keeps(s, S, f, Len(s))
  <2>1. PICK g: Keeps(s, S, g, Len(s))
    BY KeepsExist
  <2>2. g = [i \in 0..Len(s) |->
               IF i = 0 THEN << >>
               ELSE IF s[i] \in S THEN Append(g[i - 1], s[i]) ELSE g[i - 1]]
    BY <2>1 DEF Keeps
  <2>3. f = [i \in 0..Len(s) |->
               IF i = 0 THEN << >>
               ELSE IF s[i] \in S THEN Append(f[i - 1], s[i]) ELSE f[i - 1]]
    BY <2>2, Zenon
  <2> QED BY <2>3 DEF Keeps
<1>2. Only(s, S) = f[Len(s)]
  BY DEF Only
<1> QED
  BY <1>1, <1>2

(* Two filters decide alike on the first n rows.                           *)
Alike(s, S, t, R, n) ==
  \A i \in 1..n: s[i] = t[i] /\ (s[i] \in S <=> t[i] \in R)

(* Filters that decide alike keep the same rows.                           *)
LEMMA KeepsAgree ==
  ASSUME NEW s, NEW S, NEW t, NEW R, NEW f, NEW g, NEW m \in Nat, NEW n \in Nat,
         m <= n, Keeps(s, S, f, m), Keeps(t, R, g, n), Alike(s, S, t, R, m)
  PROVE  f[m] = g[m]
<1> DEFINE Bad == {i \in 0..m: f[i] # g[i]}
<1>1. SUFFICES ASSUME Bad # {} PROVE FALSE
  OBVIOUS
<1>2. PICK i \in Bad: \A j \in Bad: i <= j
  <2>1. Bad \subseteq Nat
    OBVIOUS
  <2> QED
    BY <1>1, <2>1, LeastOf
<1>3. i \in 0..m /\ i \in 0..n
  BY <1>2
<1>4. /\ f[i] = IF i = 0 THEN << >>
             ELSE IF s[i] \in S THEN Append(f[i - 1], s[i]) ELSE f[i - 1]
      /\ g[i] = IF i = 0 THEN << >>
             ELSE IF t[i] \in R THEN Append(g[i - 1], t[i]) ELSE g[i - 1]
  BY <1>3 DEF Keeps
<1>5. i # 0
  BY <1>2, <1>4
<1>6. i - 1 \in 0..m /\ i - 1 \notin Bad /\ s[i] = t[i] /\ (s[i] \in S <=> t[i] \in R)
  BY <1>2, <1>3, <1>5 DEF Alike
<1>7. f[i - 1] = g[i - 1]
  BY <1>6
<1> QED
  BY <1>2, <1>4, <1>5, <1>6, <1>7

(* Filters that decide alike on every row of a table.                      *)
LEMMA OnlySame ==
  ASSUME NEW s, Len(s) \in Nat, NEW S, NEW R, Alike(s, S, s, R, Len(s))
  PROVE  Only(s, S) = Only(s, R)
<1>1. PICK f: Keeps(s, S, f, Len(s)) /\ Only(s, S) = f[Len(s)]
  BY OnlyIs
<1>2. PICK g: Keeps(s, R, g, Len(s)) /\ Only(s, R) = g[Len(s)]
  BY OnlyIs
<1>3. f[Len(s)] = g[Len(s)]
  BY <1>1, <1>2, KeepsAgree
<1> QED
  BY <1>1, <1>2, <1>3

(* A filter of no row.                                                     *)
LEMMA OnlyNone == ASSUME NEW S PROVE Only(<< >>, S) = << >>
<1>1. Len(<< >>) = 0
  OBVIOUS
<1>2. PICK f: Keeps(<< >>, S, f, 0) /\ Only(<< >>, S) = f[0]
  BY <1>1, OnlyIs
<1> QED
  BY <1>2 DEF Keeps

(* A filter of one more row.                                               *)
LEMMA OnlyAppend ==
  ASSUME NEW T, NEW s \in Seq(T), NEW x \in T, NEW S
  PROVE  Only(Append(s, x), S) =
           IF x \in S THEN Append(Only(s, S), x) ELSE Only(s, S)
<1> DEFINE t == Append(s, x)
           n == Len(s)
<1>1. /\ Len(t) = n + 1 /\ t[n + 1] = x /\ n \in Nat
      /\ \A i \in 1..n: t[i] = s[i]
  BY AppendProperties, LenProperties
<1>0. Only(Append(s, x), S) = Only(t, S)
  OBVIOUS
<1> HIDE DEF t, n
<1>2. PICK f: Keeps(s, S, f, n) /\ Only(s, S) = f[n]
  BY <1>1, OnlyIs DEF n
<1>3. PICK g: Keeps(t, S, g, n + 1) /\ Only(t, S) = g[n + 1]
  BY <1>1, OnlyIs
<1>4. g[n + 1] = IF t[n + 1] \in S THEN Append(g[n], t[n + 1]) ELSE g[n]
  <2>1. n + 1 \in 0..(n + 1) /\ n + 1 # 0 /\ (n + 1) - 1 = n
    BY <1>1
  <2> QED
    BY <1>3, <2>1 DEF Keeps
<1>5. f[n] = g[n]
  <2> DEFINE k == n + 1
  <2>1. k \in Nat /\ n <= k /\ n \in Nat
    BY <1>1
  <2>2. Keeps(s, S, f, n) /\ Keeps(t, S, g, k)
    BY <1>2, <1>3
  <2>3. Alike(s, S, t, S, n)
    BY <1>1 DEF Alike
  <2> HIDE DEF k
  <2> QED
    BY ONLY <2>1, <2>2, <2>3, KeepsAgree
<1> QED
  BY <1>0, <1>1, <1>2, <1>3, <1>4, <1>5

(* A sequence ends in an element or is empty.                              *)
LEMMA EndsIn ==
  ASSUME NEW S, NEW s \in Seq(S), s # <<>>
  PROVE  \E t \in Seq(S), x \in S : s = Append(t, x) /\ Len(s) = Len(t) + 1
<1>1. Len(s) \in Nat \ {0} /\ \A i \in 1..Len(s) : s[i] \in S
  BY EmptySeq, LenProperties, ElementOfSeq
<1>0. PICK n \in Nat : Len(s) = n + 1
  <2>1. Len(s) - 1 \in Nat /\ Len(s) = (Len(s) - 1) + 1
    BY <1>1
  <2> QED
    BY <2>1
<1> DEFINE t == SubSeq(s, 1, n)
<1>2. /\ t \in Seq(S) /\ Len(t) = n
      /\ \A i \in 1..n : t[i] = s[i]
  <2>1. 1 \in Int /\ n \in Int /\ \A i \in 1..n : s[i] \in S
    BY <1>0, <1>1
  <2>2. /\ t \in Seq(S)
        /\ Len(t) = IF 1 <= n THEN n - 1 + 1 ELSE 0
        /\ \A i \in 1..(n - 1 + 1) : t[i] = s[1 + i - 1]
    BY <2>1, SubSeqProperties
  <2> HIDE DEF t
  <2> QED
    BY <1>0, <2>2
<1>3. s[Len(s)] \in S
  BY <1>1
<1> HIDE DEF t
<1>4. s = Append(t, s[Len(s)])
  <2>1. /\ Append(t, s[Len(s)]) \in Seq(S) /\ Len(Append(t, s[Len(s)])) = Len(t) + 1
        /\ Append(t, s[Len(s)])[Len(t) + 1] = s[Len(s)]
        /\ \A i \in 1..Len(t) : Append(t, s[Len(s)])[i] = t[i]
    BY <1>2, <1>3, AppendProperties
  <2>2. \A i \in 1..Len(s) : Append(t, s[Len(s)])[i] = s[i]
    BY <1>0, <1>1, <1>2, <2>1
  <2> QED
    BY <1>0, <1>1, <1>2, <2>1, <2>2, SeqEqual
<1>5. Len(s) = Len(t) + 1
  BY <1>0, <1>2
<1> QED
  BY <1>2, <1>3, <1>4, <1>5

(* A filter keeps a table a table.                                         *)
LEMMA OnlyType ==
  ASSUME NEW T, NEW s \in Seq(T), NEW S
  PROVE  Only(s, S) \in Seq(T)
<1> DEFINE Bad == {n \in Nat: \E t \in Seq(T): Len(t) = n /\ Only(t, S) \notin Seq(T)}
<1>1. SUFFICES ASSUME Bad # {} PROVE FALSE
  BY LenProperties
<1>2. PICK n \in Bad: \A m \in Bad: n <= m
  BY <1>1, LeastOf
<1>3. PICK t \in Seq(T): Len(t) = n /\ Only(t, S) \notin Seq(T)
  BY <1>2
<1>4. t # << >>
  BY <1>3, OnlyNone, EmptySeq
<1>5. PICK u \in Seq(T), x \in T: t = Append(u, x) /\ Len(t) = Len(u) + 1
  BY <1>4, EndsIn
<1>6. Len(u) \in Nat /\ ~(n <= Len(u))
  BY <1>3, <1>5, LenProperties
<1>7. Only(u, S) \in Seq(T)
  BY <1>2, <1>6
<1>8. Append(Only(u, S), x) \in Seq(T)
  BY <1>7, AppendProperties
<1>9. Only(t, S) = IF x \in S THEN Append(Only(u, S), x) ELSE Only(u, S)
  BY <1>5, OnlyAppend
<1> QED
  BY <1>3, <1>7, <1>8, <1>9

(* A filter by one set after a filter by another.                          *)
LEMMA OnlyTwice ==
  ASSUME NEW T, NEW s \in Seq(T), NEW S, NEW R
  PROVE  Only(Only(s, S), R) = Only(s, S \cap R)
<1> DEFINE Good(t) == Only(Only(t, S), R) = Only(t, S \cap R)
           Bad == {n \in Nat: \E t \in Seq(T): Len(t) = n /\ ~Good(t)}
<1>1. SUFFICES ASSUME Bad # {} PROVE FALSE
  BY LenProperties
<1>2. PICK n \in Bad: \A m \in Bad: n <= m
  BY <1>1, LeastOf
<1>3. PICK t \in Seq(T): Len(t) = n /\ ~Good(t)
  BY <1>2
<1>4. t # << >>
  BY <1>3, OnlyNone
<1>5. PICK u \in Seq(T), x \in T: t = Append(u, x) /\ Len(t) = Len(u) + 1
  BY <1>4, EndsIn
<1>6. Len(u) \in Nat /\ ~(n <= Len(u))
  BY <1>3, <1>5, LenProperties
<1>7. Good(u)
  BY <1>2, <1>6
<1>8. /\ Only(t, S) = IF x \in S THEN Append(Only(u, S), x) ELSE Only(u, S)
      /\ Only(t, S \cap R) = IF x \in S /\ x \in R THEN Append(Only(u, S \cap R), x)
                                                   ELSE Only(u, S \cap R)
  <2> DEFINE Q == S \cap R
  <2>1. x \in Q <=> x \in S /\ x \in R
    OBVIOUS
  <2> HIDE DEF Q, Good
  <2>2. /\ Only(t, S) = IF x \in S THEN Append(Only(u, S), x) ELSE Only(u, S)
        /\ Only(t, Q) = IF x \in Q THEN Append(Only(u, Q), x) ELSE Only(u, Q)
    BY <1>5, OnlyAppend
  <2>3. /\ Only(t, S) = IF x \in S THEN Append(Only(u, S), x) ELSE Only(u, S)
        /\ Only(t, Q) = IF x \in S /\ x \in R THEN Append(Only(u, Q), x) ELSE Only(u, Q)
    BY <2>1, <2>2
  <2> QED BY <2>3 DEF Q
<1>9. Only(u, S) \in Seq(T)
  BY OnlyType
<1>10. Only(Append(Only(u, S), x), R) =
         IF x \in R THEN Append(Only(Only(u, S), R), x) ELSE Only(Only(u, S), R)
  BY <1>9, OnlyAppend
<1> QED
  BY <1>3, <1>7, <1>8, <1>10

(* A filter that keeps every row.                                          *)
LEMMA OnlyAll ==
  ASSUME NEW T, NEW s \in Seq(T)
  PROVE  Only(s, T) = s
<1> DEFINE Bad == {n \in Nat: \E t \in Seq(T): Len(t) = n /\ Only(t, T) # t}
<1>1. SUFFICES ASSUME Bad # {} PROVE FALSE
  BY LenProperties
<1>2. PICK n \in Bad: \A m \in Bad: n <= m
  BY <1>1, LeastOf
<1>3. PICK t \in Seq(T): Len(t) = n /\ Only(t, T) # t
  BY <1>2
<1>4. t # << >>
  BY <1>3, OnlyNone
<1>5. PICK u \in Seq(T), x \in T: t = Append(u, x) /\ Len(t) = Len(u) + 1
  BY <1>4, EndsIn
<1>6. Len(u) \in Nat /\ ~(n <= Len(u))
  BY <1>3, <1>5, LenProperties
<1>7. Only(u, T) = u
  BY <1>2, <1>6
<1> QED
  BY <1>3, <1>5, <1>7, OnlyAppend

(* Appending to a concatenation.                                           *)
LEMMA ConcatAppend ==
  ASSUME NEW S, NEW s \in Seq(S), NEW t \in Seq(S), NEW x \in S
  PROVE  s \o Append(t, x) = Append(s \o t, x) /\ s \o t \in Seq(S)
<1>1. Append(t, x) = t \o <<x>> /\ <<x>> \in Seq(S)
  BY AppendIsConcat
<1>2. s \o t \in Seq(S)
  BY ConcatProperties
<1>3. Append(s \o t, x) = (s \o t) \o <<x>>
  BY <1>2, AppendIsConcat
<1>4. (s \o t) \o <<x>> = s \o (t \o <<x>>)
  BY <1>1, ConcatAssociative
<1> QED
  BY <1>1, <1>2, <1>3, <1>4

(* How many rows of two tables a filter keeps.                             *)
LEMMA OnlyConcat ==
  ASSUME NEW T, NEW s \in Seq(T), NEW t \in Seq(T), NEW S
  PROVE  Len(Only(s \o t, S)) = Len(Only(s, S)) + Len(Only(t, S))
<1> DEFINE Good(u) == Len(Only(s \o u, S)) = Len(Only(s, S)) + Len(Only(u, S))
           Bad == {n \in Nat: \E u \in Seq(T): Len(u) = n /\ ~Good(u)}
<1>1. SUFFICES ASSUME Bad # {} PROVE FALSE
  BY LenProperties
<1>2. PICK n \in Bad: \A m \in Bad: n <= m
  BY <1>1, LeastOf
<1>3. PICK u \in Seq(T): Len(u) = n /\ ~Good(u)
  BY <1>2
<1>0. Len(Only(s, S)) \in Nat
  BY OnlyType, LenProperties
<1>4. u # << >>
  <2>1. s \o << >> = s
    BY ConcatEmptySeq
  <2>2. Len(Only(<< >>, S)) = 0
    BY OnlyNone
  <2>3. Len(Only(s \o << >>, S)) = Len(Only(s, S))
    BY <2>1
  <2>4. Good(<< >>)
    BY <1>0, <2>2, <2>3
  <2> HIDE DEF Good
  <2> QED BY <1>3, <2>4
<1>5. PICK v \in Seq(T), x \in T: u = Append(v, x) /\ Len(u) = Len(v) + 1
  BY <1>4, EndsIn
<1>6. Len(v) \in Nat /\ ~(n <= Len(v))
  BY <1>3, <1>5, LenProperties
<1>7. Good(v)
  BY <1>2, <1>6
<1>8. s \o u = Append(s \o v, x) /\ s \o v \in Seq(T)
  BY <1>5, ConcatAppend
<1>9. /\ Only(u, S) = IF x \in S THEN Append(Only(v, S), x) ELSE Only(v, S)
      /\ Only(s \o u, S) = IF x \in S THEN Append(Only(s \o v, S), x)
                                      ELSE Only(s \o v, S)
  <2> HIDE DEF Good
  <2> DEFINE sv == s \o v
  <2>1. Only(u, S) = IF x \in S THEN Append(Only(v, S), x) ELSE Only(v, S)
    BY <1>5, OnlyAppend
  <2>2. sv \in Seq(T) /\ s \o u = Append(sv, x)
    BY <1>8
  <2> HIDE DEF sv
  <2>3. Only(Append(sv, x), S) = IF x \in S THEN Append(Only(sv, S), x) ELSE Only(sv, S)
    BY <2>2, OnlyAppend
  <2> QED BY <2>1, <2>2, <2>3 DEF sv
<1>10. Only(v, S) \in Seq(T) /\ Only(s \o v, S) \in Seq(T)
  BY <1>8, OnlyType
<1>11. /\ Len(Append(Only(v, S), x)) = Len(Only(v, S)) + 1
       /\ Len(Append(Only(s \o v, S), x)) = Len(Only(s \o v, S)) + 1
       /\ Len(Only(v, S)) \in Nat /\ Len(Only(s \o v, S)) \in Nat
  BY <1>10, AppendProperties, LenProperties
<1> QED
  BY <1>0, <1>3, <1>7, <1>9, <1>11

(* f has the concatenations of the first 1, 2, ..., n parts.               *)
Sums(ss, f, n) == f = [i \in 1..n |-> IF i = 1 THEN ss[i] ELSE f[i - 1] \o ss[i]]

(* The partial concatenations of a sequence of sequences exist.            *)
LEMMA SumsExist ==
  ASSUME NEW ss, NEW N \in Nat
  PROVE  \E f : Sums(ss, f, N)
<1> DEFINE Bad == {n \in Nat : ~ \E f : Sums(ss, f, n)}
<1>1. SUFFICES ASSUME Bad # {} PROVE FALSE
  OBVIOUS
<1>2. PICK n \in Bad : \A m \in Bad : n <= m
  BY <1>1, LeastOf
<1>3. CASE n = 0
  <2> DEFINE f == [i \in 1..0 |-> ss[i]]
  <2>1. f = [i \in 1..0 |-> IF i = 1 THEN ss[i] ELSE f[i - 1] \o ss[i]]
    OBVIOUS
  <2> QED
    BY <1>2, <1>3, <2>1 DEF Sums
<1>4. CASE n # 0
  <2>1. n - 1 \in Nat /\ n - 1 \notin Bad
    BY <1>2, <1>4
  <2>2. PICK f : Sums(ss, f, n - 1)
    BY <2>1
  <2> DEFINE g == [i \in 1..n |-> IF i < n THEN f[i]
                                  ELSE IF i = 1 THEN ss[i] ELSE f[i - 1] \o ss[i]]
  <2>3. ASSUME NEW i \in 1..n
        PROVE  g[i] = IF i = 1 THEN ss[i] ELSE g[i - 1] \o ss[i]
    <3>1. CASE i < n
      <4>1. i \in 1..(n - 1) /\ g[i] = f[i]
        BY <2>1, <3>1
      <4>2. f[i] = IF i = 1 THEN ss[i] ELSE f[i - 1] \o ss[i]
        BY <2>2, <4>1 DEF Sums
      <4>3. i # 1 => g[i - 1] = f[i - 1]
        BY <3>1
      <4> QED
        BY <4>1, <4>2, <4>3
    <3>2. CASE i = n
      <4>1. i # 1 => g[i - 1] = f[i - 1]
        BY <3>2
      <4> QED
        BY <3>2, <4>1
    <3> QED
      BY <1>2, <3>1, <3>2
  <2>4. g = [i \in 1..n |-> g[i]]
    OBVIOUS
  <2> HIDE DEF g
  <2>5. [i \in 1..n |-> g[i]] = [i \in 1..n |-> IF i = 1 THEN ss[i] ELSE g[i - 1] \o ss[i]]
    BY <2>3
  <2>6. Sums(ss, g, n)
    BY <2>4, <2>5 DEF Sums
  <2> QED
    BY <1>2, <2>6
<1> QED
  BY <1>3, <1>4

(* FlattenSeq by its partial concatenations.                               *)
LEMMA FlattenBySums ==
  ASSUME NEW ss, Len(ss) \in Nat \ {0}
  PROVE  \E f : Sums(ss, f, Len(ss)) /\ FlattenSeq(ss) = f[Len(ss)]
<1> DEFINE f == CHOOSE f : f = [i \in 1..Len(ss) |->
                                  IF i = 1 THEN ss[i] ELSE f[i - 1] \o ss[i]]
<1>1. Sums(ss, f, Len(ss))
  BY SumsExist DEF Sums
<1>2. FlattenSeq(ss) = f[Len(ss)]
  BY DEF FlattenSeq
<1> QED
  BY <1>1, <1>2

(* The partial concatenations are sequences over the same set.             *)
LEMMA SumsType ==
  ASSUME NEW S, NEW n \in Nat, NEW ss \in Seq(Seq(S)), n <= Len(ss), NEW f, Sums(ss, f, n)
  PROVE  \A i \in 1..n : f[i] \in Seq(S)
<1> DEFINE Bad == {i \in 1..n : f[i] \notin Seq(S)}
<1>1. SUFFICES ASSUME Bad # {} PROVE FALSE
  OBVIOUS
<1>2. PICK i \in Bad : \A j \in Bad : i <= j
  <2>1. Bad \subseteq Nat
    OBVIOUS
  <2> QED
    BY <1>1, <2>1, LeastOf
<1>3. Len(ss) \in Nat /\ \A j \in 1..Len(ss) : ss[j] \in Seq(S)
  BY LenProperties, ElementOfSeq
<1>4. ss[i] \in Seq(S)
  BY <1>2, <1>3
<1>5. f[i] = IF i = 1 THEN ss[i] ELSE f[i - 1] \o ss[i]
  BY <1>2 DEF Sums
<1>6. i # 1
  BY <1>2, <1>4, <1>5
<1>7. i - 1 \in 1..n /\ i - 1 \notin Bad
  BY <1>2, <1>6
<1>8. f[i - 1] \in Seq(S)
  BY <1>7
<1>9. f[i - 1] \o ss[i] \in Seq(S)
  BY <1>4, <1>8, ConcatProperties
<1> QED
  BY <1>2, <1>5, <1>6, <1>9

(* Two sequences that agree on their first n elements have the same partial *)
(* concatenations up to there.                                             *)
LEMMA SumsAgree ==
  ASSUME NEW ss, NEW tt, NEW f, NEW g, NEW m \in Nat, NEW n \in Nat, m <= n,
         Sums(ss, f, m), Sums(tt, g, n), Agree(ss, tt, m)
  PROVE  Agree(f, g, m)
<1> DEFINE Bad == {i \in 1..m : f[i] # g[i]}
<1>1. SUFFICES ASSUME Bad # {} PROVE FALSE
  BY DEF Agree
<1>2. PICK i \in Bad : \A j \in Bad : i <= j
  <2>1. Bad \subseteq Nat
    OBVIOUS
  <2> QED
    BY <1>1, <2>1, LeastOf
<1>3. i \in 1..m /\ i \in 1..n /\ ss[i] = tt[i]
  BY <1>2 DEF Agree
<1>4. /\ f[i] = IF i = 1 THEN ss[i] ELSE f[i - 1] \o ss[i]
      /\ g[i] = IF i = 1 THEN tt[i] ELSE g[i - 1] \o tt[i]
  BY <1>3 DEF Sums
<1>5. i # 1
  BY <1>2, <1>3, <1>4
<1>6. i - 1 \in 1..m /\ i - 1 \notin Bad
  BY <1>2, <1>3, <1>5
<1>7. f[i - 1] = g[i - 1]
  BY <1>6
<1> QED
  BY <1>2, <1>3, <1>4, <1>5, <1>7

(* Nothing concatenated.                                                   *)
LEMMA FlattenNone == FlattenSeq(<<>>) = <<>>
  BY EmptySeq DEF FlattenSeq

(* A concatenation of sequences is a sequence over the same set.           *)
LEMMA FlattenType ==
  ASSUME NEW S, NEW ss \in Seq(Seq(S))
  PROVE  FlattenSeq(ss) \in Seq(S)
<1>1. CASE ss = <<>>
  BY <1>1, FlattenNone, EmptySeq
<1>2. CASE ss # <<>>
  <2>1. Len(ss) \in Nat \ {0}
    BY <1>2, EmptySeq
  <2>2. PICK f : Sums(ss, f, Len(ss)) /\ FlattenSeq(ss) = f[Len(ss)]
    BY <2>1, FlattenBySums
  <2> QED
    BY <2>1, <2>2, SumsType
<1> QED
  BY <1>1, <1>2

(* One more sequence comes last.                                           *)
LEMMA FlattenAppend ==
  ASSUME NEW S, NEW ss \in Seq(Seq(S)), NEW s \in Seq(S)
  PROVE  FlattenSeq(Append(ss, s)) = FlattenSeq(ss) \o s
<1> DEFINE tt == Append(ss, s)
           n  == Len(ss)
<1>1. /\ tt \in Seq(Seq(S)) /\ Len(tt) = n + 1 /\ tt[n + 1] = s
      /\ \A i \in 1..n : tt[i] = ss[i]
      /\ n \in Nat
  BY AppendProperties, LenProperties
<1> HIDE DEF tt
<1>2. Len(tt) \in Nat \ {0}
  BY <1>1
<1>3. PICK g : Sums(tt, g, Len(tt)) /\ FlattenSeq(tt) = g[Len(tt)]
  BY <1>2, FlattenBySums
<1>4. g[n + 1] = IF n + 1 = 1 THEN tt[n + 1] ELSE g[n] \o tt[n + 1]
  <2>1. n + 1 \in 1..Len(tt) /\ (n + 1) - 1 = n
    BY <1>1
  <2> QED
    BY <1>3, <2>1 DEF Sums
<1>5. CASE n = 0
  <2>1. ss = <<>>
    BY <1>5, EmptySeq
  <2>2. <<>> \o s = s
    BY ConcatEmptySeq
  <2> QED
    BY <1>1, <1>3, <1>4, <1>5, <2>1, <2>2, FlattenNone DEF tt
<1>6. CASE n # 0
  <2>1. PICK f : Sums(ss, f, n) /\ FlattenSeq(ss) = f[n]
    BY <1>1, <1>6, FlattenBySums
  <2>2. f[n] = g[n]
    <3>1. n <= Len(tt) /\ n \in 1..n
      BY <1>1, <1>6
    <3>2. n \in Nat /\ Len(tt) \in Nat /\ Agree(ss, tt, n)
      BY <1>1, <1>2 DEF Agree
    <3> HIDE DEF n
    <3>3. Agree(f, g, n)
      BY <1>3, <2>1, <3>1, <3>2, SumsAgree
    <3> QED
      BY <3>1, <3>3 DEF Agree
  <2> QED
    BY <1>1, <1>3, <1>4, <1>6, <2>1, <2>2 DEF tt
<1> QED
  BY <1>5, <1>6

(* One sequence concatenated.                                              *)
LEMMA FlattenSingle ==
  ASSUME NEW S, NEW s \in Seq(S)
  PROVE  FlattenSeq(<<s>>) = s
<1>1. <<>> \in Seq(Seq(S)) /\ <<s>> = Append(<<>>, s)
  BY EmptySeq
<1>2. FlattenSeq(Append(<<>>, s)) = FlattenSeq(<<>>) \o s
  BY <1>1, FlattenAppend
<1>3. <<>> \o s = s
  BY ConcatEmptySeq
<1> QED
  BY <1>1, <1>2, <1>3, FlattenNone

(* How many rows of many tables a filter keeps.                            *)
LEMMA FlattenCount ==
  ASSUME NEW T, NEW ss \in Seq(Seq(T)), NEW S
  PROVE  Len(Only(FlattenSeq(ss), S)) =
           SumTo([i \in DOMAIN ss |-> Len(Only(ss[i], S))], Len(ss))
<1> DEFINE Lens(tt) == [i \in DOMAIN tt |-> Len(Only(tt[i], S))]
           Good(tt) == Len(Only(FlattenSeq(tt), S)) = SumTo(Lens(tt), Len(tt))
           Bad == {n \in Nat: \E tt \in Seq(Seq(T)): Len(tt) = n /\ ~Good(tt)}
<1>1. SUFFICES ASSUME Bad # {} PROVE FALSE
  BY LenProperties
<1>2. PICK n \in Bad: \A m \in Bad: n <= m
  BY <1>1, LeastOf
<1>3. PICK tt \in Seq(Seq(T)): Len(tt) = n /\ ~Good(tt)
  BY <1>2
<1>4. tt # << >>
  <2>1. FlattenSeq(<< >>) = << >> /\ Only(<< >>, S) = << >> /\ Len(<< >>) = 0
    BY FlattenNone, OnlyNone
  <2>2. SumTo(Lens(<< >>), 0) = 0
    BY SumNone
  <2>3. Good(<< >>)
    BY <2>1, <2>2
  <2> HIDE DEF Good
  <2> QED BY <1>3, <2>3
<1>5. PICK uu \in Seq(Seq(T)), u \in Seq(T): tt = Append(uu, u) /\ Len(tt) = Len(uu) + 1
  BY <1>4, EndsIn
<1>6. Len(uu) \in Nat /\ ~(n <= Len(uu))
  BY <1>3, <1>5, LenProperties
<1>7. Good(uu)
  BY <1>2, <1>6
<1>8. FlattenSeq(tt) = FlattenSeq(uu) \o u /\ FlattenSeq(uu) \in Seq(T)
  BY <1>5, FlattenAppend, FlattenType
<1>9. Len(Only(FlattenSeq(tt), S)) = Len(Only(FlattenSeq(uu), S)) + Len(Only(u, S))
  BY <1>8, OnlyConcat
<1> DEFINE k == Len(uu)
<1>10. /\ DOMAIN tt = 1..(k + 1) /\ DOMAIN uu = 1..k /\ k \in Nat /\ k + 1 \in 1..(k + 1)
       /\ tt[k + 1] = u /\ \A i \in 1..k: tt[i] = uu[i] /\ i \in 1..(k + 1)
  BY <1>5, <1>6, AppendProperties, LenProperties
<1>0. Len(tt) = k + 1
  BY <1>5
<1> HIDE DEF k
<1>11. Lens(tt)[k + 1] = Len(Only(u, S))
  BY <1>10
<1>12. Agree(Lens(tt), Lens(uu), k)
  BY <1>10 DEF Agree
<1> HIDE DEF Lens
<1>13. SumTo(Lens(tt), k) = SumTo(Lens(uu), k)
  BY <1>10, <1>12, SumAgree
<1>14. SumTo(Lens(tt), k + 1) = SumTo(Lens(tt), k) + Lens(tt)[k + 1]
  BY <1>10, SumNext
<1>15. Len(Only(FlattenSeq(uu), S)) = SumTo(Lens(uu), k)
  BY <1>7 DEF k
<1>16. Good(tt)
  BY <1>0, <1>9, <1>11, <1>13, <1>14, <1>15
<1> QED
  BY <1>3, <1>16

(* The rows in S of each part of a table, and ids that are in one part.    *)
PartLens(s, part, S, N) == [b \in 1..N |-> Len(Only(s, part[b] \cap S))]
Divides(part, T, N) ==
  \A x \in T: \E k \in 1..N: \A b \in 1..N: x \in part[b] <=> b = k

(* A table and the parts it is divided into have as many rows that a       *)
(* filter keeps.                                                           *)
LEMMA SplitCount ==
  ASSUME NEW T, NEW s \in Seq(T), NEW N \in Nat, NEW part, NEW S, Divides(part, T, N)
  PROVE  SumTo(PartLens(s, part, S, N), N) = Len(Only(s, S))
<1> DEFINE Lens(t) == [b \in 1..N |-> Len(Only(t, part[b] \cap S))]
           Good(t) == SumTo(Lens(t), N) = Len(Only(t, S))
           Bad == {n \in Nat: \E t \in Seq(T): Len(t) = n /\ ~Good(t)}
<1>1. SUFFICES ASSUME Bad # {} PROVE FALSE
  <2>1. SUFFICES ASSUME Good(s) PROVE SumTo(PartLens(s, part, S, N), N) = Len(Only(s, S))
    BY LenProperties
  <2> QED BY <2>1 DEF PartLens
<1>2. PICK n \in Bad: \A m \in Bad: n <= m
  BY <1>1, LeastOf
<1>3. PICK t \in Seq(T): Len(t) = n /\ ~Good(t)
  BY <1>2
<1>0. \A u \in Seq(T): Numbers(Lens(u), N)
  BY OnlyType, LenProperties DEF Numbers
<1>4. t # << >>
  <2> DEFINE zero == Lens(<< >>)
  <2>1. \A b \in 1..N: zero[b] = 0
    BY OnlyNone
  <2> HIDE DEF zero
  <2>2. SumTo(zero, N) = 0
    <3> DEFINE Worse == {m \in Nat: m <= N /\ SumTo(zero, m) # 0}
    <3>1. SUFFICES ASSUME Worse # {} PROVE FALSE
      OBVIOUS
    <3>2. PICK m \in Worse: \A l \in Worse: m <= l
      BY <3>1, LeastOf
    <3>3. PICK l \in Nat: m = l + 1
      <4>1. m # 0
        BY <3>2, SumNone
      <4>2. m - 1 \in Nat /\ m = (m - 1) + 1
        BY <3>2, <4>1
      <4> QED BY <4>2
    <3>4. SumTo(zero, l) = 0 /\ l + 1 \in 1..N
      BY <3>2, <3>3
    <3>5. SumTo(zero, l + 1) = SumTo(zero, l) + zero[l + 1]
      BY SumNext
    <3> QED BY <2>1, <3>2, <3>3, <3>4, <3>5
  <2>3. Good(<< >>)
    BY <2>2, OnlyNone DEF zero
  <2> HIDE DEF Good
  <2> QED BY <1>3, <2>3
<1>5. PICK u \in Seq(T), x \in T: t = Append(u, x) /\ Len(t) = Len(u) + 1
  BY <1>4, EndsIn
<1>6. Len(u) \in Nat /\ ~(n <= Len(u))
  BY <1>3, <1>5, LenProperties
<1>7. Good(u)
  BY <1>2, <1>6
<1>8. \A R: Len(Only(t, R)) = Len(Only(u, R)) + (IF x \in R THEN 1 ELSE 0)
  <2> TAKE R
  <2>1. Only(t, R) = IF x \in R THEN Append(Only(u, R), x) ELSE Only(u, R)
    BY <1>5, OnlyAppend
  <2>2. Only(u, R) \in Seq(T)
    BY OnlyType
  <2>3. Len(Append(Only(u, R), x)) = Len(Only(u, R)) + 1 /\ Len(Only(u, R)) \in Nat
    BY <2>2, AppendProperties, LenProperties
  <2> QED BY <2>1, <2>3
<1>9. PICK k \in 1..N: \A b \in 1..N: x \in part[b] <=> b = k
  BY DEF Divides
<1>10. \A b \in 1..N: Lens(t)[b] = Lens(u)[b] + (IF b = k /\ x \in S THEN 1 ELSE 0)
  BY <1>8, <1>9
<1>11. Numbers(Lens(u), N)
  BY <1>0
<1>12. Len(Only(t, S)) = Len(Only(u, S)) + (IF x \in S THEN 1 ELSE 0)
  BY <1>8
<1>13. Len(Only(u, S)) \in Nat
  BY OnlyType, LenProperties
<1>14. SumTo(Lens(u), N) = Len(Only(u, S))
  BY <1>7
<1> DEFINE c == Lens(u)
           d == Lens(t)
<1>15. d = Lens(t)
  OBVIOUS
<1>16. /\ \A b \in 1..N: d[b] = c[b] + (IF b = k /\ x \in S THEN 1 ELSE 0)
       /\ Numbers(c, N) /\ SumTo(c, N) = Len(Only(u, S))
  BY <1>10, <1>11, <1>14
<1> HIDE DEF Lens, c, d
<1>17. SumTo(d, N) = Len(Only(t, S))
  <2>1. CASE x \in S
    <3>1. \A b \in 1..N: d[b] = IF b = k THEN c[b] + 1 ELSE c[b]
      BY <1>16, <2>1 DEF Numbers
    <3>2. SumTo(d, N) = SumTo(c, N) + 1
      BY <1>16, <3>1, SumOneMore
    <3> QED BY <1>12, <1>16, <2>1, <3>2
  <2>2. CASE x \notin S
    <3>1. Agree(d, c, N)
      BY <1>16, <2>2 DEF Numbers, Agree
    <3>2. SumTo(d, N) = SumTo(c, N)
      BY <3>1, SumAgree
    <3> QED BY <1>12, <1>13, <1>16, <2>2, <3>2
  <2> QED BY <2>1, <2>2
<1>18. Good(t)
  BY <1>15, <1>17
<1> QED
  BY <1>3, <1>18

(* A sum of numbers is zero when all of them are.                          *)
LEMMA SumPositive ==
  ASSUME NEW c, NEW N \in Nat, Numbers(c, N)
  PROVE  SumTo(c, N) > 0 <=> \E i \in 1..N: c[i] > 0
<1> DEFINE Good(n) == /\ SumTo(c, n) \in Nat
                      /\ SumTo(c, n) > 0 <=> \E i \in 1..n: c[i] > 0
           Bad == {n \in Nat: n <= N /\ ~Good(n)}
<1>1. SUFFICES ASSUME Bad # {} PROVE FALSE
  OBVIOUS
<1>2. PICK n \in Bad: \A m \in Bad: n <= m
  BY <1>1, LeastOf
<1>3. n # 0
  BY <1>2, SumNone
<1>4. PICK m \in Nat: n = m + 1
  <2>1. n - 1 \in Nat /\ n = (n - 1) + 1
    BY <1>2, <1>3
  <2> QED BY <2>1
<1>5. Good(m)
  BY <1>2, <1>4
<1>6. c[m + 1] \in Nat /\ m + 1 \in 1..(m + 1) /\ \A i \in 1..m: i \in 1..(m + 1)
  <2>1. m + 1 \in 1..N
    BY <1>2, <1>4
  <2> QED BY <2>1 DEF Numbers
<1>7. SumTo(c, m + 1) = SumTo(c, m) + c[m + 1]
  BY SumNext
<1>8. (\E i \in 1..(m + 1): c[i] > 0) <=> (\E i \in 1..m: c[i] > 0) \/ c[m + 1] > 0
  <2>1. \A i \in 1..(m + 1): i \in 1..m \/ i = m + 1
    OBVIOUS
  <2> QED BY <1>6, <2>1
<1>9. Good(m + 1)
  BY <1>5, <1>6, <1>7, <1>8
<1> QED
  BY <1>2, <1>4, <1>9

(* A table has rows with an id when a filter finds some.                   *)
LEMMA OnlyFinds ==
  ASSUME NEW T, NEW s \in Seq(T), NEW x \in T
  PROVE  Len(Only(s, {x})) > 0 <=> x \in Range(s)
<1> DEFINE Good(t) == Len(Only(t, {x})) > 0 <=> \E i \in 1..Len(t): t[i] = x
           Bad == {n \in Nat: \E t \in Seq(T): Len(t) = n /\ ~Good(t)}
<1>0. DOMAIN s = 1..Len(s) /\ Len(s) \in Nat
  BY LenProperties
<1>1. SUFFICES ASSUME Bad # {} PROVE FALSE
  <2>1. SUFFICES ASSUME Good(s) PROVE Len(Only(s, {x})) > 0 <=> x \in Range(s)
    BY <1>0
  <2> QED BY <1>0, <2>1 DEF Range
<1>2. PICK n \in Bad: \A m \in Bad: n <= m
  BY <1>1, LeastOf
<1>3. PICK t \in Seq(T): Len(t) = n /\ ~Good(t)
  BY <1>2
<1>4. t # << >>
  <2>1. Good(<< >>)
    BY OnlyNone
  <2> HIDE DEF Good
  <2> QED BY <1>3, <2>1
<1>5. PICK u \in Seq(T), y \in T: t = Append(u, y) /\ Len(t) = Len(u) + 1
  BY <1>4, EndsIn
<1>6. Len(u) \in Nat /\ ~(n <= Len(u))
  BY <1>3, <1>5, LenProperties
<1>7. Good(u)
  BY <1>2, <1>6
<1>8. Len(Only(t, {x})) = Len(Only(u, {x})) + (IF y = x THEN 1 ELSE 0)
  <2>1. Only(t, {x}) = IF y \in {x} THEN Append(Only(u, {x}), y) ELSE Only(u, {x})
    BY <1>5, OnlyAppend
  <2>2. Only(u, {x}) \in Seq(T)
    BY OnlyType
  <2>3. Len(Append(Only(u, {x}), y)) = Len(Only(u, {x})) + 1 /\ Len(Only(u, {x})) \in Nat
    BY <2>2, AppendProperties, LenProperties
  <2> QED BY <2>1, <2>3
<1>9. Len(Only(u, {x})) \in Nat
  BY OnlyType, LenProperties
<1>10. (\E i \in 1..Len(t): t[i] = x) <=> (\E i \in 1..Len(u): u[i] = x) \/ y = x
  <2>1. /\ \A i \in 1..Len(t): i \in 1..Len(u) \/ i = Len(u) + 1
        /\ Len(u) + 1 \in 1..Len(t) /\ \A i \in 1..Len(u): i \in 1..Len(t)
    BY <1>5, <1>6
  <2>2. t[Len(u) + 1] = y /\ \A i \in 1..Len(u): t[i] = u[i]
    BY <1>5, AppendProperties
  <2> QED BY <2>1, <2>2
<1>11. Good(t)
  BY <1>7, <1>8, <1>9, <1>10
<1> QED
  BY <1>3, <1>11
-----------------------------------------------------------------------------
(* A command line whose input has blocks.                                  *)
Usable(c) == /\ c \in Conf /\ ~Unusable(c) /\ DOMAIN Blocks(c) # {}
             /\ c.file => Len(c.data) <= 1

(* What a usable input is.                                                 *)
LEMMA InputIs ==
  ASSUME NEW c, Usable(c)
  PROVE  /\ c.data \in Seq(Seq(Ids)) /\ c.file \in BOOLEAN
         /\ Len(c.data) \in Nat \ {0} /\ DOMAIN c.data = 1..Len(c.data)
         /\ \A b \in 1..Len(c.data): c.data[b] \in Seq(Ids)
         /\ c.file => c.data = <<c.data[1]>>
         /\ c.file => ActualBuckets(c) \in Nat \ {0}
         /\ \A rows: KindOf(c, rows) \in {"str", "int"}
<1>1. /\ c.data \in Seq(Seq(Ids)) /\ c.file \in BOOLEAN /\ c.kind \in {"str", "int"}
      /\ c.cpus \in Nat /\ c.parallels \in Int /\ c.buckets \in Int
  BY DEF Usable, Conf
<1>2. c.data # << >>
  BY DEF Usable, Unusable, Listed
<1>3. Len(c.data) \in Nat \ {0} /\ DOMAIN c.data = 1..Len(c.data)
  BY <1>1, <1>2, EmptySeq, LenProperties
<1>4. \A b \in 1..Len(c.data): c.data[b] \in Seq(Ids)
  BY <1>1, ElementOfSeq
<1>5. c.file => c.data = <<c.data[1]>>
  <2> SUFFICES ASSUME c.file PROVE c.data = <<c.data[1]>>
    OBVIOUS
  <2>0. Len(c.data) <= 1
    BY Zenon DEF Usable
  <2>9. \A n \in Nat \ {0}: n <= 1 => n = 1
    OBVIOUS
  <2>1. Len(c.data) = 1
    BY <1>3, <2>0, <2>9, Zenon
  <2>2. <<c.data[1]>> \in Seq(Seq(Ids)) /\ Len(<<c.data[1]>>) = 1
        /\ <<c.data[1]>>[1] = c.data[1]
    BY <1>3, <1>4, <2>1
  <2> HIDE DEF Usable
  <2> QED BY <1>1, <2>1, <2>2, SeqEqual
<1>6. c.file => ActualBuckets(c) \in Nat \ {0}
  <2>1. ActualBuckets(c) \in Int
    BY <1>1 DEF ActualBuckets, NParallels
  <2>2. ASSUME c.file PROVE 1..ActualBuckets(c) # {}
    BY <2>2 DEF Usable, Blocks
  <2> QED BY <2>1, <2>2
<1>7. \A rows: KindOf(c, rows) \in {"str", "int"}
  BY <1>1 DEF KindOf
<1> QED
  BY <1>1, <1>3, <1>4, <1>5, <1>6, <1>7

(* The blocks of an input are tables, numbered from 1.                     *)
LEMMA BlocksAre ==
  ASSUME NEW c, Usable(c)
  PROVE  /\ NBlocks(c) \in Nat /\ DOMAIN Blocks(c) = 1..NBlocks(c)
         /\ \A b \in 1..NBlocks(c): /\ Blocks(c)[b].rows \in Seq(Ids)
                                   /\ Blocks(c)[b].kind \in {"str", "int"}
<1>1. CASE c.file
  <2> DEFINE n == ActualBuckets(c)
             B == [b \in 1..n |-> Bucket(c, c.data[1], b)]
  <2>1. n \in Nat /\ c.data[1] \in Seq(Ids) /\ Blocks(c) = B
    BY <1>1, InputIs DEF Blocks
  <2>2. \A b \in 1..n: /\ Bucket(c, c.data[1], b).rows \in Seq(Ids)
                        /\ Bucket(c, c.data[1], b).kind \in {"str", "int"}
    BY <2>1, OnlyType, InputIs DEF Bucket, Block
  <2> HIDE DEF n
  <2>3. DOMAIN B = 1..n /\ \A b \in 1..n: B[b] = Bucket(c, c.data[1], b)
    OBVIOUS
  <2>4. B \in [1..n -> Range(B)]
    BY DEF Range
  <2> HIDE DEF B
  <2>5. Len(B) = n
    <3>1. B \in Seq(Range(B))
      BY <2>1, <2>4
    <3> QED BY <2>1, <2>3, <3>1, LenProperties
  <2> QED BY <2>1, <2>2, <2>3, <2>5 DEF NBlocks
<1>2. CASE ~c.file
  <2> DEFINE B == DataFiles(c)
             n == Len(c.data)
  <2>1. n \in Nat /\ Blocks(c) = B /\ \A b \in 1..n: c.data[b] \in Seq(Ids)
    BY <1>2, InputIs DEF Blocks
  <2>2. DOMAIN B = 1..n /\ \A b \in 1..n: /\ B[b].rows = c.data[b]
                                         /\ B[b].kind \in {"str", "int"}
    BY InputIs DEF DataFiles, Block
  <2> HIDE DEF n
  <2>4. B \in [1..n -> Range(B)]
    BY <2>2 DEF Range, DataFiles
  <2> HIDE DEF B
  <2>5. Len(B) = n
    <3>1. B \in Seq(Range(B))
      BY <2>1, <2>4
    <3> QED BY <2>1, <2>2, <3>1, LenProperties
  <2> QED BY <2>1, <2>2, <2>5 DEF NBlocks
<1> QED
  BY <1>1, <1>2, InputIs

(* repartition_by_hash puts an id in one bucket.                           *)
LEMMA OneBucket ==
  ASSUME NEW kind \in {"str", "int"}, NEW n \in Nat \ {0}, NEW x \in Ids
  PROVE  \E k \in 1..n: \A b \in 1..n: x \in InBucket(kind, n, b) <=> b = k
<1> DEFINE h == HashOf[<<kind, x>>] % n
<1>1. HashOf[<<kind, x>>] \in Nat
  BY HashAssumption
<1>2. h \in 0..(n - 1)
  <2> DEFINE m == HashOf[<<kind, x>>]
  <2>1. m \in Nat
    BY <1>1
  <2> HIDE DEF m
  <2>2. m % n \in 0..(n - 1)
    BY <2>1
  <2> QED BY <2>2 DEF m
<1>3. \A b \in 1..n: x \in InBucket(kind, n, b) <=> h = b - 1
  BY DEF InBucket
<1> HIDE DEF h
<1>4. h + 1 \in 1..n /\ \A b \in 1..n: h = b - 1 <=> b = h + 1
  BY <1>2
<1> QED
  BY <1>3, <1>4

(* However an input is cut into blocks, a filter finds as many rows in the *)
(* blocks as in the input.                                                 *)
LEMMA BlocksCount ==
  ASSUME NEW c, Usable(c), NEW S
  PROVE  SumTo([b \in 1..NBlocks(c) |-> Len(Only(Blocks(c)[b].rows, S))], NBlocks(c))
           = Len(Only(FlattenSeq(c.data), S))
<1>0. NBlocks(c) \in Nat /\ DOMAIN Blocks(c) = 1..NBlocks(c)
  BY BlocksAre
<1>1. CASE c.file
  <2> DEFINE n == ActualBuckets(c)
             rows == c.data[1]
             kind == KindOf(c, rows)
             part == [b \in 1..n |-> InBucket(kind, n, b)]
             f == [b \in 1..NBlocks(c) |-> Len(Only(Blocks(c)[b].rows, S))]
             g == [b \in 1..n |-> Len(Only(rows, part[b] \cap S))]
  <2>1. n \in Nat \ {0} /\ rows \in Seq(Ids) /\ c.data = <<rows>> /\ kind \in {"str", "int"}
    BY <1>1, InputIs
  <2>2. FlattenSeq(c.data) = rows
    BY <2>1, FlattenSingle
  <2>3. Blocks(c) = [b \in 1..n |-> Bucket(c, rows, b)]
    BY <1>1 DEF Blocks
  <2>4. \A b \in 1..n: Bucket(c, rows, b).rows = Only(rows, part[b])
    BY DEF Bucket, Block
  <2>5. DOMAIN Blocks(c) = 1..n
    BY <2>3
  <2>6. NBlocks(c) = n
    BY <1>0, <2>1, <2>5
  <2>7. Divides(part, Ids, n)
    <3> SUFFICES ASSUME NEW x \in Ids
                 PROVE  \E k \in 1..n: \A b \in 1..n: x \in part[b] <=> b = k
      BY DEF Divides
    <3>1. PICK k \in 1..n: \A b \in 1..n: x \in InBucket(kind, n, b) <=> b = k
      BY <2>1, OneBucket
    <3> QED BY <3>1
  <2>8. \A b \in 1..n: Only(Only(rows, part[b]), S) = Only(rows, part[b] \cap S)
    BY <2>1, OnlyTwice
  <2> HIDE DEF n, rows, kind, part
  <2>9. \A b \in 1..n: f[b] = g[b]
    BY <2>3, <2>4, <2>6, <2>8
  <2>0. n \in Nat /\ g = PartLens(rows, part, S, n)
    BY <2>1 DEF PartLens
  <2> HIDE DEF f, g
  <2>10. SumTo(g, n) = Len(Only(rows, S))
    BY <2>0, <2>1, <2>7, SplitCount
  <2>11. SumTo(f, n) = SumTo(g, n)
    BY <2>1, <2>9, SumAgree DEF Agree
  <2> QED BY <2>2, <2>6, <2>10, <2>11 DEF f
<1>2. CASE ~c.file
  <2> DEFINE n == Len(c.data)
             f == [b \in 1..NBlocks(c) |-> Len(Only(Blocks(c)[b].rows, S))]
             g == [b \in DOMAIN c.data |-> Len(Only(c.data[b], S))]
  <2>1. n \in Nat /\ DOMAIN c.data = 1..n /\ c.data \in Seq(Seq(Ids))
    BY InputIs
  <2>2. /\ Blocks(c) = DataFiles(c) /\ DOMAIN DataFiles(c) = 1..n
        /\ \A b \in 1..n: DataFiles(c)[b].rows = c.data[b]
    BY <1>2, <2>1 DEF Blocks, DataFiles, Block
  <2>3. NBlocks(c) = n
    BY <1>0, <2>1, <2>2
  <2>4. \A b \in 1..n: f[b] = g[b]
    BY <2>1, <2>2, <2>3
  <2>5. SumTo(g, n) = Len(Only(FlattenSeq(c.data), S))
    BY <2>1, FlattenCount
  <2> HIDE DEF n, f, g
  <2>6. SumTo(f, n) = SumTo(g, n)
    BY <2>1, <2>4, SumAgree DEF Agree
  <2> QED BY <2>3, <2>5, <2>6 DEF f
<1> QED
  BY <1>1, <1>2, InputIs

(* A filter that keeps no row.                                             *)
LEMMA OnlyNothing ==
  ASSUME NEW T, NEW s \in Seq(T)
  PROVE  Only(s, {}) = << >>
<1> DEFINE Bad == {n \in Nat: \E t \in Seq(T): Len(t) = n /\ Only(t, {}) # << >>}
<1>1. SUFFICES ASSUME Bad # {} PROVE FALSE
  BY LenProperties
<1>2. PICK n \in Bad: \A m \in Bad: n <= m
  BY <1>1, LeastOf
<1>3. PICK t \in Seq(T): Len(t) = n /\ Only(t, {}) # << >>
  BY <1>2
<1>4. t # << >>
  BY <1>3, OnlyNone
<1>5. PICK u \in Seq(T), x \in T: t = Append(u, x) /\ Len(t) = Len(u) + 1
  BY <1>4, EndsIn
<1>6. Len(u) \in Nat /\ ~(n <= Len(u))
  BY <1>3, <1>5, LenProperties
<1>7. Only(u, {}) = << >>
  BY <1>2, <1>6
<1>8. Only(t, {}) = IF x \in {} THEN Append(Only(u, {}), x) ELSE Only(u, {})
  BY <1>5, OnlyAppend
<1> QED
  BY <1>3, <1>7, <1>8

(* An id of the input is in a block.                                       *)
LEMMA InSomeBlock ==
  ASSUME NEW c, Usable(c), NEW x \in Ids
  PROVE  x \in Range(FlattenSeq(c.data)) <=>
           \E b \in 1..NBlocks(c): x \in Range(Blocks(c)[b].rows)
<1> DEFINE n == NBlocks(c)
           f == [b \in 1..n |-> Len(Only(Blocks(c)[b].rows, {x}))]
<1>1. n \in Nat /\ \A b \in 1..n: Blocks(c)[b].rows \in Seq(Ids)
  BY BlocksAre
<1>2. SumTo(f, n) = Len(Only(FlattenSeq(c.data), {x}))
  BY BlocksCount
<1>3. FlattenSeq(c.data) \in Seq(Ids)
  BY InputIs, FlattenType
<1>4. Len(Only(FlattenSeq(c.data), {x})) > 0 <=> x \in Range(FlattenSeq(c.data))
  BY <1>3, OnlyFinds
<1>5. \A b \in 1..n: f[b] > 0 <=> x \in Range(Blocks(c)[b].rows)
  BY <1>1, OnlyFinds
<1>6. Numbers(f, n)
  BY <1>1, OnlyType, LenProperties DEF Numbers
<1> HIDE DEF n, f
<1>7. SumTo(f, n) > 0 <=> \E b \in 1..n: f[b] > 0
  BY <1>1, <1>6, SumPositive
<1> QED
  BY <1>2, <1>4, <1>5, <1>7 DEF n

(* Two inputs that are cut alike, seen from one of them.                   *)
AlikeCut(c, d) ==
  /\ DOMAIN Blocks(c) = DOMAIN Blocks(d)
  /\ \A a, b \in DOMAIN Blocks(c):
       /\ Blocks(c)[a].kind = Blocks(d)[b].kind
       /\ Range(Blocks(c)[a].rows) \cap Range(Blocks(d)[b].rows) # {} => a = b

(* What the join of two blocks has of an id: what the block has, if the    *)
(* peer has the id, and nothing otherwise.                                 *)
LEMMA JoinHas ==
  ASSUME NEW c, NEW d, Usable(c), Usable(d), AlikeCut(c, d), NoCollision,
         NEW b \in 1..NBlocks(c), NEW x \in Ids
  PROVE  Only(Join(Blocks(c)[b], Blocks(d)[b]), {x}) =
           IF x \in Range(FlattenSeq(d.data)) THEN Only(Blocks(c)[b].rows, {x})
                                              ELSE << >>
<1> DEFINE L == Blocks(c)[b]
           F == Blocks(d)[b]
           K == {id \in Ids: \E other \in Range(F.rows):
                   HashOf[<<L.kind, id>>] = HashOf[<<F.kind, other>>]}
<1>1. /\ L.rows \in Seq(Ids) /\ L.kind \in {"str", "int"} /\ b \in DOMAIN Blocks(c)
      /\ NBlocks(d) = NBlocks(c)
  <2>1. /\ NBlocks(c) \in Nat /\ NBlocks(d) \in Nat
        /\ DOMAIN Blocks(c) = 1..NBlocks(c) /\ DOMAIN Blocks(d) = 1..NBlocks(d)
    BY BlocksAre
  <2>2. 1..NBlocks(c) = 1..NBlocks(d)
    BY <2>1 DEF AlikeCut
  <2>3. \A m, n \in Nat: 1..m = 1..n => m = n
    OBVIOUS
  <2>4. NBlocks(d) = NBlocks(c)
    BY <2>1, <2>2, <2>3
  <2> QED BY <2>1, <2>4, BlocksAre
<1>2. F.rows \in Seq(Ids) /\ F.kind = L.kind
  BY <1>1, BlocksAre DEF AlikeCut
<1>3. Range(F.rows) \subseteq Ids /\ DOMAIN L.rows = 1..Len(L.rows) /\ Len(L.rows) \in Nat
  BY <1>1, <1>2, LenProperties DEF Range
<1>4. x \in K <=> x \in Range(F.rows)
  <2> HIDE DEF L, F
  <2>1. \A y \in Range(F.rows): y \in Ids
    BY <1>3
  <2>2. \A y \in Ids: HashOf[<<L.kind, x>>] = HashOf[<<L.kind, y>>] => x = y
    BY <1>1 DEF NoCollision
  <2> QED BY <1>2, <2>1, <2>2
<1>5. Join(L, F) = Only(L.rows, K)
  BY DEF Join
<1>6. Only(Only(L.rows, K), {x}) = Only(L.rows, K \cap {x})
  <2> HIDE DEF K, L
  <2> QED BY <1>1, OnlyTwice
<1>7. CASE x \in Range(FlattenSeq(d.data))
  <2>1. PICK e \in 1..NBlocks(d): x \in Range(Blocks(d)[e].rows)
    BY <1>7, InSomeBlock
  <2>2. x \in Range(L.rows) => x \in Range(F.rows)
    <3> SUFFICES ASSUME x \in Range(L.rows) PROVE x \in Range(F.rows)
      OBVIOUS
    <3>1. e \in DOMAIN Blocks(c)
      BY <1>1, <2>1, BlocksAre
    <3>2. b = e
      BY <1>1, <2>1, <3>1 DEF AlikeCut
    <3> QED BY <2>1, <3>2
  <2> HIDE DEF L, F, K
  <2>3. \A i \in 1..Len(L.rows): L.rows[i] = x => x \in K
    BY <1>3, <1>4, <2>2 DEF Range
  <2>4. Alike(L.rows, K \cap {x}, L.rows, {x}, Len(L.rows))
    BY <2>3 DEF Alike
  <2>5. Only(L.rows, K \cap {x}) = Only(L.rows, {x})
    BY <1>3, <2>4, OnlySame
  <2> QED BY <1>5, <1>6, <1>7, <2>5 DEF L, F
<1>8. CASE x \notin Range(FlattenSeq(d.data))
  <2>1. x \notin Range(F.rows)
    BY <1>1, <1>8, InSomeBlock
  <2>2. K \cap {x} = {}
    <3> HIDE DEF K
    <3> QED BY <1>4, <2>1
  <2>3. Only(L.rows, {}) = << >>
    BY <1>1, OnlyNothing
  <2> HIDE DEF L, F, K
  <2> QED BY <1>5, <1>6, <1>8, <2>2, <2>3 DEF L, F
<1> QED
  BY <1>7, <1>8

(* The joins of all the blocks are the intersection.                       *)
LEMMA JoinsAre ==
  ASSUME NEW c, NEW d, Usable(c), Usable(d), AlikeCut(c, d), NoCollision,
         NEW r \in Seq(Seq(Ids)), Len(r) = NBlocks(c),
         \A b \in 1..NBlocks(c): r[b] = Join(Blocks(c)[b], Blocks(d)[b]),
         NEW x \in Ids
  PROVE  Count(FlattenSeq(r), x) =
           IF x \in Range(FlattenSeq(d.data)) THEN Count(FlattenSeq(c.data), x) ELSE 0
<1> DEFINE n == NBlocks(c)
           f == [b \in DOMAIN r |-> Len(Only(r[b], {x}))]
           g == [b \in 1..n |-> Len(Only(Blocks(c)[b].rows, {x}))]
<1>1. n \in Nat /\ \A b \in 1..n: Blocks(c)[b].rows \in Seq(Ids)
  BY BlocksAre
<1>2. DOMAIN r = 1..n
  BY LenProperties
<1>3. \A b \in 1..n: Only(r[b], {x}) =
        IF x \in Range(FlattenSeq(d.data)) THEN Only(Blocks(c)[b].rows, {x}) ELSE << >>
  <2> TAKE b \in 1..n
  <2>1. Only(Join(Blocks(c)[b], Blocks(d)[b]), {x}) =
          IF x \in Range(FlattenSeq(d.data)) THEN Only(Blocks(c)[b].rows, {x}) ELSE << >>
    BY JoinHas
  <2>2. r[b] = Join(Blocks(c)[b], Blocks(d)[b])
    OBVIOUS
  <2> QED BY <2>1, <2>2
<1>4. SumTo(f, n) = Len(Only(FlattenSeq(r), {x}))
  BY FlattenCount
<1>5. SumTo(g, n) = Len(Only(FlattenSeq(c.data), {x}))
  BY BlocksCount
<1>6. CASE x \in Range(FlattenSeq(d.data))
  <2>1. \A b \in 1..n: f[b] = g[b]
    BY <1>2, <1>3, <1>6
  <2> HIDE DEF n, f, g
  <2>2. SumTo(f, n) = SumTo(g, n)
    BY <1>1, <2>1, SumAgree DEF Agree
  <2> QED BY <1>4, <1>5, <1>6, <2>2 DEF Count
<1>7. CASE x \notin Range(FlattenSeq(d.data))
  <2>0. \A b \in 1..n: Only(r[b], {x}) = << >>
    BY <1>3, <1>7, Zenon
  <2>1. \A b \in 1..n: f[b] = 0
    <3> TAKE b \in 1..n
    <3>1. f[b] = Len(Only(r[b], {x}))
      BY <1>2
    <3>2. Len(<< >>) = 0
      OBVIOUS
    <3> HIDE DEF f
    <3> QED BY <2>0, <3>1, <3>2, Zenon
  <2> HIDE DEF n, f, g
  <2>2. Numbers(f, n) /\ AtMost(f, f, n)
    BY <2>1 DEF Numbers, AtMost
  <2>3. SumTo(f, n) \in Nat
    BY <1>1, <2>2, SumAtMost
  <2>4. ~(SumTo(f, n) > 0)
    BY <1>1, <2>1, <2>2, SumPositive
  <2>5. SumTo(f, n) = 0
    BY <2>3, <2>4
  <2> QED BY <1>4, <1>7, <2>5 DEF Count
<1> QED
  BY <1>6, <1>7

-----------------------------------------------------------------------------
(* What the workers of a party make of its blocks, and what its dispatcher *)
(* is told of it; as before for the four values of one party.              *)

(* No worker has block b.                                                  *)
Free(w, b) == \A a \in DOMAIN w: w[a].block # b

(* Block b has been worked on, and k are the counts of its rows.           *)
Final(p, s, w, r, b, k) ==
  /\ s[b].st # "INIT"
  /\ \A a \in DOMAIN w: w[a].block = b =>
       w[a].pc = "returned" /\ k = <<BlockLen(p, b), Len(w[a].out)>>
  /\ Free(w, b) => k = <<BlockLen(p, b), Len(r[b])>>

(* What a worker v has made of its block, if no exchange was cut (ok).     *)
MadeBy(p, ok, v, r) ==
  /\ v.out \in Seq(Ids)
  /\ v.pc = "idle" => v.block = 0
  /\ (v.pc = "returned" /\ ~conf[p].file) => r[v.block] = v.out
  /\ (v.pc \in {"write", "returned"} /\ ok) => Joins(p, v.block, v.out)

(* What all of them have made, and what has been collected.                *)
Made(p, ok, s, w, r) ==
  /\ \A a \in DOMAIN w: MadeBy(p, ok, w[a], r)
  /\ \A b \in DOMAIN s:
       (s[b].st # "INIT" /\ Free(w, b) /\ ok) => Joins(p, b, r[b])

(* A worker that has announced its block and not returned.                 *)
Busy == {"psi", "write", "raised", "hung"}

(* The counts the dispatcher has are zero or final.                        *)
Known(p, s, w, r) ==
  \A b \in DOMAIN s: s[b].counts = <<0, 0>> \/ Final(p, s, w, r, b, s[b].counts)

(* The call at place i of a mailbox q of the worker v.                     *)
RightCall(p, s, w, r, v, q, i) ==
  IF q[i][2].st = "PROCESSED" THEN Final(p, s, w, r, q[i][1], q[i][2].counts)
  ELSE /\ q[i][2].counts = <<0, 0>>
       /\ \/ \E j \in DOMAIN q: j > i /\ Tells(q[j], q[i][1])
          \/ v.block = q[i][1] /\ v.pc \in Busy

(* All calls on their way are right.                                       *)
Said(p, s, w, m, r) ==
  \A a \in DOMAIN m: \A i \in DOMAIN m[a]: RightCall(p, s, w, r, w[a], m[a], i)

(* The work on a block is over; the call that says so is on its way; every *)
(* block whose work is over is known to the dispatcher or such a call is.  *)
WorkOver(s, w, b) ==
  s[b].st # "INIT" /\ \A a \in DOMAIN w: w[a].block = b => w[a].pc = "returned"
Coming(m, b) == \E a \in DOMAIN m: \E i \in DOMAIN m[a]: Tells(m[a][i], b)
Told(p, s, w, m, r) ==
  \A b \in DOMAIN s:
    WorkOver(s, w, b) => Final(p, s, w, r, b, s[b].counts) \/ Coming(m, b)

(* These are the parts of the invariant.                                   *)
LEMMA MadeIs ==
  ASSUME NEW p \in Party
  PROVE  /\ Outcome(p) <=> Made(p, ~cut, status[p], worker[p], refs[p])
         /\ Counted(p) <=> /\ Known(p, status[p], worker[p], refs[p])
                           /\ Said(p, status[p], worker[p], mail[p], refs[p])
         /\ Heard(p) <=> Told(p, status[p], worker[p], mail[p], refs[p])
<1>1. Outcome(p) <=> Made(p, ~cut, status[p], worker[p], refs[p])
  BY DEF Outcome, Made, MadeBy, Held, Free
<1>2. \A b, k: Ends(p, b, k) <=> Final(p, status[p], worker[p], refs[p], b, k)
  BY DEF Ends, Final, Held, Free
<1>3. Counted(p) <=> /\ Known(p, status[p], worker[p], refs[p])
                     /\ Said(p, status[p], worker[p], mail[p], refs[p])
  BY <1>2 DEF Counted, Known, Said, RightCall, Busy
<1>4. Heard(p) <=> Told(p, status[p], worker[p], mail[p], refs[p])
  BY <1>2 DEF Heard, Told, WorkOver, Coming
<1> QED
  BY <1>1, <1>3, <1>4

(* And after a step.                                                       *)
LEMMA MadeNext ==
  ASSUME NEW p \in Party, conf' = conf
  PROVE  /\ Outcome(p)' <=> Made(p, ~cut', status'[p], worker'[p], refs'[p])
         /\ Counted(p)' <=> /\ Known(p, status'[p], worker'[p], refs'[p])
                            /\ Said(p, status'[p], worker'[p], mail'[p], refs'[p])
         /\ Heard(p)' <=> Told(p, status'[p], worker'[p], mail'[p], refs'[p])
<1>1. Outcome(p)' <=> Made(p, ~cut', status'[p], worker'[p], refs'[p])
  <2>1. \A b, rows: Joins(p, b, rows)' <=> Joins(p, b, rows)
    BY DEF Joins
  <2> QED BY <2>1 DEF Outcome, Made, MadeBy, Held, Free
<1>2. ASSUME NEW b, NEW k
      PROVE  Ends(p, b, k)' <=> Final(p, status'[p], worker'[p], refs'[p], b, k)
  BY DEF Ends, Final, Held, Free, BlockLen
<1>3. Counted(p)' <=> /\ Known(p, status'[p], worker'[p], refs'[p])
                      /\ Said(p, status'[p], worker'[p], mail'[p], refs'[p])
  BY <1>2 DEF Counted, Known, Said, RightCall, Busy
<1>4. Heard(p)' <=> Told(p, status'[p], worker'[p], mail'[p], refs'[p])
  BY <1>2 DEF Heard, Told, WorkOver, Coming
<1> QED
  BY <1>1, <1>3, <1>4

(* What is final stays so.                                                 *)
FinalStays(p, s, w, r, t, v, o) ==
  \A b \in DOMAIN s: \A k: Final(p, s, w, r, b, k) => Final(p, t, v, o, b, k)

(* A worker goes on with its block.                                        *)
LEMMA FinalMoved ==
  ASSUME NEW p, NEW s, NEW w, NEW r, NEW a \in DOMAIN w, w[a].pc # "returned",
         NEW v, v.block = w[a].block, NEW o,
         \A b \in DOMAIN s: b # w[a].block => o[b] = r[b]
  PROVE  FinalStays(p, s, w, r, s, [w EXCEPT ![a] = v], o)
<1> DEFINE w2 == [w EXCEPT ![a] = v]
<1>1. /\ DOMAIN w2 = DOMAIN w /\ w2[a] = v
      /\ \A c \in DOMAIN w \ {a}: w2[c] = w[c]
      /\ \A c \in DOMAIN w: w2[c].block = w[c].block
  OBVIOUS
<1> HIDE DEF w2
<1> SUFFICES ASSUME NEW b \in DOMAIN s, NEW k, Final(p, s, w, r, b, k)
             PROVE  Final(p, s, w2, o, b, k)
  BY DEF FinalStays, w2
<1>2. b # w[a].block
  BY DEF Final
<1>3. Free(w2, b) <=> Free(w, b)
  BY <1>1 DEF Free
<1>4. \A c \in DOMAIN w2: w2[c].block = b => c # a
  BY <1>1, <1>2
<1>5. \A c \in DOMAIN w2: w2[c].block = b =>
        w2[c].pc = "returned" /\ k = <<BlockLen(p, b), Len(w2[c].out)>>
  BY <1>1, <1>4 DEF Final
<1> QED
  BY <1>2, <1>3, <1>5 DEF Final

(* A worker is collected: its output is the one of its block, and it gets  *)
(* a block that was INIT or none.                                          *)
LEMMA FinalCollected ==
  ASSUME NEW p, NEW s, NEW w, NEW r, Once(s, w, r),
         NEW a \in DOMAIN w, w[a].block # 0, DOMAIN s \subseteq Nat \ {0},
         NEW v, v.block = 0 \/ s[v.block].st = "INIT",
         NEW t, \A b \in DOMAIN s: s[b].st # "INIT" => t[b].st # "INIT",
         NEW o, o[w[a].block] = w[a].out,
         \A b \in DOMAIN s: b # w[a].block => o[b] = r[b]
  PROVE  FinalStays(p, s, w, r, t, [w EXCEPT ![a] = v], o)
<1> DEFINE w2 == [w EXCEPT ![a] = v]
           e == w[a].block
<1>1. /\ DOMAIN w2 = DOMAIN w /\ w2[a] = v
      /\ \A c \in DOMAIN w \ {a}: w2[c] = w[c]
  OBVIOUS
<1>2. s[e].st # "INIT" /\ \A c \in DOMAIN w \ {a}: w[c].block # e
  BY DEF Once
<1>0. w[a].block = e /\ e # 0
  OBVIOUS
<1> HIDE DEF w2, e
<1> SUFFICES ASSUME NEW b \in DOMAIN s, NEW k, Final(p, s, w, r, b, k)
             PROVE  Final(p, t, w2, o, b, k)
  BY DEF FinalStays, w2
<1>3. s[b].st # "INIT" /\ t[b].st # "INIT"
  BY DEF Final
<1>4. CASE b = e
  <2>1. k = <<BlockLen(p, b), Len(w[a].out)>>
    BY <1>0, <1>4 DEF Final
  <2>2. v.block # e
    BY <1>0, <1>2
  <2>3. Free(w2, b)
    BY <1>1, <1>2, <1>4, <2>2 DEF Free
  <2> QED
    BY <1>0, <1>3, <1>4, <2>1, <2>3 DEF Final, Free
<1>5. CASE b # e
  <2>1. o[b] = r[b]
    BY <1>0, <1>5
  <2>2. CASE b = v.block
    <3>1. b = 0
      BY <1>3, <2>2
    <3> QED BY <3>1
  <2>3. CASE b # v.block
    <3>1. \A c \in DOMAIN w: w2[c].block = b <=> w[c].block = b
      BY <1>0, <1>1, <1>5, <2>3
    <3>2. \A c \in DOMAIN w: w2[c].block = b => w2[c] = w[c]
      BY <1>1, <2>3
    <3>3. Free(w2, b) <=> Free(w, b)
      BY <1>1, <3>1 DEF Free
    <3>4. \A c \in DOMAIN w2: w2[c].block = b =>
            w2[c].pc = "returned" /\ k = <<BlockLen(p, b), Len(w2[c].out)>>
      BY <1>1, <3>1, <3>2 DEF Final
    <3> QED
      BY <1>3, <2>1, <3>3, <3>4 DEF Final
  <2> QED BY <2>2, <2>3
<1> QED
  BY <1>4, <1>5

(* A step that leaves the mailboxes alone and keeps what is final: what    *)
(* the dispatcher knows and what is on its way stays right.                *)
LEMMA CallsStand ==
  ASSUME NEW p, NEW s, NEW w, NEW m, NEW r, NEW t, NEW v, NEW o,
         Calls(s, m), DOMAIN m = DOMAIN w, DOMAIN t = DOMAIN s,
         FinalStays(p, s, w, r, t, v, o),
         \A b \in DOMAIN s: t[b].counts = s[b].counts,
         \A a \in DOMAIN w: w[a].pc \in Busy =>
           v[a].pc \in Busy /\ v[a].block = w[a].block,
         Known(p, s, w, r), Said(p, s, w, m, r)
  PROVE  Known(p, t, v, o) /\ Said(p, t, v, m, o)
<1>1. Known(p, t, v, o)
  BY DEF Known, FinalStays
<1>2. Said(p, t, v, m, o)
  <2> SUFFICES ASSUME NEW a \in DOMAIN m, NEW i \in DOMAIN m[a]
               PROVE  RightCall(p, t, v, o, v[a], m[a], i)
    BY DEF Said
  <2>1. RightCall(p, s, w, r, w[a], m[a], i)
    BY DEF Said
  <2>2. m[a][i][1] \in DOMAIN s
    BY DEF Calls, ACall, Range
  <2>3. CASE m[a][i][2].st = "PROCESSED"
    <3>1. Final(p, t, v, o, m[a][i][1], m[a][i][2].counts)
      BY <2>1, <2>2, <2>3 DEF RightCall, FinalStays
    <3> QED BY <2>3, <3>1 DEF RightCall
  <2>4. CASE m[a][i][2].st # "PROCESSED"
    BY <2>1, <2>4 DEF RightCall
  <2> QED BY <2>3, <2>4
<1> QED BY <1>1, <1>2

(* Such a step that ends no block leaves no block unheard.                 *)
LEMMA ToldStands ==
  ASSUME NEW p, NEW s, NEW w, NEW m, NEW r, NEW t, NEW v, NEW o,
         DOMAIN t = DOMAIN s, FinalStays(p, s, w, r, t, v, o),
         \A b \in DOMAIN s: t[b].counts = s[b].counts,
         \A b \in DOMAIN s: WorkOver(t, v, b) => WorkOver(s, w, b),
         Told(p, s, w, m, r)
  PROVE  Told(p, t, v, m, o)
  BY DEF Told, FinalStays

(* A worker sends a call for its block: PROCSSING when it begins with it,  *)
(* or PROCESSED with the final counts when it returns.                     *)
LEMMA Posts ==
  ASSUME NEW p, NEW s, NEW w, NEW m, NEW r, OneParty(s, w, m, r),
         NEW a \in DOMAIN w, w[a].block # 0, NEW v, v.block = w[a].block,
         NEW o, NEW st, NEW k,
         FinalStays(p, s, w, r, s, [w EXCEPT ![a] = v], o),
         IF st = "PROCESSED"
           THEN Final(p, s, [w EXCEPT ![a] = v], o, w[a].block, k)
           ELSE k = <<0, 0>> /\ v.pc \in Busy,
         Known(p, s, w, r), Said(p, s, w, m, r)
  PROVE  LET w2 == [w EXCEPT ![a] = v]
             m2 == [m EXCEPT ![a] = Append(@, <<w[a].block, Status(st, k)>>)]
         IN  /\ Known(p, s, w2, o) /\ Said(p, s, w2, m2, o)
             /\ Told(p, s, w, m, r) => Told(p, s, w2, m2, o)
<1> DEFINE e == w[a].block
           call == <<e, Status(st, k)>>
           q == Append(m[a], call)
           w2 == [w EXCEPT ![a] = v]
           m2 == [m EXCEPT ![a] = q]
<1>1. a \in DOMAIN m /\ DOMAIN m = DOMAIN w /\ m[a] \in Seq(Range(m[a]))
  BY DEF OneParty, Parts, Calls
<1>2. call[1] = e /\ call[2].st = st /\ call[2].counts = k
  BY DEF Status
<1>3. w[a].block = e
  OBVIOUS
<1>4. /\ DOMAIN q = 1..(Len(m[a]) + 1) /\ DOMAIN m[a] = 1..Len(m[a])
      /\ Len(m[a]) \in Nat
      /\ \A i \in 1..Len(m[a]): q[i] = m[a][i]
      /\ q[Len(m[a]) + 1] = call
  <2> HIDE DEF call
  <2> QED BY <1>1
<1>5. /\ DOMAIN w2 = DOMAIN w /\ w2[a] = v
      /\ \A c \in DOMAIN w \ {a}: w2[c] = w[c]
      /\ DOMAIN m2 = DOMAIN m /\ m2[a] = q
      /\ \A c \in DOMAIN m \ {a}: m2[c] = m[c]
  <2> HIDE DEF q
  <2> QED BY <1>1
<1>6. IF st = "PROCESSED" THEN Final(p, s, w2, o, e, k)
                          ELSE k = <<0, 0>> /\ v.pc \in Busy
  OBVIOUS
<1>7. FinalStays(p, s, w, r, s, w2, o)
  OBVIOUS
<1>8. \A c \in DOMAIN m: \A i \in DOMAIN m[c]: m[c][i][1] \in DOMAIN s
  BY DEF OneParty, Calls, ACall, Range
<1> HIDE DEF e, call, q, w2, m2
<1>9. Known(p, s, w2, o)
  BY <1>7 DEF Known, FinalStays
<1>10. Said(p, s, w2, m2, o)
  <2> SUFFICES ASSUME NEW c \in DOMAIN m, NEW i \in DOMAIN m2[c]
               PROVE  RightCall(p, s, w2, o, w2[c], m2[c], i)
    BY <1>5 DEF Said
  <2>1. CASE c # a
    <3>1. m2[c] = m[c] /\ w2[c] = w[c] /\ i \in DOMAIN m[c]
      BY <1>1, <1>5, <2>1
    <3>2. RightCall(p, s, w, r, w[c], m[c], i) /\ m[c][i][1] \in DOMAIN s
      BY <1>8, <3>1 DEF Said
    <3>3. CASE m[c][i][2].st = "PROCESSED"
      <4>1. Final(p, s, w2, o, m[c][i][1], m[c][i][2].counts)
        BY <1>7, <3>2, <3>3 DEF RightCall, FinalStays
      <4> QED BY <3>1, <3>3, <4>1 DEF RightCall
    <3>4. CASE m[c][i][2].st # "PROCESSED"
      BY <3>1, <3>2, <3>4 DEF RightCall
    <3> QED BY <3>3, <3>4
  <2>2. CASE c = a /\ i = Len(m[a]) + 1
    <3>1. m2[c] = q /\ q[i] = call /\ w2[c] = v
      BY <1>4, <1>5, <2>2
    <3>2. CASE st = "PROCESSED"
      BY <3>1, <3>2, <1>2, <1>6 DEF RightCall
    <3>3. CASE st # "PROCESSED"
      BY <3>1, <3>3, <1>2, <1>3, <1>6 DEF RightCall
    <3> QED BY <3>2, <3>3
  <2>3. CASE c = a /\ i # Len(m[a]) + 1
    <3>1. m2[c] = q /\ i \in DOMAIN m[a] /\ q[i] = m[a][i] /\ w2[c] = v
      BY <1>4, <1>5, <2>3
    <3>2. RightCall(p, s, w, r, w[a], m[a], i) /\ m[a][i][1] \in DOMAIN s
      BY <1>1, <1>8, <3>1 DEF Said
    <3>3. CASE m[a][i][2].st = "PROCESSED"
      <4>1. Final(p, s, w2, o, m[a][i][1], m[a][i][2].counts)
        BY <1>7, <3>2, <3>3 DEF RightCall, FinalStays
      <4> QED BY <3>1, <3>3, <4>1 DEF RightCall
    <3>4. CASE m[a][i][2].st # "PROCESSED"
      <4>1. m[a][i][2].counts = <<0, 0>>
        BY <3>2, <3>4 DEF RightCall
      <4>2. CASE \E j \in DOMAIN m[a]: j > i /\ Tells(m[a][j], m[a][i][1])
        <5>1. PICK j \in DOMAIN m[a]: j > i /\ Tells(m[a][j], m[a][i][1])
          BY <4>2
        <5>2. j \in DOMAIN q /\ q[j] = m[a][j]
          BY <1>4
        <5> QED BY <3>1, <3>4, <4>1, <5>1, <5>2 DEF RightCall
      <4>3. CASE w[a].block = m[a][i][1] /\ w[a].pc \in Busy
        <5>1. CASE st = "PROCESSED"
          <6>1. Tells(q[Len(m[a]) + 1], m[a][i][1])
            BY <1>2, <1>3, <1>4, <4>3, <5>1 DEF Tells
          <6>2. Len(m[a]) + 1 \in DOMAIN q /\ Len(m[a]) + 1 > i
            BY <1>4, <3>1
          <6> QED BY <3>1, <3>4, <4>1, <6>1, <6>2 DEF RightCall
        <5>2. CASE st # "PROCESSED"
          BY <1>3, <1>6, <3>1, <3>4, <4>1, <4>3, <5>2 DEF RightCall
        <5> QED BY <5>1, <5>2
      <4> QED BY <3>2, <3>4, <4>2, <4>3 DEF RightCall
    <3> QED BY <3>3, <3>4
  <2> QED BY <2>1, <2>2, <2>3
<1>11. ASSUME Told(p, s, w, m, r) PROVE Told(p, s, w2, m2, o)
  <2> SUFFICES ASSUME NEW b \in DOMAIN s, WorkOver(s, w2, b)
               PROVE  Final(p, s, w2, o, b, s[b].counts) \/ Coming(m2, b)
    BY DEF Told
  <2>1. CASE b = e
    <3>1. v.pc = "returned"
      BY <1>3, <1>5, <2>1 DEF WorkOver
    <3>2. st = "PROCESSED"
      BY <1>6, <3>1 DEF Busy
    <3>3. Tells(q[Len(m[a]) + 1], b) /\ Len(m[a]) + 1 \in DOMAIN q
      BY <1>2, <1>4, <2>1, <3>2 DEF Tells
    <3> QED BY <1>1, <1>5, <3>3 DEF Coming
  <2>2. CASE b # e
    <3>1. WorkOver(s, w, b)
      BY <1>3, <1>5, <2>2 DEF WorkOver
    <3>2. CASE Final(p, s, w, r, b, s[b].counts)
      BY <1>7, <3>2 DEF FinalStays
    <3>3. CASE Coming(m, b)
      <4>1. PICK c \in DOMAIN m: \E i \in DOMAIN m[c]: Tells(m[c][i], b)
        BY <3>3 DEF Coming
      <4>2. PICK i \in DOMAIN m[c]: Tells(m[c][i], b)
        BY <4>1
      <4>3. i \in DOMAIN m2[c] /\ m2[c][i] = m[c][i]
        BY <1>1, <1>4, <1>5
      <4> QED BY <1>5, <4>2, <4>3 DEF Coming
    <3> QED BY <1>11, <3>1, <3>2, <3>3 DEF Told
  <2> QED BY <2>1, <2>2
<1> QED
  BY <1>9, <1>10, <1>11 DEF w2, m2, q, call, e

(* A call on its way is for a block that has been handed out.              *)
LEMMA CallsBegun ==
  ASSUME NEW p, NEW s, NEW w, NEW m, NEW r, OneParty(s, w, m, r),
         Said(p, s, w, m, r), NEW a \in DOMAIN m, NEW i \in DOMAIN m[a]
  PROVE  s[m[a][i][1]].st # "INIT"
<1>1. RightCall(p, s, w, r, w[a], m[a], i) /\ a \in DOMAIN w
      /\ m[a][i][1] \in DOMAIN s /\ m[a][i][1] # 0
  BY DEF Said, OneParty, Parts, Calls, ACall, Range
<1>2. CASE m[a][i][2].st = "PROCESSED"
  BY <1>1, <1>2 DEF RightCall, Final
<1>3. CASE w[a].block = m[a][i][1]
  BY <1>1, <1>3 DEF OneParty, Once
<1>4. ASSUME NEW j \in DOMAIN m[a], Tells(m[a][j], m[a][i][1])
      PROVE  s[m[a][i][1]].st # "INIT"
  <2>1. RightCall(p, s, w, r, w[a], m[a], j)
    BY DEF Said
  <2> QED BY <1>4, <2>1 DEF RightCall, Final, Tells
<1> QED
  BY <1>1, <1>2, <1>3, <1>4 DEF RightCall

(* The dispatcher runs the next call of a worker.                          *)
LEMMA Delivers ==
  ASSUME NEW p, NEW s, NEW w, NEW m, NEW r, OneParty(s, w, m, r),
         NEW a \in DOMAIN w, m[a] # << >>,
         Known(p, s, w, r), Said(p, s, w, m, r)
  PROVE  LET s2 == [s EXCEPT ![Head(m[a])[1]] = Head(m[a])[2]]
             m2 == [m EXCEPT ![a] = Tail(@)]
         IN  /\ Known(p, s2, w, r) /\ Said(p, s2, w, m2, r)
             /\ Told(p, s, w, m, r) => Told(p, s2, w, m2, r)
             /\ DOMAIN s2 = DOMAIN s
             /\ \A b \in DOMAIN s: s2[b].st = "INIT" <=> s[b].st = "INIT"
<1> DEFINE call == m[a][1]
           e == call[1]
           q == Tail(m[a])
           s2 == [s EXCEPT ![e] = call[2]]
           m2 == [m EXCEPT ![a] = q]
<1>1. a \in DOMAIN m /\ DOMAIN m = DOMAIN w /\ m[a] \in Seq(Range(m[a]))
  BY DEF OneParty, Parts, Calls
<1>2. /\ DOMAIN m[a] = 1..Len(m[a]) /\ DOMAIN q = 1..(Len(m[a]) - 1)
      /\ Len(m[a]) \in Nat \ {0}
      /\ \A i \in DOMAIN q: q[i] = m[a][i + 1]
      /\ Head(m[a]) = call
  BY <1>1
<1>3. /\ \A i \in DOMAIN q: i + 1 \in DOMAIN m[a]
      /\ \A i \in DOMAIN m[a]: i # 1 => i - 1 \in DOMAIN q /\ q[i - 1] = m[a][i]
      /\ 1 \in DOMAIN m[a] /\ m[a][1] = call /\ call[1] = e
  <2>1. \A i \in DOMAIN m[a]: i # 1 => i - 1 \in DOMAIN q
    BY <1>2
  <2>2. \A i \in DOMAIN m[a]: i # 1 => q[i - 1] = m[a][(i - 1) + 1]
    BY <1>2, <2>1
  <2>3. \A i \in DOMAIN m[a]: (i - 1) + 1 = i
    BY <1>2
  <2> QED BY <1>2, <2>1, <2>2, <2>3
<1>4. e \in DOMAIN s /\ call[2].st # "INIT"
  BY <1>1, <1>3 DEF OneParty, Calls, ACall, Range
<1>5. s[e].st # "INIT"
  BY <1>1, <1>3, CallsBegun
<1>6. RightCall(p, s, w, r, w[a], m[a], 1)
  BY <1>1, <1>3 DEF Said
<1> HIDE DEF call, e, q
<1>7. /\ DOMAIN s2 = DOMAIN s /\ s2[e] = call[2]
      /\ \A c \in DOMAIN s \ {e}: s2[c] = s[c]
      /\ DOMAIN m2 = DOMAIN m /\ m2[a] = q
      /\ \A c \in DOMAIN m \ {a}: m2[c] = m[c]
  BY <1>1, <1>4
<1> HIDE DEF s2, m2
<1>8. \A b \in DOMAIN s: s2[b].st = "INIT" <=> s[b].st = "INIT"
  BY <1>4, <1>5, <1>7
<1>9. \A b \in DOMAIN s: \A k: Final(p, s, w, r, b, k) => Final(p, s2, w, r, b, k)
  BY <1>8 DEF Final
<1>10. Known(p, s2, w, r)
  <2> SUFFICES ASSUME NEW b \in DOMAIN s
               PROVE  s2[b].counts = <<0, 0>> \/ Final(p, s2, w, r, b, s2[b].counts)
    BY <1>7 DEF Known
  <2>1. CASE b = e
    <3>1. CASE call[2].st = "PROCESSED"
      BY <1>3, <1>4, <1>6, <1>7, <1>9, <2>1, <3>1 DEF RightCall
    <3>2. CASE call[2].st # "PROCESSED"
      BY <1>3, <1>6, <1>7, <2>1, <3>2 DEF RightCall
    <3> QED BY <3>1, <3>2
  <2>2. CASE b # e
    BY <1>7, <1>9, <2>2 DEF Known
  <2> QED BY <2>1, <2>2
<1>11. \A c \in DOMAIN m: \A i \in DOMAIN m[c]: m[c][i][1] \in DOMAIN s
  BY DEF OneParty, Calls, ACall, Range
<1>12. Said(p, s2, w, m2, r)
  <2> SUFFICES ASSUME NEW c \in DOMAIN m, NEW i \in DOMAIN m2[c]
               PROVE  RightCall(p, s2, w, r, w[c], m2[c], i)
    BY <1>7 DEF Said
  <2>1. CASE c # a
    <3>1. m2[c] = m[c] /\ i \in DOMAIN m[c]
      BY <1>7, <2>1
    <3>2. RightCall(p, s, w, r, w[c], m[c], i) /\ m[c][i][1] \in DOMAIN s
      BY <1>11, <3>1 DEF Said
    <3>3. CASE m[c][i][2].st = "PROCESSED"
      BY <1>9, <3>1, <3>2, <3>3 DEF RightCall
    <3>4. CASE m[c][i][2].st # "PROCESSED"
      BY <3>1, <3>2, <3>4 DEF RightCall
    <3> QED BY <3>3, <3>4
  <2>2. CASE c = a
    <3>1. m2[c] = q /\ i \in DOMAIN q /\ i + 1 \in DOMAIN m[a] /\ q[i] = m[a][i + 1]
      BY <1>2, <1>3, <1>7, <2>2
    <3>2. RightCall(p, s, w, r, w[a], m[a], i + 1) /\ m[a][i + 1][1] \in DOMAIN s
      BY <1>1, <1>11, <3>1 DEF Said
    <3>3. CASE q[i][2].st = "PROCESSED"
      BY <1>9, <2>2, <3>1, <3>2, <3>3 DEF RightCall
    <3>4. CASE q[i][2].st # "PROCESSED"
      <4>1. q[i][2].counts = <<0, 0>>
        BY <3>1, <3>2, <3>4 DEF RightCall
      <4>2. CASE \E j \in DOMAIN m[a]: j > i + 1 /\ Tells(m[a][j], q[i][1])
        <5>1. PICK j \in DOMAIN m[a]: j > i + 1 /\ Tells(m[a][j], q[i][1])
          BY <4>2
        <5>2. j # 1 /\ j - 1 > i
          BY <1>2, <3>1, <5>1
        <5>3. j - 1 \in DOMAIN q /\ Tells(q[j - 1], q[i][1])
          BY <1>3, <5>1, <5>2
        <5> QED BY <2>2, <3>1, <3>4, <4>1, <5>2, <5>3 DEF RightCall
      <4>3. CASE w[a].block = q[i][1] /\ w[a].pc \in Busy
        BY <2>2, <3>1, <3>4, <4>1, <4>3 DEF RightCall
      <4> QED BY <3>1, <3>2, <3>4, <4>2, <4>3 DEF RightCall
    <3> QED BY <3>3, <3>4
  <2> QED BY <2>1, <2>2
<1>13. ASSUME Told(p, s, w, m, r) PROVE Told(p, s2, w, m2, r)
  <2> SUFFICES ASSUME NEW b \in DOMAIN s, WorkOver(s2, w, b)
               PROVE  Final(p, s2, w, r, b, s2[b].counts) \/ Coming(m2, b)
    BY <1>7 DEF Told
  <2>1. WorkOver(s, w, b)
    BY <1>8 DEF WorkOver
  <2>2. ASSUME NEW j \in DOMAIN m[a], j # 1, Tells(m[a][j], b)
        PROVE  Coming(m2, b)
    <3>1. j - 1 \in DOMAIN q /\ Tells(q[j - 1], b)
      BY <1>3, <2>2
    <3> QED BY <1>1, <1>7, <3>1 DEF Coming
  <2>3. CASE b = e /\ call[2].st = "PROCESSED"
    BY <1>3, <1>4, <1>6, <1>7, <1>9, <2>3 DEF RightCall
  <2>4. CASE b = e /\ call[2].st # "PROCESSED"
    <3>1. ~(w[a].block = b /\ w[a].pc \in Busy)
      BY <2>1 DEF WorkOver, Busy
    <3>2. PICK j \in DOMAIN m[a]: j > 1 /\ Tells(m[a][j], b)
      BY <1>3, <1>6, <2>4, <3>1 DEF RightCall
    <3>3. j # 1
      BY <3>2, <1>2
    <3> QED BY <2>2, <3>2, <3>3
  <2>5. CASE b # e
    <3>1. CASE Final(p, s, w, r, b, s[b].counts)
      BY <1>7, <1>9, <2>5, <3>1
    <3>2. CASE Coming(m, b)
      <4>1. PICK c \in DOMAIN m: \E i \in DOMAIN m[c]: Tells(m[c][i], b)
        BY <3>2 DEF Coming
      <4>2. PICK i \in DOMAIN m[c]: Tells(m[c][i], b)
        BY <4>1
      <4>3. CASE c # a
        BY <1>7, <4>2, <4>3 DEF Coming
      <4>4. CASE c = a
        <5>1. i # 1
          BY <1>3, <2>5, <4>2, <4>4 DEF Tells
        <5> QED BY <2>2, <4>2, <4>4, <5>1
      <4> QED BY <4>3, <4>4
    <3> QED BY <1>13, <2>1, <3>1, <3>2 DEF Told
  <2> QED BY <2>3, <2>4, <2>5
<1> QED
  BY <1>2, <1>7, <1>8, <1>10, <1>12, <1>13 DEF s2, m2, q, e

(* The blocks that are out after a step were out, or are joined by it.     *)
OutBy(p, ok, s, w, r, t, v, o) ==
  \A b \in DOMAIN s:
    (t[b].st # "INIT" /\ Free(v, b) /\ ok) =>
      \/ s[b].st # "INIT" /\ Free(w, b) /\ o[b] = r[b]
      \/ Joins(p, b, o[b])

(* The output of the other workers' blocks stays.                          *)
OthersKept(w, a, r, o) ==
  \A c \in DOMAIN w \ {a}: w[c].pc = "returned" => o[w[c].block] = r[w[c].block]

(* A worker changes, with or without its block, and the rest of what has   *)
(* been made stands.                                                       *)
LEMMA MadeStands ==
  ASSUME NEW p, NEW ok, NEW ok2, NEW s, NEW w, NEW r, NEW t, NEW o,
         Made(p, ok, s, w, r), ok2 => ok, DOMAIN t = DOMAIN s,
         NEW a \in DOMAIN w, NEW v, MadeBy(p, ok2, v, o),
         OthersKept(w, a, r, o), OutBy(p, ok2, s, w, r, t, [w EXCEPT ![a] = v], o)
  PROVE  Made(p, ok2, t, [w EXCEPT ![a] = v], o)
<1> DEFINE w2 == [w EXCEPT ![a] = v]
<1>1. /\ DOMAIN w2 = DOMAIN w /\ w2[a] = v
      /\ \A c \in DOMAIN w \ {a}: w2[c] = w[c]
  OBVIOUS
<1>2. OutBy(p, ok2, s, w, r, t, w2, o)
  OBVIOUS
<1> HIDE DEF w2
<1>3. ASSUME NEW c \in DOMAIN w PROVE MadeBy(p, ok2, w2[c], o)
  <2>1. CASE c = a
    BY <1>1, <2>1
  <2>2. CASE c # a
    <3>1. MadeBy(p, ok, w[c], r) /\ w2[c] = w[c]
      BY <1>1, <2>2 DEF Made
    <3> QED BY <2>2, <3>1 DEF MadeBy, OthersKept
  <2> QED BY <2>1, <2>2
<1>4. ASSUME NEW b \in DOMAIN s, t[b].st # "INIT", Free(w2, b), ok2
      PROVE  Joins(p, b, o[b])
  BY <1>2, <1>4 DEF Made, OutBy
<1> QED
  BY <1>1, <1>3, <1>4 DEF Made, w2

(* A worker goes on with its block, and its output may go to the block's.  *)
LEMMA MadeMoved ==
  ASSUME NEW p, NEW ok, NEW ok2, NEW s, NEW w, NEW m, NEW r, OneParty(s, w, m, r),
         Made(p, ok, s, w, r), ok2 => ok,
         NEW a \in DOMAIN w, w[a].block # 0,
         NEW v, v.block = w[a].block, NEW o, MadeBy(p, ok2, v, o),
         \A b \in DOMAIN s: b # w[a].block => o[b] = r[b]
  PROVE  Made(p, ok2, s, [w EXCEPT ![a] = v], o)
<1>1. OthersKept(w, a, r, o)
  <2> SUFFICES ASSUME NEW c \in DOMAIN w \ {a}, w[c].pc = "returned"
               PROVE  o[w[c].block] = r[w[c].block]
    BY DEF OthersKept
  <2>1. w[c].block \in DOMAIN s
    BY DEF OneParty, Parts, AWorker
  <2>2. w[c].block # w[a].block
    BY DEF OneParty, Once
  <2> QED BY <2>1, <2>2
<1> DEFINE w2 == [w EXCEPT ![a] = v]
<1>2. ASSUME NEW b \in DOMAIN s, Free(w2, b)
      PROVE  Free(w, b) /\ o[b] = r[b]
  <2>1. /\ DOMAIN w2 = DOMAIN w /\ \A c \in DOMAIN w: w2[c].block = w[c].block
    OBVIOUS
  <2> HIDE DEF w2
  <2>2. Free(w, b)
    BY <1>2, <2>1 DEF Free
  <2> QED BY <2>2 DEF Free
<1>3. OutBy(p, ok2, s, w, r, s, w2, o)
  <2> HIDE DEF w2
  <2> QED BY <1>2 DEF OutBy
<1> QED
  BY <1>1, <1>3, MadeStands

(* A worker is collected: the output of its block is now the one it made,  *)
(* and it gets a block that was INIT or none.                              *)
LEMMA MadeCollected ==
  ASSUME NEW p, NEW ok, NEW s, NEW w, NEW m, NEW r, OneParty(s, w, m, r),
         Made(p, ok, s, w, r), NEW a \in DOMAIN w, w[a].pc = "returned",
         NEW v, v.out = << >>, v.pc \in {"read", "idle"},
         v.pc = "idle" => v.block = 0,
         NEW t, DOMAIN t = DOMAIN s,
         \A b \in DOMAIN s: b # v.block => (t[b].st = "INIT" <=> s[b].st = "INIT"),
         NEW o, o[w[a].block] = w[a].out,
         \A b \in DOMAIN s: b # w[a].block => o[b] = r[b]
  PROVE  Made(p, ok, t, [w EXCEPT ![a] = v], o)
<1>1. w[a].block \in DOMAIN s /\ w[a].block # 0 /\ MadeBy(p, ok, w[a], r)
  BY DEF OneParty, Parts, AWorker, Made
<1>2. MadeBy(p, ok, v, o)
  BY DEF MadeBy
<1>3. OthersKept(w, a, r, o)
  <2> SUFFICES ASSUME NEW c \in DOMAIN w \ {a}, w[c].pc = "returned"
               PROVE  o[w[c].block] = r[w[c].block]
    BY DEF OthersKept
  <2>1. w[c].block \in DOMAIN s
    BY DEF OneParty, Parts, AWorker
  <2>2. w[c].block # w[a].block
    BY <1>1 DEF OneParty, Once
  <2> QED BY <2>1, <2>2
<1> DEFINE w2 == [w EXCEPT ![a] = v]
<1>4. ASSUME NEW b \in DOMAIN s, t[b].st # "INIT", Free(w2, b), ok
      PROVE  \/ s[b].st # "INIT" /\ Free(w, b) /\ o[b] = r[b]
             \/ Joins(p, b, o[b])
  <2>1. /\ DOMAIN w2 = DOMAIN w /\ w2[a] = v
        /\ \A c \in DOMAIN w \ {a}: w2[c] = w[c]
    OBVIOUS
  <2> HIDE DEF w2
  <2>2. b # v.block
    BY <1>4, <2>1 DEF Free
  <2>3. CASE b = w[a].block
    BY <1>1, <1>4, <2>3 DEF MadeBy
  <2>4. CASE b # w[a].block
    <3>1. Free(w, b)
      BY <1>4, <2>1, <2>4 DEF Free
    <3> QED BY <1>4, <2>2, <2>4, <3>1
  <2> QED BY <2>3, <2>4
<1>5. OutBy(p, ok, s, w, r, t, w2, o)
  <2> HIDE DEF w2
  <2> QED BY <1>4 DEF OutBy
<1> QED
  BY <1>2, <1>3, <1>5, MadeStands

(* At the start of its loop a party has made nothing, and a block it has   *)
(* handed out is with a worker.                                            *)
LEMMA MadeFirst ==
  ASSUME NEW p, NEW ok, NEW n \in Nat, NEW k \in Int, k <= n
  PROVE  LET s == [b \in 1..n |->
                     Status(IF b <= k THEN "PREPARED" ELSE "INIT", <<0, 0>>)]
             w == [a \in 1..k |-> Take(a)]
             m == [a \in 1..k |-> << >>]
             r == [b \in 1..n |-> << >>]
         IN  /\ Made(p, ok, s, w, r) /\ Known(p, s, w, r)
             /\ Said(p, s, w, m, r) /\ Told(p, s, w, m, r)
<1> DEFINE s == [b \in 1..n |->
                   Status(IF b <= k THEN "PREPARED" ELSE "INIT", <<0, 0>>)]
           w == [a \in 1..k |-> Take(a)]
           m == [a \in 1..k |-> << >>]
           r == [b \in 1..n |-> << >>]
<1>1. /\ DOMAIN s = 1..n /\ DOMAIN w = 1..k /\ DOMAIN m = 1..k
      /\ \A a \in 1..k: m[a] = << >>
  OBVIOUS
<1>2. \A b \in 1..n: s[b].counts = <<0, 0>> /\ (s[b].st # "INIT" => b <= k)
  BY DEF Status
<1>3. \A a \in 1..k: w[a].block = a /\ w[a].pc = "read" /\ w[a].out = << >>
  BY DEF Take
<1> HIDE DEF s, w, m, r
<1>4. \A b \in 1..n: s[b].st # "INIT" => b \in 1..k
  BY <1>2
<1>5. \A b \in 1..n: s[b].st # "INIT" => ~Free(w, b) /\ ~WorkOver(s, w, b)
  BY <1>1, <1>3, <1>4 DEF Free, WorkOver
<1>6. ASSUME NEW a \in 1..k PROVE MadeBy(p, ok, w[a], r)
  <2>1. w[a].out = << >> /\ w[a].pc = "read"
    BY <1>3
  <2>2. w[a].out \in Seq(Ids)
    BY <2>1
  <2> QED BY <2>1, <2>2 DEF MadeBy
<1>7. Made(p, ok, s, w, r)
  BY <1>1, <1>5, <1>6 DEF Made
<1>8. Known(p, s, w, r)
  BY <1>1, <1>2 DEF Known
<1>9. Said(p, s, w, m, r)
  BY <1>1 DEF Said
<1>10. Told(p, s, w, m, r)
  BY <1>1, <1>5 DEF Told, WorkOver
<1> QED
  BY <1>7, <1>8, <1>9, <1>10 DEF s, w, m, r

-----------------------------------------------------------------------------
(* What the invariant says of one party besides Dispatched.                *)
Rest(p) == /\ Phase(p)
           /\ Active(p) => Outcome(p) /\ Counted(p)
           /\ (Active(p) /\ driver[p] # "reported") => Heard(p)

(* A step that leaves a party alone keeps what is said of it.              *)
LEMMA Frame ==
  ASSUME NEW q \in Party, Rest(q), conf' = conf, cut' = cut,
         driver'[q] = driver[q], status'[q] = status[q],
         worker'[q] = worker[q], mail'[q] = mail[q], refs'[q] = refs[q]
  PROVE  Rest(q)'
<1>1. Phase(q)'
  BY DEF Rest, Phase, Active, Unprocessed
<1>2. /\ Outcome(q)' <=> Outcome(q)
      /\ Counted(q)' <=> Counted(q)
      /\ Heard(q)' <=> Heard(q)
  BY MadeIs, MadeNext
<1>3. Active(q)' <=> Active(q)
  BY DEF Active
<1> QED
  BY <1>1, <1>2, <1>3 DEF Rest

(* A step of one party preserves the invariant if it does so for it.       *)
LEMMA OneRest ==
  ASSUME IInv, Dispatched', NEW p \in Party, Others(p), conf' = conf, cut' = cut,
         \A q \in Party \ {p}: driver'[q] = driver[q], Rest(p)'
  PROVE  IInv'
<1>1. ASSUME NEW q \in Party PROVE Rest(q)'
  <2>1. CASE q = p
    BY <2>1
  <2>2. CASE q # p
    <3>1. Rest(q)
      BY DEF IInv, Rest
    <3> QED BY <2>2, <3>1, Frame DEF Others
  <2> QED BY <2>1, <2>2
<1> QED
  BY <1>1 DEF IInv, Rest

(* A worker that is not idle belongs to a job in its loop.                 *)
LEMMA Working ==
  ASSUME IInv, NEW p \in Party, NEW a \in DOMAIN worker[p],
         worker[p][a].pc # "idle"
  PROVE  /\ worker[p][a].block \in DOMAIN status[p] /\ worker[p][a].block # 0
         /\ driver[p] = "running" /\ Active(p)
         /\ OneOf(p) /\ Rest(p)
         /\ Made(p, ~cut, status[p], worker[p], refs[p])
         /\ Known(p, status[p], worker[p], refs[p])
         /\ Said(p, status[p], worker[p], mail[p], refs[p])
         /\ Told(p, status[p], worker[p], mail[p], refs[p])
<1>1. OneOf(p) /\ Rest(p)
  BY Split DEF IInv, Rest
<1>2. worker[p][a].block \in DOMAIN status[p] /\ worker[p][a].block # 0
  BY <1>1 DEF OneOf, OneParty, Parts, AWorker
<1>3. driver[p] = "running"
  BY <1>1, <1>2 DEF Rest, Phase
<1>4. Active(p)
  BY <1>3 DEF Active
<1>5. Outcome(p) /\ Counted(p) /\ Heard(p)
  BY <1>1, <1>3, <1>4 DEF Rest
<1> QED
  BY <1>1, <1>2, <1>3, <1>4, <1>5, MadeIs

(* A worker goes on with its block and its party stays as it is said to    *)
(* be: the worker joins the block, raises or hangs.                        *)
LEMMA GoesOn ==
  ASSUME IInv, NEW p \in Party, NEW a \in DOMAIN worker[p],
         worker[p][a].pc \in {"psi", "write"},
         NEW v, v.block = worker[p][a].block, v.pc \in {"write", "raised", "hung"},
         MadeBy(p, ~cut', v, refs[p]), cut => cut', cut \in BOOLEAN, cut' \in BOOLEAN,
         conf' = conf, driver' = driver, status'[p] = status[p],
         mail'[p] = mail[p], refs'[p] = refs[p],
         worker'[p] = [worker[p] EXCEPT ![a] = v]
  PROVE  Rest(p)'
<1> DEFINE s == status[p]
           w == worker[p]
           m == mail[p]
           r == refs[p]
           w2 == [w EXCEPT ![a] = v]
<1>1. w[a].pc \in {"psi", "write"} /\ v.block = w[a].block /\ a \in DOMAIN w
      /\ MadeBy(p, ~cut', v, r)
  OBVIOUS
<1>2. /\ w[a].block \in DOMAIN s /\ w[a].block # 0 /\ driver[p] = "running"
      /\ OneParty(s, w, m, r) /\ Rest(p) /\ Made(p, ~cut, s, w, r)
      /\ Known(p, s, w, r) /\ Said(p, s, w, m, r) /\ Told(p, s, w, m, r)
  BY Working DEF OneOf
<1>3. status'[p] = s /\ worker'[p] = w2 /\ mail'[p] = m /\ refs'[p] = r
  OBVIOUS
<1>4. Phase(p)'
  BY <1>2 DEF Rest, Phase, Active, Unprocessed
<1>5. /\ DOMAIN w2 = DOMAIN w /\ w2[a] = v
      /\ \A c \in DOMAIN w \ {a}: w2[c] = w[c]
  OBVIOUS
<1> HIDE DEF s, w, m, r
<1>6. FinalStays(p, s, w, r, s, w2, r)
  BY <1>1, FinalMoved
<1>7. Made(p, ~cut', s, w2, r)
  <2>1. ~cut' => ~cut
    OBVIOUS
  <2> DEFINE ok == ~cut
             ok2 == ~cut'
  <2>2. ok2 => ok
    BY <2>1
  <2>3. Made(p, ok, s, w, r) /\ MadeBy(p, ok2, v, r)
    BY <1>1, <1>2
  <2> HIDE DEF ok, ok2
  <2>4. Made(p, ok2, s, w2, r)
    BY <1>1, <1>2, <2>2, <2>3, MadeMoved
  <2> QED BY <2>4 DEF ok2
<1> HIDE DEF w2
<1>8. Known(p, s, w2, r) /\ Said(p, s, w2, m, r)
  <2>1. \A c \in DOMAIN w: w[c].pc \in Busy =>
          w2[c].pc \in Busy /\ w2[c].block = w[c].block
    BY <1>1, <1>5 DEF Busy
  <2>2. Calls(s, m) /\ DOMAIN m = DOMAIN w
    BY <1>2 DEF OneParty, Parts
  <2> QED BY <1>2, <1>6, <2>1, <2>2, CallsStand
<1>9. Told(p, s, w2, m, r)
  <2>1. \A b \in DOMAIN s: WorkOver(s, w2, b) => WorkOver(s, w, b)
    BY <1>1, <1>5 DEF WorkOver
  <2> QED BY <1>2, <1>6, <2>1, ToldStands
<1> QED
  BY <1>3, <1>4, <1>7, <1>8, <1>9, MadeNext DEF Rest

(* A worker that finds no peer raises.                                     *)
LEMMA TimeoutRest ==
  ASSUME IInv, NEW p \in Party, NEW a \in DOMAIN worker[p], Timeout(p, a)
  PROVE  IInv'
<1> DEFINE v == [worker[p][a] EXCEPT !.pc = "raised"]
<1>1. Dispatched /\ Globals /\ Indexed /\ worker[p][a].pc = "psi"
  BY Split DEF IInv, Timeout
<1>2. OneOf(p) /\ Made(p, ~cut, status[p], worker[p], refs[p])
  BY <1>1, Working
<1>3. DOMAIN worker[p][a] = {"pc", "block", "out"}
  BY <1>2 DEF OneOf, OneParty, Parts, AWorker
<1>4. v.block = worker[p][a].block /\ v.pc = "raised" /\ v.out = worker[p][a].out
  BY <1>3
<1>5. /\ worker'[p] = [worker[p] EXCEPT ![a] = v]
      /\ status' = status /\ refs' = refs /\ mail' = mail /\ driver' = driver
      /\ conf' = conf /\ cut' = cut /\ Others(p)
  BY <1>1 DEF Timeout, Indexed, Others
<1> HIDE DEF v
<1>6. MadeBy(p, ~cut', v, refs[p])
  BY <1>2, <1>4 DEF Made, MadeBy
<1>7. Rest(p)'
  BY <1>1, <1>4, <1>5, <1>6, GoesOn DEF Globals
<1> QED
  BY <1>1, <1>5, <1>7, OneRest, TimeoutStep

(* A worker that cannot register or cannot write raises.                   *)
LEMMA WorkerFailsRest ==
  ASSUME IInv, NEW p \in Party, NEW a \in DOMAIN worker[p], WorkerFails(p, a)
  PROVE  IInv'
<1> DEFINE v == [worker[p][a] EXCEPT !.pc = "raised"]
<1>1. Dispatched /\ Globals /\ Indexed /\ worker[p][a].pc \in {"psi", "write"}
  BY Split DEF IInv, WorkerFails
<1>2. OneOf(p) /\ Made(p, ~cut, status[p], worker[p], refs[p])
  BY <1>1, Working
<1>3. DOMAIN worker[p][a] = {"pc", "block", "out"}
  BY <1>2 DEF OneOf, OneParty, Parts, AWorker
<1>4. v.block = worker[p][a].block /\ v.pc = "raised" /\ v.out = worker[p][a].out
  BY <1>3
<1>5. /\ worker'[p] = [worker[p] EXCEPT ![a] = v]
      /\ status' = status /\ refs' = refs /\ mail' = mail /\ driver' = driver
      /\ conf' = conf /\ cut' = cut /\ Others(p)
  BY <1>1 DEF WorkerFails, Indexed, Others
<1> HIDE DEF v
<1>6. MadeBy(p, ~cut', v, refs[p])
  BY <1>2, <1>4 DEF Made, MadeBy
<1>7. Rest(p)'
  BY <1>1, <1>4, <1>5, <1>6, GoesOn DEF Globals
<1> QED
  BY <1>1, <1>5, <1>7, OneRest, WorkerFailsStep

(* A worker begins with its block.                                         *)
LEMMA ReadBlockRest ==
  ASSUME IInv, NEW p \in Party, NEW a \in DOMAIN worker[p], ReadBlock(p, a)
  PROVE  IInv'
<1> DEFINE x == IF conf[p].mode = "psi" /\ GetsTable(p, worker[p][a].block)
                  THEN "psi" ELSE "raised"
           v == [worker[p][a] EXCEPT !.pc = x]
           s == status[p]
           w == worker[p]
           m == mail[p]
           r == refs[p]
           w2 == [w EXCEPT ![a] = v]
           m2 == [m EXCEPT ![a] = Append(@, <<w[a].block, Status("PROCSSING", <<0, 0>>)>>)]
<1>1. Dispatched /\ Globals /\ Indexed /\ worker[p][a].pc = "read"
  BY Split DEF IInv, ReadBlock
<1>2. /\ w[a].block \in DOMAIN s /\ w[a].block # 0 /\ driver[p] = "running"
      /\ OneParty(s, w, m, r) /\ Rest(p) /\ Made(p, ~cut, s, w, r)
      /\ Known(p, s, w, r) /\ Said(p, s, w, m, r) /\ Told(p, s, w, m, r)
  BY <1>1, Working DEF OneOf
<1>3. DOMAIN w[a] = {"pc", "block", "out"}
  BY <1>2 DEF OneParty, Parts, AWorker
<1>4. v.block = w[a].block /\ v.pc = x /\ v.out = w[a].out /\ x \in {"psi", "raised"}
  BY <1>3
<1>5. /\ worker'[p] = w2 /\ mail'[p] = m2
      /\ status' = status /\ refs' = refs /\ driver' = driver
      /\ conf' = conf /\ cut' = cut /\ Others(p)
  BY <1>1 DEF ReadBlock, Post, Indexed, Others, history
<1>6. Phase(p)'
  BY <1>2, <1>5 DEF Rest, Phase, Active, Unprocessed
<1>7. a \in DOMAIN w /\ w[a].pc = "read" /\ status'[p] = s /\ refs'[p] = r
  BY <1>1, <1>5
<1> HIDE DEF x, v, s, w, m, r
<1>8. MadeBy(p, ~cut, v, r)
  BY <1>2, <1>4, <1>7 DEF Made, MadeBy
<1>9. FinalStays(p, s, w, r, s, w2, r)
  BY <1>4, <1>7, FinalMoved
<1>10. Made(p, ~cut, s, w2, r)
  <2> DEFINE ok == ~cut
  <2>1. Made(p, ok, s, w, r) /\ MadeBy(p, ok, v, r)
    BY <1>2, <1>8
  <2> HIDE DEF ok
  <2>2. Made(p, ok, s, w2, r)
    BY <1>2, <1>4, <1>7, <2>1, MadeMoved
  <2> QED BY <2>2 DEF ok
<1>11. /\ Known(p, s, w2, r) /\ Said(p, s, w2, m2, r)
       /\ Told(p, s, w2, m2, r)
  <2>1. v.pc \in Busy
    BY <1>4 DEF Busy
  <2> QED BY <1>2, <1>4, <1>7, <1>9, <2>1, Posts
<1>12. Rest(p)'
  <2> HIDE DEF w2, m2
  <2> QED BY <1>5, <1>6, <1>7, <1>10, <1>11, MadeNext DEF Rest
<1> QED
  BY <1>1, <1>5, <1>12, OneRest, ReadBlockStep

(* A worker writes its block and returns, or raises.                       *)
LEMMA WriteBlockRest ==
  ASSUME IInv, NEW p \in Party, NEW a \in DOMAIN worker[p], WriteBlock(p, a)
  PROVE  IInv'
<1> DEFINE s == status[p]
           w == worker[p]
           m == mail[p]
           r == refs[p]
           e == w[a].block
<1>1. Dispatched /\ Globals /\ Indexed /\ worker[p][a].pc = "write"
  BY Split DEF IInv, WriteBlock
<1>2. /\ w[a].block \in DOMAIN s /\ w[a].block # 0 /\ driver[p] = "running"
      /\ OneParty(s, w, m, r) /\ Rest(p) /\ Made(p, ~cut, s, w, r) /\ Active(p)
      /\ Known(p, s, w, r) /\ Said(p, s, w, m, r) /\ Told(p, s, w, m, r)
  BY <1>1, Working DEF OneOf
<1>3. DOMAIN w[a] = {"pc", "block", "out"} /\ MadeBy(p, ~cut, w[a], r)
  BY <1>2 DEF OneParty, Parts, AWorker, Made
<1>4. status' = status /\ driver' = driver /\ conf' = conf /\ cut' = cut
  BY DEF WriteBlock, history
<1>5. CASE ~CanDropHash(p, a)
  <2> DEFINE v == [worker[p][a] EXCEPT !.pc = "raised"]
  <2>1. /\ worker'[p] = [worker[p] EXCEPT ![a] = v]
        /\ refs' = refs /\ mail' = mail /\ Others(p)
    BY <1>1, <1>5 DEF WriteBlock, Indexed, Others
  <2>2. v.block = worker[p][a].block /\ v.pc = "raised" /\ v.out = worker[p][a].out
    BY <1>3
  <2> HIDE DEF v
  <2>3. MadeBy(p, ~cut', v, refs[p])
    BY <1>3, <1>4, <2>2 DEF MadeBy
  <2>4. Rest(p)'
    BY <1>1, <1>4, <2>1, <2>2, <2>3, GoesOn DEF Globals
  <2> QED
    BY <1>1, <1>4, <2>1, <2>4, OneRest, WriteBlockStep
<1>6. CASE CanDropHash(p, a)
  <2> DEFINE v == [worker[p][a] EXCEPT !.pc = "returned"]
             k == CountValues(p, a)
             w2 == [w EXCEPT ![a] = v]
             m2 == [m EXCEPT ![a] = Append(@, <<w[a].block, Status("PROCESSED", k)>>)]
             o == IF conf[p].file THEN r ELSE [r EXCEPT ![e] = w[a].out]
  <2>1. /\ worker'[p] = w2 /\ mail'[p] = m2 /\ refs'[p] = o /\ Others(p)
    BY <1>1, <1>6 DEF WriteBlock, WritePart, Post, Indexed, Others
  <2>2. v.block = e /\ v.pc = "returned" /\ v.out = w[a].out
    BY <1>3
  <2>3. k = <<BlockLen(p, e), Len(v.out)>>
    BY <2>2 DEF CountValues, MyBlock, BlockLen
  <2>4. /\ DOMAIN r = DOMAIN s /\ e \in DOMAIN s /\ e # 0 /\ s[e].st # "INIT"
        /\ \A c \in DOMAIN w \ {a}: w[c].block # e
    BY <1>2 DEF OneParty, Parts, Once
  <2>5. r \in Seq(Seq(Ids)) /\ w[a].out \in Seq(Ids)
    BY <1>2, <1>3 DEF Rest, Phase, MadeBy
  <2>6. o \in Seq(Seq(Ids))
    BY <2>4, <2>5
  <2>7. /\ ~conf[p].file => o[e] = w[a].out
        /\ \A b \in DOMAIN s: b # e => o[b] = r[b]
    BY <2>4
  <2>8. Phase(p)'
    BY <1>2, <1>4, <2>1, <2>6 DEF Rest, Phase, Active, Unprocessed
  <2>9. w[a].block = e /\ a \in DOMAIN w /\ w[a].pc = "write" /\ status'[p] = s
    BY <1>1, <1>4
  <2> HIDE DEF v, k, o, s, w, m, r, e
  <2>10. MadeBy(p, ~cut, v, o)
    BY <1>3, <2>2, <2>7, <2>9 DEF MadeBy
  <2>11. FinalStays(p, s, w, r, s, w2, o)
    BY <2>2, <2>7, <2>9, FinalMoved
  <2>12. Made(p, ~cut, s, w2, o)
    <3> DEFINE ok == ~cut
    <3>1. Made(p, ok, s, w, r) /\ MadeBy(p, ok, v, o)
      BY <1>2, <2>10
    <3> HIDE DEF ok
    <3>2. /\ v.block = w[a].block /\ w[a].block # 0 /\ a \in DOMAIN w
          /\ \A b \in DOMAIN s: b # w[a].block => o[b] = r[b]
          /\ OneParty(s, w, m, r)
      BY <1>2, <2>2, <2>7, <2>9
    <3>3. Made(p, ok, s, w2, o)
      BY <3>1, <3>2, MadeMoved
    <3> QED BY <3>3 DEF ok
  <2>13. Final(p, s, w2, o, e, k)
    <3>1. /\ DOMAIN w2 = DOMAIN w /\ w2[a] = v
          /\ \A c \in DOMAIN w \ {a}: w2[c] = w[c]
      BY <2>9
    <3> HIDE DEF w2
    <3>2. \A c \in DOMAIN w2: w2[c].block = e => c = a
      BY <2>4, <3>1
    <3>3. ~Free(w2, e)
      BY <2>2, <2>9, <3>1 DEF Free
    <3>4. \A c \in DOMAIN w2: w2[c].block = e =>
            w2[c].pc = "returned" /\ k = <<BlockLen(p, e), Len(w2[c].out)>>
      BY <2>2, <2>3, <3>1, <3>2
    <3> QED BY <2>4, <3>3, <3>4 DEF Final
  <2>14. /\ Known(p, s, w2, o) /\ Said(p, s, w2, m2, o)
         /\ Told(p, s, w2, m2, o)
    BY <1>2, <2>2, <2>9, <2>11, <2>13, Posts
  <2>15. Rest(p)'
    <3> HIDE DEF w2, m2
    <3> QED BY <1>4, <2>1, <2>8, <2>9, <2>12, <2>14, MadeNext DEF Rest
  <2> QED
    BY <1>1, <1>4, <2>1, <2>15, OneRest, WriteBlockStep
<1> QED
  BY <1>5, <1>6

(* A table of statuses with one replaced is one of the same length.        *)
LEMMA StatusTable ==
  ASSUME NEW s, s \in Seq(Range(s)), NEW b \in DOMAIN s, NEW x
  PROVE  LET t == [s EXCEPT ![b] = x] IN t \in Seq(Range(t)) /\ Len(t) = Len(s)
<1> DEFINE t == [s EXCEPT ![b] = x]
<1>1. DOMAIN s = 1..Len(s) /\ Len(s) \in Nat
  OBVIOUS
<1>2. t \in [1..Len(s) -> Range(t)]
  BY <1>1 DEF Range
<1>3. DOMAIN t = 1..Len(s)
  BY <1>1
<1> HIDE DEF t
<1>4. t \in Seq(Range(t)) /\ Len(t) = Len(s)
  BY <1>1, <1>2, <1>3
<1> QED BY <1>4 DEF t

(* A status call of a worker arrives.                                      *)
LEMMA DeliverRest ==
  ASSUME IInv, NEW p \in Party, NEW a \in DOMAIN worker[p], Deliver(p, a)
  PROVE  IInv'
<1> DEFINE s == status[p]
           w == worker[p]
           m == mail[p]
           r == refs[p]
           s2 == [s EXCEPT ![Head(m[a])[1]] = Head(m[a])[2]]
           m2 == [m EXCEPT ![a] = Tail(@)]
<1>1. Dispatched /\ Globals /\ Indexed /\ OneParty(s, w, m, r) /\ Rest(p)
      /\ m[a] # << >> /\ a \in DOMAIN w
  BY Split DEF IInv, Rest, Deliver, OneOf
<1>2. /\ status'[p] = s2 /\ mail'[p] = m2 /\ worker'[p] = w /\ refs'[p] = r
      /\ driver' = driver /\ conf' = conf /\ cut' = cut /\ Others(p)
  BY <1>1 DEF Deliver, Indexed, Others, history
<1>3. Head(m[a])[1] \in DOMAIN s
  <2>1. a \in DOMAIN m /\ m[a] \in Seq(Range(m[a]))
    BY <1>1 DEF OneParty, Parts, Calls
  <2>2. Head(m[a]) \in Range(m[a])
    BY <1>1, <2>1
  <2> QED BY <1>1, <2>1, <2>2 DEF OneParty, Calls, ACall
<1>4. ASSUME ~Active(p) PROVE Rest(p)'
  BY <1>1, <1>2, <1>4 DEF Rest, Phase, Active
<1>5. ASSUME Active(p) PROVE Rest(p)'
  <2>1. Made(p, ~cut, s, w, r) /\ Known(p, s, w, r) /\ Said(p, s, w, m, r)
        /\ (driver[p] # "reported" => Told(p, s, w, m, r))
    BY <1>1, <1>5, MadeIs DEF Rest
  <2>2. s \in Seq(Range(s)) /\ Len(s) = NBlocks(conf[p]) /\ r \in Seq(Seq(Ids))
        /\ ~Unusable(conf[p])
        /\ (driver[p] # "running" => \A b \in DOMAIN s: s[b].st # "INIT")
        /\ (driver[p] # "running" => NBlocks(conf[p]) > 0)
        /\ (driver[p] # "running" => \A c \in DOMAIN w: w[c].block = 0)
    BY <1>1, <1>5 DEF Rest, Phase, Unprocessed
  <2> HIDE DEF s, w, m, r
  <2>3. s2 \in Seq(Range(s2)) /\ Len(s2) = Len(s)
    BY <1>3, <2>2, StatusTable
  <2>4. /\ Known(p, s2, w, r) /\ Said(p, s2, w, m2, r)
        /\ Told(p, s, w, m, r) => Told(p, s2, w, m2, r)
        /\ DOMAIN s2 = DOMAIN s
        /\ \A b \in DOMAIN s: s2[b].st = "INIT" <=> s[b].st = "INIT"
    BY <1>1, <2>1, Delivers
  <2> HIDE DEF s2, m2
  <2>5. Made(p, ~cut, s2, w, r)
    BY <2>1, <2>4 DEF Made
  <2>6. Phase(p)'
    <3>1. driver[p] # "running" => Unprocessed(p)' = {}
      BY <1>2, <2>2, <2>4 DEF Unprocessed
    <3> QED BY <1>2, <2>2, <2>3, <3>1 DEF Phase
  <2> QED
    BY <1>2, <2>1, <2>4, <2>5, <2>6, MadeNext DEF Rest
<1>6. Rest(p)'
  BY <1>4, <1>5
<1> QED
  BY <1>1, <1>2, <1>6, OneRest, DeliverStep

(* At most the state of block b changes in a table of statuses.            *)
Marked(s, b, t) == /\ DOMAIN t = DOMAIN s
                   /\ \A c \in DOMAIN s: t[c].counts = s[c].counts
                   /\ \A c \in DOMAIN s: c # b => t[c].st = s[c].st

(* Block b has the output rows, the others have theirs.                    *)
Filled(s, r, b, rows, o) ==
  o[b] = rows /\ \A c \in DOMAIN s: c # b => o[c] = r[c]

(* What a worker that has been collected goes on with.                     *)
NextTurn(s, v) == /\ v.out = << >>
                  /\ \/ v.pc = "idle" /\ v.block = 0
                     \/ /\ v.pc = "read" /\ v.block \in DOMAIN s
                        /\ s[v.block].st = "INIT"

(* A worker is collected, and gets a block that was INIT or none.          *)
LEMMA Collects ==
  ASSUME NEW p, NEW ok, NEW s, NEW w, NEW m, NEW r, OneParty(s, w, m, r),
         Made(p, ok, s, w, r), Known(p, s, w, r), Said(p, s, w, m, r),
         Told(p, s, w, m, r), NEW a \in DOMAIN w, w[a].pc = "returned",
         NEW v, NextTurn(s, v), NEW t, Marked(s, v.block, t),
         NEW o, Filled(s, r, w[a].block, w[a].out, o)
  PROVE  LET w2 == [w EXCEPT ![a] = v]
         IN  /\ Made(p, ok, t, w2, o) /\ Known(p, t, w2, o)
             /\ Said(p, t, w2, m, o) /\ Told(p, t, w2, m, o)
<1> DEFINE w2 == [w EXCEPT ![a] = v]
<1>1. /\ DOMAIN s \subseteq Nat \ {0} /\ DOMAIN m = DOMAIN w /\ Calls(s, m)
      /\ w[a].block \in DOMAIN s /\ w[a].block # 0 /\ Once(s, w, r)
  BY DEF OneParty, Parts, AWorker
<1>2. /\ s[w[a].block].st # "INIT"
      /\ \A c \in DOMAIN w \ {a}: w[c].block # w[a].block
  BY <1>1 DEF Once
<1>3. /\ v.pc \in {"read", "idle"} /\ (v.pc = "idle" => v.block = 0)
      /\ (v.block = 0 \/ s[v.block].st = "INIT") /\ v.out = << >>
  BY DEF NextTurn
<1>0. /\ DOMAIN t = DOMAIN s /\ \A b \in DOMAIN s: t[b].counts = s[b].counts
      /\ \A b \in DOMAIN s: b # v.block => t[b].st = s[b].st
      /\ o[w[a].block] = w[a].out
      /\ \A b \in DOMAIN s: b # w[a].block => o[b] = r[b]
  BY DEF Marked, Filled
<1>4. ASSUME NEW b \in DOMAIN s, s[b].st # "INIT", t[b].st = "INIT" PROVE FALSE
  <2>1. CASE b = v.block
    BY <1>1, <1>3, <1>4, <2>1
  <2>2. CASE b # v.block
    BY <1>0, <1>4, <2>2
  <2> QED BY <2>1, <2>2
<1>5. FinalStays(p, s, w, r, t, w2, o)
  <2>1. \A b \in DOMAIN s: s[b].st # "INIT" => t[b].st # "INIT"
    BY <1>4
  <2> QED BY <1>0, <1>1, <1>3, <2>1, FinalCollected
<1>6. Made(p, ok, t, w2, o)
  <2>1. \A b \in DOMAIN s: b # v.block => (t[b].st = "INIT" <=> s[b].st = "INIT")
    BY <1>0
  <2> QED BY <1>0, <1>3, <2>1, MadeCollected
<1>7. /\ DOMAIN w2 = DOMAIN w /\ w2[a] = v
      /\ \A c \in DOMAIN w \ {a}: w2[c] = w[c]
  OBVIOUS
<1> HIDE DEF w2
<1>8. Known(p, t, w2, o) /\ Said(p, t, w2, m, o)
  <2>1. \A c \in DOMAIN w: w[c].pc \in Busy =>
          w2[c].pc \in Busy /\ w2[c].block = w[c].block
    BY <1>7 DEF Busy
  <2> QED BY <1>0, <1>1, <1>5, <2>1, CallsStand
<1>9. Told(p, t, w2, m, o)
  <2>1. ASSUME NEW b \in DOMAIN s, WorkOver(t, w2, b) PROVE WorkOver(s, w, b)
    <3>1. b # v.block
      <4> SUFFICES ASSUME b = v.block PROVE FALSE
        OBVIOUS
      <4>1. v.pc = "returned"
        BY <1>7, <2>1 DEF WorkOver
      <4> QED BY <1>3, <4>1
    <3>2. t[b].st = s[b].st
      BY <1>0, <3>1
    <3>3. \A c \in DOMAIN w: w[c].block = b => w[c].pc = "returned"
      BY <1>7, <2>1 DEF WorkOver
    <3> QED BY <2>1, <3>2, <3>3 DEF WorkOver
  <2>2. \A b \in DOMAIN s: WorkOver(t, w2, b) => WorkOver(s, w, b)
    BY <2>1
  <2> QED BY <1>0, <1>5, <2>2, ToldStands
<1> QED
  BY <1>6, <1>8, <1>9 DEF w2

(* One turn of a driver's loop.                                            *)
LEMMA JobDoneRest ==
  ASSUME IInv, NEW p \in Party, NEW a \in DOMAIN worker[p], JobDone(p, a)
  PROVE  IInv'
<1> DEFINE s == status[p]
           w == worker[p]
           m == mail[p]
           r == refs[p]
           e == w[a].block
           o == IF conf[p].file THEN [r EXCEPT ![e] = w[a].out] ELSE r
<1>1. Dispatched /\ Globals /\ Indexed /\ w[a].pc = "returned" /\ a \in DOMAIN w
  BY Split DEF IInv, JobDone
<1>2. /\ w[a].block \in DOMAIN s /\ w[a].block # 0 /\ driver[p] = "running"
      /\ OneParty(s, w, m, r) /\ Rest(p) /\ Made(p, ~cut, s, w, r) /\ Active(p)
      /\ Known(p, s, w, r) /\ Said(p, s, w, m, r) /\ Told(p, s, w, m, r)
  BY <1>1, Working DEF OneOf
<1>3. MadeBy(p, ~cut, w[a], r) /\ DOMAIN r = DOMAIN s
      /\ \A b \in DOMAIN s: DOMAIN s[b] = {"st", "counts"}
  BY <1>1, <1>2 DEF Made, OneParty, Parts, AStatus
<1>4. s \in Seq(Range(s)) /\ Len(s) = NBlocks(conf[p]) /\ r \in Seq(Seq(Ids))
      /\ ~Unusable(conf[p]) /\ w[a].out \in Seq(Ids) /\ NBlocks(conf[p]) > 0
  <2>1. s \in Seq(Range(s)) /\ Len(s) = NBlocks(conf[p]) /\ r \in Seq(Seq(Ids))
        /\ ~Unusable(conf[p]) /\ w[a].out \in Seq(Ids)
    BY <1>2, <1>3 DEF Rest, Phase, MadeBy
  <2>2. Len(s) > 0
    BY <1>2, <2>1
  <2> QED BY <2>1, <2>2
<1>5. /\ conf' = conf /\ cut' = cut /\ mail' = mail /\ refs'[p] = o
      /\ \A q \in Party \ {p}: refs'[q] = refs[q]
  BY <1>1 DEF JobDone, Indexed, history
<1>6. /\ o \in Seq(Seq(Ids)) /\ o[w[a].block] = w[a].out
      /\ \A b \in DOMAIN s: b # w[a].block => o[b] = r[b]
  <2>1. CASE conf[p].file
    BY <1>2, <1>3, <1>4, <2>1
  <2>2. CASE ~conf[p].file
    BY <1>1, <1>3, <1>4, <2>2 DEF MadeBy
  <2> QED BY <2>1, <2>2
<1>10. Filled(s, r, w[a].block, w[a].out, o)
  BY <1>6 DEF Filled
<1> HIDE DEF o
<1> DEFINE ok == ~cut
<1>7. Made(p, ok, s, w, r) /\ (ok <=> ~cut')
  BY <1>2, <1>5
<1> HIDE DEF ok
<1>8. CASE Unprocessed(p) # {}
  <2> DEFINE c == NextBlock(p)
             t == [s EXCEPT ![c].st = "PREPARED"]
             v == Take(c)
             w2 == [w EXCEPT ![a] = v]
  <2>1. c \in DOMAIN s /\ s[c].st = "INIT"
    <3>1. Unprocessed(p) \subseteq Nat
      BY <1>2 DEF OneParty, Parts, Unprocessed
    <3>2. c \in Unprocessed(p)
      BY <3>1, <1>8, MinIs DEF NextBlock
    <3> QED BY <3>2 DEF Unprocessed
  <2>2. /\ status'[p] = t /\ worker'[p] = w2 /\ driver' = driver
        /\ \A q \in Party \ {p}: status'[q] = status[q] /\ worker'[q] = worker[q]
    BY <1>1, <1>8 DEF JobDone, Indexed
  <2>3. v.out = << >> /\ v.pc = "read" /\ v.block = c
    BY DEF Take
  <2> HIDE DEF c, v
  <2>4. /\ DOMAIN t = DOMAIN s
        /\ t = [s EXCEPT ![c] = [s[c] EXCEPT !.st = "PREPARED"]]
        /\ \A b \in DOMAIN s: t[b].counts = s[b].counts
        /\ \A b \in DOMAIN s: b # c => t[b].st = s[b].st
    BY <1>3, <2>1
  <2>5. t \in Seq(Range(t)) /\ Len(t) = Len(s)
    <3> DEFINE x == [s[c] EXCEPT !.st = "PREPARED"]
    <3>1. t = [s EXCEPT ![c] = x]
      BY <2>4
    <3> HIDE DEF x, t, s
    <3> QED BY <1>4, <2>1, <3>1, StatusTable
  <2> HIDE DEF t
  <2>6. Phase(p)'
    BY <1>2, <1>4, <1>5, <1>6, <2>2, <2>5 DEF Phase
  <2>7. mail'[p] = m /\ Others(p)
    BY <1>5, <2>2 DEF Others
  <2> HIDE DEF s, w, m, r, e
  <2>8. Marked(s, v.block, t)
    BY <2>3, <2>4 DEF Marked
  <2>9. NextTurn(s, v)
    BY <2>1, <2>3 DEF NextTurn
  <2>10. /\ Made(p, ok, t, w2, o) /\ Known(p, t, w2, o)
         /\ Said(p, t, w2, m, o) /\ Told(p, t, w2, m, o)
    BY <1>1, <1>2, <1>7, <1>10, <2>8, <2>9, Collects
  <2> HIDE DEF w2
  <2>11. Made(p, ~cut', t, w2, o)
    BY <1>7, <2>10 DEF Made, MadeBy
  <2>12. Rest(p)'
    BY <1>5, <2>2, <2>6, <2>7, <2>10, <2>11, MadeNext DEF Rest
  <2> QED
    BY <1>1, <1>5, <2>2, <2>7, <2>12, OneRest, JobDoneStep
<1>9. CASE Unprocessed(p) = {}
  <2> DEFINE v == Idle
             w2 == [w EXCEPT ![a] = v]
  <2>1. /\ status' = status /\ worker'[p] = w2
        /\ driver'[p] = (IF AllIdle(p, a) THEN "merging" ELSE driver[p])
        /\ \A q \in Party \ {p}: driver'[q] = driver[q] /\ worker'[q] = worker[q]
    BY <1>1, <1>9 DEF JobDone, Indexed, Globals
  <2>2. v.out = << >> /\ v.pc = "idle" /\ v.block = 0
    BY DEF Idle
  <2>3. mail'[p] = m /\ Others(p) /\ status'[p] = s
    BY <1>5, <2>1 DEF Others
  <2> HIDE DEF v
  <2>4. /\ DOMAIN w2 = DOMAIN w /\ w2[a] = v
        /\ \A c \in DOMAIN w \ {a}: w2[c] = w[c]
    OBVIOUS
  <2>5. AllIdle(p, a) => \A c \in DOMAIN w: w2[c].block = 0
    <3> SUFFICES ASSUME AllIdle(p, a), NEW c \in DOMAIN w PROVE w2[c].block = 0
      OBVIOUS
    <3>1. CASE c = a
      BY <2>2, <2>4, <3>1
    <3>2. CASE c # a
      <4>1. w[c].pc = "idle" /\ w2[c] = w[c]
        BY <2>4, <3>2 DEF AllIdle
      <4>2. MadeBy(p, ~cut, w[c], r)
        BY <1>2 DEF Made
      <4> QED BY <4>1, <4>2 DEF MadeBy
    <3> QED BY <3>1, <3>2
  <2>6. Phase(p)'
    <3>1. Unprocessed(p)' = {}
      BY <1>9, <2>1 DEF Unprocessed
    <3>2. driver'[p] # "running" => \A c \in DOMAIN worker'[p]: worker'[p][c].block = 0
      <4> HIDE DEF w2, w
      <4> QED BY <1>2, <2>1, <2>4, <2>5
    <3> QED BY <1>4, <1>5, <1>6, <2>3, <3>1, <3>2 DEF Phase
  <2> HIDE DEF s, w, m, r, e
  <2>10. NextTurn(s, v)
    BY <2>2 DEF NextTurn
  <2>11. Marked(s, v.block, s)
    BY DEF Marked
  <2>7. /\ Made(p, ok, s, w2, o) /\ Known(p, s, w2, o)
        /\ Said(p, s, w2, m, o) /\ Told(p, s, w2, m, o)
    BY <1>1, <1>2, <1>7, <1>10, <2>10, <2>11, Collects
  <2> HIDE DEF w2
  <2>8. Made(p, ~cut', s, w2, o)
    BY <1>7, <2>7 DEF Made, MadeBy
  <2>9. Rest(p)'
    BY <1>5, <2>1, <2>3, <2>6, <2>7, <2>8, MadeNext DEF Rest
  <2> QED
    BY <1>1, <1>5, <2>1, <2>3, <2>9, OneRest, JobDoneStep
<1> QED
  BY <1>8, <1>9

(* A driver that fails leaves nothing to be said of its job.               *)
LEMMA FailRest ==
  ASSUME IInv, Dispatched', NEW p \in Party, Fail(p),
         UNCHANGED <<conf, status, refs, cut>>
  PROVE  IInv'
<1>1. Globals /\ Indexed
  BY Split DEF IInv
<1>2. /\ driver'[p] = "failed" /\ \A q \in Party \ {p}: driver'[q] = driver[q]
      /\ worker'[p] = [a \in DOMAIN worker[p] |-> Idle]
      /\ Others(p)
  BY <1>1 DEF Fail, SetNodeStatus, Globals, Indexed, Others
<1>3. ~Active(p)' /\ \A a \in DOMAIN worker'[p]: worker'[p][a].block = 0
  BY <1>2 DEF Active, Idle
<1>4. Rest(p)'
  BY <1>3 DEF Rest, Phase
<1> QED
  BY <1>2, <1>4, OneRest

(* The first blocks go to the workers.                                     *)
LEMMA PrepareRest ==
  ASSUME IInv, NEW p \in Party, Prepare(p)
  PROVE  IInv'
<1>1. Dispatched /\ Globals /\ Indexed /\ Dispatched'
  BY Split, PrepareStep DEF IInv
<1>2. CASE Unusable(conf[p])
  BY <1>1, <1>2, FailRest DEF Prepare, history
<1>3. CASE ~Unusable(conf[p])
  <2> DEFINE n == NBlocks(conf[p])
             k == NWorkers(conf[p])
             s == [b \in 1..n |->
                     Status(IF b <= k THEN "PREPARED" ELSE "INIT", <<0, 0>>)]
             w == [a \in 1..k |-> Take(a)]
             m == [a \in 1..k |-> << >>]
             r == [b \in 1..n |-> << >>]
  <2>1. conf[p] \in Conf
    BY <1>1, ScenarioAssumption DEF Globals
  <2>2. n \in Nat /\ k \in Int /\ k <= n
    BY <2>1, WorkerBound
  <2>3. /\ status'[p] = s /\ worker'[p] = w /\ mail'[p] = m /\ refs'[p] = r
        /\ Others(p) /\ conf' = conf /\ cut' = cut
        /\ driver'[p] = "running" /\ \A q \in Party \ {p}: driver'[q] = driver[q]
    BY <1>1, <1>3 DEF Prepare, SetNodeStatus, Indexed, Globals, Others, history
  <2>4. NBlocks(conf[p]) = n
    OBVIOUS
  <2> HIDE DEF n, k
  <2>5. /\ Made(p, ~cut', s, w, r) /\ Known(p, s, w, r)
        /\ Said(p, s, w, m, r) /\ Told(p, s, w, m, r)
    BY <2>2, MadeFirst
  <2>6. s \in Seq(Range(s)) /\ Len(s) = n
    <3>1. s \in [1..n -> Range(s)] /\ DOMAIN s = 1..n
      BY DEF Range
    <3> HIDE DEF s
    <3> QED BY <2>2, <3>1
  <2>7. r \in Seq(Seq(Ids))
    <3>1. << >> \in Seq(Ids)
      OBVIOUS
    <3>2. r \in [1..n -> Seq(Ids)]
      BY <3>1
    <3> HIDE DEF r
    <3> QED BY <2>2, <3>2
  <2> HIDE DEF s, w, m, r
  <2>8. Phase(p)'
    BY <1>3, <2>3, <2>4, <2>6, <2>7 DEF Phase
  <2>9. Rest(p)'
    BY <2>3, <2>5, <2>8, MadeNext DEF Rest
  <2> QED
    BY <1>1, <2>3, <2>9, OneRest
<1> QED
  BY <1>2, <1>3

(* A worker's exception ends the driver.                                   *)
LEMMA JobRaisedRest ==
  ASSUME IInv, NEW p \in Party, NEW a \in DOMAIN worker[p], JobRaised(p, a)
  PROVE  IInv'
<1>1. Dispatched'
  BY JobRaisedStep DEF IInv
<1> QED
  BY <1>1, FailRest DEF JobRaised, history

(* The driver fails outside its loop.                                      *)
LEMMA AbortRest ==
  ASSUME IInv, NEW p \in Party, Abort(p)
  PROVE  IInv'
<1>1. Dispatched'
  BY AbortStep DEF IInv
<1> QED
  BY <1>1, FailRest DEF Abort

(* The output is merged, or the merge fails.                               *)
LEMMA MergeOutputRest ==
  ASSUME IInv, NEW p \in Party, MergeOutput(p)
  PROVE  IInv'
<1>1. Dispatched /\ Globals /\ Indexed /\ Dispatched' /\ Rest(p)
  BY Split, MergeOutputStep DEF IInv, Rest
<1>2. CASE Fail(p)
  BY <1>1, <1>2, FailRest DEF MergeOutput, history
<1>3. CASE driver' = [driver EXCEPT ![p] = "reporting"] /\ UNCHANGED <<worker, mail>>
  <2>1. /\ UNCHANGED <<conf, status, refs, worker, mail, cut>> /\ driver[p] = "merging"
        /\ driver'[p] = "reporting" /\ \A q \in Party \ {p}: driver'[q] = driver[q]
    BY <1>1, <1>3 DEF MergeOutput, history, Globals
  <2>2. Active(p) /\ Others(p)
    BY <2>1 DEF Active, Others
  <2>3. Phase(p)'
    BY <1>1, <2>1, <2>2 DEF Rest, Phase, Active, Unprocessed
  <2>4. Outcome(p)' /\ Counted(p)' /\ Heard(p)'
    BY <1>1, <2>1, <2>2, MadeIs, MadeNext DEF Rest
  <2>5. Rest(p)'
    BY <2>3, <2>4 DEF Rest
  <2> QED BY <1>1, <2>1, <2>2, <2>5, OneRest
<1> QED
  BY <1>2, <1>3 DEF MergeOutput

(* The result is reported and the actors end.                              *)
LEMMA ReportRest ==
  ASSUME IInv, NEW p \in Party, Report(p)
  PROVE  IInv'
<1>1. Dispatched /\ Globals /\ Indexed /\ Dispatched' /\ Rest(p)
  BY Split, ReportStep DEF IInv, Rest
<1>2. /\ UNCHANGED <<conf, status, refs, worker, cut>> /\ driver[p] = "reporting"
      /\ driver'[p] = "reported" /\ \A q \in Party \ {p}: driver'[q] = driver[q]
      /\ mail'[p] = [a \in DOMAIN mail[p] |-> << >>] /\ Others(p)
  BY <1>1 DEF Report, SetNodeStatus, history, Globals, Indexed, Others
<1>3. Active(p)
  BY <1>2 DEF Active
<1>4. Phase(p)'
  BY <1>1, <1>2, <1>3 DEF Rest, Phase, Unprocessed
<1>5. Outcome(p)' /\ Known(p, status'[p], worker'[p], refs'[p])
  BY <1>1, <1>2, <1>3, MadeIs, MadeNext DEF Rest
<1>6. Said(p, status'[p], worker'[p], mail'[p], refs'[p])
  BY <1>2 DEF Said
<1>7. Rest(p)'
  BY <1>2, <1>4, <1>5, <1>6, MadeNext DEF Rest
<1> QED
  BY <1>1, <1>2, <1>7, OneRest

(* The inputs of a job that has begun and has blocks are usable.           *)
LEMMA UsableConf ==
  ASSUME IInv, NEW p \in Party, ~Unusable(conf[p])
  PROVE  /\ DOMAIN Blocks(conf[p]) = 1..NBlocks(conf[p])
         /\ DOMAIN Blocks(conf[p]) # {} => Usable(conf[p])
<1>1. conf \in Scenarios
  BY Split DEF IInv, Globals
<1>2. conf[p] \in Conf
  BY <1>1, ScenarioAssumption
<1> QED
  BY <1>1, <1>2, SingleFileAssumption, WorkerBound DEF Usable

(* What a worker makes of its block when it meets a worker of the peer.    *)
LEMMA JoinMade ==
  ASSUME IInv, NEW p \in Party, NEW a \in DOMAIN worker[p],
         NEW f \in DOMAIN worker[Peer(p)], worker[p][a].pc = "psi",
         worker[Peer(p)][f].pc = "psi",
         worker[p][a].block = worker[Peer(p)][f].block
  PROVE  /\ MyJoin(p, a, f) \in Seq(Ids)
         /\ Joins(p, worker[p][a].block, MyJoin(p, a, f))
<1> DEFINE b == worker[p][a].block
<1>1. Peer(p) \in Party
  BY DEF Peer, Party
<1>2. /\ b \in DOMAIN status[p] /\ Rest(p) /\ Active(p)
      /\ Rest(Peer(p)) /\ Active(Peer(p))
  BY <1>1, Working
<1>3. /\ ~Unusable(conf[p]) /\ ~Unusable(conf[Peer(p)])
      /\ status[p] \in Seq(Range(status[p])) /\ Len(status[p]) = NBlocks(conf[p])
  BY <1>2 DEF Rest, Phase
<1>4. b \in 1..NBlocks(conf[p])
  BY <1>2, <1>3
<1>5. Blocks(conf[p])[b].rows \in Seq(Ids)
  <2>1. Usable(conf[p])
    BY <1>3, <1>4, UsableConf
  <2> QED BY <1>4, <2>1, BlocksAre
<1>6. MyJoin(p, a, f) = Join(Blocks(conf[p])[b], Blocks(conf[Peer(p)])[b])
  BY DEF MyJoin, MyBlock
<1>7. MyJoin(p, a, f) \in Seq(Ids)
  BY <1>5, <1>6, OnlyType DEF Join
<1> QED
  BY <1>3, <1>6, <1>7 DEF Joins

(* Two workers that meet go on with their blocks.                          *)
LEMMA MeetRest ==
  ASSUME IInv, Dispatched', conf' = conf, driver' = driver, status' = status,
         mail' = mail, refs' = refs, cut => cut',
         NEW a \in DOMAIN worker["leader"], NEW f \in DOMAIN worker["follower"],
         CanMeet(a, f), NEW vl, NEW vf,
         Goes(vl, worker["leader"][a]), Goes(vf, worker["follower"][f]),
         MadeBy("leader", ~cut', vl, refs["leader"]),
         MadeBy("follower", ~cut', vf, refs["follower"]),
         worker'["leader"] = [worker["leader"] EXCEPT ![a] = vl],
         worker'["follower"] = [worker["follower"] EXCEPT ![f] = vf]
  PROVE  IInv'
<1>1. cut \in BOOLEAN /\ cut' \in BOOLEAN
  BY DEF IInv, Dispatched, TypeOK
<1>2. worker["leader"][a].pc = "psi" /\ worker["follower"][f].pc = "psi"
  BY DEF CanMeet
<1>3. Rest("leader")'
  BY <1>1, <1>2, GoesOn DEF Goes, Party
<1>4. Rest("follower")'
  BY <1>1, <1>2, GoesOn DEF Goes, Party
<1> QED
  BY <1>3, <1>4 DEF IInv, Rest, Party

(* The outputs of two workers that meet.                                   *)
LEMMA BothJoin ==
  ASSUME IInv, NEW a \in DOMAIN worker["leader"],
         NEW f \in DOMAIN worker["follower"], CanMeet(a, f)
  PROVE  /\ MyJoin("leader", a, f) \in Seq(Ids)
         /\ Joins("leader", worker["leader"][a].block, MyJoin("leader", a, f))
         /\ MyJoin("follower", f, a) \in Seq(Ids)
         /\ Joins("follower", worker["follower"][f].block, MyJoin("follower", f, a))
<1>1. /\ Peer("leader") = "follower" /\ Peer("follower") = "leader"
      /\ "leader" \in Party /\ "follower" \in Party
  BY DEF Peer, Party
<1>2. /\ worker["leader"][a].pc = "psi" /\ worker["follower"][f].pc = "psi"
      /\ worker["leader"][a].block = worker["follower"][f].block
  BY DEF CanMeet
<1>3. /\ MyJoin("leader", a, f) \in Seq(Ids)
      /\ Joins("leader", worker["leader"][a].block, MyJoin("leader", a, f))
  BY <1>1, <1>2, JoinMade
<1>4. /\ MyJoin("follower", f, a) \in Seq(Ids)
      /\ Joins("follower", worker["follower"][f].block, MyJoin("follower", f, a))
  BY <1>1, <1>2, JoinMade
<1> QED BY <1>3, <1>4

(* The exchange of a block.                                                *)
LEMMA ExchangeRest ==
  ASSUME IInv, NEW a \in DOMAIN worker["leader"],
         NEW f \in DOMAIN worker["follower"], Exchange(a, f)
  PROVE  IInv'
<1> DEFINE wl == worker["leader"][a]
           wf == worker["follower"][f]
           jl == MyJoin("leader", a, f)
           jf == MyJoin("follower", f, a)
           vl == [wl EXCEPT !.pc = "write", !.out = jl]
           vf == [wf EXCEPT !.pc = "write", !.out = jf]
<1>1. Dispatched /\ Indexed /\ Dispatched'
  BY Split, ExchangeStep DEF IInv
<1>2. /\ worker'["leader"] = [worker["leader"] EXCEPT ![a] = vl]
      /\ worker'["follower"] = [worker["follower"] EXCEPT ![f] = vf]
  BY <1>1 DEF Exchange, Indexed, Party
<1>3. /\ Goes(vl, wl) /\ vl.pc = "write" /\ vl.out = jl
      /\ Goes(vf, wf) /\ vf.pc = "write" /\ vf.out = jf
  BY <1>1, WorkerShape DEF Goes
<1>4. /\ status' = status /\ mail' = mail /\ refs' = refs /\ CanMeet(a, f)
      /\ conf' = conf /\ driver' = driver /\ cut' = cut
  BY DEF Exchange, history
<1>5. /\ jl \in Seq(Ids) /\ Joins("leader", wl.block, jl)
      /\ jf \in Seq(Ids) /\ Joins("follower", wf.block, jf)
  BY <1>4, BothJoin
<1> HIDE DEF vl, vf, jl, jf
<1>6. /\ MadeBy("leader", ~cut', vl, refs["leader"])
      /\ MadeBy("follower", ~cut', vf, refs["follower"])
  BY <1>3, <1>5 DEF MadeBy, Goes
<1> QED
  BY <1>1, <1>2, <1>3, <1>4, <1>6, MeetRest

(* What a worker may come to after a link error.                           *)
LEMMA BrokenIs ==
  ASSUME NEW s \in Seq(Ids), NEW e \in Broken(s)
  PROVE  e.out \in Seq(Ids) /\ e.pc \in {"write", "raised", "hung"}
<1>1. << >> \in Seq(Ids) /\ \A n \in 0..Len(s): SubSeq(s, 1, n) \in Seq(Ids)
  OBVIOUS
<1>2. CASE e \in {[pc |-> end, out |-> << >>] : end \in {"raised", "hung"}}
  <2>1. PICK x \in {"raised", "hung"}: e = [pc |-> x, out |-> << >>]
    BY <1>2
  <2>2. e.pc = x /\ e.out = << >>
    BY <2>1
  <2> QED BY <1>1, <2>2
<1>3. CASE e \in {[pc |-> "write", out |-> SubSeq(s, 1, n)] : n \in 0..Len(s)}
  BY <1>1, <1>3
<1> QED BY <1>2, <1>3 DEF Broken

(* The exchange of a block when the link fails.                            *)
LEMMA FaultyExchangeRest ==
  ASSUME IInv, NEW a \in DOMAIN worker["leader"],
         NEW f \in DOMAIN worker["follower"], FaultyExchange(a, f)
  PROVE  IInv'
<1> DEFINE wl == worker["leader"][a]
           wf == worker["follower"][f]
           jl == MyJoin("leader", a, f)
           jf == MyJoin("follower", f, a)
<1>1. Dispatched /\ Indexed /\ Dispatched'
  BY Split, FaultyExchangeStep DEF IInv
<1>2. PICK l \in Broken(MyJoin("leader", a, f)),
           r \in Broken(MyJoin("follower", f, a)):
       /\ worker' = [worker EXCEPT
            !["leader"][a] = [@ EXCEPT !.pc = l.pc, !.out = l.out],
            !["follower"][f] = [@ EXCEPT !.pc = r.pc, !.out = r.out]]
       /\ cut' = (cut \/ Shortened(l, MyJoin("leader", a, f))
                      \/ Shortened(r, MyJoin("follower", f, a)))
  BY DEF FaultyExchange
<1> DEFINE vl == [wl EXCEPT !.pc = l.pc, !.out = l.out]
           vf == [wf EXCEPT !.pc = r.pc, !.out = r.out]
<1>3. /\ worker'["leader"] = [worker["leader"] EXCEPT ![a] = vl]
      /\ worker'["follower"] = [worker["follower"] EXCEPT ![f] = vf]
  BY <1>1, <1>2 DEF Indexed, Party
<1>4. /\ status' = status /\ mail' = mail /\ refs' = refs /\ CanMeet(a, f)
      /\ conf' = conf /\ driver' = driver
  BY DEF FaultyExchange
<1>5. /\ jl \in Seq(Ids) /\ Joins("leader", wl.block, jl)
      /\ jf \in Seq(Ids) /\ Joins("follower", wf.block, jf)
  BY <1>4, BothJoin
<1>6. /\ cut => cut'
      /\ ~cut' => ~Shortened(l, jl) /\ ~Shortened(r, jf)
  BY <1>2
<1>7. l \in Broken(jl) /\ r \in Broken(jf)
  OBVIOUS
<1> HIDE DEF jl, jf
<1>8. /\ l.out \in Seq(Ids) /\ l.pc \in {"write", "raised", "hung"}
      /\ r.out \in Seq(Ids) /\ r.pc \in {"write", "raised", "hung"}
  BY <1>5, <1>7, BrokenIs
<1>9. ~cut' => (l.pc = "write" => l.out = jl) /\ (r.pc = "write" => r.out = jf)
  BY <1>6 DEF Shortened
<1>10. /\ Goes(vl, wl) /\ vl.out = l.out /\ vl.pc = l.pc
       /\ Goes(vf, wf) /\ vf.out = r.out /\ vf.pc = r.pc
  BY <1>1, <1>8, WorkerShape DEF Goes
<1> HIDE DEF vl, vf
<1>11. /\ MadeBy("leader", ~cut', vl, refs["leader"])
       /\ MadeBy("follower", ~cut', vf, refs["follower"])
  BY <1>5, <1>8, <1>9, <1>10 DEF MadeBy, Goes
<1> QED
  BY <1>1, <1>3, <1>4, <1>6, <1>10, <1>11, MeetRest

(* Before the drivers begin nothing has to be said of the jobs.            *)
LEMMA InitiallyAll == Init => IInv
<1> SUFFICES ASSUME Init PROVE IInv
  OBVIOUS
<1>1. Dispatched
  BY Initially
<1>2. ASSUME NEW p \in Party PROVE Rest(p)
  <2>1. driver[p] = "start" /\ worker[p] = << >>
    BY DEF Init
  <2> QED BY <2>1 DEF Rest, Phase, Active
<1> QED
  BY <1>1, <1>2 DEF IInv, Rest

(* Every step of the two jobs preserves the invariant.                     *)
LEMMA StepAll == IInv /\ [Next]_vars => IInv'
<1> SUFFICES ASSUME IInv, [Next]_vars PROVE IInv'
  OBVIOUS
<1>1. ASSUME NEW p \in Party, WorkerStep(p) PROVE IInv'
  BY <1>1, ReadBlockRest, WriteBlockRest, DeliverRest DEF WorkerStep
<1>2. ASSUME NEW p \in Party, DriverStep(p) PROVE IInv'
  BY <1>2, PrepareRest, MergeOutputRest, ReportRest, JobDoneRest, JobRaisedRest
     DEF DriverStep
<1>3. CASE Meet
  BY <1>3, ExchangeRest DEF Meet
<1>4. CASE Failures
  BY <1>4, FaultyExchangeRest, AbortRest, WorkerFailsRest DEF Failures, MeetFaulty
<1>5. CASE GiveUp
  BY <1>5, TimeoutRest DEF GiveUp
<1>6. CASE UNCHANGED vars
  <2>1. Dispatched'
    BY Step DEF IInv
  <2>2. ASSUME NEW p \in Party PROVE Rest(p)'
    <3>1. Rest(p)
      BY DEF IInv, Rest
    <3> QED BY <1>6, <3>1, Frame DEF vars, history
  <2> QED BY <2>1, <2>2 DEF IInv, Rest
<1>7. CASE Done
  BY <1>7, <1>6 DEF Done
<1> QED
  BY <1>1, <1>2, <1>3, <1>4, <1>5, <1>6, <1>7 DEF Next

(* The invariant of the two jobs holds in every reachable state: besides   *)
(* what is said of the hand-out of blocks, what every worker makes of its  *)
(* block and what the dispatcher knows or will be told of it.              *)
THEOREM Invariance == Spec => []IInv
<1> QED BY InitiallyAll, StepAll, PTL DEF Spec

-----------------------------------------------------------------------------
(* A job that has left its loop: all its blocks have been handed out, and  *)
(* every worker has been collected.                                        *)
LEMMA AllCollected ==
  ASSUME IInv, NEW p \in Party, driver[p] \in {"reporting", "reported"}
  PROVE  /\ Usable(conf[p]) /\ NBlocks(conf[p]) \in Nat
         /\ DOMAIN status[p] = 1..NBlocks(conf[p])
         /\ Len(status[p]) = NBlocks(conf[p])
         /\ refs[p] \in Seq(Seq(Ids)) /\ Len(refs[p]) = NBlocks(conf[p])
         /\ \A b \in 1..NBlocks(conf[p]):
              status[p][b].st # "INIT" /\ Free(worker[p], b)
<1>1. OneOf(p) /\ Rest(p) /\ Active(p) /\ driver[p] # "running"
  BY Split DEF IInv, Rest, Active
<1>2. /\ ~Unusable(conf[p]) /\ status[p] \in Seq(Range(status[p]))
      /\ Len(status[p]) = NBlocks(conf[p]) /\ refs[p] \in Seq(Seq(Ids))
      /\ NBlocks(conf[p]) > 0
      /\ Unprocessed(p) = {} /\ \A a \in DOMAIN worker[p]: worker[p][a].block = 0
  BY <1>1 DEF Rest, Phase
<1>3. Usable(conf[p]) /\ NBlocks(conf[p]) \in Nat
  <2>1. NBlocks(conf[p]) \in Nat
    BY <1>2
  <2>2. 1 \in 1..NBlocks(conf[p])
    BY <1>2, <2>1
  <2>3. Usable(conf[p])
    BY <1>2, <2>2, UsableConf
  <2> QED BY <2>1, <2>3
<1>4. DOMAIN status[p] = 1..NBlocks(conf[p]) /\ DOMAIN refs[p] = DOMAIN status[p]
  BY <1>1, <1>2 DEF OneOf, OneParty, Parts
<1>5. Len(refs[p]) = NBlocks(conf[p])
  BY <1>2, <1>3, <1>4
<1>6. \A b \in 1..NBlocks(conf[p]): status[p][b].st # "INIT"
  BY <1>2, <1>4 DEF Unprocessed
<1>7. \A b \in 1..NBlocks(conf[p]): Free(worker[p], b)
  BY <1>2, <1>3 DEF Free
<1> QED
  BY <1>2, <1>3, <1>4, <1>5, <1>6, <1>7

(* A usable input has a block.                                             *)
LEMMA SomeBlock ==
  ASSUME NEW c, Usable(c)
  PROVE  1 \in DOMAIN Blocks(c)
<1>1. CASE c.file
  BY <1>1, InputIs DEF Blocks
<1>2. CASE ~c.file
  BY <1>2, InputIs DEF Blocks, DataFiles
<1> QED BY <1>1, <1>2

(* The two inputs are cut alike, seen from either side.                    *)
LEMMA SplitAlike ==
  ASSUME NEW p \in Party, SameSplit
  PROVE  AlikeCut(conf[p], conf[Peer(p)])
<1>1. CASE p = "leader"
  BY <1>1 DEF SameSplit, AlikeCut, Peer
<1>2. CASE p = "follower"
  BY <1>2 DEF SameSplit, AlikeCut, Peer
<1> QED BY <1>1, <1>2 DEF Party

(* In every reachable state a job that has been reported has exactly the   *)
(* rows whose id is in the peer's input, each as often as its own input    *)
(* has it: whatever the inputs, the numbers of workers and buckets of the  *)
(* two sides, the order of the calls and the fate of the peer's job, if    *)
(* the inputs are cut alike and no exchange was cut short.                 *)
THEOREM ExactResults == Spec => []ExactResult
<1>1. IInv => ExactResult
  <2> SUFFICES ASSUME IInv, NEW p \in Party, driver[p] = "reported",
                      SameSplit, NoCollision, ~cut, NEW x \in Ids
               PROVE  Count(FlattenSeq(refs[p]), x) =
                        IF x \in Range(AllRows(Peer(p))) THEN Count(AllRows(p), x)
                                                         ELSE 0
    BY DEF ExactResult, Intersected
  <2> DEFINE c == conf[p]
             d == conf[Peer(p)]
             r == refs[p]
  <2>1. /\ Usable(c) /\ DOMAIN status[p] = 1..NBlocks(c)
        /\ r \in Seq(Seq(Ids)) /\ Len(r) = NBlocks(c)
        /\ \A b \in 1..NBlocks(c): status[p][b].st # "INIT" /\ Free(worker[p], b)
    BY AllCollected
  <2>2. Made(p, ~cut, status[p], worker[p], r)
    BY MadeIs DEF IInv, Active
  <2>3. \A b \in 1..NBlocks(c): Joins(p, b, r[b])
    BY <2>1, <2>2 DEF Made
  <2>4. \A b \in 1..NBlocks(c): r[b] = Join(Blocks(c)[b], Blocks(d)[b])
    BY <2>3 DEF Joins
  <2>5. ~Unusable(d)
    <3>1. 1 \in 1..NBlocks(c)
      BY <2>1, SomeBlock, BlocksAre
    <3> QED BY <2>3, <3>1 DEF Joins
  <2>6. Usable(d) /\ AlikeCut(c, d)
    <3>1. Peer(p) \in Party
      BY DEF Peer, Party
    <3>2. AlikeCut(c, d)
      BY SplitAlike
    <3>3. DOMAIN Blocks(d) = DOMAIN Blocks(c) /\ 1 \in DOMAIN Blocks(c)
      BY <2>1, <3>2, SomeBlock DEF AlikeCut
    <3> QED BY <2>5, <3>1, <3>2, <3>3, UsableConf
  <2> HIDE DEF c, d, r
  <2>7. Count(FlattenSeq(r), x) =
          IF x \in Range(FlattenSeq(d.data)) THEN Count(FlattenSeq(c.data), x) ELSE 0
    BY <2>1, <2>4, <2>6, JoinsAre
  <2> QED
    BY <2>7 DEF AllRows, c, d, r
<1> QED BY <1>1, Invariance, PTL
-----------------------------------------------------------------------------
(* The rows of each block of an input, and of each block of an output.     *)
RowLens(c) == [b \in 1..NBlocks(c) |-> Len(Blocks(c)[b].rows)]
OutLens(r) == [b \in 1..Len(r) |-> Len(r[b])]

(* The blocks of an input have its rows.                                   *)
LEMMA RowsSum ==
  ASSUME NEW c, Usable(c)
  PROVE  SumTo(RowLens(c), NBlocks(c)) = Len(FlattenSeq(c.data))
<1> DEFINE n == NBlocks(c)
           g == [b \in 1..n |-> Len(Only(Blocks(c)[b].rows, Ids))]
<1>1. n \in Nat /\ \A b \in 1..n: Blocks(c)[b].rows \in Seq(Ids)
  BY BlocksAre
<1>2. \A b \in 1..n: Only(Blocks(c)[b].rows, Ids) = Blocks(c)[b].rows
  BY <1>1, OnlyAll
<1>3. SumTo(g, n) = Len(Only(FlattenSeq(c.data), Ids))
  BY BlocksCount
<1>4. Only(FlattenSeq(c.data), Ids) = FlattenSeq(c.data)
  BY InputIs, FlattenType, OnlyAll
<1>5. Agree(RowLens(c), g, n)
  BY <1>2 DEF Agree, RowLens
<1> HIDE DEF g, n
<1>6. SumTo(RowLens(c), n) = SumTo(g, n)
  BY <1>1, <1>5, SumAgree
<1> QED
  BY <1>3, <1>4, <1>6 DEF n

(* The blocks of an output have its rows.                                  *)
LEMMA OutSum ==
  ASSUME NEW r \in Seq(Seq(Ids))
  PROVE  SumTo(OutLens(r), Len(r)) = Len(FlattenSeq(r))
<1> DEFINE n == Len(r)
           g == [b \in DOMAIN r |-> Len(Only(r[b], Ids))]
<1>1. n \in Nat /\ DOMAIN r = 1..n /\ \A b \in 1..n: r[b] \in Seq(Ids)
  OBVIOUS
<1>2. \A b \in 1..n: Only(r[b], Ids) = r[b]
  BY <1>1, OnlyAll
<1>3. SumTo(g, n) = Len(Only(FlattenSeq(r), Ids))
  BY FlattenCount
<1>4. Only(FlattenSeq(r), Ids) = FlattenSeq(r)
  BY FlattenType, OnlyAll
<1>5. Agree(OutLens(r), g, n)
  BY <1>1, <1>2 DEF Agree, OutLens
<1> HIDE DEF g, n
<1>6. SumTo(OutLens(r), n) = SumTo(g, n)
  BY <1>1, <1>5, SumAgree
<1> QED
  BY <1>3, <1>4, <1>6 DEF n

(* What get_results adds up, for its two sums.                             *)
CountsOf(p, i) == [b \in DOMAIN status[p] |-> status[p][b].counts[i]]

(* Counts that are zero or the final ones.                                 *)
ZeroOr(c, d, n) == \A b \in 1..n: c[b] = 0 \/ c[b] = d[b]

(* They are no more than the final ones.                                   *)
LEMMA ZeroOrSum ==
  ASSUME NEW c, NEW d, NEW n \in Nat, ZeroOr(c, d, n), Numbers(d, n)
  PROVE  SumTo(c, n) <= SumTo(d, n)
<1>1. Numbers(c, n) /\ AtMost(c, d, n)
  BY DEF ZeroOr, Numbers, AtMost
<1> QED
  BY <1>1, SumAtMost

(* The counts of the output of one party, as they are reported.            *)
RightCounts(p, rep) ==
  /\ rep.local <= Len(AllRows(p))
  /\ rep.join <= Len(FlattenSeq(refs[p]))
  /\ rep.whole => rep.local = Len(AllRows(p)) /\ rep.join = Len(FlattenSeq(refs[p]))

(* The counts the driver gets from the dispatcher at the end.              *)
LEMMA CountsRight ==
  ASSUME IInv, NEW p \in Party, driver[p] = "reporting"
  PROVE  RightCounts(p, Result(p))
<1> DEFINE c == conf[p]
           n == NBlocks(c)
           s == status[p]
           r == refs[p]
           w == worker[p]
           c1 == CountsOf(p, 1)
           c2 == CountsOf(p, 2)
<1>1. /\ Usable(c) /\ n \in Nat /\ DOMAIN s = 1..n /\ Len(s) = n
      /\ r \in Seq(Seq(Ids)) /\ Len(r) = n
      /\ \A b \in 1..n: s[b].st # "INIT" /\ Free(w, b)
  BY AllCollected
<1>2. Known(p, s, w, r) /\ Told(p, s, w, mail[p], r)
  BY MadeIs DEF IInv, Active
<1>3. \A b \in 1..n: BlockLen(p, b) = RowLens(c)[b] /\ Len(r[b]) = OutLens(r)[b]
  BY <1>1 DEF BlockLen, RowLens, OutLens
<1>4. ASSUME NEW b \in 1..n, NEW k, Final(p, s, w, r, b, k)
      PROVE  k[1] = RowLens(c)[b] /\ k[2] = OutLens(r)[b]
  <2>1. k = <<BlockLen(p, b), Len(r[b])>>
    BY <1>1, <1>4 DEF Final
  <2> QED BY <1>3, <2>1
<1>5. /\ Result(p).local = SumTo(c1, n) /\ Result(p).join = SumTo(c2, n)
      /\ Result(p).whole = (\A a \in DOMAIN mail[p]: mail[p][a] = << >>)
  BY <1>1 DEF Result, Total, CountsOf
<1>6. \A b \in 1..n: c1[b] = s[b].counts[1] /\ c2[b] = s[b].counts[2]
  BY <1>1 DEF CountsOf
<1>7. Numbers(RowLens(c), n) /\ Numbers(OutLens(r), n)
  <2>1. \A b \in 1..n: Len(Blocks(c)[b].rows) \in Nat
    BY <1>1, BlocksAre
  <2>2. \A b \in 1..n: Len(r[b]) \in Nat
    BY <1>1
  <2> QED BY <1>1, <2>1, <2>2 DEF Numbers, RowLens, OutLens
<1>8. /\ SumTo(RowLens(c), n) = Len(AllRows(p))
      /\ SumTo(OutLens(r), n) = Len(FlattenSeq(r))
  BY <1>1, RowsSum, OutSum DEF AllRows
<1> HIDE DEF c, n, s, r, w, c1, c2
<1>9. ZeroOr(c1, RowLens(c), n) /\ ZeroOr(c2, OutLens(r), n)
  <2> SUFFICES ASSUME NEW b \in 1..n
               PROVE  /\ c1[b] = 0 \/ c1[b] = RowLens(c)[b]
                      /\ c2[b] = 0 \/ c2[b] = OutLens(r)[b]
    BY DEF ZeroOr
  <2>1. CASE s[b].counts = <<0, 0>>
    BY <1>6, <2>1
  <2>2. CASE Final(p, s, w, r, b, s[b].counts)
    BY <1>4, <1>6, <2>2
  <2> QED BY <1>1, <1>2, <2>1, <2>2 DEF Known
<1>10. Result(p).local <= Len(AllRows(p)) /\ Result(p).join <= Len(FlattenSeq(r))
  BY <1>1, <1>5, <1>7, <1>8, <1>9, ZeroOrSum
<1>11. ASSUME Result(p).whole
       PROVE  Result(p).local = Len(AllRows(p)) /\ Result(p).join = Len(FlattenSeq(r))
  <2>0. \A a \in DOMAIN mail[p]: mail[p][a] = << >>
    BY <1>5, <1>11
  <2>1. \A b \in 1..n: ~Coming(mail[p], b)
    BY <2>0 DEF Coming
  <2>2. \A b \in 1..n: WorkOver(s, w, b)
    BY <1>1 DEF WorkOver, Free
  <2>3. \A b \in 1..n: Final(p, s, w, r, b, s[b].counts)
    BY <1>1, <1>2, <2>1, <2>2 DEF Told
  <2>4. Agree(c1, RowLens(c), n) /\ Agree(c2, OutLens(r), n)
    BY <1>4, <1>6, <2>3 DEF Agree
  <2>5. SumTo(c1, n) = SumTo(RowLens(c), n) /\ SumTo(c2, n) = SumTo(OutLens(r), n)
    BY <1>1, <2>4, SumAgree
  <2> QED BY <1>5, <1>8, <2>5
<1> QED
  BY <1>10, <1>11 DEF RightCounts, r

(* What has been reported of a job stands, and its output too.             *)
Stands(q) == /\ driver[q] = "reported" /\ conf' = conf
             /\ report'[q] = report[q] /\ refs'[q] = refs[q]

(* A job is reported once, and with that its output is final.              *)
LEMMA ReportedOnce ==
  ASSUME IInv, Next, NEW q \in Party, driver'[q] = "reported"
  PROVE  Stands(q) \/ Report(q)
<1>1. Indexed /\ Globals
  BY Split DEF IInv
<1>2. ASSUME UNCHANGED <<conf, driver, report, refs>> PROVE Stands(q)
  BY <1>2 DEF Stands
<1>3. ASSUME NEW p \in Party, NEW a \in DOMAIN worker[p], WriteBlock(p, a)
      PROVE  Stands(q)
  <2>1. driver[p] = "running" /\ driver' = driver
    BY <1>3, Working DEF WriteBlock
  <2>2. q # p
    BY <2>1
  <2> QED BY <1>1, <1>3, <2>1, <2>2 DEF WriteBlock, WritePart, Indexed, Stands
<1>4. ASSUME NEW p \in Party, WorkerStep(p) PROVE Stands(q)
  BY <1>2, <1>3, <1>4 DEF WorkerStep, ReadBlock, Deliver
<1>5. ASSUME NEW p \in Party, Prepare(p) PROVE Stands(q)
  <2>1. q # p
    BY <1>1, <1>5 DEF Prepare, Fail, SetNodeStatus, Globals
  <2> QED
    BY <1>1, <1>5, <2>1 DEF Prepare, Fail, SetNodeStatus, Globals, Indexed, Stands
<1>6. ASSUME NEW p \in Party, MergeOutput(p) PROVE Stands(q)
  BY <1>1, <1>6 DEF MergeOutput, Fail, SetNodeStatus, Globals, Stands
<1>7. ASSUME NEW p \in Party, NEW a \in DOMAIN worker[p], JobDone(p, a)
      PROVE  Stands(q)
  <2>1. q # p
    BY <1>1, <1>7 DEF JobDone, Globals
  <2> QED BY <1>1, <1>7, <2>1 DEF JobDone, Globals, Indexed, Stands
<1>8. ASSUME NEW p \in Party, NEW a \in DOMAIN worker[p], JobRaised(p, a)
      PROVE  Stands(q)
  BY <1>1, <1>8 DEF JobRaised, Fail, SetNodeStatus, Globals, Stands
<1>9. ASSUME NEW p \in Party, Report(p) PROVE Stands(q) \/ Report(q)
  <2>1. CASE q = p
    BY <1>9, <2>1
  <2>2. CASE q # p
    BY <1>1, <1>9, <2>2 DEF Report, SetNodeStatus, Globals, Stands
  <2> QED BY <2>1, <2>2
<1>10. CASE Meet
  BY <1>2, <1>10 DEF Meet, Exchange
<1>11. CASE Failures
  <2>1. ASSUME NEW p \in Party, Abort(p) PROVE Stands(q)
    BY <1>1, <2>1 DEF Abort, Fail, SetNodeStatus, Globals, Stands
  <2> QED BY <1>2, <1>11, <2>1
             DEF Failures, MeetFaulty, FaultyExchange, WorkerFails
<1>12. CASE GiveUp
  BY <1>2, <1>12 DEF GiveUp, Timeout
<1>13. CASE Done
  BY <1>2, <1>13 DEF Done, vars
<1> QED
  BY <1>4, <1>5, <1>6, <1>7, <1>8, <1>9, <1>10, <1>11, <1>12, <1>13
     DEF Next, DriverStep

(* In every reachable state the counts a job was reported with are at most *)
(* those of its input and of its output, and equal to them if no call of a *)
(* worker was still on its way: whatever the inputs and the schedules.     *)
THEOREM CountsReported == Spec => []ReportedCounts
<1>1. ReportedCounts <=>
        \A p \in Party: driver[p] = "reported" => RightCounts(p, report[p])
  BY DEF ReportedCounts, RightCounts
<1>2. ReportedCounts' <=>
        \A p \in Party: driver'[p] = "reported" => RightCounts(p, report[p])'
  BY DEF ReportedCounts, RightCounts
<1>3. Init => ReportedCounts /\ DOMAIN report = Party
  BY DEF Init, ReportedCounts
<1> DEFINE Kept == DOMAIN report = Party
<1>4. Kept /\ [Next]_vars => Kept'
  <2> SUFFICES ASSUME Kept, [Next]_vars PROVE Kept'
    OBVIOUS
  <2>1. CASE report' = report
    BY <2>1
  <2>2. ASSUME NEW p \in Party, Report(p) PROVE Kept'
    BY <2>2 DEF Report
  <2>3. ASSUME NEW p \in Party, WorkerStep(p) PROVE Kept'
    BY <2>1, <2>3 DEF WorkerStep, ReadBlock, WriteBlock, Deliver
  <2>4. ASSUME NEW p \in Party, DriverStep(p) PROVE Kept'
    BY <2>1, <2>2, <2>4 DEF DriverStep, Prepare, MergeOutput, JobDone, JobRaised
  <2>5. CASE Meet
    BY <2>1, <2>5 DEF Meet, Exchange
  <2>6. CASE Failures
    BY <2>1, <2>6 DEF Failures, MeetFaulty, FaultyExchange, Abort, WorkerFails
  <2>7. CASE GiveUp
    BY <2>1, <2>7 DEF GiveUp, Timeout
  <2>8. CASE Done \/ UNCHANGED vars
    BY <2>1, <2>8 DEF Done, vars
  <2> QED BY <2>3, <2>4, <2>5, <2>6, <2>7, <2>8 DEF Next
<1>5. IInv /\ Kept /\ ReportedCounts /\ [Next]_vars => ReportedCounts'
  <2> SUFFICES ASSUME IInv, Kept, ReportedCounts, [Next]_vars, NEW q \in Party,
                      driver'[q] = "reported"
               PROVE  RightCounts(q, report[q])'
    BY <1>2
  <2>1. CASE Stands(q)
    <3>1. RightCounts(q, report[q])
      BY <1>1, <2>1 DEF Stands
    <3> QED BY <2>1, <3>1 DEF Stands, RightCounts, AllRows
  <2>2. CASE UNCHANGED vars
    BY <2>1, <2>2 DEF vars, Stands
  <2>3. CASE Report(q)
    <3>1. RightCounts(q, Result(q))
      BY <2>3, CountsRight DEF Report
    <3>2. report'[q] = Result(q)
      BY <2>3 DEF Report
    <3> QED BY <2>3, <3>1, <3>2 DEF Report, RightCounts, AllRows
  <2> QED BY <2>1, <2>2, <2>3, ReportedOnce
<1> QED BY <1>3, <1>4, <1>5, Invariance, PTL DEF Spec
-----------------------------------------------------------------------------
(* The exchange of one block.  First, what the model is built from.        *)

(* s lists the elements of S in their order.                               *)
Enumerates(s, S) == s \in [1..Cardinality(S) -> S] /\ Ascending(s) /\ Range(s) = S

(* Every finite set of numbers has such a list: there is no least size of  *)
(* a set without one, since the least element can be put before the list   *)
(* of the others.                                                          *)
LEMMA ListExists ==
  ASSUME NEW S \in SUBSET Nat, IsFiniteSet(S)
  PROVE  \E s: Enumerates(s, S)
<1> DEFINE Bad == {n \in Nat: \E T \in SUBSET Nat: /\ IsFiniteSet(T)
                                                  /\ Cardinality(T) = n
                                                  /\ \A s: ~Enumerates(s, T)}
<1> SUFFICES Bad = {}
  BY FS_CardinalityType
<1> SUFFICES ASSUME Bad # {} PROVE FALSE
  OBVIOUS
<1>1. PICK n \in Bad: \A k \in Bad: n <= k
  BY LeastOf
<1>2. PICK T \in SUBSET Nat: IsFiniteSet(T) /\ Cardinality(T) = n /\ \A s: ~Enumerates(s, T)
  BY <1>1
<1>3. n \in Nat
  BY <1>1
<1>4. T # {}
  <2> SUFFICES ASSUME T = {} PROVE FALSE
    OBVIOUS
  <2>1. Cardinality(T) = 0
    BY FS_EmptySet
  <2>2. << >> \in [1..0 -> T] /\ Ascending(<< >>) /\ Range(<< >>) = T
    BY DEF Ascending, Range
  <2> QED
    BY <1>2, <2>1, <2>2 DEF Enumerates
<1>5. PICK m \in T: \A y \in T: m <= y
  BY <1>4, LeastOf
<1> DEFINE U == T \ {m}
<1>6. IsFiniteSet(U) /\ Cardinality(U) = n - 1
  BY <1>2, <1>5, FS_RemoveElement
<1>7. n - 1 \in Nat
  BY <1>6, FS_CardinalityType
<1>8. n - 1 \notin Bad
  BY <1>1, <1>3
<1>9. PICK g: Enumerates(g, U)
  BY <1>6, <1>7, <1>8
<1> HIDE DEF Bad
<1>10. g \in [1..(n - 1) -> U] /\ Range(g) = U
       /\ \A i, j \in 1..(n - 1): i < j => g[i] < g[j]
  BY <1>6, <1>9 DEF Enumerates, Ascending
<1> DEFINE h == [i \in 1..n |-> IF i = 1 THEN m ELSE g[i - 1]]
<1>11. \A i \in 1..n: i # 1 => i - 1 \in 1..(n - 1) /\ g[i - 1] \in U
  BY <1>3, <1>10
<1>12. h \in [1..n -> T]
  BY <1>11
<1>13. Ascending(h)
  <2> SUFFICES ASSUME NEW i \in 1..n, NEW j \in 1..n, i < j PROVE h[i] < h[j]
    BY DEF Ascending
  <2>1. j # 1 /\ h[j] = g[j - 1] /\ g[j - 1] \in U
    BY <1>3, <1>11
  <2>2. CASE i = 1
    <3>1. h[i] = m /\ m \in Nat /\ h[j] \in T /\ h[j] # m /\ h[j] \in Nat
      BY <2>1, <2>2
    <3> QED BY <1>5, <3>1
  <2>3. CASE i # 1
    <3>1. h[i] = g[i - 1] /\ i - 1 < j - 1 /\ i - 1 \in 1..(n - 1) /\ j - 1 \in 1..(n - 1)
      BY <1>3, <1>11, <2>1, <2>3
    <3> QED BY <1>10, <2>1, <3>1
  <2> QED BY <2>2, <2>3
<1>14. Range(h) = T
  <2>1. ASSUME NEW t \in T PROVE t \in Range(h)
    <3>1. CASE t = m
      <4>1. 1 \in 1..n
        BY <1>3, <1>7
      <4> QED BY <3>1, <4>1 DEF Range
    <3>2. CASE t # m
      <4>1. PICK i \in 1..(n - 1): g[i] = t
        BY <1>10, <3>2 DEF Range
      <4>2. i + 1 \in 1..n /\ i + 1 # 1 /\ (i + 1) - 1 = i
        BY <1>3
      <4>3. h[i + 1] = t
        BY <4>1, <4>2
      <4> QED BY <4>2, <4>3 DEF Range
    <3> QED BY <3>1, <3>2
  <2>2. ASSUME NEW t \in Range(h) PROVE t \in T
    BY <1>12 DEF Range
  <2> QED BY <2>1, <2>2
<1> QED
  BY <1>2, <1>12, <1>13, <1>14 DEF Enumerates

(* What InOrder returns.                                                   *)
LEMMA InOrderIs ==
  ASSUME NEW S \in SUBSET Nat, IsFiniteSet(S)
  PROVE  /\ InOrder(S) \in Seq(Nat) /\ Ascending(InOrder(S))
         /\ Range(InOrder(S)) = S
<1>1. Enumerates(InOrder(S), S)
  BY ListExists DEF InOrder, Enumerates
<1>2. Cardinality(S) \in Nat
  BY FS_CardinalityType
<1>3. InOrder(S) \in [1..Cardinality(S) -> Nat]
  BY <1>1 DEF Enumerates
<1>4. InOrder(S) \in Seq(Nat)
  BY <1>2, <1>3
<1> QED
  BY <1>1, <1>4 DEF Enumerates
-----------------------------------------------------------------------------
(* Two ascending sequences, the second above the first.                    *)
LEMMA AscendingConcat ==
  ASSUME NEW s \in Seq(Nat), NEW t \in Seq(Nat), Ascending(s), Ascending(t),
         \A x \in Range(s), y \in Range(t): x < y
  PROVE  /\ s \o t \in Seq(Nat) /\ Ascending(s \o t)
         /\ Range(s \o t) = Range(s) \cup Range(t)
<1> DEFINE c == s \o t
           m == Len(s)
           n == Len(t)
<1>1. m \in Nat /\ n \in Nat /\ DOMAIN s = 1..m /\ DOMAIN t = 1..n
  OBVIOUS
<1>2. /\ c \in Seq(Nat) /\ DOMAIN c = 1..(m + n)
      /\ \A i \in 1..m: c[i] = s[i]
      /\ \A i \in 1..n: c[m + i] = t[i]
  OBVIOUS
<1> HIDE DEF c, m, n
<1>3. \A i \in 1..(m + n): i \in 1..m \/ (i - m \in 1..n /\ c[i] = t[i - m])
  <2> TAKE i \in 1..(m + n)
  <2>1. i \in 1..m \/ (i - m \in 1..n /\ m + (i - m) = i)
    BY <1>1
  <2> QED BY <1>2, <2>1
<1>4. Ascending(c)
  <2> SUFFICES ASSUME NEW i \in 1..(m + n), NEW j \in 1..(m + n), i < j
               PROVE  c[i] < c[j]
    BY <1>2 DEF Ascending
  <2>1. CASE i \in 1..m /\ j \in 1..m
    BY <1>1, <1>2, <2>1 DEF Ascending
  <2>2. CASE i \in 1..m /\ j \notin 1..m
    <3>1. j - m \in 1..n /\ c[j] = t[j - m] /\ c[i] = s[i]
      BY <1>2, <1>3, <2>2
    <3>2. c[j] \in Range(t) /\ c[i] \in Range(s)
      BY <1>1, <2>2, <3>1 DEF Range
    <3> QED BY <3>2
  <2>3. CASE i \notin 1..m
    <3>1. j \notin 1..m
      BY <1>1, <2>3
    <3>2. /\ i - m \in 1..n /\ c[i] = t[i - m]
          /\ j - m \in 1..n /\ c[j] = t[j - m]
      BY <1>3, <2>3, <3>1
    <3>3. i - m < j - m
      BY <1>1
    <3> QED BY <1>1, <3>2, <3>3 DEF Ascending
  <2> QED BY <2>1, <2>2, <2>3
<1>5. Range(c) \subseteq Range(s) \cup Range(t)
  BY <1>1, <1>2, <1>3 DEF Range
<1>6. Range(s) \subseteq Range(c)
  <2>1. \A i \in 1..m: i \in 1..(m + n)
    BY <1>1
  <2> QED BY <1>1, <1>2, <2>1 DEF Range
<1>7. Range(t) \subseteq Range(c)
  <2>1. \A i \in 1..n: m + i \in 1..(m + n)
    BY <1>1
  <2> QED BY <1>1, <1>2, <2>1 DEF Range
<1> QED
  BY <1>2, <1>4, <1>5, <1>6, <1>7 DEF c

(* The next batch of a column comes after consecutive ones.                *)
LEMMA ConsecutiveAppend ==
  ASSUME NEW s \in Seq(Batches), NEW ids, NEW o \in Int, NEW keys, NEW m \in Batches,
         Consecutive(s, ids, o, keys), IsBatch(m, ids, o + Batch * Len(s), keys)
  PROVE  Consecutive(Append(s, m), ids, o, keys)
<1> DEFINE t == Append(s, m)
           n == Len(s)
<1>1. n \in Nat /\ Len(t) = n + 1 /\ t[n + 1] = m /\ \A i \in 1..n: t[i] = s[i]
  OBVIOUS
<1> HIDE DEF t
<1> SUFFICES ASSUME NEW i \in 1..(n + 1)
             PROVE  IsBatch(t[i], ids, o + Batch * (i - 1), keys)
  BY <1>1 DEF Consecutive, t
<1>2. CASE i \in 1..n
  BY <1>1, <1>2 DEF Consecutive
<1>3. CASE i = n + 1
  <2>1. i - 1 = n
    BY <1>1, <1>3
  <2> QED BY <1>1, <1>3, <2>1
<1> QED
  BY <1>1, <1>2, <1>3

(* The first of consecutive batches, and the others.                       *)
LEMMA ConsecutiveTail ==
  ASSUME NEW s \in Seq(Batches), NEW ids, NEW o \in Int, NEW keys, s # << >>,
         Consecutive(s, ids, o, keys)
  PROVE  /\ IsBatch(Head(s), ids, o, keys) /\ Head(s) \in Batches
         /\ Consecutive(Tail(s), ids, o + Batch, keys)
<1> DEFINE t == Tail(s)
           n == Len(s)
<1>1. /\ n \in Nat \ {0} /\ Len(t) = n - 1 /\ \A i \in 1..(n - 1): t[i] = s[i + 1]
      /\ Head(s) = s[1] /\ s[1] \in Batches
  OBVIOUS
<1>2. Batch \in Nat
  BY BoundsAssumption
<1>3. IsBatch(s[1], ids, o, keys)
  <2>1. 1 \in 1..n /\ o + Batch * (1 - 1) = o
    BY <1>1, <1>2
  <2>2. IsBatch(s[1], ids, o + Batch * (1 - 1), keys)
    BY <2>1 DEF Consecutive
  <2> QED BY <2>1, <2>2
<1> HIDE DEF t
<1>4. ASSUME NEW i \in 1..(n - 1)
      PROVE  IsBatch(t[i], ids, (o + Batch) + Batch * (i - 1), keys)
  <2>1. i + 1 \in 1..n /\ t[i] = s[i + 1] /\ i \in Int
    BY <1>1
  <2>2. IsBatch(s[i + 1], ids, o + Batch * ((i + 1) - 1), keys)
    BY <2>1 DEF Consecutive
  <2>3. o + Batch * ((i + 1) - 1) = (o + Batch) + Batch * (i - 1)
    BY <1>2, <2>1
  <2> QED BY <2>1, <2>2, <2>3
<1> QED
  BY <1>1, <1>3, <1>4 DEF Consecutive, t

(* The size of one more batch, and of one less.                            *)
LEMMA OneMore ==
  ASSUME NEW n \in Nat
  PROVE  /\ Batch \in Nat \ {0}
         /\ Batch * n \in Nat
         /\ Batch * (n + 1) = Batch * n + Batch
         /\ n > 0 => Batch * (n - 1) = Batch * n - Batch
  BY BoundsAssumption
-----------------------------------------------------------------------------
(* What is invariant of the way of p's ids, and the part of the invariant  *)
(* the rest follows from.                                                  *)
Taken(p) == /\ Ascending(taken[p])
            /\ Range(taken[p]) = CommonPositions(p) \cap 1..index[p]
            /\ thread[p]["recvDual"] = "end" => index[p] = Len(input[p])

Way(p) == Pipeline(p) /\ Progress(p) /\ Collected(p) /\ Taken(p)

FlowCore == FlowTypeOK /\ Shaken /\ \A p \in Side: Way(p)

(* The two sides.                                                          *)
LEMMA TwoSides ==
  ASSUME NEW p \in Side
  PROVE  /\ Other(p) \in Side /\ Other(p) # p /\ Other(Other(p)) = p
         /\ {p, Other(p)} = Side
  BY DEF Side, Other

(* The columns.                                                            *)
LEMMA InputType ==
  ASSUME FlowTypeOK, NEW p \in Side
  PROVE  /\ input[p] \in Seq(HashedIds) /\ Len(input[p]) \in Nat
         /\ DOMAIN input[p] = 1..Len(input[p])
         /\ offer[p] \in Offer
  BY InputsAssumption DEF FlowTypeOK

(* Each place is as far as the next one, or further.                       *)
LEMMA Offsets ==
  ASSUME FlowTypeOK, NEW p \in Side, Pipeline(p)
  PROVE  /\ Fetched(p) \in Nat /\ Queued(p) \in Nat
         /\ Returned(p) \in Nat /\ LookedUp(p) \in Nat /\ sent[p] \in Nat
         /\ LookedUp(p) <= Returned(p) /\ Returned(p) <= Queued(p)
         /\ Queued(p) <= Fetched(p) /\ Fetched(p) <= sent[p]
<1> DEFINE q == Other(p)
<1>1. q \in Side
  BY TwoSides
<1>2. /\ Len(main[p]) \in Nat /\ Len(queue[q]) \in Nat
      /\ Len(dua[q]) \in Nat /\ Len(held[p]) \in Nat /\ sent[p] \in Nat
  BY <1>1 DEF FlowTypeOK
<1>3. /\ Batch * Len(main[p]) \in Nat /\ Batch * Len(queue[q]) \in Nat
      /\ Batch * Len(dua[q]) \in Nat /\ Batch * Len(held[p]) \in Nat
  BY <1>2, OneMore
<1>4. LookedUp(p) >= 0
  BY DEF Pipeline
<1> DEFINE a == Batch * Len(main[p])
           b == Batch * Len(queue[q])
           c == Batch * Len(dua[q])
           d == Batch * Len(held[p])
<1>5. /\ Fetched(p) = sent[p] - a /\ Queued(p) = Fetched(p) - b
      /\ Returned(p) = Queued(p) - c /\ LookedUp(p) = Returned(p) - d
  BY DEF Fetched, Queued, Returned, LookedUp
<1> HIDE DEF a, b, c, d
<1>6. a \in Nat /\ b \in Nat /\ c \in Nat /\ d \in Nat
  BY <1>3 DEF a, b, c, d
<1>7. Fetched(p) \in Int /\ Fetched(p) <= sent[p]
  BY <1>2, <1>5, <1>6
<1>8. Queued(p) \in Int /\ Queued(p) <= Fetched(p)
  BY <1>5, <1>6, <1>7
<1>9. Returned(p) \in Int /\ Returned(p) <= Queued(p)
  BY <1>5, <1>6, <1>8
<1>10. LookedUp(p) \in Int /\ LookedUp(p) <= Returned(p)
  BY <1>5, <1>6, <1>9
<1> QED
  BY <1>2, <1>4, <1>7, <1>8, <1>9, <1>10

(* A sequence that takes no room is empty.                                 *)
LEMMA NoRoom ==
  ASSUME NEW s \in Seq(Batches), NEW x \in Nat, NEW y \in Nat, x = y - Batch * Len(s)
  PROVE  /\ x = y \/ x + Batch <= y
         /\ x = y => s = << >>
<1>1. Len(s) \in Nat /\ (Len(s) = 0 => s = << >>)
  OBVIOUS
<1>2. Len(s) > 0 => Batch * (Len(s) - 1) = Batch * Len(s) - Batch
  BY <1>1, OneMore
<1>3. Len(s) > 0 => Batch * (Len(s) - 1) \in Nat
  BY <1>1, OneMore
<1>4. Batch \in Nat \ {0} /\ Batch * Len(s) \in Nat
  BY <1>1, OneMore
<1>5. CASE Len(s) > 0
  BY <1>2, <1>3, <1>4, <1>5
<1>6. CASE Len(s) = 0
  <2>1. Batch * Len(s) = 0
    BY <1>4, <1>6
  <2> QED BY <1>1, <1>6, <2>1
<1> QED
  BY <1>1, <1>5, <1>6

(* Where the last batch has come through, none is before.                  *)
LEMMA NothingBefore ==
  ASSUME FlowTypeOK, NEW p \in Side, Pipeline(p)
  PROVE  /\ Complete(Fetched(p), input[p]) =>
              main[p] = << >> /\ sent[p] = Fetched(p)
         /\ Complete(LookedUp(p), input[p]) =>
              /\ dua[Other(p)] = << >>
              /\ Queued(p) = LookedUp(p)
<1> DEFINE q == Other(p)
           n == Len(input[p])
<1>1. q \in Side /\ n \in Nat
  BY TwoSides, InputType
<1>2. /\ Fetched(p) \in Nat /\ Queued(p) \in Nat
      /\ Returned(p) \in Nat /\ LookedUp(p) \in Nat /\ sent[p] \in Nat
      /\ LookedUp(p) <= Returned(p) /\ Returned(p) <= Queued(p)
      /\ Queued(p) <= Fetched(p) /\ Fetched(p) <= sent[p]
  BY Offsets
<1>3. sent[p] = 0 \/ sent[p] = Batch \/ sent[p] - Batch < n
  BY DEF Pipeline
<1>4. Batch \in Nat \ {0}
  BY BoundsAssumption
<1>5. /\ main[p] \in Seq(Batches) /\ queue[q] \in Seq(Batches)
      /\ dua[q] \in Seq(Batches) /\ held[p] \in Seq(Batches)
  BY <1>1 DEF FlowTypeOK
<1>6. /\ Fetched(p) = sent[p] \/ Fetched(p) + Batch <= sent[p]
      /\ Fetched(p) = sent[p] => main[p] = << >>
  BY <1>2, <1>5, NoRoom DEF Fetched
<1>7. Queued(p) = Fetched(p) \/ Queued(p) + Batch <= Fetched(p)
  BY <1>2, <1>5, NoRoom DEF Queued
<1>8. /\ Returned(p) = Queued(p) \/ Returned(p) + Batch <= Queued(p)
      /\ Returned(p) = Queued(p) => dua[q] = << >>
  BY <1>2, <1>5, NoRoom DEF Returned
<1>9. LookedUp(p) = Returned(p) \/ LookedUp(p) + Batch <= Returned(p)
  BY <1>2, <1>5, NoRoom DEF LookedUp
<1>10. Complete(Fetched(p), input[p]) => Fetched(p) = sent[p]
  BY <1>1, <1>2, <1>3, <1>4, <1>6 DEF Complete
<1>11. Complete(LookedUp(p), input[p]) =>
         LookedUp(p) = Returned(p) /\ Returned(p) = Queued(p)
  BY <1>1, <1>2, <1>3, <1>4, <1>6, <1>7, <1>8, <1>9 DEF Complete
<1> QED
  BY <1>6, <1>8, <1>10, <1>11

(* Whom the result goes to.                                                *)
LEMMA RolesMatch ==
  ASSUME FlowTypeOK, NEW p \in Side, offer["sender"].toRank = offer["receiver"].toRank
  PROVE  /\ NeedRecv(p) <=> NeedSend(Other(p))
         /\ NeedRecv("sender") => offer[p].toRank = -1
<1>1. offer["sender"].toRank \in {-1, 1}
  BY InputType DEF Side, Offer
<1> QED
  BY <1>1 DEF Side, Other, NeedRecv, NeedSend

(* What is promised of the contexts and of the end of a call follows.      *)
LEMMA CoreIsEnough == ASSUME FlowCore PROVE FlowInv
<1>1. AgreedContext
  <2>1. ASSUME NEW p \in Side, pc[p] = "flow"
        PROVE  /\ suit[p] = suit["receiver"]
               /\ NeedRecv(p) <=> NeedSend(Other(p))
    <3>1. suit[p] = suit["receiver"]
      BY <2>1 DEF FlowCore, Shaken, Side
    <3>2. offer["sender"].toRank = offer["receiver"].toRank
      BY <2>1 DEF FlowCore, Shaken
    <3> QED BY <3>1, <3>2, RolesMatch DEF FlowCore
  <2>2. ASSUME NeedRecv("sender"), pc["sender"] = "returned", NEW p \in Side
        PROVE  offer[p].toRank = -1
    <3>1. offer["sender"].toRank = offer["receiver"].toRank
      BY <2>2 DEF FlowCore, Shaken, Side
    <3> QED BY <2>2, <3>1, RolesMatch DEF FlowCore
  <2> QED BY <2>1, <2>2 DEF AgreedContext
<1>2. KeptWhileNeeded
  <2> SUFFICES ASSUME NEW p \in Side, pc[p] = "returned",
                      \A x \in Side, t \in Threads: thread[x][t] # "dead"
               PROVE  /\ main[Other(p)] = << >> /\ dua[Other(p)] = << >>
                      /\ Over(Other(p), "enc") /\ Over(Other(p), "sendDual")
    BY DEF KeptWhileNeeded
  <2> DEFINE q == Other(p)
  <2>1. q \in Side /\ Other(q) = p
    BY TwoSides
  <2>2. /\ FlowTypeOK /\ Pipeline(p) /\ Pipeline(q)
        /\ Progress(p) /\ Progress(q)
    BY <2>1 DEF FlowCore, Way
  <2>3. \A x \in Side, t \in Threads: thread[x][t] \in {"off", "run", "end"}
    BY <2>2 DEF FlowTypeOK
  <2>4. /\ offer["sender"].toRank = offer["receiver"].toRank
        /\ thread[p]["recv"] # "off" /\ (NeedRecv(p) => thread[p]["recvDual"] # "off")
        /\ \A t \in Threads: thread[p][t] # "run"
    BY DEF FlowCore, Shaken, Over
  <2>5. thread[p]["recv"] = "end"
    BY <2>3, <2>4 DEF Threads
  <2>6. Complete(Fetched(q), input[q])
    BY <2>1, <2>2, <2>5 DEF Progress
  <2>7. main[q] = << >> /\ sent[q] = Fetched(q)
    BY <2>1, <2>2, <2>6, NothingBefore
  <2>8. Over(q, "enc")
    <3>1. thread[q]["enc"] # "run"
      BY <2>1, <2>2, <2>6, <2>7 DEF Progress
    <3> QED BY <2>1, <2>3, <3>1 DEF Over, Threads
  <2>9. CASE thread[p]["recvDual"] = "off"
    <3>1. ~NeedSend(q)
      BY <2>2, <2>4, <2>9, RolesMatch
    <3>2. thread[q]["sendDual"] = "off"
      BY <2>1, <3>1 DEF FlowCore, Shaken
    <3>3. dua[q] = << >>
      BY <2>2, <3>2 DEF Progress
    <3> QED BY <2>7, <2>8, <3>2, <3>3 DEF Over
  <2>10. CASE thread[p]["recvDual"] # "off"
    <3>1. thread[p]["recvDual"] = "end"
      BY <2>3, <2>4, <2>10 DEF Threads
    <3>2. Complete(LookedUp(p), input[p])
      BY <2>2, <3>1 DEF Progress
    <3>3. dua[q] = << >> /\ Queued(p) = LookedUp(p)
      BY <2>2, <3>2, NothingBefore
    <3>4. thread[q]["sendDual"] # "run"
      BY <2>2, <3>2, <3>3 DEF Progress
    <3>5. Over(q, "sendDual")
      BY <2>1, <2>3, <3>4 DEF Over, Threads
    <3> QED BY <2>7, <2>8, <3>3, <3>5
  <2> QED
    BY <2>9, <2>10
<1>3. TakesCommon
  BY DEF FlowCore, Way, Taken, TakesCommon
<1>4. WholeUnlessCut
  <2> SUFFICES ASSUME NEW p \in Side, pc[p] = "returned", NeedRecv(p),
                      thread[p]["recvDual"] # "dead"
               PROVE  Ascending(taken[p]) /\ Range(taken[p]) = CommonPositions(p)
    BY DEF WholeUnlessCut
  <2>1. thread[p]["recvDual"] = "end"
    BY DEF FlowCore, Shaken, Over, Threads
  <2>2. /\ Ascending(taken[p]) /\ index[p] = Len(input[p])
        /\ Range(taken[p]) = CommonPositions(p) \cap 1..index[p]
    BY <2>1 DEF FlowCore, Way, Taken
  <2>3. DOMAIN input[p] = 1..Len(input[p])
    BY InputType DEF FlowCore
  <2> QED BY <2>2, <2>3 DEF CommonPositions
<1> QED
  BY <1>1, <1>2, <1>3, <1>4 DEF FlowCore, FlowInv, Way
-----------------------------------------------------------------------------
(* A thread that goes on, or that an error ends.                           *)
Spared(p, t) == \/ thread'[p][t] = thread[p][t]
                \/ thread[p][t] = "run" /\ thread'[p][t] = "dead"

(* What stands on the way of p's ids stays, but for threads that die.      *)
LEMMA WayFrame ==
  ASSUME NEW p \in Side, Way(p), input' = input, offer' = offer,
         main'[p] = main[p], sent'[p] = sent[p], held'[p] = held[p],
         index'[p] = index[p], taken'[p] = taken[p],
         queue'[Other(p)] = queue[Other(p)], dua'[Other(p)] = dua[Other(p)],
         known'[Other(p)] = known[Other(p)], done'[Other(p)] = done[Other(p)],
         Spared(p, "enc"), Spared(Other(p), "recv"),
         Spared(Other(p), "sendDual"), Spared(p, "recvDual")
  PROVE  Way(p)'
<1> DEFINE q == Other(p)
<1>1. /\ Fetched(p)' = Fetched(p) /\ Queued(p)' = Queued(p)
      /\ Returned(p)' = Returned(p) /\ LookedUp(p)' = LookedUp(p)
  BY DEF Fetched, Queued, Returned, LookedUp
<1>2. Pipeline(p)'
  BY <1>1 DEF Way, Pipeline
<1>3. Progress(p)'
  BY <1>1 DEF Way, Progress, Spared
<1>4. Collected(p)'
  BY <1>1 DEF Way, Collected, NeedRecv
<1>5. Taken(p)'
  BY DEF Way, Taken, CommonPositions, Spared
<1> QED
  BY <1>2, <1>3, <1>4, <1>5 DEF Way

(* A running thread ends or dies: the others stay, and so does what the    *)
(* handshake left behind.                                                  *)
LEMMA ThreadEnds ==
  ASSUME FlowTypeOK, Shaken, NEW p \in Side, NEW t \in Threads, Running(p, t),
         NEW r \in {"run", "end", "dead"},
         thread' = [thread EXCEPT ![p][t] = r],
         pc' = pc, suit' = suit, offer' = offer
  PROVE  /\ thread' \in [Side -> [Threads -> {"off", "run", "end", "dead"}]]
         /\ thread'[p][t] = r
         /\ \A x \in Side, u \in Threads:
              x # p \/ u # t => thread'[x][u] = thread[x][u]
         /\ Shaken'
<1>1. thread \in [Side -> [Threads -> {"off", "run", "end", "dead"}]]
  BY DEF FlowTypeOK
<1>2. /\ thread' \in [Side -> [Threads -> {"off", "run", "end", "dead"}]]
      /\ thread'[p][t] = r
      /\ \A x \in Side, u \in Threads:
           x # p \/ u # t => thread'[x][u] = thread[x][u]
  BY <1>1
<1>3. \A x \in Side, u \in Threads: thread'[x][u] = "off" <=> thread[x][u] = "off"
  BY <1>2 DEF Running
<1>4. pc[p] = "flow" /\ thread[p][t] = "run"
  BY DEF Running
<1>5. ASSUME NEW x \in Side
      PROVE  /\ pc[x] \in {"new", "start", "proposed"} =>
                  \A u \in Threads: thread'[x][u] = "off"
             /\ pc[x] \in {"flow", "returned"} =>
                  /\ offer["sender"].toRank = offer["receiver"].toRank
                  /\ thread'[x]["recv"] # "off"
                  /\ NeedRecv(x) => thread'[x]["recvDual"] # "off"
             /\ pc[x] = "returned" => \A u \in Threads: Over(x, u)'
             /\ thread'[x]["recvDual"] # "off" => NeedRecv(x)
             /\ thread'[x]["sendDual"] # "off" => NeedSend(x)
  <2>1. pc[x] \in {"new", "start", "proposed"} =>
          \A u \in Threads: thread'[x][u] = "off"
    BY <1>3, <1>5 DEF Shaken
  <2>2. pc[x] \in {"flow", "returned"} =>
          /\ offer["sender"].toRank = offer["receiver"].toRank
          /\ thread'[x]["recv"] # "off"
          /\ NeedRecv(x) => thread'[x]["recvDual"] # "off"
    BY <1>3, <1>5 DEF Shaken, Threads
  <2>3. pc[x] = "returned" => \A u \in Threads: Over(x, u)'
    <3>1. pc[x] = "returned" => x # p
      BY <1>4
    <3>2. pc[x] = "returned" => \A u \in Threads: Over(x, u)
      BY <1>5 DEF Shaken
    <3> QED BY <1>2, <1>5, <3>1, <3>2 DEF Over
  <2>4. /\ thread'[x]["recvDual"] # "off" => NeedRecv(x)
        /\ thread'[x]["sendDual"] # "off" => NeedSend(x)
    BY <1>3, <1>5 DEF Shaken, Threads
  <2> QED BY <2>1, <2>2, <2>3, <2>4
<1>6. \A x \in Side: (NeedRecv(x)' <=> NeedRecv(x)) /\ (NeedSend(x)' <=> NeedSend(x))
  BY DEF NeedRecv, NeedSend
<1>7. Shaken'
  BY <1>5, <1>6 DEF Shaken
<1> QED
  BY <1>2, <1>7

(* The same for a thread that may go on.                                   *)
LEMMA ThreadGoesOn ==
  ASSUME FlowTypeOK, Shaken, NEW p \in Side, NEW t \in Threads, Running(p, t),
         NEW last \in BOOLEAN, EndIf(p, t, last),
         pc' = pc, suit' = suit, offer' = offer
  PROVE  /\ thread' \in [Side -> [Threads -> {"off", "run", "end", "dead"}]]
         /\ thread'[p][t] = (IF last THEN "end" ELSE "run")
         /\ \A x \in Side, u \in Threads:
              x # p \/ u # t => thread'[x][u] = thread[x][u]
         /\ Shaken'
<1>1. CASE last
  <2>1. thread' = [thread EXCEPT ![p][t] = "end"]
    BY <1>1 DEF EndIf
  <2> QED BY <1>1, <2>1, ThreadEnds
<1>2. CASE ~last
  <2>1. thread' = [thread EXCEPT ![p][t] = "run"]
    BY <1>2 DEF EndIf, Running, FlowTypeOK
  <2> QED BY <1>2, <2>1, ThreadEnds
<1> QED
  BY <1>1, <1>2
-----------------------------------------------------------------------------
(* One step of each thread.                                                *)

(* The batch "enc" sends is the next one of the column.                    *)
LEMMA NextBatch ==
  ASSUME NEW col \in Seq(HashedIds), NEW o \in Nat, NEW p \in Side,
         o = 0 \/ o < Len(col), NEW last, last = (Len(col) = 0 \/ IsLastBatch(o, Len(col)))
  PROVE  LET m == Msg(Encrypt(p, SubSeq(col, o + 1, Min({o + Batch, Len(col)}))), last)
         IN  m \in Batches /\ IsBatch(m, col, o, {p})
<1> DEFINE n == Len(col)
           e == Min({o + Batch, n})
           ids == SubSeq(col, o + 1, e)
           m == Msg(Encrypt(p, ids), last)
<1>1. Batch \in Nat \ {0} /\ n \in Nat
  BY BoundsAssumption
<1>2. e = IF o + Batch <= n THEN o + Batch ELSE n
  BY <1>1 DEF Min
<1> HIDE DEF e
<1>3. e \in Nat /\ o <= e /\ e <= n
  BY <1>1, <1>2
<1>4. /\ ids \in Seq(HashedIds) /\ Len(ids) = e - o
      /\ \A i \in 1..(e - o): ids[i] = col[o + i]
  <2>1. ids \in Seq(HashedIds)
    BY <1>1, <1>3
  <2>2. Len(ids) = e - o
    BY <1>1, <1>3
  <2>3. \A i \in 1..(e - o): ids[i] = col[o + i]
    BY <1>1, <1>3
  <2> QED BY <2>1, <2>2, <2>3
<1> HIDE DEF ids
<1>5. /\ m.last = last /\ m.arr = [i \in 1..(e - o) |-> [id |-> ids[i], keys |-> {p}]]
      /\ m = [arr |-> m.arr, last |-> m.last]
  BY <1>3, <1>4 DEF Msg, Encrypt
<1> HIDE DEF m
<1>6. m.arr \in Seq(Ciphers)
  <2>1. \A i \in 1..(e - o): ids[i] \in HashedIds
    BY <1>3, <1>4
  <2>2. m.arr \in [1..(e - o) -> Ciphers]
    BY <1>5, <2>1 DEF Ciphers, Side
  <2> QED BY <1>3, <2>2
<1>7. last \in BOOLEAN
  OBVIOUS
<1>8. m \in Batches
  BY <1>5, <1>6, <1>7 DEF Batches
<1>9. Len(m.arr) = e - o
  BY <1>3, <1>5
<1>10. m.last <=> o + Batch >= n
  <2>1. (n = 0 \/ IsLastBatch(o, n)) <=> o + Batch >= n
    BY <1>1 DEF IsLastBatch
  <2>2. last <=> (n = 0 \/ IsLastBatch(o, n))
    OBVIOUS
  <2>3. m.last <=> last
    BY <1>5
  <2> QED BY <2>1, <2>2, <2>3
<1>11. Len(m.arr) = IF o + Batch <= n THEN Batch ELSE n - o
  BY <1>1, <1>2, <1>9
<1>12. \A i \in 1..Len(m.arr): m.arr[i] = [id |-> col[o + i], keys |-> {p}]
  BY <1>4, <1>5, <1>9
<1>13. IsBatch(m, col, o, {p})
  BY <1>10, <1>11, <1>12 DEF IsBatch
<1> QED
  BY <1>8, <1>13 DEF m, ids, e

(* "enc" adds the next batch behind those under way.                       *)
LEMMA SendEncryptedStep ==
  ASSUME FlowCore, NEW p \in Side, SendEncrypted(p)
  PROVE  FlowCore'
<1> DEFINE q == Other(p)
           n == Len(input[p])
           o == sent[p]
           last == n = 0 \/ IsLastBatch(o, n)
           ids == SubSeq(input[p], o + 1, Min({o + Batch, n}))
           m == Msg(Encrypt(p, ids), last)
           over == last \/ o + Batch >= n
<1>1. /\ FlowTypeOK /\ Shaken /\ Way(p) /\ Way(q) /\ q \in Side /\ q # p
      /\ Other(q) = p /\ {p, q} = Side
  BY TwoSides DEF FlowCore
<1>2. /\ input[p] \in Seq(HashedIds) /\ n \in Nat /\ o \in Nat
      /\ Batch \in Nat \ {0} /\ main[p] \in Seq(Batches)
      /\ main \in [Side -> Seq(Batches)] /\ sent \in [Side -> Nat]
  BY <1>1, InputType, BoundsAssumption DEF FlowTypeOK
<1>3. /\ Running(p, "enc") /\ Len(main[p]) < Window
      /\ main' = [main EXCEPT ![p] = Append(@, m)]
      /\ sent' = [sent EXCEPT ![p] = @ + Batch]
      /\ EndIf(p, "enc", over)
      /\ UNCHANGED <<input, offer, pc, suit, dua, queue, known, done, held,
                     index, taken, linkErrors>>
  BY DEF SendEncrypted, handshake, store
<1>4. o = 0 \/ o < n
  <2>1. ~Complete(o, input[p])
    BY <1>1, <1>3 DEF Way, Progress, Running
  <2> QED BY <1>2, <2>1 DEF Complete
<1>5. m \in Batches /\ IsBatch(m, input[p], o, {p})
  BY <1>2, <1>4, NextBatch
<1>6. over <=> o + Batch >= n
  BY <1>2 DEF IsLastBatch
<1> HIDE DEF m, over
<1>7. /\ main'[p] = Append(main[p], m) /\ main'[q] = main[q]
      /\ sent'[p] = o + Batch /\ sent'[q] = sent[q]
      /\ main' \in [Side -> Seq(Batches)] /\ sent' \in [Side -> Nat]
      /\ Len(main'[p]) = Len(main[p]) + 1
  BY <1>1, <1>2, <1>3, <1>5
<1>8. /\ thread' \in [Side -> [Threads -> {"off", "run", "end", "dead"}]]
      /\ thread'[p]["enc"] = (IF over THEN "end" ELSE "run")
      /\ \A x \in Side, u \in Threads:
           x # p \/ u # "enc" => thread'[x][u] = thread[x][u]
      /\ Shaken'
  <2>1. over \in BOOLEAN
    BY DEF over
  <2> QED BY <1>1, <1>3, <2>1, ThreadGoesOn DEF Threads
<1>9. FlowTypeOK'
  <2>1. \A x \in Side: Len(main'[x]) <= Window
    <3>1. Len(main[p]) \in Nat /\ Window \in Nat /\ Len(main[q]) <= Window
      BY <1>1, <1>2, BoundsAssumption DEF FlowTypeOK
    <3> QED BY <1>1, <1>3, <1>7, <3>1
  <2> QED BY <1>1, <1>3, <1>7, <1>8, <2>1 DEF FlowTypeOK
<1>10. Way(q)'
  <2>1. Spared(q, "enc") /\ Spared(p, "recv") /\ Spared(p, "sendDual") /\ Spared(q, "recvDual")
    BY <1>1, <1>8 DEF Spared, Threads
  <2> QED BY <1>1, <1>3, <1>7, <2>1, WayFrame
<1>11. /\ Fetched(p)' = Fetched(p) /\ Queued(p)' = Queued(p)
       /\ Returned(p)' = Returned(p) /\ LookedUp(p)' = LookedUp(p)
       /\ Fetched(p) \in Int /\ Fetched(p) + Batch * Len(main[p]) = o
  <2>1. Len(main[p]) \in Nat
    BY <1>2
  <2>2. Batch * Len(main[p]) \in Nat
        /\ Batch * (Len(main[p]) + 1) = Batch * Len(main[p]) + Batch
    BY <2>1, OneMore
  <2>3. /\ Fetched(p)' = Fetched(p) /\ Fetched(p) \in Int
        /\ Fetched(p) + Batch * Len(main[p]) = o
    BY <1>2, <1>7, <2>2 DEF Fetched
  <2> QED BY <1>3, <2>3 DEF Queued, Returned, LookedUp
<1>12. Pipeline(p)'
  <2>1. Consecutive(main'[p], input[p], Fetched(p), {p})
    BY <1>1, <1>2, <1>5, <1>7, <1>11, ConsecutiveAppend DEF Way, Pipeline
  <2>2. sent'[p] = Batch \/ sent'[p] - Batch < n
    BY <1>2, <1>4, <1>7
  <2> QED BY <1>1, <1>3, <1>11, <2>1, <2>2 DEF Way, Pipeline
<1>13. Progress(p)'
  <2>1. thread'[p]["enc"] = "run" => ~Complete(sent'[p], input[p])
    BY <1>2, <1>6, <1>7, <1>8 DEF Complete
  <2>2. thread'[p]["enc"] # "off"
    BY <1>8
  <2>3. /\ thread'[q]["recv"] = thread[q]["recv"]
        /\ thread'[q]["sendDual"] = thread[q]["sendDual"]
        /\ thread'[p]["recvDual"] = thread[p]["recvDual"]
    BY <1>1, <1>8 DEF Threads
  <2> QED BY <1>1, <1>3, <1>11, <2>1, <2>2, <2>3 DEF Way, Progress
<1>14. Collected(p)'
  BY <1>1, <1>3, <1>11 DEF Way, Collected, NeedRecv
<1>15. Taken(p)'
  <2>1. thread'[p]["recvDual"] = thread[p]["recvDual"]
    BY <1>8 DEF Threads
  <2> QED BY <1>1, <1>3, <2>1 DEF Way, Taken, CommonPositions
<1> QED
  BY <1>1, <1>8, <1>9, <1>10, <1>12, <1>13, <1>14, <1>15 DEF FlowCore, Way

(* A cipher under the second key.                                          *)
LEMMA AddsKey ==
  ASSUME NEW x, NEW p, NEW keys, NEW c, c = [id |-> x, keys |-> keys]
  PROVE  [c EXCEPT !.keys = @ \cup {p}] = [id |-> x, keys |-> keys \cup {p}]
  OBVIOUS

(* A batch under the second key.                                           *)
LEMMA SecondKey ==
  ASSUME NEW p \in Side, NEW m \in Batches, NEW col, NEW o \in Nat,
         IsBatch(m, col, o, {Other(p)})
  PROVE  LET d == Msg(DiffieHellman(p, m.arr), m.last)
         IN  d \in Batches /\ IsBatch(d, col, o, Side)
<1> DEFINE d == Msg(DiffieHellman(p, m.arr), m.last)
           k == Len(m.arr)
<1>1. m.arr \in Seq(Ciphers) /\ m.last \in BOOLEAN /\ k \in Nat /\ DOMAIN m.arr = 1..k
  BY DEF Batches
<1>2. /\ d.last = m.last /\ d = [arr |-> d.arr, last |-> d.last]
      /\ d.arr = [i \in 1..k |-> [m.arr[i] EXCEPT !.keys = @ \cup {p}]]
  BY <1>1 DEF Msg, DiffieHellman
<1> HIDE DEF d
<1>3. {Other(p)} \cup {p} = Side
  BY DEF Side, Other
<1>4. \A i \in 1..k: m.arr[i] = [id |-> col[o + i], keys |-> {Other(p)}]
  BY DEF IsBatch
<1> HIDE DEF k
<1>5. \A i \in 1..k: d.arr[i] = [id |-> col[o + i], keys |-> Side]
  <2> TAKE i \in 1..k
  <2>1. m.arr[i] = [id |-> col[o + i], keys |-> {Other(p)}]
    BY <1>4
  <2>2. d.arr[i] = [m.arr[i] EXCEPT !.keys = @ \cup {p}]
    BY <1>2
  <2>3. d.arr[i] = [id |-> col[o + i], keys |-> {Other(p)} \cup {p}]
    <3> DEFINE c == m.arr[i]
               x == col[o + i]
               y == {Other(p)}
    <3> HIDE DEF c, x, y
    <3>1. c = [id |-> x, keys |-> y]
      BY <2>1 DEF c, x, y
    <3>2. [c EXCEPT !.keys = @ \cup {p}] = [id |-> x, keys |-> y \cup {p}]
      BY <3>1, AddsKey
    <3> QED BY <2>2, <3>2 DEF c, x, y
  <2> QED BY <1>3, <2>3
<1>6. \A i \in 1..k: d.arr[i] \in Ciphers
  <2> TAKE i \in 1..k
  <2>1. m.arr[i] \in Ciphers
    BY <1>1
  <2>2. m.arr[i].id = col[o + i] /\ m.arr[i].id \in HashedIds
    <3>1. m.arr[i] = [id |-> col[o + i], keys |-> {Other(p)}]
      BY <1>4
    <3> QED BY <2>1, <3>1 DEF Ciphers
  <2>3. d.arr[i] = [id |-> col[o + i], keys |-> Side]
    BY <1>5
  <2>4. [id |-> col[o + i], keys |-> Side] \in Ciphers
    BY <2>2 DEF Ciphers
  <2> QED BY <2>3, <2>4
<1>7. d.arr \in Seq(Ciphers) /\ Len(d.arr) = k
  <2>1. d.arr \in [1..k -> Ciphers]
    BY <1>2, <1>6
  <2> QED BY <1>1, <2>1
<1>8. d \in Batches
  BY <1>1, <1>2, <1>7 DEF Batches
<1>9. IsBatch(d, col, o, Side)
  BY <1>2, <1>5, <1>7 DEF IsBatch, k
<1> QED
  BY <1>8, <1>9 DEF d

(* "recv" moves the first batch to the queue and fills the set.            *)
LEMMA ReceiveEncryptedStep ==
  ASSUME FlowCore, NEW p \in Side, ReceiveEncrypted(p)
  PROVE  FlowCore'
<1> DEFINE q == Other(p)
           n == Len(input[q])
           h == Head(main[q])
           d == Msg(DiffieHellman(p, h.arr), h.last)
           o == Fetched(q)
<1>1. /\ FlowTypeOK /\ Shaken /\ Way(p) /\ Way(q) /\ q \in Side /\ q # p
      /\ Other(q) = p /\ {p, q} = Side
  BY TwoSides DEF FlowCore
<1>2. /\ input[q] \in Seq(HashedIds) /\ n \in Nat /\ DOMAIN input[q] = 1..n
      /\ Batch \in Nat \ {0} /\ main[q] \in Seq(Batches) /\ queue[p] \in Seq(Batches)
      /\ main \in [Side -> Seq(Batches)] /\ queue \in [Side -> Seq(Batches)]
      /\ known \in [Side -> SUBSET Ciphers] /\ done \in [Side -> BOOLEAN]
      /\ sent[q] \in Nat
  BY <1>1, InputType, BoundsAssumption DEF FlowTypeOK
<1>3. o \in Nat /\ Queued(q) \in Nat
  BY <1>1, Offsets DEF Way
<1>4. /\ Running(p, "recv") /\ main[q] # << >>
      /\ main' = [main EXCEPT ![q] = Tail(@)]
      /\ queue' = [queue EXCEPT ![p] = Append(@, d)]
      /\ known' = IF NeedRecv(p)
                    THEN [known EXCEPT ![p] = @ \cup Range(d.arr)] ELSE known
      /\ done' = [done EXCEPT ![p] = @ \/ (NeedRecv(p) /\ h.last)]
      /\ EndIf(p, "recv", h.last)
      /\ UNCHANGED <<input, offer, pc, suit, dua, sent, held, index, taken,
                     linkErrors>>
  BY DEF ReceiveEncrypted, handshake, Msg
<1>5. /\ IsBatch(h, input[q], o, {q}) /\ h \in Batches
      /\ Consecutive(Tail(main[q]), input[q], o + Batch, {q})
  BY <1>1, <1>2, <1>3, <1>4, ConsecutiveTail DEF Way, Pipeline
<1>6. d \in Batches /\ IsBatch(d, input[q], o, Side)
  BY <1>3, <1>5, SecondKey
<1>7. d.last = h.last /\ d.last \in BOOLEAN /\ d.arr \in Seq(Ciphers)
  BY <1>6 DEF Msg, Batches
<1> HIDE DEF d, h, o
<1>8. d.last <=> o + Batch >= n
  BY <1>6 DEF IsBatch
<1>9. /\ main'[q] = Tail(main[q]) /\ main'[p] = main[p]
      /\ queue'[p] = Append(queue[p], d) /\ queue'[q] = queue[q]
      /\ main' \in [Side -> Seq(Batches)] /\ queue' \in [Side -> Seq(Batches)]
      /\ Len(main'[q]) = Len(main[q]) - 1 /\ Len(main[q]) > 0
      /\ Len(queue'[p]) = Len(queue[p]) + 1
  BY <1>1, <1>2, <1>4, <1>6
<1>10. /\ known'[p] = (IF NeedRecv(p) THEN known[p] \cup Range(d.arr) ELSE known[p])
       /\ known'[q] = known[q] /\ known' \in [Side -> SUBSET Ciphers]
  <2>1. Range(d.arr) \subseteq Ciphers
    BY <1>7 DEF Range
  <2> QED BY <1>1, <1>2, <1>4, <2>1
<1>11. /\ done'[p] <=> done[p] \/ (NeedRecv(p) /\ d.last)
       /\ done'[q] = done[q] /\ done' \in [Side -> BOOLEAN]
  <2>1. /\ done'[p] = (done[p] \/ (NeedRecv(p) /\ h.last))
        /\ done'[q] = done[q] /\ done' \in [Side -> BOOLEAN]
    BY <1>1, <1>2, <1>4
  <2> QED BY <1>7, <2>1
<1>12. /\ thread' \in [Side -> [Threads -> {"off", "run", "end", "dead"}]]
       /\ thread'[p]["recv"] = (IF d.last THEN "end" ELSE "run")
       /\ \A x \in Side, u \in Threads:
            x # p \/ u # "recv" => thread'[x][u] = thread[x][u]
       /\ Shaken'
  <2>1. EndIf(p, "recv", d.last)
    BY <1>4, <1>7
  <2> QED BY <1>1, <1>4, <1>7, <2>1, ThreadGoesOn DEF Threads
<1>13. FlowTypeOK'
  <2>1. \A x \in Side: Len(main'[x]) <= Window
    <3>1. Len(main[q]) \in Nat /\ Window \in Nat /\ Len(main[q]) <= Window
          /\ Len(main[p]) <= Window
      BY <1>1, <1>2, BoundsAssumption DEF FlowTypeOK
    <3>2. Len(main'[q]) <= Window
      BY <1>9, <3>1
    <3>3. Len(main'[p]) <= Window
      BY <1>9, <3>1
    <3> QED BY <1>1, <3>2, <3>3
  <2> QED BY <1>1, <1>4, <1>9, <1>10, <1>11, <1>12, <2>1 DEF FlowTypeOK
<1>14. Way(p)'
  <2>1. Spared(p, "enc") /\ Spared(q, "recv") /\ Spared(q, "sendDual") /\ Spared(p, "recvDual")
    BY <1>1, <1>12 DEF Spared, Threads
  <2> QED BY <1>1, <1>4, <1>9, <1>10, <1>11, <2>1, WayFrame
<1>15. /\ Fetched(q)' = o + Batch /\ Queued(q)' = Queued(q)
       /\ Returned(q)' = Returned(q) /\ LookedUp(q)' = LookedUp(q)
       /\ Queued(q) + Batch * Len(queue[p]) = o
  <2>1. Len(main[q]) \in Nat /\ Len(queue[p]) \in Nat
    BY <1>2
  <2>2. /\ Batch * Len(main[q]) \in Nat
        /\ Batch * (Len(main[q]) - 1) = Batch * Len(main[q]) - Batch
    BY <1>9, <2>1, OneMore
  <2>3. /\ Batch * Len(queue[p]) \in Nat
        /\ Batch * (Len(queue[p]) + 1) = Batch * Len(queue[p]) + Batch
    BY <2>1, OneMore
  <2>4. Fetched(q)' = o + Batch
    BY <1>2, <1>4, <1>9, <2>2 DEF Fetched, o
  <2>5. Queued(q)' = Queued(q) /\ Queued(q) + Batch * Len(queue[p]) = o
    <3>1. Queued(q) = o - Batch * Len(queue[p])
      BY <1>1 DEF Queued, o
    <3>2. Queued(q)' = Fetched(q)' - Batch * Len(queue'[p])
      BY <1>1 DEF Queued
    <3> QED BY <1>2, <1>3, <1>9, <2>3, <2>4, <3>1, <3>2
  <2> QED BY <1>4, <2>4, <2>5 DEF Returned, LookedUp
<1>16. Pipeline(q)'
  <2>1. Consecutive(queue'[p], input[q], Queued(q), Side)
    BY <1>1, <1>2, <1>3, <1>6, <1>9, <1>15, ConsecutiveAppend DEF Way, Pipeline
  <2> QED BY <1>1, <1>4, <1>5, <1>9, <1>15, <2>1 DEF Way, Pipeline
<1>17. Progress(q)'
  <2>1. thread'[p]["recv"] = "end" => Complete(o + Batch, input[q])
    BY <1>2, <1>3, <1>8, <1>12 DEF Complete
  <2>2. thread'[p]["recv"] # "off"
    BY <1>12
  <2>3. /\ thread'[q]["enc"] = thread[q]["enc"]
        /\ thread'[p]["sendDual"] = thread[p]["sendDual"]
        /\ thread'[q]["recvDual"] = thread[q]["recvDual"]
    BY <1>1, <1>12 DEF Threads
  <2> QED BY <1>1, <1>4, <1>15, <2>1, <2>2, <2>3 DEF Way, Progress
<1>18. Collected(q)'
  <2>1. /\ known[p] \subseteq {[id |-> x, keys |-> Side]: x \in Range(input[q])}
        /\ NeedRecv(p) => \A i \in 1..n: i <= o =>
                            [id |-> input[q][i], keys |-> Side] \in known[p]
        /\ done[p] => NeedRecv(p) /\ o >= n
    BY <1>1, <1>2 DEF Way, Collected, o
  <2> DEFINE k == Len(d.arr)
  <2>2. /\ k \in Nat /\ DOMAIN d.arr = 1..k
        /\ k = (IF o + Batch <= n THEN Batch ELSE n - o)
        /\ \A i \in 1..k: d.arr[i] = [id |-> input[q][o + i], keys |-> Side]
    BY <1>6, <1>7 DEF IsBatch
  <2>3. \A i \in 1..k: o + i \in 1..n
    BY <1>2, <1>3, <2>2
  <2>4. Range(d.arr) \subseteq {[id |-> x, keys |-> Side]: x \in Range(input[q])}
    <3>1. \A i \in 1..k: input[q][o + i] \in Range(input[q])
      BY <1>2, <2>3 DEF Range
    <3>2. \A c \in Range(d.arr): \E i \in 1..k:
            c = [id |-> input[q][o + i], keys |-> Side]
      BY <2>2 DEF Range
    <3> QED BY <3>1, <3>2
  <2>5. ASSUME NeedRecv(p), NEW i \in 1..n, i <= o + Batch
        PROVE  [id |-> input[q][i], keys |-> Side] \in known'[p]
    <3>1. CASE i <= o
      BY <1>10, <2>1, <2>5, <3>1
    <3>2. CASE i > o
      <4>1. i - o \in 1..k /\ o + (i - o) = i
        BY <1>2, <1>3, <2>2, <2>5, <3>2
      <4>2. d.arr[i - o] = [id |-> input[q][i], keys |-> Side]
        BY <2>2, <4>1
      <4>3. d.arr[i - o] \in Range(d.arr)
        BY <2>2, <4>1 DEF Range
      <4> QED BY <1>10, <2>5, <4>2, <4>3
    <3> QED BY <1>3, <3>1, <3>2
  <2>6. done'[p] => NeedRecv(p) /\ o + Batch >= n
    <3>1. o >= n => o + Batch >= n
      BY <1>2, <1>3
    <3> QED BY <1>8, <1>11, <2>1, <3>1
  <2>7. known'[p] \subseteq {[id |-> x, keys |-> Side]: x \in Range(input[q])}
    BY <1>10, <2>1, <2>4
  <2>8. NeedRecv(p)' <=> NeedRecv(p)
    BY <1>4 DEF NeedRecv
  <2> QED BY <1>1, <1>2, <1>4, <1>15, <2>5, <2>6, <2>7, <2>8 DEF Collected
<1>19. Taken(q)'
  <2>1. thread'[q]["recvDual"] = thread[q]["recvDual"]
    BY <1>1, <1>12 DEF Threads
  <2> QED BY <1>1, <1>4, <2>1 DEF Way, Taken, CommonPositions
<1> QED
  BY <1>1, <1>12, <1>13, <1>14, <1>16, <1>17, <1>18, <1>19 DEF FlowCore, Way

(* "sendDual" moves the first batch of the queue to the second channel.    *)
LEMMA SendDualStep ==
  ASSUME FlowCore, NEW p \in Side, SendDual(p)
  PROVE  FlowCore'
<1> DEFINE q == Other(p)
           n == Len(input[q])
           m == Head(queue[p])
           o == Queued(q)
<1>1. /\ FlowTypeOK /\ Shaken /\ Way(p) /\ Way(q) /\ q \in Side /\ q # p
      /\ Other(q) = p /\ {p, q} = Side
  BY TwoSides DEF FlowCore
<1>2. /\ n \in Nat /\ Batch \in Nat \ {0}
      /\ queue[p] \in Seq(Batches) /\ dua[p] \in Seq(Batches)
      /\ queue \in [Side -> Seq(Batches)] /\ dua \in [Side -> Seq(Batches)]
  BY <1>1, InputType, BoundsAssumption DEF FlowTypeOK
<1>3. o \in Nat /\ Returned(q) \in Nat /\ Fetched(q) \in Nat
  BY <1>1, Offsets DEF Way
<1>4. /\ Running(p, "sendDual") /\ queue[p] # << >> /\ Len(dua[p]) < Window
      /\ dua' = [dua EXCEPT ![p] = Append(@, m)]
      /\ queue' = [queue EXCEPT ![p] = Tail(@)]
      /\ EndIf(p, "sendDual", m.last)
      /\ UNCHANGED <<input, offer, pc, suit, main, sent, known, done, held,
                     index, taken, linkErrors>>
  BY DEF SendDual, handshake
<1>5. /\ IsBatch(m, input[q], o, Side) /\ m \in Batches
      /\ Consecutive(Tail(queue[p]), input[q], o + Batch, Side)
  BY <1>1, <1>2, <1>3, <1>4, ConsecutiveTail DEF Way, Pipeline
<1> HIDE DEF m, o
<1>6. m.last \in BOOLEAN /\ (m.last <=> o + Batch >= n)
  BY <1>5 DEF IsBatch, Batches
<1>7. /\ queue'[p] = Tail(queue[p]) /\ queue'[q] = queue[q]
      /\ dua'[p] = Append(dua[p], m) /\ dua'[q] = dua[q]
      /\ dua' \in [Side -> Seq(Batches)] /\ queue' \in [Side -> Seq(Batches)]
      /\ Len(queue'[p]) = Len(queue[p]) - 1 /\ Len(queue[p]) > 0
      /\ Len(dua'[p]) = Len(dua[p]) + 1
  BY <1>1, <1>2, <1>4, <1>5
<1>8. /\ thread' \in [Side -> [Threads -> {"off", "run", "end", "dead"}]]
      /\ thread'[p]["sendDual"] = (IF m.last THEN "end" ELSE "run")
      /\ \A x \in Side, u \in Threads:
           x # p \/ u # "sendDual" => thread'[x][u] = thread[x][u]
      /\ Shaken'
  BY <1>1, <1>4, <1>6, ThreadGoesOn DEF Threads
<1>9. FlowTypeOK'
  <2>1. \A x \in Side: Len(dua'[x]) <= Window
    <3>1. Len(dua[p]) \in Nat /\ Window \in Nat /\ Len(dua[q]) <= Window
      BY <1>1, <1>2, BoundsAssumption DEF FlowTypeOK
    <3> QED BY <1>1, <1>4, <1>7, <3>1
  <2> QED BY <1>1, <1>4, <1>7, <1>8, <2>1 DEF FlowTypeOK
<1>10. Way(p)'
  <2>1. Spared(p, "enc") /\ Spared(q, "recv") /\ Spared(q, "sendDual") /\ Spared(p, "recvDual")
    BY <1>1, <1>8 DEF Spared, Threads
  <2> QED BY <1>1, <1>4, <1>7, <2>1, WayFrame
<1>11. /\ Fetched(q)' = Fetched(q) /\ Queued(q)' = o + Batch
       /\ Returned(q)' = Returned(q) /\ LookedUp(q)' = LookedUp(q)
       /\ Returned(q) + Batch * Len(dua[p]) = o
  <2>1. Len(queue[p]) \in Nat /\ Len(dua[p]) \in Nat
    BY <1>2
  <2>2. /\ Batch * Len(queue[p]) \in Nat
        /\ Batch * (Len(queue[p]) - 1) = Batch * Len(queue[p]) - Batch
    BY <1>7, <2>1, OneMore
  <2>3. /\ Batch * Len(dua[p]) \in Nat
        /\ Batch * (Len(dua[p]) + 1) = Batch * Len(dua[p]) + Batch
    BY <2>1, OneMore
  <2>4. Fetched(q)' = Fetched(q)
    BY <1>4 DEF Fetched
  <2>5. Queued(q)' = o + Batch
    <3>1. o = Fetched(q) - Batch * Len(queue[p])
      BY <1>1 DEF Queued, o
    <3>2. Queued(q)' = Fetched(q)' - Batch * Len(queue'[p])
      BY <1>1 DEF Queued
    <3> QED BY <1>2, <1>3, <1>7, <2>2, <2>4, <3>1, <3>2
  <2>6. Returned(q)' = Returned(q) /\ Returned(q) + Batch * Len(dua[p]) = o
    <3>1. Returned(q) = o - Batch * Len(dua[p])
      BY <1>1 DEF Returned, o
    <3>2. Returned(q)' = Queued(q)' - Batch * Len(dua'[p])
      BY <1>1 DEF Returned
    <3> QED BY <1>2, <1>3, <1>7, <2>3, <2>5, <3>1, <3>2
  <2> QED BY <1>4, <2>4, <2>5, <2>6 DEF LookedUp
<1>12. Pipeline(q)'
  <2>1. Consecutive(dua'[p], input[q], Returned(q), Side)
    BY <1>1, <1>2, <1>3, <1>5, <1>7, <1>11, ConsecutiveAppend DEF Way, Pipeline
  <2> QED BY <1>1, <1>4, <1>5, <1>7, <1>11, <2>1 DEF Way, Pipeline
<1>13. Progress(q)'
  <2>1. thread'[p]["sendDual"] = "run" => ~Complete(o + Batch, input[q])
    BY <1>2, <1>3, <1>6, <1>8 DEF Complete
  <2>2. thread'[p]["sendDual"] # "off"
    BY <1>8
  <2>3. /\ thread'[q]["enc"] = thread[q]["enc"]
        /\ thread'[p]["recv"] = thread[p]["recv"]
        /\ thread'[q]["recvDual"] = thread[q]["recvDual"]
    BY <1>1, <1>8 DEF Threads
  <2> QED BY <1>1, <1>4, <1>11, <2>1, <2>2, <2>3 DEF Way, Progress
<1>14. Collected(q)'
  BY <1>1, <1>4, <1>11 DEF Way, Collected, NeedRecv
<1>15. Taken(q)'
  <2>1. thread'[q]["recvDual"] = thread[q]["recvDual"]
    BY <1>1, <1>8 DEF Threads
  <2> QED BY <1>1, <1>4, <2>1 DEF Way, Taken, CommonPositions
<1> QED
  BY <1>1, <1>8, <1>9, <1>10, <1>12, <1>13, <1>14, <1>15 DEF FlowCore, Way

(* "recvDual" takes the first batch off the second channel.                *)
LEMMA ReceiveDualStep ==
  ASSUME FlowCore, NEW p \in Side, ReceiveDual(p)
  PROVE  FlowCore'
<1> DEFINE q == Other(p)
           m == Head(dua[q])
           o == Returned(p)
<1>1. /\ FlowTypeOK /\ Shaken /\ Way(p) /\ Way(q) /\ q \in Side /\ q # p
      /\ Other(q) = p /\ {p, q} = Side
  BY TwoSides DEF FlowCore
<1>2. /\ Batch \in Nat \ {0} /\ dua[q] \in Seq(Batches)
      /\ dua \in [Side -> Seq(Batches)] /\ held \in [Side -> Seq(Batches)]
  BY <1>1, BoundsAssumption DEF FlowTypeOK
<1>3. o \in Nat /\ LookedUp(p) \in Nat /\ Queued(p) \in Nat
  BY <1>1, Offsets DEF Way
<1>4. /\ Running(p, "recvDual") /\ held[p] = << >> /\ dua[q] # << >>
      /\ held' = [held EXCEPT ![p] = <<m>>]
      /\ dua' = [dua EXCEPT ![q] = Tail(@)]
      /\ UNCHANGED <<input, offer, pc, suit, main, thread, sent, queue, known,
                     done, index, taken, linkErrors>>
  BY DEF ReceiveDual, handshake
<1>5. /\ IsBatch(m, input[p], o, Side) /\ m \in Batches
      /\ Consecutive(Tail(dua[q]), input[p], o + Batch, Side)
  BY <1>1, <1>2, <1>3, <1>4, ConsecutiveTail DEF Way, Pipeline
<1> HIDE DEF m, o
<1>6. /\ dua'[q] = Tail(dua[q]) /\ dua'[p] = dua[p]
      /\ held'[p] = <<m>> /\ held'[q] = held[q]
      /\ dua' \in [Side -> Seq(Batches)] /\ held' \in [Side -> Seq(Batches)]
      /\ Len(dua'[q]) = Len(dua[q]) - 1 /\ Len(dua[q]) > 0
      /\ Len(held'[p]) = 1 /\ Len(held[p]) = 0
  BY <1>1, <1>2, <1>4, <1>5
<1>7. FlowTypeOK'
  <2>1. \A x \in Side: Len(dua'[x]) <= Window /\ Len(held'[x]) <= 1
    <3>1. Len(dua[q]) \in Nat /\ Window \in Nat /\ Len(dua[q]) <= Window
          /\ Len(dua[p]) <= Window /\ Len(held[q]) <= 1
      BY <1>1, <1>2, BoundsAssumption DEF FlowTypeOK
    <3>2. Len(dua'[q]) <= Window /\ Len(held'[q]) <= 1
      BY <1>6, <3>1
    <3>3. Len(dua'[p]) <= Window /\ Len(held'[p]) <= 1
      BY <1>6, <3>1
    <3> QED BY <1>1, <3>2, <3>3
  <2> QED BY <1>1, <1>4, <1>6, <2>1 DEF FlowTypeOK
<1>8. Shaken'
  BY <1>1, <1>4 DEF Shaken, NeedRecv, NeedSend, Over
<1>9. Way(q)'
  <2>1. Spared(q, "enc") /\ Spared(p, "recv") /\ Spared(p, "sendDual") /\ Spared(q, "recvDual")
    BY <1>4 DEF Spared
  <2> QED BY <1>1, <1>4, <1>6, <2>1, WayFrame
<1>10. /\ Fetched(p)' = Fetched(p) /\ Queued(p)' = Queued(p)
       /\ Returned(p)' = o + Batch /\ LookedUp(p)' = o /\ LookedUp(p) = o
  <2>1. Len(dua[q]) \in Nat
    BY <1>2
  <2>2. /\ Batch * Len(dua[q]) \in Nat
        /\ Batch * (Len(dua[q]) - 1) = Batch * Len(dua[q]) - Batch
    BY <1>6, <2>1, OneMore
  <2>3. Batch * 0 = 0 /\ Batch * 1 = Batch
    BY <1>2
  <2>4. Fetched(p)' = Fetched(p) /\ Queued(p)' = Queued(p)
    BY <1>4 DEF Fetched, Queued
  <2>5. Returned(p)' = o + Batch
    <3>1. o = Queued(p) - Batch * Len(dua[q])
      BY DEF Returned, o
    <3>2. Returned(p)' = Queued(p)' - Batch * Len(dua'[q])
      BY DEF Returned
    <3> QED BY <1>2, <1>3, <1>6, <2>2, <2>4, <3>1, <3>2
  <2>6. LookedUp(p)' = o /\ LookedUp(p) = o
    <3>1. LookedUp(p) = o - Batch * Len(held[p])
      BY DEF LookedUp, o
    <3>2. LookedUp(p)' = Returned(p)' - Batch * Len(held'[p])
      BY DEF LookedUp
    <3> QED BY <1>2, <1>3, <1>6, <2>3, <2>5, <3>1, <3>2
  <2> QED BY <2>4, <2>5, <2>6
<1>11. Pipeline(p)'
  <2>1. Consecutive(held'[p], input[p], o, Side)
    <3>1. Len(<<m>>) = 1 /\ <<m>>[1] = m /\ o + Batch * (1 - 1) = o
      BY <1>2, <1>3
    <3>2. \A i \in 1..1: i = 1
      OBVIOUS
    <3> QED BY <1>5, <1>6, <3>1, <3>2 DEF Consecutive
  <2> QED BY <1>1, <1>4, <1>5, <1>6, <1>10, <2>1 DEF Way, Pipeline
<1>12. Progress(p)'
  <2>1. thread[q]["sendDual"] # "off"
    BY <1>1, <1>4 DEF Way, Progress
  <2> QED BY <1>1, <1>4, <1>10, <2>1 DEF Way, Progress
<1>13. Collected(p)'
  BY <1>1, <1>4, <1>10 DEF Way, Collected, NeedRecv
<1>14. Taken(p)'
  BY <1>1, <1>4 DEF Way, Taken, CommonPositions
<1> QED
  BY <1>1, <1>7, <1>8, <1>9, <1>11, <1>12, <1>13, <1>14 DEF FlowCore, Way

(* A looked-up cipher is in the complete set if the peer has its id.       *)
LEMMA HitsAreCommon ==
  ASSUME FlowTypeOK, NEW p \in Side, Collected(Other(p)), done[p],
         NEW m \in Batches, NEW o \in Nat, IsBatch(m, input[p], o, Side),
         NEW S, S = {o + i: i \in {j \in DOMAIN m.arr: m.arr[j] \in known[p]}}
  PROVE  /\ S = CommonPositions(p) \cap (o + 1)..(o + Len(m.arr))
         /\ o + Len(m.arr) <= Len(input[p])
<1> DEFINE q == Other(p)
           n == Len(input[p])
           k == Len(m.arr)
<1>1. /\ q \in Side /\ Other(q) = p /\ n \in Nat /\ DOMAIN input[p] = 1..n
      /\ input[q] \in Seq(HashedIds) /\ Len(input[q]) \in Nat
      /\ DOMAIN input[q] = 1..Len(input[q]) /\ Batch \in Nat \ {0}
  BY TwoSides, InputType, BoundsAssumption
<1>2. k \in Nat /\ DOMAIN m.arr = 1..k
  BY DEF Batches
<1>3. \A i \in 1..k: m.arr[i] = [id |-> input[p][o + i], keys |-> Side]
  BY DEF IsBatch
<1>4. o + k <= n
  <2>1. k = (IF o + Batch <= n THEN Batch ELSE n - o)
    BY DEF IsBatch
  <2> QED BY <1>1, <1>2, <2>1
<1>5. known[p] = {[id |-> x, keys |-> Side]: x \in Range(input[q])}
  <2>1. known[p] \subseteq {[id |-> x, keys |-> Side]: x \in Range(input[q])}
    BY <1>1 DEF Collected
  <2>2. /\ \A i \in 1..Len(input[q]): i <= Fetched(q) =>
              [id |-> input[q][i], keys |-> Side] \in known[p]
        /\ Fetched(q) >= Len(input[q])
    BY <1>1 DEF Collected
  <2>3. Fetched(q) \in Int
    <3>1. sent[q] \in Nat /\ main[q] \in Seq(Batches)
      BY <1>1 DEF FlowTypeOK
    <3>2. Len(main[q]) \in Nat
      BY <3>1
    <3>3. Batch * Len(main[q]) \in Nat
      BY <3>2, OneMore
    <3> QED BY <3>1, <3>3 DEF Fetched
  <2>4. \A i \in 1..Len(input[q]): [id |-> input[q][i], keys |-> Side] \in known[p]
    <3>1. \A i \in 1..Len(input[q]): i <= Fetched(q)
      BY <1>1, <2>2, <2>3
    <3> QED BY <2>2, <3>1
  <2>5. \A x \in Range(input[q]): \E i \in 1..Len(input[q]): x = input[q][i]
    BY <1>1 DEF Range
  <2> QED BY <2>1, <2>4, <2>5
<1>6. \A i \in 1..k: m.arr[i] \in known[p] <=> input[p][o + i] \in Range(input[q])
  <2> TAKE i \in 1..k
  <2>1. m.arr[i] = [id |-> input[p][o + i], keys |-> Side]
    BY <1>3
  <2>2. \A x: [id |-> input[p][o + i], keys |-> Side] = [id |-> x, keys |-> Side]
              => x = input[p][o + i]
    OBVIOUS
  <2> QED BY <1>5, <2>1, <2>2
<1>7. \A i \in 1..k: o + i \in 1..n
  BY <1>1, <1>2, <1>4
<1>8. S \subseteq CommonPositions(p) \cap (o + 1)..(o + k)
  <2> SUFFICES ASSUME NEW i \in 1..k, m.arr[i] \in known[p]
               PROVE  o + i \in CommonPositions(p) /\ o + i \in (o + 1)..(o + k)
    BY <1>2
  <2>1. o + i \in (o + 1)..(o + k)
    BY <1>2
  <2> QED BY <1>1, <1>6, <1>7, <2>1 DEF CommonPositions
<1>9. CommonPositions(p) \cap (o + 1)..(o + k) \subseteq S
  <2> SUFFICES ASSUME NEW x \in (o + 1)..(o + k), x \in CommonPositions(p)
               PROVE  x \in S
    OBVIOUS
  <2>1. x - o \in 1..k /\ x = o + (x - o)
    BY <1>2
  <2>2. input[p][o + (x - o)] \in Range(input[q])
    BY <2>1 DEF CommonPositions
  <2>3. m.arr[x - o] \in known[p]
    BY <1>6, <2>1, <2>2
  <2> QED BY <1>2, <2>1, <2>3
<1> QED
  BY <1>4, <1>8, <1>9

(* "recvDual" holds one batch at a time.                                   *)
LEMMA OneHeld ==
  ASSUME NEW s \in Seq(Batches), Len(s) <= 1, s # << >>
  PROVE  Len(s) = 1 /\ s[1] \in Batches /\ s[1] = Head(s)
<1>1. Len(s) \in Nat /\ Len(s) # 0
  OBVIOUS
<1>2. Len(s) = 1
  BY <1>1
<1> QED
  BY <1>2

(* Two numbers that bound each other are one.                              *)
LEMMA Antisymmetric ==
  ASSUME NEW a \in Int, NEW b \in Int, a >= b, a <= b
  PROVE  a = b
  OBVIOUS

(* "recvDual" looks the batch it holds up in the complete set.             *)
LEMMA TakeCommonStep ==
  ASSUME FlowCore, NEW p \in Side, TakeCommon(p)
  PROVE  FlowCore'
<1> DEFINE q == Other(p)
           n == Len(input[p])
           m == held[p][1]
           o == LookedUp(p)
           S == {o + i: i \in {j \in DOMAIN m.arr: m.arr[j] \in known[p]}}
<1>1. /\ FlowTypeOK /\ Shaken /\ Way(p) /\ Way(q) /\ q \in Side /\ q # p
      /\ Other(q) = p /\ {p, q} = Side
  BY TwoSides DEF FlowCore
<1>2. /\ n \in Nat /\ Batch \in Nat \ {0} /\ held[p] \in Seq(Batches)
      /\ held \in [Side -> Seq(Batches)] /\ index \in [Side -> Nat]
      /\ taken \in [Side -> Seq(Nat)] /\ taken[p] \in Seq(Nat)
      /\ Len(held[p]) <= 1
  BY <1>1, InputType, BoundsAssumption DEF FlowTypeOK
<1>3. o \in Nat /\ Returned(p) \in Nat
  BY <1>1, Offsets DEF Way
<1>4. /\ Running(p, "recvDual") /\ held[p] # << >> /\ done[p]
      /\ taken' = [taken EXCEPT ![p] = @ \o InOrder({index[p] + i: i \in
                     {j \in DOMAIN m.arr: m.arr[j] \in known[p]}})]
      /\ index' = [index EXCEPT ![p] = @ + Len(m.arr)]
      /\ held' = [held EXCEPT ![p] = << >>]
      /\ EndIf(p, "recvDual", m.last)
      /\ UNCHANGED <<input, offer, pc, suit, main, dua, sent, queue, known,
                     done, linkErrors>>
  BY DEF TakeCommon, handshake, SetReady
<1>5. Len(held[p]) = 1 /\ m \in Batches /\ IsBatch(m, input[p], o, Side)
  <2>1. Len(held[p]) = 1 /\ m \in Batches /\ m = Head(held[p])
    BY <1>2, <1>4, OneHeld
  <2>2. IsBatch(Head(held[p]), input[p], o, Side)
    BY <1>1, <1>2, <1>3, <1>4, ConsecutiveTail DEF Way, Pipeline
  <2> QED BY <2>1, <2>2
<1>6. /\ S = CommonPositions(p) \cap (o + 1)..(o + Len(m.arr))
      /\ o + Len(m.arr) <= n
  BY <1>1, <1>3, <1>4, <1>5, HitsAreCommon DEF Way
<1>7. m.arr \in Seq(Ciphers) /\ Len(m.arr) \in Nat /\ m.last \in BOOLEAN
  BY <1>5 DEF Batches
<1>8. index[p] = o
  <2>1. o <= n
    BY <1>2, <1>3, <1>6, <1>7
  <2> QED BY <1>1, <2>1 DEF Way, Pipeline
<1>9. taken' = [taken EXCEPT ![p] = @ \o InOrder(S)]
  BY <1>4, <1>8
<1> DEFINE k == Len(m.arr)
<1>10. /\ m.last <=> o + Batch >= n
       /\ k = (IF o + Batch <= n THEN Batch ELSE n - o)
  BY <1>5 DEF IsBatch
<1> HIDE DEF S, m, o
<1>11. /\ InOrder(S) \in Seq(Nat) /\ Ascending(InOrder(S)) /\ Range(InOrder(S)) = S
       /\ S \subseteq (o + 1)..(o + k)
  <2>1. S \subseteq (o + 1)..(o + k)
    BY <1>6
  <2>2. (o + 1)..(o + k) \subseteq Nat /\ IsFiniteSet((o + 1)..(o + k))
    <3>1. o + 1 \in Int /\ o + k \in Int
      BY <1>3, <1>7
    <3>2. IsFiniteSet((o + 1)..(o + k))
      BY <3>1, FS_Interval
    <3> QED BY <1>3, <1>7, <3>2
  <2>3. S \in SUBSET Nat /\ IsFiniteSet(S)
    BY <2>1, <2>2, FS_Subset
  <2> QED BY <2>1, <2>3, InOrderIs
<1>12. /\ Ascending(taken[p]) /\ Range(taken[p]) = CommonPositions(p) \cap 1..o
  BY <1>1, <1>8 DEF Way, Taken
<1> DEFINE new == taken[p] \o InOrder(S)
<1>13. new \in Seq(Nat) /\ Ascending(new) /\ Range(new) = Range(taken[p]) \cup S
  <2>1. \A x \in Range(taken[p]), y \in Range(InOrder(S)): x < y
    <3>1. \A x \in 1..o, y \in (o + 1)..(o + k): x < y
      BY <1>3, <1>7
    <3> QED BY <1>11, <1>12, <3>1
  <2> QED BY <1>2, <1>11, <1>12, <2>1, AscendingConcat
<1>14. Range(new) = CommonPositions(p) \cap 1..(o + k)
  <2>1. 1..(o + k) = 1..o \cup (o + 1)..(o + k)
    BY <1>3, <1>7
  <2> QED BY <1>6, <1>12, <1>13, <2>1
<1> HIDE DEF new
<1>15. /\ taken'[p] = new /\ taken'[q] = taken[q] /\ taken' \in [Side -> Seq(Nat)]
       /\ index'[p] = o + k /\ index'[q] = index[q] /\ index' \in [Side -> Nat]
       /\ held'[p] = << >> /\ held'[q] = held[q] /\ held' \in [Side -> Seq(Batches)]
  <2>1. /\ taken'[p] = new /\ taken'[q] = taken[q] /\ taken' \in [Side -> Seq(Nat)]
    BY <1>1, <1>2, <1>9, <1>13 DEF new
  <2>2. /\ index'[p] = o + k /\ index'[q] = index[q] /\ index' \in [Side -> Nat]
    BY <1>1, <1>2, <1>3, <1>4, <1>7, <1>8
  <2>3. /\ held'[p] = << >> /\ held'[q] = held[q] /\ held' \in [Side -> Seq(Batches)]
    BY <1>1, <1>2, <1>4
  <2> QED BY <2>1, <2>2, <2>3
<1>16. /\ thread' \in [Side -> [Threads -> {"off", "run", "end", "dead"}]]
       /\ thread'[p]["recvDual"] = (IF m.last THEN "end" ELSE "run")
       /\ \A x \in Side, u \in Threads:
            x # p \/ u # "recvDual" => thread'[x][u] = thread[x][u]
       /\ Shaken'
  BY <1>1, <1>4, <1>7, ThreadGoesOn DEF Threads
<1>17. FlowTypeOK'
  <2>1. \A x \in Side: Len(held'[x]) <= 1 /\ index'[x] <= Len(input[x])
    <3>1. Len(held[q]) <= 1 /\ index[q] <= Len(input[q]) /\ Len(<< >>) = 0
      BY <1>1 DEF FlowTypeOK
    <3>2. Len(held'[p]) <= 1 /\ index'[p] <= Len(input[p])
      BY <1>6, <1>15, <3>1
    <3>3. Len(held'[q]) <= 1 /\ index'[q] <= Len(input[q])
      BY <1>15, <3>1
    <3> QED BY <1>1, <3>2, <3>3
  <2> QED BY <1>1, <1>4, <1>15, <1>16, <2>1 DEF FlowTypeOK
<1>18. Way(q)'
  <2>1. Spared(q, "enc") /\ Spared(p, "recv") /\ Spared(p, "sendDual") /\ Spared(q, "recvDual")
    BY <1>1, <1>16 DEF Spared, Threads
  <2> QED BY <1>1, <1>4, <1>15, <2>1, WayFrame
<1>19. /\ Fetched(p)' = Fetched(p) /\ Queued(p)' = Queued(p)
       /\ Returned(p)' = Returned(p) /\ LookedUp(p)' = o + Batch
  <2>1. Fetched(p)' = Fetched(p) /\ Queued(p)' = Queued(p) /\ Returned(p)' = Returned(p)
    BY <1>4 DEF Fetched, Queued, Returned
  <2>2. Batch * 0 = 0 /\ Batch * 1 = Batch /\ Len(<< >>) = 0
    BY <1>2
  <2>3. o = Returned(p) - Batch * Len(held[p])
    BY DEF LookedUp, o
  <2>4. LookedUp(p)' = Returned(p)' - Batch * Len(held'[p])
    BY DEF LookedUp
  <2> QED BY <1>2, <1>3, <1>5, <1>15, <2>1, <2>2, <2>3, <2>4
<1>20. Pipeline(p)'
  <2>1. \A x: Consecutive(<< >>, input[p], x, Side)
    BY DEF Consecutive
  <2>2. o + Batch >= 0
        /\ o + k = IF o + Batch <= n THEN o + Batch ELSE n
    BY <1>2, <1>3, <1>10
  <2> QED BY <1>1, <1>4, <1>15, <1>19, <2>1, <2>2 DEF Way, Pipeline
<1>21. Progress(p)'
  <2>1. thread'[p]["recvDual"] = "end" => Complete(o + Batch, input[p])
    BY <1>2, <1>3, <1>10, <1>16 DEF Complete
  <2>2. /\ thread'[p]["enc"] = thread[p]["enc"]
        /\ thread'[q]["recv"] = thread[q]["recv"]
        /\ thread'[q]["sendDual"] = thread[q]["sendDual"]
    BY <1>1, <1>16 DEF Threads
  <2> QED BY <1>1, <1>4, <1>19, <2>1, <2>2 DEF Way, Progress
<1>22. Collected(p)'
  BY <1>1, <1>4, <1>19 DEF Way, Collected, NeedRecv
<1>23. Taken(p)'
  <2>1. thread'[p]["recvDual"] = "end" => o + k = n
    <3>1. thread'[p]["recvDual"] = "end" => o + Batch >= n
      BY <1>10, <1>16
    <3>2. o + k = IF o + Batch <= n THEN o + Batch ELSE n
      BY <1>2, <1>3, <1>10
    <3>3. o + Batch >= n => o + k = n
      <4>1. o + Batch \in Int /\ n \in Int
        BY <1>2, <1>3
      <4>2. o + Batch >= n /\ o + Batch <= n => o + Batch = n
        BY <4>1, Antisymmetric
      <4> QED BY <3>2, <4>2
    <3> QED BY <3>1, <3>3
  <2>2. CommonPositions(p)' = CommonPositions(p)
    BY <1>4 DEF CommonPositions
  <2> QED BY <1>4, <1>13, <1>14, <1>15, <2>1, <2>2 DEF Taken
<1> QED
  BY <1>1, <1>16, <1>17, <1>18, <1>20, <1>21, <1>22, <1>23 DEF FlowCore, Way
-----------------------------------------------------------------------------
(* The steps that move no batch.                                           *)
contents == <<input, offer, main, dua, sent, queue, known, done, held, index,
              taken>>

(* A step that moves no batch keeps both ways.                             *)
LEMMA WaysStay ==
  ASSUME FlowCore, UNCHANGED contents,
         \A x \in Side, t \in Threads: Spared(x, t)
  PROVE  \A x \in Side: Way(x)'
<1> SUFFICES ASSUME NEW x \in Side PROVE Way(x)'
  OBVIOUS
<1>1. Other(x) \in Side /\ Way(x)
  BY TwoSides DEF FlowCore
<1>2. /\ Spared(x, "enc") /\ Spared(Other(x), "recv")
      /\ Spared(Other(x), "sendDual") /\ Spared(x, "recvDual")
  BY <1>1 DEF Threads
<1> QED
  BY <1>1, <1>2, WayFrame DEF contents

(* A side registers, proposes, returns or raises.                          *)
LEMMA PcMoves ==
  ASSUME FlowCore, UNCHANGED contents, UNCHANGED <<suit, thread>>,
         linkErrors' \in 0..MaxLinkErrors,
         NEW p \in Side, NEW r, pc' = [pc EXCEPT ![p] = r],
         \/ r \in {"start", "proposed"} /\ pc[p] \in {"new", "start", "proposed"}
         \/ r = "raised"
         \/ r = "returned" /\ pc[p] = "flow" /\ \A t \in Threads: Over(p, t)
  PROVE  FlowCore'
<1>1. FlowTypeOK /\ Shaken
  BY DEF FlowCore
<1>2. pc' \in [Side -> {"new", "start", "proposed", "flow", "returned", "raised"}]
      /\ pc'[p] = r /\ \A x \in Side: x # p => pc'[x] = pc[x]
  BY <1>1 DEF FlowTypeOK
<1>3. FlowTypeOK'
  BY <1>1, <1>2 DEF FlowTypeOK, contents
<1>4. \A x \in Side: Way(x)'
  BY WaysStay DEF Spared
<1>5. /\ suit'["receiver"] # "none" =>
           offer["sender"].toRank = offer["receiver"].toRank
      /\ pc'["sender"] = "flow" => suit'["sender"] = suit'["receiver"]
  <2>1. pc'["sender"] = "flow" => pc["sender"] = "flow"
    BY <1>2 DEF Side
  <2> QED BY <1>1, <2>1 DEF Shaken
<1>6. ASSUME NEW x \in Side
      PROVE  /\ pc'[x] \in {"new", "start", "proposed"} =>
                  \A t \in Threads: thread[x][t] = "off"
             /\ pc'[x] \in {"flow", "returned"} =>
                  /\ offer["sender"].toRank = offer["receiver"].toRank
                  /\ thread[x]["recv"] # "off"
                  /\ NeedRecv(x) => thread[x]["recvDual"] # "off"
             /\ pc'[x] = "returned" => \A t \in Threads: Over(x, t)
             /\ thread[x]["recvDual"] # "off" => NeedRecv(x)
             /\ thread[x]["sendDual"] # "off" => NeedSend(x)
  BY <1>1, <1>2, <1>6 DEF Shaken
<1>7. \A x \in Side: /\ (NeedRecv(x)' <=> NeedRecv(x))
                     /\ (NeedSend(x)' <=> NeedSend(x))
                     /\ \A t \in Threads: Over(x, t)' <=> Over(x, t)
  BY DEF NeedRecv, NeedSend, Over, contents
<1>8. Shaken'
  BY <1>5, <1>6, <1>7 DEF Shaken, contents
<1> QED
  BY <1>3, <1>4, <1>8 DEF FlowCore

(* diffie_hellman_flow starts the threads of p.                            *)
LEMMA StartsThreads ==
  ASSUME FlowCore, UNCHANGED contents, NEW p \in Side, pc[p] \in {"start", "proposed"},
         thread' = [thread EXCEPT ![p] = Started(p)]
  PROVE  /\ thread' \in [Side -> [Threads -> {"off", "run", "end", "dead"}]]
         /\ thread'[Other(p)] = thread[Other(p)]
         /\ thread'[p]["recv"] = "run"
         /\ thread'[p]["recvDual"] = (IF NeedRecv(p) THEN "run" ELSE "off")
         /\ thread'[p]["sendDual"] = (IF NeedSend(p) THEN "run" ELSE "off")
         /\ \A x \in Side: Way(x)'
<1> DEFINE q == Other(p)
<1>1. /\ FlowTypeOK /\ Shaken /\ Way(p) /\ Way(q) /\ q \in Side /\ q # p
      /\ Other(q) = p /\ {p, q} = Side
  BY TwoSides DEF FlowCore
<1>2. Started(p) \in [Threads -> {"off", "run"}]
  BY DEF Started
<1>3. /\ Started(p)["enc"] = "run" /\ Started(p)["recv"] = "run"
      /\ Started(p)["recvDual"] = (IF NeedRecv(p) THEN "run" ELSE "off")
      /\ Started(p)["sendDual"] = (IF NeedSend(p) THEN "run" ELSE "off")
  BY DEF Started, Threads
<1> HIDE DEF Started
<1>4. /\ thread' \in [Side -> [Threads -> {"off", "run", "end", "dead"}]]
      /\ thread'[q] = thread[q] /\ thread'[p] = Started(p)
  BY <1>1, <1>2 DEF FlowTypeOK
<1>5. \A t \in Threads: thread[p][t] = "off"
  BY <1>1 DEF Shaken
<1>6. \A x \in Side: /\ Fetched(x)' = Fetched(x) /\ Queued(x)' = Queued(x)
                     /\ Returned(x)' = Returned(x) /\ LookedUp(x)' = LookedUp(x)
  BY DEF Fetched, Queued, Returned, LookedUp, contents
<1>7. \A x \in Side: Pipeline(x)' /\ Collected(x)'
  <2>1. \A x \in Side: Pipeline(x)'
    BY <1>6 DEF FlowCore, Way, Pipeline, contents
  <2>2. \A x \in Side: Collected(x)'
    BY <1>6 DEF FlowCore, Way, Collected, NeedRecv, contents
  <2> QED BY <2>1, <2>2
<1>8. sent[p] = 0 /\ ~Complete(sent[p], input[p])
  BY <1>1, <1>5 DEF Way, Progress, Complete, Threads
<1>9. dua[p] = << >> /\ ~Complete(Queued(q), input[q])
  <2>1. Fetched(q) = 0 /\ dua[p] = << >>
    BY <1>1, <1>5 DEF Way, Progress, Threads
  <2>2. Queued(q) \in Nat /\ Queued(q) <= Fetched(q)
    BY <1>1, Offsets DEF Way
  <2> QED BY <2>1, <2>2 DEF Complete
<1>10. Progress(p)'
  BY <1>1, <1>3, <1>4, <1>6, <1>8 DEF Way, Progress, contents
<1>11. Progress(q)'
  BY <1>1, <1>3, <1>4, <1>6, <1>9 DEF Way, Progress, contents
<1>12. \A x \in Side: Taken(x)'
  <2>1. \A x \in Side: thread'[x]["recvDual"] = "end" => thread[x]["recvDual"] = "end"
    BY <1>1, <1>3, <1>4
  <2> QED BY <2>1 DEF FlowCore, Way, Taken, CommonPositions, contents
<1> QED
  BY <1>1, <1>3, <1>4, <1>7, <1>10, <1>11, <1>12 DEF Way

(* After the handshake of one side.                                        *)
LEMMA ShakesHands ==
  ASSUME FlowCore, UNCHANGED contents, linkErrors' = linkErrors,
         NEW p \in Side, pc[p] \in {"start", "proposed"},
         thread' = [thread EXCEPT ![p] = Started(p)],
         pc' = [pc EXCEPT ![p] = "flow"], DOMAIN suit' = Side,
         offer["sender"].toRank = offer["receiver"].toRank,
         pc'["sender"] = "flow" => suit'["sender"] = suit'["receiver"]
  PROVE  FlowCore'
<1>1. FlowTypeOK /\ Shaken /\ Other(p) \in Side /\ {p, Other(p)} = Side
  BY TwoSides DEF FlowCore
<1>2. /\ thread' \in [Side -> [Threads -> {"off", "run", "end", "dead"}]]
      /\ thread'[Other(p)] = thread[Other(p)]
      /\ thread'[p]["recv"] = "run"
      /\ thread'[p]["recvDual"] = (IF NeedRecv(p) THEN "run" ELSE "off")
      /\ thread'[p]["sendDual"] = (IF NeedSend(p) THEN "run" ELSE "off")
      /\ \A x \in Side: Way(x)'
  BY StartsThreads
<1>3. pc' \in [Side -> {"new", "start", "proposed", "flow", "returned", "raised"}]
      /\ pc'[p] = "flow" /\ pc'[Other(p)] = pc[Other(p)]
  BY <1>1, TwoSides DEF FlowTypeOK
<1>4. FlowTypeOK'
  BY <1>1, <1>2, <1>3 DEF FlowTypeOK, contents
<1>5. ASSUME NEW x \in Side
      PROVE  /\ pc'[x] \in {"new", "start", "proposed"} =>
                  \A t \in Threads: thread'[x][t] = "off"
             /\ pc'[x] \in {"flow", "returned"} =>
                  /\ thread'[x]["recv"] # "off"
                  /\ NeedRecv(x) => thread'[x]["recvDual"] # "off"
             /\ pc'[x] = "returned" => \A t \in Threads: Over(x, t)'
             /\ thread'[x]["recvDual"] # "off" => NeedRecv(x)
             /\ thread'[x]["sendDual"] # "off" => NeedSend(x)
  <2>1. CASE x = p
    BY <1>2, <1>3, <2>1
  <2>2. CASE x = Other(p)
    <3>1. pc[x] = "returned" => \A t \in Threads: Over(x, t)
      BY <1>1, <2>2 DEF Shaken
    <3>2. pc'[x] = "returned" => \A t \in Threads: Over(x, t)'
      BY <1>2, <1>3, <2>2, <3>1 DEF Over
    <3> QED BY <1>1, <1>2, <1>3, <2>2, <3>2 DEF Shaken
  <2> QED BY <1>1, <2>1, <2>2
<1>6. \A x \in Side: (NeedRecv(x)' <=> NeedRecv(x)) /\ (NeedSend(x)' <=> NeedSend(x))
  BY DEF NeedRecv, NeedSend, contents
<1>7. Shaken'
  BY <1>5, <1>6 DEF Shaken, contents
<1> QED
  BY <1>2, <1>4, <1>7 DEF FlowCore

(* A thread dies.                                                          *)
LEMMA ThreadDies ==
  ASSUME FlowCore, UNCHANGED contents, UNCHANGED <<pc, suit>>,
         linkErrors' \in 0..MaxLinkErrors, NEW p \in Side, NEW t \in Threads,
         Running(p, t), thread' = [thread EXCEPT ![p][t] = "dead"]
  PROVE  FlowCore'
<1>1. FlowTypeOK /\ Shaken
  BY DEF FlowCore
<1>2. /\ thread' \in [Side -> [Threads -> {"off", "run", "end", "dead"}]]
      /\ thread'[p][t] = "dead"
      /\ \A x \in Side, u \in Threads:
           x # p \/ u # t => thread'[x][u] = thread[x][u]
      /\ Shaken'
  <2>1. "dead" \in {"run", "end", "dead"} /\ offer' = offer
    BY DEF contents
  <2> QED BY <1>1, <2>1, ThreadEnds
<1>3. \A x \in Side, u \in Threads: Spared(x, u)
  BY <1>2 DEF Spared, Running
<1>4. \A x \in Side: Way(x)'
  BY <1>3, WaysStay
<1>5. FlowTypeOK'
  BY <1>1, <1>2 DEF FlowTypeOK, contents
<1> QED
  BY <1>2, <1>4, <1>5 DEF FlowCore
-----------------------------------------------------------------------------
(* The handshake, the ends of the calls, and the errors.                   *)
LEMMA HandshakeStep == ASSUME FlowCore, Handshake PROVE FlowCore'
<1>1. FlowTypeOK /\ Shaken /\ linkErrors \in 0..MaxLinkErrors /\ DOMAIN suit = Side
  BY DEF FlowCore, FlowTypeOK
<1>2. "sender" \in Side /\ "receiver" \in Side
  BY DEF Side
<1>3. ASSUME NEW p \in Side, Register(p) PROVE FlowCore'
  <2>1. UNCHANGED contents /\ UNCHANGED <<suit, thread>> /\ pc[p] = "new"
    BY <1>3 DEF Register, contents, store
  <2>2. CASE linkErrors' = linkErrors /\ pc' = [pc EXCEPT ![p] = "start"]
    BY <1>1, <1>3, <2>1, <2>2, PcMoves
  <2>3. CASE /\ linkErrors < MaxLinkErrors /\ linkErrors' = linkErrors + 1
             /\ pc' = [pc EXCEPT ![p] = "raised"]
    <3>1. linkErrors' \in 0..MaxLinkErrors
      BY <1>1, <2>3, BoundsAssumption
    <3> QED BY <1>3, <2>1, <2>3, <3>1, PcMoves
  <2> QED BY <1>3, <2>2, <2>3 DEF Register
<1>4. CASE Propose
  <2>1. UNCHANGED contents /\ UNCHANGED <<suit, thread>> /\ linkErrors' = linkErrors
    BY <1>4 DEF Propose, contents, store
  <2>2. pc["sender"] = "start" /\ pc' = [pc EXCEPT !["sender"] = "proposed"]
    BY <1>4 DEF Propose
  <2> QED BY <1>1, <1>2, <2>1, <2>2, PcMoves
<1>5. CASE Negotiate
  <2>1. UNCHANGED contents /\ linkErrors' = linkErrors
    BY <1>5 DEF Negotiate, RaiseException, contents, store
  <2>2. pc["receiver"] = "start" /\ pc["sender"] = "proposed"
    BY <1>5 DEF Negotiate, RaiseException
  <2>3. CASE Negotiates(offer["receiver"], offer["sender"])
    <3>1. offer["sender"].toRank = offer["receiver"].toRank
      BY <2>3 DEF Negotiates
    <3>2. /\ pc' = [pc EXCEPT !["receiver"] = "flow"]
          /\ thread' = [thread EXCEPT !["receiver"] = Started("receiver")]
      BY <1>5, <2>3 DEF Negotiate, RaiseException
    <3>3. \E s: suit' = [suit EXCEPT !["receiver"] = s]
      BY <1>5, <2>3, Zenon DEF Negotiate, RaiseException
    <3>4. DOMAIN suit' = Side
      BY <1>1, <3>3
    <3>5. pc'["sender"] # "flow"
      BY <1>1, <2>2, <3>2 DEF FlowTypeOK, Side
    <3> QED BY <1>2, <2>1, <2>2, <3>1, <3>2, <3>4, <3>5, ShakesHands
  <2>4. CASE ~Negotiates(offer["receiver"], offer["sender"])
    <3>1. pc' = [pc EXCEPT !["receiver"] = "raised"] /\ UNCHANGED <<suit, thread>>
      BY <1>5, <2>4 DEF Negotiate, RaiseException
    <3> QED BY <1>1, <1>2, <2>1, <3>1, PcMoves
  <2> QED BY <2>3, <2>4
<1>6. CASE ResetFromResponse
  <2>1. UNCHANGED contents /\ linkErrors' = linkErrors
    BY <1>6 DEF ResetFromResponse, contents, store
  <2>2. /\ pc["sender"] = "proposed" /\ suit["receiver"] # "none"
        /\ pc' = [pc EXCEPT !["sender"] = "flow"]
        /\ suit' = [suit EXCEPT !["sender"] = suit["receiver"]]
        /\ thread' = [thread EXCEPT !["sender"] = Started("sender")]
    BY <1>6 DEF ResetFromResponse
  <2>3. offer["sender"].toRank = offer["receiver"].toRank
    BY <1>1, <2>2 DEF Shaken
  <2>4. DOMAIN suit' = Side /\ suit'["sender"] = suit'["receiver"]
    BY <1>1, <1>2, <2>2
  <2> QED BY <1>2, <2>1, <2>2, <2>3, <2>4, ShakesHands
<1> QED
  BY <1>3, <1>4, <1>5, <1>6 DEF Handshake

(* A call returns, or raises after a link error.                           *)
LEMMA ReturnStep ==
  ASSUME FlowCore, NEW p \in Side, Return(p)
  PROVE  FlowCore'
<1>1. linkErrors \in 0..MaxLinkErrors
  BY DEF FlowCore, FlowTypeOK
<1>2. UNCHANGED contents /\ UNCHANGED <<suit, thread>> /\ linkErrors' = linkErrors
  BY DEF Return, contents, store
<1>3. /\ pc[p] = "flow" /\ \A t \in Threads: Over(p, t)
      /\ \E r \in {"returned", "raised"}: pc' = [pc EXCEPT ![p] = r]
  BY DEF Return, WaitLinkTaskFinish
<1> QED
  BY <1>1, <1>2, <1>3, PcMoves

(* The link raises.                                                        *)
LEMMA LinkErrorStep ==
  ASSUME FlowCore, NEW p \in Side, LinkError(p)
  PROVE  FlowCore'
<1>1. linkErrors' \in 0..MaxLinkErrors
  <2>1. linkErrors \in 0..MaxLinkErrors /\ linkErrors < MaxLinkErrors
        /\ linkErrors' = linkErrors + 1
    BY DEF FlowCore, FlowTypeOK, LinkError
  <2> QED BY <2>1, BoundsAssumption
<1>2. UNCHANGED contents /\ suit' = suit
  BY DEF LinkError, contents, store
<1>3. CASE pc' = [pc EXCEPT ![p] = "raised"] /\ UNCHANGED thread
  BY <1>1, <1>2, <1>3, PcMoves
<1>4. ASSUME NEW t \in Threads, Running(p, t),
             thread' = [thread EXCEPT ![p][t] = "dead"], UNCHANGED pc
      PROVE  FlowCore'
  BY <1>1, <1>2, <1>4, ThreadDies
<1> QED
  BY <1>3, <1>4 DEF LinkError

(* A wait ends by its timeout.                                             *)
LEMMA TimesOutStep ==
  ASSUME FlowCore, NEW p \in Side, TimesOut(p)
  PROVE  FlowCore'
<1>1. linkErrors' \in 0..MaxLinkErrors
  BY DEF FlowCore, FlowTypeOK, TimesOut
<1>2. UNCHANGED contents /\ suit' = suit
  BY DEF TimesOut, contents, store
<1>3. CASE pc' = [pc EXCEPT ![p] = "raised"] /\ UNCHANGED thread
  BY <1>1, <1>2, <1>3, PcMoves
<1>4. ASSUME NEW t \in Threads, Running(p, t),
             thread' = [thread EXCEPT ![p][t] = "dead"], UNCHANGED pc
      PROVE  FlowCore'
  BY <1>1, <1>2, <1>4, ThreadDies
<1> QED
  BY <1>3, <1>4 DEF TimesOut

(* Nothing happens.                                                        *)
LEMMA StaysPut == ASSUME FlowCore, UNCHANGED flowVars PROVE FlowCore'
<1>1. /\ UNCHANGED contents /\ UNCHANGED <<pc, suit, thread, linkErrors>>
  BY DEF flowVars, handshake, store, contents
<1>2. \A x \in Side: Way(x)'
  BY <1>1, WaysStay DEF Spared
<1>3. FlowTypeOK'
  BY <1>1 DEF FlowCore, FlowTypeOK, contents
<1>4. Shaken'
  BY <1>1 DEF FlowCore, Shaken, NeedRecv, NeedSend, Over, contents
<1> QED
  BY <1>2, <1>3, <1>4 DEF FlowCore

(* Before the calls nothing is under way.                                  *)
LEMMA FlowInitially == FlowInit => FlowCore
<1> SUFFICES ASSUME FlowInit PROVE FlowCore
  OBVIOUS
<1>1. Batch \in Nat \ {0} /\ Window \in Nat \ {0} /\ MaxLinkErrors \in Nat
  BY BoundsAssumption
<1>2. \A p \in Side: /\ input[p] \in Seq(HashedIds) /\ Len(input[p]) \in Nat
                     /\ Other(p) \in Side
  BY TwoSides, InputsAssumption DEF FlowInit
<1>3. FlowTypeOK
  BY <1>1, <1>2 DEF FlowInit, FlowTypeOK
<1>4. Shaken
  BY DEF FlowInit, Shaken, Side, Threads
<1>5. ASSUME NEW p \in Side PROVE Way(p)
  <2> DEFINE q == Other(p)
  <2>1. /\ main[p] = << >> /\ queue[q] = << >> /\ dua[q] = << >> /\ held[p] = << >>
        /\ sent[p] = 0 /\ index[p] = 0 /\ taken[p] = << >> /\ known[q] = {}
        /\ done[q] = FALSE /\ \A x \in Side, t \in Threads: thread[x][t] = "off"
    BY <1>2, <1>5 DEF FlowInit
  <2>2. Batch * 0 = 0 /\ Len(<< >>) = 0
    BY <1>1
  <2>3. Fetched(p) = 0
    BY <2>1, <2>2 DEF Fetched
  <2>4. Queued(p) = 0
    BY <2>1, <2>2, <2>3 DEF Queued
  <2>5. Returned(p) = 0
    BY <2>1, <2>2, <2>4 DEF Returned
  <2>6. LookedUp(p) = 0
    BY <2>1, <2>2, <2>5 DEF LookedUp
  <2>7. Pipeline(p)
    <3>1. \A x, y: Consecutive(<< >>, input[p], x, y)
      BY DEF Consecutive
    <3>2. 0 <= Len(input[p])
      BY <1>2, <1>5
    <3> QED BY <2>1, <2>3, <2>4, <2>5, <2>6, <3>1, <3>2 DEF Pipeline
  <2>8. Progress(p)
    BY <1>2, <1>5, <2>1, <2>3 DEF Progress, Threads
  <2>9. Collected(p)
    <3>1. \A i \in DOMAIN input[p]: ~(i <= 0)
      BY <1>2, <1>5
    <3> QED BY <2>1, <2>3, <3>1 DEF Collected
  <2>10. Taken(p)
    <3>1. Ascending(<< >>) /\ Range(<< >>) = {} /\ 1..0 = {}
      BY DEF Ascending, Range
    <3> QED BY <1>5, <2>1, <3>1 DEF Taken, Threads
  <2> QED BY <2>7, <2>8, <2>9, <2>10 DEF Way
<1> QED
  BY <1>3, <1>4, <1>5 DEF FlowCore

(* Every step keeps the invariant.                                         *)
LEMMA FlowStep == FlowCore /\ [FlowNext]_flowVars => FlowCore'
<1> SUFFICES ASSUME FlowCore, [FlowNext]_flowVars PROVE FlowCore'
  OBVIOUS
<1>1. CASE Handshake
  BY <1>1, HandshakeStep
<1>2. ASSUME NEW p \in Side, NEW t \in Threads, ThreadStep(p, t) PROVE FlowCore'
  BY <1>2, SendEncryptedStep, ReceiveEncryptedStep, SendDualStep,
     ReceiveDualStep, TakeCommonStep DEF ThreadStep
<1>3. ASSUME NEW p \in Side, Return(p) \/ LinkError(p) \/ TimesOut(p) PROVE FlowCore'
  BY <1>3, ReturnStep, LinkErrorStep, TimesOutStep
<1>4. CASE FlowStopped \/ UNCHANGED flowVars
  BY <1>4, StaysPut DEF FlowStopped
<1> QED
  BY <1>1, <1>2, <1>3, <1>4 DEF FlowNext

(* Whatever the columns, the contexts, the batch size, the window and the  *)
(* link errors, every reachable state of psi_sender and psi_receiver has   *)
(* the types, the batches in their order, the sets, the positions and the  *)
(* agreement that FlowInv states.                                          *)
THEOREM FlowInvariance == FlowSpec => []FlowInv
<1>1. FlowInit => FlowCore
  BY FlowInitially
<1>2. FlowCore /\ [FlowNext]_flowVars => FlowCore'
  BY FlowStep
<1>3. FlowCore => FlowInv
  BY CoreIsEnough
<1> QED
  BY <1>1, <1>2, <1>3, PTL DEF FlowSpec

(* The positions recv_duaenc_local_cipher has taken are those of the       *)
(* common ids among the ids that have come back, in order and with the     *)
(* duplicates, however the eight threads interleave: the look-up waits for *)
(* the complete set, and a batch comes back where it was sent from.        *)
THEOREM IntersectionTaken == FlowSpec => []TakesCommon
<1>1. FlowInv => TakesCommon
  BY DEF FlowInv
<1> QED
  BY <1>1, FlowInvariance, PTL

(* A call that returns a result returns the whole intersection, whatever   *)
(* the peer and the link did, unless the error ended the thread that takes *)
(* the positions: the one way in which diffie_hellman_flow returns less.   *)
THEOREM ReturnsWhole == FlowSpec => []WholeUnlessCut
<1>1. FlowInv => WholeUnlessCut
  BY DEF FlowInv
<1> QED
  BY <1>1, FlowInvariance, PTL

(* A side that has returned, so that its key is gone, is not needed any    *)
(* more while no thread has died: its peer has nothing left to send to it. *)
THEOREM NoEarlyReturn == FlowSpec => []KeptWhileNeeded
<1>1. FlowInv => KeptWhileNeeded
  BY DEF FlowInv
<1> QED
  BY <1>1, FlowInvariance, PTL
=============================================================================
