--------------------------- MODULE DataInduction ----------------------------
(***************************************************************************)
(* Induction over data, in a form that a first-order prover can use: what  *)
(* the library's theorems say of a predicate P(_) is said here of the set  *)
(* of the numbers that satisfy it.  The proofs about the other modules use *)
(* it for what their recursive functions and folds compute.  Behind it     *)
(* come the facts about sequences that several of them need.               *)
(***************************************************************************)
EXTENDS Integers, SequencesExt, FiniteSetTheorems, SequenceTheorems, WellFoundedInduction, TLAPS

\* A set of numbers that is not empty has a lowest one.
LEMMA LowestNat ==
  ASSUME NEW S \in SUBSET Nat, S # {}
  PROVE  \E n \in S : \A m \in S : n <= m
<1>. PICK k \in S : TRUE
  OBVIOUS
<1>. DEFINE Low == {n \in S : n <= k}
            Initial == {0..n : n \in Low}
<1>1. IsWellFoundedOn(StrictSubsetOrdering(0..k), FiniteSubsetsOf(0..k))
  BY FS_StrictSubsetOrderingWellFounded
<1>2. IsFiniteSet(0..k)
  BY FS_Interval
<1>3. Initial \subseteq FiniteSubsetsOf(0..k)
  <2>1. ASSUME NEW n \in Low  PROVE 0..n \in SUBSET (0..k)
    OBVIOUS
  <2>. QED  BY <1>2, <2>1, FS_Subset DEF FiniteSubsetsOf
<1>4. Initial # {}
  OBVIOUS
<1>5. PICK T \in Initial : \A U \in Initial : <<U, T>> \notin StrictSubsetOrdering(0..k)
  <2>. HIDE DEF Initial
  <2>. QED  BY <1>1, <1>3, <1>4, WFMin
<1>6. PICK n \in Low : T = 0..n
  OBVIOUS
<1>7. \A m \in S : n <= m
  <2>. SUFFICES ASSUME NEW m \in S, m < n  PROVE FALSE
    OBVIOUS
  <2>1. m \in Low /\ 0..m \in SUBSET (0..k) /\ 0..n \in SUBSET (0..k)
    OBVIOUS
  <2>2. 0..m \subseteq 0..n /\ 0..m # 0..n
    <3>1. n \in 0..n /\ n \notin 0..m
      OBVIOUS
    <3>. QED  BY <3>1
  <2>3. <<0..m, 0..n>> \in StrictSubsetOrdering(0..k)
    BY <2>1, <2>2 DEF StrictSubsetOrdering
  <2>. QED  BY <1>5, <1>6, <2>1, <2>3
<1>. QED  BY <1>7

\* Mathematical induction over the numbers up to n.
LEMMA UpTo ==
  ASSUME NEW n \in Nat, NEW T,
         0 \in T,
         \A i \in 0..(n-1) : i \in T => i + 1 \in T
  PROVE  0..n \subseteq T
<1>. SUFFICES ASSUME 0..n \ T # {}  PROVE FALSE
  OBVIOUS
<1>1. PICK m \in 0..n \ T : \A k \in 0..n \ T : m <= k
  <2>1. 0..n \ T \in SUBSET Nat
    OBVIOUS
  <2>. QED  BY <2>1, LowestNat
<1>2. m # 0 /\ m - 1 \in 0..(n-1)
  BY <1>1
<1>3. m - 1 \in T
  BY <1>1, <1>2
<1>4. (m - 1) + 1 \in T
  BY <1>2, <1>3
<1>. QED  BY <1>1, <1>4

\* A function applied n times, the i-th time with i, to what it gave before:
\* the values it goes through form a function on 0..n.
Runs(g, n, x, F) == g[0] = x /\ \A i \in 1..n : g[i] = F[<<i, g[i-1]>>]

LEMMA RunExists ==
  ASSUME NEW n \in Nat, NEW X, NEW x \in X, NEW F \in [(1..n) \X X -> X]
  PROVE  \E g \in [0..n -> X] : Runs(g, n, x, F)
<1>. DEFINE T == {k \in 0..n : \E g \in [0..k -> X] : Runs(g, k, x, F)}
<1>1. 0 \in T
  <2>1. PICK g : g = [i \in 0..0 |-> x]
    OBVIOUS
  <2>2. g \in [0..0 -> X] /\ g[0] = x /\ 1..0 = {}
    BY <2>1
  <2>. QED  BY <2>2 DEF Runs
<1>2. ASSUME NEW k \in 0..(n-1), k \in T  PROVE k + 1 \in T
  <2>1. PICK g \in [0..k -> X] : Runs(g, k, x, F)
    BY <1>2
  <2>2. k + 1 \in 1..n /\ g[k] \in X /\ F[<<k + 1, g[k]>>] \in X
    <3>1. k + 1 \in 1..n /\ g[k] \in X
      OBVIOUS
    <3>2. <<k + 1, g[k]>> \in (1..n) \X X
      BY <3>1
    <3>. QED  BY <3>1, <3>2
  <2>3. PICK h : h = [i \in 0..(k+1) |-> IF i = k + 1 THEN F[<<k + 1, g[k]>>] ELSE g[i]]
    OBVIOUS
  <2>4. h \in [0..(k+1) -> X]
    BY <2>2, <2>3
  <2>5. /\ h[k + 1] = F[<<k + 1, g[k]>>]
        /\ \A i \in 0..k : h[i] = g[i]
    BY <2>3
  <2>6. h[0] = x
    BY <2>1, <2>5 DEF Runs
  <2>7. ASSUME NEW i \in 1..(k+1)  PROVE h[i] = F[<<i, h[i-1]>>]
    <3>1. CASE i = k + 1
      <4>1. i - 1 = k /\ k \in 0..k
        BY <3>1
      <4>. QED  BY <2>5, <3>1, <4>1
    <3>2. CASE i # k + 1
      <4>1. i \in 1..k /\ i \in 0..k /\ i - 1 \in 0..k
        BY <3>2
      <4>2. h[i] = g[i] /\ h[i-1] = g[i-1]
        BY <2>5, <4>1
      <4>3. g[i] = F[<<i, g[i-1]>>]
        BY <2>1, <4>1 DEF Runs
      <4>. QED  BY <4>2, <4>3
    <3>. QED  BY <3>1, <3>2
  <2>. QED  BY <2>2, <2>4, <2>6, <2>7 DEF Runs
<1>. HIDE DEF T
<1>3. 0..n \subseteq T
  BY <1>1, <1>2, UpTo
<1>. QED  BY <1>3 DEF T

\* Two runs of the same function from the same value are the same.
LEMMA RunUnique ==
  ASSUME NEW n \in Nat, NEW g, NEW h, NEW x, NEW F, Runs(g, n, x, F), Runs(h, n, x, F)
  PROVE  \A i \in 0..n : g[i] = h[i]
<1>. DEFINE T == {i \in 0..n : g[i] = h[i]}
<1>1. 0 \in T
  BY DEF Runs
<1>2. ASSUME NEW i \in 0..(n-1), i \in T  PROVE i + 1 \in T
  <2>1. i + 1 \in 1..n /\ (i + 1) - 1 = i /\ i + 1 \in 0..n /\ g[i] = h[i]
    BY <1>2
  <2>2. g[i + 1] = F[<<i + 1, g[i]>>] /\ h[i + 1] = F[<<i + 1, h[i]>>]
    BY <2>1 DEF Runs
  <2>. QED  BY <2>1, <2>2
<1>. HIDE DEF T
<1>3. 0..n \subseteq T
  BY <1>1, <1>2, UpTo
<1>. QED  BY <1>3 DEF T

\* What Append does to a sequence and to its range.
LEMMA AppendAll ==
  ASSUME NEW V, NEW s \in Seq(V), NEW x \in V
  PROVE  /\ Append(s, x) \in Seq(V)
         /\ Len(Append(s, x)) = Len(s) + 1
         /\ \A i \in 1..Len(s) : Append(s, x)[i] = s[i]
         /\ Append(s, x)[Len(s) + 1] = x
         /\ Range(Append(s, x)) = Range(s) \cup {x}
<1>. PICK t : t = Append(s, x)
  OBVIOUS
<1>1. /\ t \in Seq(V) /\ Len(t) = Len(s) + 1 /\ Len(s) \in Nat
      /\ \A i \in 1..Len(s) : t[i] = s[i]
      /\ t[Len(s) + 1] = x
  OBVIOUS
<1>2. DOMAIN t = 1..Len(s) \cup {Len(s) + 1} /\ DOMAIN s = 1..Len(s)
  BY <1>1
<1>3. Range(t) = Range(s) \cup {x}
  BY <1>1, <1>2 DEF Range
<1>. QED  BY <1>1, <1>3

\* A function on 1..n is a sequence.
LEMMA IsSequence ==
  ASSUME NEW V, NEW n \in Nat, NEW s, s = [i \in 1..n |-> s[i]], \A i \in 1..n : s[i] \in V
  PROVE  s \in Seq(V) /\ Len(s) = n
<1>1. s \in [1..n -> V]
  OBVIOUS
<1>. QED  BY <1>1

\* FlattenSeq joins the sequences one by one.
LEMMA FlattenRuns ==
  ASSUME NEW V, NEW blocks \in Seq(Seq(V))
  PROVE  \E g \in [0..Len(blocks) -> Seq(V)] :
           /\ g[0] = <<>>
           /\ \A i \in 1..Len(blocks) : g[i] = g[i-1] \o blocks[i]
           /\ FlattenSeq(blocks) = g[Len(blocks)]
<1>. DEFINE n == Len(blocks)
            Step(i, before) == before \o blocks[i]
            Steps(h) == [i \in 1..n |-> IF i = 1 THEN blocks[i] ELSE h[i-1] \o blocks[i]]
<1>1. n \in Nat /\ <<>> \in Seq(V) /\ \A i \in 1..n : blocks[i] \in Seq(V)
  OBVIOUS
<1>2. PICK F : F = [p \in (1..n) \X Seq(V) |-> Step(p[1], p[2])]
  OBVIOUS
<1>3. F \in [(1..n) \X Seq(V) -> Seq(V)]
  <2>1. ASSUME NEW i \in 1..n, NEW before \in Seq(V)  PROVE Step(i, before) \in Seq(V)
    <3>1. blocks[i] \in Seq(V)
      BY <1>1
    <3>. QED  BY <3>1, ConcatProperties
  <2>. HIDE DEF Step, n
  <2>2. ASSUME NEW p \in (1..n) \X Seq(V)  PROVE Step(p[1], p[2]) \in Seq(V)
    BY <2>1
  <2>. QED  BY <1>2, <2>2
<1>. HIDE DEF n
<1>4. PICK g \in [0..n -> Seq(V)] : Runs(g, n, <<>>, F)
  BY <1>1, <1>3, RunExists
<1>5. \A i \in 1..n : g[i] = g[i-1] \o blocks[i]
  <2>. SUFFICES ASSUME NEW i \in 1..n  PROVE g[i] = Step(i, g[i-1])
    OBVIOUS
  <2>1. i - 1 \in 0..n /\ g[i - 1] \in Seq(V)
    BY <1>1
  <2>2. g[i] = F[<<i, g[i-1]>>] /\ <<i, g[i-1]>> \in (1..n) \X Seq(V)
    BY <1>4, <2>1 DEF Runs
  <2>. HIDE DEF Step
  <2>. QED  BY <1>2, <2>2
<1>6. g[0] = <<>>
  BY <1>4 DEF Runs
<1>7. CASE n = 0
  <2>1. blocks = <<>> /\ FlattenSeq(blocks) = blocks
    BY <1>7 DEF FlattenSeq, n
  <2>. QED  BY <1>5, <1>6, <1>7, <2>1 DEF n
<1>8. CASE n # 0
  <2>1. PICK k : k = CHOOSE h : h = Steps(h)
    OBVIOUS
  <2>2. FlattenSeq(blocks) = k[n]
    BY <1>8, <2>1 DEF FlattenSeq, n
  <2>3. PICK f : f = [i \in 1..n |-> g[i]]
    OBVIOUS
  <2>4. f = Steps(f)
    <3>1. ASSUME NEW i \in 1..n  PROVE f[i] = IF i = 1 THEN blocks[i] ELSE f[i-1] \o blocks[i]
      <4>1. CASE i = 1
        <5>1. i - 1 = 0
          BY <4>1
        <5>2. g[i] = <<>> \o blocks[i] /\ blocks[i] \in Seq(V)
          BY <1>1, <1>5, <1>6, <5>1
        <5>. QED  BY <2>3, <4>1, <5>2, ConcatEmptySeq
      <4>2. CASE i # 1
        <5>1. i - 1 \in 1..n
          BY <1>1, <4>2
        <5>. QED  BY <1>5, <2>3, <4>2, <5>1
      <4>. QED  BY <4>1, <4>2
    <3>2. f = [i \in 1..n |-> f[i]]
      BY <2>3
    <3>. QED  BY <3>1, <3>2
  <2>5. k = Steps(k)
    <3>. HIDE DEF Steps
    <3>. QED  BY <2>1, <2>4
  <2>6. \A i \in 1..n : k[i] = IF i = 1 THEN blocks[i] ELSE k[i-1] \o blocks[i]
    BY <2>5
  <2>7. 0..n \subseteq {i \in 0..n : i = 0 \/ k[i] = g[i]}
    <3>. DEFINE T == {i \in 0..n : i = 0 \/ k[i] = g[i]}
    <3>1. 0 \in T
      BY <1>1
    <3>2. ASSUME NEW i \in 0..(n-1), i \in T  PROVE i + 1 \in T
      <4>1. i + 1 \in 1..n /\ i + 1 \in 0..n /\ (i + 1) - 1 = i
        BY <1>1
      <4>2. g[i + 1] = g[i] \o blocks[i + 1]
        BY <1>5, <4>1
      <4>3. CASE i = 0
        <5>1. i + 1 = 1
          BY <4>3
        <5>2. g[i + 1] = <<>> \o blocks[i + 1]
          BY <1>6, <4>2, <4>3
        <5>3. blocks[i + 1] \in Seq(V) /\ k[i + 1] = blocks[i + 1]
          BY <1>1, <2>6, <4>1, <5>1
        <5>4. g[i + 1] = k[i + 1]
          BY <5>2, <5>3, ConcatEmptySeq
        <5>. QED  BY <4>1, <5>4
      <4>4. CASE i # 0
        <5>1. i + 1 # 1
          BY <4>4
        <5>2. k[i + 1] = k[(i + 1) - 1] \o blocks[i + 1]
          BY <2>6, <4>1, <5>1
        <5>3. k[i] = g[i]
          BY <3>2, <4>4
        <5>. QED  BY <4>1, <4>2, <5>2, <5>3
      <4>. QED  BY <4>3, <4>4
    <3>. HIDE DEF T
    <3>3. 0..n \subseteq T
      BY <1>1, <3>1, <3>2, UpTo
    <3>. QED  BY <3>3 DEF T
  <2>8. k[n] = g[n]
    <3>1. n \in 0..n
      BY <1>1
    <3>. QED  BY <1>8, <2>7, <3>1
  <2>. QED  BY <1>5, <1>6, <2>2, <2>8 DEF n
<1>. QED  BY <1>7, <1>8

\* A tuple is a sequence of its elements.
LEMMA FourOf ==
  ASSUME NEW V, NEW a \in V, NEW b \in V, NEW c \in V, NEW d \in V
  PROVE  <<a, b, c, d>> \in Seq(V) /\ Len(<<a, b, c, d>>) = 4
OBVIOUS

\* So is one element.
LEMMA OneOf ==
  ASSUME NEW V, NEW a \in V
  PROVE  <<a>> \in Seq(V) /\ Len(<<a>>) = 1
OBVIOUS

\* The two parts of a sequence that is cut have its elements.
LEMMA PartsTyped ==
  ASSUME NEW V, NEW s \in Seq(V), NEW n \in 0..Len(s)
  PROVE  SubSeq(s, 1, n) \in Seq(V) /\ SubSeq(s, n + 1, Len(s)) \in Seq(V)
<1>1. \A i \in 1..n : s[i] \in V
  OBVIOUS
<1>2. \A i \in (n+1)..Len(s) : s[i] \in V
  OBVIOUS
<1>3. 1 \in Int /\ n \in Int /\ n + 1 \in Int /\ Len(s) \in Int
  OBVIOUS
<1>4. SubSeq(s, 1, n) \in Seq(V)
  BY <1>1, <1>3, SubSeqProperties
<1>5. SubSeq(s, n + 1, Len(s)) \in Seq(V)
  BY <1>2, <1>3, SubSeqProperties
<1>. QED  BY <1>4, <1>5

=============================================================================
