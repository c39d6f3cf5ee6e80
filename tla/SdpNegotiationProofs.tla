------------------------ MODULE SdpNegotiationProofs ------------------------
(***************************************************************************)
(* Theorems about SDPNegotiation() and about the text of what it leaves,   *)
(* for any codecs, kinds, sections and formats.  First come the operators  *)
(* of SdpMedia and SdpText, for sections and texts of any length; then an  *)
(* invariant that compares the local description with the copy that the    *)
(* function made of it carries along what was shown of one section.        *)
(***************************************************************************)
EXTENDS SdpNegotiation, DataInduction

-----------------------------------------------------------------------------
(* Keeping some elements of a sequence. *)

\* The values that Kept goes through, one element further each.
KeptRun(k, s, S) ==
  /\ k[0] = <<>>
  /\ \A i \in 1..Len(s) : k[i] = IF s[i] \in S THEN Append(k[i-1], s[i]) ELSE k[i-1]

\* Kept is the last of those values, and they are all sequences.
LEMMA KeptRuns ==
  ASSUME NEW V, NEW s \in Seq(V), NEW S
  PROVE  \E k \in [0..Len(s) -> Seq(V)] : KeptRun(k, s, S) /\ Kept(s, S) = k[Len(s)]
<1>. DEFINE n == Len(s)
            Step(i, before) == IF s[i] \in S THEN Append(before, s[i]) ELSE before
            Steps(h) == [i \in 0..n |-> IF i = 0 THEN <<>> ELSE Step(i, h[i-1])]
<1>1. n \in Nat /\ <<>> \in Seq(V) /\ \A i \in 1..n : s[i] \in V
  OBVIOUS
<1>2. PICK F : F = [p \in (1..n) \X Seq(V) |-> Step(p[1], p[2])]
  OBVIOUS
<1>3. F \in [(1..n) \X Seq(V) -> Seq(V)]
  <2>1. ASSUME NEW i \in 1..n, NEW before \in Seq(V)  PROVE Step(i, before) \in Seq(V)
    BY <1>1
  <2>. HIDE DEF Step, n
  <2>2. ASSUME NEW p \in (1..n) \X Seq(V)  PROVE Step(p[1], p[2]) \in Seq(V)
    BY <2>1
  <2>. QED  BY <1>2, <2>2
<1>. HIDE DEF n
<1>4. PICK g \in [0..n -> Seq(V)] : Runs(g, n, <<>>, F)
  BY <1>1, <1>3, RunExists
<1>5. \A i \in 1..n : g[i] = Step(i, g[i-1])
  <2>. SUFFICES ASSUME NEW i \in 1..n  PROVE g[i] = Step(i, g[i-1])
    OBVIOUS
  <2>1. i - 1 \in 0..n /\ g[i - 1] \in Seq(V)
    BY <1>1
  <2>2. g[i] = F[<<i, g[i-1]>>] /\ <<i, g[i-1]>> \in (1..n) \X Seq(V)
    BY <1>4, <2>1 DEF Runs
  <2>. QED  BY <1>2, <2>2
<1>6. g = Steps(g)
  <2>1. \A i \in 0..n : g[i] = Steps(g)[i]
    <3>1. \A i \in 0..n : i = 0 \/ i \in 1..n
      BY <1>1
    <3>. HIDE DEF Step
    <3>. QED  BY <1>4, <1>5, <3>1 DEF Runs
  <2>2. g = [i \in 0..n |-> g[i]]
    OBVIOUS
  <2>. HIDE DEF Step, Steps
  <2>. QED  BY <2>1, <2>2 DEF Steps
<1>7. PICK k : k = CHOOSE h : h = Steps(h)
  OBVIOUS
<1>8. Kept(s, S) = k[n]
  BY <1>7 DEF Kept, n
<1>9. k = Steps(k)
  <2>. HIDE DEF Steps
  <2>. QED  BY <1>6, <1>7
<1>10. k[0] = <<>> /\ \A i \in 1..n : k[i] = Step(i, k[i-1])
  <2>1. 0 \in 0..n /\ \A i \in 1..n : i \in 0..n /\ i # 0
    BY <1>1
  <2>. HIDE DEF Step
  <2>. QED  BY <1>9, <2>1
<1>11. 0..n \subseteq {i \in 0..n : k[i] \in Seq(V)}
  <2>. DEFINE T == {i \in 0..n : k[i] \in Seq(V)}
  <2>1. 0 \in T
    <3>1. 0 \in 0..n /\ k[0] \in Seq(V)
      BY <1>1, <1>10
    <3>. QED  BY <3>1
  <2>2. ASSUME NEW i \in 0..(n-1), i \in T  PROVE i + 1 \in T
    <3>1. i + 1 \in 1..n /\ i + 1 \in 0..n /\ (i + 1) - 1 = i /\ k[i] \in Seq(V)
      BY <1>1, <2>2
    <3>2. k[i + 1] = Step(i + 1, k[i])
      <4>. HIDE DEF Step
      <4>. QED  BY <1>10, <3>1
    <3>3. Step(i + 1, k[i]) \in Seq(V)
      BY <1>1, <3>1
    <3>. HIDE DEF Step
    <3>. QED  BY <3>1, <3>2, <3>3
  <2>. HIDE DEF T
  <2>3. 0..n \subseteq T
    BY <1>1, <2>1, <2>2, UpTo
  <2>. QED  BY <2>3 DEF T
<1>12. k \in [0..n -> Seq(V)]
  <2>1. DOMAIN k = 0..n /\ k = [i \in DOMAIN k |-> k[i]]
    BY <1>9
  <2>. QED  BY <1>11, <2>1
<1>. QED  BY <1>8, <1>10, <1>12 DEF KeptRun, n

\* Kept returns a sequence of the elements in S, no longer than the one it is
\* given, and shorter when an element is left out.
LEMMA KeptRange ==
  ASSUME NEW V, NEW s \in Seq(V), NEW S
  PROVE  /\ Kept(s, S) \in Seq(V)
         /\ Range(Kept(s, S)) = Range(s) \cap S
         /\ Len(Kept(s, S)) <= Len(s)
         /\ Range(s) \subseteq S => Kept(s, S) = s
         /\ Len(Kept(s, S)) = Len(s) => Range(s) \subseteq S
<1>1. PICK k \in [0..Len(s) -> Seq(V)] : KeptRun(k, s, S) /\ Kept(s, S) = k[Len(s)]
  BY KeptRuns
<1>2. Len(s) \in Nat
  OBVIOUS
<1>. DEFINE T == {i \in 0..Len(s) :
               /\ Len(k[i]) <= i
               /\ Range(k[i]) = {s[j] : j \in 1..i} \cap S
               /\ (\A j \in 1..i : s[j] \in S) => k[i] = SubSeq(s, 1, i)
               /\ Len(k[i]) = i => \A j \in 1..i : s[j] \in S}
<1>3. 0 \in T
  <2>1. k[0] = <<>> /\ Len(k[0]) = 0 /\ Range(k[0]) = {} /\ SubSeq(s, 1, 0) = <<>>
    BY <1>1 DEF KeptRun, Range
  <2>. QED  BY <1>2, <2>1
<1>4. ASSUME NEW i \in 0..(Len(s)-1), i \in T  PROVE i + 1 \in T
  <2>1. i + 1 \in 1..Len(s) /\ i + 1 \in 0..Len(s) /\ (i + 1) - 1 = i /\ i \in 0..Len(s)
    BY <1>2
  <2>2. k[i + 1] = IF s[i + 1] \in S THEN Append(k[i], s[i + 1]) ELSE k[i]
    BY <1>1, <2>1 DEF KeptRun
  <2>3. k[i] \in Seq(V) /\ s[i + 1] \in V
    BY <1>1, <2>1
  <2>4. \A j \in 1..(i+1) : j \in 1..i \/ j = i + 1
    OBVIOUS
  <2>5. {s[j] : j \in 1..(i+1)} = {s[j] : j \in 1..i} \cup {s[i + 1]}
    BY <2>4
  <2>6. CASE s[i + 1] \in S
    <3>1. Len(k[i + 1]) = Len(k[i]) + 1 /\ Range(k[i + 1]) = Range(k[i]) \cup {s[i + 1]}
      <4>1. k[i + 1] = Append(k[i], s[i + 1])
        BY <2>2, <2>6
      <4>. QED  BY <2>3, <4>1, AppendAll
    <3>2. ASSUME \A j \in 1..(i+1) : s[j] \in S  PROVE k[i + 1] = SubSeq(s, 1, i + 1)
      <4>1. k[i] = SubSeq(s, 1, i)
        BY <1>4, <3>2
      <4>2. SubSeq(s, 1, i + 1) = Append(SubSeq(s, 1, i), s[i + 1])
        BY <2>1
      <4>. QED  BY <2>2, <2>6, <4>1, <4>2
    <3>3. Len(k[i]) \in Nat
      BY <2>3
    <3>. QED  BY <1>4, <2>1, <2>4, <2>5, <2>6, <3>1, <3>2, <3>3
  <2>7. CASE s[i + 1] \notin S
    <3>1. k[i + 1] = k[i]
      BY <2>2, <2>7
    <3>2. Len(k[i]) \in Nat
      BY <2>3
    <3>3. Range(k[i + 1]) = {s[j] : j \in 1..(i+1)} \cap S
      BY <1>4, <2>5, <2>7, <3>1
    <3>4. Len(k[i + 1]) <= i /\ i + 1 \in 1..(i+1)
      BY <1>4, <3>1, <3>2
    <3>. QED  BY <2>1, <2>7, <3>2, <3>1, <3>3, <3>4
  <2>. QED  BY <2>6, <2>7
<1>. HIDE DEF T
<1>5. Len(s) \in T
  <2>1. 0..Len(s) \subseteq T
    BY <1>2, <1>3, <1>4, UpTo
  <2>. QED  BY <1>2, <2>1
<1>6. Range(s) = {s[j] : j \in 1..Len(s)} /\ SubSeq(s, 1, Len(s)) = s
  BY DEF Range
<1>. QED  BY <1>1, <1>2, <1>5, <1>6 DEF T

-----------------------------------------------------------------------------
(* Counting. *)

Occurrences(s, T) == Cardinality({i \in DOMAIN s : s[i] \in T})

\* One more element occurs once more.
LEMMA OccurrencesAppend ==
  ASSUME NEW V, NEW s \in Seq(V), NEW x \in V, NEW T
  PROVE  /\ Occurrences(s, T) \in Nat
         /\ Occurrences(Append(s, x), T) = Occurrences(s, T) + IF x \in T THEN 1 ELSE 0
<1>. DEFINE At == {i \in DOMAIN s : s[i] \in T}
<1>. PICK t : t = Append(s, x)
  OBVIOUS
<1>1. /\ Len(s) \in Nat /\ DOMAIN s = 1..Len(s) /\ DOMAIN t = 1..(Len(s) + 1)
      /\ \A i \in 1..Len(s) : t[i] = s[i]
      /\ t[Len(s) + 1] = x
  BY AppendAll
<1>2. IsFiniteSet(At)
  <2>1. IsFiniteSet(1..Len(s)) /\ At \subseteq 1..Len(s)
    BY <1>1, FS_Interval
  <2>. QED  BY <2>1, FS_Subset
<1>3. Len(s) + 1 \notin At
  BY <1>1
<1>4. {i \in DOMAIN t : t[i] \in T} = At \cup IF x \in T THEN {Len(s) + 1} ELSE {}
  BY <1>1
<1>. HIDE DEF At
<1>5. Cardinality(At) \in Nat
  BY <1>2, FS_CardinalityType
<1>6. Cardinality(At \cup {Len(s) + 1}) = Cardinality(At) + 1
  BY <1>2, <1>3, FS_AddElement
<1>7. Occurrences(s, T) = Cardinality(At)
  BY DEF At, Occurrences
<1>8. Occurrences(t, T) = Cardinality(At \cup IF x \in T THEN {Len(s) + 1} ELSE {})
  BY <1>4 DEF Occurrences
<1>9. CASE x \in T
  BY <1>5, <1>6, <1>7, <1>8, <1>9
<1>10. CASE x \notin T
  <2>1. Occurrences(t, T) = Cardinality(At)
    BY <1>8, <1>10
  <2>. QED  BY <1>5, <1>7, <1>10, <2>1
<1>. QED  BY <1>9, <1>10

\* Nothing occurs in a sequence without elements of T.
LEMMA OccurrencesNone ==
  ASSUME NEW V, NEW s \in Seq(V), NEW T
  PROVE  /\ Occurrences(s, T) \in Nat
         /\ Occurrences(s, T) = 0 <=> Range(s) \cap T = {}
<1>1. IsFiniteSet({i \in DOMAIN s : s[i] \in T})
  <2>1. IsFiniteSet(1..Len(s)) /\ {i \in DOMAIN s : s[i] \in T} \subseteq 1..Len(s)
    BY FS_Interval
  <2>. QED  BY <2>1, FS_Subset
<1>2. /\ Cardinality({i \in DOMAIN s : s[i] \in T}) \in Nat
      /\ Cardinality({i \in DOMAIN s : s[i] \in T}) = 0 <=> {i \in DOMAIN s : s[i] \in T} = {}
  BY <1>1, FS_CardinalityType, FS_EmptySet
<1>. QED  BY <1>2 DEF Occurrences, Range

\* What is in S is kept as often as it occurs.
LEMMA KeptOccurrences ==
  ASSUME NEW V, NEW s \in Seq(V), NEW S, NEW T, T \cap Range(s) \subseteq S
  PROVE  Occurrences(Kept(s, S), T) = Occurrences(s, T)
<1>1. PICK k \in [0..Len(s) -> Seq(V)] : KeptRun(k, s, S) /\ Kept(s, S) = k[Len(s)]
  BY KeptRuns
<1>2. Len(s) \in Nat
  OBVIOUS
<1>. DEFINE I == {i \in 0..Len(s) : Occurrences(k[i], T) = Occurrences(SubSeq(s, 1, i), T)}
<1>3. 0 \in I
  <2>1. k[0] = <<>> /\ SubSeq(s, 1, 0) = <<>>
    BY <1>1 DEF KeptRun
  <2>. QED  BY <1>2, <2>1
<1>4. ASSUME NEW i \in 0..(Len(s)-1), i \in I  PROVE i + 1 \in I
  <2>1. i + 1 \in 1..Len(s) /\ i + 1 \in 0..Len(s) /\ (i + 1) - 1 = i /\ i \in 0..Len(s)
    BY <1>2
  <2>2. k[i + 1] = IF s[i + 1] \in S THEN Append(k[i], s[i + 1]) ELSE k[i]
    BY <1>1, <2>1 DEF KeptRun
  <2>3. k[i] \in Seq(V) /\ s[i + 1] \in V /\ SubSeq(s, 1, i) \in Seq(V)
    BY <1>1, <2>1
  <2>4. SubSeq(s, 1, i + 1) = Append(SubSeq(s, 1, i), s[i + 1])
    BY <2>1
  <2>5. Occurrences(SubSeq(s, 1, i + 1), T)
          = Occurrences(SubSeq(s, 1, i), T) + IF s[i + 1] \in T THEN 1 ELSE 0
    <3>1. PICK t \in Seq(V) : t = SubSeq(s, 1, i)
      BY <2>3
    <3>2. PICK x \in V : x = s[i + 1]
      BY <2>3
    <3>3. Occurrences(Append(t, x), T) = Occurrences(t, T) + IF x \in T THEN 1 ELSE 0
      BY OccurrencesAppend
    <3>. QED  BY <2>4, <3>1, <3>2, <3>3
  <2>6. /\ Occurrences(k[i], T) \in Nat
        /\ Occurrences(Append(k[i], s[i + 1]), T)
             = Occurrences(k[i], T) + IF s[i + 1] \in T THEN 1 ELSE 0
    BY <2>3, OccurrencesAppend
  <2>7. s[i + 1] \in T => s[i + 1] \in S
    BY <2>1 DEF Range
  <2>8. Occurrences(k[i], T) = Occurrences(SubSeq(s, 1, i), T)
    BY <1>4
  <2>9. CASE s[i + 1] \in S
    BY <2>1, <2>2, <2>5, <2>6, <2>8, <2>9
  <2>10. CASE s[i + 1] \notin S
    BY <2>1, <2>2, <2>5, <2>6, <2>7, <2>8, <2>10
  <2>. QED  BY <2>9, <2>10
<1>. HIDE DEF I
<1>5. Len(s) \in I
  <2>1. 0..Len(s) \subseteq I
    BY <1>2, <1>3, <1>4, UpTo
  <2>. QED  BY <1>2, <2>1
<1>6. SubSeq(s, 1, Len(s)) = s
  OBVIOUS
<1>. QED  BY <1>1, <1>5, <1>6 DEF I

-----------------------------------------------------------------------------
(* Order. *)

\* What is kept comes in the order it had.
OrderedIn(k, s, n) ==
  \A a, b \in 1..Len(k) : a < b =>
    \E p, q \in 1..n : p < q /\ s[p] = k[a] /\ s[q] = k[b]

InOrder(k, s) == OrderedIn(k, s, Len(s))

Found(k, s, n) == \A a \in 1..Len(k) : \E p \in 1..n : s[p] = k[a]

\* Kept leaves the order as it is.
LEMMA KeptOrder ==
  ASSUME NEW V, NEW s \in Seq(V), NEW S
  PROVE  InOrder(Kept(s, S), s)
<1>1. PICK k \in [0..Len(s) -> Seq(V)] : KeptRun(k, s, S) /\ Kept(s, S) = k[Len(s)]
  BY KeptRuns
<1>2. Len(s) \in Nat
  OBVIOUS
<1>. DEFINE I == {i \in 0..Len(s) : Found(k[i], s, i) /\ OrderedIn(k[i], s, i)}
<1>3. 0 \in I
  <2>1. Len(k[0]) = 0
    BY <1>1 DEF KeptRun
  <2>. QED  BY <1>2, <2>1 DEF Found, OrderedIn
<1>4. ASSUME NEW i \in 0..(Len(s)-1), i \in I  PROVE i + 1 \in I
  <2>1. i + 1 \in 1..Len(s) /\ i + 1 \in 0..Len(s) /\ (i + 1) - 1 = i /\ i \in 0..Len(s)
    BY <1>2
  <2>2. k[i + 1] = IF s[i + 1] \in S THEN Append(k[i], s[i + 1]) ELSE k[i]
    BY <1>1, <2>1 DEF KeptRun
  <2>3. k[i] \in Seq(V) /\ s[i + 1] \in V
    BY <1>1, <2>1
  <2>4. 1..i \subseteq 1..(i+1) /\ i + 1 \in 1..(i+1) /\ \A p \in 1..i : p < i + 1
    BY <2>1
  <2>5. CASE s[i + 1] \in S
    <3>1. PICK t : t = k[i + 1]
      OBVIOUS
    <3>2. /\ Len(t) = Len(k[i]) + 1 /\ Len(k[i]) \in Nat
          /\ \A a \in 1..Len(k[i]) : t[a] = k[i][a]
          /\ t[Len(k[i]) + 1] = s[i + 1]
      BY <2>2, <2>3, <2>5, <3>1, AppendAll
    <3>3. ASSUME NEW a \in 1..Len(t)  PROVE \E p \in 1..(i+1) : s[p] = t[a]
      <4>1. CASE a \in 1..Len(k[i])
        <5>1. PICK p \in 1..i : s[p] = k[i][a]
          BY <1>4, <4>1 DEF Found
        <5>. QED  BY <2>4, <3>2, <4>1, <5>1
      <4>2. CASE a = Len(k[i]) + 1
        BY <2>4, <3>2, <4>2
      <4>. QED  BY <3>2, <4>1, <4>2
    <3>4. ASSUME NEW a \in 1..Len(t), NEW b \in 1..Len(t), a < b
          PROVE  \E p, q \in 1..(i+1) : p < q /\ s[p] = t[a] /\ s[q] = t[b]
      <4>1. a \in 1..Len(k[i])
        BY <3>2, <3>4
      <4>2. CASE b \in 1..Len(k[i])
        <5>1. PICK p \in 1..i, q \in 1..i : p < q /\ s[p] = k[i][a] /\ s[q] = k[i][b]
          BY <1>4, <3>4, <4>1, <4>2 DEF OrderedIn
        <5>. QED  BY <2>4, <3>2, <4>1, <4>2, <5>1
      <4>3. CASE b = Len(k[i]) + 1
        <5>1. PICK p \in 1..i : s[p] = k[i][a]
          BY <1>4, <4>1 DEF Found
        <5>2. p \in 1..(i+1) /\ p < i + 1 /\ s[p] = t[a] /\ s[i + 1] = t[b]
          BY <2>4, <3>2, <4>1, <4>3, <5>1
        <5>. QED  BY <2>4, <5>2
      <4>. QED  BY <3>2, <4>2, <4>3
    <3>5. Found(t, s, i + 1) /\ OrderedIn(t, s, i + 1)
      BY <3>3, <3>4 DEF Found, OrderedIn
    <3>6. k[i + 1] = t
      BY <3>1
    <3>. QED  BY <2>1, <3>5, <3>6
  <2>6. CASE s[i + 1] \notin S
    <3>1. k[i + 1] = k[i]
      BY <2>2, <2>6
    <3>2. ASSUME NEW a \in 1..Len(k[i])  PROVE \E p \in 1..(i+1) : s[p] = k[i][a]
      BY <1>4, <2>4 DEF Found
    <3>3. ASSUME NEW a \in 1..Len(k[i]), NEW b \in 1..Len(k[i]), a < b
          PROVE  \E p, q \in 1..(i+1) : p < q /\ s[p] = k[i][a] /\ s[q] = k[i][b]
      <4>1. PICK p \in 1..i, q \in 1..i : p < q /\ s[p] = k[i][a] /\ s[q] = k[i][b]
        BY <1>4, <3>3 DEF OrderedIn
      <4>. QED  BY <2>4, <4>1
    <3>4. Found(k[i], s, i + 1) /\ OrderedIn(k[i], s, i + 1)
      BY <3>2, <3>3 DEF Found, OrderedIn
    <3>. QED  BY <2>1, <3>1, <3>4
  <2>. QED  BY <2>5, <2>6
<1>. HIDE DEF I
<1>5. Len(s) \in I
  <2>1. 0..Len(s) \subseteq I
    BY <1>2, <1>3, <1>4, UpTo
  <2>. QED  BY <1>2, <2>1
<1>. QED  BY <1>1, <1>5 DEF I, InOrder

\* Behind the last element that is left out everything stays at the end.
KeepsEnd(k, s, p) ==
  /\ Len(k) >= Len(s) - p
  /\ \A j \in 1..(Len(s) - p) : k[Len(k) - (Len(s) - p) + j] = s[p + j]

\* An end that is in S stays.
LEMMA KeptSuffix ==
  ASSUME NEW V, NEW s \in Seq(V), NEW S, NEW p \in 0..Len(s),
         \A j \in 1..Len(s) : j > p => s[j] \in S
  PROVE  KeepsEnd(Kept(s, S), s, p)
<1>1. PICK k \in [0..Len(s) -> Seq(V)] : KeptRun(k, s, S) /\ Kept(s, S) = k[Len(s)]
  BY KeptRuns
<1>2. Len(s) \in Nat
  OBVIOUS
<1>. DEFINE I == {i \in 0..Len(s) : i >= p =>
               /\ Len(k[i]) >= i - p
               /\ \A j \in 1..(i - p) : k[i][Len(k[i]) - (i - p) + j] = s[p + j]}
<1>3. 0 \in I
  <2>1. Len(k[0]) = 0
    BY <1>1 DEF KeptRun
  <2>. QED  BY <1>2, <2>1
<1>4. ASSUME NEW i \in 0..(Len(s)-1), i \in I  PROVE i + 1 \in I
  <2>1. i + 1 \in 1..Len(s) /\ i + 1 \in 0..Len(s) /\ (i + 1) - 1 = i /\ i \in 0..Len(s)
    BY <1>2
  <2>2. k[i + 1] = IF s[i + 1] \in S THEN Append(k[i], s[i + 1]) ELSE k[i]
    BY <1>1, <2>1 DEF KeptRun
  <2>3. k[i] \in Seq(V) /\ k[i + 1] \in Seq(V) /\ s[i + 1] \in V
    BY <1>1, <2>1
  <2>4. CASE i + 1 > p
    <3>1. s[i + 1] \in S
      BY <2>1, <2>4
    <3>2. PICK t : t = k[i + 1]
      OBVIOUS
    <3>3. /\ Len(t) = Len(k[i]) + 1 /\ Len(k[i]) \in Nat
          /\ \A a \in 1..Len(k[i]) : t[a] = k[i][a]
          /\ t[Len(k[i]) + 1] = s[i + 1]
      BY <2>2, <2>3, <3>1, <3>2, AppendAll
    <3>4. /\ Len(k[i]) >= i - p
          /\ \A j \in 1..(i - p) : k[i][Len(k[i]) - (i - p) + j] = s[p + j]
      BY <1>4, <2>4
    <3>5. ASSUME NEW j \in 1..(i + 1 - p)  PROVE t[Len(t) - (i + 1 - p) + j] = s[p + j]
      <4>1. CASE j \in 1..(i - p)
        <5>1. PICK a \in 1..Len(k[i]) : a = Len(k[i]) - (i - p) + j
          <6>1. Len(k[i]) - (i - p) + j \in 1..Len(k[i])
            BY <1>2, <3>3, <3>4, <4>1
          <6>. QED  BY <6>1
        <5>2. Len(t) - (i + 1 - p) + j = a
          BY <3>3, <5>1
        <5>3. t[a] = k[i][a] /\ k[i][a] = s[p + j]
          BY <3>3, <3>4, <4>1, <5>1
        <5>. QED  BY <5>2, <5>3
      <4>2. CASE j = i + 1 - p
        <5>1. Len(t) - (i + 1 - p) + j = Len(k[i]) + 1 /\ p + j = i + 1
          <6>1. PICK m \in Nat : m = Len(k[i]) /\ Len(t) = m + 1
            BY <3>3
          <6>2. i \in Nat /\ p \in Nat
            BY <1>2
          <6>3. (m + 1) - (i + 1 - p) + j = m + 1 /\ p + j = i + 1
            BY <4>2, <6>2
          <6>. QED  BY <6>1, <6>3
        <5>. QED  BY <3>3, <5>1
      <4>. QED  BY <4>1, <4>2
    <3>6. Len(t) >= i + 1 - p
      BY <3>3, <3>4
    <3>7. /\ Len(k[i + 1]) >= i + 1 - p
          /\ \A j \in 1..(i + 1 - p) : k[i + 1][Len(k[i + 1]) - (i + 1 - p) + j] = s[p + j]
      BY <3>2, <3>5, <3>6
    <3>. QED  BY <2>1, <3>7
  <2>5. CASE ~(i + 1 > p)
    <3>1. CASE i + 1 = p
      <4>1. Len(k[i + 1]) \in Nat /\ 1..((i + 1) - p) = {} /\ (i + 1) - p = 0
        BY <2>3, <3>1
      <4>. QED  BY <2>1, <4>1
    <3>2. CASE i + 1 < p
      BY <2>1, <3>2
    <3>. QED  BY <2>5, <3>1, <3>2
  <2>. QED  BY <2>4, <2>5
<1>. HIDE DEF I
<1>5. Len(s) \in I
  <2>1. 0..Len(s) \subseteq I
    BY <1>2, <1>3, <1>4, UpTo
  <2>. QED  BY <1>2, <2>1
<1>. QED  BY <1>1, <1>2, <1>5 DEF I, KeepsEnd

\* No two neighbours that are both outside W.
NoPair(s, W) == \A i \in 1..(Len(s) - 1) : s[i] \in W \/ s[i + 1] \in W

\* Kept makes no two elements of W.
LEMMA KeptNoPair ==
  ASSUME NEW V, NEW s \in Seq(V), NEW S, NEW W,
         Range(s) \cap W \subseteq S, NoPair(s, W)
  PROVE  NoPair(Kept(s, S), W)
<1>1. PICK k \in [0..Len(s) -> Seq(V)] : KeptRun(k, s, S) /\ Kept(s, S) = k[Len(s)]
  BY KeptRuns
<1>2. Len(s) \in Nat
  OBVIOUS
<1>. DEFINE I == {i \in 0..Len(s) :
               /\ NoPair(k[i], W)
               /\ Len(k[i]) > 0 /\ k[i][Len(k[i])] \notin W => i > 0 /\ s[i] \notin W}
<1>3. 0 \in I
  <2>1. Len(k[0]) = 0
    BY <1>1 DEF KeptRun
  <2>. QED  BY <1>2, <2>1 DEF NoPair
<1>4. ASSUME NEW i \in 0..(Len(s)-1), i \in I  PROVE i + 1 \in I
  <2>1. i + 1 \in 1..Len(s) /\ i + 1 \in 0..Len(s) /\ (i + 1) - 1 = i /\ i \in 0..Len(s)
    BY <1>2
  <2>2. k[i + 1] = IF s[i + 1] \in S THEN Append(k[i], s[i + 1]) ELSE k[i]
    BY <1>1, <2>1 DEF KeptRun
  <2>3. k[i] \in Seq(V) /\ s[i + 1] \in V /\ Len(k[i]) \in Nat
    BY <1>1, <2>1
  <2>4. i > 0 => s[i] \in W \/ s[i + 1] \in W
    <3>1. i > 0 => i \in 1..(Len(s) - 1)
      BY <1>2
    <3>. QED  BY <3>1 DEF NoPair
  <2>5. CASE s[i + 1] \in S
    <3>1. PICK t : t = k[i + 1]
      OBVIOUS
    <3>2. /\ Len(t) = Len(k[i]) + 1 /\ Len(k[i]) \in Nat
          /\ \A a \in 1..Len(k[i]) : t[a] = k[i][a]
          /\ t[Len(k[i]) + 1] = s[i + 1]
      BY <2>2, <2>3, <2>5, <3>1, AppendAll
    <3>3. ASSUME NEW a \in 1..(Len(t) - 1)  PROVE t[a] \in W \/ t[a + 1] \in W
      <4>1. CASE a = Len(k[i])
        <5>1. t[a] = k[i][Len(k[i])] /\ Len(k[i]) > 0 /\ t[a + 1] = s[i + 1]
          BY <3>2, <4>1
        <5>. QED  BY <1>4, <2>4, <5>1
      <4>2. CASE a < Len(k[i])
        <5>1. a \in 1..Len(k[i]) /\ a + 1 \in 1..Len(k[i]) /\ a \in 1..(Len(k[i]) - 1)
          BY <2>3, <4>2
        <5>2. k[i][a] \in W \/ k[i][a + 1] \in W
          BY <1>4, <5>1 DEF NoPair
        <5>. QED  BY <3>2, <5>1, <5>2
      <4>. QED  BY <3>2, <4>1, <4>2
    <3>4. t[Len(t)] = s[i + 1]
      BY <3>2
    <3>5. NoPair(t, W)
      BY <3>3 DEF NoPair
    <3>6. k[i + 1] = t /\ i + 1 > 0
      BY <3>1
    <3>. QED  BY <2>1, <3>4, <3>5, <3>6
  <2>6. CASE s[i + 1] \notin S
    <3>1. k[i + 1] = k[i] /\ i + 1 > 0
      BY <2>2, <2>6
    <3>2. s[i + 1] \notin W
      BY <2>1, <2>6 DEF Range
    <3>. QED  BY <1>4, <2>1, <3>1, <3>2
  <2>. QED  BY <2>5, <2>6
<1>. HIDE DEF I
<1>5. Len(s) \in I
  <2>1. 0..Len(s) \subseteq I
    BY <1>2, <1>3, <1>4, UpTo
  <2>. QED  BY <1>2, <2>1
<1>. QED  BY <1>1, <1>5 DEF I

\* If the first element outside S is the first one outside W, then the element
\* behind it takes its place and is in W.
LEMMA KeptPrefix ==
  ASSUME NEW V, NEW s \in Seq(V), NEW S, NEW W,
         Range(s) \cap W \subseteq S, NoPair(s, W),
         NEW i \in 1..Len(s), s[i] \notin S, \A j \in 1..(i-1) : s[j] \in W
  PROVE  \A j \in 1..i : j <= Len(Kept(s, S)) => Kept(s, S)[j] \in W
<1>1. PICK k \in [0..Len(s) -> Seq(V)] : KeptRun(k, s, S) /\ Kept(s, S) = k[Len(s)]
  BY KeptRuns
<1>2. Len(s) \in Nat
  OBVIOUS
<1>. DEFINE I == {m \in 0..Len(s) :
               /\ m < i => Len(k[m]) = m
               /\ m = i => Len(k[m]) = i - 1
               /\ m > i => Len(k[m]) >= i
               /\ \A j \in 1..i : j <= Len(k[m]) => k[m][j] \in W}
<1>3. 0 \in I
  <2>1. Len(k[0]) = 0
    BY <1>1 DEF KeptRun
  <2>. QED  BY <1>2, <2>1
<1>4. ASSUME NEW m \in 0..(Len(s)-1), m \in I  PROVE m + 1 \in I
  <2>1. m + 1 \in 1..Len(s) /\ m + 1 \in 0..Len(s) /\ (m + 1) - 1 = m /\ m \in 0..Len(s)
    BY <1>2
  <2>2. k[m + 1] = IF s[m + 1] \in S THEN Append(k[m], s[m + 1]) ELSE k[m]
    BY <1>1, <2>1 DEF KeptRun
  <2>3. k[m] \in Seq(V) /\ s[m + 1] \in V /\ Len(k[m]) \in Nat
    BY <1>1, <2>1
  <2>4. s[m + 1] \in W => s[m + 1] \in S
    BY <2>1 DEF Range
  <2>5. CASE s[m + 1] \in S
    <3>1. PICK t : t = k[m + 1]
      OBVIOUS
    <3>2. /\ Len(t) = Len(k[m]) + 1
          /\ \A a \in 1..Len(k[m]) : t[a] = k[m][a]
          /\ t[Len(k[m]) + 1] = s[m + 1]
      BY <2>2, <2>3, <2>5, <3>1, AppendAll
    <3>3. m + 1 # i
      BY <2>5
    <3>4. m + 1 < i => Len(t) = m + 1
      BY <1>4, <3>2
    <3>5. m + 1 > i => Len(t) >= i
      BY <1>4, <2>3, <3>2, <3>3
    <3>6. m + 1 < i \/ m = i => s[m + 1] \in W
      <4>1. CASE m + 1 < i
        <5>1. m + 1 \in 1..(i-1)
          BY <2>1, <4>1
        <5>. QED  BY <5>1
      <4>2. CASE m = i
        <5>1. m \in 1..(Len(s) - 1)
          BY <1>2, <4>2
        <5>2. s[m] \notin W
          BY <4>2 DEF Range
        <5>. QED  BY <5>1, <5>2 DEF NoPair
      <4>. QED  BY <4>1, <4>2
    <3>7. ASSUME NEW j \in 1..i, j <= Len(t)  PROVE t[j] \in W
      <4>1. CASE j <= Len(k[m])
        <5>1. j \in 1..Len(k[m])
          BY <2>3, <4>1
        <5>. QED  BY <1>4, <3>2, <4>1, <5>1
      <4>2. CASE j = Len(k[m]) + 1
        <5>1. m + 1 < i \/ m = i
          BY <1>4, <2>3, <3>3, <4>2
        <5>. QED  BY <3>2, <3>6, <4>2, <5>1
      <4>. QED  BY <2>3, <3>2, <3>7, <4>1, <4>2
    <3>8. k[m + 1] = t
      BY <3>1
    <3>. QED  BY <2>1, <3>3, <3>4, <3>5, <3>7, <3>8
  <2>6. CASE s[m + 1] \notin S
    <3>1. k[m + 1] = k[m]
      BY <2>2, <2>6
    <3>2. ~(m + 1 < i)
      <4>1. m + 1 < i => m + 1 \in 1..(i-1)
        BY <2>1
      <4>. QED  BY <2>4, <2>6, <4>1
    <3>3. m + 1 > i => Len(k[m]) >= i
      <4>1. CASE m = i
        <5>1. m \in 1..(Len(s) - 1)
          BY <1>2, <4>1
        <5>2. s[m] \notin W
          BY <4>1 DEF Range
        <5>3. s[m + 1] \in W
          BY <5>1, <5>2 DEF NoPair
        <5>. QED  BY <2>4, <2>6, <5>3
      <4>. QED  BY <1>4, <4>1
    <3>4. m + 1 = i => Len(k[m]) = i - 1
      BY <1>4
    <3>. QED  BY <1>4, <2>1, <3>1, <3>2, <3>3, <3>4
  <2>. QED  BY <2>5, <2>6
<1>. HIDE DEF I
<1>5. Len(s) \in I
  <2>1. 0..Len(s) \subseteq I
    BY <1>2, <1>3, <1>4, UpTo
  <2>. QED  BY <1>2, <2>1
<1>. QED  BY <1>1, <1>5 DEF I

-----------------------------------------------------------------------------
(* The last a= line of a codec. *)

Matches(attr, type, codec) == attr.type = type /\ attr.codec = codec

LastRun(g, s, type, codec, default) ==
  /\ g[0] = default
  /\ \A i \in 1..Len(s) :
       g[i] = IF Matches(s[i], type, codec) THEN s[i].value ELSE g[i-1]

\* LastValue is the last of those values.
LEMMA LastRuns ==
  ASSUME NEW V, NEW s \in Seq(V), NEW type, NEW codec, NEW default
  PROVE  \E g : /\ LastRun(g, s, type, codec, default)
                /\ LastValue(s, type, codec, default) = g[Len(s)]
<1>. DEFINE n == Len(s)
            X == {default} \cup {a.value : a \in V}
            Step(i, before) == IF Matches(s[i], type, codec) THEN s[i].value ELSE before
            Steps(h) == [i \in 0..n |-> IF i = 0 THEN default ELSE Step(i, h[i-1])]
<1>1. n \in Nat /\ default \in X /\ \A i \in 1..n : s[i] \in V
  OBVIOUS
<1>2. PICK F : F = [p \in (1..n) \X X |-> Step(p[1], p[2])]
  OBVIOUS
<1>3. F \in [(1..n) \X X -> X]
  <2>1. ASSUME NEW i \in 1..n, NEW before \in X  PROVE Step(i, before) \in X
    BY <1>1
  <2>. HIDE DEF Step, n, X
  <2>2. ASSUME NEW p \in (1..n) \X X  PROVE Step(p[1], p[2]) \in X
    BY <2>1
  <2>. QED  BY <1>2, <2>2
<1>. HIDE DEF n, X
<1>4. PICK g \in [0..n -> X] : Runs(g, n, default, F)
  BY <1>1, <1>3, RunExists
<1>5. \A i \in 1..n : g[i] = Step(i, g[i-1])
  <2>. SUFFICES ASSUME NEW i \in 1..n  PROVE g[i] = Step(i, g[i-1])
    OBVIOUS
  <2>1. i - 1 \in 0..n /\ g[i - 1] \in X
    BY <1>1
  <2>2. g[i] = F[<<i, g[i-1]>>] /\ <<i, g[i-1]>> \in (1..n) \X X
    BY <1>4, <2>1 DEF Runs
  <2>. QED  BY <1>2, <2>2
<1>6. g = Steps(g)
  <2>1. \A i \in 0..n : g[i] = Steps(g)[i]
    <3>1. \A i \in 0..n : i = 0 \/ i \in 1..n
      BY <1>1
    <3>. HIDE DEF Step
    <3>. QED  BY <1>4, <1>5, <3>1 DEF Runs
  <2>2. g = [i \in 0..n |-> g[i]]
    OBVIOUS
  <2>. HIDE DEF Step, Steps
  <2>. QED  BY <2>1, <2>2 DEF Steps
<1>7. PICK k : k = CHOOSE h : h = Steps(h)
  OBVIOUS
<1>8. LastValue(s, type, codec, default) = k[n]
  BY <1>7 DEF LastValue, n, Matches
<1>9. k = Steps(k)
  <2>. HIDE DEF Steps
  <2>. QED  BY <1>6, <1>7
<1>10. k[0] = default /\ \A i \in 1..n : k[i] = Step(i, k[i-1])
  <2>1. 0 \in 0..n /\ \A i \in 1..n : i \in 0..n /\ i # 0
    BY <1>1
  <2>. HIDE DEF Step
  <2>. QED  BY <1>9, <2>1
<1>. QED  BY <1>8, <1>10 DEF LastRun, n

\* A line more: it counts if it is one of the codec's.
LEMMA LastAppend ==
  ASSUME NEW V, NEW s \in Seq(V), NEW x \in V, NEW type, NEW codec, NEW default
  PROVE  LastValue(Append(s, x), type, codec, default)
           = IF Matches(x, type, codec) THEN x.value ELSE LastValue(s, type, codec, default)
<1>. PICK t : t = Append(s, x)
  OBVIOUS
<1>1. /\ t \in Seq(V) /\ Len(t) = Len(s) + 1 /\ Len(s) \in Nat
      /\ \A i \in 1..Len(s) : t[i] = s[i]
      /\ t[Len(s) + 1] = x
  BY AppendAll
<1>2. PICK g : /\ LastRun(g, s, type, codec, default)
               /\ LastValue(s, type, codec, default) = g[Len(s)]
  BY LastRuns
<1>3. PICK h : /\ LastRun(h, t, type, codec, default)
               /\ LastValue(t, type, codec, default) = h[Len(t)]
  BY <1>1, LastRuns
<1>. DEFINE I == {i \in 0..Len(s) : g[i] = h[i]}
<1>4. 0 \in I
  BY <1>1, <1>2, <1>3 DEF LastRun
<1>5. ASSUME NEW i \in 0..(Len(s)-1), i \in I  PROVE i + 1 \in I
  <2>1. i + 1 \in 1..Len(s) /\ i + 1 \in 1..Len(t) /\ i + 1 \in 0..Len(s) /\ (i + 1) - 1 = i
    BY <1>1
  <2>2. /\ g[i + 1] = IF Matches(s[i + 1], type, codec) THEN s[i + 1].value ELSE g[i]
        /\ h[i + 1] = IF Matches(t[i + 1], type, codec) THEN t[i + 1].value ELSE h[i]
    BY <1>2, <1>3, <2>1 DEF LastRun
  <2>3. t[i + 1] = s[i + 1] /\ g[i] = h[i]
    BY <1>1, <1>5, <2>1
  <2>. QED  BY <2>1, <2>2, <2>3
<1>. HIDE DEF I
<1>6. Len(s) \in I
  <2>1. 0..Len(s) \subseteq I
    BY <1>1, <1>4, <1>5, UpTo
  <2>. QED  BY <1>1, <2>1
<1>7. h[Len(t)] = IF Matches(x, type, codec) THEN x.value ELSE h[Len(s)]
  <2>1. Len(t) \in 1..Len(t) /\ Len(t) - 1 = Len(s) /\ t[Len(t)] = x
    BY <1>1
  <2>2. h[Len(t)] = IF Matches(t[Len(t)], type, codec) THEN t[Len(t)].value ELSE h[Len(t) - 1]
    BY <1>3, <2>1 DEF LastRun
  <2>. QED  BY <2>1, <2>2
<1>. QED  BY <1>2, <1>3, <1>6, <1>7 DEF I

\* Without a line of the codec the default counts, otherwise the value of one.
LEMMA LastTyped ==
  ASSUME NEW V, NEW s \in Seq(V), NEW type, NEW codec, NEW default
  PROVE  /\ (\A i \in 1..Len(s) : ~Matches(s[i], type, codec)) =>
              LastValue(s, type, codec, default) = default
         /\ (\E i \in 1..Len(s) : Matches(s[i], type, codec)) =>
              \E i \in 1..Len(s) : /\ Matches(s[i], type, codec)
                                   /\ LastValue(s, type, codec, default) = s[i].value
<1>1. PICK g : /\ LastRun(g, s, type, codec, default)
               /\ LastValue(s, type, codec, default) = g[Len(s)]
  BY LastRuns
<1>2. Len(s) \in Nat
  OBVIOUS
<1>. DEFINE I == {i \in 0..Len(s) :
               \/ /\ \A j \in 1..i : ~Matches(s[j], type, codec)
                  /\ g[i] = default
               \/ \E j \in 1..i : Matches(s[j], type, codec) /\ g[i] = s[j].value}
<1>3. 0 \in I
  BY <1>1, <1>2 DEF LastRun
<1>4. ASSUME NEW i \in 0..(Len(s)-1), i \in I  PROVE i + 1 \in I
  <2>1. i + 1 \in 1..Len(s) /\ i + 1 \in 0..Len(s) /\ (i + 1) - 1 = i
    BY <1>2
  <2>2. g[i + 1] = IF Matches(s[i + 1], type, codec) THEN s[i + 1].value ELSE g[i]
    BY <1>1, <2>1 DEF LastRun
  <2>3. 1..(i+1) = 1..i \cup {i + 1}
    OBVIOUS
  <2>. QED  BY <1>4, <2>1, <2>2, <2>3
<1>. HIDE DEF I
<1>5. Len(s) \in I
  <2>1. 0..Len(s) \subseteq I
    BY <1>2, <1>3, <1>4, UpTo
  <2>. QED  BY <1>2, <2>1
<1>. QED  BY <1>1, <1>5 DEF I

\* Lines of others may go: the last one of the codec stays the last.
LEMMA KeptLast ==
  ASSUME NEW V, NEW s \in Seq(V), NEW S, NEW type, NEW codec, NEW default,
         \A i \in 1..Len(s) : Matches(s[i], type, codec) => s[i] \in S
  PROVE  LastValue(Kept(s, S), type, codec, default) = LastValue(s, type, codec, default)
<1>1. PICK k \in [0..Len(s) -> Seq(V)] : KeptRun(k, s, S) /\ Kept(s, S) = k[Len(s)]
  BY KeptRuns
<1>2. PICK g : /\ LastRun(g, s, type, codec, default)
               /\ LastValue(s, type, codec, default) = g[Len(s)]
  BY LastRuns
<1>3. Len(s) \in Nat
  OBVIOUS
<1>. DEFINE I == {i \in 0..Len(s) : LastValue(k[i], type, codec, default) = g[i]}
<1>4. 0 \in I
  <2>1. k[0] \in Seq(V) /\ k[0] = <<>> /\ Len(k[0]) = 0
    BY <1>1, <1>3 DEF KeptRun
  <2>2. \A i \in 1..Len(k[0]) : ~Matches(k[0][i], type, codec)
    BY <2>1
  <2>3. LastValue(k[0], type, codec, default) = default
    BY <2>1, <2>2, LastTyped
  <2>. QED  BY <1>2, <1>3, <2>3 DEF LastRun
<1>5. ASSUME NEW i \in 0..(Len(s)-1), i \in I  PROVE i + 1 \in I
  <2>1. i + 1 \in 1..Len(s) /\ i + 1 \in 0..Len(s) /\ (i + 1) - 1 = i /\ i \in 0..Len(s)
    BY <1>3
  <2>2. k[i + 1] = IF s[i + 1] \in S THEN Append(k[i], s[i + 1]) ELSE k[i]
    BY <1>1, <2>1 DEF KeptRun
  <2>3. g[i + 1] = IF Matches(s[i + 1], type, codec) THEN s[i + 1].value ELSE g[i]
    BY <1>2, <2>1 DEF LastRun
  <2>4. PICK t \in Seq(V), x \in V : t = k[i] /\ x = s[i + 1]
    BY <1>1, <2>1
  <2>5. LastValue(Append(t, x), type, codec, default)
          = IF Matches(x, type, codec) THEN x.value ELSE LastValue(t, type, codec, default)
    BY LastAppend
  <2>6. LastValue(t, type, codec, default) = g[i]
    BY <1>5, <2>4
  <2>7. x \notin S => ~Matches(x, type, codec)
    BY <2>1, <2>4
  <2>8. LastValue(k[i + 1], type, codec, default) = g[i + 1]
    BY <2>2, <2>3, <2>4, <2>5, <2>6, <2>7
  <2>. QED  BY <2>1, <2>8
<1>. HIDE DEF I
<1>6. Len(s) \in I
  <2>1. 0..Len(s) \subseteq I
    BY <1>3, <1>4, <1>5, UpTo
  <2>. QED  BY <1>3, <2>1
<1>. QED  BY <1>1, <1>2, <1>6 DEF I

-----------------------------------------------------------------------------
(* Sections: of any kinds K, mids M, codecs C and a= lines A. *)

SectionsOf(K, M, C, A) == [kind : K, mid : M, fmt : Seq(C), attrs : Seq(A)]

\* The a= lines of a format are lines of A.
Writable(codec, format, A) ==
  /\ CodecAttr("RTPMAP", codec, format.rate) \in A
  /\ format.args # NoArgs => CodecAttr("FMTP", codec, format.args) \in A

MapsOf(codec, A) == {a \in A : Matches(a, "RTPMAP", codec)}

MidsOf(A) == {a \in A : a.type = "MID"}

\* Each codec is listed as often as it has a rate, and the mid is said once.
Balanced(media, C, A) ==
  /\ \A c \in C : Occurrences(media.fmt, {c}) = Occurrences(media.attrs, MapsOf(c, A))
  /\ Occurrences(media.attrs, MidsOf(A)) = 1

\* What AddFormat returns.
Added(r, media, c, format) ==
  /\ r.kind = media.kind /\ r.mid = media.mid
  /\ r.fmt = Append(media.fmt, c)
  /\ r.attrs = IF format.args = NoArgs
                 THEN Append(media.attrs, CodecAttr("RTPMAP", c, format.rate))
               ELSE Append(Append(media.attrs, CodecAttr("RTPMAP", c, format.rate)),
                           CodecAttr("FMTP", c, format.args))

\* AddFormat() appends the codec and its a= lines (sdp.cc).
LEMMA AddFormatIs ==
  ASSUME NEW K, NEW M, NEW C, NEW A, NEW media \in SectionsOf(K, M, C, A),
         NEW c \in C, NEW format, Writable(c, format, A),
         NEW r, r = AddFormat(media, c, format)
  PROVE  r \in SectionsOf(K, M, C, A) /\ Added(r, media, c, format)
<1>. PICK map, fmtp : /\ map = CodecAttr("RTPMAP", c, format.rate)
                      /\ fmtp = CodecAttr("FMTP", c, format.args)
  OBVIOUS
<1>. DEFINE lines == IF format.args = NoArgs THEN Append(media.attrs, map)
                     ELSE Append(Append(media.attrs, map), fmtp)
<1>1. /\ media.attrs \in Seq(A) /\ media.fmt \in Seq(C)
      /\ media.kind \in K /\ media.mid \in M
      /\ media = [kind |-> media.kind, mid |-> media.mid, fmt |-> media.fmt, attrs |-> media.attrs]
  BY DEF SectionsOf
<1>2. map \in A /\ (format.args # NoArgs => fmtp \in A)
  BY DEF Writable
<1>3. lines \in Seq(A)
  BY <1>1, <1>2
<1>4. /\ Append(media.attrs, map) = media.attrs \o <<map>>
      /\ media.attrs \o <<map>> \o <<>> = media.attrs \o <<map>>
  <2>1. ASSUME NEW s \in Seq(A), NEW x \in A
        PROVE  Append(s, x) = s \o <<x>> /\ s \o <<x>> \o <<>> = s \o <<x>>
    OBVIOUS
  <2>. QED  BY <1>1, <1>2, <2>1
<1>5. format.args # NoArgs =>
        Append(Append(media.attrs, map), fmtp) = media.attrs \o <<map>> \o <<fmtp>>
  <2>1. ASSUME NEW s \in Seq(A), NEW x \in A, NEW y \in A
        PROVE  Append(Append(s, x), y) = s \o <<x>> \o <<y>>
    <3>1. PICK t \in Seq(A) : t = Append(s, x)
      BY AppendAll
    <3>2. t = s \o <<x>> /\ Append(t, y) = t \o <<y>>
      BY <3>1, AppendIsConcat
    <3>. QED  BY <3>1, <3>2
  <2>. QED  BY <1>1, <1>2, <2>1
<1>6. media.attrs \o <<map>> \o (IF format.args = NoArgs THEN <<>> ELSE <<fmtp>>) = lines
  BY <1>4, <1>5
<1>. HIDE DEF lines
<1>7. r = [media EXCEPT !.fmt = Append(@, c), !.attrs = lines]
  BY <1>6 DEF AddFormat
<1>8. r = [kind |-> media.kind, mid |-> media.mid, fmt |-> Append(media.fmt, c), attrs |-> lines]
  BY <1>1, <1>7
<1>9. Append(media.fmt, c) \in Seq(C)
  BY <1>1
<1>. QED  BY <1>1, <1>3, <1>8, <1>9 DEF SectionsOf, lines, Added

\* A format is added, and its rate with it.
LEMMA AddFormatBalanced ==
  ASSUME NEW K, NEW M, NEW C, NEW A, NEW media \in SectionsOf(K, M, C, A),
         NEW c \in C, NEW format, Writable(c, format, A), Balanced(media, C, A)
  PROVE  Balanced(AddFormat(media, c, format), C, A)
<1>. PICK map, fmtp : /\ map = CodecAttr("RTPMAP", c, format.rate)
                      /\ fmtp = CodecAttr("FMTP", c, format.args)
  OBVIOUS
<1>. PICK r : r = AddFormat(media, c, format)
  OBVIOUS
<1>1. /\ r.fmt = Append(media.fmt, c)
      /\ r.attrs = IF format.args = NoArgs THEN Append(media.attrs, map)
                   ELSE Append(Append(media.attrs, map), fmtp)
  <2>1. Added(r, media, c, format)
    BY AddFormatIs
  <2>. QED  BY <2>1 DEF Added
<1>2. media.attrs \in Seq(A) /\ media.fmt \in Seq(C)
  BY DEF SectionsOf
<1>3. map \in A /\ (format.args # NoArgs => fmtp \in A)
  BY DEF Writable
<1>4. PICK t \in Seq(A) : t = Append(media.attrs, map)
  <2>1. Append(media.attrs, map) \in Seq(A)
    BY <1>2, <1>3, AppendAll
  <2>. QED  BY <2>1
<1>5. ASSUME NEW T, fmtp \notin T
      PROVE  Occurrences(r.attrs, T) = Occurrences(media.attrs, T) + IF map \in T THEN 1 ELSE 0
  <2>1. Occurrences(t, T) = Occurrences(media.attrs, T) + IF map \in T THEN 1 ELSE 0
    BY <1>2, <1>3, <1>4, OccurrencesAppend
  <2>2. CASE format.args = NoArgs
    BY <1>1, <1>4, <2>1, <2>2
  <2>3. CASE format.args # NoArgs
    <3>1. /\ Occurrences(t, T) \in Nat
          /\ Occurrences(Append(t, fmtp), T) = Occurrences(t, T) + IF fmtp \in T THEN 1 ELSE 0
      BY <1>3, <2>3, OccurrencesAppend
    <3>. QED  BY <1>1, <1>4, <1>5, <2>1, <2>3, <3>1
  <2>. QED  BY <2>2, <2>3
<1>6. ASSUME NEW d \in C
      PROVE  Occurrences(r.fmt, {d}) = Occurrences(r.attrs, MapsOf(d, A))
  <2>1. /\ map \in MapsOf(d, A) <=> c = d
        /\ fmtp \notin MapsOf(d, A)
    BY <1>3 DEF MapsOf, Matches, CodecAttr
  <2>2. Occurrences(r.fmt, {d}) = Occurrences(media.fmt, {d}) + IF c \in {d} THEN 1 ELSE 0
    BY <1>1, <1>2, OccurrencesAppend
  <2>3. Occurrences(r.attrs, MapsOf(d, A))
          = Occurrences(media.attrs, MapsOf(d, A)) + IF map \in MapsOf(d, A) THEN 1 ELSE 0
    BY <1>5, <2>1
  <2>4. Occurrences(media.fmt, {d}) = Occurrences(media.attrs, MapsOf(d, A))
    BY DEF Balanced
  <2>. QED  BY <2>1, <2>2, <2>3, <2>4
<1>7. Occurrences(r.attrs, MidsOf(A)) = 1
  <2>1. map \notin MidsOf(A) /\ fmtp \notin MidsOf(A)
    BY DEF MidsOf, CodecAttr
  <2>2. Occurrences(media.attrs, MidsOf(A)) = 1
    BY DEF Balanced
  <2>. QED  BY <1>5, <2>1, <2>2
<1>. QED  BY <1>6, <1>7 DEF Balanced

\* The codec and its a= lines are gone, all else is as it was.
Removed(r, media, c) ==
  /\ r.kind = media.kind /\ r.mid = media.mid
  /\ r.fmt = Kept(media.fmt, Range(media.fmt) \ {c})
  /\ Range(r.fmt) = Range(media.fmt) \ {c}
  /\ Len(r.fmt) <= Len(media.fmt)
  /\ c \in Range(media.fmt) => Len(r.fmt) < Len(media.fmt)
  /\ \A type \in {"RTPMAP", "FMTP"} : \A i \in 1..Len(r.attrs) :
       ~Matches(r.attrs[i], type, c)
  /\ \A type, d, default : d # c =>
       LastValue(r.attrs, type, d, default) = LastValue(media.attrs, type, d, default)

\* RemoveFormat() takes a codec and its a= lines away ...
LEMMA RemoveFormatIs ==
  ASSUME NEW K, NEW M, NEW C, NEW A, NEW media \in SectionsOf(K, M, C, A), NEW c,
         NEW r, r = RemoveFormat(media, c)
  PROVE  r \in SectionsOf(K, M, C, A) /\ Removed(r, media, c)
<1>. DEFINE codecs == Range(media.fmt) \ {c}
            lines == {a \in Range(media.attrs) : ~IsAttrOf(a, c)}
<1>1. /\ media.attrs \in Seq(A) /\ media.fmt \in Seq(C)
      /\ media.kind \in K /\ media.mid \in M
      /\ media = [kind |-> media.kind, mid |-> media.mid, fmt |-> media.fmt, attrs |-> media.attrs]
  BY DEF SectionsOf
<1>3. r = [media EXCEPT !.fmt = Kept(@, codecs), !.attrs = Kept(@, lines)]
  BY DEF RemoveFormat
<1>. HIDE DEF codecs, lines
<1>4. r = [kind |-> media.kind, mid |-> media.mid,
           fmt |-> Kept(media.fmt, codecs), attrs |-> Kept(media.attrs, lines)]
  BY <1>1, <1>3
<1>5. /\ r.kind = media.kind /\ r.mid = media.mid
      /\ r.fmt = Kept(media.fmt, codecs) /\ r.attrs = Kept(media.attrs, lines)
  BY <1>4
<1>6. /\ r.fmt \in Seq(C) /\ Range(r.fmt) = Range(media.fmt) \cap codecs
      /\ Len(r.fmt) <= Len(media.fmt)
      /\ Len(r.fmt) = Len(media.fmt) => Range(media.fmt) \subseteq codecs
  BY <1>1, <1>5, KeptRange
<1>7. r.attrs \in Seq(A) /\ Range(r.attrs) = Range(media.attrs) \cap lines
  BY <1>1, <1>5, KeptRange
<1>8. r \in SectionsOf(K, M, C, A)
  BY <1>1, <1>4, <1>5, <1>6, <1>7 DEF SectionsOf
<1>9. Range(r.fmt) = Range(media.fmt) \ {c}
  BY <1>6 DEF codecs
<1>10. c \in Range(media.fmt) => Len(r.fmt) < Len(media.fmt)
  <2>1. Len(r.fmt) \in Nat /\ Len(media.fmt) \in Nat
    BY <1>1, <1>6
  <2>. QED  BY <1>6, <2>1 DEF codecs
<1>11. ASSUME NEW type \in {"RTPMAP", "FMTP"}, NEW i \in 1..Len(r.attrs)
       PROVE  ~Matches(r.attrs[i], type, c)
  <2>1. r.attrs[i] \in Range(r.attrs)
    BY <1>7 DEF Range
  <2>2. ~IsAttrOf(r.attrs[i], c)
    BY <1>7, <2>1 DEF lines
  <2>. QED  BY <2>2 DEF IsAttrOf, Matches
<1>12. ASSUME NEW type, NEW d, NEW default, d # c
       PROVE  LastValue(r.attrs, type, d, default) = LastValue(media.attrs, type, d, default)
  <2>1. ASSUME NEW i \in 1..Len(media.attrs), Matches(media.attrs[i], type, d)
        PROVE  media.attrs[i] \in lines
    <3>1. media.attrs[i] \in Range(media.attrs)
      BY <1>1 DEF Range
    <3>. QED  BY <1>12, <2>1, <3>1 DEF lines, IsAttrOf, Matches
  <2>. QED  BY <1>1, <1>5, <2>1, KeptLast
<1>13. r.fmt = Kept(media.fmt, Range(media.fmt) \ {c})
  BY <1>5 DEF codecs
<1>. QED  BY <1>5, <1>6, <1>8, <1>9, <1>10, <1>11, <1>12, <1>13 DEF Removed

\* ... and leaves the others with theirs.
LEMMA RemoveFormatBalanced ==
  ASSUME NEW K, NEW M, NEW C, NEW A, NEW media \in SectionsOf(K, M, C, A),
         NEW c, Balanced(media, C, A)
  PROVE  Balanced(RemoveFormat(media, c), C, A)
<1>1. media.attrs \in Seq(A) /\ media.fmt \in Seq(C)
  BY DEF SectionsOf
<1>. DEFINE codecs == Range(media.fmt) \ {c}
            lines == {a \in Range(media.attrs) : ~IsAttrOf(a, c)}
<1>2. PICK r : r = RemoveFormat(media, c)
  OBVIOUS
<1>3. r.fmt = Kept(media.fmt, codecs) /\ r.attrs = Kept(media.attrs, lines)
  BY <1>2 DEF RemoveFormat, SectionsOf
<1>4. ASSUME NEW d \in C, d = c
      PROVE  Occurrences(r.fmt, {d}) = Occurrences(r.attrs, MapsOf(d, A))
  <2>1. r.fmt \in Seq(C) /\ Range(r.fmt) \cap {d} = {}
    <3>1. Range(r.fmt) = Range(media.fmt) \cap codecs /\ r.fmt \in Seq(C)
      BY <1>1, <1>3, KeptRange
    <3>. QED  BY <1>4, <3>1
  <2>2. r.attrs \in Seq(A) /\ Range(r.attrs) \cap MapsOf(d, A) = {}
    <3>1. Range(r.attrs) = Range(media.attrs) \cap lines /\ r.attrs \in Seq(A)
      BY <1>1, <1>3, KeptRange
    <3>. QED  BY <1>4, <3>1 DEF MapsOf, Matches, IsAttrOf
  <2>3. Occurrences(r.fmt, {d}) = 0
    BY <2>1, OccurrencesNone
  <2>4. Occurrences(r.attrs, MapsOf(d, A)) = 0
    BY <2>2, OccurrencesNone
  <2>. QED  BY <2>3, <2>4
<1>5. ASSUME NEW d \in C, d # c
      PROVE  Occurrences(r.fmt, {d}) = Occurrences(r.attrs, MapsOf(d, A))
  <2>1. {d} \cap Range(media.fmt) \subseteq codecs
    BY <1>5
  <2>2. MapsOf(d, A) \cap Range(media.attrs) \subseteq lines
    BY <1>5 DEF MapsOf, Matches, IsAttrOf
  <2>3. Occurrences(r.fmt, {d}) = Occurrences(media.fmt, {d})
    BY <1>1, <1>3, <2>1, KeptOccurrences
  <2>4. Occurrences(r.attrs, MapsOf(d, A)) = Occurrences(media.attrs, MapsOf(d, A))
    BY <1>1, <1>3, <2>2, KeptOccurrences
  <2>. QED  BY <2>3, <2>4 DEF Balanced
<1>6. Occurrences(r.attrs, MidsOf(A)) = 1
  <2>1. MidsOf(A) \cap Range(media.attrs) \subseteq lines
    BY DEF MidsOf, IsAttrOf
  <2>2. Occurrences(r.attrs, MidsOf(A)) = Occurrences(media.attrs, MidsOf(A))
    BY <1>1, <1>3, <2>1, KeptOccurrences
  <2>. QED  BY <2>2 DEF Balanced
<1>. QED  BY <1>2, <1>4, <1>5, <1>6 DEF Balanced

\* The codec is listed once, at the end, with this format; the formats of the
\* others are as they were.
SetTo(r, media, c, format) ==
  /\ r.kind = media.kind /\ r.mid = media.mid
  /\ r.fmt = Append(Kept(media.fmt, Range(media.fmt) \ {c}), c)
  /\ Range(r.fmt) = Range(media.fmt) \cup {c}
  /\ c \in Range(media.fmt) => Len(r.fmt) <= Len(media.fmt)
  /\ Occurrences(r.fmt, {c}) = 1
  /\ \A d : d # c => Occurrences(r.fmt, {d}) = Occurrences(media.fmt, {d})
  /\ GetFormat(r, c) = [rate |-> format.rate, args |-> format.args]
  /\ \A d : d # c => GetFormat(r, d) = GetFormat(media, d)

\* SetFormat() puts one rate and at most one argument list in place of what was there.
LEMMA SetFormatIs ==
  ASSUME NEW K, NEW M, NEW C, NEW A, NEW media \in SectionsOf(K, M, C, A),
         NEW c \in C, NEW format, Writable(c, format, A),
         NEW r, r = SetFormat(media, c, format)
  PROVE  /\ r \in SectionsOf(K, M, C, A) /\ SetTo(r, media, c, format)
         /\ Balanced(media, C, A) => Balanced(r, C, A)
<1>. PICK map, fmtp : /\ map = CodecAttr("RTPMAP", c, format.rate)
                      /\ fmtp = CodecAttr("FMTP", c, format.args)
  OBVIOUS
<1>. PICK m : m = RemoveFormat(media, c)
  OBVIOUS
<1>1. m \in SectionsOf(K, M, C, A) /\ Removed(m, media, c)
  BY RemoveFormatIs
<1>2. r = AddFormat(m, c, format)
  BY DEF SetFormat
<1>3. r \in SectionsOf(K, M, C, A) /\ Added(r, m, c, format)
  BY <1>1, <1>2, AddFormatIs
<1>4. media.fmt \in Seq(C) /\ m.attrs \in Seq(A) /\ m.fmt \in Seq(C)
  BY <1>1 DEF SectionsOf
<1>5. map \in A /\ (format.args # NoArgs => fmtp \in A)
  BY DEF Writable
<1>6. Range(r.fmt) = Range(media.fmt) \cup {c} /\ Len(r.fmt) = Len(m.fmt) + 1
  <2>1. r.fmt = Append(m.fmt, c) /\ Range(m.fmt) = Range(media.fmt) \ {c}
    BY <1>1, <1>3 DEF Added, Removed
  <2>2. /\ Range(Append(m.fmt, c)) = Range(m.fmt) \cup {c}
        /\ Len(Append(m.fmt, c)) = Len(m.fmt) + 1
    BY <1>4, AppendAll
  <2>. QED  BY <2>1, <2>2
<1>7. c \in Range(media.fmt) => Len(r.fmt) <= Len(media.fmt)
  BY <1>1, <1>4, <1>6 DEF Removed
<1>8. Occurrences(r.fmt, {c}) = 1
  <2>1. Occurrences(m.fmt, {c}) = 0
    <3>1. Range(m.fmt) \cap {c} = {}
      BY <1>1 DEF Removed
    <3>. QED  BY <1>4, <3>1, OccurrencesNone
  <2>2. Occurrences(Append(m.fmt, c), {c}) = Occurrences(m.fmt, {c}) + IF c \in {c} THEN 1 ELSE 0
    BY <1>4, OccurrencesAppend
  <2>. QED  BY <1>3, <2>1, <2>2 DEF Added
<1>9. ASSUME NEW d, d # c  PROVE Occurrences(r.fmt, {d}) = Occurrences(media.fmt, {d})
  <2>1. /\ Occurrences(m.fmt, {d}) \in Nat
        /\ Occurrences(Append(m.fmt, c), {d}) = Occurrences(m.fmt, {d}) + IF c \in {d} THEN 1 ELSE 0
    BY <1>4, OccurrencesAppend
  <2>2. {d} \cap Range(media.fmt) \subseteq Range(media.fmt) \ {c}
    BY <1>9
  <2>3. Occurrences(m.fmt, {d}) = Occurrences(media.fmt, {d})
    BY <1>1, <1>4, <2>2, KeptOccurrences DEF Removed
  <2>. QED  BY <1>3, <1>9, <2>1, <2>3 DEF Added
<1>10. ASSUME NEW type \in {"RTPMAP", "FMTP"}, NEW d, NEW default
       PROVE  LastValue(r.attrs, type, d, default)
                = IF format.args # NoArgs /\ Matches(fmtp, type, d) THEN format.args
                  ELSE IF Matches(map, type, d) THEN format.rate
                  ELSE LastValue(m.attrs, type, d, default)
  <2>1. fmtp.value = format.args /\ map.value = format.rate
    BY DEF CodecAttr
  <2>2. PICK t \in Seq(A) : t = Append(m.attrs, map)
    BY <1>4, <1>5, AppendAll
  <2>3. LastValue(t, type, d, default)
          = IF Matches(map, type, d) THEN map.value ELSE LastValue(m.attrs, type, d, default)
    BY <1>4, <1>5, <2>2, LastAppend
  <2>4. CASE format.args = NoArgs
    BY <1>3, <2>1, <2>2, <2>3, <2>4 DEF Added
  <2>5. CASE format.args # NoArgs
    <3>1. LastValue(Append(t, fmtp), type, d, default)
            = IF Matches(fmtp, type, d) THEN fmtp.value ELSE LastValue(t, type, d, default)
      <4>1. fmtp \in A
        BY <1>5, <2>5
      <4>. QED  BY <4>1, LastAppend
    <3>. QED  BY <1>3, <2>1, <2>2, <2>3, <2>5, <3>1 DEF Added
  <2>. QED  BY <2>4, <2>5
<1>11. \A d : /\ Matches(map, "RTPMAP", d) <=> d = c
              /\ Matches(fmtp, "FMTP", d) <=> d = c
              /\ ~Matches(map, "FMTP", d)
              /\ ~Matches(fmtp, "RTPMAP", d)
  BY DEF Matches, CodecAttr
<1>12. GetFormat(r, c) = [rate |-> format.rate, args |-> format.args]
  <2>1. LastValue(r.attrs, "RTPMAP", c, NoRate) = format.rate
    BY <1>10, <1>11
  <2>2. LastValue(m.attrs, "FMTP", c, NoArgs) = NoArgs
    BY <1>1, <1>4, LastTyped DEF Removed
  <2>3. LastValue(r.attrs, "FMTP", c, NoArgs) = format.args
    BY <1>10, <1>11, <2>2
  <2>. QED  BY <2>1, <2>3 DEF GetFormat
<1>13. ASSUME NEW d, d # c  PROVE GetFormat(r, d) = GetFormat(media, d)
  <2>1. LastValue(r.attrs, "RTPMAP", d, NoRate) = LastValue(media.attrs, "RTPMAP", d, NoRate)
    BY <1>1, <1>10, <1>11, <1>13 DEF Removed
  <2>2. LastValue(r.attrs, "FMTP", d, NoArgs) = LastValue(media.attrs, "FMTP", d, NoArgs)
    BY <1>1, <1>10, <1>11, <1>13 DEF Removed
  <2>. QED  BY <2>1, <2>2 DEF GetFormat
<1>14. Balanced(media, C, A) => Balanced(r, C, A)
  <2>1. Balanced(media, C, A) => Balanced(m, C, A)
    BY RemoveFormatBalanced
  <2>2. Balanced(m, C, A) => Balanced(r, C, A)
    BY <1>1, <1>2, AddFormatBalanced
  <2>. QED  BY <2>1, <2>2
<1>15. /\ r.kind = media.kind /\ r.mid = media.mid
       /\ r.fmt = Append(Kept(media.fmt, Range(media.fmt) \ {c}), c)
  BY <1>1, <1>3 DEF Added, Removed
<1>. QED  BY <1>3, <1>6, <1>7, <1>8, <1>9, <1>12, <1>13, <1>14, <1>15 DEF SetTo

-----------------------------------------------------------------------------
(* Adopting the remote side's formats. *)

AdoptRun(a, media, theirs, common) ==
  /\ a[0] = media
  /\ \A i \in 1..Len(common) :
       a[i] = SetFormat(a[i-1], common[i], GetFormat(theirs, common[i]))

\* The remote side's formats are ones that can be written.
Adoptable(theirs, common, C, A) ==
  /\ common \in Seq(C)
  /\ \A i \in 1..Len(common) : Writable(common[i], GetFormat(theirs, common[i]), A)

\* Adopt is the last of the sections it goes through.
LEMMA AdoptRuns ==
  ASSUME NEW K, NEW M, NEW C, NEW A, NEW media \in SectionsOf(K, M, C, A),
         NEW theirs, NEW common, Adoptable(theirs, common, C, A)
  PROVE  \E a \in [0..Len(common) -> SectionsOf(K, M, C, A)] :
           /\ AdoptRun(a, media, theirs, common)
           /\ Adopt(media, theirs, common) = a[Len(common)]
<1>. DEFINE n == Len(common)
            X == SectionsOf(K, M, C, A)
            Step(i, before) == SetFormat(before, common[i], GetFormat(theirs, common[i]))
            Steps(h) == [i \in 0..n |-> IF i = 0 THEN media ELSE Step(i, h[i-1])]
<1>1. n \in Nat /\ media \in X /\ \A i \in 1..n : common[i] \in C
  BY DEF Adoptable
<1>2. PICK F : F = [p \in (1..n) \X X |-> Step(p[1], p[2])]
  OBVIOUS
<1>a. ASSUME NEW i \in 1..n, NEW before \in X  PROVE Step(i, before) \in X
  <2>1. common[i] \in C /\ Writable(common[i], GetFormat(theirs, common[i]), A)
    BY <1>1 DEF Adoptable
  <2>2. PICK r : r = Step(i, before)
    OBVIOUS
  <2>. QED  BY <2>1, <2>2, SetFormatIs
<1>. HIDE DEF n, X, Step
<1>3. F \in [(1..n) \X X -> X]
  <2>2. ASSUME NEW p \in (1..n) \X X  PROVE Step(p[1], p[2]) \in X
    BY <1>a
  <2>. QED  BY <1>2, <2>2
<1>4. PICK g \in [0..n -> X] : Runs(g, n, media, F)
  BY <1>1, <1>3, RunExists
<1>5. \A i \in 1..n : g[i] = Step(i, g[i-1])
  <2>. SUFFICES ASSUME NEW i \in 1..n  PROVE g[i] = Step(i, g[i-1])
    OBVIOUS
  <2>1. i - 1 \in 0..n /\ g[i - 1] \in X
    BY <1>1
  <2>2. g[i] = F[<<i, g[i-1]>>] /\ <<i, g[i-1]>> \in (1..n) \X X
    BY <1>4, <2>1 DEF Runs
  <2>. QED  BY <1>2, <2>2
<1>6. g = Steps(g)
  <2>1. \A i \in 0..n : g[i] = Steps(g)[i]
    <3>1. \A i \in 0..n : i = 0 \/ i \in 1..n
      BY <1>1
    <3>. QED  BY <1>4, <1>5, <3>1 DEF Runs
  <2>2. g = [i \in 0..n |-> g[i]]
    OBVIOUS
  <2>. HIDE DEF Steps
  <2>. QED  BY <2>1, <2>2 DEF Steps
<1>7. PICK k : k = CHOOSE h : h = Steps(h)
  OBVIOUS
<1>8. Adopt(media, theirs, common) = k[n]
  BY <1>7 DEF Adopt, n, Step
<1>9. k = Steps(k)
  <2>. HIDE DEF Steps
  <2>. QED  BY <1>6, <1>7
<1>10. k[0] = media /\ \A i \in 1..n : k[i] = Step(i, k[i-1])
  <2>1. 0 \in 0..n /\ \A i \in 1..n : i \in 0..n /\ i # 0
    BY <1>1
  <2>. QED  BY <1>9, <2>1
<1>11. 0..n \subseteq {i \in 0..n : k[i] \in X}
  <2>. DEFINE T == {i \in 0..n : k[i] \in X}
  <2>1. 0 \in T
    BY <1>1, <1>10
  <2>2. ASSUME NEW i \in 0..(n-1), i \in T  PROVE i + 1 \in T
    <3>1. i + 1 \in 1..n /\ i + 1 \in 0..n /\ (i + 1) - 1 = i /\ k[i] \in X
      BY <1>1, <2>2
    <3>2. k[i + 1] = Step(i + 1, k[i])
      BY <1>10, <3>1
    <3>. QED  BY <1>a, <3>1, <3>2
  <2>. HIDE DEF T
  <2>3. 0..n \subseteq T
    BY <1>1, <2>1, <2>2, UpTo
  <2>. QED  BY <2>3 DEF T
<1>12. k \in [0..n -> X]
  <2>1. DOMAIN k = 0..n /\ k = [i \in DOMAIN k |-> k[i]]
    BY <1>9
  <2>. QED  BY <1>11, <2>1
<1>. QED  BY <1>8, <1>10, <1>12 DEF AdoptRun, n, X, Step

\* The same codecs, no longer a list; each adopted one listed once, with the
\* remote side's format.
Adopted(r, media, theirs, common) ==
  /\ r.kind = media.kind /\ r.mid = media.mid
  /\ Range(r.fmt) = Range(media.fmt)
  /\ Len(r.fmt) <= Len(media.fmt)
  /\ \A c \in Range(common) :
       Occurrences(r.fmt, {c}) = 1 /\ GetFormat(r, c) = GetFormat(theirs, c)

\* It gives each common codec the remote format, and no codec two.
LEMMA AdoptIs ==
  ASSUME NEW K, NEW M, NEW C, NEW A, NEW media \in SectionsOf(K, M, C, A),
         NEW theirs, NEW common, Adoptable(theirs, common, C, A),
         Range(common) \subseteq Range(media.fmt),
         NEW r, r = Adopt(media, theirs, common)
  PROVE  /\ r \in SectionsOf(K, M, C, A) /\ Adopted(r, media, theirs, common)
         /\ Balanced(media, C, A) => Balanced(r, C, A)
<1>. DEFINE n == Len(common)
            X == SectionsOf(K, M, C, A)
<1>1. PICK a \in [0..n -> X] : AdoptRun(a, media, theirs, common) /\ r = a[n]
  BY AdoptRuns
<1>2. n \in Nat /\ common \in Seq(C) /\ Range(common) = {common[i] : i \in 1..n}
  BY DEF Adoptable, Range
<1>. DEFINE Same(m) == /\ m.kind = media.kind /\ m.mid = media.mid
                       /\ Range(m.fmt) = Range(media.fmt)
                       /\ Len(m.fmt) <= Len(media.fmt)
                       /\ Balanced(media, C, A) => Balanced(m, C, A)
            Settled(m, c) == /\ Occurrences(m.fmt, {c}) = 1
                             /\ GetFormat(m, c) = GetFormat(theirs, c)
            I == {i \in 0..n : Same(a[i]) /\ \A j \in 1..i : Settled(a[i], common[j])}
<1>3. 0 \in I
  <2>1. a[0] = media /\ Len(media.fmt) \in Nat
    BY <1>1 DEF AdoptRun, SectionsOf
  <2>2. Same(a[0])
    BY <2>1
  <2>. HIDE DEF Same, Settled
  <2>. QED  BY <1>2, <2>2
<1>4. ASSUME NEW i \in 0..(n-1), i \in I  PROVE i + 1 \in I
  <2>1. i + 1 \in 1..n /\ i + 1 \in 0..n /\ (i + 1) - 1 = i /\ i \in 0..n
    BY <1>2
  <2>2. PICK c \in C : c = common[i + 1]
    BY <1>2, <2>1
  <2>3. Writable(c, GetFormat(theirs, c), A)
    BY <2>1, <2>2 DEF Adoptable
  <2>4. a[i] \in X /\ a[i + 1] = SetFormat(a[i], c, GetFormat(theirs, c))
    BY <1>1, <2>1, <2>2 DEF AdoptRun
  <2>5. /\ a[i + 1] \in X /\ SetTo(a[i + 1], a[i], c, GetFormat(theirs, c))
        /\ Balanced(a[i], C, A) => Balanced(a[i + 1], C, A)
    BY <2>3, <2>4, SetFormatIs
  <2>6. c \in Range(media.fmt)
    BY <1>2, <2>1, <2>2
  <2>7. Len(a[i].fmt) \in Nat /\ Len(a[i + 1].fmt) \in Nat /\ Len(media.fmt) \in Nat
    BY <2>4, <2>5 DEF SectionsOf
  <2>8. Same(a[i + 1])
    BY <1>4, <2>5, <2>6, <2>7 DEF SetTo
  <2>9. Settled(a[i + 1], c)
    BY <2>5 DEF SetTo, GetFormat
  <2>10. ASSUME NEW j \in 1..(i+1)  PROVE Settled(a[i + 1], common[j])
    <3>1. CASE common[j] = c
      BY <2>9, <3>1
    <3>2. CASE common[j] # c
      <4>1. j \in 1..i
        BY <2>2, <3>2
      <4>2. Settled(a[i], common[j])
        BY <1>4, <4>1
      <4>. QED  BY <2>5, <3>2, <4>2 DEF SetTo
    <3>. QED  BY <3>1, <3>2
  <2>. HIDE DEF Same, Settled
  <2>. QED  BY <2>1, <2>8, <2>10
<1>. HIDE DEF I
<1>5. n \in I
  <2>1. 0..n \subseteq I
    BY <1>2, <1>3, <1>4, UpTo
  <2>. QED  BY <1>2, <2>1
<1>6. Same(r) /\ \A j \in 1..n : Settled(r, common[j])
  <2>. HIDE DEF Same, Settled
  <2>. QED  BY <1>1, <1>5 DEF I
<1>7. r \in X
  BY <1>1, <1>2
<1>. QED  BY <1>2, <1>6, <1>7 DEF Adopted

\* The adopted codecs come in their order in common.
LEMMA AdoptOrder ==
  ASSUME NEW K, NEW M, NEW C, NEW A, NEW media \in SectionsOf(K, M, C, A),
         NEW theirs, NEW common, Adoptable(theirs, common, C, A),
         NEW r, r = Adopt(media, theirs, common)
  PROVE  \A x, y \in DOMAIN r.fmt :
           x < y /\ {r.fmt[x], r.fmt[y]} \subseteq Range(common) =>
             \E p, q \in DOMAIN common :
               p < q /\ common[p] = r.fmt[x] /\ common[q] = r.fmt[y]
<1>. DEFINE n == Len(common)
            X == SectionsOf(K, M, C, A)
            Earlier(i) == {common[j] : j \in 1..i}
<1>1. PICK a \in [0..n -> X] : AdoptRun(a, media, theirs, common) /\ r = a[n]
  BY AdoptRuns
<1>2. n \in Nat /\ common \in Seq(C) /\ DOMAIN common = 1..n
  BY DEF Adoptable
<1>. DEFINE Ordered(f, i) ==
              \A x, y \in 1..Len(f) : x < y /\ f[x] \in Earlier(i) /\ f[y] \in Earlier(i) =>
                \E p, q \in 1..i : p < q /\ common[p] = f[x] /\ common[q] = f[y]
            I == {i \in 0..n : Ordered(a[i].fmt, i)}
<1>3. 0 \in I
  <2>1. Earlier(0) = {}
    OBVIOUS
  <2>. HIDE DEF Earlier
  <2>. QED  BY <1>2, <2>1
<1>4. ASSUME NEW i \in 0..(n-1), i \in I  PROVE i + 1 \in I
  <2>1. i + 1 \in 1..n /\ i + 1 \in 0..n /\ (i + 1) - 1 = i /\ i \in 0..n
    BY <1>2
  <2>2. PICK c \in C : c = common[i + 1]
    BY <1>2, <2>1
  <2>3. Writable(c, GetFormat(theirs, c), A)
    BY <2>1, <2>2 DEF Adoptable
  <2>4. a[i] \in X /\ a[i + 1] = SetFormat(a[i], c, GetFormat(theirs, c))
    BY <1>1, <2>1, <2>2 DEF AdoptRun
  <2>5. a[i + 1] \in X /\ SetTo(a[i + 1], a[i], c, GetFormat(theirs, c))
    BY <2>3, <2>4, SetFormatIs
  <2>f. PICK f, g : f = a[i].fmt /\ g = a[i + 1].fmt
    OBVIOUS
  <2>S. PICK S : S = Range(f) \ {c}
    OBVIOUS
  <2>k. PICK k : k = Kept(f, S)
    OBVIOUS
  <2>6. f \in Seq(C) /\ g = Append(k, c)
    BY <2>4, <2>5, <2>f, <2>S, <2>k DEF SectionsOf, SetTo
  <2>7. k \in Seq(C) /\ Range(k) = Range(f) \cap S
    BY <2>6, <2>k, KeptRange
  <2>8. /\ Len(g) = Len(k) + 1 /\ Len(k) \in Nat /\ g[Len(k) + 1] = c
        /\ \A x \in 1..Len(k) : g[x] = k[x] /\ k[x] # c
    <3>1. \A x \in 1..Len(k) : k[x] \in Range(k)
      BY <2>7 DEF Range
    <3>2. c \notin Range(k)
      BY <2>7, <2>S
    <3>3. /\ Len(g) = Len(k) + 1 /\ g[Len(k) + 1] = c
          /\ \A x \in 1..Len(k) : g[x] = k[x]
      BY <2>6, <2>7, AppendAll
    <3>. QED  BY <2>7, <3>1, <3>2, <3>3
  <2>9. \A x, y \in 1..Len(k) : x < y =>
          \E u, v \in 1..Len(f) : u < v /\ f[u] = k[x] /\ f[v] = k[y]
    <3>1. InOrder(k, f)
      BY <2>6, <2>k, KeptOrder
    <3>2. OrderedIn(k, f, Len(f))
      BY <3>1 DEF InOrder
    <3>. QED  BY <3>2, Zenon DEF OrderedIn
  <2>10. \A d \in Earlier(i + 1) : d # c => d \in Earlier(i)
    BY <2>1, <2>2
  <2>11. 1..i \subseteq 1..(i+1) /\ i + 1 \in 1..(i+1) /\ \A p \in 1..i : p < i + 1
    BY <2>1
  <2>12. Ordered(f, i)
    <3>1. Ordered(a[i].fmt, i)
      BY <1>4
    <3>. HIDE DEF Ordered, I
    <3>. QED  BY <3>1, <2>f
  <2>13. ASSUME NEW x \in 1..Len(g), NEW y \in 1..Len(g), x < y,
                g[x] \in Earlier(i + 1), g[y] \in Earlier(i + 1)
         PROVE  \E p, q \in 1..(i+1) : p < q /\ common[p] = g[x] /\ common[q] = g[y]
    <3>1. x \in 1..Len(k) /\ g[x] = k[x] /\ g[x] \in Earlier(i)
      <4>1. x \in 1..Len(k)
        BY <2>8, <2>13
      <4>. HIDE DEF Earlier
      <4>. QED  BY <2>8, <2>10, <2>13, <4>1
    <3>2. CASE y \in 1..Len(k)
      <4>1. g[y] = k[y] /\ g[y] \in Earlier(i)
        <5>. HIDE DEF Earlier
        <5>. QED  BY <2>8, <2>10, <2>13, <3>2
      <4>2. PICK u \in 1..Len(f), v \in 1..Len(f) : u < v /\ f[u] = k[x] /\ f[v] = k[y]
        BY <2>9, <2>13, <3>1, <3>2
      <4>3. \E p, q \in 1..i : p < q /\ common[p] = f[u] /\ common[q] = f[v]
        <5>. HIDE DEF Earlier
        <5>. QED  BY <2>12, <3>1, <4>1, <4>2
      <4>. QED  BY <2>11, <3>1, <4>1, <4>2, <4>3
    <3>3. CASE y = Len(k) + 1
      <4>1. PICK p \in 1..i : common[p] = g[x]
        BY <3>1
      <4>. QED  BY <2>2, <2>8, <2>11, <3>3, <4>1
    <3>. QED  BY <2>8, <3>2, <3>3
  <2>14. Ordered(g, i + 1)
    <3>. HIDE DEF Earlier
    <3>. QED  BY <2>13
  <2>. HIDE DEF Ordered
  <2>. QED  BY <2>1, <2>f, <2>14
<1>. HIDE DEF I
<1>5. n \in I
  <2>1. 0..n \subseteq I
    BY <1>2, <1>3, <1>4, UpTo
  <2>. QED  BY <1>2, <2>1
<1>6. Ordered(r.fmt, n)
  <2>. HIDE DEF Ordered
  <2>. QED  BY <1>1, <1>5 DEF I
<1>7. r.fmt \in Seq(C)
  BY <1>1, <1>2 DEF SectionsOf
<1>8. DOMAIN r.fmt = 1..Len(r.fmt) /\ Range(common) = Earlier(n)
  BY <1>2, <1>7 DEF Range
<1>. HIDE DEF Earlier
<1>. QED  BY <1>2, <1>6, <1>8

\* A codec that occurs once is at one place.
LEMMA OccursOnce ==
  ASSUME NEW V, NEW s \in Seq(V), NEW c, Occurrences(s, {c}) = 1,
         NEW x \in 1..Len(s), NEW y \in 1..Len(s), s[x] = c, s[y] = c
  PROVE  x = y
<1>1. PICK S : S = {i \in DOMAIN s : s[i] \in {c}}
  OBVIOUS
<1>2. IsFiniteSet(S)
  <2>1. IsFiniteSet(1..Len(s)) /\ S \subseteq 1..Len(s)
    <3>1. DOMAIN s = 1..Len(s) /\ Len(s) \in Nat
      OBVIOUS
    <3>2. S \subseteq 1..Len(s)
      BY <1>1, <3>1
    <3>. QED  BY <3>1, <3>2, FS_Interval
  <2>. QED  BY <2>1, FS_Subset
<1>3. Cardinality(S) = 1
  BY <1>1 DEF Occurrences
<1>4. PICK z : S = {z}
  BY <1>2, <1>3, FS_Singleton
<1>5. x \in S /\ y \in S
  BY <1>1
<1>. QED  BY <1>4, <1>5

\* If nothing else is listed and no codec is adopted twice, the formats are then
\* the common codecs in their order.
LEMMA AdoptExact ==
  ASSUME NEW K, NEW M, NEW C, NEW A, NEW media \in SectionsOf(K, M, C, A),
         NEW theirs, NEW common, Adoptable(theirs, common, C, A),
         Range(common) = Range(media.fmt),
         \A p, q \in 1..Len(common) : common[p] = common[q] => p = q,
         NEW r, r = Adopt(media, theirs, common)
  PROVE  r.fmt = common
<1>. DEFINE n == Len(common)
            X == SectionsOf(K, M, C, A)
<1>1. PICK a \in [0..n -> X] : AdoptRun(a, media, theirs, common) /\ r = a[n]
  BY AdoptRuns
<1>2. n \in Nat /\ common \in Seq(C) /\ DOMAIN common = 1..n
  BY DEF Adoptable
<1>. DEFINE EndsWith(f, i) ==
              Len(f) >= i /\ \A j \in 1..i : f[Len(f) - i + j] = common[j]
            I == {i \in 0..n : EndsWith(a[i].fmt, i)}
<1>3. 0 \in I
  <2>1. Len(a[0].fmt) \in Nat
    BY <1>1, <1>2 DEF SectionsOf
  <2>. QED  BY <1>2, <2>1
<1>4. ASSUME NEW i \in 0..(n-1), i \in I  PROVE i + 1 \in I
  <2>1. i + 1 \in 1..n /\ i + 1 \in 0..n /\ (i + 1) - 1 = i /\ i \in 0..n
    BY <1>2
  <2>2. PICK c \in C : c = common[i + 1]
    BY <1>2, <2>1
  <2>3. Writable(c, GetFormat(theirs, c), A)
    BY <2>1, <2>2 DEF Adoptable
  <2>4. a[i] \in X /\ a[i + 1] = SetFormat(a[i], c, GetFormat(theirs, c))
    BY <1>1, <2>1, <2>2 DEF AdoptRun
  <2>5. a[i + 1] \in X /\ SetTo(a[i + 1], a[i], c, GetFormat(theirs, c))
    BY <2>3, <2>4, SetFormatIs
  <2>f. PICK f, g : f = a[i].fmt /\ g = a[i + 1].fmt
    OBVIOUS
  <2>S. PICK S : S = Range(f) \ {c}
    OBVIOUS
  <2>k. PICK k : k = Kept(f, S)
    OBVIOUS
  <2>6. f \in Seq(C) /\ g = Append(k, c)
    BY <2>4, <2>5, <2>f, <2>S, <2>k DEF SectionsOf, SetTo
  <2>7. k \in Seq(C)
    BY <2>6, <2>k, KeptRange
  <2>8. /\ Len(g) = Len(k) + 1 /\ Len(k) \in Nat /\ g[Len(k) + 1] = c
        /\ \A x \in 1..Len(k) : g[x] = k[x]
    BY <2>6, <2>7, AppendAll
  <2>9. EndsWith(f, i)
    BY <1>4, <2>f
  <2>10. PICK p \in 0..Len(f) : p = Len(f) - i
    <3>1. Len(f) - i \in 0..Len(f)
      BY <2>6, <2>9
    <3>. QED  BY <3>1
  <2>11. ASSUME NEW x \in 1..Len(f), x > p  PROVE f[x] \in S
    <3>1. PICK j \in 1..i : x = p + j
      <4>1. x - p \in 1..i /\ x = p + (x - p)
        BY <2>6, <2>10, <2>11
      <4>. QED  BY <4>1
    <3>2. f[x] = common[j]
      BY <2>9, <2>10, <3>1
    <3>3. common[j] # c
      <4>1. j \in 1..n /\ j # i + 1
        BY <1>2, <2>1
      <4>. QED  BY <2>1, <2>2, <4>1
    <3>4. f[x] \in Range(f)
      BY <2>6 DEF Range
    <3>. QED  BY <2>S, <3>2, <3>3, <3>4
  <2>12. /\ Len(k) >= Len(f) - p
         /\ \A j \in 1..(Len(f) - p) : k[Len(k) - (Len(f) - p) + j] = f[p + j]
    <3>1. KeepsEnd(k, f, p)
      BY <2>6, <2>k, <2>11, KeptSuffix
    <3>. QED  BY <3>1 DEF KeepsEnd
  <2>13. Len(f) - p = i /\ Len(f) \in Nat
    BY <2>6, <2>10
  <2>14. Len(g) >= i + 1
    BY <2>8, <2>12, <2>13
  <2>15. ASSUME NEW j \in 1..(i+1)  PROVE g[Len(g) - (i + 1) + j] = common[j]
    <3>1. CASE j = i + 1
      <4>1. Len(g) - (i + 1) + j = Len(k) + 1
        BY <2>8, <3>1
      <4>. QED  BY <2>2, <2>8, <3>1, <4>1
    <3>2. CASE j \in 1..i
      <4>1. PICK x \in 1..Len(k) : x = Len(k) - i + j
        <5>1. Len(k) - i + j \in 1..Len(k)
          BY <2>8, <2>12, <2>13, <3>2
        <5>. QED  BY <5>1
      <4>2. k[x] = f[p + j]
        BY <2>12, <2>13, <3>2, <4>1
      <4>3. f[p + j] = common[j]
        BY <2>9, <2>10, <3>2
      <4>4. Len(g) - (i + 1) + j = x
        BY <2>8, <4>1
      <4>. QED  BY <2>8, <4>1, <4>2, <4>3, <4>4
    <3>. QED  BY <3>1, <3>2
  <2>16. EndsWith(g, i + 1)
    BY <2>14, <2>15
  <2>. HIDE DEF EndsWith
  <2>. QED  BY <2>1, <2>f, <2>16
<1>. HIDE DEF I
<1>5. n \in I
  <2>1. 0..n \subseteq I
    BY <1>2, <1>3, <1>4, UpTo
  <2>. QED  BY <1>2, <2>1
<1>6. PICK f : f = r.fmt
  OBVIOUS
<1>7. EndsWith(f, n)
  <2>. HIDE DEF EndsWith
  <2>. QED  BY <1>1, <1>5, <1>6 DEF I
<1>8. /\ r \in X /\ Range(f) = Range(media.fmt)
      /\ \A c \in Range(common) : Occurrences(f, {c}) = 1
  <2>1. r \in X /\ Adopted(r, media, theirs, common)
    BY AdoptIs
  <2>. QED  BY <1>6, <2>1 DEF Adopted
<1>9. f \in Seq(C)
  BY <1>6, <1>8 DEF SectionsOf
<1>10. Len(f) = n
  <2>. SUFFICES ASSUME Len(f) > n  PROVE FALSE
    BY <1>2, <1>7, <1>9
  <2>1. 1 \in 1..Len(f)
    BY <1>2, <1>9
  <2>2. f[1] \in Range(common)
    BY <1>8, <1>9, <2>1 DEF Range
  <2>3. PICK j \in 1..n : f[1] = common[j]
    BY <1>2, <2>2 DEF Range
  <2>4. PICK x \in 1..Len(f) : x = Len(f) - n + j
    <3>1. Len(f) - n + j \in 1..Len(f)
      BY <1>2, <1>9
    <3>. QED  BY <3>1
  <2>5. f[x] = common[j] /\ x # 1
    BY <1>2, <1>7, <1>9, <2>4
  <2>6. Occurrences(f, {common[j]}) = 1
    BY <1>8, <2>2, <2>3
  <2>. QED  BY <1>9, <2>1, <2>3, <2>5, <2>6, OccursOnce
<1>11. \A j \in 1..n : f[j] = common[j]
  <2>. SUFFICES ASSUME NEW j \in 1..n  PROVE f[j] = common[j]
    OBVIOUS
  <2>1. Len(f) - n + j = j
    BY <1>2, <1>10
  <2>. QED  BY <1>7, <2>1
<1>. QED  BY <1>2, <1>6, <1>9, <1>10, <1>11

-----------------------------------------------------------------------------
(* Pruning. *)

PruneStates(K, M, C, A, n) ==
  {x \in [media : SectionsOf(K, M, C, A), tail : Seq(C)] : Len(x.media.fmt) + Len(x.tail) = n}

\* One round of the loop.
PruneStep(x, common, n, i) ==
  LET buffer == x.media.fmt \o x.tail
      rest == RemoveFormat(x.media, buffer[i])
  IN  IF buffer[i] \in Range(common) THEN x
      ELSE [media |-> rest, tail |-> SubSeq(buffer, Len(rest.fmt) + 1, n)]

PruneRun(p, media, common) ==
  /\ p[0] = [media |-> media, tail |-> <<>>]
  /\ \A i \in 1..Len(media.fmt) : p[i] = PruneStep(p[i-1], common, Len(media.fmt), i)

\* A turn of the pruning loop removes a codec that is not common ...
LEMMA PruneStepIs ==
  ASSUME NEW x, NEW common, NEW n, NEW i, NEW c, c = (x.media.fmt \o x.tail)[i]
  PROVE  PruneStep(x, common, n, i).media
           = IF c \in Range(common) THEN x.media ELSE RemoveFormat(x.media, c)
BY DEF PruneStep

\* ... and the buffer stays as long as it was.
LEMMA PruneStepTyped ==
  ASSUME NEW K, NEW M, NEW C, NEW A, NEW n \in Nat,
         NEW x \in PruneStates(K, M, C, A, n), NEW common, NEW i \in 1..n
  PROVE  PruneStep(x, common, n, i) \in PruneStates(K, M, C, A, n)
<1>1. /\ x.media \in SectionsOf(K, M, C, A) /\ x.tail \in Seq(C)
      /\ Len(x.media.fmt) + Len(x.tail) = n
  BY DEF PruneStates
<1>2. x.media.fmt \in Seq(C)
  BY <1>1 DEF SectionsOf
<1>3. PICK buffer \in Seq(C) : buffer = x.media.fmt \o x.tail /\ Len(buffer) = n
  <2>1. ASSUME NEW s \in Seq(C), NEW t \in Seq(C)
        PROVE  s \o t \in Seq(C) /\ Len(s \o t) = Len(s) + Len(t)
    OBVIOUS
  <2>2. x.media.fmt \o x.tail \in Seq(C) /\ Len(x.media.fmt \o x.tail) = n
    BY <1>1, <1>2, <2>1
  <2>. QED  BY <2>2
<1>4. PICK rest \in SectionsOf(K, M, C, A) :
        /\ rest = RemoveFormat(x.media, buffer[i])
        /\ Len(rest.fmt) <= Len(x.media.fmt)
  <2>1. PICK rest : rest = RemoveFormat(x.media, buffer[i])
    OBVIOUS
  <2>2. rest \in SectionsOf(K, M, C, A) /\ Removed(rest, x.media, buffer[i])
    BY <1>1, <2>1, RemoveFormatIs
  <2>. QED  BY <2>1, <2>2 DEF Removed
<1>5. Len(rest.fmt) \in Nat /\ Len(x.media.fmt) \in Nat /\ Len(x.tail) \in Nat
  BY <1>1, <1>2 DEF SectionsOf
<1>6. PICK m \in 0..n : m = Len(rest.fmt)
  <2>1. PICK a \in Nat, b \in Nat, d \in Nat :
          a = Len(rest.fmt) /\ b = Len(x.media.fmt) /\ d = Len(x.tail)
    BY <1>5
  <2>2. a <= b /\ b + d = n
    BY <1>1, <1>4, <2>1
  <2>3. a \in 0..n
    BY <2>2
  <2>. QED  BY <2>1, <2>3
<1>7. PICK tail \in Seq(C) : tail = SubSeq(buffer, m + 1, n) /\ Len(tail) = n - m
  <2>1. ASSUME NEW s \in Seq(C), NEW a \in 1..(Len(s)+1), NEW b \in (a-1)..Len(s)
        PROVE  SubSeq(s, a, b) \in Seq(C) /\ Len(SubSeq(s, a, b)) = b - a + 1
    BY <2>1, SubSeqProperties
  <2>2. PICK a \in 1..(Len(buffer)+1) : a = m + 1
    <3>1. m + 1 \in 1..(Len(buffer)+1)
      BY <1>3, <1>6
    <3>. QED  BY <3>1
  <2>b. PICK b \in (a-1)..Len(buffer) : b = n
    <3>1. n \in (a-1)..Len(buffer)
      BY <1>3, <1>6, <2>2
    <3>. QED  BY <3>1
  <2>3. SubSeq(buffer, a, b) \in Seq(C) /\ Len(SubSeq(buffer, a, b)) = b - a + 1
    BY <2>1
  <2>4. b - a + 1 = n - m
    BY <1>6, <2>2, <2>b
  <2>. QED  BY <2>2, <2>b, <2>3, <2>4
<1>8. PICK y : y = [media |-> rest, tail |-> tail]
  OBVIOUS
<1>9. y \in PruneStates(K, M, C, A, n)
  <2>1. y.media = rest /\ y.tail = tail /\ y \in [media : SectionsOf(K, M, C, A), tail : Seq(C)]
    BY <1>8
  <2>2. Len(y.media.fmt) + Len(y.tail) = n
    <3>1. Len(y.media.fmt) = m /\ Len(y.tail) = n - m
      BY <1>6, <1>7, <2>1
    <3>. QED  BY <3>1
  <2>. QED  BY <2>1, <2>2 DEF PruneStates
<1>. QED  BY <1>3, <1>4, <1>6, <1>7, <1>8, <1>9 DEF PruneStep

\* Prune is the last of the sections it goes through.
LEMMA PruneRuns ==
  ASSUME NEW K, NEW M, NEW C, NEW A, NEW media \in SectionsOf(K, M, C, A), NEW common
  PROVE  \E p \in [0..Len(media.fmt) -> PruneStates(K, M, C, A, Len(media.fmt))] :
           PruneRun(p, media, common) /\ Prune(media, common) = p[Len(media.fmt)].media
<1>. DEFINE n == Len(media.fmt)
            X == PruneStates(K, M, C, A, n)
            start == [media |-> media, tail |-> <<>>]
            Step(i, before) == PruneStep(before, common, n, i)
            Steps(h) == [i \in 0..n |-> IF i = 0 THEN start ELSE Step(i, h[i-1])]
<1>1. n \in Nat /\ start \in X
  <2>1. media.fmt \in Seq(C)
    BY DEF SectionsOf
  <2>. QED  BY <2>1 DEF PruneStates
<1>2. PICK F : F = [p \in (1..n) \X X |-> Step(p[1], p[2])]
  OBVIOUS
<1>a. ASSUME NEW i \in 1..n, NEW before \in X  PROVE Step(i, before) \in X
  <2>. HIDE DEF n
  <2>. QED  BY <1>1, PruneStepTyped
<1>. HIDE DEF n, X, Step, start
<1>3. F \in [(1..n) \X X -> X]
  <2>2. ASSUME NEW p \in (1..n) \X X  PROVE Step(p[1], p[2]) \in X
    BY <1>a
  <2>. QED  BY <1>2, <2>2
<1>4. PICK g \in [0..n -> X] : Runs(g, n, start, F)
  BY <1>1, <1>3, RunExists
<1>5. \A i \in 1..n : g[i] = Step(i, g[i-1])
  <2>. SUFFICES ASSUME NEW i \in 1..n  PROVE g[i] = Step(i, g[i-1])
    OBVIOUS
  <2>1. i - 1 \in 0..n /\ g[i - 1] \in X
    BY <1>1
  <2>2. g[i] = F[<<i, g[i-1]>>] /\ <<i, g[i-1]>> \in (1..n) \X X
    BY <1>4, <2>1 DEF Runs
  <2>. QED  BY <1>2, <2>2
<1>6. g = Steps(g)
  <2>1. \A i \in 0..n : g[i] = Steps(g)[i]
    <3>1. \A i \in 0..n : i = 0 \/ i \in 1..n
      BY <1>1
    <3>. QED  BY <1>4, <1>5, <3>1 DEF Runs
  <2>2. g = [i \in 0..n |-> g[i]]
    OBVIOUS
  <2>. HIDE DEF Steps
  <2>. QED  BY <2>1, <2>2 DEF Steps
<1>7. PICK k : k = CHOOSE h : h = Steps(h)
  OBVIOUS
<1>8. Prune(media, common) = k[n].media
  BY <1>7 DEF Prune, PruneStep, n, Step, start
<1>9. k = Steps(k)
  <2>. HIDE DEF Steps
  <2>. QED  BY <1>6, <1>7
<1>10. k[0] = start /\ \A i \in 1..n : k[i] = Step(i, k[i-1])
  <2>1. 0 \in 0..n /\ \A i \in 1..n : i \in 0..n /\ i # 0
    BY <1>1
  <2>. QED  BY <1>9, <2>1
<1>11. 0..n \subseteq {i \in 0..n : k[i] \in X}
  <2>. DEFINE T == {i \in 0..n : k[i] \in X}
  <2>1. 0 \in T
    BY <1>1, <1>10
  <2>2. ASSUME NEW i \in 0..(n-1), i \in T  PROVE i + 1 \in T
    <3>1. i + 1 \in 1..n /\ i + 1 \in 0..n /\ (i + 1) - 1 = i /\ k[i] \in X
      BY <1>1, <2>2
    <3>2. k[i + 1] = Step(i + 1, k[i])
      BY <1>10, <3>1
    <3>. QED  BY <1>a, <3>1, <3>2
  <2>. HIDE DEF T
  <2>3. 0..n \subseteq T
    BY <1>1, <2>1, <2>2, UpTo
  <2>. QED  BY <2>3 DEF T
<1>12. k \in [0..n -> X]
  <2>1. DOMAIN k = 0..n /\ k = [i \in DOMAIN k |-> k[i]]
    BY <1>9
  <2>. QED  BY <1>11, <2>1
<1>. QED  BY <1>8, <1>10, <1>12 DEF PruneRun, n, X, Step, start

\* Only codecs that are not common go.
Pruned(r, media, common) ==
  /\ r.kind = media.kind /\ r.mid = media.mid
  /\ Range(r.fmt) \subseteq Range(media.fmt)
  /\ Range(media.fmt) \cap Range(common) \subseteq Range(r.fmt)
  /\ Len(r.fmt) <= Len(media.fmt)

\* It removes nothing that is common.
LEMMA PruneIs ==
  ASSUME NEW K, NEW M, NEW C, NEW A, NEW media \in SectionsOf(K, M, C, A), NEW common,
         NEW r, r = Prune(media, common)
  PROVE  /\ r \in SectionsOf(K, M, C, A) /\ Pruned(r, media, common)
         /\ Balanced(media, C, A) => Balanced(r, C, A)
<1>. DEFINE n == Len(media.fmt)
            X == PruneStates(K, M, C, A, n)
<1>1. PICK p \in [0..n -> X] : PruneRun(p, media, common) /\ r = p[n].media
  BY PruneRuns
<1>2. n \in Nat
  BY DEF SectionsOf
<1>. DEFINE Good(m) == /\ m \in SectionsOf(K, M, C, A) /\ Pruned(m, media, common)
                       /\ Balanced(media, C, A) => Balanced(m, C, A)
            I == {i \in 0..n : Good(p[i].media)}
<1>3. 0 \in I
  <2>1. p[0].media = media
    BY <1>1 DEF PruneRun
  <2>2. Good(media)
    BY <1>2 DEF Pruned
  <2>. HIDE DEF Good
  <2>. QED  BY <1>2, <2>1, <2>2
<1>4. ASSUME NEW i \in 0..(n-1), i \in I  PROVE i + 1 \in I
  <2>1. i + 1 \in 1..n /\ i + 1 \in 0..n /\ (i + 1) - 1 = i /\ i \in 0..n
    BY <1>2
  <2>2. p[i + 1] = PruneStep(p[i], common, n, i + 1)
    BY <1>1, <2>1 DEF PruneRun
  <2>3. PICK m : m = p[i].media
    OBVIOUS
  <2>4. Good(m)
    <3>. HIDE DEF Good
    <3>. QED  BY <1>4, <2>3
  <2>5. PICK c : c = (m.fmt \o p[i].tail)[i + 1]
    OBVIOUS
  <2>6. CASE c \in Range(common)
    <3>1. p[i + 1].media = m
      BY <2>2, <2>3, <2>5, <2>6 DEF PruneStep
    <3>. HIDE DEF Good
    <3>. QED  BY <2>1, <2>4, <3>1
  <2>7. CASE c \notin Range(common)
    <3>1. PICK t : t = RemoveFormat(m, c)
      OBVIOUS
    <3>2. p[i + 1].media = t
      BY <2>2, <2>3, <2>5, <2>7, <3>1, PruneStepIs
    <3>3. t \in SectionsOf(K, M, C, A) /\ Removed(t, m, c)
      BY <2>4, <3>1, RemoveFormatIs
    <3>4. Balanced(m, C, A) => Balanced(t, C, A)
      BY <2>4, <3>1, RemoveFormatBalanced
    <3>5. Len(m.fmt) \in Nat /\ Len(t.fmt) \in Nat
      BY <2>4, <3>3 DEF SectionsOf
    <3>6. Pruned(t, media, common)
      <4>1. /\ t.kind = m.kind /\ t.mid = m.mid
            /\ Range(t.fmt) = Range(m.fmt) \ {c} /\ Len(t.fmt) <= Len(m.fmt)
        BY <3>3 DEF Removed
      <4>2. /\ m.kind = media.kind /\ m.mid = media.mid
            /\ Range(m.fmt) \subseteq Range(media.fmt)
            /\ Range(media.fmt) \cap Range(common) \subseteq Range(m.fmt)
            /\ Len(m.fmt) <= Len(media.fmt)
        BY <2>4 DEF Pruned
      <4>3. Len(t.fmt) <= Len(media.fmt)
        BY <1>2, <3>5, <4>1, <4>2
      <4>. QED  BY <2>7, <4>1, <4>2, <4>3 DEF Pruned
    <3>7. Good(t)
      BY <2>4, <3>3, <3>4, <3>6
    <3>. HIDE DEF Good
    <3>. QED  BY <2>1, <3>2, <3>7
  <2>. QED  BY <2>6, <2>7
<1>. HIDE DEF I
<1>5. n \in I
  <2>1. 0..n \subseteq I
    BY <1>2, <1>3, <1>4, UpTo
  <2>. QED  BY <1>2, <2>1
<1>6. Good(r)
  <2>. HIDE DEF Good
  <2>. QED  BY <1>1, <1>5 DEF I
<1>. QED  BY <1>6

\* Without two neighbours that are not common, every codec that is not goes: the
\* one that is skipped is behind one that was removed.
LEMMA PruneDrops ==
  ASSUME NEW K, NEW M, NEW C, NEW A, NEW media \in SectionsOf(K, M, C, A), NEW common,
         NoPair(media.fmt, Range(common)),
         NEW r, r = Prune(media, common)
  PROVE  Range(r.fmt) \subseteq Range(common)
<1>. DEFINE n == Len(media.fmt)
            X == PruneStates(K, M, C, A, n)
<1>W. PICK W : W = Range(common)
  OBVIOUS
<1>1. PICK p \in [0..n -> X] : PruneRun(p, media, common) /\ r = p[n].media
  BY PruneRuns
<1>2. n \in Nat /\ media.fmt \in Seq(C)
  BY DEF SectionsOf
<1>. DEFINE Clean(f, i) == /\ NoPair(f, W)
                           /\ \A j \in 1..i : j <= Len(f) => f[j] \in W
            I == {i \in 0..n : Clean(p[i].media.fmt, i)}
<1>3. 0 \in I
  <2>1. p[0].media = media
    BY <1>1 DEF PruneRun
  <2>. QED  BY <1>2, <1>W, <2>1
<1>4. ASSUME NEW i \in 0..(n-1), i \in I  PROVE i + 1 \in I
  <2>1. i + 1 \in 1..n /\ i + 1 \in 0..n /\ (i + 1) - 1 = i /\ i \in 0..n
    BY <1>2
  <2>2. p[i + 1] = PruneStep(p[i], common, n, i + 1)
    BY <1>1, <2>1 DEF PruneRun
  <2>3. PICK f, tail : f = p[i].media.fmt /\ tail = p[i].tail
    OBVIOUS
  <2>4. /\ p[i].media \in SectionsOf(K, M, C, A)
        /\ f \in Seq(C) /\ tail \in Seq(C) /\ Len(f) + Len(tail) = n
    BY <1>1, <2>1, <2>3 DEF PruneStates, SectionsOf
  <2>5. PICK c : c = (f \o tail)[i + 1]
    OBVIOUS
  <2>6. i + 1 <= Len(f) => c = f[i + 1]
    BY <2>1, <2>4, <2>5
  <2>7. Clean(f, i)
    BY <1>4, <2>3
  <2>8. CASE c \in W
    <3>1. p[i + 1].media.fmt = f
      BY <1>W, <2>2, <2>3, <2>5, <2>8 DEF PruneStep
    <3>2. ASSUME NEW j \in 1..(i+1), j <= Len(f)  PROVE f[j] \in W
      <4>1. CASE j = i + 1
        BY <2>6, <2>8, <3>2, <4>1
      <4>2. CASE j \in 1..i
        BY <2>7, <3>2, <4>2
      <4>. QED  BY <4>1, <4>2
    <3>3. Clean(f, i + 1)
      BY <2>7, <3>2
    <3>. HIDE DEF Clean
    <3>. QED  BY <2>1, <3>1, <3>3
  <2>9. CASE c \notin W
    <3>1. PICK S, k : S = Range(f) \ {c} /\ k = Kept(f, S)
      OBVIOUS
    <3>2. p[i + 1].media.fmt = k
      <4>1. PICK t : t = RemoveFormat(p[i].media, c)
        OBVIOUS
      <4>2. p[i + 1].media = t
        <5>1. c = (p[i].media.fmt \o p[i].tail)[i + 1]
          BY <2>3, <2>5
        <5>2. PruneStep(p[i], common, n, i + 1).media = RemoveFormat(p[i].media, c)
          <6>1. PICK x, j : x = p[i] /\ j = i + 1
            OBVIOUS
          <6>2. c = (x.media.fmt \o x.tail)[j]
            BY <5>1, <6>1
          <6>3. PruneStep(x, common, n, j).media
                  = IF c \in Range(common) THEN x.media ELSE RemoveFormat(x.media, c)
            BY <6>2, PruneStepIs
          <6>4. c \notin Range(common)
            BY <1>W, <2>9
          <6>. QED  BY <6>1, <6>3, <6>4
        <5>. QED  BY <2>2, <4>1, <5>2
      <4>3. Removed(t, p[i].media, c)
        BY <2>4, <4>1, RemoveFormatIs
      <4>. QED  BY <2>3, <3>1, <4>2, <4>3 DEF Removed
    <3>3. Range(f) \cap W \subseteq S
      BY <2>9, <3>1
    <3>4. NoPair(k, W)
      BY <2>4, <2>7, <3>1, <3>3, KeptNoPair
    <3>5. \A j \in 1..(i+1) : j <= Len(k) => k[j] \in W
      <4>1. CASE i + 1 <= Len(f)
        <5>1. i + 1 \in 1..Len(f) /\ f[i + 1] \notin S
          BY <2>1, <2>6, <3>1, <4>1
        <5>2. \A j \in 1..((i + 1) - 1) : f[j] \in W
          BY <2>1, <2>4, <2>7, <4>1
        <5>3. PICK x \in 1..Len(f) : x = i + 1
          BY <5>1
        <5>4. \A j \in 1..x : j <= Len(k) => k[j] \in W
          BY <2>4, <2>7, <3>1, <3>3, <5>1, <5>2, <5>3, KeptPrefix
        <5>. QED  BY <5>3, <5>4
      <4>2. CASE i + 1 > Len(f)
        <5>1. \A j \in 1..Len(f) : f[j] \in W
          BY <2>1, <2>4, <2>7, <4>2
        <5>2. Range(f) \subseteq S
          BY <2>4, <2>9, <3>1, <5>1 DEF Range
        <5>3. k = f
          BY <2>4, <3>1, <5>2, KeptRange
        <5>. QED  BY <2>4, <5>1, <5>3
      <4>. QED  BY <2>4, <4>1, <4>2
    <3>6. Clean(k, i + 1)
      BY <3>4, <3>5
    <3>. HIDE DEF Clean
    <3>. QED  BY <2>1, <3>2, <3>6
  <2>. QED  BY <2>8, <2>9
<1>. HIDE DEF I
<1>5. n \in I
  <2>1. 0..n \subseteq I
    BY <1>2, <1>3, <1>4, UpTo
  <2>. QED  BY <1>2, <2>1
<1>6. Clean(r.fmt, n)
  <2>. HIDE DEF Clean
  <2>. QED  BY <1>1, <1>5 DEF I
<1>7. r \in SectionsOf(K, M, C, A) /\ Pruned(r, media, common)
  BY PruneIs
<1>8. r.fmt \in Seq(C) /\ Len(r.fmt) <= n
  BY <1>7 DEF SectionsOf, Pruned
<1>. QED  BY <1>2, <1>W, <1>6, <1>8 DEF Range

-----------------------------------------------------------------------------
(* A negotiation. *)

\* Every format a section lists can be written by the other side.
Rated(media, A) == \A c \in Range(media.fmt) : Writable(c, GetFormat(media, c), A)

SharedBy(ours, theirs) == Range(ours.fmt) \cap Range(theirs.fmt)

\* The common codecs are the shared ones, in the remote order.
LEMMA CommonIs ==
  ASSUME NEW K, NEW M, NEW C, NEW A, NEW B, NEW theirs \in SectionsOf(K, M, C, B),
         NEW ours, Rated(theirs, A),
         NEW common, common = CommonCodecs(ours, theirs)
  PROVE  /\ Adoptable(theirs, common, C, A)
         /\ Range(common) = SharedBy(ours, theirs)
         /\ InOrder(common, theirs.fmt)
<1>1. theirs.fmt \in Seq(C)
  BY DEF SectionsOf
<1>2. PICK S : S = Range(ours.fmt)
  OBVIOUS
<1>3. common = Kept(theirs.fmt, S)
  BY <1>2 DEF CommonCodecs
<1>4. common \in Seq(C) /\ Range(common) = Range(theirs.fmt) \cap S
  BY <1>1, <1>3, KeptRange
<1>5. InOrder(common, theirs.fmt)
  BY <1>1, <1>3, KeptOrder
<1>6. \A i \in 1..Len(common) : common[i] \in Range(theirs.fmt)
  <2>1. \A i \in 1..Len(common) : common[i] \in Range(common)
    BY <1>4 DEF Range
  <2>. QED  BY <1>4, <2>1
<1>7. Adoptable(theirs, common, C, A)
  BY <1>4, <1>6 DEF Adoptable, Rated
<1>. QED  BY <1>2, <1>4, <1>5, <1>7 DEF SharedBy

\* What a negotiation leaves: every shared codec once, with the remote side's
\* format, in the remote side's order, and nothing that was not there.
Agreed(r, ours, theirs) ==
  /\ r.kind = ours.kind
  /\ Range(r.fmt) \subseteq Range(ours.fmt)
  /\ SharedBy(ours, theirs) \subseteq Range(r.fmt)
  /\ Len(r.fmt) <= Len(ours.fmt)
  /\ \A c \in SharedBy(ours, theirs) :
       Occurrences(r.fmt, {c}) = 1 /\ GetFormat(r, c) = GetFormat(theirs, c)
  /\ \A x, y \in 1..Len(r.fmt) :
       x < y /\ r.fmt[x] \in SharedBy(ours, theirs) /\ r.fmt[y] \in SharedBy(ours, theirs) =>
         \E p, q \in 1..Len(theirs.fmt) :
           p < q /\ theirs.fmt[p] = r.fmt[x] /\ theirs.fmt[q] = r.fmt[y]
  /\ NoPair(ours.fmt, SharedBy(ours, theirs)) =>
       Range(r.fmt) = SharedBy(ours, theirs)

\* A negotiated section has the remote formats of the shared codecs.
LEMMA NegotiatedIs ==
  ASSUME NEW K, NEW M, NEW C, NEW A, NEW B,
         NEW ours \in SectionsOf(K, M, C, A), NEW theirs \in SectionsOf(K, M, C, B),
         Rated(theirs, A),
         NEW r, r = Negotiated(ours, theirs)
  PROVE  /\ r \in SectionsOf(K, M, C, A) /\ Agreed(r, ours, theirs)
         /\ Balanced(ours, C, A) => Balanced(r, C, A)
<1>. DEFINE X == SectionsOf(K, M, C, A)
<1>1. PICK common : common = CommonCodecs(ours, theirs)
  OBVIOUS
<1>2. PICK m : m = [ours EXCEPT !.mid = theirs.mid]
  OBVIOUS
<1>3. PICK p : p = Prune(m, common)
  OBVIOUS
<1>4. r = Adopt(p, theirs, common)
  BY <1>1, <1>2, <1>3 DEF Negotiated
<1>5. m \in X /\ m.fmt = ours.fmt /\ m.kind = ours.kind /\ m.attrs = ours.attrs
  BY <1>2 DEF SectionsOf
<1>6. Balanced(ours, C, A) => Balanced(m, C, A)
  BY <1>5 DEF Balanced
<1>7. PICK S : S = SharedBy(ours, theirs)
  OBVIOUS
<1>8. Adoptable(theirs, common, C, A) /\ Range(common) = S /\ InOrder(common, theirs.fmt)
  BY <1>1, <1>7, CommonIs
<1>9. /\ p \in X /\ Pruned(p, m, common)
      /\ Balanced(m, C, A) => Balanced(p, C, A)
  BY <1>3, <1>5, PruneIs
<1>10. Range(common) \subseteq Range(p.fmt)
  BY <1>5, <1>7, <1>8, <1>9 DEF Pruned, SharedBy
<1>11. /\ r \in X /\ Adopted(r, p, theirs, common)
       /\ Balanced(p, C, A) => Balanced(r, C, A)
  BY <1>4, <1>8, <1>9, <1>10, AdoptIs
<1>12. /\ r.fmt \in Seq(C) /\ p.fmt \in Seq(C) /\ ours.fmt \in Seq(C)
       /\ common \in Seq(C)
  BY <1>8, <1>9, <1>11 DEF SectionsOf, Adoptable
<1>13. Len(r.fmt) <= Len(ours.fmt)
  <2>1. Len(r.fmt) <= Len(p.fmt) /\ Len(p.fmt) <= Len(ours.fmt)
    BY <1>5, <1>9, <1>11 DEF Adopted, Pruned
  <2>. QED  BY <1>12, <2>1
<1>14. ASSUME NEW x \in 1..Len(r.fmt), NEW y \in 1..Len(r.fmt),
              x < y, r.fmt[x] \in S, r.fmt[y] \in S
       PROVE  \E a, b \in 1..Len(theirs.fmt) :
                a < b /\ theirs.fmt[a] = r.fmt[x] /\ theirs.fmt[b] = r.fmt[y]
  <2>1. \A u, v \in DOMAIN r.fmt :
          u < v /\ {r.fmt[u], r.fmt[v]} \subseteq Range(common) =>
            \E a, b \in DOMAIN common :
              a < b /\ common[a] = r.fmt[u] /\ common[b] = r.fmt[v]
    BY <1>4, <1>8, <1>9, AdoptOrder
  <2>2. x \in DOMAIN r.fmt /\ y \in DOMAIN r.fmt
    BY <1>12
  <2>3. PICK a \in DOMAIN common, b \in DOMAIN common :
          a < b /\ common[a] = r.fmt[x] /\ common[b] = r.fmt[y]
    BY <1>8, <1>14, <2>1, <2>2
  <2>4. a \in 1..Len(common) /\ b \in 1..Len(common)
    BY <1>12
  <2>5. PICK i \in 1..Len(theirs.fmt), j \in 1..Len(theirs.fmt) :
          i < j /\ theirs.fmt[i] = common[a] /\ theirs.fmt[j] = common[b]
    BY <1>8, <2>3, <2>4 DEF InOrder, OrderedIn
  <2>. QED  BY <2>3, <2>5
<1>15. NoPair(ours.fmt, S) => Range(r.fmt) = S
  <2>1. NoPair(ours.fmt, S) => Range(p.fmt) \subseteq S
    BY <1>3, <1>5, <1>8, PruneDrops
  <2>. QED  BY <1>8, <1>10, <1>11, <2>1 DEF Adopted
<1>16. /\ r.kind = ours.kind
       /\ Range(r.fmt) \subseteq Range(ours.fmt)
       /\ S \subseteq Range(r.fmt)
       /\ \A c \in S : Occurrences(r.fmt, {c}) = 1 /\ GetFormat(r, c) = GetFormat(theirs, c)
  BY <1>5, <1>8, <1>9, <1>10, <1>11 DEF Adopted, Pruned
<1>17. Agreed(r, ours, theirs)
  BY <1>7, <1>13, <1>14, <1>15, <1>16 DEF Agreed
<1>. QED  BY <1>6, <1>9, <1>11, <1>17

\* If the remote side lists only shared codecs, each once, and no two neighbours
\* have to go, its formats are taken over as they are.
LEMMA NegotiatedExact ==
  ASSUME NEW K, NEW M, NEW C, NEW A, NEW B,
         NEW ours \in SectionsOf(K, M, C, A), NEW theirs \in SectionsOf(K, M, C, B),
         Rated(theirs, A),
         NoPair(ours.fmt, SharedBy(ours, theirs)),
         Range(theirs.fmt) \subseteq Range(ours.fmt),
         \A c \in Range(theirs.fmt) : Occurrences(theirs.fmt, {c}) = 1,
         NEW r, r = Negotiated(ours, theirs)
  PROVE  r.fmt = theirs.fmt
<1>. DEFINE X == SectionsOf(K, M, C, A)
<1>1. PICK common : common = CommonCodecs(ours, theirs)
  OBVIOUS
<1>2. PICK m : m = [ours EXCEPT !.mid = theirs.mid]
  OBVIOUS
<1>3. PICK p : p = Prune(m, common)
  OBVIOUS
<1>4. r = Adopt(p, theirs, common)
  BY <1>1, <1>2, <1>3 DEF Negotiated
<1>5. m \in X /\ m.fmt = ours.fmt
  BY <1>2 DEF SectionsOf
<1>6. Adoptable(theirs, common, C, A) /\ Range(common) = SharedBy(ours, theirs)
  BY <1>1, CommonIs
<1>7. p \in X /\ Pruned(p, m, common)
  BY <1>3, <1>5, PruneIs
<1>8. Range(p.fmt) \subseteq Range(common)
  BY <1>3, <1>5, <1>6, PruneDrops
<1>9. Range(p.fmt) = Range(common)
  BY <1>5, <1>6, <1>7, <1>8 DEF Pruned, SharedBy
<1>10. theirs.fmt \in Seq(C)
  BY DEF SectionsOf
<1>11. common = theirs.fmt
  <2>1. PICK S : S = Range(ours.fmt)
    OBVIOUS
  <2>2. common = Kept(theirs.fmt, S) /\ Range(theirs.fmt) \subseteq S
    BY <1>1, <2>1 DEF CommonCodecs
  <2>. QED  BY <1>10, <2>2, KeptRange
<1>12. \A a, b \in 1..Len(common) : common[a] = common[b] => a = b
  <2>. SUFFICES ASSUME NEW a \in 1..Len(common), NEW b \in 1..Len(common), common[a] = common[b]
                PROVE  a = b
    OBVIOUS
  <2>1. common[a] \in Range(theirs.fmt)
    BY <1>10, <1>11 DEF Range
  <2>. QED  BY <1>10, <1>11, <2>1, OccursOnce
<1>13. r.fmt = common
  BY <1>4, <1>6, <1>7, <1>9, <1>12, AdoptExact
<1>. QED  BY <1>11, <1>13

-----------------------------------------------------------------------------
(* What the scanner makes of a text. *)

\* The scans that Parsed goes through, one line further each.
ScanStart == [at |-> "lines", sdp |-> Blank]

ScanRun(k, text, ended) ==
  /\ k[0] = ScanStart
  /\ \A i \in 1..Len(text) : k[i] = Scanned(k[i-1], text[i], ended \/ i < Len(text))

Items == {Word("Add"), Word("Sender"), Fragment} \cup {Number(n) : n \in Nat}

\* A run of the scanner over lines that all end with '\n'.
Reading(k, lines) ==
  /\ k = [i \in 0..Len(lines) |-> k[i]]
  /\ \A i \in 1..Len(lines) : k[i] = Scanned(k[i-1], lines[i], TRUE)

Reads(from, lines, to) == \E k : Reading(k, lines) /\ k[0] = from /\ k[Len(lines)] = to

\* Two runs make one.
LEMMA ReadsOn ==
  ASSUME NEW V, NEW s \in Seq(V), NEW t \in Seq(V), NEW a, NEW b, NEW c,
         Reads(a, s, b), Reads(b, t, c)
  PROVE  Reads(a, s \o t, c)
<1>1. PICK k : Reading(k, s) /\ k[0] = a /\ k[Len(s)] = b
  BY DEF Reads
<1>2. PICK h : Reading(h, t) /\ h[0] = b /\ h[Len(t)] = c
  BY DEF Reads
<1>3. PICK x, y \in Nat : x = Len(s) /\ y = Len(t)
  OBVIOUS
<1>4. PICK u : u = s \o t
  OBVIOUS
<1>5. /\ Len(u) = x + y
      /\ \A i \in 1..(x + y) : u[i] = IF i <= x THEN s[i] ELSE t[i - x]
  <2>1. /\ Len(s \o t) = Len(s) + Len(t)
        /\ \A i \in 1..(Len(s) + Len(t)) :
             (s \o t)[i] = IF i <= Len(s) THEN s[i] ELSE t[i - Len(s)]
    BY ConcatProperties
  <2>. QED  BY <1>3, <1>4, <2>1
<1>6. PICK g : g = [i \in 0..(x + y) |-> IF i <= x THEN k[i] ELSE h[i - x]]
  OBVIOUS
<1>7. /\ \A i \in 0..x : g[i] = k[i]
      /\ \A i \in 0..y : g[x + i] = h[i]
  <2>1. ASSUME NEW i \in 0..x  PROVE g[i] = k[i]
    BY <1>6
  <2>2. ASSUME NEW i \in 0..y  PROVE g[x + i] = h[i]
    <3>1. CASE i = 0
      <4>1. g[x] = k[x]
        BY <2>1
      <4>. QED  BY <1>1, <1>2, <1>3, <3>1, <4>1
    <3>2. CASE i # 0
      <4>1. x + i \in 0..(x + y) /\ ~(x + i <= x) /\ (x + i) - x = i
        BY <3>2
      <4>. QED  BY <1>6, <4>1
    <3>. QED  BY <3>1, <3>2
  <2>. QED  BY <2>1, <2>2
<1>8. ASSUME NEW i \in 1..(x + y)  PROVE g[i] = Scanned(g[i-1], u[i], TRUE)
  <2>1. CASE i <= x
    <3>1. i \in 0..x /\ i - 1 \in 0..x /\ i \in 1..x
      BY <2>1
    <3>2. g[i] = k[i] /\ g[i-1] = k[i-1] /\ u[i] = s[i]
      BY <1>5, <1>7, <2>1, <3>1
    <3>3. k[i] = Scanned(k[i-1], s[i], TRUE)
      BY <1>1, <1>3, <3>1 DEF Reading
    <3>. QED  BY <3>2, <3>3
  <2>2. CASE ~(i <= x)
    <3>1. PICK j \in 1..y : i = x + j
      <4>1. i - x \in 1..y /\ i = x + (i - x)
        BY <2>2
      <4>. QED  BY <4>1
    <3>2. j \in 0..y /\ j - 1 \in 0..y /\ i - 1 = x + (j - 1) /\ i - x = j
      BY <3>1
    <3>3. g[i] = h[j] /\ g[i-1] = h[j-1] /\ u[i] = t[j]
      BY <1>5, <1>7, <2>2, <3>1, <3>2
    <3>4. h[j] = Scanned(h[j-1], t[j], TRUE)
      BY <1>2, <1>3, <3>1 DEF Reading
    <3>. QED  BY <3>3, <3>4
  <2>. QED  BY <2>1, <2>2
<1>9. Reading(g, u) /\ g[0] = a /\ g[Len(u)] = c
  <2>1. Len(u) = x + y /\ 0 \in 0..x /\ y \in 0..y
    BY <1>5
  <2>2. g[0] = a /\ g[x + y] = c
    BY <1>1, <1>2, <1>3, <1>7, <2>1
  <2>3. g = [i \in 0..(x + y) |-> g[i]]
    BY <1>6
  <2>. QED  BY <1>8, <2>1, <2>2, <2>3 DEF Reading
<1>. QED  BY <1>4, <1>9 DEF Reads

\* One line alone.
LEMMA ReadsOne ==
  ASSUME NEW from, NEW line, NEW to, to = Scanned(from, line, TRUE)
  PROVE  Reads(from, <<line>>, to)
<1>1. PICK k : k = [i \in 0..1 |-> IF i = 0 THEN from ELSE to]
  OBVIOUS
<1>2. k[0] = from /\ k[1] = to /\ k = [i \in 0..1 |-> k[i]]
  BY <1>1
<1>3. Len(<<line>>) = 1 /\ <<line>>[1] = line /\ 1..1 = {1} /\ 1 - 1 = 0
  OBVIOUS
<1>. QED  BY <1>2, <1>3 DEF Reads, Reading

\* What a text is read to is what one run over it ends with.
LEMMA ParsedIs ==
  ASSUME NEW text, Len(text) \in Nat, NEW ended, NEW k,
         k = [i \in 0..Len(text) |-> k[i]], ScanRun(k, text, ended)
  PROVE  Parsed(text, ended) = k[Len(text)].sdp
<1>. DEFINE n == Len(text)
            Step(i, before) == Scanned(before, text[i], ended \/ i < n)
            Steps(h) == [i \in 0..n |-> IF i = 0 THEN ScanStart ELSE Step(i, h[i-1])]
<1>1. n \in Nat
  OBVIOUS
<1>2. Parsed(text, ended) = (CHOOSE h : h = Steps(h))[n].sdp
  BY DEF Parsed, ScanStart
<1>3. k[0] = ScanStart /\ \A i \in 1..n : k[i] = Step(i, k[i-1])
  BY DEF ScanRun
<1>4. k = [i \in 0..n |-> k[i]]
  OBVIOUS
<1>. HIDE DEF n, Step
<1>5. k = Steps(k)
  <2>1. \A i \in 0..n : i = 0 \/ i \in 1..n
    BY <1>1
  <2>2. \A i \in 0..n : k[i] = Steps(k)[i]
    BY <1>3, <2>1
  <2>. HIDE DEF Steps
  <2>. QED  BY <1>4, <2>2 DEF Steps
<1>6. PICK g : g = CHOOSE h : h = Steps(h)
  OBVIOUS
<1>7. g = Steps(g)
  <2>. HIDE DEF Steps
  <2>. QED  BY <1>5, <1>6
<1>8. g[0] = ScanStart /\ \A i \in 1..n : g[i] = Step(i, g[i-1])
  <2>1. 0 \in 0..n /\ \A i \in 1..n : i \in 0..n /\ i # 0
    BY <1>1
  <2>. QED  BY <1>7, <2>1
<1>9. 0..n \subseteq {i \in 0..n : g[i] = k[i]}
  <2>. DEFINE T == {i \in 0..n : g[i] = k[i]}
  <2>1. 0 \in T
    BY <1>1, <1>3, <1>8
  <2>2. ASSUME NEW i \in 0..(n-1), i \in T  PROVE i + 1 \in T
    <3>1. i + 1 \in 1..n /\ i + 1 \in 0..n /\ (i + 1) - 1 = i
      BY <1>1
    <3>. QED  BY <1>3, <1>8, <2>2, <3>1
  <2>. HIDE DEF T
  <2>3. 0..n \subseteq T
    BY <1>1, <2>1, <2>2, UpTo
  <2>. QED  BY <2>3 DEF T
<1>10. n \in 0..n
  BY <1>1
<1>. QED  BY <1>2, <1>6, <1>9, <1>10 DEF n

\* The text whole.
LEMMA ReadsParsed ==
  ASSUME NEW text, Len(text) \in Nat, NEW k, Reading(k, text), k[0] = ScanStart
  PROVE  Parsed(text, TRUE) = k[Len(text)].sdp
<1>1. PICK ended : ended = TRUE
  OBVIOUS
<1>2. \A i : (ended \/ i < Len(text)) = TRUE
  BY <1>1
<1>3. ScanRun(k, text, ended)
  BY <1>2 DEF Reading, ScanRun
<1>. QED  BY <1>1, <1>3, ParsedIs DEF Reading

\* A section that says which it is: it has a MID line, and none of another mid.
Marked(media, mid) ==
  /\ \A i \in 1..Len(media.attrs) :
       /\ media.attrs[i].type \in {"MID", "RTPMAP", "FMTP"}
       /\ media.attrs[i].type = "MID" => media.attrs[i].value = mid
  /\ \E i \in 1..Len(media.attrs) : media.attrs[i].type = "MID"

\* A section of which the m= line and j a= lines have been read.
ReadUpTo(media, mid, j) ==
  [kind |-> media.kind,
   mid |-> IF \E i \in 1..j : media.attrs[i].type = "MID" THEN mid ELSE RandomMid,
   fmt |-> media.fmt, attrs |-> SubSeq(media.attrs, 1, j)]

\* A description with other sections.
WithMedia(sdp, m) ==
  [v |-> sdp.v, o |-> sdp.o, s |-> sdp.s, t |-> sdp.t, m |-> m, z |-> sdp.z]

\* A scan in the block of a section that is the last of sdp so far.
InBlock(sdp, section) ==
  [at |-> "block", sdp |-> WithMedia(sdp, Append(sdp.m, section))]

\* What a description is, whatever its fields hold.
DescriptionsOf(V, S, Z) == [v : V, o : V, s : V, t : V, m : Seq(S), z : Seq(Z)]

\* One element further.
LEMMA SubSeqGrows ==
  ASSUME NEW V, NEW s \in Seq(V), NEW j \in 1..Len(s)
  PROVE  Append(SubSeq(s, 1, j - 1), s[j]) = SubSeq(s, 1, j)
OBVIOUS

\* An a= line added to a section of which those before it have been read; the MID
\* line sets mid.
LEMMA AttributeAdded ==
  ASSUME NEW K, NEW M, NEW C, NEW A, NEW media \in SectionsOf(K, M, C, A), NEW mid,
         Marked(media, mid), NEW j \in 1..Len(media.attrs)
  PROVE  WithAttribute(ReadUpTo(media, mid, j - 1), media.attrs[j]) = ReadUpTo(media, mid, j)
<1>1. media.attrs \in Seq(A) /\ Len(media.attrs) \in Nat
  BY DEF SectionsOf
<1>2. PICK attrs, attr : attrs \in Seq(A) /\ attrs = media.attrs /\ attr = attrs[j]
  BY <1>1
<1>3. PICK before, after : /\ before = ReadUpTo(media, mid, j - 1)
                           /\ after = ReadUpTo(media, mid, j)
  OBVIOUS
<1>4. attr.type \in {"MID", "RTPMAP", "FMTP"} /\ (attr.type = "MID" => attr.value = mid)
  BY <1>2 DEF Marked
<1>5. WithAttribute(before, attr)
        = [before EXCEPT !.attrs = Append(@, attr),
                         !.mid = IF attr.type = "MID" THEN attr.value ELSE @]
  BY <1>4 DEF WithAttribute
<1>6. PICK first, marked : /\ first = SubSeq(attrs, 1, j - 1)
                           /\ marked = IF \E i \in 1..(j - 1) : attrs[i].type = "MID"
                                       THEN mid ELSE RandomMid
  OBVIOUS
<1>7. before = [kind |-> media.kind, mid |-> marked, fmt |-> media.fmt, attrs |-> first]
  BY <1>2, <1>3, <1>6 DEF ReadUpTo
<1>8. WithAttribute(before, attr)
        = [kind |-> media.kind, mid |-> IF attr.type = "MID" THEN attr.value ELSE marked,
           fmt |-> media.fmt, attrs |-> Append(first, attr)]
  BY <1>5, <1>7
<1>9. Append(first, attr) = SubSeq(attrs, 1, j)
  BY <1>2, <1>6, SubSeqGrows
<1>10. (IF attr.type = "MID" THEN attr.value ELSE marked)
         = IF \E i \in 1..j : attrs[i].type = "MID" THEN mid ELSE RandomMid
  <2>1. j \in 1..j /\ \A i \in 1..j : i = j \/ i \in 1..(j - 1)
    BY <1>1
  <2>2. \A i \in 1..(j - 1) : i \in 1..j
    BY <1>1
  <2>. QED  BY <1>2, <1>4, <1>6, <2>1, <2>2
<1>11. after = [kind |-> media.kind,
                mid |-> IF \E i \in 1..j : attrs[i].type = "MID" THEN mid ELSE RandomMid,
                fmt |-> media.fmt, attrs |-> SubSeq(attrs, 1, j)]
  BY <1>2, <1>3 DEF ReadUpTo
<1>12. WithAttribute(before, attr) = after
  BY <1>8, <1>9, <1>10, <1>11
<1>. QED  BY <1>2, <1>3, <1>12

\* The two ways in which the scanner changes what it holds.
Put(seq, i, x) == [seq EXCEPT ![i] = x]

\* A new section in the place of the last one.
LEMMA LastReplaced ==
  ASSUME NEW V, NEW s \in Seq(V), NEW x \in V, NEW y \in V,
         NEW l, l = Len(Append(s, x))
  PROVE  Append(s, x)[l] = x /\ Put(Append(s, x), l, y) = Append(s, y)
<1>. PICK n \in Nat : n = Len(s)
  OBVIOUS
<1>1. PICK t, u : t = Append(s, x) /\ u = Append(s, y)
  OBVIOUS
<1>2. /\ t \in Seq(V) /\ Len(t) = n + 1 /\ t[n + 1] = x /\ \A i \in 1..n : t[i] = s[i]
      /\ u \in Seq(V) /\ Len(u) = n + 1 /\ u[n + 1] = y /\ \A i \in 1..n : u[i] = s[i]
  BY <1>1, AppendAll
<1>3. PICK r : r = [t EXCEPT ![n + 1] = y]
  OBVIOUS
<1>4. t = [i \in 1..(n + 1) |-> t[i]] /\ u = [i \in 1..(n + 1) |-> u[i]]
  BY <1>2
<1>5. /\ r = [i \in 1..(n + 1) |-> r[i]]
      /\ \A i \in 1..(n + 1) : r[i] = IF i = n + 1 THEN y ELSE t[i]
  BY <1>3, <1>4
<1>6. \A i \in 1..(n + 1) : r[i] = u[i]
  <2>1. \A i \in 1..(n + 1) : i = n + 1 \/ i \in 1..n
    OBVIOUS
  <2>. QED  BY <1>2, <1>5, <2>1
<1>. HIDE <1>3
<1>7. r = u
  BY <1>4, <1>5, <1>6
<1>. QED  BY <1>1, <1>2, <1>3, <1>7 DEF Put

MediaSet(scan, at, ms) == [scan EXCEPT !.at = at, !.sdp.m = ms]

\* Other sections in the place of those that a scan holds.
LEMMA MediaReplaced ==
  ASSUME NEW sdp, NEW at, NEW there, NEW ms, NEW scan,
         scan = [at |-> there, sdp |-> WithMedia(sdp, sdp.m)]
  PROVE  MediaSet(scan, at, ms) = [at |-> at, sdp |-> WithMedia(sdp, ms)]
<1>1. PICK moved : moved = [scan EXCEPT !.at = at]
  OBVIOUS
<1>2. moved = [at |-> at, sdp |-> WithMedia(sdp, sdp.m)]
  BY <1>1
<1>3. [moved EXCEPT !.sdp.m = ms] = [at |-> at, sdp |-> WithMedia(sdp, ms)]
  BY <1>2 DEF WithMedia
<1>4. MediaSet(scan, at, ms) = [[scan EXCEPT !.at = at] EXCEPT !.sdp.m = ms]
  BY DEF MediaSet
<1>. QED  BY <1>1, <1>3, <1>4

\* An a= line of a block is added to the section that was started last.
LEMMA AttributeRead ==
  ASSUME NEW X, NEW sdp, sdp.m \in Seq(X), NEW before \in X, NEW after \in X,
         NEW attr, WithAttribute(before, attr) = after
  PROVE  Scanned(InBlock(sdp, before), Line("a", attr), TRUE) = InBlock(sdp, after)
<1>1. PICK ms \in Seq(X) : ms = sdp.m
  OBVIOUS
<1>2. PICK longer : longer = Append(ms, before)
  OBVIOUS
<1>3. PICK l : l = Len(longer)
  OBVIOUS
<1>4. longer[l] = before
  <2>1. Append(ms, before)[Len(Append(ms, before))] = before
    BY AppendAll
  <2>. QED  BY <1>2, <1>3, <2>1
<1>5. Put(longer, l, after) = Append(ms, after)
  <2>1. Put(Append(ms, before), Len(Append(ms, before)), after) = Append(ms, after)
    BY LastReplaced, Zenon
  <2>. QED  BY <1>2, <1>3, <2>1
<1>6. PICK block : block = InBlock(sdp, before)
  OBVIOUS
<1>7. block = [at |-> "block", sdp |-> WithMedia(sdp, longer)]
  BY <1>1, <1>2, <1>6 DEF InBlock
<1>8. Scanned(block, Line("a", attr), TRUE) = ReadAttribute(block, attr)
  <2>1. block.at = "block"
    BY <1>7
  <2>2. Line("a", attr).key = "a" /\ Line("a", attr).value = attr
    BY DEF Line
  <2>. QED  BY <2>1, <2>2 DEF Scanned
<1>9. block.sdp.m = longer
  BY <1>7 DEF WithMedia
<1>10. ReadAttribute(block, attr) = [block EXCEPT !.sdp.m[l] = WithAttribute(longer[l], attr)]
  BY <1>3, <1>9 DEF ReadAttribute
<1>11. ReadAttribute(block, attr) = [block EXCEPT !.sdp.m[l] = after]
  BY <1>4, <1>10
<1>12. PICK last : last = Put(longer, l, after)
  OBVIOUS
<1>13. [block EXCEPT !.sdp.m[l] = after] = [at |-> "block", sdp |-> WithMedia(sdp, last)]
  <2>1. PICK w : w = WithMedia(sdp, longer)
    OBVIOUS
  <2>2. [block EXCEPT !.sdp.m[l] = after] = [at |-> "block", sdp |-> [w EXCEPT !.m[l] = after]]
    BY <1>7, <2>1
  <2>3. [w EXCEPT !.m[l] = after] = [w EXCEPT !.m = last]
    BY <1>12, <2>1 DEF WithMedia, Put
  <2>4. [w EXCEPT !.m = last] = WithMedia(sdp, last)
    BY <2>1 DEF WithMedia
  <2>. QED  BY <2>2, <2>3, <2>4
<1>14. ReadAttribute(block, attr) = InBlock(sdp, after)
  BY <1>1, <1>5, <1>11, <1>12, <1>13 DEF InBlock
<1>. QED  BY <1>6, <1>8, <1>14

\* The two parts of a text are texts.
LEMMA FirstTyped ==
  ASSUME NEW V, NEW s \in Seq(V), NEW n \in 0..Len(s)
  PROVE  FirstLines(s, n) \in Seq(V) /\ LinesBehind(s, n) \in Seq(V)
BY PartsTyped DEF FirstLines, LinesBehind

\* Of a block the m= line starts a section and each a= line is added to it.
LEMMA SectionRead ==
  ASSUME NEW V, NEW Z, NEW K, NEW M, NEW C, NEW A, NEW mid \in M, RandomMid \in M,
         NEW media \in SectionsOf(K, M, C, A), Marked(media, mid),
         NEW sdp \in DescriptionsOf(V, SectionsOf(K, M, C, A), Z),
         NEW scan, scan.at \in {"lines", "block"}, scan = [at |-> scan.at, sdp |-> sdp]
  PROVE  Reads(scan, PrintedMedia(media), InBlock(sdp, [media EXCEPT !.mid = mid]))
<1>. DEFINE X == SectionsOf(K, M, C, A)
<1>1. /\ media.attrs \in Seq(A) /\ media.fmt \in Seq(C) /\ media.kind \in K
      /\ media = [kind |-> media.kind, mid |-> media.mid, fmt |-> media.fmt, attrs |-> media.attrs]
  BY DEF SectionsOf
<1>2. PICK n \in Nat : n = Len(media.attrs)
  BY <1>1
<1>3. \A j \in 0..n : ReadUpTo(media, mid, j) \in X
  <2>. SUFFICES ASSUME NEW j \in 0..n  PROVE ReadUpTo(media, mid, j) \in X
    OBVIOUS
  <2>1. SubSeq(media.attrs, 1, j) \in Seq(A)
    BY <1>1, <1>2, FirstTyped DEF FirstLines
  <2>. QED  BY <1>1, <2>1 DEF ReadUpTo, SectionsOf
<1>4. PICK line, lines : /\ line = Line("m", [kind |-> media.kind, fmt |-> media.fmt])
                         /\ lines = [i \in DOMAIN media.attrs |-> Line("a", media.attrs[i])]
  OBVIOUS
<1>5. PrintedMedia(media) = <<line>> \o lines
  BY <1>4 DEF PrintedMedia
<1>6. /\ line.key = "m" /\ line.value = [kind |-> media.kind, fmt |-> media.fmt]
      /\ Len(lines) = n /\ DOMAIN lines = 1..n
      /\ \A i \in 1..n : lines[i] = Line("a", media.attrs[i])
  <2>1. DOMAIN media.attrs = 1..n
    BY <1>1, <1>2
  <2>. QED  BY <1>4, <2>1 DEF Line
<1>7. /\ sdp.m \in Seq(X)
      /\ sdp = [v |-> sdp.v, o |-> sdp.o, s |-> sdp.s, t |-> sdp.t, m |-> sdp.m, z |-> sdp.z]
  BY DEF DescriptionsOf
<1>8. PICK none : none = ReadUpTo(media, mid, 0)
  OBVIOUS
<1>9. Scanned(scan, line, TRUE) = InBlock(sdp, none)
  <2>1. Scanned(scan, line, TRUE) = ReadLine(scan, line)
    BY <1>6 DEF Scanned, ReadBehindBlock
  <2>2. ReadLine(scan, line)
          = [scan EXCEPT !.at = "block", !.sdp.m = Append(@, ParsedSection(line.value))]
    BY <1>6 DEF ReadLine
  <2>3. ParsedSection(line.value) = none
    <3>1. SubSeq(media.attrs, 1, 0) = <<>> /\ 1..0 = {}
      BY <1>1
    <3>. QED  BY <1>6, <1>8, <3>1 DEF ParsedSection, ReadUpTo
  <2>4. ReadLine(scan, line) = [scan EXCEPT !.at = "block", !.sdp.m = Append(@, none)]
    BY <2>2, <2>3
  <2>5. PICK at, ms : at = scan.at /\ ms = Append(sdp.m, none)
    OBVIOUS
  <2>6. scan = [at |-> at, sdp |-> WithMedia(sdp, sdp.m)]
    BY <1>7, <2>5 DEF WithMedia
  <2>7. MediaSet(scan, "block", ms)
          = [at |-> "block", sdp |-> WithMedia(sdp, ms)]
    BY <2>6, MediaReplaced
  <2>8. scan.sdp.m = sdp.m
    BY <2>6 DEF WithMedia
  <2>. QED  BY <2>1, <2>4, <2>5, <2>7, <2>8 DEF InBlock, MediaSet
<1>10. ASSUME NEW j \in 1..n
       PROVE  Scanned(InBlock(sdp, ReadUpTo(media, mid, j - 1)), lines[j], TRUE)
                = InBlock(sdp, ReadUpTo(media, mid, j))
  <2>1. PICK before, after : /\ before = ReadUpTo(media, mid, j - 1)
                             /\ after = ReadUpTo(media, mid, j)
    OBVIOUS
  <2>2. before \in X /\ after \in X
    <3>1. j - 1 \in 0..n /\ j \in 0..n
      OBVIOUS
    <3>. QED  BY <1>3, <2>1, <3>1
  <2>3. WithAttribute(before, media.attrs[j]) = after
    BY <1>2, <2>1, AttributeAdded
  <2>4. Scanned(InBlock(sdp, before), Line("a", media.attrs[j]), TRUE) = InBlock(sdp, after)
    <3>1. PICK attr : attr = media.attrs[j]
      OBVIOUS
    <3>2. WithAttribute(before, attr) = after
      BY <2>3, <3>1
    <3>3. sdp.m \in Seq(X)
      BY <1>7
    <3>4. Scanned(InBlock(sdp, before), Line("a", attr), TRUE) = InBlock(sdp, after)
      BY <2>2, <3>2, <3>3, AttributeRead
    <3>. QED  BY <3>1, <3>4
  <2>. QED  BY <1>6, <2>1, <2>4
<1>11. Reads(scan, <<line>>, InBlock(sdp, none))
  BY <1>9, ReadsOne
<1>12. Reads(InBlock(sdp, none), lines, InBlock(sdp, ReadUpTo(media, mid, n)))
  <2>1. PICK k : k = [i \in 0..n |-> InBlock(sdp, ReadUpTo(media, mid, i))]
    OBVIOUS
  <2>2. 0 \in 0..n /\ n \in 0..n /\ \A i \in 1..n : i \in 0..n /\ i - 1 \in 0..n
    OBVIOUS
  <2>3. /\ k[0] = InBlock(sdp, none) /\ k[n] = InBlock(sdp, ReadUpTo(media, mid, n))
        /\ k = [i \in 0..n |-> k[i]]
    BY <1>8, <2>1, <2>2
  <2>4. \A i \in 1..n : k[i] = Scanned(k[i-1], lines[i], TRUE)
    BY <1>10, <2>1, <2>2
  <2>. QED  BY <1>6, <2>3, <2>4 DEF Reads, Reading
<1>13. ReadUpTo(media, mid, n) = [media EXCEPT !.mid = mid]
  <2>1. SubSeq(media.attrs, 1, n) = media.attrs
    BY <1>1, <1>2, SubSeqFull
  <2>2. \E i \in 1..n : media.attrs[i].type = "MID"
    BY <1>2 DEF Marked
  <2>3. ReadUpTo(media, mid, n)
          = [kind |-> media.kind, mid |-> mid, fmt |-> media.fmt, attrs |-> media.attrs]
    BY <2>1, <2>2 DEF ReadUpTo
  <2>. QED  BY <1>1, <2>3
<1>14. Reads(scan, <<line>> \o lines, InBlock(sdp, ReadUpTo(media, mid, n)))
  <2>1. PICK W : W = {line} \cup {Line("a", a) : a \in A}
    OBVIOUS
  <2>2. <<line>> \in Seq(W)
    BY <2>1
  <2>3. lines \in Seq(W)
    <3>1. \A i \in 1..n : lines[i] \in W
      BY <1>1, <1>2, <1>6, <2>1
    <3>2. lines = [i \in 1..n |-> lines[i]]
      BY <1>4, <1>6
    <3>. QED  BY <3>1, <3>2
  <2>. QED  BY <1>11, <1>12, <2>2, <2>3, ReadsOn
<1>. QED  BY <1>5, <1>13, <1>14

\* The lines of printed descriptions, but for the z= line.
LinesOf(V, K, C, A) ==
  {Line("m", [kind |-> kind, fmt |-> fmt]) : kind \in K, fmt \in Seq(C)}
    \cup {Line("a", a) : a \in A}
    \cup {Line(key, value) : key \in {"v", "o", "s", "t"}, value \in V}

\* The lines of a section.
LEMMA BlockIs ==
  ASSUME NEW V, NEW K, NEW M, NEW C, NEW A, NEW media \in SectionsOf(K, M, C, A)
  PROVE  PrintedMedia(media) \in Seq(LinesOf(V, K, C, A))
<1>1. PICK W : W = LinesOf(V, K, C, A)
  OBVIOUS
<1>2. PICK line, lines : /\ line = Line("m", [kind |-> media.kind, fmt |-> media.fmt])
                         /\ lines = [i \in DOMAIN media.attrs |-> Line("a", media.attrs[i])]
  OBVIOUS
<1>3. line \in W
  BY <1>1, <1>2 DEF LinesOf, SectionsOf
<1>4. lines \in Seq(W)
  <2>1. PICK attrs \in Seq(A) : attrs = media.attrs
    BY DEF SectionsOf
  <2>2. lines = [i \in 1..Len(attrs) |-> Line("a", attrs[i])] /\ Len(attrs) \in Nat
    BY <1>2, <2>1
  <2>3. \A i \in 1..Len(attrs) : Line("a", attrs[i]) \in W
    BY <1>1, <2>1 DEF LinesOf
  <2>. QED  BY <2>2, <2>3
<1>5. <<line>> \in Seq(W)
  BY <1>3, OneOf
<1>6. <<line>> \o lines \in Seq(W)
  BY <1>4, <1>5, ConcatProperties
<1>. QED  BY <1>1, <1>2, <1>6 DEF PrintedMedia

\* What is read of the sections of a description.
AsRead(m, mid) == [i \in DOMAIN m |-> [m[i] EXCEPT !.mid = mid]]

\* All blocks of a text, one after the other.
LEMMA SectionsRead ==
  ASSUME NEW V, NEW Z, NEW K, NEW M, NEW C, NEW A, NEW mid \in M, RandomMid \in M,
         NEW m \in Seq(SectionsOf(K, M, C, A)), \A i \in 1..Len(m) : Marked(m[i], mid),
         NEW sdp \in DescriptionsOf(V, SectionsOf(K, M, C, A), Z), sdp.m = <<>>,
         NEW from, from = [at |-> "lines", sdp |-> sdp],
         NEW text, text = FlattenSeq([i \in DOMAIN m |-> PrintedMedia(m[i])])
  PROVE  /\ text \in Seq(LinesOf(V, K, C, A))
         /\ \E at \in {"lines", "block"} :
              Reads(from, text, [at |-> at, sdp |-> WithMedia(sdp, AsRead(m, mid))])
<1>1. PICK X, W : X = SectionsOf(K, M, C, A) /\ W = LinesOf(V, K, C, A)
  OBVIOUS
<1>2. PICK n \in Nat : n = Len(m)
  OBVIOUS
<1>3. PICK blocks : blocks = [i \in DOMAIN m |-> PrintedMedia(m[i])]
  OBVIOUS
<1>4. /\ blocks \in Seq(Seq(W)) /\ Len(blocks) = n
      /\ \A i \in 1..n : blocks[i] = PrintedMedia(m[i])
  <2>1. \A i \in 1..n : PrintedMedia(m[i]) \in Seq(W)
    BY <1>1, <1>2, BlockIs
  <2>2. blocks = [i \in 1..n |-> PrintedMedia(m[i])]
    BY <1>2, <1>3
  <2>. QED  BY <2>1, <2>2
<1>5. PICK g \in [0..n -> Seq(W)] :
        /\ g[0] = <<>>
        /\ \A i \in 1..n : g[i] = g[i-1] \o blocks[i]
        /\ text = g[n]
  <2>1. FlattenSeq(blocks) = text
    BY <1>3
  <2>. QED  BY <1>4, <2>1, FlattenRuns
<1>6. PICK r : r = AsRead(m, mid)
  OBVIOUS
<1>7. r \in Seq(X) /\ Len(r) = n /\ \A i \in 1..n : r[i] = [m[i] EXCEPT !.mid = mid]
  <2>1. \A media \in X : [media EXCEPT !.mid = mid] \in X
    BY <1>1 DEF SectionsOf
  <2>2. \A i \in 1..n : m[i] \in X
    BY <1>1, <1>2
  <2>3. r = [i \in 1..n |-> [m[i] EXCEPT !.mid = mid]]
    BY <1>2, <1>6 DEF AsRead
  <2>4. \A i \in 1..n : r[i] = [m[i] EXCEPT !.mid = mid]
    BY <2>3
  <2>5. \A i \in 1..n : r[i] \in X
    BY <2>1, <2>2, <2>4
  <2>6. r = [i \in 1..n |-> r[i]]
    BY <2>3
  <2>7. r \in Seq(X) /\ Len(r) = n
    BY <2>5, <2>6, IsSequence
  <2>. QED  BY <2>4, <2>7
<1>. DEFINE Following(i) == WithMedia(sdp, SubSeq(r, 1, i))
            T == {i \in 0..n : \E at \in {"lines", "block"} :
                                 Reads(from, g[i], [at |-> at, sdp |-> Following(i)])}
<1>8. 0 \in T
  <2>1. SubSeq(r, 1, 0) = <<>>
    BY <1>7
  <2>2. Following(0) = sdp
    BY <2>1 DEF WithMedia, DescriptionsOf
  <2>3. Reads(from, <<>>, from)
    <3>1. PICK k : k = [i \in 0..0 |-> from]
      OBVIOUS
    <3>2. k[0] = from /\ k = [i \in 0..0 |-> k[i]] /\ Len(<<>>) = 0 /\ 1..0 = {}
      BY <3>1
    <3>. QED  BY <3>2 DEF Reads, Reading
  <2>. HIDE DEF Following
  <2>. QED  BY <1>5, <2>2, <2>3
<1>9. ASSUME NEW i \in 0..(n-1), i \in T  PROVE i + 1 \in T
  <2>1. PICK at \in {"lines", "block"} : Reads(from, g[i], [at |-> at, sdp |-> Following(i)])
    BY <1>9
  <2>2. i + 1 \in 1..n /\ i + 1 \in 0..n /\ (i + 1) - 1 = i /\ i \in 0..n
    OBVIOUS
  <2>3. PICK before, scan : before = Following(i) /\ scan = [at |-> at, sdp |-> before]
    OBVIOUS
  <2>4. PICK first : first = SubSeq(r, 1, i)
    OBVIOUS
  <2>5. first \in Seq(X)
    BY <1>7, <2>2, <2>4, FirstTyped DEF FirstLines
  <2>6. before \in DescriptionsOf(V, X, Z) /\ before.m = first
    <3>1. before = WithMedia(sdp, first)
      BY <2>3, <2>4
    <3>. QED  BY <1>1, <2>5, <3>1 DEF WithMedia, DescriptionsOf
  <2>7. m[i + 1] \in X /\ Marked(m[i + 1], mid)
    BY <1>1, <1>2, <2>2
  <2>8. Reads(scan, PrintedMedia(m[i + 1]), InBlock(before, [m[i + 1] EXCEPT !.mid = mid]))
    <3>1. PICK media : media = m[i + 1]
      OBVIOUS
    <3>2. scan.at \in {"lines", "block"} /\ scan = [at |-> scan.at, sdp |-> before]
      BY <2>3
    <3>3. Reads(scan, PrintedMedia(media), InBlock(before, [media EXCEPT !.mid = mid]))
      <4>1. media \in X /\ Marked(media, mid)
        BY <2>7, <3>1
      <4>. QED  BY <1>1, <2>6, <3>2, <4>1, SectionRead
    <3>. QED  BY <3>1, <3>3
  <2>9. PICK section, after : section = r[i + 1] /\ after = InBlock(before, section)
    OBVIOUS
  <2>10. Reads(scan, blocks[i + 1], after)
    BY <1>4, <1>7, <2>2, <2>8, <2>9
  <2>11. Reads(from, g[i] \o blocks[i + 1], after)
    <3>1. g[i] \in Seq(W) /\ blocks[i + 1] \in Seq(W)
      BY <1>4, <2>2
    <3>2. Reads(from, g[i], scan)
      BY <2>1, <2>3
    <3>. QED  BY <2>10, <3>1, <3>2, ReadsOn
  <2>12. after = [at |-> "block", sdp |-> Following(i + 1)]
    <3>1. Append(first, section) = SubSeq(r, 1, i + 1)
      BY <1>7, <2>2, <2>4, <2>9, SubSeqGrows
    <3>2. WithMedia(before, Append(first, section)) = WithMedia(sdp, Append(first, section))
      BY <2>3 DEF WithMedia
    <3>. QED  BY <2>6, <2>9, <3>1, <3>2 DEF InBlock
  <2>13. g[i + 1] = g[i] \o blocks[i + 1]
    BY <1>5, <2>2
  <2>. HIDE DEF Following
  <2>. QED  BY <2>2, <2>11, <2>12, <2>13
<1>10. n \in T
  <2>. HIDE DEF T
  <2>1. 0..n \subseteq T
    BY <1>8, <1>9, UpTo
  <2>. QED  BY <2>1
<1>11. SubSeq(r, 1, n) = r
  BY <1>7, SubSeqFull
<1>12. text \in Seq(W)
  BY <1>5
<1>13. \E at \in {"lines", "block"} : Reads(from, text, [at |-> at, sdp |-> WithMedia(sdp, r)])
  BY <1>5, <1>10, <1>11
<1>. QED  BY <1>1, <1>6, <1>12, <1>13

\* A scan outside of the media blocks, where nothing but the header was read.
AtLine(v, o, s, t) ==
  [at |-> "lines", sdp |-> [v |-> v, o |-> o, s |-> s, t |-> t, m |-> <<>>, z |-> <<>>]]

\* A line of the header sets its field.
LEMMA FieldRead ==
  ASSUME NEW v, NEW o, NEW s, NEW t, NEW x, NEW ended
  PROVE  /\ Scanned(AtLine(v, o, s, t), Line("v", x), ended) = AtLine(x, o, s, t)
         /\ Scanned(AtLine(v, o, s, t), Line("o", x), ended) = AtLine(v, x, s, t)
         /\ Scanned(AtLine(v, o, s, t), Line("s", x), ended) = AtLine(v, o, x, t)
         /\ Scanned(AtLine(v, o, s, t), Line("t", x), ended) = AtLine(v, o, s, x)
<1>1. PICK scan : scan = AtLine(v, o, s, t)
  OBVIOUS
<1>2. ASSUME NEW key \in {"v", "o", "s", "t"}
      PROVE  Scanned(scan, Line(key, x), ended)
               = [[scan EXCEPT !.at = "lines"] EXCEPT !.sdp[key] = x]
  <2>1. scan.at = "lines"
    BY <1>1 DEF AtLine
  <2>2. Line(key, x).key = key /\ Line(key, x).value = x
    BY DEF Line
  <2>3. Scanned(scan, Line(key, x), ended) = ReadLine(scan, Line(key, x))
    BY <2>1 DEF Scanned
  <2>4. ReadLine(scan, Line(key, x)) = [scan EXCEPT !.at = "lines", !.sdp[key] = x]
    BY <2>2 DEF ReadLine
  <2>. QED  BY <2>3, <2>4
<1>3. [scan EXCEPT !.at = "lines"] = scan
  BY <1>1 DEF AtLine
<1>4. PICK sdp : sdp = [v |-> v, o |-> o, s |-> s, t |-> t, m |-> <<>>, z |-> <<>>]
  OBVIOUS
<1>5. scan = [at |-> "lines", sdp |-> sdp]
  BY <1>1, <1>4 DEF AtLine
<1>6. ASSUME NEW key \in {"v", "o", "s", "t"}
      PROVE  [scan EXCEPT !.sdp[key] = x] = [at |-> "lines", sdp |-> [sdp EXCEPT ![key] = x]]
  BY <1>5
<1>7. [sdp EXCEPT !["v"] = x] = [v |-> x, o |-> o, s |-> s, t |-> t, m |-> <<>>, z |-> <<>>]
  BY <1>4
<1>8. [sdp EXCEPT !["o"] = x] = [v |-> v, o |-> x, s |-> s, t |-> t, m |-> <<>>, z |-> <<>>]
  BY <1>4
<1>9. [sdp EXCEPT !["s"] = x] = [v |-> v, o |-> o, s |-> x, t |-> t, m |-> <<>>, z |-> <<>>]
  BY <1>4
<1>10. [sdp EXCEPT !["t"] = x] = [v |-> v, o |-> o, s |-> s, t |-> x, m |-> <<>>, z |-> <<>>]
  BY <1>4
<1>11. ASSUME NEW key \in {"v", "o", "s", "t"}
       PROVE  Scanned(scan, Line(key, x), ended) = [at |-> "lines", sdp |-> [sdp EXCEPT ![key] = x]]
  BY <1>2, <1>3, <1>6
<1>. QED  BY <1>1, <1>7, <1>8, <1>9, <1>10, <1>11 DEF AtLine

\* The header of a text.
LEMMA HeadRead ==
  ASSUME NEW v, NEW o, NEW s, NEW t
  PROVE  Reads(ScanStart, <<Line("v", v), Line("o", o), Line("s", s), Line("t", t)>>,
               AtLine(v, o, s, t))
<1>11. PICK ended : ended = TRUE
  OBVIOUS
<1>1. PICK a, b, c, d : /\ a = Line("v", v) /\ b = Line("o", o)
                        /\ c = Line("s", s) /\ d = Line("t", t)
  OBVIOUS
<1>2. PICK k0, k1, k2, k3, k4 :
        /\ k0 = AtLine(Blank.v, Blank.o, Blank.s, Blank.t) /\ k1 = AtLine(v, Blank.o, Blank.s, Blank.t)
        /\ k2 = AtLine(v, o, Blank.s, Blank.t) /\ k3 = AtLine(v, o, s, Blank.t)
        /\ k4 = AtLine(v, o, s, t)
  OBVIOUS
<1>3. ScanStart = k0
  BY <1>2 DEF ScanStart, Blank, AtLine
<1>4. /\ Scanned(k0, a, ended) = k1 /\ Scanned(k1, b, ended) = k2
      /\ Scanned(k2, c, ended) = k3 /\ Scanned(k3, d, ended) = k4
  BY <1>1, <1>2, FieldRead
<1>5. PICK k : k = [i \in 0..4 |-> IF i = 0 THEN k0 ELSE IF i = 1 THEN k1
                                   ELSE IF i = 2 THEN k2 ELSE IF i = 3 THEN k3 ELSE k4]
  OBVIOUS
<1>6. /\ k[0] = k0 /\ k[1] = k1 /\ k[2] = k2 /\ k[3] = k3 /\ k[4] = k4
      /\ k = [i \in 0..4 |-> k[i]]
  BY <1>5
<1>7. PICK text : text = <<a, b, c, d>>
  OBVIOUS
<1>8. Len(text) = 4 /\ text[1] = a /\ text[2] = b /\ text[3] = c /\ text[4] = d
  BY <1>7
<1>9. \A i \in 1..4 : k[i] = Scanned(k[i-1], text[i], ended)
  <2>1. \A i \in 1..4 : \/ i = 1 /\ i - 1 = 0
                        \/ i = 2 /\ i - 1 = 1
                        \/ i = 3 /\ i - 1 = 2
                        \/ i = 4 /\ i - 1 = 3
    OBVIOUS
  <2>2. /\ k[1] = Scanned(k[0], text[1], ended) /\ k[2] = Scanned(k[1], text[2], ended)
        /\ k[3] = Scanned(k[2], text[3], ended) /\ k[4] = Scanned(k[3], text[4], ended)
    BY <1>4, <1>6, <1>8
  <2>. QED  BY <2>1, <2>2
<1>10. Reads(k0, text, k4)
  BY <1>6, <1>8, <1>9, <1>11 DEF Reads, Reading
<1>. QED  BY <1>1, <1>2, <1>3, <1>7, <1>10

\* A scan behind the last media block, before and after the z= line.
Scan(at, v, o, s, t, m, z) ==
  [at |-> at, sdp |-> [v |-> v, o |-> o, s |-> s, t |-> t, m |-> m, z |-> z]]

\* The z= line of a text.
LEMMA ItemsRead ==
  ASSUME NEW Z, NEW z \in Seq(Z), NEW v, NEW o, NEW s, NEW t, NEW m,
         NEW at, at = "lines" \/ at = "block",
         NEW before, before = Scan(at, v, o, s, t, m, <<>>)
  PROVE  Scanned(before, Line("z", z), TRUE) = Scan("lines", v, o, s, t, m, z)
<1>. PICK scan, sdp, to :
       /\ scan = [at |-> at, sdp |-> sdp]
       /\ sdp = [v |-> v, o |-> o, s |-> s, t |-> t, m |-> m, z |-> <<>>]
       /\ to = [v |-> v, o |-> o, s |-> s, t |-> t, m |-> m, z |-> z]
  OBVIOUS
<1>1. Line("z", z).key = "z" /\ Line("z", z).value = z
  BY DEF Line
<1>2. Scanned(scan, Line("z", z), TRUE) = ReadLine(scan, Line("z", z))
  BY <1>1 DEF Scanned, ReadBehindBlock
<1>3. ReadLine(scan, Line("z", z)) = [scan EXCEPT !.at = "lines", !.sdp.z = @ \o z]
  BY <1>1 DEF ReadLine
<1>4. scan.sdp.z = <<>> /\ <<>> \o z = z
  BY ConcatEmptySeq
<1>5. ReadLine(scan, Line("z", z)) = [scan EXCEPT !.at = "lines", !.sdp.z = z]
  BY <1>3, <1>4
<1>6. PICK moved : moved = [scan EXCEPT !.at = "lines"]
  OBVIOUS
<1>7. moved = [at |-> "lines", sdp |-> sdp]
  BY <1>6
<1>8. ReadLine(scan, Line("z", z)) = [moved EXCEPT !.sdp.z = z]
  BY <1>5, <1>6
<1>9. PICK read : read = [sdp EXCEPT !.z = z]
  OBVIOUS
<1>10. read = to
  BY <1>9
<1>11. [moved EXCEPT !.sdp.z = z] = [at |-> "lines", sdp |-> read]
  BY <1>7, <1>9
<1>. QED  BY <1>2, <1>8, <1>10, <1>11 DEF Scan

\* A text that is read from the start to somewhere is parsed to what is there.
LEMMA ReadsIs ==
  ASSUME NEW V, NEW text \in Seq(V), NEW to, Reads(ScanStart, text, to)
  PROVE  Parsed(text, TRUE) = to.sdp
<1>1. PICK k : Reading(k, text) /\ k[0] = ScanStart /\ k[Len(text)] = to
  BY DEF Reads
<1>2. Len(text) \in Nat
  OBVIOUS
<1>3. Parsed(text, TRUE) = k[Len(text)].sdp
  BY <1>1, <1>2, ReadsParsed, Zenon
<1>. QED  BY <1>1, <1>3, Zenon

\* What is printed of sdp: lines of L, and the z line when there is one.
BodyIn(sdp, L) ==
  \E body \in Seq(L) :
    Printed(sdp) = body \o IF sdp.z = <<>> THEN <<>> ELSE <<Line("z", sdp.z)>>

\* The whole of what is printed of sdp is read as the same description, every
\* section with the mid that its MID line carries.
WellRead(sdp, mid) ==
  \E at \in {"lines", "block"} :
    /\ sdp.z # <<>> => at = "lines"
    /\ Reads(ScanStart, Printed(sdp),
             [at |-> at, sdp |-> WithMedia(sdp, AsRead(sdp.m, mid))])

\* A text that is printed is read to its end, and only there is a z= line.
LEMMA PrintedReads ==
  ASSUME NEW V, NEW Z, NEW K, NEW M, NEW C, NEW A, NEW mid \in M, RandomMid \in M,
         NEW sdp \in DescriptionsOf(V, SectionsOf(K, M, C, A), Z),
         \A i \in 1..Len(sdp.m) : Marked(sdp.m[i], mid)
  PROVE  BodyIn(sdp, LinesOf(V, K, C, A)) /\ WellRead(sdp, mid)
<1>1. PICK X, W : X = SectionsOf(K, M, C, A) /\ W = LinesOf(V, K, C, A)
  OBVIOUS
<1>2. PICK v, o, s, t, m, z : sdp = [v |-> v, o |-> o, s |-> s, t |-> t, m |-> m, z |-> z]
  BY DEF DescriptionsOf
<1>3. /\ sdp.v = v /\ sdp.o = o /\ sdp.s = s /\ sdp.t = t /\ sdp.m = m /\ sdp.z = z
      /\ v \in V /\ o \in V /\ s \in V /\ t \in V /\ m \in Seq(X) /\ z \in Seq(Z)
  <2>1. sdp.v = v /\ sdp.o = o /\ sdp.s = s /\ sdp.t = t /\ sdp.m = m /\ sdp.z = z
    BY <1>2
  <2>. QED  BY <1>1, <2>1 DEF DescriptionsOf
<1>4. PICK head, text, tail :
        /\ head = <<Line("v", v), Line("o", o), Line("s", s), Line("t", t)>>
        /\ text = FlattenSeq([i \in DOMAIN m |-> PrintedMedia(m[i])])
        /\ tail = IF z = <<>> THEN <<>> ELSE <<Line("z", z)>>
  OBVIOUS
<1>5. PICK from, start : /\ from = AtLine(v, o, s, t) /\ start = ScanStart
  OBVIOUS
<1>6. PICK hd : hd = [v |-> v, o |-> o, s |-> s, t |-> t, m |-> <<>>, z |-> <<>>]
  OBVIOUS
<1>7. /\ from = [at |-> "lines", sdp |-> hd] /\ hd.m = <<>> /\ hd.z = <<>>
      /\ hd \in DescriptionsOf(V, X, Z)
  <2>1. from = [at |-> "lines", sdp |-> hd] /\ hd.m = <<>> /\ hd.z = <<>>
    BY <1>5, <1>6 DEF AtLine
  <2>2. <<>> \in Seq(X) /\ <<>> \in Seq(Z)
    OBVIOUS
  <2>. QED  BY <1>3, <1>6, <2>1, <2>2 DEF DescriptionsOf
<1>8. head \in Seq(W)
  <2>1. /\ Line("v", v) \in W /\ Line("o", o) \in W /\ Line("s", s) \in W
        /\ Line("t", t) \in W
    BY <1>1, <1>3 DEF LinesOf
  <2>. QED  BY <1>4, <2>1, FourOf
<1>9. Reads(start, head, from)
  BY <1>4, <1>5, HeadRead
<1>10. PICK read : read = AsRead(m, mid)
  OBVIOUS
<1>11. /\ text \in Seq(W)
       /\ \E at \in {"lines", "block"} :
            Reads(from, text, [at |-> at, sdp |-> WithMedia(hd, read)])
  <2>1. \A i \in 1..Len(m) : Marked(m[i], mid)
    BY <1>3
  <2>2. m \in Seq(SectionsOf(K, M, C, A)) /\ hd \in DescriptionsOf(V, SectionsOf(K, M, C, A), Z)
    BY <1>1, <1>3, <1>7
  <2>3. hd.m = <<>> /\ from = [at |-> "lines", sdp |-> hd]
    BY <1>7
  <2>4. text = FlattenSeq([i \in DOMAIN m |-> PrintedMedia(m[i])])
    BY <1>4
  <2>. QED  BY <1>1, <1>10, <2>1, <2>2, <2>3, <2>4, SectionsRead
<1>12. PICK at, mine, there :
         /\ at \in {"lines", "block"}
         /\ mine = WithMedia(hd, read) /\ there = [at |-> at, sdp |-> mine]
         /\ Reads(from, text, there)
  BY <1>11
<1>13. mine = [v |-> v, o |-> o, s |-> s, t |-> t, m |-> read, z |-> <<>>]
  BY <1>6, <1>12 DEF WithMedia
<1>14. head \o text \in Seq(W) /\ Reads(start, head \o text, there)
  <2>1. Reads(start, head \o text, there)
    BY <1>8, <1>9, <1>11, <1>12, ReadsOn
  <2>. QED  BY <1>8, <1>11, <2>1, ConcatProperties
<1>15. PICK whole : whole = (head \o text) \o tail
  OBVIOUS
<1>16. PICK to : to = [v |-> v, o |-> o, s |-> s, t |-> t, m |-> read, z |-> z]
  OBVIOUS
<1>17. \E where \in {"lines", "block"} :
         /\ z # <<>> => where = "lines"
         /\ Reads(start, whole, [at |-> where, sdp |-> to])
  <2>1. CASE z = <<>>
    <3>1. whole = head \o text
      BY <1>4, <1>14, <1>15, <2>1, ConcatEmptySeq
    <3>2. there = [at |-> at, sdp |-> to]
      BY <1>12, <1>13, <1>16, <2>1
    <3>3. Reads(start, whole, [at |-> at, sdp |-> to])
      BY <1>14, <3>1, <3>2
    <3>4. at \in {"lines", "block"}
      BY <1>12
    <3>. QED  BY <2>1, <3>3, <3>4
  <2>2. CASE z # <<>>
    <3>1. Scanned(there, Line("z", z), TRUE) = [at |-> "lines", sdp |-> to]
      <4>1. there = [at |-> at, sdp |-> mine]
        BY <1>12
      <4>2. there = Scan(at, v, o, s, t, read, <<>>)
        BY <1>13, <4>1 DEF Scan
      <4>3. [at |-> "lines", sdp |-> to] = Scan("lines", v, o, s, t, read, z)
        BY <1>16 DEF Scan
      <4>4. Scanned(there, Line("z", z), TRUE) = Scan("lines", v, o, s, t, read, z)
        <5>1. (at = "lines" \/ at = "block") /\ z \in Seq(Z)
          BY <1>3, <1>12
        <5>. QED  BY <4>2, <5>1, ItemsRead
      <4>. QED  BY <4>3, <4>4
    <3>2. Reads(there, <<Line("z", z)>>, [at |-> "lines", sdp |-> to])
      BY <3>1, ReadsOne
    <3>3. tail = <<Line("z", z)>>
      BY <1>4, <2>2
    <3>4. Reads(there, tail, [at |-> "lines", sdp |-> to])
      BY <3>2, <3>3
    <3>5. PICK L : L = W \cup {Line("z", z)}
      OBVIOUS
    <3>6. head \o text \in Seq(L)
      BY <1>14, <3>5
    <3>7. tail \in Seq(L)
      BY <3>3, <3>5, OneOf
    <3>8. Reads(start, whole, [at |-> "lines", sdp |-> to])
      BY <1>14, <1>15, <3>4, <3>6, <3>7, ReadsOn
    <3>. QED  BY <3>8
  <2>. QED  BY <2>1, <2>2
<1>18. whole = Printed(sdp)
  BY <1>3, <1>4, <1>15 DEF Printed
<1>19. to = WithMedia(sdp, AsRead(sdp.m, mid))
  BY <1>3, <1>10, <1>16 DEF WithMedia
<1>20. BodyIn(sdp, LinesOf(V, K, C, A))
  BY <1>1, <1>3, <1>4, <1>14, <1>15, <1>18 DEF BodyIn
<1>21. WellRead(sdp, mid)
  BY <1>3, <1>5, <1>17, <1>18, <1>19 DEF WellRead
<1>. QED  BY <1>20, <1>21

\* What is read of a text that was not cut.
ParsedWhole(text) == Parsed(text, TRUE)

\* What is printed is read.
LEMMA PrintedRead ==
  ASSUME NEW V, NEW Z, NEW K, NEW M, NEW C, NEW A, NEW mid \in M, RandomMid \in M,
         NEW sdp \in DescriptionsOf(V, SectionsOf(K, M, C, A), Z),
         \A i \in 1..Len(sdp.m) : Marked(sdp.m[i], mid)
  PROVE  ParsedWhole(Printed(sdp)) = WithMedia(sdp, AsRead(sdp.m, mid))
<1>1. BodyIn(sdp, LinesOf(V, K, C, A)) /\ WellRead(sdp, mid)
  BY PrintedReads
<1>2. PICK text, to, at, tail, body :
        /\ body \in Seq(LinesOf(V, K, C, A))
        /\ text = Printed(sdp)
        /\ to = [at |-> at, sdp |-> WithMedia(sdp, AsRead(sdp.m, mid))]
        /\ tail = IF sdp.z = <<>> THEN <<>> ELSE <<Line("z", sdp.z)>>
        /\ text = body \o tail
        /\ Reads(ScanStart, text, to)
  <2>1. PICK body \in Seq(LinesOf(V, K, C, A)) :
          Printed(sdp) = body \o IF sdp.z = <<>> THEN <<>> ELSE <<Line("z", sdp.z)>>
    BY <1>1 DEF BodyIn
  <2>2. PICK at : Reads(ScanStart, Printed(sdp),
                        [at |-> at, sdp |-> WithMedia(sdp, AsRead(sdp.m, mid))])
    BY <1>1 DEF WellRead
  <2>. QED  BY <2>1, <2>2
<1>3. PICK L : L = LinesOf(V, K, C, A) \cup {Line("z", sdp.z)}
  OBVIOUS
<1>4. text \in Seq(L)
  <2>1. body \in Seq(L)
    BY <1>2, <1>3
  <2>2. Line("z", sdp.z) \in L
    BY <1>3
  <2>3. <<>> \in Seq(L) /\ <<Line("z", sdp.z)>> \in Seq(L)
    BY <2>2, OneOf
  <2>4. tail \in Seq(L) /\ text = body \o tail
    BY <1>2, <2>3
  <2>. QED  BY <2>1, <2>4, ConcatProperties
<1>5. Parsed(text, TRUE) = to.sdp
  BY <1>2, <1>4, ReadsIs
<1>. QED  BY <1>2, <1>5 DEF ParsedWhole

-----------------------------------------------------------------------------
(* A description with media that is cut: its beginning is read. *)

\* What has been read of the sections before and after some lines: all sections but the last are whole, and
\* of that one some a= lines may be missing.
Grown(before, after) ==
  /\ Len(before) <= Len(after)
  /\ \A i \in 1..Len(before) :
       /\ after[i].kind = before[i].kind /\ after[i].fmt = before[i].fmt
       /\ Len(before[i].attrs) <= Len(after[i].attrs)
       /\ \A j \in 1..Len(before[i].attrs) : after[i].attrs[j] = before[i].attrs[j]
       /\ i < Len(before) => after[i].attrs = before[i].attrs

\* It is so of a sequence and itself, and of three in a row.
LEMMA GrownSame ==
  ASSUME NEW X, NEW m \in Seq(X), \A i \in 1..Len(m) : Len(m[i].attrs) \in Nat
  PROVE  Grown(m, m)
BY DEF Grown

\* A section has finitely many a= lines.
LEMMA AttrsCounted ==
  ASSUME NEW K, NEW M, NEW C, NEW A, NEW m \in Seq(SectionsOf(K, M, C, A))
  PROVE  \A i \in 1..Len(m) : Len(m[i].attrs) \in Nat
BY DEF SectionsOf

LEMMA GrownOn ==
  ASSUME NEW K, NEW M, NEW C, NEW A,
         NEW p \in Seq(SectionsOf(K, M, C, A)), NEW q \in Seq(SectionsOf(K, M, C, A)),
         NEW r \in Seq(SectionsOf(K, M, C, A)), Grown(p, q), Grown(q, r)
  PROVE  Grown(p, r)
<1>1. /\ Len(p) \in Nat /\ Len(q) \in Nat /\ Len(r) \in Nat
      /\ Len(p) <= Len(q) /\ Len(q) <= Len(r)
  BY DEF Grown
<1>2. /\ \A i \in 1..Len(p) : Len(p[i].attrs) \in Nat
      /\ \A i \in 1..Len(q) : Len(q[i].attrs) \in Nat
      /\ \A i \in 1..Len(r) : Len(r[i].attrs) \in Nat
  BY AttrsCounted
<1>3. ASSUME NEW i \in 1..Len(p)
      PROVE  /\ r[i].kind = p[i].kind /\ r[i].fmt = p[i].fmt
             /\ Len(p[i].attrs) <= Len(r[i].attrs)
             /\ \A j \in 1..Len(p[i].attrs) : r[i].attrs[j] = p[i].attrs[j]
             /\ i < Len(p) => r[i].attrs = p[i].attrs
  <2>1. i \in 1..Len(q) /\ (i < Len(p) => i < Len(q))
    BY <1>1
  <2>2. /\ q[i].kind = p[i].kind /\ q[i].fmt = p[i].fmt
        /\ Len(p[i].attrs) <= Len(q[i].attrs)
        /\ \A j \in 1..Len(p[i].attrs) : q[i].attrs[j] = p[i].attrs[j]
        /\ i < Len(p) => q[i].attrs = p[i].attrs
    BY DEF Grown
  <2>3. /\ r[i].kind = q[i].kind /\ r[i].fmt = q[i].fmt
        /\ Len(q[i].attrs) <= Len(r[i].attrs)
        /\ \A j \in 1..Len(q[i].attrs) : r[i].attrs[j] = q[i].attrs[j]
        /\ i < Len(q) => r[i].attrs = q[i].attrs
    BY <2>1 DEF Grown
  <2>4. Len(p[i].attrs) \in Nat /\ Len(q[i].attrs) \in Nat /\ Len(r[i].attrs) \in Nat
    <3>1. i \in 1..Len(r)
      BY <1>1
    <3>. QED  BY <1>2, <2>1, <3>1
  <2>5. \A j \in 1..Len(p[i].attrs) : j \in 1..Len(q[i].attrs)
    BY <2>2, <2>4
  <2>. QED  BY <2>1, <2>2, <2>3, <2>4, <2>5
<1>. QED  BY <1>1, <1>3 DEF Grown

\* A scan as it is between two lines.
Held(scan, V, S, Z) ==
  /\ scan = [at |-> scan.at, sdp |-> scan.sdp]
  /\ scan.at \in {"lines", "block"}
  /\ scan.sdp \in DescriptionsOf(V, S, Z) /\ scan.sdp.z = <<>>
  /\ scan.at = "block" => Len(scan.sdp.m) > 0

\* The a= lines are of the types that are not skipped, and a MID line holds a mid.
Known(A, M) ==
  \A a \in A : a.type \in {"MID", "RTPMAP", "FMTP"} /\ (a.type = "MID" => a.value \in M)

\* What one line of a description does, other than z=.
ReadOn(scan, line, after, V, S, Z) ==
  /\ Held(after, V, S, Z)
  /\ after.at = "block" <=> line.key \in {"a", "m"}
  /\ Grown(scan.sdp.m, after.sdp.m)
  /\ Len(after.sdp.m) = Len(scan.sdp.m) + IF line.key = "m" THEN 1 ELSE 0

\* A line that ends with '\n'.
Onward(scan, line) == Scanned(scan, line, TRUE)

\* A line of the header, anywhere in the text.
LEMMA FieldAfter ==
  ASSUME NEW V, NEW Z, NEW K, NEW M, NEW C, NEW A,
         NEW scan, Held(scan, V, SectionsOf(K, M, C, A), Z),
         NEW key \in {"v", "o", "s", "t"}, NEW value \in V
  PROVE  ReadOn(scan, Line(key, value), Onward(scan, Line(key, value)),
               V, SectionsOf(K, M, C, A), Z)
<1>1. PICK X, line, sdp, at : /\ X = SectionsOf(K, M, C, A) /\ line = Line(key, value)
                              /\ sdp = scan.sdp /\ at = scan.at
  OBVIOUS
<1>0. PICK after : after = Onward(scan, line)
  OBVIOUS
<1>2. line.key = key /\ line.value = value
  BY <1>1 DEF Line
<1>3. scan = [at |-> at, sdp |-> sdp] /\ at \in {"lines", "block"}
  BY <1>1 DEF Held
<1>4. PICK v, o, s, t, m, z : sdp = [v |-> v, o |-> o, s |-> s, t |-> t, m |-> m, z |-> z]
  BY <1>1 DEF Held, DescriptionsOf
<1>5. /\ v \in V /\ o \in V /\ s \in V /\ t \in V /\ m \in Seq(X) /\ z \in Seq(Z) /\ z = <<>>
      /\ sdp.m = m
  <2>1. /\ sdp.v = v /\ sdp.o = o /\ sdp.s = s /\ sdp.t = t /\ sdp.m = m /\ sdp.z = z
    BY <1>4
  <2>2. sdp \in DescriptionsOf(V, X, Z) /\ sdp.z = <<>>
    BY <1>1 DEF Held
  <2>. QED  BY <2>1, <2>2 DEF DescriptionsOf
<1>6. after = ReadLine(scan, line)
  BY <1>0, <1>2, <1>3 DEF Onward, Scanned, ReadBehindBlock
<1>7. ReadLine(scan, line) = [[scan EXCEPT !.at = "lines"] EXCEPT !.sdp[key] = value]
  <2>1. ReadLine(scan, line) = [scan EXCEPT !.at = "lines", !.sdp[key] = value]
    BY <1>2 DEF ReadLine
  <2>. QED  BY <2>1
<1>8. PICK read : read = [sdp EXCEPT ![key] = value]
  OBVIOUS
<1>9. after = [at |-> "lines", sdp |-> read]
  <2>1. PICK moved : moved = [scan EXCEPT !.at = "lines"]
    OBVIOUS
  <2>2. moved = [at |-> "lines", sdp |-> sdp]
    BY <1>3, <2>1
  <2>3. [moved EXCEPT !.sdp[key] = value] = [at |-> "lines", sdp |-> read]
    BY <1>8, <2>2
  <2>. QED  BY <1>6, <1>7, <2>1, <2>3
<1>10. /\ read.m = m /\ read.z = <<>> /\ read \in DescriptionsOf(V, X, Z)
  <2>1. key = "v" => read = [v |-> value, o |-> o, s |-> s, t |-> t, m |-> m, z |-> z]
    BY <1>4, <1>8
  <2>2. key = "o" => read = [v |-> v, o |-> value, s |-> s, t |-> t, m |-> m, z |-> z]
    BY <1>4, <1>8
  <2>3. key = "s" => read = [v |-> v, o |-> o, s |-> value, t |-> t, m |-> m, z |-> z]
    BY <1>4, <1>8
  <2>4. key = "t" => read = [v |-> v, o |-> o, s |-> s, t |-> value, m |-> m, z |-> z]
    BY <1>4, <1>8
  <2>5. \E a, b, c, d \in V : read = [v |-> a, o |-> b, s |-> c, t |-> d, m |-> m, z |-> z]
    BY <1>5, <2>1, <2>2, <2>3, <2>4
  <2>6. PICK a, b, c, d \in V : read = [v |-> a, o |-> b, s |-> c, t |-> d, m |-> m, z |-> z]
    BY <2>5
  <2>. QED  BY <1>5, <2>6 DEF DescriptionsOf
<1>11. Grown(m, m) /\ Len(m) \in Nat
  <2>1. \A i \in 1..Len(m) : Len(m[i].attrs) \in Nat
    BY <1>1, <1>5, AttrsCounted
  <2>. QED  BY <1>5, <2>1, GrownSame
<1>12. after.at = "lines" /\ after.sdp = read /\ after = [at |-> after.at, sdp |-> after.sdp]
  <2>1. after.at = "lines" /\ after.sdp = read
    BY <1>9
  <2>. QED  BY <1>9, <2>1
<1>13. Held(after, V, X, Z)
  BY <1>10, <1>12 DEF Held
<1>14. ~(line.key \in {"a", "m"}) /\ line.key # "m"
  BY <1>2
<1>15. Len(after.sdp.m) = Len(scan.sdp.m) + IF line.key = "m" THEN 1 ELSE 0
  <2>1. after.sdp.m = m /\ scan.sdp.m = m
    BY <1>1, <1>5, <1>10, <1>12
  <2>. QED  BY <1>11, <1>14, <2>1
<1>16. Grown(scan.sdp.m, after.sdp.m)
  BY <1>1, <1>5, <1>10, <1>11, <1>12
<1>17. ReadOn(scan, line, after, V, X, Z)
  BY <1>12, <1>13, <1>14, <1>15, <1>16 DEF ReadOn
<1>. QED  BY <1>0, <1>1, <1>17

\* A new section, and one more a= line of the last one.
LEMMA GrownAppend ==
  ASSUME NEW K, NEW M, NEW C, NEW A, NEW m \in Seq(SectionsOf(K, M, C, A)),
         NEW x \in SectionsOf(K, M, C, A)
  PROVE  Grown(m, Append(m, x))
<1>1. PICK X, t : X = SectionsOf(K, M, C, A) /\ t = Append(m, x)
  OBVIOUS
<1>2. Len(t) = Len(m) + 1 /\ Len(m) \in Nat /\ \A i \in 1..Len(m) : t[i] = m[i]
  BY <1>1, AppendAll
<1>3. \A i \in 1..Len(m) : Len(m[i].attrs) \in Nat
  BY AttrsCounted
<1>4. Grown(m, t)
  BY <1>2, <1>3 DEF Grown
<1>. QED  BY <1>1, <1>4

LEMMA GrownLast ==
  ASSUME NEW K, NEW M, NEW C, NEW A, NEW m \in Seq(SectionsOf(K, M, C, A)),
         NEW x \in SectionsOf(K, M, C, A), NEW y \in SectionsOf(K, M, C, A),
         NEW attr \in A,
         y.kind = x.kind, y.fmt = x.fmt, y.attrs = Append(x.attrs, attr)
  PROVE  Grown(Append(m, x), Append(m, y))
<1>1. PICK X, t, u : X = SectionsOf(K, M, C, A) /\ t = Append(m, x) /\ u = Append(m, y)
  OBVIOUS
<1>2. PICK n \in Nat : n = Len(m)
  OBVIOUS
<1>3. /\ Len(t) = n + 1 /\ Len(u) = n + 1 /\ t[n + 1] = x /\ u[n + 1] = y
      /\ \A i \in 1..n : t[i] = m[i] /\ u[i] = m[i]
  BY <1>1, <1>2, AppendAll
<1>4. \A i \in 1..n : Len(m[i].attrs) \in Nat
  BY <1>2, AttrsCounted
<1>5. ASSUME NEW i \in 1..(n + 1)
      PROVE  /\ u[i].kind = t[i].kind /\ u[i].fmt = t[i].fmt
             /\ Len(t[i].attrs) <= Len(u[i].attrs)
             /\ \A j \in 1..Len(t[i].attrs) : u[i].attrs[j] = t[i].attrs[j]
             /\ i < n + 1 => u[i].attrs = t[i].attrs
  <2>1. CASE i = n + 1
    <3>1. t[i] = x /\ u[i] = y
      BY <1>3, <2>1
    <3>2. PICK old, new : old = x.attrs /\ new = y.attrs
      OBVIOUS
    <3>3. old \in Seq(A) /\ new = Append(old, attr)
      BY <3>2 DEF SectionsOf
    <3>4. Len(old) <= Len(new) /\ \A j \in 1..Len(old) : new[j] = old[j]
      <4>. HIDE <3>2
      <4>. QED  BY <3>3
    <3>. QED  BY <2>1, <3>1, <3>2, <3>4
  <2>2. CASE i # n + 1
    <3>1. i \in 1..n
      BY <2>2
    <3>2. t[i] = m[i] /\ u[i] = m[i] /\ Len(m[i].attrs) \in Nat
      BY <1>3, <1>4, <3>1
    <3>. QED  BY <3>2
  <2>. QED  BY <2>1, <2>2
<1>6. Grown(t, u)
  BY <1>3, <1>5 DEF Grown
<1>. QED  BY <1>1, <1>6

\* Fields of a description with other sections.
LEMMA WithMediaTyped ==
  ASSUME NEW V, NEW S, NEW Z, NEW sdp \in DescriptionsOf(V, S, Z), NEW m \in Seq(S)
  PROVE  /\ WithMedia(sdp, m) \in DescriptionsOf(V, S, Z)
         /\ WithMedia(sdp, m).m = m /\ WithMedia(sdp, m).z = sdp.z
         /\ sdp = WithMedia(sdp, sdp.m)
         /\ \A other : WithMedia(WithMedia(sdp, m), other) = WithMedia(sdp, other)
<1>1. /\ sdp.v \in V /\ sdp.o \in V /\ sdp.s \in V /\ sdp.t \in V /\ sdp.z \in Seq(Z)
      /\ sdp = [v |-> sdp.v, o |-> sdp.o, s |-> sdp.s, t |-> sdp.t, m |-> sdp.m, z |-> sdp.z]
  BY DEF DescriptionsOf
<1>2. PICK w : w = WithMedia(sdp, m)
  OBVIOUS
<1>3. w = [v |-> sdp.v, o |-> sdp.o, s |-> sdp.s, t |-> sdp.t, m |-> m, z |-> sdp.z]
  BY <1>2 DEF WithMedia
<1>4. w.v = sdp.v /\ w.o = sdp.o /\ w.s = sdp.s /\ w.t = sdp.t /\ w.m = m /\ w.z = sdp.z
  BY <1>3
<1>5. w \in DescriptionsOf(V, S, Z)
  BY <1>1, <1>3 DEF DescriptionsOf
<1>6. sdp = WithMedia(sdp, sdp.m)
  BY <1>1 DEF WithMedia
<1>7. \A other : WithMedia(w, other) = WithMedia(sdp, other)
  BY <1>4 DEF WithMedia
<1>. QED  BY <1>2, <1>4, <1>5, <1>6, <1>7

\* An m= line, in a block or outside.
LEMMA StartAfter ==
  ASSUME NEW V, NEW Z, NEW K, NEW M, NEW C, NEW A, RandomMid \in M,
         NEW scan, Held(scan, V, SectionsOf(K, M, C, A), Z),
         NEW kind \in K, NEW fmt \in Seq(C),
         NEW line, line = Line("m", [kind |-> kind, fmt |-> fmt])
  PROVE  ReadOn(scan, line, Onward(scan, line), V, SectionsOf(K, M, C, A), Z)
<1>1. PICK X, sdp, at, m : /\ X = SectionsOf(K, M, C, A)
                           /\ sdp = scan.sdp /\ at = scan.at /\ m = sdp.m
  OBVIOUS
<1>2. PICK after : after = Onward(scan, line)
  OBVIOUS
<1>3. line.key = "m" /\ line.value = [kind |-> kind, fmt |-> fmt]
  BY DEF Line
<1>4. /\ scan = [at |-> at, sdp |-> sdp] /\ at \in {"lines", "block"}
      /\ sdp \in DescriptionsOf(V, X, Z) /\ sdp.z = <<>> /\ m \in Seq(X)
  BY <1>1 DEF Held, DescriptionsOf
<1>5. PICK section : section = ParsedSection(line.value)
  OBVIOUS
<1>6. section \in X
  <2>1. section = [kind |-> kind, mid |-> RandomMid, fmt |-> fmt, attrs |-> <<>>]
    BY <1>3, <1>5 DEF ParsedSection
  <2>2. <<>> \in Seq(A)
    OBVIOUS
  <2>. QED  BY <1>1, <2>1, <2>2 DEF SectionsOf
<1>7. PICK ms : ms = Append(m, section)
  OBVIOUS
<1>8. ms \in Seq(X) /\ Len(ms) = Len(m) + 1 /\ Len(m) \in Nat
  BY <1>4, <1>6, <1>7, AppendAll
<1>9. after = [at |-> "block", sdp |-> WithMedia(sdp, ms)]
  <2>1. after = ReadLine(scan, line)
    BY <1>2, <1>3, <1>4 DEF Onward, Scanned, ReadBehindBlock
  <2>2. ReadLine(scan, line)
          = [scan EXCEPT !.at = "block", !.sdp.m = Append(@, ParsedSection(line.value))]
    BY <1>3 DEF ReadLine
  <2>3. ReadLine(scan, line) = [scan EXCEPT !.at = "block", !.sdp.m = Append(@, section)]
    BY <1>5, <2>2
  <2>4. scan.sdp.m = m
    BY <1>1
  <2>5. scan = [at |-> at, sdp |-> WithMedia(sdp, sdp.m)]
    <3>1. sdp = WithMedia(sdp, sdp.m)
      BY <1>4, WithMediaTyped
    <3>. QED  BY <1>4, <3>1
  <2>6. MediaSet(scan, "block", ms) = [at |-> "block", sdp |-> WithMedia(sdp, ms)]
    BY <2>5, MediaReplaced
  <2>. QED  BY <1>7, <2>1, <2>3, <2>4, <2>6 DEF MediaSet
<1>10. PICK read : read = WithMedia(sdp, ms)
  OBVIOUS
<1>11. read \in DescriptionsOf(V, X, Z) /\ read.m = ms /\ read.z = <<>>
  BY <1>4, <1>8, <1>10, WithMediaTyped
<1>12. after.at = "block" /\ after.sdp = read /\ after = [at |-> after.at, sdp |-> after.sdp]
  <2>1. after.at = "block" /\ after.sdp = read
    BY <1>9, <1>10
  <2>. QED  BY <1>9, <1>10, <2>1
<1>13. Held(after, V, X, Z)
  <2>1. Len(after.sdp.m) > 0
    BY <1>8, <1>11, <1>12
  <2>. QED  BY <1>11, <1>12, <2>1 DEF Held
<1>14. Grown(scan.sdp.m, after.sdp.m)
  <2>1. Grown(m, ms)
    BY <1>1, <1>4, <1>6, <1>7, GrownAppend
  <2>. QED  BY <1>1, <1>11, <1>12, <2>1
<1>15. Len(after.sdp.m) = Len(scan.sdp.m) + IF line.key = "m" THEN 1 ELSE 0
  BY <1>1, <1>3, <1>8, <1>11, <1>12
<1>16. ReadOn(scan, line, after, V, X, Z)
  BY <1>3, <1>12, <1>13, <1>14, <1>15 DEF ReadOn
<1>. QED  BY <1>1, <1>2, <1>16

\* The last element and those before it.
LEMMA LastOf ==
  ASSUME NEW V, NEW s \in Seq(V), Len(s) > 0
  PROVE  \E front \in Seq(V), last \in V : s = Append(front, last)
<1>1. PICK n \in Nat : n = Len(s)
  OBVIOUS
<1>2. n \in 1..Len(s)
  BY <1>1
<1>3. Append(SubSeq(s, 1, n - 1), s[n]) = SubSeq(s, 1, n)
  BY <1>2, SubSeqGrows
<1>4. SubSeq(s, 1, n) = s
  BY <1>1, SubSeqFull
<1>5. SubSeq(s, 1, n - 1) \in Seq(V) /\ s[n] \in V
  BY <1>2
<1>. QED  BY <1>3, <1>4, <1>5

\* An a= line that is added to a section.
LEMMA AttributeTyped ==
  ASSUME NEW K, NEW M, NEW C, NEW A, Known(A, M), NEW x \in SectionsOf(K, M, C, A), NEW a \in A
  PROVE  /\ WithAttribute(x, a) \in SectionsOf(K, M, C, A)
         /\ WithAttribute(x, a).kind = x.kind /\ WithAttribute(x, a).fmt = x.fmt
         /\ WithAttribute(x, a).attrs = Append(x.attrs, a)
<1>1. /\ x.kind \in K /\ x.mid \in M /\ x.fmt \in Seq(C) /\ x.attrs \in Seq(A)
      /\ x = [kind |-> x.kind, mid |-> x.mid, fmt |-> x.fmt, attrs |-> x.attrs]
  BY DEF SectionsOf
<1>2. a.type \in {"MID", "RTPMAP", "FMTP"} /\ (a.type = "MID" => a.value \in M)
  BY DEF Known
<1>3. PICK mid, attrs : /\ mid = IF a.type = "MID" THEN a.value ELSE x.mid
                        /\ attrs = Append(x.attrs, a)
  OBVIOUS
<1>4. mid \in M /\ attrs \in Seq(A)
  BY <1>1, <1>2, <1>3
<1>5. PICK y : y = WithAttribute(x, a)
  OBVIOUS
<1>6. y = [[x EXCEPT !.attrs = attrs] EXCEPT !.mid = mid]
  BY <1>2, <1>3, <1>5 DEF WithAttribute
<1>7. y = [kind |-> x.kind, mid |-> mid, fmt |-> x.fmt, attrs |-> attrs]
  BY <1>1, <1>6
<1>8. y.kind = x.kind /\ y.fmt = x.fmt /\ y.attrs = attrs
  BY <1>7
<1>9. y \in SectionsOf(K, M, C, A)
  BY <1>1, <1>4, <1>7 DEF SectionsOf
<1>. QED  BY <1>3, <1>5, <1>8, <1>9

\* An a= line that does not stop the scanner: it is in a block.
LEMMA AttributeAfter ==
  ASSUME NEW V, NEW Z, NEW K, NEW M, NEW C, NEW A, Known(A, M),
         NEW scan, Held(scan, V, SectionsOf(K, M, C, A), Z), NEW a \in A,
         Onward(scan, Line("a", a)).at # "stopped"
  PROVE  ReadOn(scan, Line("a", a), Onward(scan, Line("a", a)), V, SectionsOf(K, M, C, A), Z)
<1>1. PICK X, line, sdp, m : /\ X = SectionsOf(K, M, C, A) /\ line = Line("a", a)
                             /\ sdp = scan.sdp /\ m = sdp.m
  OBVIOUS
<1>2. PICK after : after = Onward(scan, line)
  OBVIOUS
<1>3. line.key = "a" /\ line.value = a
  BY <1>1 DEF Line
<1>4. scan.at = "block"
  <2>1. CASE scan.at = "lines"
    <3>1. after = ReadLine(scan, line)
      BY <1>2, <2>1 DEF Onward, Scanned
    <3>2. ReadLine(scan, line) = [scan EXCEPT !.at = "stopped"]
      BY <1>3 DEF ReadLine
    <3>3. [scan EXCEPT !.at = "stopped"].at = "stopped"
      BY DEF Held
    <3>4. after.at # "stopped"
      BY <1>1, <1>2
    <3>. QED  BY <3>1, <3>2, <3>3, <3>4
  <2>. QED  BY <2>1 DEF Held
<1>5. /\ scan = [at |-> "block", sdp |-> sdp]
      /\ sdp \in DescriptionsOf(V, X, Z) /\ sdp.z = <<>> /\ m \in Seq(X) /\ Len(m) > 0
  BY <1>1, <1>4 DEF Held, DescriptionsOf
<1>6. PICK front \in Seq(X), x \in X : m = Append(front, x)
  BY <1>5, LastOf
<1>7. PICK y : y = WithAttribute(x, a)
  OBVIOUS
<1>8. y \in X /\ y.kind = x.kind /\ y.fmt = x.fmt /\ y.attrs = Append(x.attrs, a)
  BY <1>1, <1>7, AttributeTyped
<1>9. PICK before : before = WithMedia(sdp, front)
  OBVIOUS
<1>10. before.m = front /\ \A other : WithMedia(before, other) = WithMedia(sdp, other)
  BY <1>5, <1>9, WithMediaTyped
<1>11. scan = InBlock(before, x)
  <2>1. sdp = WithMedia(sdp, m)
    BY <1>1, <1>5, WithMediaTyped
  <2>. QED  BY <1>5, <1>6, <1>10, <2>1 DEF InBlock
<1>12. after = InBlock(before, y)
  <2>1. before.m \in Seq(X)
    BY <1>10
  <2>2. Scanned(InBlock(before, x), Line("a", a), TRUE) = InBlock(before, y)
    BY <1>7, <1>8, <2>1, AttributeRead
  <2>3. Onward(InBlock(before, x), Line("a", a)) = InBlock(before, y)
    BY <2>2 DEF Onward
  <2>. QED  BY <1>1, <1>2, <1>11, <2>3
<1>13. PICK ms, read : ms = Append(front, y) /\ read = WithMedia(sdp, ms)
  OBVIOUS
<1>14. ms \in Seq(X) /\ Len(ms) = Len(m) /\ Len(ms) > 0 /\ Len(m) \in Nat
  <2>1. ms \in Seq(X) /\ Len(ms) = Len(front) + 1
    BY <1>8, <1>13, AppendAll
  <2>2. Len(m) = Len(front) + 1 /\ Len(front) \in Nat
    BY <1>6, AppendAll
  <2>. QED  BY <2>1, <2>2
<1>15. read \in DescriptionsOf(V, X, Z) /\ read.m = ms /\ read.z = <<>>
  <2>1. ms \in Seq(X)
    BY <1>14
  <2>2. /\ WithMedia(sdp, ms) \in DescriptionsOf(V, X, Z)
        /\ WithMedia(sdp, ms).m = ms /\ WithMedia(sdp, ms).z = sdp.z
    BY <1>5, <2>1, WithMediaTyped
  <2>. QED  BY <1>5, <1>13, <2>2
<1>16. after = [at |-> "block", sdp |-> read]
  BY <1>10, <1>12, <1>13 DEF InBlock
<1>17. after.at = "block" /\ after.sdp = read /\ after = [at |-> after.at, sdp |-> after.sdp]
  <2>1. after.at = "block" /\ after.sdp = read
    BY <1>16
  <2>. QED  BY <1>16, <2>1
<1>18. Held(after, V, X, Z)
  <2>1. Len(after.sdp.m) > 0
    BY <1>14, <1>15, <1>17
  <2>. QED  BY <1>15, <1>17, <2>1 DEF Held
<1>19. Grown(scan.sdp.m, after.sdp.m)
  <2>1. Grown(m, ms)
    BY <1>1, <1>6, <1>8, <1>13, GrownLast
  <2>. QED  BY <1>1, <1>15, <1>17, <2>1
<1>20. Len(after.sdp.m) = Len(scan.sdp.m) + IF line.key = "m" THEN 1 ELSE 0
  <2>1. after.sdp.m = ms /\ scan.sdp.m = m /\ line.key # "m"
    BY <1>1, <1>3, <1>15, <1>17
  <2>. QED  BY <1>14, <2>1
<1>21. ReadOn(scan, line, after, V, X, Z)
  BY <1>3, <1>17, <1>18, <1>19, <1>20 DEF ReadOn
<1>. QED  BY <1>1, <1>2, <1>21

\* Any line of a description but z=.
LEMMA LineAfter ==
  ASSUME NEW V, NEW Z, NEW K, NEW M, NEW C, NEW A, Known(A, M), RandomMid \in M,
         NEW scan, Held(scan, V, SectionsOf(K, M, C, A), Z),
         NEW line \in LinesOf(V, K, C, A), Onward(scan, line).at # "stopped"
  PROVE  ReadOn(scan, line, Onward(scan, line), V, SectionsOf(K, M, C, A), Z)
<1>1. CASE \E kind \in K, fmt \in Seq(C) : line = Line("m", [kind |-> kind, fmt |-> fmt])
  <2>1. PICK kind \in K, fmt \in Seq(C) : line = Line("m", [kind |-> kind, fmt |-> fmt])
    BY <1>1
  <2>. QED  BY <2>1, StartAfter
<1>2. CASE \E a \in A : line = Line("a", a)
  <2>1. PICK a \in A : line = Line("a", a)
    BY <1>2
  <2>2. Onward(scan, Line("a", a)).at # "stopped"
    BY <2>1
  <2>3. ReadOn(scan, Line("a", a), Onward(scan, Line("a", a)), V, SectionsOf(K, M, C, A), Z)
    BY <2>2, AttributeAfter
  <2>. QED  BY <2>1, <2>3
<1>3. CASE \E key \in {"v", "o", "s", "t"}, value \in V : line = Line(key, value)
  <2>1. PICK key \in {"v", "o", "s", "t"}, value \in V : line = Line(key, value)
    BY <1>3
  <2>2. ReadOn(scan, Line(key, value), Onward(scan, Line(key, value)),
              V, SectionsOf(K, M, C, A), Z)
    BY FieldAfter
  <2>. QED  BY <2>1, <2>2
<1>. QED  BY <1>1, <1>2, <1>3 DEF LinesOf

\* A text with a z= line and a run of the scanner over the whole of it.
WholeRun(k, text, n, W, z) ==
  /\ n \in Nat /\ Len(text) = n + 1
  /\ \A i \in 1..n : text[i] \in W
  /\ text[n + 1] = Line("z", z)
  /\ k[0] = ScanStart
  /\ \A i \in 1..(n + 1) : k[i] = Onward(k[i-1], text[i])
  /\ k[n + 1].at = "lines"

\* What a new handler holds is of the types V.
BlankIn(V) == Blank.v \in V /\ Blank.o \in V /\ Blank.s \in V /\ Blank.t \in V

\* It is a scan between two lines.
LEMMA StartHeld ==
  ASSUME NEW V, NEW S, NEW Z, BlankIn(V)
  PROVE  Held(ScanStart, V, S, Z)
<1>1. PICK v, o, s, t : Blank = [v |-> v, o |-> o, s |-> s, t |-> t, m |-> <<>>, z |-> <<>>]
  BY DEF Blank
<1>2. /\ Blank.v = v /\ Blank.o = o /\ Blank.s = s /\ Blank.t = t
      /\ Blank.m = <<>> /\ Blank.z = <<>>
  BY <1>1
<1>3. <<>> \in Seq(S) /\ <<>> \in Seq(Z)
  OBVIOUS
<1>4. Blank \in DescriptionsOf(V, S, Z)
  BY <1>1, <1>2, <1>3 DEF BlankIn, DescriptionsOf
<1>5. PICK blank : blank = Blank
  OBVIOUS
<1>6. ScanStart = [at |-> "lines", sdp |-> blank]
  BY <1>5 DEF ScanStart
<1>7. ScanStart.at = "lines" /\ ScanStart.sdp = blank
  BY <1>6
<1>. QED  BY <1>2, <1>4, <1>5, <1>6, <1>7 DEF Held

\* The scanner never goes on once it has stopped, so it has not.
LEMMA RunGoesOn ==
  ASSUME NEW k, NEW text, NEW n, NEW W, NEW z, WholeRun(k, text, n, W, z)
  PROVE  \A i \in 0..(n + 1) : k[i].at # "stopped"
<1>. DEFINE T == {i \in 0..(n + 1) : k[(n + 1) - i].at # "stopped"}
<1>1. n \in Nat
  BY DEF WholeRun
<1>2. 0 \in T
  BY <1>1 DEF WholeRun
<1>3. ASSUME NEW i \in 0..((n + 1) - 1), i \in T  PROVE i + 1 \in T
  <2>1. /\ (n + 1) - i \in 1..(n + 1) /\ (n + 1) - (i + 1) = ((n + 1) - i) - 1
        /\ i + 1 \in 0..(n + 1)
    BY <1>1
  <2>2. PICK j \in 1..(n + 1) : j = (n + 1) - i
    BY <2>1
  <2>3. k[j] = Onward(k[j-1], text[j]) /\ k[j].at # "stopped"
    BY <1>3, <2>2 DEF WholeRun
  <2>4. k[j-1].at # "stopped"
    BY <2>3 DEF Onward, Scanned
  <2>. QED  BY <2>1, <2>2, <2>4
<1>4. 0..(n + 1) \subseteq T
  <2>. HIDE DEF T
  <2>1. n + 1 \in Nat
    BY <1>1
  <2>. QED  BY <1>2, <1>3, <2>1, UpTo
<1>5. \A i \in 0..(n + 1) : (n + 1) - i \in 0..(n + 1) /\ (n + 1) - ((n + 1) - i) = i
  BY <1>1
<1>. QED  BY <1>4, <1>5

\* Before the z= line there is one scan after the other as LineAfter says.
LEMMA RunAfter ==
  ASSUME NEW V, NEW Z, NEW K, NEW M, NEW C, NEW A, Known(A, M), RandomMid \in M, BlankIn(V),
         NEW k, NEW text, NEW n, NEW z, WholeRun(k, text, n, LinesOf(V, K, C, A), z)
  PROVE  /\ \A i \in 0..n : Held(k[i], V, SectionsOf(K, M, C, A), Z)
         /\ \A i \in 1..n : ReadOn(k[i-1], text[i], k[i], V, SectionsOf(K, M, C, A), Z)
<1>. DEFINE X == SectionsOf(K, M, C, A)
            T == {i \in 0..n : Held(k[i], V, X, Z)}
<1>1. n \in Nat
  BY DEF WholeRun
<1>2. ASSUME NEW i \in 1..n, Held(k[i-1], V, X, Z)  PROVE ReadOn(k[i-1], text[i], k[i], V, X, Z)
  <2>1. i \in 1..(n + 1) /\ i \in 0..(n + 1)
    BY <1>1
  <2>2. /\ text[i] \in LinesOf(V, K, C, A)
        /\ k[i] = Onward(k[i-1], text[i])
    BY <2>1 DEF WholeRun
  <2>3. k[i].at # "stopped"
    BY <2>1, RunGoesOn
  <2>4. PICK before, line : before = k[i-1] /\ line = text[i]
    OBVIOUS
  <2>5. Onward(before, line).at # "stopped" /\ Held(before, V, X, Z)
    BY <1>2, <2>2, <2>3, <2>4
  <2>6. line \in LinesOf(V, K, C, A)
    BY <2>2, <2>4
  <2>7. ReadOn(before, line, Onward(before, line), V, X, Z)
    BY <2>5, <2>6, LineAfter
  <2>. QED  BY <2>2, <2>4, <2>7
<1>3. 0 \in T
  <2>1. Held(ScanStart, V, X, Z)
    BY StartHeld
  <2>2. k[0] = ScanStart
    BY DEF WholeRun
  <2>. QED  BY <1>1, <2>1, <2>2
<1>4. ASSUME NEW i \in 0..(n-1), i \in T  PROVE i + 1 \in T
  <2>1. PICK j \in 1..n : j = i + 1 /\ j - 1 = i
    BY <1>1
  <2>2. ReadOn(k[j-1], text[j], k[j], V, X, Z)
    BY <1>2, <1>4, <2>1
  <2>. QED  BY <2>1, <2>2 DEF ReadOn
<1>5. 0..n \subseteq T
  <2>. HIDE DEF T
  <2>. QED  BY <1>1, <1>3, <1>4, UpTo
<1>6. \A i \in 0..n : Held(k[i], V, X, Z)
  BY <1>5
<1>7. ASSUME NEW i \in 1..n  PROVE ReadOn(k[i-1], text[i], k[i], V, X, Z)
  <2>1. i - 1 \in 0..n
    BY <1>1
  <2>. QED  BY <1>2, <1>6, <2>1
<1>. QED  BY <1>6, <1>7

\* The z= line leaves the sections as they are.
LEMMA ItemsAfter ==
  ASSUME NEW V, NEW S, NEW Z, NEW scan, Held(scan, V, S, Z), NEW z
  PROVE  Onward(scan, Line("z", z)).sdp.m = scan.sdp.m
<1>1. PICK line, sdp, at, after : /\ line = Line("z", z) /\ sdp = scan.sdp /\ at = scan.at
                                  /\ after = Onward(scan, line)
  OBVIOUS
<1>2. line.key = "z" /\ line.value = z
  BY <1>1 DEF Line
<1>3. scan = [at |-> at, sdp |-> sdp] /\ at \in {"lines", "block"}
  BY <1>1 DEF Held
<1>4. PICK v, o, s, t, m, old :
        sdp = [v |-> v, o |-> o, s |-> s, t |-> t, m |-> m, z |-> old]
  BY <1>1 DEF Held, DescriptionsOf
<1>5. after = ReadLine(scan, line)
  BY <1>1, <1>2, <1>3 DEF Onward, Scanned, ReadBehindBlock
<1>6. PICK new : new = scan.sdp.z \o line.value
  OBVIOUS
<1>7. ReadLine(scan, line) = [[scan EXCEPT !.at = "lines"] EXCEPT !.sdp.z = new]
  <2>1. ReadLine(scan, line) = [scan EXCEPT !.at = "lines", !.sdp.z = @ \o line.value]
    BY <1>2 DEF ReadLine
  <2>2. [scan EXCEPT !.at = "lines", !.sdp.z = @ \o line.value]
          = [scan EXCEPT !.at = "lines", !.sdp.z = new]
    BY <1>6
  <2>. QED  BY <2>1, <2>2
<1>8. PICK moved, read : /\ moved = [scan EXCEPT !.at = "lines"]
                         /\ read = [sdp EXCEPT !.z = new]
  OBVIOUS
<1>9. moved = [at |-> "lines", sdp |-> sdp]
  BY <1>3, <1>8
<1>10. after = [at |-> "lines", sdp |-> read]
  <2>1. read = [sdp EXCEPT !.z = new]
    BY <1>8
  <2>2. [moved EXCEPT !.sdp.z = new] = [at |-> "lines", sdp |-> [sdp EXCEPT !.z = new]]
    BY <1>9
  <2>3. [moved EXCEPT !.sdp.z = new] = [at |-> "lines", sdp |-> read]
    BY <2>1, <2>2
  <2>. QED  BY <1>5, <1>7, <1>8, <2>3
<1>11. read.m = m /\ sdp.m = m
  BY <1>4, <1>8
<1>12. after.sdp = read
  BY <1>10
<1>. QED  BY <1>1, <1>11, <1>12

\* So the run has its last sections before it.
LEMMA RunEnds ==
  ASSUME NEW V, NEW Z, NEW K, NEW M, NEW C, NEW A, Known(A, M), RandomMid \in M, BlankIn(V),
         NEW k, NEW text, NEW n, NEW z, WholeRun(k, text, n, LinesOf(V, K, C, A), z)
  PROVE  k[n + 1].sdp.m = k[n].sdp.m
<1>1. n \in Nat /\ n \in 0..n /\ n + 1 \in 1..(n + 1) /\ (n + 1) - 1 = n
  BY DEF WholeRun
<1>2. PICK line : line = Line("z", z)
  OBVIOUS
<1>3. k[n + 1] = Onward(k[n], line)
  BY <1>1, <1>2 DEF WholeRun
<1>4. Held(k[n], V, SectionsOf(K, M, C, A), {})
  BY <1>1, RunAfter
<1>5. Onward(k[n], line).sdp.m = k[n].sdp.m
  BY <1>2, <1>4, ItemsAfter
<1>. QED  BY <1>3, <1>5

\* Nothing that has been read of the sections is changed later.
LEMMA RunGrown ==
  ASSUME NEW V, NEW Z, NEW K, NEW M, NEW C, NEW A, Known(A, M), RandomMid \in M, BlankIn(V),
         NEW k, NEW text, NEW n, NEW z, WholeRun(k, text, n, LinesOf(V, K, C, A), z)
  PROVE  \A i \in 0..(n + 1) : Grown(k[i].sdp.m, k[n + 1].sdp.m)
<1>. DEFINE X == SectionsOf(K, M, C, A)
            T == {i \in 0..n : Grown(k[n - i].sdp.m, k[n].sdp.m)}
<1>1. n \in Nat
  BY DEF WholeRun
<1>2. \A i \in 0..n : k[i].sdp.m \in Seq(X)
  <2>1. \A i \in 0..n : Held(k[i], V, X, Z)
    BY RunAfter
  <2>. HIDE DEF X
  <2>. QED  BY <2>1 DEF Held, DescriptionsOf
<1>3. \A i \in 0..n : Grown(k[i].sdp.m, k[i].sdp.m)
  <2>. SUFFICES ASSUME NEW i \in 0..n  PROVE Grown(k[i].sdp.m, k[i].sdp.m)
    OBVIOUS
  <2>1. PICK m \in Seq(X) : m = k[i].sdp.m
    BY <1>2
  <2>2. \A j \in 1..Len(m) : Len(m[j].attrs) \in Nat
    BY AttrsCounted
  <2>3. Grown(m, m)
    BY <2>2, GrownSame
  <2>. QED  BY <2>1, <2>3
<1>4. 0 \in T
  BY <1>1, <1>3
<1>5. ASSUME NEW i \in 0..(n-1), i \in T  PROVE i + 1 \in T
  <2>1. PICK j \in 1..n : j = n - i /\ j - 1 = n - (i + 1) /\ j \in 0..n /\ j - 1 \in 0..n
    BY <1>1
  <2>2. ReadOn(k[j-1], text[j], k[j], V, X, Z)
    BY RunAfter
  <2>3. Grown(k[j-1].sdp.m, k[j].sdp.m)
    BY <2>2 DEF ReadOn
  <2>4. Grown(k[j].sdp.m, k[n].sdp.m)
    BY <1>5, <2>1
  <2>5. k[j-1].sdp.m \in Seq(X) /\ k[j].sdp.m \in Seq(X) /\ k[n].sdp.m \in Seq(X)
    BY <1>1, <1>2, <2>1
  <2>6. Grown(k[j-1].sdp.m, k[n].sdp.m)
    BY <2>3, <2>4, <2>5, GrownOn
  <2>7. i + 1 \in 0..n
    BY <1>1
  <2>. QED  BY <2>1, <2>6, <2>7
<1>6. 0..n \subseteq T
  <2>. HIDE DEF T
  <2>. QED  BY <1>1, <1>4, <1>5, UpTo
<1>7. \A i \in 0..n : Grown(k[i].sdp.m, k[n].sdp.m)
  <2>1. \A i \in 0..n : n - i \in 0..n /\ n - (n - i) = i
    BY <1>1
  <2>. QED  BY <1>6, <2>1
<1>8. k[n + 1].sdp.m = k[n].sdp.m
  BY RunEnds
<1>9. \A i \in 0..(n + 1) : i \in 0..n \/ i = n + 1
  BY <1>1
<1>10. n \in 0..n
  BY <1>1
<1>. QED  BY <1>7, <1>8, <1>9, <1>10

\* How many sections the first lines of a text start.
Started(text, i) == Cardinality({j \in 1..i : text[j].key = "m"})

\* One line further.
LEMMA StartedNext ==
  ASSUME NEW text, NEW i \in Nat \ {0}
  PROVE  /\ Started(text, i - 1) \in Nat
         /\ Started(text, i) = Started(text, i - 1) + IF text[i].key = "m" THEN 1 ELSE 0
<1>1. PICK S, T : /\ S = {j \in 1..(i - 1) : text[j].key = "m"}
                  /\ T = {j \in 1..i : text[j].key = "m"}
  OBVIOUS
<1>2. IsFiniteSet(S)
  <2>1. IsFiniteSet(1..(i - 1))
    BY FS_Interval
  <2>. QED  BY <1>1, <2>1, FS_Subset
<1>3. 1..i = 1..(i - 1) \cup {i} /\ i \notin 1..(i - 1)
  OBVIOUS
<1>4. Cardinality(S) \in Nat
  BY <1>2, FS_CardinalityType
<1>5. Started(text, i - 1) = Cardinality(S) /\ Started(text, i) = Cardinality(T)
  BY <1>1 DEF Started
<1>6. CASE text[i].key = "m"
  <2>1. T = S \cup {i} /\ i \notin S
    BY <1>1, <1>3, <1>6
  <2>2. Cardinality(T) = Cardinality(S) + 1
    BY <1>2, <2>1, FS_AddElement
  <2>. QED  BY <1>6, <1>4, <1>5, <2>2
<1>7. CASE text[i].key # "m"
  <2>1. T = S
    BY <1>1, <1>3, <1>7
  <2>. QED  BY <1>7, <1>4, <1>5, <2>1
<1>. QED  BY <1>6, <1>7

\* A scan holds as many sections as m= lines have been read.
LEMMA RunCounts ==
  ASSUME NEW V, NEW Z, NEW K, NEW M, NEW C, NEW A, Known(A, M), RandomMid \in M, BlankIn(V),
         NEW k, NEW text, NEW n, NEW z, WholeRun(k, text, n, LinesOf(V, K, C, A), z)
  PROVE  \A i \in 0..(n + 1) : Len(k[i].sdp.m) = Started(text, i)
<1>. DEFINE X == SectionsOf(K, M, C, A)
            T == {i \in 0..n : Len(k[i].sdp.m) = Started(text, i)}
<1>1. n \in Nat
  BY DEF WholeRun
<1>2. 0 \in T
  <2>1. ScanStart.sdp.m = <<>>
    BY DEF ScanStart, Blank
  <2>2. k[0] = ScanStart
    BY DEF WholeRun
  <2>3. {j \in 1..0 : text[j].key = "m"} = {}
    OBVIOUS
  <2>4. Started(text, 0) = 0
    BY <2>3, FS_EmptySet DEF Started
  <2>5. Len(k[0].sdp.m) = 0
    BY <2>1, <2>2
  <2>. QED  BY <1>1, <2>4, <2>5
<1>3. ASSUME NEW i \in 0..(n-1), i \in T  PROVE i + 1 \in T
  <2>1. PICK j \in 1..n : j = i + 1 /\ j - 1 = i /\ j \in Nat \ {0} /\ j \in 0..n
    BY <1>1
  <2>2. ReadOn(k[j-1], text[j], k[j], V, X, Z)
    BY RunAfter
  <2>3. Len(k[j].sdp.m) = Len(k[j-1].sdp.m) + IF text[j].key = "m" THEN 1 ELSE 0
    BY <2>2 DEF ReadOn
  <2>4. Len(k[j-1].sdp.m) = Started(text, j - 1)
    BY <1>3, <2>1
  <2>5. Started(text, j) = Started(text, j - 1) + IF text[j].key = "m" THEN 1 ELSE 0
    BY <2>1, StartedNext
  <2>6. Len(k[j].sdp.m) = Started(text, j)
    BY <2>3, <2>4, <2>5
  <2>. QED  BY <2>1, <2>6
<1>4. 0..n \subseteq T
  <2>. HIDE DEF T
  <2>. QED  BY <1>1, <1>2, <1>3, UpTo
<1>5. Len(k[n + 1].sdp.m) = Started(text, n + 1)
  <2>1. Len(k[n].sdp.m) = Started(text, n)
    BY <1>1, <1>4
  <2>2. PICK j \in Nat \ {0} : j = n + 1 /\ j - 1 = n
    BY <1>1
  <2>3. text[j].key # "m"
    <3>1. text[j] = Line("z", z)
      BY <2>2 DEF WholeRun
    <3>. QED  BY <3>1 DEF Line
  <2>4. Started(text, j - 1) \in Nat /\ Started(text, j) = Started(text, j - 1) + 0
    BY <2>3, StartedNext
  <2>5. k[n + 1].sdp.m = k[n].sdp.m
    BY RunEnds
  <2>6. Started(text, j) = Started(text, j - 1)
    BY <2>4
  <2>. QED  BY <2>1, <2>2, <2>5, <2>6
<1>6. \A i \in 0..(n + 1) : i \in 0..n \/ i = n + 1
  BY <1>1
<1>. QED  BY <1>4, <1>5, <1>6

\* A scan is in a media block behind the lines of one.
LEMMA RunAt ==
  ASSUME NEW V, NEW Z, NEW K, NEW M, NEW C, NEW A, Known(A, M), RandomMid \in M, BlankIn(V),
         NEW k, NEW text, NEW n, NEW z, WholeRun(k, text, n, LinesOf(V, K, C, A), z),
         NEW i \in 0..n
  PROVE  k[i].at = "block" <=> (i > 0 /\ text[i].key \in {"a", "m"})
<1>1. n \in Nat
  BY DEF WholeRun
<1>2. CASE i = 0
  <2>1. k[0] = ScanStart /\ ScanStart.at = "lines"
    BY DEF WholeRun, ScanStart
  <2>. QED  BY <1>2, <2>1
<1>3. CASE i # 0
  <2>1. i \in 1..n /\ i > 0
    BY <1>1, <1>3
  <2>2. ReadOn(k[i-1], text[i], k[i], V, SectionsOf(K, M, C, A), Z)
    BY <2>1, RunAfter
  <2>3. k[i].at = "block" <=> text[i].key \in {"a", "m"}
    BY <2>2 DEF ReadOn
  <2>. QED  BY <2>1, <2>3
<1>. QED  BY <1>2, <1>3

\* The last line that has arrived, with its '\n' or without.
LEMMA LastScanned ==
  ASSUME NEW V, NEW S, NEW Z, NEW scan, Held(scan, V, S, Z), NEW line, NEW ended \in BOOLEAN
  PROVE  Scanned(scan, line, ended).sdp =
           IF ~ended /\ scan.at = "block" /\ line.key # "a" THEN scan.sdp
           ELSE Onward(scan, line).sdp
<1>1. scan.at \in {"lines", "block"} /\ scan = [at |-> scan.at, sdp |-> scan.sdp]
  BY DEF Held
<1>2. CASE ended
  <2>1. ended = TRUE
    BY <1>2
  <2>. QED  BY <1>2, <2>1 DEF Onward
<1>3. CASE scan.at = "lines"
  BY <1>3 DEF Onward, Scanned
<1>4. CASE scan.at = "block" /\ line.key = "a"
  BY <1>4 DEF Onward, Scanned
<1>5. CASE ~ended /\ scan.at = "block" /\ line.key # "a"
  <2>1. Scanned(scan, line, ended) = [scan EXCEPT !.at = "stopped"]
    BY <1>5 DEF Scanned, ReadBehindBlock
  <2>2. [scan EXCEPT !.at = "stopped"].sdp = scan.sdp
    BY <1>1
  <2>. QED  BY <1>5, <2>1, <2>2
<1>. QED  BY <1>1, <1>2, <1>3, <1>4, <1>5

\* What is read of the first c lines of a text, the last with its '\n' or without.
LEMMA CutScanned ==
  ASSUME NEW L, NEW text \in Seq(L), NEW W, NEW k, NEW n, NEW z, WholeRun(k, text, n, W, z),
         NEW c \in 1..(n + 1), NEW ended \in BOOLEAN
  PROVE  Parsed(FirstLines(text, c), ended) = Scanned(k[c-1], text[c], ended).sdp
<1>1. n \in Nat /\ Len(text) = n + 1 /\ c \in Nat /\ c <= Len(text)
  BY DEF WholeRun
<1>2. PICK part : part = FirstLines(text, c)
  OBVIOUS
<1>3. part \in Seq(L) /\ Len(part) = c /\ \A i \in 1..c : part[i] = text[i]
  BY <1>1, <1>2 DEF FirstLines
<1>4. PICK last : last = Scanned(k[c-1], text[c], ended)
  OBVIOUS
<1>5. PICK g : g = [i \in 0..c |-> IF i < c THEN k[i] ELSE last]
  OBVIOUS
<1>6. /\ g = [i \in 0..c |-> g[i]] /\ g[c] = last
      /\ \A i \in 0..c : i < c => g[i] = k[i]
  BY <1>1, <1>5
<1>7. g[0] = ScanStart
  <2>1. 0 \in 0..c /\ 0 < c
    BY <1>1
  <2>. QED  BY <1>6, <2>1 DEF WholeRun
<1>8. ASSUME NEW i \in 1..c
      PROVE  g[i] = Scanned(g[i-1], part[i], ended \/ i < c)
  <2>1. i - 1 \in 0..c /\ i - 1 < c /\ i \in 1..(n + 1) /\ i \in 0..c
    BY <1>1
  <2>2. g[i-1] = k[i-1] /\ part[i] = text[i]
    BY <1>3, <1>6, <2>1
  <2>3. CASE i < c
    <3>1. (ended \/ i < c) = TRUE
      BY <2>3
    <3>2. k[i] = Scanned(k[i-1], text[i], TRUE)
      BY <2>1 DEF WholeRun, Onward
    <3>3. g[i] = k[i]
      BY <1>6, <2>1, <2>3
    <3>. QED  BY <2>2, <3>1, <3>2, <3>3
  <2>4. CASE ~(i < c)
    <3>1. i = c
      BY <1>1, <2>4
    <3>2. (ended \/ i < c) = ended
      BY <2>4
    <3>3. g[i] = last
      BY <1>6, <3>1
    <3>. QED  BY <1>4, <2>2, <3>1, <3>2, <3>3
  <2>. QED  BY <2>3, <2>4
<1>9. ScanRun(g, part, ended)
  BY <1>3, <1>7, <1>8 DEF ScanRun
<1>10. Parsed(part, ended) = g[Len(part)].sdp
  BY <1>1, <1>3, <1>6, <1>9, ParsedIs
<1>. QED  BY <1>2, <1>3, <1>4, <1>6, <1>10

\* How many of the first c lines are read: not the line behind a media block if its
\* '\n' has not arrived.
ReadLines(text, c, ended) ==
  IF ~ended /\ c > 1 /\ text[c].key # "a" /\ text[c-1].key \in {"a", "m"}
  THEN c - 1 ELSE c

\* What is read of a text that is cut is what had been read behind those lines.
LEMMA CutRead ==
  ASSUME NEW V, NEW Z, NEW K, NEW M, NEW C, NEW A, Known(A, M), RandomMid \in M, BlankIn(V),
         NEW L, NEW text \in Seq(L), NEW k, NEW n, NEW z,
         WholeRun(k, text, n, LinesOf(V, K, C, A), z),
         NEW c \in 1..(n + 1), NEW ended \in BOOLEAN
  PROVE  /\ ReadLines(text, c, ended) \in 1..(n + 1)
         /\ Parsed(FirstLines(text, c), ended) = k[ReadLines(text, c, ended)].sdp
<1>1. n \in Nat /\ c \in Nat /\ c - 1 \in 0..n
  BY DEF WholeRun
<1>2. PICK W, scan, line : W = LinesOf(V, K, C, A) /\ scan = k[c-1] /\ line = text[c]
  OBVIOUS
<1>3. Parsed(FirstLines(text, c), ended) = Scanned(scan, line, ended).sdp
  <2>1. WholeRun(k, text, n, W, z)
    BY <1>2
  <2>2. Parsed(FirstLines(text, c), ended) = Scanned(k[c-1], text[c], ended).sdp
    BY <2>1, CutScanned
  <2>. QED  BY <1>2, <2>2
<1>4. Held(scan, V, SectionsOf(K, M, C, A), Z)
  BY <1>1, <1>2, RunAfter
<1>5. Scanned(scan, line, ended).sdp =
        IF ~ended /\ scan.at = "block" /\ line.key # "a" THEN scan.sdp ELSE Onward(scan, line).sdp
  BY <1>4, LastScanned
<1>6. Onward(scan, line) = k[c]
  BY <1>2 DEF WholeRun
<1>7. scan.at = "block" <=> (c - 1 > 0 /\ text[c-1].key \in {"a", "m"})
  BY <1>1, <1>2, RunAt
<1>8. c - 1 > 0 <=> c > 1
  BY <1>1
<1>9. CASE ~ended /\ c > 1 /\ text[c].key # "a" /\ text[c-1].key \in {"a", "m"}
  <2>1. ReadLines(text, c, ended) = c - 1
    BY <1>9 DEF ReadLines
  <2>2. scan.at = "block" /\ line.key # "a"
    BY <1>2, <1>7, <1>8, <1>9
  <2>3. Scanned(scan, line, ended).sdp = scan.sdp
    BY <1>5, <1>9, <2>2
  <2>4. c - 1 \in 1..(n + 1)
    BY <1>1, <1>9
  <2>. QED  BY <1>2, <1>3, <2>1, <2>3, <2>4
<1>10. CASE ~(~ended /\ c > 1 /\ text[c].key # "a" /\ text[c-1].key \in {"a", "m"})
  <2>1. ReadLines(text, c, ended) = c
    BY <1>10 DEF ReadLines
  <2>2. ~(~ended /\ scan.at = "block" /\ line.key # "a")
    BY <1>2, <1>7, <1>8, <1>10
  <2>3. Scanned(scan, line, ended).sdp = Onward(scan, line).sdp
    BY <1>5, <2>2
  <2>. QED  BY <1>3, <1>6, <2>1, <2>3
<1>. QED  BY <1>9, <1>10

\* Of the text that whole was read from, sdp was read of the lines read: every
\* section in them, each but the last whole.
CutWell(sdp, read, whole, S) ==
  /\ sdp.m \in Seq(S)
  /\ Len(sdp.m) = Cardinality({i \in DOMAIN read : read[i].key = "m"})
  /\ Grown(sdp.m, whole.m)
  /\ sdp.z = IF Last(read).key = "z" THEN whole.z ELSE <<>>

\* What is read of a text that is cut.
LEMMA CutKept ==
  ASSUME NEW V, NEW Z, NEW K, NEW M, NEW C, NEW A, Known(A, M), RandomMid \in M, BlankIn(V),
         NEW L, NEW text \in Seq(L), NEW k, NEW n, NEW z,
         WholeRun(k, text, n, LinesOf(V, K, C, A), z),
         NEW c \in 1..(n + 1), NEW ended \in BOOLEAN
  PROVE  CutWell(Parsed(FirstLines(text, c), ended),
                 FirstLines(text, ReadLines(text, c, ended)),
                 k[n + 1].sdp, SectionsOf(K, M, C, A))
<1>1. PICK sdp, read, whole : /\ sdp = Parsed(FirstLines(text, c), ended)
                              /\ read = FirstLines(text, ReadLines(text, c, ended))
                              /\ whole = k[n + 1].sdp
  OBVIOUS
<1>2. n \in Nat /\ Len(text) = n + 1
  BY DEF WholeRun
<1>3. PICK r \in 1..(n + 1) : r = ReadLines(text, c, ended) /\ sdp = k[r].sdp
  BY <1>1, CutRead
<1>4. r \in Nat /\ r <= Len(text) /\ r \in 0..(n + 1)
  BY <1>2
<1>5. Len(read) = r /\ DOMAIN read = 1..r /\ \A i \in 1..r : read[i] = text[i]
  <2>1. PICK part : part = FirstLines(text, r)
    OBVIOUS
  <2>2. part \in Seq(L) /\ Len(part) = r /\ \A i \in 1..r : part[i] = text[i]
    BY <1>4, <2>1 DEF FirstLines
  <2>3. DOMAIN part = 1..r
    BY <2>2
  <2>4. read = part
    BY <1>1, <1>3, <2>1
  <2>. QED  BY <2>2, <2>3, <2>4
<1>6. Len(sdp.m) = Cardinality({i \in DOMAIN read : read[i].key = "m"})
  <2>1. Len(k[r].sdp.m) = Started(text, r)
    BY <1>4, RunCounts
  <2>2. {i \in DOMAIN read : read[i].key = "m"} = {i \in 1..r : text[i].key = "m"}
    BY <1>5
  <2>. QED  BY <1>3, <2>1, <2>2 DEF Started
<1>7. Grown(sdp.m, whole.m)
  <2>1. Grown(k[r].sdp.m, k[n + 1].sdp.m)
    BY <1>4, RunGrown
  <2>. QED  BY <1>1, <1>3, <2>1
<1>8. Last(read) = text[r]
  <2>1. r \in 1..r
    BY <1>4
  <2>. QED  BY <1>5, <2>1 DEF Last
<1>9. ASSUME r = n + 1  PROVE CutWell(sdp, read, whole, SectionsOf(K, M, C, A))
  <2>1. text[r].key = "z"
    <3>1. text[r] = Line("z", z)
      BY <1>9 DEF WholeRun
    <3>. QED  BY <3>1 DEF Line
  <2>2. sdp.z = whole.z
    BY <1>1, <1>3, <1>9
  <2>3. sdp.m \in Seq(SectionsOf(K, M, C, A))
    <3>1. Held(k[n], V, SectionsOf(K, M, C, A), Z)
      <4>1. n \in 0..n
        BY <1>2
      <4>. QED  BY <4>1, RunAfter
    <3>2. k[n + 1].sdp.m = k[n].sdp.m
      BY RunEnds
    <3>3. k[n].sdp.m \in Seq(SectionsOf(K, M, C, A))
      BY <3>1 DEF Held, DescriptionsOf
    <3>. QED  BY <1>3, <1>9, <3>2, <3>3
  <2>. QED  BY <1>6, <1>7, <1>8, <2>1, <2>2, <2>3 DEF CutWell
<1>10. ASSUME r # n + 1  PROVE CutWell(sdp, read, whole, SectionsOf(K, M, C, A))
  <2>1. r \in 1..n /\ r \in 0..n
    BY <1>2, <1>10
  <2>2. Held(k[r], V, SectionsOf(K, M, C, A), Z)
    BY <2>1, RunAfter
  <2>3. k[r].sdp.z = <<>> /\ k[r].sdp.m \in Seq(SectionsOf(K, M, C, A))
    BY <2>2 DEF Held, DescriptionsOf
  <2>4. text[r].key # "z"
    <3>1. text[r] \in LinesOf(V, K, C, A)
      BY <2>1 DEF WholeRun
    <3>. QED  BY <3>1 DEF LinesOf, Line
  <2>. QED  BY <1>3, <1>6, <1>7, <1>8, <2>3, <2>4 DEF CutWell
<1>11. CutWell(sdp, read, whole, SectionsOf(K, M, C, A))
  BY <1>9, <1>10
<1>. QED  BY <1>1, <1>11

\* There is a run of the scanner over what is printed of sdp, in lines of W and the
\* z= line, that ends with whole.
RunOver(sdp, W, whole) ==
  \E L, k, n : /\ Printed(sdp) \in Seq(L)
               /\ WholeRun(k, Printed(sdp), n, W, sdp.z)
               /\ k[n + 1].sdp = whole

\* The run of the scanner over what is printed.
LEMMA PrintedRun ==
  ASSUME NEW V, NEW Z, NEW K, NEW M, NEW C, NEW A, NEW mid \in M, RandomMid \in M,
         NEW sdp \in DescriptionsOf(V, SectionsOf(K, M, C, A), Z), sdp.z # <<>>,
         \A i \in 1..Len(sdp.m) : Marked(sdp.m[i], mid)
  PROVE  RunOver(sdp, LinesOf(V, K, C, A), WithMedia(sdp, AsRead(sdp.m, mid)))
<1>1. BodyIn(sdp, LinesOf(V, K, C, A)) /\ WellRead(sdp, mid)
  BY PrintedReads
<1>2. PICK W, text, z, end : /\ W = LinesOf(V, K, C, A) /\ text = Printed(sdp) /\ z = sdp.z
                             /\ end = WithMedia(sdp, AsRead(sdp.m, mid))
  OBVIOUS
<1>3. PICK body \in Seq(W) : text = body \o <<Line("z", z)>>
  BY <1>1, <1>2 DEF BodyIn
<1>4. Reads(ScanStart, text, [at |-> "lines", sdp |-> end])
  BY <1>1, <1>2 DEF WellRead
<1>5. PICK n \in Nat : n = Len(body)
  OBVIOUS
<1>6. PICK L : L = W \cup {Line("z", z)}
  OBVIOUS
<1>7. /\ text \in Seq(L) /\ Len(text) = n + 1 /\ text[n + 1] = Line("z", z)
      /\ \A i \in 1..n : text[i] = body[i]
  <2>1. body \in Seq(L)
    BY <1>6
  <2>2. PICK line \in L : line = Line("z", z)
    BY <1>6
  <2>3. text = Append(body, line)
    BY <1>3, <2>1, <2>2, AppendIsConcat
  <2>. QED  BY <1>5, <2>1, <2>2, <2>3, AppendAll
<1>8. \A i \in 1..n : text[i] \in W
  BY <1>5, <1>7
<1>9. PICK k : Reading(k, text) /\ k[0] = ScanStart /\ k[Len(text)] = [at |-> "lines", sdp |-> end]
  BY <1>4 DEF Reads
<1>10. k[n + 1] = [at |-> "lines", sdp |-> end]
  BY <1>7, <1>9
<1>11. k[n + 1].at = "lines" /\ k[n + 1].sdp = end
  BY <1>10
<1>12. \A i \in 1..(n + 1) : k[i] = Onward(k[i-1], text[i])
  BY <1>7, <1>9 DEF Reading, Onward
<1>13. WholeRun(k, text, n, W, z)
  BY <1>7, <1>8, <1>9, <1>11, <1>12 DEF WholeRun
<1>14. RunOver(sdp, W, end)
  BY <1>2, <1>7, <1>11, <1>13 DEF RunOver
<1>. QED  BY <1>2, <1>14

-----------------------------------------------------------------------------
(* What is true between two steps of a negotiation. *)

Sides == {"local", "remote"}

\* Whatever mid_ a negotiation sets, the MID line is the one of the section's
\* own side.
AttributesOf(side) == {a \in Attributes : a.type = "MID" => a = MidAttr(side)}

\* A section is one of the types its proofs are about, and balanced.
Section(side) == SectionsOf(Kinds, Sides, Codecs, AttributesOf(side))

Sound(media, side) ==
  /\ media \in Section(side) /\ Len(media.fmt) <= MaxFormats
  /\ Balanced(media, Codecs, AttributesOf(side))

SoundDescription(d, side) ==
  /\ d \in [v : {0, 1}, t : Sides, m : Seq(Section(side))]
  /\ \A i \in 1..Len(d.m) : Sound(d.m[i], side)

Sounds ==
  /\ SoundDescription(local, "local") /\ SoundDescription(remote, "remote")
  /\ Len(remote.m) <= Lines
  /\ next \in 1..(Lines + 1)
  /\ pc \in {"build", "negotiate", "accepted", "refused"}
  /\ copy = NoCopy \/ SoundDescription(copy, "local")
  /\ pc # "build" => SoundDescription(copy, "local")

\* A section that can take the offered one.
Takes(media, offered) ==
  /\ media.kind = offered.kind
  /\ Range(media.fmt) \cap Range(offered.fmt) # {}

\* What has been negotiated so far, compared with the copy.
Progress ==
  pc \in {"negotiate", "accepted"} =>
    /\ copy.v = remote.v
    /\ Len(copy.m) = Len(local.m)
    /\ \A i \in 1..Len(local.m) :
         /\ local.m[i].kind = copy.m[i].kind
         /\ Range(local.m[i].fmt) \subseteq Range(copy.m[i].fmt)
    /\ next <= Len(remote.m) + 1
    /\ \A j \in 1..(next - 1) : \E i \in 1..Len(copy.m) : Takes(copy.m[i], remote.m[j])
    /\ pc = "accepted" => next = Len(remote.m) + 1
    /\ Len(local.m) = 1 /\ Len(remote.m) = 1 =>
         local.m[1] = IF next = 1 THEN copy.m[1] ELSE Negotiated(copy.m[1], remote.m[1])

IInv == Sounds /\ Progress

-----------------------------------------------------------------------------
(* Descriptions. *)

LEMMA TwoSides == "local" \in Sides /\ "remote" \in Sides
BY DEF Sides

LEMMA SeqOfIs ==
  ASSUME NEW S, NEW n \in Nat, NEW s
  PROVE  s \in SeqOf(S, n) <=> s \in Seq(S) /\ Len(s) <= n
<1>1. ASSUME s \in SeqOf(S, n)  PROVE s \in Seq(S) /\ Len(s) <= n
  <2>1. PICK m \in 0..n : s \in [1..m -> S]
    BY <1>1 DEF SeqOf
  <2>. QED  BY <2>1
<1>2. ASSUME s \in Seq(S), Len(s) <= n  PROVE s \in SeqOf(S, n)
  <2>1. Len(s) \in 0..n /\ s \in [1..Len(s) -> S]
    BY <1>2
  <2>. QED  BY <2>1 DEF SeqOf
<1>. QED  BY <1>1, <1>2

\* A codec that is listed has a rate, and its arguments are none or a value that
\* is written.
LEMMA SoundRated ==
  ASSUME NEW side \in Sides, NEW media, Sound(media, side), NEW other
  PROVE  Rated(media, AttributesOf(other))
<1>1. media.fmt \in Seq(Codecs) /\ media.attrs \in Seq(AttributesOf(side))
  BY DEF Sound, Section, SectionsOf
<1>. SUFFICES ASSUME NEW c \in Range(media.fmt)
              PROVE  Writable(c, GetFormat(media, c), AttributesOf(other))
  BY DEF Rated
<1>2. c \in Codecs
  BY <1>1 DEF Range
<1>3. PICK rate, args : /\ rate = LastValue(media.attrs, "RTPMAP", c, NoRate)
                        /\ args = LastValue(media.attrs, "FMTP", c, NoArgs)
  OBVIOUS
<1>4. GetFormat(media, c).rate = rate /\ GetFormat(media, c).args = args
  BY <1>3 DEF GetFormat
<1>5. CodecAttr("RTPMAP", c, rate) \in AttributesOf(other)
  <2>1. Occurrences(media.fmt, {c}) # 0
    <3>1. Range(media.fmt) \cap {c} # {}
      OBVIOUS
    <3>. QED  BY <1>1, <3>1, OccurrencesNone
  <2>2. Occurrences(media.attrs, MapsOf(c, AttributesOf(side))) # 0
    BY <1>2, <2>1 DEF Sound, Balanced
  <2>3. PICK a \in Range(media.attrs) : a \in MapsOf(c, AttributesOf(side))
    BY <1>1, <2>2, OccurrencesNone
  <2>4. PICK i \in 1..Len(media.attrs) : Matches(media.attrs[i], "RTPMAP", c)
    BY <1>1, <2>3 DEF MapsOf, Range
  <2>5. PICK j \in 1..Len(media.attrs) :
          Matches(media.attrs[j], "RTPMAP", c) /\ rate = media.attrs[j].value
    BY <1>1, <1>3, <2>4, LastTyped
  <2>6. PICK x \in AttributesOf(side) : x = media.attrs[j]
    BY <1>1
  <2>7. x.type = "RTPMAP" /\ x.codec = c /\ x.value = rate
    BY <2>5, <2>6 DEF Matches
  <2>8. x \in [type : {"RTPMAP"}, codec : Codecs, value : {1, 2}]
    BY <2>6, <2>7 DEF AttributesOf, Attributes, MidAttr
  <2>9. rate \in {1, 2}
    BY <2>7, <2>8
  <2>. QED  BY <1>2, <2>9 DEF CodecAttr, AttributesOf, Attributes
<1>6. args # NoArgs => CodecAttr("FMTP", c, args) \in AttributesOf(other)
  <2>. SUFFICES ASSUME args # NoArgs  PROVE CodecAttr("FMTP", c, args) \in AttributesOf(other)
    OBVIOUS
  <2>4. PICK i \in 1..Len(media.attrs) : Matches(media.attrs[i], "FMTP", c)
    BY <1>1, <1>3, LastTyped
  <2>5. PICK j \in 1..Len(media.attrs) :
          Matches(media.attrs[j], "FMTP", c) /\ args = media.attrs[j].value
    BY <1>1, <1>3, <2>4, LastTyped
  <2>6. PICK x \in AttributesOf(side) : x = media.attrs[j]
    BY <1>1
  <2>7. x.type = "FMTP" /\ x.codec = c /\ x.value = args
    BY <2>5, <2>6 DEF Matches
  <2>8. x \in [type : {"FMTP"}, codec : Codecs, value : (LocalArgs \cup RemoteArgs) \ {NoArgs}]
    BY <2>6, <2>7 DEF AttributesOf, Attributes, MidAttr
  <2>9. args \in (LocalArgs \cup RemoteArgs) \ {NoArgs}
    BY <2>7, <2>8
  <2>. QED  BY <1>2, <2>9 DEF CodecAttr, AttributesOf, Attributes
<1>. QED  BY <1>4, <1>5, <1>6 DEF Writable

\* A new section in the place of one.
LEMMA Replaced ==
  ASSUME NEW side \in Sides, NEW d, SoundDescription(d, side), NEW i \in 1..Len(d.m), NEW new, Sound(new, side),
         NEW e, e = [d EXCEPT !.m[i] = new]
  PROVE  /\ SoundDescription(e, side) /\ e.v = d.v /\ e.t = d.t
         /\ Len(e.m) = Len(d.m) /\ e.m[i] = new
         /\ \A j \in 1..Len(d.m) : j # i => e.m[j] = d.m[j]
<1>1. d \in [v : {0, 1}, t : Sides, m : Seq(Section(side))]
  BY DEF SoundDescription
<1>2. new \in Section(side)
  BY DEF Sound
<1>3. PICK m : m = [d.m EXCEPT ![i] = new]
  OBVIOUS
<1>4. /\ m \in Seq(Section(side)) /\ Len(m) = Len(d.m) /\ m[i] = new
      /\ \A j \in 1..Len(d.m) : j # i => m[j] = d.m[j]
  BY <1>1, <1>2, <1>3
<1>5. e = [v |-> d.v, t |-> d.t, m |-> m]
  BY <1>1, <1>3
<1>6. e.v = d.v /\ e.t = d.t /\ e.m = m
  BY <1>5
<1>7. e \in [v : {0, 1}, t : Sides, m : Seq(Section(side))]
  <2>1. d.v \in {0, 1} /\ d.t \in Sides
    BY <1>1
  <2>2. [v |-> d.v, t |-> d.t, m |-> m] \in [v : {0, 1}, t : Sides, m : Seq(Section(side))]
    BY <1>4, <2>1
  <2>. QED  BY <1>5, <2>2
<1>8. \A j \in 1..Len(e.m) : Sound(e.m[j], side)
  <2>. SUFFICES ASSUME NEW j \in 1..Len(d.m)  PROVE Sound(m[j], side)
    BY <1>4, <1>6
  <2>1. CASE j = i
    BY <1>4, <2>1
  <2>2. CASE j # i
    BY <1>4, <2>2 DEF SoundDescription
  <2>. QED  BY <2>1, <2>2
<1>. QED  BY <1>4, <1>6, <1>7, <1>8 DEF SoundDescription

\* No section lists more formats than the description.
LEMMA TotalBounds ==
  ASSUME NEW side \in Sides, NEW d, SoundDescription(d, side)
  PROVE  Total(d) \in Nat /\ \A i \in 1..Len(d.m) : Len(d.m[i].fmt) <= Total(d)
<1>. DEFINE n == Len(d.m)
            Step(i, before) == before + Len(d.m[i].fmt)
            Steps(h) == [i \in 0..n |-> IF i = 0 THEN 0 ELSE Step(i, h[i-1])]
<1>1. n \in Nat /\ \A i \in 1..n : Len(d.m[i].fmt) \in Nat
  <2>1. d.m \in Seq(Section(side))
    BY DEF SoundDescription
  <2>2. \A i \in 1..n : d.m[i] \in Section(side)
    BY <2>1
  <2>3. \A media \in Section(side) : Len(media.fmt) \in Nat
    BY DEF Section, SectionsOf
  <2>. QED  BY <2>1, <2>2, <2>3
<1>. HIDE DEF n
<1>2. PICK F : F = [p \in (1..n) \X Nat |-> Step(p[1], p[2])]
  OBVIOUS
<1>3. F \in [(1..n) \X Nat -> Nat]
  <2>1. ASSUME NEW i \in 1..n, NEW before \in Nat  PROVE Step(i, before) \in Nat
    BY <1>1
  <2>. HIDE DEF Step
  <2>2. ASSUME NEW p \in (1..n) \X Nat  PROVE Step(p[1], p[2]) \in Nat
    BY <2>1
  <2>. QED  BY <1>2, <2>2
<1>4. PICK g \in [0..n -> Nat] : Runs(g, n, 0, F)
  BY <1>1, <1>3, RunExists
<1>5. \A i \in 1..n : g[i] = Step(i, g[i-1])
  <2>. SUFFICES ASSUME NEW i \in 1..n  PROVE g[i] = Step(i, g[i-1])
    OBVIOUS
  <2>1. i - 1 \in 0..n /\ g[i - 1] \in Nat
    BY <1>1
  <2>2. g[i] = F[<<i, g[i-1]>>] /\ <<i, g[i-1]>> \in (1..n) \X Nat
    BY <1>4, <2>1 DEF Runs
  <2>. HIDE DEF Step
  <2>. QED  BY <1>2, <2>2
<1>6. g = Steps(g)
  <2>1. \A i \in 0..n : g[i] = Steps(g)[i]
    <3>1. \A i \in 0..n : i = 0 \/ i \in 1..n
      BY <1>1
    <3>. HIDE DEF Step
    <3>. QED  BY <1>4, <1>5, <3>1 DEF Runs
  <2>2. g = [i \in 0..n |-> g[i]]
    OBVIOUS
  <2>. HIDE DEF Step, Steps
  <2>. QED  BY <2>1, <2>2 DEF Steps
<1>7. PICK k : k = CHOOSE h : h = Steps(h)
  OBVIOUS
<1>8. Total(d) = k[n]
  BY <1>7 DEF Total, n
<1>9. k = Steps(k)
  <2>. HIDE DEF Steps
  <2>. QED  BY <1>6, <1>7
<1>10. k[0] = 0 /\ \A i \in 1..n : k[i] = k[i-1] + Len(d.m[i].fmt)
  <2>1. 0 \in 0..n /\ \A i \in 1..n : i \in 0..n /\ i # 0
    BY <1>1
  <2>. QED  BY <1>9, <2>1
<1>. DEFINE T == {i \in 0..n : k[i] \in Nat /\ \A j \in 1..i : Len(d.m[j].fmt) <= k[i]}
<1>11. 0 \in T
  BY <1>1, <1>10
<1>12. ASSUME NEW i \in 0..(n-1), i \in T  PROVE i + 1 \in T
  <2>1. i + 1 \in 1..n /\ i + 1 \in 0..n /\ (i + 1) - 1 = i /\ k[i] \in Nat
    BY <1>1, <1>12
  <2>2. k[i + 1] = k[i] + Len(d.m[i + 1].fmt) /\ Len(d.m[i + 1].fmt) \in Nat
    BY <1>1, <1>10, <2>1
  <2>3. ASSUME NEW j \in 1..(i+1)  PROVE Len(d.m[j].fmt) <= k[i + 1]
    <3>1. CASE j = i + 1
      BY <2>1, <2>2, <3>1
    <3>2. CASE j \in 1..i
      <4>1. Len(d.m[j].fmt) <= k[i] /\ Len(d.m[j].fmt) \in Nat
        BY <1>1, <1>12, <2>1, <3>2
      <4>2. \A x, y, z \in Nat : x <= y => x <= y + z
        OBVIOUS
      <4>. QED  BY <2>1, <2>2, <4>1, <4>2
    <3>3. j = i + 1 \/ j \in 1..i
      BY <1>1
    <3>. QED  BY <3>1, <3>2, <3>3
  <2>4. k[i + 1] \in Nat
    BY <2>1, <2>2
  <2>. QED  BY <2>1, <2>3, <2>4
<1>. HIDE DEF T
<1>13. n \in T
  <2>1. 0..n \subseteq T
    BY <1>1, <1>11, <1>12, UpTo
  <2>. QED  BY <1>1, <2>1
<1>. QED  BY <1>8, <1>13 DEF T, n

\* AddFormat, RemoveFormat and SetFormat on a section.
LEMMA AddSound ==
  ASSUME NEW side \in Sides, NEW media, Sound(media, side), Len(media.fmt) < MaxFormats, NEW codec \in Codecs,
         NEW rate \in {1, 2}, NEW args, args \subseteq LocalArgs \cup RemoteArgs,
         NEW format \in Formats(rate, args)
  PROVE  Sound(AddFormat(media, codec, format), side)
<1>1. format.rate = rate /\ format.args \in LocalArgs \cup RemoteArgs
  BY DEF Formats
<1>2. Writable(codec, format, AttributesOf(side))
  BY <1>1 DEF Writable, CodecAttr, AttributesOf, Attributes
<1>3. PICK r : r = AddFormat(media, codec, format)
  OBVIOUS
<1>4. media \in Section(side)
  BY DEF Sound
<1>5. r \in Section(side) /\ Added(r, media, codec, format)
  BY <1>2, <1>3, <1>4, AddFormatIs DEF Section
<1>6. Balanced(r, Codecs, AttributesOf(side))
  BY <1>2, <1>3, <1>4, AddFormatBalanced DEF Section, Sound
<1>7. Len(r.fmt) <= MaxFormats
  <2>1. media.fmt \in Seq(Codecs)
    BY <1>4 DEF Section, SectionsOf
  <2>2. Len(r.fmt) = Len(media.fmt) + 1
    BY <1>5, <2>1, AppendAll DEF Added
  <2>. QED  BY <2>1, <2>2, BoundsOK
<1>. QED  BY <1>3, <1>5, <1>6, <1>7 DEF Sound

LEMMA RemoveSound ==
  ASSUME NEW side \in Sides, NEW media, Sound(media, side), NEW codec
  PROVE  Sound(RemoveFormat(media, codec), side)
<1>1. PICK r : r = RemoveFormat(media, codec)
  OBVIOUS
<1>2. r \in Section(side) /\ Removed(r, media, codec)
  BY <1>1, RemoveFormatIs DEF Section, Sound
<1>3. Balanced(r, Codecs, AttributesOf(side))
  BY <1>1, RemoveFormatBalanced DEF Section, Sound
<1>4. Len(r.fmt) \in Nat /\ Len(media.fmt) \in Nat
  BY <1>2 DEF Sound, Section, SectionsOf
<1>5. Len(r.fmt) <= MaxFormats
  <2>1. Len(r.fmt) <= Len(media.fmt) /\ Len(media.fmt) <= MaxFormats
    BY <1>2 DEF Removed, Sound
  <2>. QED  BY <1>4, <2>1, BoundsOK
<1>. QED  BY <1>1, <1>2, <1>3, <1>5 DEF Sound

LEMMA SetSound ==
  ASSUME NEW side \in Sides, NEW media, Sound(media, side), NEW codec \in Codecs, codec \in Range(media.fmt),
         NEW rate \in {1, 2}, NEW args, args \subseteq LocalArgs \cup RemoteArgs,
         NEW format \in Formats(rate, args)
  PROVE  Sound(SetFormat(media, codec, format), side)
<1>1. PICK m : m = RemoveFormat(media, codec)
  OBVIOUS
<1>2. Sound(m, side)
  BY <1>1, RemoveSound
<1>3. Len(m.fmt) < MaxFormats
  <2>1. Removed(m, media, codec)
    BY <1>1, RemoveFormatIs DEF Section, Sound
  <2>2. Len(m.fmt) < Len(media.fmt) /\ Len(media.fmt) <= MaxFormats
    BY <2>1 DEF Removed, Sound
  <2>3. Len(m.fmt) \in Nat /\ Len(media.fmt) \in Nat
    BY <1>2 DEF Sound, Section, SectionsOf
  <2>. QED  BY <2>2, <2>3, BoundsOK
<1>4. Sound(AddFormat(m, codec, format), side)
  BY <1>2, <1>3, AddSound
<1>. QED  BY <1>1, <1>4 DEF SetFormat

\* Negotiation() on two sections.
LEMMA NegotiatedSound ==
  ASSUME NEW side \in Sides, NEW media, Sound(media, side),
         NEW other \in Sides, NEW offered, Sound(offered, other)
  PROVE  /\ Sound(Negotiated(media, offered), side)
         /\ Agreed(Negotiated(media, offered), media, offered)
<1>1. PICK r : r = Negotiated(media, offered)
  OBVIOUS
<1>2. media \in Section(side) /\ offered \in Section(other) /\ Rated(offered, AttributesOf(side))
  BY SoundRated DEF Sound
<1>3. /\ r \in Section(side) /\ Agreed(r, media, offered)
      /\ Balanced(media, Codecs, AttributesOf(side)) => Balanced(r, Codecs, AttributesOf(side))
  BY <1>1, <1>2, NegotiatedIs DEF Section
<1>4. Len(r.fmt) \in Nat /\ Len(media.fmt) \in Nat
  BY <1>2, <1>3 DEF Section, SectionsOf
<1>5. Len(r.fmt) <= MaxFormats
  <2>1. Len(r.fmt) <= Len(media.fmt) /\ Len(media.fmt) <= MaxFormats
    BY <1>3 DEF Agreed, Sound
  <2>. QED  BY <1>4, <2>1, BoundsOK
<1>. QED  BY <1>1, <1>3, <1>5 DEF Sound

-----------------------------------------------------------------------------
(* The invariant. *)

LEMMA NewSound ==
  ASSUME NEW kind \in Kinds, NEW side \in Sides
  PROVE  Sound(NewMedia(kind, side), side)
<1>1. PICK r : r = NewMedia(kind, side)
  OBVIOUS
<1>2. /\ r = [kind |-> kind, mid |-> side, fmt |-> <<>>, attrs |-> <<MidAttr(side)>>]
      /\ MidAttr(side) \in AttributesOf(side) /\ <<>> \in Seq(Codecs)
  BY <1>1 DEF NewMedia, Attributes, AttributesOf, Sides
<1>3. <<MidAttr(side)>> \in Seq(AttributesOf(side))
  BY <1>2
<1>4. r.fmt = <<>> /\ r.attrs = <<MidAttr(side)>>
  BY <1>2
<1>5. r \in Section(side)
  BY <1>2, <1>3 DEF Section, SectionsOf
<1>6. ASSUME NEW c \in Codecs
      PROVE  Occurrences(r.fmt, {c}) = Occurrences(r.attrs, MapsOf(c, AttributesOf(side)))
  <2>1. Range(r.fmt) \cap {c} = {}
    BY <1>4 DEF Range
  <2>2. Range(r.attrs) \cap MapsOf(c, AttributesOf(side)) = {}
    <3>1. Range(<<MidAttr(side)>>) = {MidAttr(side)}
      BY DEF Range
    <3>2. MidAttr(side).type = "MID"
      BY DEF MidAttr
    <3>. QED  BY <1>4, <3>1, <3>2 DEF MapsOf, Matches
  <2>3. r.fmt \in Seq(Codecs) /\ r.attrs \in Seq(AttributesOf(side))
    BY <1>2, <1>3, <1>4
  <2>4. Occurrences(r.fmt, {c}) = 0
    BY <2>1, <2>3, OccurrencesNone
  <2>5. Occurrences(r.attrs, MapsOf(c, AttributesOf(side))) = 0
    BY <2>2, <2>3, OccurrencesNone
  <2>. QED  BY <2>4, <2>5
<1>7. Len(r.fmt) <= MaxFormats
  BY <1>4, BoundsOK
<1>8. Occurrences(r.attrs, MidsOf(AttributesOf(side))) = 1
  <2>1. PICK A, mid : A = AttributesOf(side) /\ mid = MidAttr(side) /\ mid \in A
    BY <1>2
  <2>2. mid \in MidsOf(A)
    BY <2>1 DEF MidsOf, MidAttr
  <2>3. PICK none \in Seq(A) : none = <<>>
    <3>1. <<>> \in Seq(A)
      OBVIOUS
    <3>. QED  BY <3>1
  <2>4. Append(none, mid) = <<mid>> /\ Range(none) \cap MidsOf(A) = {}
    BY <2>3 DEF Range
  <2>5. Occurrences(none, MidsOf(A)) = 0
    BY <2>4, OccurrencesNone
  <2>6. Occurrences(Append(none, mid), MidsOf(A)) = Occurrences(none, MidsOf(A)) + 1
    BY <2>1, <2>2, OccurrencesAppend
  <2>. QED  BY <1>4, <2>1, <2>4, <2>5, <2>6
<1>. QED  BY <1>1, <1>5, <1>6, <1>7, <1>8 DEF Sound, Balanced

LEMMA InitSounds == Init => IInv
<1>. SUFFICES ASSUME Init  PROVE IInv
  OBVIOUS
<1>1. ASSUME NEW d, NEW side \in Sides,
             d \in [v : {0, 1}, t : {side}, m : Sections(side)]
      PROVE  SoundDescription(d, side) /\ Len(d.m) <= Lines
  <2>1. PICK S : S = {NewMedia(kind, side) : kind \in Kinds}
    OBVIOUS
  <2>2. d.m \in Seq(S) /\ Len(d.m) <= Lines
    <3>1. d.m \in SeqOf(S, Lines)
      BY <1>1, <2>1 DEF Sections
    <3>. QED  BY <3>1, SeqOfIs, BoundsOK
  <2>3. \A media \in S : Sound(media, side)
    BY <2>1, NewSound
  <2>4. S \subseteq Section(side)
    BY <2>3 DEF Sound
  <2>5. d.m \in Seq(Section(side))
    BY <2>2, <2>4
  <2>6. d \in [v : {0, 1}, t : Sides, m : Seq(Section(side))]
    BY <1>1, <2>5
  <2>7. \A i \in 1..Len(d.m) : Sound(d.m[i], side)
    BY <2>2, <2>3
  <2>. QED  BY <2>2, <2>6, <2>7 DEF SoundDescription
<1>2. SoundDescription(local, "local")
  <2>1. local \in [v : {0, 1}, t : {"local"}, m : Sections("local")]
    BY DEF Init
  <2>. QED  BY <1>1, <2>1, TwoSides
<1>3. SoundDescription(remote, "remote") /\ Len(remote.m) <= Lines
  <2>1. remote \in [v : {0, 1}, t : {"remote"}, m : Sections("remote")]
    BY DEF Init
  <2>. QED  BY <1>1, <2>1, TwoSides
<1>4. copy = NoCopy /\ next \in 1..(Lines + 1) /\ pc = "build"
  BY BoundsOK DEF Init
<1>. QED  BY <1>2, <1>3, <1>4 DEF IInv, Sounds, Progress

\* The application's changes keep a description sound.
LEMMA AddToSound ==
  ASSUME NEW side \in Sides, NEW d, SoundDescription(d, side), Total(d) < MaxFormats, NEW i \in 1..Len(d.m),
         NEW codec \in Codecs, NEW rate \in {1, 2},
         NEW args, args \subseteq LocalArgs \cup RemoteArgs, NEW format \in Formats(rate, args),
         NEW e, e = [d EXCEPT !.m[i] = AddFormat(@, codec, format)]
  PROVE  SoundDescription(e, side) /\ Len(e.m) = Len(d.m)
<1>1. PICK new : new = AddFormat(d.m[i], codec, format)
  OBVIOUS
<1>2. Sound(d.m[i], side)
  BY DEF SoundDescription
<1>3. Len(d.m[i].fmt) < MaxFormats
  <2>1. Len(d.m[i].fmt) <= Total(d) /\ Total(d) \in Nat
    BY TotalBounds
  <2>2. Len(d.m[i].fmt) \in Nat
    BY <1>2 DEF Sound, Section, SectionsOf
  <2>. QED  BY <2>1, <2>2, BoundsOK
<1>4. Sound(new, side)
  BY <1>1, <1>2, <1>3, AddSound
<1>5. e = [d EXCEPT !.m[i] = new]
  BY <1>1
<1>. QED  BY <1>4, <1>5, Replaced

LEMMA StepSounds == IInv /\ [Next]_vars => IInv'
<1>. SUFFICES ASSUME IInv, [Next]_vars  PROVE IInv'
  OBVIOUS
<1>1. Sounds /\ Progress
  BY DEF IInv
<1>2. /\ SoundDescription(local, "local") /\ SoundDescription(remote, "remote")
      /\ local.m \in Seq(Section("local")) /\ remote.m \in Seq(Section("remote"))
      /\ DOMAIN local.m = 1..Len(local.m) /\ DOMAIN remote.m = 1..Len(remote.m)
      /\ Len(local.m) \in Nat /\ Len(remote.m) \in Nat
      /\ Len(remote.m) <= Lines /\ next \in 1..(Lines + 1)
  BY <1>1 DEF Sounds, SoundDescription
<1>3. ASSUME NEW i \in DOMAIN local.m, AddLocal(i)  PROVE IInv'
  <2>1. /\ pc = "build" /\ Total(local) < MaxFormats
        /\ UNCHANGED <<remote, copy, next, pc>>
    BY <1>3 DEF AddLocal
  <2>2. PICK codec \in Codecs, format \in Formats(1, LocalArgs) :
          local' = [local EXCEPT !.m[i] = AddFormat(@, codec, format)]
    BY <1>3 DEF AddLocal
  <2>3. SoundDescription(local', "local")
    BY <1>2, <2>1, <2>2, AddToSound, TwoSides
  <2>. QED  BY <1>1, <2>1, <2>3 DEF IInv, Sounds, Progress
<1>4. ASSUME NEW i \in DOMAIN local.m, RemoveLocal(i)  PROVE IInv'
  <2>1. pc = "build" /\ UNCHANGED <<remote, copy, next, pc>>
    BY <1>4 DEF RemoveLocal
  <2>2. PICK codec \in Codecs : local' = [local EXCEPT !.m[i] = RemoveFormat(@, codec)]
    BY <1>4 DEF RemoveLocal
  <2>3. PICK new : new = RemoveFormat(local.m[i], codec)
    OBVIOUS
  <2>4. Sound(new, "local")
    BY <1>2, <2>3, RemoveSound, TwoSides DEF SoundDescription
  <2>5. local' = [local EXCEPT !.m[i] = new]
    BY <2>2, <2>3
  <2>6. SoundDescription(local', "local")
    BY <1>2, <2>4, <2>5, Replaced, TwoSides
  <2>. QED  BY <1>1, <2>1, <2>6 DEF IInv, Sounds, Progress
<1>5. ASSUME NEW i \in DOMAIN local.m, SetLocal(i)  PROVE IInv'
  <2>1. pc = "build" /\ UNCHANGED <<remote, copy, next, pc>>
    BY <1>5 DEF SetLocal
  <2>2. PICK codec \in Codecs, format \in Formats(1, LocalArgs) :
          /\ Contains(local.m[i].fmt, codec)
          /\ local' = [local EXCEPT !.m[i] = SetFormat(@, codec, format)]
    BY <1>5 DEF SetLocal
  <2>3. PICK new : new = SetFormat(local.m[i], codec, format)
    OBVIOUS
  <2>4. Sound(new, "local")
    <3>1. Sound(local.m[i], "local")
      BY <1>2 DEF SoundDescription
    <3>2. codec \in Range(local.m[i].fmt)
      <4>1. local.m[i].fmt \in Seq(Codecs)
        BY <3>1 DEF Sound, Section, SectionsOf
      <4>. QED  BY <2>2, <4>1 DEF Contains, Range
    <3>. QED  BY <2>3, <3>1, <3>2, SetSound, TwoSides
  <2>5. local' = [local EXCEPT !.m[i] = new]
    BY <2>2, <2>3
  <2>6. SoundDescription(local', "local")
    BY <1>2, <2>4, <2>5, Replaced, TwoSides
  <2>. QED  BY <1>1, <2>1, <2>6 DEF IInv, Sounds, Progress
<1>6. ASSUME NEW i \in DOMAIN remote.m, AddRemote(i)  PROVE IInv'
  <2>1. /\ pc = "build" /\ Total(remote) < MaxFormats
        /\ UNCHANGED <<local, copy, next, pc>>
    BY <1>6 DEF AddRemote
  <2>2. PICK codec \in Codecs, format \in Formats(2, RemoteArgs) :
          remote' = [remote EXCEPT !.m[i] = AddFormat(@, codec, format)]
    BY <1>6 DEF AddRemote
  <2>3. SoundDescription(remote', "remote") /\ Len(remote'.m) = Len(remote.m)
    BY <1>2, <2>1, <2>2, AddToSound, TwoSides
  <2>. QED  BY <1>1, <2>1, <2>3 DEF IInv, Sounds, Progress
<1>7. CASE Begin
  <2>1. /\ copy' = local /\ next' = 1 /\ remote' = remote
        /\ \/ local.v = remote.v /\ local' = [local EXCEPT !.t = remote.t] /\ pc' = "negotiate"
           \/ local' = local /\ pc' = "refused"
    BY <1>7 DEF Begin
  <2>2. SoundDescription(local', "local") /\ local'.m = local.m
    <3>1. CASE local' = local
      BY <1>2, <3>1
    <3>2. CASE local' = [local EXCEPT !.t = remote.t]
      <4>1. /\ local \in [v : {0, 1}, t : Sides, m : Seq(Section("local"))]
            /\ remote.t \in Sides
        BY <1>2 DEF SoundDescription
      <4>2. local' = [v |-> local.v, t |-> remote.t, m |-> local.m]
        BY <3>2, <4>1
      <4>3. local'.m = local.m
        BY <4>2
      <4>4. local' \in [v : {0, 1}, t : Sides, m : Seq(Section("local"))]
        BY <4>1, <4>2
      <4>. QED  BY <1>2, <4>3, <4>4 DEF SoundDescription
    <3>. QED  BY <2>1, <3>1, <3>2
  <2>3. Sounds'
    <3>1. SoundDescription(copy', "local") /\ SoundDescription(remote', "remote") /\ Len(remote'.m) <= Lines
      BY <1>2, <2>1
    <3>2. next' \in 1..(Lines + 1)
      BY <2>1, BoundsOK
    <3>3. pc' \in {"build", "negotiate", "accepted", "refused"}
      BY <2>1
    <3>. QED  BY <2>2, <3>1, <3>2, <3>3 DEF Sounds
  <2>4. Progress'
    <3>1. 1 <= Len(remote.m) + 1 /\ 1..(1 - 1) = {}
      BY <1>2
    <3>. QED  BY <1>2, <2>1, <2>2, <3>1 DEF Progress
  <2>. QED  BY <2>3, <2>4 DEF IInv
<1>8. CASE NegotiateSection
  <2>1. /\ pc = "negotiate" /\ next <= Len(remote.m) /\ Takers # {}
        /\ next' = next + 1 /\ remote' = remote /\ copy' = copy /\ pc' = pc
    BY <1>8 DEF NegotiateSection
  <2>2. PICK i \in Takers : local' = [local EXCEPT !.m[i] = Negotiated(@, remote.m[next])]
    <3>1. PICK i : i = CHOOSE j \in Takers : \A k \in Takers : j <= k
      OBVIOUS
    <3>2. \E j \in Takers : \A k \in Takers : j <= k
      <4>1. Takers \in SUBSET Nat
        BY <1>2 DEF Takers
      <4>. QED  BY <2>1, <4>1, LowestNat
    <3>3. i \in Takers
      BY <3>1, <3>2
    <3>. QED  BY <1>8, <3>1, <3>3 DEF NegotiateSection
  <2>3. i \in 1..Len(local.m) /\ Compatible(local.m[i], remote.m[next])
    BY <1>2, <2>2 DEF Takers
  <2>4. PICK media, offered : media = local.m[i] /\ offered = remote.m[next]
    OBVIOUS
  <2>5. Sound(media, "local") /\ Sound(offered, "remote")
    <3>1. next \in 1..Len(remote.m)
      BY <1>2, <2>1
    <3>. QED  BY <1>2, <2>3, <2>4, <3>1 DEF SoundDescription
  <2>6. PICK new : new = Negotiated(media, offered)
    OBVIOUS
  <2>7. Sound(new, "local") /\ Agreed(new, media, offered)
    BY <2>5, <2>6, NegotiatedSound, TwoSides
  <2>8. local' = [local EXCEPT !.m[i] = new]
    BY <2>2, <2>4, <2>6
  <2>9. /\ SoundDescription(local', "local") /\ local'.v = local.v /\ local'.t = local.t
        /\ Len(local'.m) = Len(local.m) /\ local'.m[i] = new
        /\ \A j \in 1..Len(local.m) : j # i => local'.m[j] = local.m[j]
    BY <1>2, <2>3, <2>7, <2>8, Replaced, TwoSides
  <2>10. Takes(media, offered)
    <3>1. media.kind = offered.kind /\ CommonCodecs(media, offered) # <<>>
      BY <2>3, <2>4 DEF Compatible
    <3>2. PICK common : common = CommonCodecs(media, offered)
      OBVIOUS
    <3>3. offered \in Section("remote") /\ Rated(offered, AttributesOf("local"))
      BY <2>5, SoundRated, TwoSides DEF Sound
    <3>4. Adoptable(offered, common, Codecs, AttributesOf("local")) /\ Range(common) = SharedBy(media, offered)
      BY <3>2, <3>3, CommonIs DEF Section
    <3>5. common \in Seq(Codecs) /\ common # <<>>
      BY <3>1, <3>2, <3>4 DEF Adoptable
    <3>6. common[1] \in Range(common)
      BY <3>5 DEF Range
    <3>. QED  BY <3>1, <3>4, <3>6 DEF Takes, SharedBy
  <2>11. Sounds'
    <3>1. next' \in 1..(Lines + 1)
      BY <1>2, <2>1, BoundsOK
    <3>. QED  BY <1>1, <1>2, <2>1, <2>9, <3>1 DEF Sounds
  <2>12. /\ copy.v = remote.v
         /\ Len(copy.m) = Len(local.m)
         /\ \A j \in 1..Len(local.m) :
              /\ local.m[j].kind = copy.m[j].kind
              /\ Range(local.m[j].fmt) \subseteq Range(copy.m[j].fmt)
         /\ \A j \in 1..(next - 1) : \E k \in 1..Len(copy.m) : Takes(copy.m[k], remote.m[j])
         /\ Len(local.m) = 1 /\ Len(remote.m) = 1 =>
              local.m[1] = IF next = 1 THEN copy.m[1] ELSE Negotiated(copy.m[1], remote.m[1])
    BY <1>1, <2>1 DEF Progress
  <2>13. ASSUME NEW j \in 1..Len(local'.m)
         PROVE  /\ local'.m[j].kind = copy.m[j].kind
                /\ Range(local'.m[j].fmt) \subseteq Range(copy.m[j].fmt)
    <3>1. j \in 1..Len(local.m)
      BY <2>9
    <3>2. CASE j # i
      BY <2>9, <2>12, <3>1, <3>2
    <3>3. CASE j = i
      <4>1. new.kind = media.kind /\ Range(new.fmt) \subseteq Range(media.fmt)
        BY <2>7 DEF Agreed
      <4>2. /\ media.kind = copy.m[j].kind
            /\ Range(media.fmt) \subseteq Range(copy.m[j].fmt)
        BY <2>4, <2>12, <3>1, <3>3
      <4>. QED  BY <2>9, <3>3, <4>1, <4>2
    <3>. QED  BY <3>2, <3>3
  <2>14. ASSUME NEW j \in 1..(next' - 1)
         PROVE  \E k \in 1..Len(copy.m) : Takes(copy.m[k], remote.m[j])
    <3>1. CASE j = next
      <4>1. Takes(copy.m[i], offered)
        BY <2>3, <2>4, <2>10, <2>12 DEF Takes
      <4>. QED  BY <2>3, <2>4, <2>12, <3>1, <4>1
    <3>2. CASE j # next
      <4>1. j \in 1..(next - 1)
        BY <1>2, <2>1, <3>2
      <4>. QED  BY <2>12, <4>1
    <3>. QED  BY <3>1, <3>2
  <2>15. Len(local'.m) = 1 /\ Len(remote.m) = 1 =>
           local'.m[1] = Negotiated(copy.m[1], remote.m[1]) /\ next' # 1
    <3>. SUFFICES ASSUME Len(local'.m) = 1, Len(remote.m) = 1
                  PROVE  local'.m[1] = Negotiated(copy.m[1], remote.m[1]) /\ next' # 1
      OBVIOUS
    <3>1. i = 1 /\ next = 1 /\ next' = 2
      BY <1>2, <2>1, <2>3, <2>9
    <3>2. local.m[1] = copy.m[1]
      BY <2>9, <2>12, <3>1
    <3>. QED  BY <2>4, <2>6, <2>9, <3>1, <3>2
  <2>16. next' <= Len(remote.m) + 1 /\ pc' # "accepted"
    BY <1>2, <2>1
  <2>17. Progress'
    BY <2>1, <2>9, <2>12, <2>13, <2>14, <2>15, <2>16 DEF Progress
  <2>. QED  BY <2>11, <2>17 DEF IInv
<1>9. CASE Refuse
  <2>1. /\ pc = "negotiate" /\ pc' = "refused" /\ local' = copy
        /\ remote' = remote /\ copy' = copy /\ next' = next
    BY <1>9 DEF Refuse
  <2>. QED  BY <1>1, <2>1 DEF IInv, Sounds, Progress
<1>10. CASE Accept
  <2>1. /\ pc = "negotiate" /\ pc' = "accepted" /\ next > Len(remote.m)
        /\ local' = local /\ remote' = remote /\ copy' = copy /\ next' = next
    BY <1>10 DEF Accept
  <2>2. next = Len(remote.m) + 1
    <3>1. next <= Len(remote.m) + 1
      BY <1>1, <2>1 DEF Progress
    <3>. QED  BY <1>2, <2>1, <3>1
  <2>. QED  BY <1>1, <2>1, <2>2 DEF IInv, Sounds, Progress
<1>11. CASE Continue
  <2>1. pc' = "build" /\ copy' = NoCopy /\ local' = local /\ remote' = remote /\ next' = next
    BY <1>11 DEF Continue
  <2>. QED  BY <1>1, <2>1 DEF IInv, Sounds, Progress
<1>12. CASE UNCHANGED vars
  BY <1>1, <1>12 DEF vars, IInv, Sounds, Progress
<1>. QED
  BY <1>3, <1>4, <1>5, <1>6, <1>7, <1>8, <1>9, <1>10, <1>11, <1>12 DEF Next

LEMMA Invariance == Spec => []IInv
BY InitSounds, StepSounds, PTL DEF Spec

-----------------------------------------------------------------------------
(* What the invariant says of each property. *)

LEMMA DescriptionIs ==
  ASSUME NEW side \in Sides, NEW d, SoundDescription(d, side)
  PROVE  d \in Description
<1>1. d \in [v : {0, 1}, t : Sides, m : Seq(Section(side))]
  BY DEF SoundDescription
<1>2. ASSUME NEW i \in 1..Len(d.m)  PROVE d.m[i] \in Media
  <2>1. PICK media : media = d.m[i]
    OBVIOUS
  <2>2. media \in Section(side) /\ Len(media.fmt) <= MaxFormats
    BY <2>1 DEF SoundDescription, Sound
  <2>3. PICK fmt : fmt = media.fmt
    OBVIOUS
  <2>4. fmt \in Seq(Codecs) /\ Len(fmt) <= MaxFormats
    BY <2>2, <2>3 DEF Section, SectionsOf
  <2>5. fmt \in SeqOf(Codecs, MaxFormats)
    BY <2>4, BoundsOK, SeqOfIs
  <2>6. media = [kind |-> media.kind, mid |-> media.mid, fmt |-> fmt, attrs |-> media.attrs]
    BY <2>2, <2>3 DEF Section, SectionsOf
  <2>7. media.kind \in Kinds /\ media.mid \in Sides /\ media.attrs \in Seq(Attributes)
    <3>1. AttributesOf(side) \subseteq Attributes
      BY DEF AttributesOf
    <3>. QED  BY <2>2, <3>1 DEF Section, SectionsOf
  <2>. QED  BY <2>1, <2>5, <2>6, <2>7 DEF Media, Sides
<1>3. d.m \in Seq(Media)
  <2>1. d.m \in [1..Len(d.m) -> Media] /\ Len(d.m) \in Nat
    BY <1>1, <1>2
  <2>. QED  BY <2>1
<1>. QED  BY <1>1, <1>3 DEF Description, Sides

LEMMA TypedByIInv == IInv => TypeOK
BY DescriptionIs, TwoSides DEF IInv, Sounds, TypeOK

LEMMA CountsAreOccurrences ==
  ASSUME NEW side \in Sides, NEW media \in Section(side), NEW codec
  PROVE  /\ Listed(media, codec) = Occurrences(media.fmt, {codec})
         /\ Mapped(media, codec) = Occurrences(media.attrs, MapsOf(codec, AttributesOf(side)))
<1>1. {i \in DOMAIN media.fmt : media.fmt[i] = codec}
        = {i \in DOMAIN media.fmt : media.fmt[i] \in {codec}}
  OBVIOUS
<1>2. media.attrs \in Seq(AttributesOf(side))
  BY DEF Section, SectionsOf
<1>3. PICK attrs \in Seq(AttributesOf(side)) : attrs = media.attrs
  BY <1>2
<1>4. \A i \in DOMAIN attrs :
        (attrs[i].type = "RTPMAP" /\ attrs[i].codec = codec)
          <=> attrs[i] \in MapsOf(codec, AttributesOf(side))
  <2>1. \A i \in DOMAIN attrs : attrs[i] \in AttributesOf(side)
    BY <1>3
  <2>. QED  BY <2>1 DEF MapsOf, Matches
<1>5. {i \in DOMAIN attrs : attrs[i].type = "RTPMAP" /\ attrs[i].codec = codec}
        = {i \in DOMAIN attrs : attrs[i] \in MapsOf(codec, AttributesOf(side))}
  BY <1>4
<1>. QED  BY <1>1, <1>3, <1>5 DEF Listed, Mapped, Occurrences

LEMMA InvariantMatches == IInv => AttributesMatchFormats
<1>. SUFFICES ASSUME IInv, NEW media \in Range(local.m) \cup Range(remote.m), NEW codec \in Codecs
              PROVE  Listed(media, codec) = Mapped(media, codec)
  BY DEF AttributesMatchFormats
<1>1. SoundDescription(local, "local") /\ SoundDescription(remote, "remote")
  BY DEF IInv, Sounds
<1>2. PICK side \in Sides : Sound(media, side)
  BY <1>1 DEF SoundDescription, Range, Sides
<1>3. media \in Section(side) /\ Balanced(media, Codecs, AttributesOf(side))
  BY <1>2 DEF Sound
<1>. QED  BY <1>3, CountsAreOccurrences DEF Balanced

LEMMA InvariantAccepts == IInv => AcceptedOnlyIfCompatible
<1>. SUFFICES ASSUME IInv, pc = "accepted"
              PROVE  /\ copy.v = remote.v
                     /\ \A offered \in Range(remote.m) : \E media \in Range(copy.m) :
                          /\ media.kind = offered.kind
                          /\ Range(media.fmt) \cap Range(offered.fmt) # {}
  BY DEF AcceptedOnlyIfCompatible
<1>1. /\ SoundDescription(copy, "local") /\ SoundDescription(remote, "remote")
      /\ next = Len(remote.m) + 1 /\ copy.v = remote.v
      /\ \A j \in 1..(next - 1) : \E i \in 1..Len(copy.m) : Takes(copy.m[i], remote.m[j])
  BY DEF IInv, Sounds, Progress
<1>2. remote.m \in Seq(Section("remote")) /\ copy.m \in Seq(Section("local")) /\ Len(remote.m) \in Nat
  BY <1>1 DEF SoundDescription
<1>3. ASSUME NEW offered \in Range(remote.m)
      PROVE  \E media \in Range(copy.m) : Takes(media, offered)
  <2>1. PICK j \in 1..Len(remote.m) : offered = remote.m[j]
    BY <1>2 DEF Range
  <2>2. j \in 1..(next - 1)
    BY <1>1, <1>2
  <2>3. PICK i \in 1..Len(copy.m) : Takes(copy.m[i], remote.m[j])
    BY <1>1, <2>2
  <2>4. copy.m[i] \in Range(copy.m)
    BY <1>2 DEF Range
  <2>. QED  BY <2>1, <2>3, <2>4
<1>. QED  BY <1>1, <1>3 DEF Takes

\* One section against one: Negotiated() was called once, on what was copied.
LEMMA SingleIs ==
  ASSUME IInv, Single
  PROVE  /\ Sound(Before, "local") /\ Sound(Remote, "remote") /\ Takes(Before, Remote)
         /\ After = Negotiated(Before, Remote)
<1>1. pc = "accepted" /\ Len(local.m) = 1 /\ Len(remote.m) = 1
  BY DEF Single
<1>2. /\ SoundDescription(copy, "local") /\ SoundDescription(remote, "remote")
      /\ next = Len(remote.m) + 1 /\ Len(copy.m) = Len(local.m)
      /\ \A j \in 1..(next - 1) : \E i \in 1..Len(copy.m) : Takes(copy.m[i], remote.m[j])
      /\ local.m[1] = IF next = 1 THEN copy.m[1] ELSE Negotiated(copy.m[1], remote.m[1])
  BY <1>1 DEF IInv, Sounds, Progress
<1>3. next = 2 /\ 1 \in 1..(next - 1) /\ 1..Len(copy.m) = {1}
  BY <1>1, <1>2
<1>4. Sound(copy.m[1], "local") /\ Sound(remote.m[1], "remote")
  BY <1>1, <1>2, <1>3 DEF SoundDescription
<1>5. Takes(copy.m[1], remote.m[1])
  BY <1>2, <1>3
<1>. QED  BY <1>2, <1>3, <1>4, <1>5 DEF Before, After, Remote

LEMMA SingleAgreed ==
  ASSUME IInv, Single
  PROVE  Sound(After, "local") /\ Agreed(After, Before, Remote) /\ Shared = SharedBy(Before, Remote)
BY SingleIs, NegotiatedSound, TwoSides DEF Shared, SharedBy

LEMMA InvariantAgrees == IInv => AgreedFormats
<1>. SUFFICES ASSUME IInv, Single
              PROVE  /\ \A codec \in Shared :
                          /\ Listed(After, codec) = 1
                          /\ GetFormat(After, codec) = GetFormat(Remote, codec)
                     /\ \A i, j \in DOMAIN After.fmt :
                          i < j /\ {After.fmt[i], After.fmt[j]} \subseteq Shared =>
                            \E k, l \in DOMAIN Remote.fmt :
                              k < l /\ Remote.fmt[k] = After.fmt[i] /\ Remote.fmt[l] = After.fmt[j]
  BY DEF AgreedFormats
<1>1. PICK after, before, offered, S :
        after = After /\ before = Before /\ offered = Remote /\ S = Shared
  OBVIOUS
<1>2. /\ Sound(after, "local") /\ Sound(before, "local") /\ Sound(offered, "remote")
      /\ Agreed(after, before, offered) /\ S = SharedBy(before, offered)
  BY <1>1, SingleIs, SingleAgreed
<1>3. after \in Section("local") /\ after.fmt \in Seq(Codecs) /\ offered.fmt \in Seq(Codecs)
  BY <1>2 DEF Sound, Section, SectionsOf
<1>4. ASSUME NEW codec \in S
      PROVE  Listed(after, codec) = 1 /\ GetFormat(after, codec) = GetFormat(offered, codec)
  <2>1. Listed(after, codec) = Occurrences(after.fmt, {codec})
    BY <1>3, CountsAreOccurrences, TwoSides
  <2>. QED  BY <1>2, <2>1 DEF Agreed
<1>5. ASSUME NEW i \in DOMAIN after.fmt, NEW j \in DOMAIN after.fmt,
             i < j, {after.fmt[i], after.fmt[j]} \subseteq S
      PROVE  \E k, l \in DOMAIN offered.fmt :
               k < l /\ offered.fmt[k] = after.fmt[i] /\ offered.fmt[l] = after.fmt[j]
  <2>1. /\ DOMAIN after.fmt = 1..Len(after.fmt) /\ DOMAIN offered.fmt = 1..Len(offered.fmt)
        /\ after.fmt[i] \in S /\ after.fmt[j] \in S
    BY <1>3, <1>5
  <2>2. \A x, y \in 1..Len(after.fmt) :
          x < y /\ after.fmt[x] \in SharedBy(before, offered)
                /\ after.fmt[y] \in SharedBy(before, offered) =>
            \E p, q \in 1..Len(offered.fmt) :
              p < q /\ offered.fmt[p] = after.fmt[x] /\ offered.fmt[q] = after.fmt[y]
    BY <1>2, Zenon DEF Agreed
  <2>3. i \in 1..Len(after.fmt) /\ j \in 1..Len(after.fmt)
    BY <2>1
  <2>4. PICK p \in 1..Len(offered.fmt), q \in 1..Len(offered.fmt) :
          p < q /\ offered.fmt[p] = after.fmt[i] /\ offered.fmt[q] = after.fmt[j]
    BY <1>2, <1>5, <2>1, <2>2, <2>3
  <2>. QED  BY <2>1, <2>4
<1>. QED  BY <1>1, <1>4, <1>5

LEMMA PairsAre ==
  ASSUME NEW media, NEW S, S = Shared
  PROVE  ~HasUnsharedPair(media) <=> NoPair(media.fmt, S)
<1>1. \A i \in 1..(Len(media.fmt) - 1) :
        ({media.fmt[i], media.fmt[i+1]} \cap S = {})
          <=> ~(media.fmt[i] \in S \/ media.fmt[i+1] \in S)
  OBVIOUS
<1>. QED  BY <1>1 DEF HasUnsharedPair, NoPair

LEMMA InvariantDrops == IInv => UnsharedDropped
<1>. SUFFICES ASSUME IInv, Single, ~HasUnsharedPair(Before)
              PROVE  Range(After.fmt) = Shared
  BY DEF UnsharedDropped
<1>1. PICK S : S = Shared
  OBVIOUS
<1>2. PICK before : before = Before
  OBVIOUS
<1>3. NoPair(before.fmt, S)
  BY <1>1, <1>2, PairsAre
<1>. QED  BY <1>1, <1>2, <1>3, SingleAgreed DEF Agreed

LEMMA InvariantConverges == IInv => AnswerConverges
<1>. SUFFICES ASSUME IInv, Single, ~HasUnsharedPair(Before), ~HasUnsharedPair(Remote)
              PROVE  /\ Compatible(Remote, After)
                     /\ Negotiated(Remote, After).fmt = After.fmt
                     /\ \A codec \in Shared :
                          GetFormat(Negotiated(Remote, After), codec) = GetFormat(After, codec)
  BY DEF AnswerConverges
<1>1. PICK after, before, offered, S :
        after = After /\ before = Before /\ offered = Remote /\ S = Shared
  OBVIOUS
<1>2. /\ Sound(after, "local") /\ Sound(before, "local") /\ Sound(offered, "remote") /\ Takes(before, offered)
      /\ Agreed(after, before, offered) /\ S = SharedBy(before, offered)
  BY <1>1, SingleIs, SingleAgreed
<1>3. NoPair(before.fmt, S) /\ NoPair(offered.fmt, S)
  BY <1>1, PairsAre
<1>4. /\ Range(after.fmt) = S /\ S \subseteq Range(offered.fmt) /\ S # {}
      /\ after.kind = offered.kind
      /\ \A c \in S : Occurrences(after.fmt, {c}) = 1
  BY <1>2, <1>3 DEF Agreed, SharedBy, Takes
<1>5. SharedBy(offered, after) = S
  BY <1>4 DEF SharedBy
<1>6. /\ after \in Section("local") /\ offered \in Section("remote")
      /\ Rated(after, AttributesOf("remote")) /\ Rated(offered, AttributesOf("local"))
  BY <1>2, SoundRated, TwoSides DEF Sound
<1>7. PICK answer : answer = Negotiated(offered, after)
  OBVIOUS
<1>8. Compatible(offered, after)
  <2>1. PICK common : common = CommonCodecs(offered, after)
    OBVIOUS
  <2>2. Range(common) = SharedBy(offered, after)
    BY <1>6, <2>1, CommonIs DEF Section
  <2>3. common # <<>>
    <3>. SUFFICES ASSUME common = <<>>  PROVE FALSE
      OBVIOUS
    <3>1. Range(common) = {}
      BY DEF Range
    <3>. QED  BY <1>4, <1>5, <2>2, <3>1
  <2>. QED  BY <1>4, <2>1, <2>3 DEF Compatible
<1>9. answer.fmt = after.fmt
  <2>1. /\ NoPair(offered.fmt, SharedBy(offered, after))
        /\ Range(after.fmt) \subseteq Range(offered.fmt)
        /\ \A c \in Range(after.fmt) : Occurrences(after.fmt, {c}) = 1
    BY <1>3, <1>4, <1>5
  <2>. QED  BY <1>6, <1>7, <2>1, NegotiatedExact DEF Section
<1>10. \A c \in S : GetFormat(answer, c) = GetFormat(after, c)
  <2>1. Agreed(answer, offered, after)
    BY <1>2, <1>7, NegotiatedSound, TwoSides
  <2>. QED  BY <1>5, <2>1 DEF Agreed
<1>. QED  BY <1>1, <1>7, <1>8, <1>9, <1>10

\* Every section of a side says that it is one of that side.
LEMMA SoundMarked ==
  ASSUME NEW side \in Sides, NEW media, Sound(media, side)
  PROVE  Marked(media, side)
<1>1. PICK A, attrs : A = AttributesOf(side) /\ attrs = media.attrs
  OBVIOUS
<1>2. attrs \in Seq(A) /\ Occurrences(attrs, MidsOf(A)) = 1
  BY <1>1 DEF Sound, Section, SectionsOf, Balanced
<1>3. ASSUME NEW a \in A
      PROVE  /\ a.type \in {"MID", "RTPMAP", "FMTP"}
             /\ a.type = "MID" => a.value = side
  BY <1>1 DEF AttributesOf, Attributes, MidAttr
<1>4. \A i \in 1..Len(attrs) : attrs[i] \in A
  BY <1>2
<1>5. \E i \in 1..Len(attrs) : attrs[i].type = "MID"
  <2>1. Range(attrs) \cap MidsOf(A) # {}
    BY <1>2, OccurrencesNone
  <2>2. PICK a \in Range(attrs) : a \in MidsOf(A)
    BY <2>1
  <2>3. PICK i \in 1..Len(attrs) : a = attrs[i]
    BY <1>2 DEF Range
  <2>. QED  BY <2>2, <2>3 DEF MidsOf
<1>. QED  BY <1>1, <1>3, <1>4, <1>5 DEF Marked

\* The types of what is printed.
Mids == {"local", "remote", RandomMid}

FieldsOf(sdp) == {sdp.v, sdp.o, sdp.s, sdp.t, Blank.v, Blank.o, Blank.s, Blank.t}

\* The messages that are printed.
LEMMA MessageTyped ==
  ASSUME IInv, NEW z \in {<<>>, AddSender}, NEW sdp, sdp = Message(local, z)
  PROVE  /\ sdp \in DescriptionsOf(FieldsOf(sdp),
                      SectionsOf(Kinds, Mids, Codecs, AttributesOf("local")), Items)
         /\ sdp.m = local.m /\ sdp.z = z
         /\ \A i \in 1..Len(sdp.m) : Marked(sdp.m[i], "local")
<1>1. SoundDescription(local, "local")
  BY DEF IInv, Sounds
<1>2. PICK m, S : m = local.m /\ S = SectionsOf(Kinds, Mids, Codecs, AttributesOf("local"))
  OBVIOUS
<1>3. /\ sdp = [v |-> sdp.v, o |-> sdp.o, s |-> sdp.s, t |-> sdp.t, m |-> m, z |-> z]
      /\ sdp.m = m /\ sdp.z = z
  BY <1>2 DEF Message
<1>4. m \in Seq(S)
  <2>1. m \in Seq(Section("local"))
    BY <1>1, <1>2 DEF SoundDescription
  <2>2. Section("local") \subseteq S
    BY <1>2 DEF Section, SectionsOf, Sides, Mids
  <2>. QED  BY <2>1, <2>2
<1>5. z \in Seq(Items)
  <2>1. PICK a \in Items, b \in Items : AddSender = <<a, b>>
    BY DEF AddSender, Items
  <2>2. <<>> \in Seq(Items) /\ <<a, b>> \in Seq(Items)
    OBVIOUS
  <2>. QED  BY <2>1, <2>2
<1>6. sdp \in DescriptionsOf(FieldsOf(sdp), S, Items)
  <2>1. /\ sdp.v \in FieldsOf(sdp) /\ sdp.o \in FieldsOf(sdp)
        /\ sdp.s \in FieldsOf(sdp) /\ sdp.t \in FieldsOf(sdp)
    BY DEF FieldsOf
  <2>. QED  BY <1>3, <1>4, <1>5, <2>1 DEF DescriptionsOf
<1>7. \A i \in 1..Len(m) : Marked(m[i], "local")
  BY <1>1, <1>2, SoundMarked, TwoSides DEF SoundDescription
<1>. QED  BY <1>2, <1>3, <1>6, <1>7

\* The texts are those of an accepted answer, with and without the z= line.
LEMMA InvariantReads == IInv => ReadAsPrinted
<1>. SUFFICES ASSUME IInv, pc = "accepted", NEW z \in {<<>>, AddSender}
              PROVE  Parsed(Printed(Message(local, z)), TRUE)
                       = [Message(local, z) EXCEPT
                            !.m = [i \in DOMAIN @ |-> [@[i] EXCEPT !.mid = "local"]]]
  BY DEF ReadAsPrinted
<1>1. PICK sdp : sdp = Message(local, z)
  OBVIOUS
<1>2. /\ sdp \in DescriptionsOf(FieldsOf(sdp),
                   SectionsOf(Kinds, Mids, Codecs, AttributesOf("local")), Items)
      /\ \A i \in 1..Len(sdp.m) : Marked(sdp.m[i], "local")
  BY <1>1, MessageTyped
<1>3. Parsed(Printed(sdp), TRUE) = WithMedia(sdp, AsRead(sdp.m, "local"))
  <2>1. "local" \in Mids /\ RandomMid \in Mids
    BY DEF Mids
  <2>2. ParsedWhole(Printed(sdp)) = WithMedia(sdp, AsRead(sdp.m, "local"))
    BY <1>2, <2>1, PrintedRead
  <2>. QED  BY <2>2 DEF ParsedWhole
<1>4. [sdp EXCEPT !.m = AsRead(sdp.m, "local")] = WithMedia(sdp, AsRead(sdp.m, "local"))
  <2>1. PICK read : read = AsRead(sdp.m, "local")
    OBVIOUS
  <2>. QED  BY <1>2, <2>1 DEF WithMedia, DescriptionsOf
<1>5. AsRead(sdp.m, "local") = [i \in DOMAIN sdp.m |-> [sdp.m[i] EXCEPT !.mid = "local"]]
  BY DEF AsRead
<1>. QED  BY <1>1, <1>3, <1>4, <1>5

\* What a section that is read has of the one that was printed.
LEMMA BeginningIs ==
  ASSUME NEW X, NEW s \in Seq(X), NEW t \in Seq(X), Len(s) <= Len(t),
         \A j \in 1..Len(s) : t[j] = s[j]
  PROVE  IsPrefix(s, t)
<1>1. SubSeq(s, 1, Len(s)) = SubSeq(t, 1, Len(s))
  OBVIOUS
<1>. QED  BY <1>1 DEF IsPrefix

\* The cut text is one of an accepted answer with a z= line.
LEMMA InvariantCuts == IInv => BeginningKept
<1>. DEFINE text == Printed(Message(local, AddSender))
            lost(n, ended) == /\ ~ended /\ n > 1
                              /\ text[n].key # "a" /\ text[n-1].key \in {"a", "m"}
            read(n, ended) == FirstLines(text, IF lost(n, ended) THEN n - 1 ELSE n)
            KeptOf(n, ended, sdp) ==
              /\ Len(sdp.m) = Cardinality({i \in DOMAIN read(n, ended) :
                                             read(n, ended)[i].key = "m"})
              /\ \A i \in DOMAIN sdp.m :
                   IF i < Len(sdp.m) THEN sdp.m[i].attrs = local.m[i].attrs
                   ELSE IsBeginning(sdp.m[i], local.m[i])
              /\ sdp.z = IF Last(read(n, ended)).key = "z" THEN AddSender ELSE <<>>
<1>. SUFFICES ASSUME IInv, NEW n \in DOMAIN text, NEW ended \in BOOLEAN
              PROVE  KeptOf(n, ended, Parsed(FirstLines(text, n), ended))
  BY DEF BeginningKept
<1>. HIDE DEF text
<1>1. PICK sdp, mids, attrs, fields :
        /\ sdp = Message(local, AddSender) /\ mids = Mids
        /\ attrs = AttributesOf("local") /\ fields = FieldsOf(sdp)
  OBVIOUS
<1>2. /\ sdp \in DescriptionsOf(fields, SectionsOf(Kinds, mids, Codecs, attrs), Items)
      /\ sdp.m = local.m /\ sdp.z = AddSender
      /\ \A i \in 1..Len(sdp.m) : Marked(sdp.m[i], "local")
  BY <1>1, MessageTyped
<1>3. "local" \in mids /\ RandomMid \in mids /\ Known(attrs, mids) /\ BlankIn(fields)
  BY <1>1 DEF Mids, Known, AttributesOf, Attributes, MidAttr, BlankIn, FieldsOf
<1>4. sdp.z # <<>>
  BY <1>2 DEF AddSender
<1>5. PICK L, k, last :
        /\ Printed(sdp) \in Seq(L)
        /\ WholeRun(k, Printed(sdp), last, LinesOf(fields, Kinds, Codecs, attrs), sdp.z)
        /\ k[last + 1].sdp = WithMedia(sdp, AsRead(sdp.m, "local"))
  <2>1. RunOver(sdp, LinesOf(fields, Kinds, Codecs, attrs), WithMedia(sdp, AsRead(sdp.m, "local")))
    BY <1>2, <1>3, <1>4, PrintedRun
  <2>. QED  BY <2>1 DEF RunOver
<1>6. text = Printed(sdp)
  BY <1>1 DEF text
<1>7. /\ text \in Seq(L)
      /\ WholeRun(k, text, last, LinesOf(fields, Kinds, Codecs, attrs), AddSender)
  BY <1>2, <1>5, <1>6
<1>8. n \in 1..(last + 1)
  BY <1>7 DEF WholeRun
<1>9. read(n, ended) = FirstLines(text, ReadLines(text, n, ended))
  BY DEF ReadLines
<1>10. PICK got, part, whole : /\ got = Parsed(FirstLines(text, n), ended)
                               /\ part = FirstLines(text, ReadLines(text, n, ended))
                               /\ whole = k[last + 1].sdp
  OBVIOUS
<1>11. CutWell(got, part, whole, SectionsOf(Kinds, mids, Codecs, attrs))
  <2>1. CutWell(Parsed(FirstLines(text, n), ended),
                FirstLines(text, ReadLines(text, n, ended)),
                k[last + 1].sdp, SectionsOf(Kinds, mids, Codecs, attrs))
    BY <1>3, <1>7, <1>8, CutKept
  <2>. QED  BY <1>10, <2>1
<1>12. PICK m : m = local.m
  OBVIOUS
<1>13. m \in Seq(SectionsOf(Kinds, mids, Codecs, attrs))
  BY <1>2, <1>12 DEF DescriptionsOf
<1>14. whole.m = AsRead(m, "local") /\ whole.z = AddSender
  <2>1. whole = WithMedia(sdp, AsRead(m, "local"))
    BY <1>2, <1>5, <1>10, <1>12
  <2>. QED  BY <1>2, <2>1 DEF WithMedia
<1>15. Len(whole.m) = Len(m) /\ Len(m) \in Nat
  BY <1>13, <1>14 DEF AsRead
<1>16. ASSUME NEW i \in 1..Len(m)
       PROVE  /\ whole.m[i].kind = m[i].kind /\ whole.m[i].fmt = m[i].fmt
              /\ whole.m[i].attrs = m[i].attrs
  <2>1. whole.m[i] = [m[i] EXCEPT !.mid = "local"]
    BY <1>13, <1>14 DEF AsRead
  <2>2. m[i] \in SectionsOf(Kinds, mids, Codecs, attrs)
    BY <1>13
  <2>. QED  BY <2>1, <2>2 DEF SectionsOf
<1>17. ASSUME NEW i \in DOMAIN got.m
       PROVE  IF i < Len(got.m) THEN got.m[i].attrs = m[i].attrs ELSE IsBeginning(got.m[i], m[i])
  <2>1. i \in 1..Len(got.m) /\ i \in 1..Len(m)
    BY <1>11, <1>15 DEF CutWell, Grown
  <2>2. /\ whole.m[i].kind = got.m[i].kind /\ whole.m[i].fmt = got.m[i].fmt
        /\ Len(got.m[i].attrs) <= Len(whole.m[i].attrs)
        /\ \A j \in 1..Len(got.m[i].attrs) : whole.m[i].attrs[j] = got.m[i].attrs[j]
        /\ i < Len(got.m) => whole.m[i].attrs = got.m[i].attrs
    BY <1>11, <2>1 DEF CutWell, Grown
  <2>3. got.m[i].attrs \in Seq(attrs) /\ m[i].attrs \in Seq(attrs)
    <3>1. /\ got.m[i] \in SectionsOf(Kinds, mids, Codecs, attrs)
          /\ m[i] \in SectionsOf(Kinds, mids, Codecs, attrs)
      BY <1>11, <1>13, <2>1 DEF CutWell
    <3>2. \A x \in SectionsOf(Kinds, mids, Codecs, attrs) : x.attrs \in Seq(attrs)
      BY DEF SectionsOf
    <3>. QED  BY <3>1, <3>2
  <2>4. IsPrefix(got.m[i].attrs, m[i].attrs)
    <3>1. PICK s, t : s = got.m[i].attrs /\ t = m[i].attrs
      OBVIOUS
    <3>2. Len(s) <= Len(t) /\ \A j \in 1..Len(s) : t[j] = s[j]
      BY <1>16, <2>1, <2>2, <3>1
    <3>3. s \in Seq(attrs) /\ t \in Seq(attrs)
      BY <2>3, <3>1
    <3>4. IsPrefix(s, t)
      BY <3>2, <3>3, BeginningIs
    <3>. QED  BY <3>1, <3>4
  <2>5. /\ got.m[i].kind = m[i].kind /\ got.m[i].fmt = m[i].fmt
        /\ i < Len(got.m) => got.m[i].attrs = m[i].attrs
    BY <1>16, <2>1, <2>2
  <2>. QED  BY <2>4, <2>5 DEF IsBeginning
<1>18. KeptOf(n, ended, got)
  BY <1>9, <1>10, <1>11, <1>12, <1>14, <1>17 DEF CutWell
<1>. QED  BY <1>10, <1>18

-----------------------------------------------------------------------------
(* The theorems. *)

\* Type correctness: no a= line is written for empty arguments, and whatever is
\* added, removed, set and negotiated, a section never lists more formats than
\* the application may add (SDPMediaDescription, SDPNegotiation).
THEOREM TypeCorrect == Spec => []TypeOK
BY Invariance, TypedByIInv, PTL

\* In every section of both descriptions, at every step, each codec is listed in
\* fmt_ as often as it has an RTPMAP line (AddFormat, RemoveFormat, SetFormat).
THEOREM LinesMatchFormats == Spec => []AttributesMatchFormats
BY Invariance, InvariantMatches, PTL

\* SDPNegotiation() only returns true if the versions agree and every remote
\* section found a local one of its kind that had a codec of it, compared with
\* the local description as it was before the first section was changed.
THEOREM OnlyCompatibleAccepted == Spec => []AcceptedOnlyIfCompatible
BY Invariance, InvariantAccepts, PTL

\* After Negotiation() each shared codec is listed once, with the remote side's
\* format, and in the remote side's order.
THEOREM SharedFormatsAgreed == Spec => []AgreedFormats
BY Invariance, InvariantAgrees, PTL

\* The loop that removes from the list it runs over drops every unshared codec,
\* unless two of them were neighbours.
THEOREM UnsharedFormatsDropped == Spec => []UnsharedDropped
BY Invariance, InvariantDrops, PTL

\* The remote side can negotiate against the answer in turn and is left with the
\* answer's formats.
THEOREM OfferAnswerConverges == Spec => []AnswerConverges
BY Invariance, InvariantConverges, PTL

\* What the two sides negotiated survives being printed and read: of the text that
\* ToString() writes of an answer, with or without a z= line, the SDPHandler
\* constructor (sdp.cc:407) makes the answer again, each section with the mid that
\* its MID line carries.
THEOREM PrintedIsRead == Spec => []ReadAsPrinted
BY Invariance, InvariantReads, PTL

\* Of the text of an answer that is cut anywhere behind a line, or before its '\n',
\* every section before the cut is read, all but the last whole, and no z= line is
\* invented; the line behind a media block is lost without its '\n' (the seek back
\* in the SDPHandler constructor).  It is so of any number of remote sections, and
\* therefore of at most one, which is what the run looks at.
THEOREM CutIsRead == Spec => [](BeginningKept /\ CutKeepsBeginning)
<1>1. IInv => BeginningKept /\ CutKeepsBeginning
  BY InvariantCuts DEF CutKeepsBeginning
<1>. QED  BY <1>1, Invariance, PTL
=============================================================================
