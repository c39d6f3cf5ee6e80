-------------------------- MODULE SignallingProofs --------------------------
(***************************************************************************)
(* Proofs about Signalling for every finite set of clients: the server     *)
(* between real clients is AvrtcServer, and keeps what AvrtcServerProofs   *)
(* says of it; as long as messages come whole, each client goes through    *)
(* the stages of one registration.  First comes what the scanner of        *)
(* SdpText makes of a text without media, whole or cut.                    *)
(***************************************************************************)
EXTENDS Signalling, DataInduction

-----------------------------------------------------------------------------
(* What the scanner makes of a text. *)

\* The scans that Parsed goes through, one line further each.
ScanStart == [at |-> "lines", sdp |-> Blank]

ScanRun(k, text, ended) ==
  /\ k[0] = ScanStart
  /\ \A i \in 1..Len(text) : k[i] = Scanned(k[i-1], text[i], ended \/ i < Len(text))

\* A set that no line leads out of holds every scan.
LEMMA ParsedRuns ==
  ASSUME NEW X, ScanStart \in X, NEW text, Len(text) \in Nat, NEW ended,
         \A i \in 1..Len(text) : \A scan \in X :
           Scanned(scan, text[i], ended \/ i < Len(text)) \in X
  PROVE  \E k \in [0..Len(text) -> X] :
           ScanRun(k, text, ended) /\ Parsed(text, ended) = k[Len(text)].sdp
<1>. DEFINE n == Len(text)
            Step(i, before) == Scanned(before, text[i], ended \/ i < n)
            Steps(h) == [i \in 0..n |-> IF i = 0 THEN ScanStart ELSE Step(i, h[i-1])]
<1>1. \A i \in 1..n : \A before \in X : Step(i, before) \in X
  OBVIOUS
<1>2. PICK F : F = [p \in (1..n) \X X |-> Step(p[1], p[2])]
  OBVIOUS
<1>3. F \in [(1..n) \X X -> X]
  <2>. HIDE DEF Step, n
  <2>1. ASSUME NEW p \in (1..n) \X X  PROVE Step(p[1], p[2]) \in X
    BY <1>1
  <2>. QED  BY <1>2, <2>1
<1>4. n \in Nat
  OBVIOUS
<1>5. Parsed(text, ended) = (CHOOSE h : h = Steps(h))[n].sdp
  BY DEF Parsed, ScanStart
<1>. HIDE DEF n, Step
<1>6. PICK g \in [0..n -> X] : Runs(g, n, ScanStart, F)
  BY <1>3, <1>4, RunExists
<1>7. \A i \in 1..n : g[i] = Step(i, g[i-1])
  <2>. SUFFICES ASSUME NEW i \in 1..n  PROVE g[i] = Step(i, g[i-1])
    OBVIOUS
  <2>1. i - 1 \in 0..n /\ g[i - 1] \in X
    BY <1>4
  <2>2. g[i] = F[<<i, g[i-1]>>] /\ <<i, g[i-1]>> \in (1..n) \X X
    BY <1>6, <2>1 DEF Runs
  <2>. QED  BY <1>2, <2>2
<1>8. g = Steps(g)
  <2>1. \A i \in 0..n : i = 0 \/ i \in 1..n
    BY <1>4
  <2>2. \A i \in 0..n : g[i] = Steps(g)[i]
    BY <1>6, <1>7, <2>1 DEF Runs
  <2>3. g = [i \in 0..n |-> g[i]]
    OBVIOUS
  <2>. HIDE DEF Steps
  <2>. QED  BY <2>2, <2>3 DEF Steps
<1>9. PICK k : k = CHOOSE h : h = Steps(h)
  OBVIOUS
<1>10. k = Steps(k)
  <2>. HIDE DEF Steps
  <2>. QED  BY <1>8, <1>9
<1>11. k[0] = ScanStart /\ \A i \in 1..n : k[i] = Step(i, k[i-1])
  <2>1. 0 \in 0..n /\ \A i \in 1..n : i \in 0..n /\ i # 0
    BY <1>4
  <2>. QED  BY <1>10, <2>1
<1>12. 0..n \subseteq {i \in 0..n : k[i] \in X}
  <2>. DEFINE T == {i \in 0..n : k[i] \in X}
  <2>1. 0 \in T
    BY <1>4, <1>11
  <2>2. ASSUME NEW i \in 0..(n-1), i \in T  PROVE i + 1 \in T
    <3>1. i + 1 \in 1..n /\ i + 1 \in 0..n /\ (i + 1) - 1 = i /\ k[i] \in X
      BY <1>4, <2>2
    <3>2. k[i + 1] = Step(i + 1, k[i])
      BY <1>11, <3>1
    <3>. QED  BY <1>1, <3>1, <3>2
  <2>. HIDE DEF T
  <2>3. 0..n \subseteq T
    BY <1>4, <2>1, <2>2, UpTo
  <2>. QED  BY <2>3 DEF T
<1>13. k \in [0..n -> X]
  <2>1. DOMAIN k = 0..n /\ k = [i \in DOMAIN k |-> k[i]]
    BY <1>10
  <2>. QED  BY <1>12, <2>1
<1>14. ScanRun(k, text, ended)
  BY <1>11 DEF ScanRun, n, Step
<1>. QED  BY <1>5, <1>9, <1>13, <1>14 DEF n

-----------------------------------------------------------------------------
(* The texts of the signalling, in pieces or whole: no media, and items in   *)
(* every z= line.                                                            *)

Items == {Word("Add"), Word("Sender"), Fragment} \cup {Number(n) : n \in Nat}

Heads == {0, "origin", NoOrigin, "-", "0 0", ""}

FixedLines == [key : {"v", "o", "s", "t", "", "?"}, value : Heads]

TextLines == FixedLines \cup {Line("z", items) : items \in Seq(Items)}

Scans == [at : {"lines", "stopped"},
          sdp : [v : Heads, o : Heads, s : Heads, t : Heads, m : {<<>>}, z : Seq(Items)]]

\* The scanner stays outside of media blocks, and z is a sequence of items.
LEMMA LineRead ==
  ASSUME NEW scan \in Scans, NEW line \in TextLines, NEW ended
  PROVE  Scanned(scan, line, ended) \in Scans
<1>1. scan.at \in {"lines", "stopped"}
  BY DEF Scans
<1>2. CASE scan.at = "stopped"
  BY <1>2 DEF Scanned
<1>3. CASE scan.at = "lines"
  <2>1. Scanned(scan, line, ended) = ReadLine(scan, line)
    BY <1>3 DEF Scanned
  <2>2. CASE line \in FixedLines
    <3>1. CASE line.key \in {"v", "o", "s", "t"}
      <4>1. line.value \in Heads
        BY <2>2 DEF FixedLines
      <4>2. ReadLine(scan, line) = [scan EXCEPT !.at = "lines", !.sdp[line.key] = line.value]
        BY <3>1 DEF ReadLine
      <4>3. scan.sdp \in [v : Heads, o : Heads, s : Heads, t : Heads, m : {<<>>}, z : Seq(Items)]
        BY DEF Scans
      <4>4. [scan.sdp EXCEPT ![line.key] = line.value] \in [v : Heads, o : Heads, s : Heads, t : Heads, m : {<<>>}, z : Seq(Items)]
        BY <4>1, <4>3, <3>1
      <4>. QED  BY <2>1, <4>2, <4>4 DEF Scans
    <3>2. CASE line.key \notin {"v", "o", "s", "t"}
      <4>1. ReadLine(scan, line) = [scan EXCEPT !.at = "stopped"]
        <5>1. line.key # "m" /\ line.key # "z"
          BY <2>2 DEF FixedLines
        <5>. QED  BY <3>2, <5>1 DEF ReadLine
      <4>. QED  BY <2>1, <4>1 DEF Scans
    <3>. QED  BY <3>1, <3>2
  <2>3. CASE \E items \in Seq(Items) : line = Line("z", items)
    <3>1. PICK items \in Seq(Items) : line = Line("z", items)
      BY <2>3
    <3>2. ReadLine(scan, line) = [scan EXCEPT !.at = "lines", !.sdp.z = @ \o items]
      BY <3>1 DEF ReadLine, Line
    <3>3. /\ scan.sdp \in [v : Heads, o : Heads, s : Heads, t : Heads, m : {<<>>}, z : Seq(Items)]
          /\ scan.sdp.z \o items \in Seq(Items)
      BY DEF Scans
    <3>4. [scan.sdp EXCEPT !.z = @ \o items]
            \in [v : Heads, o : Heads, s : Heads, t : Heads, m : {<<>>}, z : Seq(Items)]
      BY <3>3
    <3>. QED  BY <2>1, <3>2, <3>4 DEF Scans
  <2>. QED  BY <2>2, <2>3 DEF TextLines
<1>. QED  BY <1>1, <1>2, <1>3

\* What the scanner makes of any text of such lines: items, whatever was cut.
LEMMA ParsedTyped ==
  ASSUME NEW text \in Seq(TextLines), NEW ended
  PROVE  Parsed(text, ended).z \in Seq(Items)
<1>1. ScanStart \in Scans
  BY DEF ScanStart, Scans, Blank, Heads
<1>2. Len(text) \in Nat /\ \A i \in 1..Len(text) : text[i] \in TextLines
  OBVIOUS
<1>3. \A i \in 1..Len(text) : \A scan \in Scans :
        Scanned(scan, text[i], ended \/ i < Len(text)) \in Scans
  BY <1>2, LineRead
<1>4. PICK k \in [0..Len(text) -> Scans] :
        ScanRun(k, text, ended) /\ Parsed(text, ended) = k[Len(text)].sdp
  BY <1>1, <1>2, <1>3, ParsedRuns
<1>5. k[Len(text)] \in Scans
  BY <1>2, <1>4
<1>. QED  BY <1>4, <1>5 DEF Scans

\* The two parts of a text are texts.
LEMMA FirstTyped ==
  ASSUME NEW V, NEW s \in Seq(V), NEW n \in 0..Len(s)
  PROVE  FirstLines(s, n) \in Seq(V) /\ LinesBehind(s, n) \in Seq(V)
BY PartsTyped DEF FirstLines, LinesBehind

\* A z= line that is cut has items, perhaps a fragment.
LEMMA ItemsCutTyped ==
  ASSUME NEW items \in Seq(Items)
  PROVE  ItemsCut(items) \subseteq Seq(Items)
<1>. SUFFICES ASSUME NEW k \in 0..(Len(items) - 1),
                     NEW left \in {SubSeq(items, 1, k), Append(SubSeq(items, 1, k), Fragment)}
              PROVE  left \in Seq(Items)
  BY DEF ItemsCut
<1>1. k \in 0..Len(items) /\ Fragment \in Items
  BY DEF Items
<1>2. SubSeq(items, 1, k) \in Seq(Items)
  BY <1>1, FirstTyped DEF FirstLines
<1>. QED  BY <1>1, <1>2

\* A cut of a text is two such texts; one that leaves nothing is no cut.
LEMMA CutsTyped ==
  ASSUME NEW text \in Seq(TextLines), NEW cut \in Cuts(text)
  PROVE  /\ text # <<>>
         /\ cut.head \in Seq(TextLines)
         /\ cut.rest \in Seq(TextLines)
         /\ cut.rest = <<>> => cut.head = text /\ cut.ended = TRUE
<1>1. /\ DOMAIN text = 1..Len(text) /\ Len(text) \in Nat
      /\ \A n \in 1..Len(text) : n \in 0..Len(text) /\ n - 1 \in 0..Len(text)
  OBVIOUS
<1>2. Line("", "") \in TextLines /\ Line("?", "") \in TextLines
  BY DEF TextLines, FixedLines, Heads, Line
<1>3. CASE \E n \in DOMAIN text : cut = Cut(FirstLines(text, n), TRUE, LinesBehind(text, n))
  <2>1. PICK n \in 1..Len(text) : cut = Cut(FirstLines(text, n), TRUE, LinesBehind(text, n))
    BY <1>1, <1>3
  <2>2. /\ cut.head = FirstLines(text, n) /\ cut.ended = TRUE /\ cut.rest = LinesBehind(text, n)
    BY <2>1 DEF Cut
  <2>3. cut.head \in Seq(TextLines) /\ cut.rest \in Seq(TextLines)
    BY <1>1, <2>2, FirstTyped
  <2>4. ASSUME cut.rest = <<>>  PROVE cut.head = text
    <3>1. Len(SubSeq(text, n + 1, Len(text))) = IF n + 1 <= Len(text) THEN Len(text) - (n + 1) + 1 ELSE 0
      OBVIOUS
    <3>2. Len(SubSeq(text, n + 1, Len(text))) = 0
      BY <2>2, <2>4 DEF LinesBehind
    <3>3. n = Len(text)
      <4>1. PICK l \in Nat : l = Len(text) /\ n \in 1..l
        BY <1>1
      <4>. QED  BY <3>1, <3>2, <4>1
    <3>. QED  BY <2>2, <3>3, SubSeqFull DEF FirstLines
  <2>. QED  BY <2>2, <2>3, <2>4
<1>4. ASSUME NEW line \in TextLines, NEW n \in 1..Len(text), NEW head,
             cut = Cut(head, FALSE, <<line>> \o LinesBehind(text, n)),
             head \in Seq(TextLines)
      PROVE  /\ text # <<>>
             /\ cut.head \in Seq(TextLines) /\ cut.rest \in Seq(TextLines) /\ cut.rest # <<>>
  <2>1. PICK rest : rest = LinesBehind(text, n)
    OBVIOUS
  <2>2. rest \in Seq(TextLines)
    BY <1>1, <2>1, FirstTyped
  <2>3. <<line>> \in Seq(TextLines) /\ <<line>> # <<>>
    OBVIOUS
  <2>4. <<line>> \o rest \in Seq(TextLines) /\ <<line>> \o rest # <<>>
    BY <2>2, <2>3, ConcatProperties, ConcatEqualIffEmpty
  <2>. QED  BY <1>4, <2>1, <2>4 DEF Cut
<1>5. CASE \E n \in DOMAIN text :
             cut = Cut(FirstLines(text, n), FALSE, <<Line("", "")>> \o LinesBehind(text, n))
  <2>1. PICK n \in 1..Len(text) :
          cut = Cut(FirstLines(text, n), FALSE, <<Line("", "")>> \o LinesBehind(text, n))
    BY <1>1, <1>5
  <2>2. FirstLines(text, n) \in Seq(TextLines)
    BY <1>1, FirstTyped
  <2>. QED  BY <1>2, <1>4, <2>1, <2>2
<1>6. CASE \E n \in DOMAIN text : /\ text[n].key = "z"
             /\ \E items \in ItemsCut(text[n].value) :
                  cut = Cut(Append(FirstLines(text, n - 1), Line("z", items)), FALSE,
                            <<Line("?", "")>> \o LinesBehind(text, n))
  <2>1. PICK n \in 1..Len(text) : /\ text[n].key = "z"
             /\ \E items \in ItemsCut(text[n].value) :
                  cut = Cut(Append(FirstLines(text, n - 1), Line("z", items)), FALSE,
                            <<Line("?", "")>> \o LinesBehind(text, n))
    BY <1>1, <1>6
  <2>2. PICK items \in ItemsCut(text[n].value) :
                  cut = Cut(Append(FirstLines(text, n - 1), Line("z", items)), FALSE,
                            <<Line("?", "")>> \o LinesBehind(text, n))
    BY <2>1
  <2>3. text[n].value \in Seq(Items)
    <3>1. text[n] \in TextLines
      OBVIOUS
    <3>2. text[n] \notin FixedLines
      BY <2>1 DEF FixedLines
    <3>3. PICK is \in Seq(Items) : text[n] = Line("z", is)
      BY <3>1, <3>2 DEF TextLines
    <3>. QED  BY <3>3 DEF Line
  <2>4. Line("z", items) \in TextLines
    BY <2>3, ItemsCutTyped DEF TextLines
  <2>5. PICK first : first = FirstLines(text, n - 1)
    OBVIOUS
  <2>6. first \in Seq(TextLines)
    BY <1>1, <2>5, FirstTyped
  <2>7. Append(first, Line("z", items)) \in Seq(TextLines)
    BY <2>4, <2>6, AppendAll
  <2>. QED  BY <1>2, <1>4, <2>2, <2>5, <2>7
<1>7. CASE cut \in LineCuts(text)
  BY <1>3, <1>5, <1>7 DEF LineCuts
<1>8. CASE cut \in ItemCuts(text)
  BY <1>6, <1>8 DEF ItemCuts
<1>. QED  BY <1>7, <1>8 DEF Cuts

\* What the clients and the server send: four lines and the z= line.
IsMessage(text, z) ==
  /\ text \in Seq(TextLines) /\ Len(text) = 5
  /\ text[1] = Line("v", 0) /\ text[2] = Line("o", "origin")
  /\ text[3] = Line("s", "-") /\ text[4] = Line("t", "0 0")
  /\ text[5] = Line("z", z)

\* It is what Printed makes of a description without media.
LEMMA MessagePrinted ==
  ASSUME NEW z \in Seq(Items), z # <<>>,
         NEW sdp, sdp = [Blank EXCEPT !.o = "origin", !.z = z]
  PROVE  IsMessage(Printed(sdp), z)
<1>1. /\ sdp.v = 0 /\ sdp.o = "origin" /\ sdp.s = "-" /\ sdp.t = "0 0"
      /\ sdp.m = <<>> /\ sdp.z = z
  BY DEF Blank
<1>2. FlattenSeq([i \in DOMAIN sdp.m |-> PrintedMedia(sdp.m[i])]) = <<>>
  <2>1. PICK none : none = [i \in DOMAIN sdp.m |-> PrintedMedia(sdp.m[i])]
    OBVIOUS
  <2>2. DOMAIN <<>> = {} /\ Len(<<>>) = 0
    OBVIOUS
  <2>3. none = <<>>
    <3>1. none = [i \in {} |-> PrintedMedia(sdp.m[i])]
      BY <1>1, <2>1, <2>2
    <3>2. DOMAIN none = {} /\ none \in [1..0 -> {}] /\ 0 \in Nat
      BY <3>1
    <3>3. none \in Seq({}) /\ Len(none) = 0
      BY <3>2
    <3>. QED  BY <3>3, EmptySeq
  <2>. QED  BY <2>1, <2>2, <2>3 DEF FlattenSeq
<1>3. PICK a : a = <<Line("v", 0), Line("o", "origin"), Line("s", "-"), Line("t", "0 0")>>
  OBVIOUS
<1>4. PICK b : b = <<Line("z", z)>>
  OBVIOUS
<1>5. PICK text : text = Printed(sdp)
  OBVIOUS
<1>6. text = (a \o <<>>) \o b
  BY <1>1, <1>2, <1>3, <1>4, <1>5 DEF Printed
<1>7. /\ Line("v", 0) \in TextLines /\ Line("o", "origin") \in TextLines
      /\ Line("s", "-") \in TextLines /\ Line("t", "0 0") \in TextLines
      /\ Line("z", z) \in TextLines
  BY DEF TextLines, FixedLines, Heads, Line
<1>8. /\ a \in Seq(TextLines) /\ Len(a) = 4
      /\ a[1] = Line("v", 0) /\ a[2] = Line("o", "origin")
      /\ a[3] = Line("s", "-") /\ a[4] = Line("t", "0 0")
  BY <1>3, <1>7, FourOf
<1>9. b \in Seq(TextLines) /\ Len(b) = 1 /\ b[1] = Line("z", z)
  BY <1>4, <1>7, OneOf
<1>10. text = a \o b
  BY <1>6, <1>8, ConcatEmptySeq
<1>11. /\ text \in Seq(TextLines) /\ Len(text) = 4 + 1
       /\ \A i \in 1..(4 + 1) : text[i] = IF i <= 4 THEN a[i] ELSE b[i - 4]
  <2>1. /\ a \o b \in Seq(TextLines) /\ Len(a \o b) = Len(a) + Len(b)
        /\ \A i \in 1..(Len(a) + Len(b)) :
             (a \o b)[i] = IF i <= Len(a) THEN a[i] ELSE b[i - Len(a)]
    BY <1>8, <1>9, ConcatProperties
  <2>. QED  BY <1>8, <1>9, <1>10, <2>1
<1>12. /\ text[1] = a[1] /\ text[2] = a[2] /\ text[3] = a[3] /\ text[4] = a[4]
       /\ text[5] = b[1]
  BY <1>11
<1>13. IsMessage(text, z)
  <2>1. text \in Seq(TextLines) /\ Len(text) = 5
    BY <1>11
  <2>2. /\ text[1] = Line("v", 0) /\ text[2] = Line("o", "origin")
        /\ text[3] = Line("s", "-") /\ text[4] = Line("t", "0 0")
    BY <1>8, <1>12, Zenon
  <2>3. text[5] = Line("z", z)
    BY <1>9, <1>12, Zenon
  <2>. QED  BY <2>1, <2>2, <2>3 DEF IsMessage
<1>. QED  BY <1>5, <1>13

\* Read whole, it gives the items back.
LEMMA MessageRead ==
  ASSUME NEW z \in Seq(Items), NEW text, IsMessage(text, z), NEW ended, ended = TRUE
  PROVE  Parsed(text, ended).z = z
<1>1. ScanStart \in Scans
  BY DEF ScanStart, Scans, Blank, Heads
<1>2. Len(text) = 5 /\ \A i \in 1..Len(text) : text[i] \in TextLines
  BY ElementOfSeq DEF IsMessage
<1>3. \A i \in 1..Len(text) : \A scan \in Scans :
        Scanned(scan, text[i], ended \/ i < Len(text)) \in Scans
  BY <1>2, LineRead
<1>4. PICK k \in [0..Len(text) -> Scans] :
        ScanRun(k, text, ended) /\ Parsed(text, ended) = k[Len(text)].sdp
  BY <1>1, <1>2, <1>3, ParsedRuns
<1>5. \A i \in 0..5 : k[i] \in Scans
  BY <1>2, <1>4
<1>6. \A i \in 1..5 : \E e : k[i] = Scanned(k[i-1], text[i], e)
  BY <1>2, <1>4 DEF ScanRun
<1>7. k[0].at = "lines" /\ k[0].sdp.z = <<>>
  <2>1. k[0] = ScanStart
    BY <1>4 DEF ScanRun
  <2>2. ScanStart.at = "lines" /\ ScanStart.sdp.z = <<>>
    BY DEF ScanStart, Blank
  <2>. QED  BY <2>1, <2>2
<1>8. ASSUME NEW scan \in Scans, scan.at = "lines", NEW e, NEW line,
             line.key \in {"v", "o", "s", "t"}, NEW after, after = Scanned(scan, line, e)
      PROVE  after.at = "lines" /\ after.sdp.z = scan.sdp.z
  <2>1. after = ReadLine(scan, line)
    BY <1>8 DEF Scanned
  <2>2. after = [scan EXCEPT !.at = "lines", !.sdp[line.key] = line.value]
    BY <1>8, <2>1 DEF ReadLine
  <2>3. [scan.sdp EXCEPT ![line.key] = line.value].z = scan.sdp.z
    BY <1>8 DEF Scans
  <2>. QED  BY <2>2, <2>3 DEF Scans
<1>9. /\ text[1].key = "v" /\ text[2].key = "o" /\ text[3].key = "s" /\ text[4].key = "t"
  <2>1. /\ text[1] = Line("v", 0) /\ text[2] = Line("o", "origin")
        /\ text[3] = Line("s", "-") /\ text[4] = Line("t", "0 0")
    BY DEF IsMessage
  <2>2. \A key, value : Line(key, value).key = key
    BY DEF Line
  <2>. QED  BY <2>1, <2>2
<1>10. k[1].at = "lines" /\ k[1].sdp.z = <<>>
  <2>1. \E e : k[1] = Scanned(k[0], text[1], e)
    BY <1>6
  <2>. QED  BY <1>5, <1>7, <1>8, <1>9, <2>1
<1>11. k[2].at = "lines" /\ k[2].sdp.z = <<>>
  <2>1. \E e : k[2] = Scanned(k[1], text[2], e)
    BY <1>6
  <2>. QED  BY <1>5, <1>8, <1>9, <1>10, <2>1
<1>12. k[3].at = "lines" /\ k[3].sdp.z = <<>>
  <2>1. \E e : k[3] = Scanned(k[2], text[3], e)
    BY <1>6
  <2>. QED  BY <1>5, <1>8, <1>9, <1>11, <2>1
<1>13. k[4].at = "lines" /\ k[4].sdp.z = <<>>
  <2>1. \E e : k[4] = Scanned(k[3], text[4], e)
    BY <1>6
  <2>. QED  BY <1>5, <1>8, <1>9, <1>12, <2>1
<1>14. k[5].sdp.z = z
  <2>1. PICK scan \in Scans : scan = k[4]
    BY <1>5
  <2>2. PICK e : k[5] = Scanned(scan, Line("z", z), e)
    <3>1. \E e : k[5] = Scanned(k[4], text[5], e)
      BY <1>6
    <3>. QED  BY <2>1, <3>1 DEF IsMessage
  <2>3. k[5] = ReadLine(scan, Line("z", z))
    BY <1>13, <2>1, <2>2 DEF Scanned
  <2>4. k[5] = [scan EXCEPT !.at = "lines", !.sdp.z = @ \o z]
    BY <2>3 DEF ReadLine, Line
  <2>5. k[5].sdp.z = <<>> \o z
    BY <1>13, <2>1, <2>4 DEF Scans
  <2>. QED  BY <2>5, ConcatEmptySeq
<1>. QED  BY <1>2, <1>4, <1>14

-----------------------------------------------------------------------------
(* The server between the clients. *)

\* What a z= line asks for is a role of AvrtcServer's messages (server.cc:57-64).
LEMMA RoleOfIsRole ==
  ASSUME NEW z
  PROVE  RoleOf(z) \in Server!Roles
BY DEF RoleOf, Server!Roles, Server!Lists

\* A step of a client, of the network or of the server is a step of AvrtcServer
\* or leaves the server's state alone, process ends included.
LEMMA StepIsServerStep ==
  ASSUME [Next]_vars
  PROVE  [Server!Next]_(Server!vars)
<1>1. ASSUME NEW c \in Clients, UserStep(c) \/ ClientStep(c)
      PROVE  UNCHANGED Server!vars
  BY <1>1 DEF UserStep, ClientStep, serverVars, Server!vars, Server!serverVars, Server!uiVars
<1>2. ASSUME NEW c \in Clients, Serve(c)
      PROVE  [Server!Next]_(Server!vars)
  <2>1. CASE Accept(c)
    BY <2>1 DEF Accept, Server!Next, Server!SocketStep
  <2>2. CASE Receive(c)
    <3>1. PICK cut \in Cuts(up[c]) :
            LET z == Parsed(cut.head, cut.ended).z
            IN  Server!AddMessage(c, RoleOf(z)) \/ UNCHANGED serverVars
      BY <2>2 DEF Receive, ServerEnds
    <3>. DEFINE z == Parsed(cut.head, cut.ended).z
    <3>2. CASE Server!AddMessage(c, RoleOf(z))
      BY <3>2, RoleOfIsRole DEF Server!Next, Server!SocketStep
    <3>3. CASE UNCHANGED serverVars
      BY <3>3 DEF serverVars, Server!vars, Server!serverVars, Server!uiVars
    <3>. QED  BY <3>1, <3>2, <3>3
  <2>3. CASE ReceiveEnd(c)
    BY <2>3 DEF ReceiveEnd, Server!Next, Server!SocketStep
  <2>4. CASE ReceiveError(c)
    BY <2>4 DEF ReceiveError, ServerEnds, serverVars, Server!vars, Server!serverVars, Server!uiVars
  <2>. QED  BY <1>2, <2>1, <2>2, <2>3, <2>4 DEF Serve
<1>3. CASE EmitAndReply
  BY <1>3 DEF EmitAndReply, Server!Next, Server!SocketStep
<1>4. CASE WindowUpdates
  BY <1>4 DEF WindowUpdates, Server!Next
<1>5. CASE ServerExits
  BY <1>5 DEF ServerExits, ServerEnds, serverVars, Server!vars, Server!serverVars, Server!uiVars
<1>6. CASE UNCHANGED vars
  BY <1>6 DEF vars, serverVars, Server!vars, Server!serverVars, Server!uiVars
<1>. QED  BY <1>1, <1>2, <1>3, <1>4, <1>5, <1>6 DEF Next

\* The server of the composed system is AvrtcServer, whatever the clients send and
\* however recv() takes it (server.cc:102-117): each message it acts on is an Add
\* that AvrtcServer allows.
THEOREM Implementation == Spec => Server!Spec
<1>1. Init => Server!Init
  BY DEF Init
<1>. QED  BY <1>1, StepIsServerStep, PTL DEF Spec, Server!Spec

-----------------------------------------------------------------------------
(* What AvrtcServerProofs says of the server holds of the server here. *)

Proved == INSTANCE AvrtcServerProofs
  WITH Conns <- Clients, MaxAdds <- Cardinality(Clients), MaxCloses <- 0

\* The two instances of the server start alike ...
LEMMA SameInit == Server!Init => Proved!Init
BY DEF Server!Init, Server!UiInit, Server!Lists, Server!Idle,
       Proved!Init, Proved!UiInit, Proved!Lists, Proved!Idle

\* ... compute the same ...
LEMMA SameOperators ==
  /\ \A map, S : Server!Restrict(map, S) = Proved!Restrict(map, S)
  /\ \A count : Server!SumOf(count) = Proved!SumOf(count)
  /\ \A map : Server!Range(map) = Proved!Range(map)
  /\ \A lists, task : Server!Shown(lists, task) = Proved!Shown(lists, task)
<1>1. \A map, S : Server!Restrict(map, S) = Proved!Restrict(map, S)
  BY DEF Server!Restrict, Proved!Restrict
<1>2. \A count : Server!SumOf(count) = Proved!SumOf(count)
  BY Zenon DEF Server!SumOf, Proved!SumOf, Server!FoldFunction, Proved!FoldFunction,
               Server!FoldFunctionOnSet, Proved!FoldFunctionOnSet,
               Server!MapThenFoldSet, Proved!MapThenFoldSet
<1>3. \A map : Server!Range(map) = Proved!Range(map)
  BY DEF Server!Range, Proved!Range
<1>4. \A lists, task : Server!Shown(lists, task) = Proved!Shown(lists, task)
  BY Zenon DEF Server!Shown, Proved!Shown, Server!RemoveFirstMatch,
               Proved!RemoveFirstMatch, Server!RemoveAt, Proved!RemoveAt,
               Server!SelectInSeq, Proved!SelectInSeq, Server!Min, Proved!Min
<1>. QED  BY <1>1, <1>2, <1>3, <1>4

\* ... and take the same steps.
LEMMA SameNext == Server!Next => Proved!Next
<1>. USE DEF Server!Lists, Proved!Lists, Server!Roles, Proved!Roles, Server!Idle,
             Proved!Idle, Server!Free, Proved!Free, Server!uiVars, Server!serverVars,
             Proved!uiVars, Proved!serverVars
<1>1. ASSUME NEW c, Server!OnAccept(c)  PROVE Proved!OnAccept(c)
  BY <1>1 DEF Server!OnAccept, Proved!OnAccept
<1>2. ASSUME NEW c, Server!CloseMessage(c)  PROVE Proved!CloseMessage(c)
  BY <1>2, SameOperators DEF Server!CloseMessage, Proved!CloseMessage, Server!Unregister,
              Proved!Unregister, Server!Erase, Proved!Erase, Server!RemoveClient,
              Proved!RemoveClient, Server!PushTask, Proved!PushTask
<1>3. ASSUME NEW c, Server!OnClose(c)  PROVE Proved!OnClose(c)
  BY <1>3, SameOperators DEF Server!OnClose, Proved!OnClose, Server!Unregister, Proved!Unregister,
              Server!Erase, Proved!Erase, Server!RemoveClient, Proved!RemoveClient,
              Server!PushTask, Proved!PushTask, Server!IdsOf, Proved!IdsOf
<1>4. ASSUME NEW c, NEW role, Server!AddMessage(c, role)  PROVE Proved!AddMessage(c, role)
  BY <1>4, SameOperators DEF Server!AddMessage, Proved!AddMessage, Server!AddClient, Proved!AddClient,
              Server!PushTask, Proved!PushTask, Server!Insert, Proved!Insert
<1>5. Server!EmitAndReply => Proved!EmitAndReply
  BY DEF Server!EmitAndReply, Proved!EmitAndReply, Server!Emit, Proved!Emit
<1>6. Server!GtkStep => Proved!GtkStep
  BY SameOperators DEF Server!GtkStep, Proved!GtkStep, Server!UiStep, Proved!UiStep,
                       Server!Dispatch, Proved!Dispatch, Server!RunUiTask,
                       Proved!RunUiTask, Server!DrainDone, Proved!DrainDone
<1>. QED  BY <1>1, <1>2, <1>3, <1>4, <1>5, <1>6
          DEF Server!Next, Proved!Next, Server!SocketStep, Proved!SocketStep

\* What the proofs below need of the server.
ServerInv ==
  /\ Server!TypeOK
  /\ told \in [Clients -> SUBSET [role : Server!Lists, id : Nat]]
  /\ \A i \in DOMAIN senders : i <= current_sender_id
  /\ Server!SenderIdsAreOwned

\* The server keeps its promises between the clients of Signalling.
LEMMA ServerInvariance == Spec => []ServerInv
<1>1. Cardinality(Clients) \in Nat /\ 0 \in Nat
  BY ClientsFinite, FS_CardinalityType
<1>2. Proved!Spec => []Proved!TypeOK
  BY <1>1, Proved!TypeCorrect
<1>3. Proved!Spec => []Proved!IdsInv
  BY <1>1, Proved!IdsInvariance
<1>4. Proved!Spec => []Proved!SenderIdsAreOwned
  BY <1>1, Proved!SenderIdsOwned
<1>5. [Server!Next]_(Server!vars) => [Proved!Next]_(Proved!vars)
  BY SameNext DEF Server!vars, Server!uiVars, Server!serverVars,
                  Proved!vars, Proved!uiVars, Proved!serverVars
<1>6. Server!Spec => Proved!Spec
  BY SameInit, <1>5, PTL DEF Server!Spec, Proved!Spec
<1>7. Proved!TypeOK => Server!TypeOK
  BY SameOperators DEF Proved!TypeOK, Server!TypeOK, Proved!UiTypeOK, Server!UiTypeOK, Proved!Lists,
         Server!Lists, Proved!Idle, Server!Idle
<1>8. Proved!IdsInv => /\ told \in [Clients -> SUBSET [role : Server!Lists, id : Nat]]
                       /\ \A i \in DOMAIN senders : i <= current_sender_id
  BY DEF Proved!IdsInv, Proved!ServerTypes, Proved!IdsBounded, Proved!Registrations,
         Proved!Lists, Server!Lists
<1>9. Proved!SenderIdsAreOwned => Server!SenderIdsAreOwned
  BY DEF Proved!SenderIdsAreOwned, Server!SenderIdsAreOwned
<1>10. Proved!TypeOK /\ Proved!IdsInv /\ Proved!SenderIdsAreOwned => ServerInv
  BY <1>7, <1>8, <1>9 DEF ServerInv
<1>. QED  BY <1>2, <1>3, <1>4, <1>6, <1>10, Implementation, PTL

-----------------------------------------------------------------------------
(* Types: both streams carry texts, whatever is cut off them. *)

TypeInv ==
  /\ port \in [Clients -> BOOLEAN]
  /\ at \in [Clients -> Places]
  /\ id \in [Clients -> Nat \cup {NoId, Misread}]
  /\ link \in [Clients -> Links]
  /\ up \in [Clients -> Seq(TextLines)]
  /\ down \in [Clients -> Seq(TextLines)]
  /\ split \in BOOLEAN
  /\ server \in {"up", "exited", "crashed"}

\* The two messages there are.
AddItems == <<Word("Add"), Word("Sender")>>
IdItems(n) == <<Word("Add"), Number(n)>>

\* Neither message is one that crashes its receiver.
LEMMA ItemsAre ==
  /\ AddItems \in Seq(Items) /\ AddItems # <<>> /\ AddItems \notin {<<>>, <<Word("Add")>>}
  /\ Len(AddItems) = 2 /\ AddItems[1] = Word("Add") /\ AddItems[2] = Word("Sender")
  /\ \A n \in Nat :
       /\ IdItems(n) \in Seq(Items) /\ IdItems(n) # <<>>
       /\ IdItems(n) \notin {<<>>, <<Word("Add")>>}
       /\ Len(IdItems(n)) = 2 /\ IdItems(n)[1] = Word("Add") /\ IdItems(n)[2] = Number(n)
<1>1. \A x, y : x \in Items /\ y \in Items =>
        <<x, y>> \in Seq(Items) /\ Len(<<x, y>>) = 2 /\ <<x, y>> # <<>> /\ <<x, y>> # <<x>>
  OBVIOUS
<1>2. Word("Add") \in Items /\ Word("Sender") \in Items /\ \A n \in Nat : Number(n) \in Items
  BY DEF Items
<1>. QED  BY <1>1, <1>2 DEF AddItems, IdItems

\* The text of a message is read as MessageRead says.
LEMMA MessageOf ==
  ASSUME NEW z \in Seq(Items), z # <<>>
  PROVE  IsMessage(SignallingText(z), z)
BY MessagePrinted DEF SignallingText

AddText == SignallingText(AddItems)
IdText(n) == SignallingText(IdItems(n))

\* So are the two texts of the signalling.
LEMMA TextsAre ==
  /\ IsMessage(AddText, AddItems) /\ AddText \in Seq(TextLines) /\ AddText # <<>>
  /\ \A n \in Nat : /\ IsMessage(IdText(n), IdItems(n))
                    /\ IdText(n) \in Seq(TextLines) /\ IdText(n) # <<>>
<1>1. IsMessage(AddText, AddItems)
  BY ItemsAre, MessageOf DEF AddText
<1>2. \A n \in Nat : IsMessage(IdText(n), IdItems(n))
  BY ItemsAre, MessageOf DEF IdText
<1>3. \A text, z : IsMessage(text, z) => text \in Seq(TextLines) /\ text # <<>>
  <2>. SUFFICES ASSUME NEW text, NEW z, IsMessage(text, z)
                PROVE  text \in Seq(TextLines) /\ text # <<>>
    OBVIOUS
  <2>1. text \in Seq(TextLines) /\ Len(text) = 5 /\ Len(<<>>) = 0
    BY DEF IsMessage
  <2>. QED  BY <2>1
<1>. QED  BY <1>1, <1>2, <1>3

\* What comes out of a message that is taken whole.
LEMMA WholeRead ==
  ASSUME NEW z \in Seq(Items), NEW text, IsMessage(text, z),
         NEW cut \in Cuts(text), cut.rest = <<>>
  PROVE  Parsed(cut.head, cut.ended).z = z
<1>1. text \in Seq(TextLines)
  BY DEF IsMessage
<1>2. cut.head = text /\ cut.ended = TRUE
  BY <1>1, CutsTyped
<1>. QED  BY <1>2, MessageRead

\* A reply is a text ...
LEMMA ReplyTyped ==
  ASSUME NEW registrations \in SUBSET [role : Server!Lists, id : Nat]
  PROVE  Reply(registrations) \in Seq(TextLines)
<1>1. CASE registrations = {}
  BY <1>1 DEF Reply
<1>2. CASE registrations # {}
  <2>1. PICK reg : reg = CHOOSE r \in registrations : TRUE
    OBVIOUS
  <2>2. reg \in registrations
    BY <1>2, <2>1
  <2>3. Reply(registrations) = IdText(reg.id)
    BY <1>2, <2>1 DEF Reply, IdText, IdItems
  <2>4. reg.id \in Nat
    BY <2>2
  <2>. QED  BY <2>3, <2>4, TextsAre
<1>. QED  BY <1>1, <1>2

\* ... that carries the id of the only registration.
LEMMA ReplyOne ==
  ASSUME NEW reg
  PROVE  Reply({reg}) = IdText(reg.id) /\ Reply({}) = <<>>
<1>1. (CHOOSE r \in {reg} : TRUE) = reg
  OBVIOUS
<1>. QED  BY <1>1 DEF Reply, IdText, IdItems

-----------------------------------------------------------------------------
\* A process that ends leaves types alone, the client's ...
LEMMA EndsTypes ==
  ASSUME TypeInv, NEW c \in Clients, NEW how \in {"exited", "crashed"}, Ends(c, how),
         split' \in BOOLEAN, server' = server
  PROVE  TypeInv'
<1>1. PICK end \in {"left", "aborted"} : link' = [link EXCEPT ![c] = IF @ = "open" THEN end ELSE @]
  BY DEF Ends
<1>2. link' \in [Clients -> Links]
  BY <1>1 DEF TypeInv, Links
<1>3. at' \in [Clients -> Places]
  BY DEF TypeInv, Ends, Places
<1>4. down' \in [Clients -> Seq(TextLines)]
  BY DEF TypeInv, Ends
<1>. QED  BY <1>2, <1>3, <1>4 DEF TypeInv, Ends

\* ... and the server's.
LEMMA ServerEndsTypes ==
  ASSUME TypeInv, NEW how \in {"exited", "crashed"}, NEW unread, ServerEnds(how, unread),
         up' \in [Clients -> Seq(TextLines)], split' \in BOOLEAN, UNCHANGED <<port, at, id, down>>
  PROVE  TypeInv'
<1>1. link' \in [Clients -> Links]
  BY DEF ServerEnds, TypeInv, Links
<1>. QED  BY <1>1 DEF TypeInv, ServerEnds

\* Whatever part of a reply std::stoi gets, the id is a number or misread.
LEMMA RecvTypes ==
  ASSUME TypeInv, NEW c \in Clients, Recv(c), server' = server
  PROVE  TypeInv'
<1>1. CASE \E cut \in Cuts(down[c]) :
          LET z == Parsed(cut.head, cut.ended).z
          IN  /\ split' = (split \/ cut.rest # <<>>)
              /\ \/ /\ OnReceive(c, z)
                    /\ down' = [down EXCEPT ![c] = cut.rest]
                 \/ /\ z \in {<<>>, <<Word("Add")>>}
                    /\ Ends(c, "crashed")
  <2>1. PICK cut \in Cuts(down[c]) :
          LET z == Parsed(cut.head, cut.ended).z
          IN  /\ split' = (split \/ cut.rest # <<>>)
              /\ \/ /\ OnReceive(c, z)
                    /\ down' = [down EXCEPT ![c] = cut.rest]
                 \/ /\ z \in {<<>>, <<Word("Add")>>}
                    /\ Ends(c, "crashed")
    BY <1>1
  <2>2. PICK z : z = Parsed(cut.head, cut.ended).z
    OBVIOUS
  <2>3. down[c] \in Seq(TextLines)
    BY DEF TypeInv
  <2>4. cut.head \in Seq(TextLines) /\ cut.rest \in Seq(TextLines)
    BY <2>3, CutsTyped
  <2>5. z \in Seq(Items)
    BY <2>2, <2>4, ParsedTyped
  <2>6. split' \in BOOLEAN
    BY <2>1 DEF TypeInv
  <2>7. CASE OnReceive(c, z) /\ down' = [down EXCEPT ![c] = cut.rest]
    <3>1. down' \in [Clients -> Seq(TextLines)]
      BY <2>4, <2>7 DEF TypeInv
    <3>2. /\ UNCHANGED <<port, at, link, up>>
          /\ \/ id' = id
             \/ Len(z) = 2 /\ id' = [id EXCEPT ![c] = IF z[2] = Fragment THEN Misread ELSE z[2].number]
             \/ id' = [id EXCEPT ![c] = Misread]
      BY <2>7 DEF OnReceive
    <3>3. Len(z) = 2 => z[2].number \in Nat
      <4>1. ASSUME Len(z) = 2  PROVE z[2] \in Items
        <5>1. 2 \in 1..Len(z)
          BY <4>1
        <5>. QED  BY <2>5, <5>1, ElementOfSeq
      <4>2. /\ Word("Add").number = 0 /\ Word("Sender").number = 0 /\ Fragment.number = 0
            /\ \A n : Number(n).number = n
        BY DEF Word, Fragment, Number
      <4>3. \A item \in Items : item.number \in Nat
        BY <4>2 DEF Items
      <4>. QED  BY <4>1, <4>3
    <3>4. id' \in [Clients -> Nat \cup {NoId, Misread}]
      BY <3>2, <3>3 DEF TypeInv
    <3>. QED  BY <2>6, <3>1, <3>2, <3>4 DEF TypeInv
  <2>8. CASE Ends(c, "crashed")
    BY <2>6, <2>8, EndsTypes
  <2>. QED  BY <2>1, <2>2, <2>7, <2>8
<1>2. CASE Ends(c, "crashed") /\ UNCHANGED split
  BY <1>2, EndsTypes DEF TypeInv
<1>. QED  BY <1>1, <1>2 DEF Recv

\* What Receive() leaves in the stream is a text again.
LEMMA ReceiveTypes ==
  ASSUME TypeInv, NEW c \in Clients, Receive(c)
  PROVE  TypeInv'
<1>1. PICK cut \in Cuts(up[c]) :
        /\ up' = [up EXCEPT ![c] = cut.rest]
        /\ split' = (split \/ cut.rest # <<>>)
        /\ UNCHANGED <<link, server>> \/ ServerEnds("crashed", up')
  BY DEF Receive
<1>2. UNCHANGED <<port, at, id, down>>
  BY DEF Receive
<1>3. up[c] \in Seq(TextLines)
  BY DEF TypeInv
<1>4. cut.rest \in Seq(TextLines)
  BY <1>3, CutsTyped
<1>5. up' \in [Clients -> Seq(TextLines)]
  BY <1>1, <1>4 DEF TypeInv
<1>6. split' \in BOOLEAN
  BY <1>1 DEF TypeInv
<1>7. CASE UNCHANGED <<link, server>>
  BY <1>2, <1>5, <1>6, <1>7 DEF TypeInv
<1>8. CASE ServerEnds("crashed", up')
  <2>1. PICK unread : unread = up'
    OBVIOUS
  <2>. QED  BY <1>2, <1>5, <1>6, <1>8, <2>1, ServerEndsTypes
<1>. QED  BY <1>1, <1>7, <1>8

\* A reply lengthens the text that is on its way to the client.
LEMMA EmitTypes ==
  ASSUME TypeInv, ServerInv, EmitAndReply
  PROVE  TypeInv'
<1>1. PICK c : c = handler.client
  OBVIOUS
<1>2. c \in Clients /\ handler.reply \in SUBSET [role : Server!Lists, id : Nat]
  BY <1>1 DEF EmitAndReply, Server!EmitAndReply, Server!Free, ServerInv, Server!TypeOK
<1>3. PICK reply : reply = Reply(handler.reply)
  OBVIOUS
<1>4. reply \in Seq(TextLines)
  BY <1>2, <1>3, ReplyTyped
<1>5. down' = [down EXCEPT ![c] = IF link[c] # "open" THEN @ ELSE @ \o reply]
  BY <1>1, <1>3 DEF EmitAndReply
<1>6. down[c] \in Seq(TextLines)
  BY <1>2 DEF TypeInv
<1>7. down[c] \o reply \in Seq(TextLines)
  BY <1>4, <1>6, ConcatProperties
<1>8. down' \in [Clients -> Seq(TextLines)]
  BY <1>5, <1>6, <1>7 DEF TypeInv
<1>. QED  BY <1>8 DEF EmitAndReply, TypeInv

\* A step of a client keeps the types.
LEMMA ClientTypes ==
  ASSUME TypeInv, NEW c \in Clients, UserStep(c) \/ ClientStep(c)
  PROVE  TypeInv'
<1>1. server' = server
  BY DEF UserStep, ClientStep
<1>2. CASE OnConnectButtonClicked(c)
  BY <1>1, <1>2 DEF OnConnectButtonClicked, TypeInv, Places
<1>3. CASE CloseWindow(c)
  BY <1>1, <1>3, EndsTypes DEF CloseWindow, TypeInv
<1>4. CASE Connect(c, server = "up")
  <2>1. CASE Ends(c, "crashed") /\ UNCHANGED split
    BY <1>1, <2>1, EndsTypes DEF TypeInv
  <2>2. CASE /\ at' = [at EXCEPT ![c] = "connected"]
             /\ link' = [link EXCEPT ![c] = "open"]
             /\ UNCHANGED <<port, id, up, down, split>>
    BY <1>1, <2>2 DEF TypeInv, Places, Links
  <2>. QED  BY <1>4, <2>1, <2>2 DEF Connect
<1>5. CASE OnConnected(c)
  <2>1. PICK text : text = AddText
    OBVIOUS
  <2>2. up' = up \/ up' = [up EXCEPT ![c] = @ \o text]
    BY <1>5, <2>1 DEF OnConnected, AddText, AddItems
  <2>3. up[c] \in Seq(TextLines) /\ text \in Seq(TextLines)
    BY <2>1, TextsAre DEF TypeInv
  <2>4. up[c] \o text \in Seq(TextLines)
    BY <2>3, ConcatProperties
  <2>5. up' \in [Clients -> Seq(TextLines)]
    BY <2>2, <2>4 DEF TypeInv
  <2>6. at' \in [Clients -> Places] /\ link' \in [Clients -> Links]
    BY <1>5 DEF OnConnected, TypeInv, Places, Links
  <2>7. UNCHANGED <<port, id, down, split>>
    BY <1>5 DEF OnConnected
  <2>. QED  BY <1>1, <2>5, <2>6, <2>7 DEF TypeInv
<1>6. CASE Recv(c)
  BY <1>1, <1>6, RecvTypes
<1>. QED  BY <1>2, <1>3, <1>4, <1>5, <1>6 DEF UserStep, ClientStep, ClientWorks

\* So does every step.
LEMMA NextTypes ==
  ASSUME TypeInv, ServerInv, [Next]_vars
  PROVE  TypeInv'
<1>1. ASSUME UNCHANGED <<clientVars, server>>  PROVE TypeInv'
  BY <1>1 DEF clientVars, TypeInv
<1>2. ASSUME NEW c \in Clients, UserStep(c) \/ ClientStep(c)  PROVE TypeInv'
  BY <1>2, ClientTypes
<1>3. ASSUME NEW c \in Clients, Serve(c)  PROVE TypeInv'
  <2>1. CASE Accept(c) \/ ReceiveEnd(c)
    BY <1>1, <2>1 DEF Accept, ReceiveEnd
  <2>2. CASE Receive(c)
    BY <2>2, ReceiveTypes
  <2>3. CASE ReceiveError(c)
    <3>1. PICK unread : unread = up
      OBVIOUS
    <3>2. ServerEnds("crashed", unread) /\ UNCHANGED <<port, at, id, up, down, split>>
      BY <2>3, <3>1 DEF ReceiveError
    <3>. QED  BY <3>2, ServerEndsTypes DEF TypeInv
  <2>. QED  BY <1>3, <2>1, <2>2, <2>3 DEF Serve
<1>4. CASE EmitAndReply
  BY <1>4, EmitTypes
<1>5. CASE WindowUpdates
  BY <1>1, <1>5 DEF WindowUpdates
<1>6. CASE ServerExits
  <2>1. PICK unread : unread = up
    OBVIOUS
  <2>2. ServerEnds("exited", unread) /\ UNCHANGED <<port, at, id, up, down, split>>
    BY <1>6, <2>1 DEF ServerExits
  <2>. QED  BY <2>2, ServerEndsTypes DEF TypeInv
<1>7. CASE UNCHANGED vars
  BY <1>1, <1>7 DEF vars
<1>. QED  BY <1>2, <1>3, <1>4, <1>5, <1>6, <1>7 DEF Next

\* The types of the clients and the connections.
LEMMA TypesInvariance == Spec => []TypeInv
<1>1. Init => TypeInv
  <2>1. <<>> \in Seq(TextLines)
    OBVIOUS
  <2>. QED  BY <2>1 DEF Init, ClientInit, TypeInv, Places, Links
<1>2. ServerInv /\ TypeInv /\ [Next]_vars => TypeInv'
  BY NextTypes
<1>. QED  BY <1>1, <1>2, ServerInvariance, PTL DEF Spec

\* Every variable keeps its type, in pieces or whole: an id is one the server
\* gave out, or misread, and both streams carry texts (client.cc:16-29,
\* server.cc:102-117).
THEOREM TypeCorrect == Spec => []TypeOK
<1>1. TypeInv /\ ServerInv => TypeOK
  BY DEF TypeInv, ServerInv, TypeOK
<1>. QED  BY <1>1, TypesInvariance, ServerInvariance, PTL

-----------------------------------------------------------------------------
(* Messages that come whole.  A client is silent, has asked, is handled or   *)
(* is answered, and each of its variables says which.                        *)

Before == {"entry", "posted", "connected"}

\* The registrations the handler that is running will tell c of.
Pending(c) == IF handler # Server!Idle /\ handler.client = c THEN handler.reply ELSE {}

Owns(c, reg) ==
  /\ reg.role = "Sender"
  /\ conn[c] # "closed" => reg.id \in DOMAIN senders /\ senders[reg.id] = c

Untold(c) == id[c] = NoId /\ told[c] = {} /\ down[c] = <<>>

Silent(c) == up[c] = <<>> /\ Untold(c) /\ Pending(c) = {}

Asked(c) == up[c] = AddText /\ Untold(c) /\ Pending(c) = {}

Handled(c) ==
  /\ up[c] = <<>> /\ Untold(c)
  /\ \E reg \in [role : Server!Lists, id : Nat] : Pending(c) = {reg} /\ Owns(c, reg)

Answered(c) ==
  /\ up[c] = <<>> /\ Pending(c) = {}
  /\ \E reg \in [role : Server!Lists, id : Nat] :
       /\ told[c] = {reg} /\ Owns(c, reg)
       /\ \/ down[c] = <<>> /\ id[c] \in {NoId, reg.id}
          \/ down[c] = IdText(reg.id) /\ id[c] = NoId

Stage(c) ==
  \/ Silent(c)
  \/ at[c] \notin Before /\ (Asked(c) \/ Handled(c) \/ Answered(c))

Stages == ~split => \A c \in Clients : Stage(c)

\* A client's stage depends on its own variables, and on what else registered
\* under its ids.
LEMMA StageKept ==
  ASSUME NEW c, Stage(c),
         at[c]' \in Before => at[c] \in Before,
         up[c]' = up[c], id[c]' = id[c], told[c]' = told[c], Pending(c)' = Pending(c),
         down[c]' = down[c] \/ down[c]' = <<>>,
         conn[c]' # "closed" => conn[c] # "closed",
         \A i \in DOMAIN senders :
           conn[c]' # "closed" /\ senders[i] = c => i \in DOMAIN senders' /\ senders'[i] = c
  PROVE  Stage(c)'
<1>1. \A reg : Owns(c, reg) => Owns(c, reg)'
  BY DEF Owns
<1>2. Untold(c) => Untold(c)'
  BY DEF Untold
<1>3. CASE Silent(c)
  BY <1>2, <1>3 DEF Silent, Stage
<1>4. CASE at[c] \notin Before /\ Asked(c)
  BY <1>2, <1>4 DEF Asked, Stage
<1>5. CASE at[c] \notin Before /\ Handled(c)
  BY <1>1, <1>2, <1>5 DEF Handled, Stage
<1>6. CASE at[c] \notin Before /\ Answered(c)
  <2>1. PICK reg \in [role : Server!Lists, id : Nat] :
          /\ told[c] = {reg} /\ Owns(c, reg)
          /\ \/ down[c] = <<>> /\ id[c] \in {NoId, reg.id}
             \/ down[c] = IdText(reg.id) /\ id[c] = NoId
    BY <1>6 DEF Answered
  <2>2. /\ told[c]' = {reg} /\ Owns(c, reg)'
        /\ \/ down[c]' = <<>> /\ id[c]' \in {NoId, reg.id}
           \/ down[c]' = IdText(reg.id) /\ id[c]' = NoId
    BY <1>1, <2>1
  <2>3. Answered(c)'
    BY <1>6, <2>2 DEF Answered
  <2>. QED  BY <1>6, <2>3 DEF Stage
<1>. QED  BY <1>3, <1>4, <1>5, <1>6 DEF Stage

\* A whole message is the Add of a client that has not been answered ...
LEMMA UpWhole ==
  ASSUME NEW c, Stage(c), NEW cut \in Cuts(up[c]), cut.rest = <<>>
  PROVE  /\ at[c] \notin Before /\ Asked(c)
         /\ Parsed(cut.head, cut.ended).z = AddItems
<1>1. up[c] # <<>>
  <2>1. <<>> \in Seq(TextLines)
    OBVIOUS
  <2>. QED  BY <2>1, CutsTyped
<1>2. at[c] \notin Before /\ Asked(c)
  BY <1>1 DEF Stage, Silent, Handled, Answered
<1>3. PICK text : text = AddText
  OBVIOUS
<1>4. IsMessage(text, AddItems) /\ cut \in Cuts(text)
  BY <1>2, <1>3, TextsAre DEF Asked
<1>. QED  BY <1>2, <1>4, ItemsAre, WholeRead

\* ... or the answer to it.
LEMMA DownWhole ==
  ASSUME NEW c, Stage(c), NEW cut \in Cuts(down[c]), cut.rest = <<>>
  PROVE  /\ at[c] \notin Before /\ Answered(c)
         /\ \E reg \in [role : Server!Lists, id : Nat] :
              /\ told[c] = {reg} /\ Owns(c, reg)
              /\ Parsed(cut.head, cut.ended).z = IdItems(reg.id)
<1>1. down[c] # <<>>
  <2>1. <<>> \in Seq(TextLines)
    OBVIOUS
  <2>. QED  BY <2>1, CutsTyped
<1>2. at[c] \notin Before /\ Answered(c)
  BY <1>1 DEF Stage, Silent, Asked, Handled, Untold
<1>3. PICK reg \in [role : Server!Lists, id : Nat] :
        told[c] = {reg} /\ Owns(c, reg) /\ down[c] = IdText(reg.id)
  BY <1>1, <1>2 DEF Answered
<1>4. reg.id \in Nat
  OBVIOUS
<1>5. PICK text : text = IdText(reg.id)
  OBVIOUS
<1>6. IsMessage(text, IdItems(reg.id)) /\ cut \in Cuts(text)
  BY <1>3, <1>4, <1>5, TextsAre
<1>7. Parsed(cut.head, cut.ended).z = IdItems(reg.id)
  BY <1>4, <1>6, ItemsAre, WholeRead
<1>. QED  BY <1>2, <1>3, <1>7

-----------------------------------------------------------------------------
\* What a client's step does to itself.
LEMMA EndsStage ==
  ASSUME TypeInv, NEW c \in Clients, Stage(c), NEW how \in {"exited", "crashed"}, Ends(c, how),
         UNCHANGED serverVars
  PROVE  Stage(c)'
<1>1. at[c]' \notin Before
  BY DEF Ends, TypeInv, Before
<1>2. down[c]' = <<>> /\ up' = up /\ id' = id
  BY DEF Ends, TypeInv
<1>3. UNCHANGED <<conn, senders, told, handler>>
  BY DEF serverVars
<1>4. Pending(c)' = Pending(c)
  BY <1>3 DEF Pending
<1>. QED  BY <1>1, <1>2, <1>3, <1>4, StageKept

\* A whole answer gives the client its id.
LEMMA RecvStage ==
  ASSUME TypeInv, NEW c \in Clients, Stage(c), Recv(c), UNCHANGED serverVars, ~split'
  PROVE  Stage(c)'
<1>1. CASE \E cut \in Cuts(down[c]) :
          LET z == Parsed(cut.head, cut.ended).z
          IN  /\ split' = (split \/ cut.rest # <<>>)
              /\ \/ /\ OnReceive(c, z)
                    /\ down' = [down EXCEPT ![c] = cut.rest]
                 \/ /\ z \in {<<>>, <<Word("Add")>>}
                    /\ Ends(c, "crashed")
  <2>1. PICK cut \in Cuts(down[c]) :
          LET z == Parsed(cut.head, cut.ended).z
          IN  /\ split' = (split \/ cut.rest # <<>>)
              /\ \/ /\ OnReceive(c, z)
                    /\ down' = [down EXCEPT ![c] = cut.rest]
                 \/ /\ z \in {<<>>, <<Word("Add")>>}
                    /\ Ends(c, "crashed")
    BY <1>1
  <2>2. PICK z : z = Parsed(cut.head, cut.ended).z
    OBVIOUS
  <2>3. cut.rest = <<>>
    BY <2>1
  <2>4. at[c] \notin Before /\ Answered(c)
    BY <2>3, DownWhole
  <2>5. PICK reg \in [role : Server!Lists, id : Nat] :
          told[c] = {reg} /\ Owns(c, reg) /\ z = IdItems(reg.id)
    BY <2>2, <2>3, DownWhole
  <2>6. CASE Ends(c, "crashed")
    BY <2>6, EndsStage
  <2>7. CASE OnReceive(c, z) /\ down' = [down EXCEPT ![c] = cut.rest]
    <3>1. reg.id \in Nat /\ Len(z) = 2 /\ z[1] = Word("Add") /\ z[2] = Number(reg.id)
          /\ z # <<Word("Add")>>
      BY <2>5, ItemsAre
    <3>2. Number(reg.id) # Fragment /\ Number(reg.id).number = reg.id
      BY DEF Number, Fragment
    <3>3. id' = [id EXCEPT ![c] = reg.id] /\ UNCHANGED <<at, up>>
      BY <2>7, <3>1, <3>2 DEF OnReceive
    <3>4. id[c]' = reg.id /\ down[c]' = <<>>
      BY <2>3, <2>7, <3>3 DEF TypeInv
    <3>5. UNCHANGED <<conn, senders, told, handler>>
      BY DEF serverVars
    <3>6. Pending(c)' = Pending(c) /\ Owns(c, reg)'
      BY <2>5, <3>5 DEF Pending, Owns
    <3>7. told[c]' = {reg} /\ up[c]' = <<>> /\ Pending(c)' = {}
      BY <2>4, <2>5, <3>3, <3>5, <3>6 DEF Answered
    <3>8. Answered(c)'
      BY <3>4, <3>6, <3>7 DEF Answered
    <3>. QED  BY <2>4, <3>3, <3>8 DEF Stage
  <2>. QED  BY <2>1, <2>2, <2>6, <2>7
<1>2. CASE Ends(c, "crashed")
  BY <1>2, EndsStage
<1>. QED  BY <1>1, <1>2 DEF Recv

\* No step of a client takes it anywhere else.
LEMMA ClientStage ==
  ASSUME TypeInv, NEW c \in Clients, Stage(c), UserStep(c) \/ ClientStep(c), ~split'
  PROVE  Stage(c)'
<1>1. UNCHANGED serverVars
  BY DEF UserStep, ClientStep
<1>2. UNCHANGED <<conn, senders, told, handler>>
  BY <1>1 DEF serverVars
<1>3. Pending(c)' = Pending(c)
  BY <1>2 DEF Pending
<1>4. CASE OnConnectButtonClicked(c)
  <2>1. at[c] \in Before /\ UNCHANGED <<up, id, down>>
    BY <1>4 DEF OnConnectButtonClicked, Before
  <2>. QED  BY <1>2, <1>3, <2>1, StageKept
<1>5. CASE CloseWindow(c)
  BY <1>1, <1>5, EndsStage DEF CloseWindow
<1>6. CASE Connect(c, server = "up")
  <2>1. CASE Ends(c, "crashed")
    BY <1>1, <2>1, EndsStage
  <2>2. CASE UNCHANGED <<id, up, down>>
    <3>1. at[c] \in Before
      BY <1>6 DEF Connect, Before
    <3>. QED  BY <1>2, <1>3, <2>2, <3>1, StageKept
  <2>. QED  BY <1>6, <2>1, <2>2 DEF Connect
<1>7. CASE OnConnected(c)
  <2>1. at[c] \in Before /\ at[c]' \notin Before /\ UNCHANGED <<id, down>>
    BY <1>7 DEF OnConnected, Before, TypeInv
  <2>2. Silent(c)
    BY <2>1 DEF Stage
  <2>3. CASE UNCHANGED up
    BY <1>2, <1>3, <2>1, <2>3, StageKept
  <2>4. CASE up' = [up EXCEPT ![c] = @ \o AddText]
    <3>1. PICK text : text = AddText
      OBVIOUS
    <3>2. text \in Seq(TextLines) /\ up[c] = <<>>
      BY <2>2, <3>1, TextsAre DEF Silent
    <3>3. up[c]' = <<>> \o text
      BY <2>4, <3>1, <3>2 DEF TypeInv
    <3>4. up[c]' = AddText
      BY <3>1, <3>2, <3>3, ConcatEmptySeq
    <3>5. Untold(c)' /\ Pending(c)' = {}
      BY <1>2, <1>3, <2>1, <2>2 DEF Silent, Untold
    <3>. QED  BY <2>1, <3>4, <3>5 DEF Asked, Stage
  <2>. QED  BY <1>7, <2>3, <2>4 DEF OnConnected, AddText, AddItems
<1>8. CASE Recv(c)
  BY <1>1, <1>8, RecvStage
<1>. QED  BY <1>4, <1>5, <1>6, <1>7, <1>8 DEF UserStep, ClientStep, ClientWorks

\* ... and to the others.
LEMMA OtherClientStage ==
  ASSUME TypeInv, NEW c \in Clients, NEW d \in Clients, d # c, Stage(d),
         UserStep(c) \/ ClientStep(c)
  PROVE  Stage(d)'
<1>1. UNCHANGED <<conn, senders, told, handler>>
  BY DEF UserStep, ClientStep, serverVars
<1>2. Pending(d)' = Pending(d)
  BY <1>1 DEF Pending
<1>3. at[d]' = at[d] /\ up[d]' = up[d] /\ id[d]' = id[d] /\ down[d]' = down[d]
  <2>1. ASSUME NEW how, Ends(c, how)
        PROVE  at[d]' = at[d] /\ up[d]' = up[d] /\ id[d]' = id[d] /\ down[d]' = down[d]
    BY <2>1 DEF Ends, TypeInv
  <2>2. CASE OnConnectButtonClicked(c)
    BY <2>2 DEF OnConnectButtonClicked, TypeInv
  <2>3. CASE Connect(c, server = "up")
    BY <2>1, <2>3 DEF Connect, TypeInv
  <2>4. CASE OnConnected(c)
    BY <2>4 DEF OnConnected, TypeInv
  <2>5. CASE Recv(c)
    <3>1. ASSUME NEW z, NEW rest, OnReceive(c, z), down' = [down EXCEPT ![c] = rest]
          PROVE  at[d]' = at[d] /\ up[d]' = up[d] /\ id[d]' = id[d] /\ down[d]' = down[d]
      BY <3>1 DEF OnReceive, TypeInv
    <3>. QED  BY <2>1, <2>5, <3>1 DEF Recv
  <2>. QED  BY <2>1, <2>2, <2>3, <2>4, <2>5 DEF UserStep, ClientStep, CloseWindow, ClientWorks
<1>. QED  BY <1>1, <1>2, <1>3, StageKept

\* What a registration by c does to the stage of c and of the others.
LEMMA AddStage ==
  ASSUME TypeInv, ServerInv, NEW c \in Clients, Stage(c), Asked(c), at[c] \notin Before,
         Server!AddMessage(c, "Sender"), up' = [up EXCEPT ![c] = <<>>],
         UNCHANGED <<at, id, down>>
  PROVE  /\ Stage(c)'
         /\ \A d \in Clients \ {c} : Stage(d) => Stage(d)'
<1>1. PICK n : n = current_sender_id + 1
  OBVIOUS
<1>2. /\ handler = Server!Idle /\ conn[c] = "open"
      /\ UNCHANGED <<conn, told>> /\ current_sender_id' = n
      /\ senders' = Server!Insert(senders, n, c)
      /\ handler' = [step |-> "emit", client |-> c,
                     reply |-> {[role |-> "Sender", id |-> n]}]
  BY <1>1 DEF Server!AddMessage, Server!Free
<1>3. n \in Nat /\ n \notin DOMAIN senders
  <2>1. current_sender_id \in Nat /\ DOMAIN senders \subseteq Nat
    BY DEF ServerInv, Server!TypeOK
  <2>2. \A i \in DOMAIN senders : i <= current_sender_id
    BY DEF ServerInv
  <2>. QED  BY <1>1, <2>1, <2>2
<1>4. /\ senders'[n] = c /\ n \in DOMAIN senders'
      /\ \A i \in DOMAIN senders : i \in DOMAIN senders' /\ senders'[i] = senders[i]
  BY <1>2, <1>3 DEF Server!Insert
<1>5. PICK reg : reg = [role |-> "Sender", id |-> n]
  OBVIOUS
<1>6. reg \in [role : Server!Lists, id : Nat] /\ reg.role = "Sender" /\ reg.id = n
  BY <1>3, <1>5 DEF Server!Lists
<1>7. handler' # Server!Idle /\ handler'.client = c /\ handler'.reply = {reg}
  <2>1. DOMAIN handler' # DOMAIN Server!Idle
    <3>1. "client" \in DOMAIN handler' /\ "client" \notin DOMAIN Server!Idle
      BY <1>2 DEF Server!Idle
    <3>. QED  BY <3>1
  <2>. QED  BY <1>2, <1>5, <2>1
<1>8. Pending(c)' = {reg} /\ \A d \in Clients \ {c} : Pending(d)' = {} /\ Pending(d) = {}
  BY <1>2, <1>7 DEF Pending
<1>9. Handled(c)'
  <2>1. up[c]' = <<>> /\ Untold(c)'
    BY <1>2 DEF TypeInv, Asked, Untold
  <2>2. Owns(c, reg)'
    BY <1>4, <1>6 DEF Owns
  <2>. QED  BY <1>6, <1>8, <2>1, <2>2 DEF Handled
<1>10. ASSUME NEW d \in Clients \ {c}, Stage(d)  PROVE Stage(d)'
  <2>1. up[d]' = up[d]
    BY DEF TypeInv
  <2>. QED  BY <1>2, <1>4, <1>8, <1>10, <2>1, StageKept
<1>. QED  BY <1>9, <1>10 DEF Stage

\* A Receive() that takes what there is handles an Add.
LEMMA ReceiveWhole ==
  ASSUME TypeInv, NEW c \in Clients, Stage(c), Receive(c), ~split'
  PROVE  /\ at[c] \notin Before /\ Asked(c)
         /\ Server!AddMessage(c, "Sender") /\ up' = [up EXCEPT ![c] = <<>>]
         /\ UNCHANGED <<at, id, down, link, port, server>>
<1>1. PICK cut \in Cuts(up[c]) :
       LET z == Parsed(cut.head, cut.ended).z
       IN  /\ up' = [up EXCEPT ![c] = cut.rest]
           /\ split' = (split \/ cut.rest # <<>>)
           /\ \/ /\ z # <<>> /\ z[1] = Word("Add")
                 /\ Server!AddMessage(c, RoleOf(z))
                 /\ UNCHANGED <<link, server>>
              \/ /\ z # <<>> /\ z[1] # Word("Add")
                 /\ UNCHANGED <<serverVars, link, server>>
              \/ /\ z \in {<<>>, <<Word("Add")>>}
                 /\ ServerEnds("crashed", up')
  BY DEF Receive
<1>2. PICK z : z = Parsed(cut.head, cut.ended).z
  OBVIOUS
<1>3. cut.rest = <<>>
  BY <1>1
<1>4. at[c] \notin Before /\ Asked(c) /\ z = AddItems
  BY <1>2, <1>3, UpWhole
<1>5. /\ z # <<>> /\ z[1] = Word("Add") /\ z[2] = Word("Sender") /\ Len(z) = 2
      /\ z \notin {<<>>, <<Word("Add")>>}
  BY <1>4, ItemsAre
<1>6. RoleOf(z) = "Sender"
  <2>1. Word("Sender").text = "Sender"
    BY DEF Word
  <2>. QED  BY <1>5, <2>1 DEF RoleOf, Server!Lists
<1>7. Server!AddMessage(c, "Sender") /\ UNCHANGED <<link, server>>
  BY <1>1, <1>2, <1>5, <1>6
<1>8. UNCHANGED <<port, at, id, down>>
  BY DEF Receive
<1>. QED  BY <1>1, <1>3, <1>4, <1>7, <1>8

\* The connection that closes takes no entry but its own.
LEMMA CloseStage ==
  ASSUME ServerInv, NEW c \in Clients, ReceiveEnd(c), NEW d \in Clients, Stage(d)
  PROVE  Stage(d)'
<1>1. /\ handler = Server!Idle /\ told' = told /\ UNCHANGED <<at, up, id, down>>
      /\ conn' = [conn EXCEPT ![c] = "closed"]
  BY DEF ReceiveEnd, clientVars, Server!OnClose, Server!Free
<1>2. conn \in [Clients -> {"new", "open", "closed"}]
  BY DEF ServerInv, Server!TypeOK
<1>3. conn[d]' # "closed" => d # c /\ conn[d]' = conn[d]
  BY <1>1, <1>2
<1>4. CASE \E role, i : Server!Unregister(c, role, i) /\ (role = "Sender" => i \in Server!IdsOf(c, senders))
  <2>1. PICK role, i : Server!Unregister(c, role, i) /\ (role = "Sender" => i \in Server!IdsOf(c, senders))
    BY <1>4
  <2>2. handler' = [step |-> "emit", client |-> c, reply |-> {}]
    BY <2>1 DEF Server!Unregister
  <2>3. Pending(d)' = {} /\ Pending(d) = {}
    BY <1>1, <2>2 DEF Pending
  <2>4. ASSUME NEW j \in DOMAIN senders, d # c, senders[j] = d
        PROVE  j \in DOMAIN senders' /\ senders'[j] = d
    <3>1. CASE role = "Sender"
      <4>1. senders' = Server!Erase(senders, i) /\ senders[i] = c
        BY <2>1, <3>1 DEF Server!Unregister, Server!IdsOf
      <4>2. j # i
        BY <2>4, <4>1
      <4>. QED  BY <2>4, <4>1, <4>2 DEF Server!Erase, Server!Restrict
    <3>2. CASE role # "Sender"
      BY <2>1, <2>4, <3>2 DEF Server!Unregister
    <3>. QED  BY <3>1, <3>2
  <2>. QED  BY <1>1, <1>3, <2>3, <2>4, StageKept
<1>5. CASE UNCHANGED <<senders, handler>>
  <2>1. Pending(d)' = Pending(d)
    BY <1>5 DEF Pending
  <2>. QED  BY <1>1, <1>3, <1>5, <2>1, StageKept
<1>. QED  BY <1>4, <1>5 DEF ReceiveEnd, Server!OnClose

\* The end of a handler answers its client.
LEMMA EmitStage ==
  ASSUME TypeInv, ServerInv, EmitAndReply, NEW d \in Clients, Stage(d)
  PROVE  Stage(d)'
<1>1. PICK c : c = handler.client
  OBVIOUS
<1>2. PICK reply : reply = handler.reply
  OBVIOUS
<1>3. /\ handler # Server!Idle /\ handler' = Server!Idle
      /\ UNCHANGED <<at, up, id, conn, senders, link>>
      /\ told' = [told EXCEPT ![c] = @ \cup reply]
  BY <1>1, <1>2 DEF EmitAndReply, Server!EmitAndReply, Server!Free
<1>4. c \in Clients /\ told \in [Clients -> SUBSET [role : Server!Lists, id : Nat]]
  BY <1>1, <1>3 DEF ServerInv, Server!TypeOK
<1>5. down' = [down EXCEPT ![c] = IF link[c] # "open" THEN @ ELSE @ \o Reply(reply)]
  BY <1>1, <1>2 DEF EmitAndReply
<1>6. Pending(d)' = {} /\ Pending(c) = reply /\ (d # c => Pending(d) = {})
  BY <1>1, <1>2, <1>3 DEF Pending
<1>7. CASE d # c
  <2>1. told[d]' = told[d] /\ down[d]' = down[d]
    BY <1>3, <1>4, <1>5, <1>7 DEF TypeInv
  <2>. QED  BY <1>3, <1>6, <1>7, <2>1, StageKept
<1>8. CASE d = c /\ reply = {}
  <2>1. told[d]' = told[d]
    BY <1>3, <1>4, <1>8
  <2>2. PICK text : text = down[c]
    OBVIOUS
  <2>3. text \in Seq(TextLines) /\ Reply(reply) = <<>>
    BY <1>4, <1>8, <2>2, ReplyOne DEF TypeInv
  <2>4. text \o <<>> = text
    BY <2>3, ConcatEmptySeq
  <2>5. down[d]' = down[d]
    BY <1>4, <1>5, <1>8, <2>2, <2>3, <2>4 DEF TypeInv
  <2>. QED  BY <1>3, <1>6, <1>8, <2>1, <2>5, StageKept
<1>9. CASE d = c /\ reply # {}
  <2>1. at[d] \notin Before /\ Handled(d)
    BY <1>6, <1>9 DEF Stage, Silent, Asked, Answered
  <2>2. PICK reg \in [role : Server!Lists, id : Nat] : reply = {reg} /\ Owns(d, reg)
    BY <1>6, <1>9, <2>1 DEF Handled
  <2>3. told[d]' = {reg}
    BY <1>3, <1>4, <1>9, <2>1, <2>2 DEF Handled, Untold
  <2>4. Reply(reply) = IdText(reg.id) /\ IdText(reg.id) \in Seq(TextLines)
    <3>1. reg.id \in Nat
      OBVIOUS
    <3>. QED  BY <2>2, <3>1, ReplyOne, TextsAre
  <2>5. PICK text : text = IdText(reg.id)
    OBVIOUS
  <2>6. <<>> \o text = text
    BY <2>4, <2>5, ConcatEmptySeq
  <2>7. down[d] = <<>> /\ id[d]' = NoId /\ up[d]' = <<>>
    BY <1>3, <2>1 DEF Handled, Untold
  <2>8. down[d]' \in {<<>>, IdText(reg.id)}
    BY <1>4, <1>5, <1>9, <2>4, <2>5, <2>6, <2>7 DEF TypeInv
  <2>9. Owns(d, reg)'
    BY <1>3, <2>2 DEF Owns
  <2>10. Answered(d)'
    BY <1>6, <2>3, <2>7, <2>8, <2>9 DEF Answered
  <2>. QED  BY <1>3, <2>1, <2>10 DEF Stage
<1>. QED  BY <1>7, <1>8, <1>9

\* recv() may take a part of what there is, and then it has.
LEMMA SplitStays ==
  ASSUME [Next]_vars, TypeInv
  PROVE  split => split'
<1>1. ASSUME NEW c \in Clients, UserStep(c) \/ ClientStep(c)  PROVE split => split'
  BY <1>1 DEF UserStep, ClientStep, OnConnectButtonClicked, CloseWindow, ClientWorks,
              Connect, OnConnected, Recv
<1>2. ASSUME NEW c \in Clients, Serve(c)  PROVE split => split'
  BY <1>2 DEF Serve, Accept, Receive, ReceiveEnd, ReceiveError, clientVars
<1>3. CASE EmitAndReply \/ WindowUpdates \/ ServerExits \/ UNCHANGED vars
  BY <1>3 DEF EmitAndReply, WindowUpdates, ServerExits, vars, clientVars
<1>. QED  BY <1>1, <1>2, <1>3 DEF Next

\* Every step that takes whole messages keeps the stages.
LEMMA NextStages ==
  ASSUME TypeInv, ServerInv, Stages, [Next]_vars
  PROVE  Stages'
<1>. SUFFICES ASSUME ~split', NEW d \in Clients  PROVE Stage(d)'
  BY DEF Stages
<1>1. \A c \in Clients : Stage(c)
  BY SplitStays DEF Stages
<1>2. ASSUME UNCHANGED <<at, up, id, down, conn, senders, told, handler>>  PROVE Stage(d)'
  <2>1. Pending(d)' = Pending(d)
    BY <1>2 DEF Pending
  <2>. QED  BY <1>1, <1>2, <2>1, StageKept
<1>3. ASSUME NEW c \in Clients, UserStep(c) \/ ClientStep(c)  PROVE Stage(d)'
  BY <1>1, <1>3, ClientStage, OtherClientStage
<1>4. ASSUME NEW c \in Clients, Serve(c)  PROVE Stage(d)'
  <2>1. CASE Accept(c)
    <3>1. UNCHANGED <<at, up, id, down, senders, told, handler>> /\ conn[c] = "new"
          /\ conn' = [conn EXCEPT ![c] = "open"]
      BY <2>1 DEF Accept, clientVars, Server!OnAccept
    <3>2. conn \in [Clients -> {"new", "open", "closed"}]
      BY DEF ServerInv, Server!TypeOK
    <3>3. conn[d]' # "closed" => conn[d] # "closed"
      BY <3>1, <3>2
    <3>4. Pending(d)' = Pending(d)
      BY <3>1 DEF Pending
    <3>. QED  BY <1>1, <3>1, <3>3, <3>4, StageKept
  <2>2. CASE Receive(c)
    <3>1. /\ at[c] \notin Before /\ Asked(c)
          /\ Server!AddMessage(c, "Sender") /\ up' = [up EXCEPT ![c] = <<>>]
          /\ UNCHANGED <<at, id, down>>
      BY <1>1, <2>2, ReceiveWhole
    <3>2. Stage(c)' /\ \A x \in Clients \ {c} : Stage(x) => Stage(x)'
      BY <1>1, <3>1, AddStage
    <3>. QED  BY <1>1, <3>2
  <2>3. CASE ReceiveEnd(c)
    BY <1>1, <2>3, CloseStage
  <2>4. CASE ReceiveError(c)
    BY <1>2, <2>4 DEF ReceiveError, ServerEnds, serverVars
  <2>. QED  BY <1>4, <2>1, <2>2, <2>3, <2>4 DEF Serve
<1>5. CASE EmitAndReply
  BY <1>1, <1>5, EmitStage
<1>6. CASE WindowUpdates
  BY <1>2, <1>6 DEF WindowUpdates, Server!GtkStep, Server!serverVars, clientVars
<1>7. CASE ServerExits
  BY <1>2, <1>7 DEF ServerExits, ServerEnds, serverVars
<1>8. CASE UNCHANGED vars
  BY <1>2, <1>8 DEF vars, clientVars, serverVars
<1>. QED  BY <1>3, <1>4, <1>5, <1>6, <1>7, <1>8 DEF Next

\* So they hold as long as messages come whole.
LEMMA StagesInvariance == Spec => []Stages
<1>1. Init => Stages
  <2>. SUFFICES ASSUME Init, NEW c \in Clients  PROVE Stage(c)
    BY DEF Stages
  <2>1. Silent(c)
    BY DEF Init, ClientInit, Server!Init, Silent, Untold, Pending
  <2>. QED  BY <2>1 DEF Stage
<1>2. TypeInv /\ ServerInv /\ Stages /\ [Next]_vars => Stages'
  BY NextStages
<1>. QED  BY <1>1, <1>2, TypesInvariance, ServerInvariance, PTL DEF Spec

\* As long as messages come whole, an id a client holds is the one the server gave
\* it, no other client holds it, and the server knows the client by it
\* (client.cc:22-29, server.cc:66-100).
THEOREM IdsAgreed == Spec => []IdsAgree
<1>1. ServerInv /\ Stages => IdsAgree
  <2>. SUFFICES ASSUME ServerInv, Stages, ~split, NEW c \in Clients, id[c] # NoId
                PROVE  /\ [role |-> "Sender", id |-> id[c]] \in told[c]
                       /\ \A d \in Clients \ {c} : id[d] # id[c]
                       /\ conn[c] = "open" => id[c] \in DOMAIN senders /\ senders[id[c]] = c
    BY DEF IdsAgree
  <2>1. ASSUME NEW d \in Clients, id[d] # NoId
        PROVE  [role |-> "Sender", id |-> id[d]] \in told[d] /\ Owns(d, [role |-> "Sender", id |-> id[d]])
    <3>1. Answered(d)
      BY <2>1 DEF Stages, Stage, Silent, Asked, Handled, Untold
    <3>2. PICK reg \in [role : Server!Lists, id : Nat] :
            told[d] = {reg} /\ Owns(d, reg) /\ id[d] = reg.id
      BY <2>1, <3>1 DEF Answered
    <3>3. reg = [role |-> "Sender", id |-> id[d]]
      BY <3>2 DEF Owns
    <3>. QED  BY <3>2, <3>3
  <2>2. PICK reg : reg = [role |-> "Sender", id |-> id[c]]
    OBVIOUS
  <2>3. reg \in told[c] /\ Owns(c, reg) /\ reg.role = "Sender" /\ reg.id = id[c]
    BY <2>1, <2>2
  <2>4. ASSUME NEW d \in Clients \ {c}, id[d] = id[c]  PROVE FALSE
    <3>1. reg \in told[d]
      BY <2>1, <2>2, <2>4
    <3>2. reg \notin told[d]
      BY <2>3, <2>4 DEF ServerInv, Server!SenderIdsAreOwned
    <3>. QED  BY <3>1, <3>2
  <2>. QED  BY <2>2, <2>3, <2>4 DEF Owns
<1>. QED  BY <1>1, ServerInvariance, StagesInvariance, PTL

-----------------------------------------------------------------------------
(* What ends a process. *)

\* How a connection's end and its client's go together.
LinkInv ==
  \A c \in Clients :
    /\ at[c] \in {"entry", "posted"} => link[c] = "none"
    /\ link[c] \in {"left", "aborted"} => Ended(c)
    /\ link[c] = "reset" => server # "up"

\* A client's step ends its own connection only, and crashes for a reason.
LEMMA ClientLinks ==
  ASSUME TypeInv, Stages, LinkInv, CrashesOnlyBy, NEW c \in Clients,
         UserStep(c) \/ ClientStep(c), split => split'
  PROVE  LinkInv' /\ CrashesOnlyBy'
<1>1. server' = server /\ port' = port
  BY DEF UserStep, ClientStep, OnConnectButtonClicked, CloseWindow, ClientWorks, Connect,
         OnConnected, Recv, OnReceive, Ends
<1>2. ASSUME at[c]' \in Places, link[c]' \in Links, ~Ended(c),
             \A d \in Clients \ {c} : at[d]' = at[d] /\ link[d]' = link[d],
             at[c]' \in {"entry", "posted"} => link[c]' = "none",
             link[c]' \in {"left", "aborted"} => Ended(c)',
             link[c]' = "reset" => server # "up",
             at[c]' = "crashed" => split' \/ server # "up" \/ ~port[c]
      PROVE  LinkInv' /\ CrashesOnlyBy'
  <2>1. ASSUME NEW d \in Clients
        PROVE  /\ at[d]' \in {"entry", "posted"} => link[d]' = "none"
               /\ link[d]' \in {"left", "aborted"} => Ended(d)'
               /\ link[d]' = "reset" => server' # "up"
               /\ at[d]' = "crashed" => split' \/ server' # "up" \/ ~port'[d]
    <3>1. CASE d = c
      BY <1>1, <1>2, <3>1
    <3>2. CASE d # c
      <4>1. at[d]' = at[d] /\ link[d]' = link[d]
        BY <1>2, <3>2
      <4>2. Ended(d)' <=> Ended(d)
        BY <4>1 DEF Ended
      <4>. QED  BY <1>1, <4>1, <4>2 DEF LinkInv, CrashesOnlyBy
    <3>. QED  BY <3>1, <3>2
  <2>2. LinkInv'
    BY <2>1 DEF LinkInv
  <2>3. server' = "crashed" => split' \/ \E d \in Clients : link[d]' = "aborted"
    <3>1. ASSUME NEW d \in Clients, link[d] = "aborted"  PROVE link[d]' = "aborted"
      <4>1. d # c
        BY <1>2, <3>1 DEF LinkInv
      <4>. QED  BY <1>2, <3>1, <4>1
    <3>. QED  BY <1>1, <3>1 DEF CrashesOnlyBy
  <2>. QED  BY <2>1, <2>2, <2>3 DEF CrashesOnlyBy
<1>3. ASSUME NEW how \in {"exited", "crashed"}, Ends(c, how), ~Ended(c),
             how = "crashed" => split' \/ server # "up" \/ ~port[c]
      PROVE  LinkInv' /\ CrashesOnlyBy'
  <2>1. PICK end \in {"left", "aborted"} : link' = [link EXCEPT ![c] = IF @ = "open" THEN end ELSE @]
    BY <1>3 DEF Ends
  <2>2. /\ at[c]' = how /\ link[c]' = IF link[c] = "open" THEN end ELSE link[c]
        /\ \A d \in Clients \ {c} : at[d]' = at[d] /\ link[d]' = link[d]
    BY <1>3, <2>1 DEF Ends, TypeInv
  <2>3. link[c]' = "reset" => server # "up"
    BY <2>2 DEF LinkInv
  <2>4. Ended(c)' /\ at[c]' \in Places /\ link[c]' \in Links
    BY <2>2 DEF Ended, Places, Links, TypeInv
  <2>. QED  BY <1>2, <1>3, <2>2, <2>3, <2>4
<1>4. CASE OnConnectButtonClicked(c)
  <2>1. /\ at[c] = "entry" /\ at[c]' = "posted" /\ link' = link
        /\ \A d \in Clients \ {c} : at[d]' = at[d] /\ link[d]' = link[d]
    BY <1>4 DEF OnConnectButtonClicked, TypeInv
  <2>2. ~Ended(c) /\ link[c]' = "none"
    BY <2>1 DEF LinkInv, Ended
  <2>. QED  BY <1>2, <2>1, <2>2 DEF Places, Links
<1>5. CASE CloseWindow(c)
  BY <1>3, <1>5 DEF CloseWindow
<1>6. CASE Connect(c, server = "up")
  <2>1. at[c] = "posted" /\ ~Ended(c)
    BY <1>6 DEF Connect, Ended
  <2>2. CASE port[c] /\ server = "up"
    <3>1. /\ at[c]' = "connected" /\ link[c]' = "open"
          /\ \A d \in Clients \ {c} : at[d]' = at[d] /\ link[d]' = link[d]
      BY <1>6, <2>2 DEF Connect, TypeInv
    <3>. QED  BY <1>2, <2>1, <3>1 DEF Places, Links
  <2>3. CASE ~(port[c] /\ server = "up")
    <3>1. Ends(c, "crashed")
      BY <1>6, <2>3 DEF Connect
    <3>2. server # "up" \/ ~port[c]
      BY <2>3
    <3>. QED  BY <1>3, <2>1, <3>1, <3>2
  <2>. QED  BY <2>2, <2>3
<1>7. CASE OnConnected(c)
  <2>1. /\ at[c] = "connected" /\ at[c]' = "loop"
        /\ link[c]' = IF link[c] = "open" THEN "open" ELSE "fin"
        /\ \A d \in Clients \ {c} : at[d]' = at[d] /\ link[d]' = link[d]
    BY <1>7 DEF OnConnected, TypeInv
  <2>2. ~Ended(c)
    BY <2>1 DEF Ended
  <2>. QED  BY <1>2, <2>1, <2>2 DEF Places, Links
<1>8. CASE Recv(c)
  <2>1. at[c] = "loop" /\ ~Ended(c)
    BY <1>8 DEF Recv, Ended
  <2>2. ASSUME UNCHANGED <<at, link>>  PROVE LinkInv' /\ CrashesOnlyBy'
    BY <1>2, <2>1, <2>2 DEF LinkInv, TypeInv
  <2>3. CASE \E cut \in Cuts(down[c]) :
               LET z == Parsed(cut.head, cut.ended).z
               IN  /\ split' = (split \/ cut.rest # <<>>)
                   /\ \/ /\ OnReceive(c, z)
                         /\ down' = [down EXCEPT ![c] = cut.rest]
                      \/ /\ z \in {<<>>, <<Word("Add")>>}
                         /\ Ends(c, "crashed")
    <3>1. PICK cut \in Cuts(down[c]) :
               LET z == Parsed(cut.head, cut.ended).z
               IN  /\ split' = (split \/ cut.rest # <<>>)
                   /\ \/ /\ OnReceive(c, z)
                         /\ down' = [down EXCEPT ![c] = cut.rest]
                      \/ /\ z \in {<<>>, <<Word("Add")>>}
                         /\ Ends(c, "crashed")
      BY <2>3
    <3>2. PICK z : z = Parsed(cut.head, cut.ended).z
      OBVIOUS
    <3>3. CASE OnReceive(c, z)
      BY <2>2, <3>3 DEF OnReceive
    <3>4. CASE z \in {<<>>, <<Word("Add")>>} /\ Ends(c, "crashed")
      <4>1. ASSUME ~split'  PROVE FALSE
        <5>1. cut.rest = <<>> /\ Stage(c)
          BY <3>1, <4>1 DEF Stages
        <5>2. \E reg \in [role : Server!Lists, id : Nat] : z = IdItems(reg.id)
          BY <3>2, <5>1, DownWhole
        <5>. QED  BY <3>4, <5>2, ItemsAre
      <4>. QED  BY <1>3, <2>1, <3>4, <4>1
    <3>. QED  BY <3>1, <3>2, <3>3, <3>4
  <2>4. CASE link[c] = "reset" /\ Ends(c, "crashed")
    BY <1>3, <2>1, <2>4 DEF LinkInv
  <2>. QED  BY <1>8, <2>3, <2>4 DEF Recv
<1>. QED  BY <1>4, <1>5, <1>6, <1>7, <1>8 DEF UserStep, ClientStep, ClientWorks

\* The server's end.
LEMMA ServerEndsLinks ==
  ASSUME TypeInv, LinkInv, CrashesOnlyBy, NEW how \in {"exited", "crashed"}, NEW unread,
         ServerEnds(how, unread), UNCHANGED <<port, at>>, split => split',
         how = "crashed" => split' \/ \E c \in Clients : link[c] = "aborted"
  PROVE  LinkInv' /\ CrashesOnlyBy'
<1>1. server' = how
  BY DEF ServerEnds
<1>2. \A d \in Clients :
        link[d]' = link[d] \/ (link[d] = "open" /\ link[d]' \in {"reset", "fin"})
  BY DEF ServerEnds, TypeInv
<1>3. LinkInv'
  <2>. SUFFICES ASSUME NEW d \in Clients
                PROVE  /\ at[d]' \in {"entry", "posted"} => link[d]' = "none"
                       /\ link[d]' \in {"left", "aborted"} => Ended(d)'
                       /\ link[d]' = "reset" => server' # "up"
    BY DEF LinkInv
  <2>1. Ended(d)' <=> Ended(d)
    BY DEF Ended
  <2>. QED  BY <1>1, <1>2, <2>1 DEF LinkInv
<1>4. CrashesOnlyBy'
  <2>1. \A d \in Clients : link[d] = "aborted" => link[d]' = "aborted"
    BY <1>2
  <2>2. server' = "crashed" => split' \/ \E d \in Clients : link[d]' = "aborted"
    BY <1>1, <2>1
  <2>3. server' # "up"
    BY <1>1
  <2>. QED  BY <2>2, <2>3 DEF CrashesOnlyBy
<1>. QED  BY <1>3, <1>4

\* A process that ends has one of the reasons, and they last.
LEMMA NextLinks ==
  ASSUME TypeInv, ServerInv, Stages, LinkInv, CrashesOnlyBy, [Next]_vars
  PROVE  LinkInv' /\ CrashesOnlyBy'
<1>1. split => split'
  BY SplitStays
<1>2. ASSUME UNCHANGED <<port, at, link, server>>  PROVE LinkInv' /\ CrashesOnlyBy'
  BY <1>1, <1>2 DEF LinkInv, CrashesOnlyBy, Ended
<1>3. ASSUME NEW c \in Clients, UserStep(c) \/ ClientStep(c)  PROVE LinkInv' /\ CrashesOnlyBy'
  BY <1>1, <1>3, ClientLinks
<1>4. ASSUME NEW c \in Clients, Serve(c)  PROVE LinkInv' /\ CrashesOnlyBy'
  <2>1. CASE Accept(c) \/ ReceiveEnd(c)
    BY <1>2, <2>1 DEF Accept, ReceiveEnd, clientVars
  <2>2. CASE Receive(c)
    <3>1. UNCHANGED <<port, at>>
      BY <2>2 DEF Receive
    <3>2. CASE UNCHANGED <<link, server>>
      BY <1>2, <3>1, <3>2
    <3>3. CASE ServerEnds("crashed", up')
      <4>1. split'
        <5>1. ASSUME ~split'  PROVE FALSE
          <6>1. Stage(c)
            BY <1>1, <5>1 DEF Stages
          <6>2. Server!AddMessage(c, "Sender")
            BY <2>2, <5>1, <6>1, ReceiveWhole
          <6>3. adds' # adds
            <7>1. adds \in [Clients -> Nat]
              BY DEF ServerInv, Server!TypeOK
            <7>2. adds' = [adds EXCEPT ![c] = @ + 1]
              BY <6>2 DEF Server!AddMessage
            <7>3. adds'[c] = adds[c] + 1 /\ adds[c] \in Nat
              BY <7>1, <7>2
            <7>. QED  BY <7>3
          <6>. QED  BY <3>3, <6>3 DEF ServerEnds, serverVars
        <5>. QED  BY <5>1
      <4>2. PICK unread : unread = up'
        OBVIOUS
      <4>. QED  BY <1>1, <3>1, <3>3, <4>1, <4>2, ServerEndsLinks
    <3>. QED  BY <2>2, <3>2, <3>3 DEF Receive
  <2>3. CASE ReceiveError(c)
    <3>1. PICK unread : unread = up
      OBVIOUS
    <3>2. ServerEnds("crashed", unread) /\ UNCHANGED <<port, at>> /\ link[c] = "aborted"
      BY <2>3, <3>1 DEF ReceiveError
    <3>. QED  BY <1>1, <3>2, ServerEndsLinks
  <2>. QED  BY <1>4, <2>1, <2>2, <2>3 DEF Serve
<1>5. CASE EmitAndReply
  BY <1>2, <1>5 DEF EmitAndReply
<1>6. CASE WindowUpdates
  BY <1>2, <1>6 DEF WindowUpdates, clientVars
<1>7. CASE ServerExits
  <2>1. PICK unread : unread = up
    OBVIOUS
  <2>2. ServerEnds("exited", unread) /\ UNCHANGED <<port, at>>
    BY <1>7, <2>1 DEF ServerExits
  <2>. QED  BY <1>1, <2>2, ServerEndsLinks
<1>8. CASE UNCHANGED vars
  BY <1>2, <1>8 DEF vars, clientVars
<1>. QED  BY <1>3, <1>4, <1>5, <1>6, <1>7, <1>8 DEF Next

\* A process only crashes over a message in pieces, over a client that goes without
\* reading its reply (the server), over a server that is gone or a port that is no
\* number (the client): no sequence of whole messages does it.
THEOREM CrashesExplained == Spec => []CrashesOnlyBy
<1>1. Init => LinkInv /\ CrashesOnlyBy
  BY DEF Init, ClientInit, LinkInv, CrashesOnlyBy
<1>2. TypeInv /\ ServerInv /\ Stages /\ LinkInv /\ CrashesOnlyBy /\ [Next]_vars
        => LinkInv' /\ CrashesOnlyBy'
  BY NextLinks
<1>. QED  BY <1>1, <1>2, TypesInvariance, ServerInvariance, StagesInvariance, PTL DEF Spec
=============================================================================
