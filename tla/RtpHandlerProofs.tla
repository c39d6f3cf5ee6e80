-------------------------- MODULE RtpHandlerProofs --------------------------
(***************************************************************************)
(* Proofs about RtpHandler, for any sources, payloads and extensions.  The *)
(* constructor that parses is typed for whatever arrives, its loop comes   *)
(* to an end, and each part of a packet is found where GetRTPPacket() has  *)
(* laid it (Laid); so a packet, or its beginning, is read as it was built. *)
(***************************************************************************)
EXTENDS RtpHandler, DataInduction

Head12 == [padding : {0, 1}, extensions : {0, 1}, cc : 0..CsrcMax]

Ext == [id : Short, data : Seq(Word)]

\* What can arrive: the fixed header and bytes.
IsWire(w) ==
  /\ w \in Seq(Head12 \cup Byte)
  /\ Len(w) >= 1
  /\ w[1] \in Head12
  /\ \A i \in 2..Len(w) : w[i] \in Byte

-----------------------------------------------------------------------------
(* Reading bytes, words and 16-bit numbers. *)

\* Bytes behind the header are bytes.
LEMMA BytesRead ==
  ASSUME NEW w, IsWire(w), NEW offset \in Nat, NEW n \in Nat,
         1 <= offset, offset + n <= Len(w)
  PROVE  /\ Bytes(w, offset, n) \in Seq(Byte)
         /\ Len(Bytes(w, offset, n)) = n
         /\ \A i \in 1..n : Bytes(w, offset, n)[i] = w[offset + i]
<1>. PICK b : b = Bytes(w, offset, n)
  OBVIOUS
<1>1. b = SubSeq(w, offset + 1, offset + n)
  BY DEF Bytes
<1>2. w \in Seq(Head12 \cup Byte) /\ Len(w) \in Nat
  BY DEF IsWire
<1>3. Len(b) = n /\ \A i \in 1..n : b[i] = w[offset + i]
  BY <1>1, <1>2
<1>4. \A i \in 1..n : b[i] \in Byte
  <2>1. \A i \in 1..n : offset + i \in 2..Len(w)
    BY <1>2
  <2>. QED  BY <1>3, <2>1 DEF IsWire
<1>5. b = [i \in 1..n |-> b[i]]
  BY <1>1, <1>2
<1>6. b \in Seq(Byte)
  BY <1>4, <1>5, IsSequence
<1>. QED  BY <1>3, <1>6

\* Four bytes are a word.
LEMMA WordRead ==
  ASSUME NEW w, IsWire(w), NEW o \in Nat, 1 <= o, o + 4 <= Len(w)
  PROVE  /\ Bytes(w, o, 4) \in Word
         /\ \A j \in 1..4 : Bytes(w, o, 4)[j] = w[o + j]
<1>1. /\ Bytes(w, o, 4) \in Seq(Byte)
      /\ Len(Bytes(w, o, 4)) = 4
      /\ \A j \in 1..4 : Bytes(w, o, 4)[j] = w[o + j]
  <2>1. 4 \in Nat
    OBVIOUS
  <2>. QED  BY <2>1, BytesRead
<1>2. Bytes(w, o, 4) \in [1..4 -> Byte]
  BY <1>1
<1>. QED  BY <1>1, <1>2 DEF Word

\* The n words from an offset.
WordsOf(s, w, offset, n) ==
  /\ s \in Seq(Word) /\ Len(s) = n
  /\ \A k \in 1..n : \A j \in 1..4 : s[k][j] = w[offset + 4 * (k - 1) + j]

\* Words behind the header are words.
LEMMA WordsRead ==
  ASSUME NEW w, IsWire(w), NEW offset \in Nat, NEW n \in Nat,
         1 <= offset, offset + 4 * n <= Len(w)
  PROVE  WordsOf(Words(w, offset, n), w, offset, n)
<1>. PICK s : s = Words(w, offset, n)
  OBVIOUS
<1>1. s = [k \in 1..n |-> Bytes(w, offset + 4 * (k - 1), 4)]
  BY DEF Words
<1>2. ASSUME NEW k \in 1..n
      PROVE  /\ s[k] \in Word
             /\ \A j \in 1..4 : s[k][j] = w[offset + 4 * (k - 1) + j]
  <2>1. PICK o \in Nat : /\ o = offset + 4 * (k - 1)
                        /\ 1 <= o /\ o + 4 <= Len(w)
    <3>1. offset + 4 * (k - 1) \in Nat /\ Len(w) \in Nat
      BY DEF IsWire
    <3>. QED  BY <3>1
  <2>2. s[k] = Bytes(w, o, 4)
    BY <1>1, <2>1
  <2>3. /\ Bytes(w, o, 4) \in Word
        /\ \A j \in 1..4 : Bytes(w, o, 4)[j] = w[o + j]
    <3>1. 1 <= o /\ o + 4 <= Len(w)
      BY <2>1
    <3>. HIDE <2>1
    <3>. QED  BY <3>1, WordRead
  <2>. QED  BY <2>1, <2>2, <2>3
<1>3. s \in Seq(Word) /\ Len(s) = n
  <2>1. s = [k \in 1..n |-> s[k]]
    BY <1>1
  <2>2. \A k \in 1..n : s[k] \in Word
    BY <1>2
  <2>. QED  BY <2>1, <2>2, IsSequence
<1>. QED  BY <1>2, <1>3 DEF WordsOf

\* A number of 16 bits, from its two bytes.
Joined(high, low) == 256 * high + low

LEMMA JoinedTyped ==
  ASSUME NEW high \in Byte, NEW low \in Byte
  PROVE  Joined(high, low) \in Short
<1>1. high \in Nat /\ low \in Nat /\ high <= 255 /\ low <= 255
  BY DEF Byte
<1>2. PICK most \in Nat : most = 65535
  OBVIOUS
<1>3. 256 * high + low \in Nat /\ 256 * high + low <= most
  BY <1>1, <1>2
<1>4. Short = 0..most
  BY <1>2 DEF Short
<1>. HIDE <1>2
<1>5. Joined(high, low) \in 0..most
  BY <1>3 DEF Joined
<1>. QED  BY <1>4, <1>5

LEMMA Read16Joins ==
  ASSUME NEW w, NEW offset
  PROVE  Read16(w, offset) = Joined(w[offset + 1], w[offset + 2])
BY Zenon DEF Read16, Joined

LEMMA Read16Is ==
  ASSUME NEW w, IsWire(w), NEW offset \in Nat, 1 <= offset, offset + 2 <= Len(w)
  PROVE  Read16(w, offset) \in Short
<1>1. w[offset + 1] \in Byte /\ w[offset + 2] \in Byte
  <2>1. offset + 1 \in 2..Len(w) /\ offset + 2 \in 2..Len(w)
    BY DEF IsWire
  <2>. QED  BY <2>1 DEF IsWire
<1>2. PICK r : r = Read16(w, offset)
  OBVIOUS
<1>3. r = Joined(w[offset + 1], w[offset + 2])
  BY <1>2, Read16Joins, Zenon
<1>4. r \in Short
  BY <1>1, <1>3, JoinedTyped, Zenon
<1>. QED  BY <1>2, <1>4

\* What is written with 16 bits is read.
LEMMA Field16Is ==
  ASSUME NEW n \in Short
  PROVE  \E high, low \in Byte :
           Field16(n) = <<high, low>> /\ Joined(high, low) = n
<1>1. n \div 256 \in 0..255 /\ n % 256 \in 0..255 /\ 256 * (n \div 256) + (n % 256) = n
  BY DEF Short
<1>2. (n \div 256) % 256 = n \div 256
  BY <1>1
<1>3. Field16(n) = <<n \div 256, n % 256>>
  BY <1>2 DEF Field16
<1>4. PICK high, low \in Byte : high = n \div 256 /\ low = n % 256
  BY <1>1 DEF Byte
<1>5. Joined(high, low) = n
  BY <1>1, <1>4 DEF Joined
<1>6. Field16(n) = <<high, low>>
  BY <1>3, <1>4
<1>. QED  BY <1>5, <1>6

\* In any case it is two bytes.
LEMMA Field16Typed ==
  ASSUME NEW n \in Nat
  PROVE  Field16(n) \in Seq(Byte) /\ Len(Field16(n)) = 2
<1>. PICK a, b : a = (n \div 256) % 256 /\ b = n % 256
  OBVIOUS
<1>1. a \in 0..255 /\ b \in 0..255
  OBVIOUS
<1>2. Field16(n) = <<a, b>>
  BY DEF Field16
<1>. QED  BY <1>1, <1>2 DEF Byte

-----------------------------------------------------------------------------
(* The extension loop. *)

Loops(w) ==
  [status : {"loop", "ok", "extension", "overrun"}, offset : 1..Len(w), i : Nat,
   exts : Seq(Ext)]

\* How a turn of the loop may end.
Stopped(loop, status) == [loop EXCEPT !.status = status]

\* The extension that a turn reads, and the loop behind it.
ExtensionAt(w, offset) ==
  [id |-> Read16(w, offset), data |-> Words(w, offset + 4, Read16(w, offset + 2))]

Behind(w, loop, words) ==
  [status |-> "loop", offset |-> loop.offset + 4 + 4 * words,
   i |-> loop.i + words \div 4 + 1, exts |-> Append(loop.exts, ExtensionAt(w, loop.offset))]

LEMMA NextIs ==
  ASSUME NEW w, NEW length, NEW loop
  PROVE  NextExtension(w, length, loop) =
           LET left  == Len(w) - loop.offset
               words == Read16(w, loop.offset + 2)
           IN  IF loop.status # "loop" THEN loop
               ELSE IF loop.i >= length THEN Stopped(loop, "ok")
               ELSE IF left < 4 \/ left < 4 + words THEN Stopped(loop, "extension")
               ELSE IF left < 4 + 4 * words THEN Stopped(loop, "overrun")
               ELSE Behind(w, loop, words)
BY Zenon DEF NextExtension, Stopped, Behind, ExtensionAt

\* A turn that goes on moves on by four bytes or more, and no turn leaves the
\* packet.
LEMMA NextTyped ==
  ASSUME NEW w, IsWire(w), NEW length \in Nat, NEW loop \in Loops(w)
  PROVE  /\ NextExtension(w, length, loop) \in Loops(w)
         /\ NextExtension(w, length, loop).status = "loop" =>
              /\ loop.status = "loop"
              /\ NextExtension(w, length, loop).offset >= loop.offset + 4
<1>. DEFINE left  == Len(w) - loop.offset
            words == Read16(w, loop.offset + 2)
            next  == NextExtension(w, length, loop)
<1>1. Len(w) \in Nat /\ loop.offset \in Nat /\ loop.offset >= 1 /\ loop.offset <= Len(w)
  BY DEF IsWire, Loops
<1>2. ASSUME NEW status \in {"ok", "extension", "overrun"}
      PROVE  Stopped(loop, status) \in Loops(w) /\ Stopped(loop, status).status # "loop"
  BY DEF Loops, Stopped
<1>3. CASE loop.status # "loop"
  <2>1. next = loop
    BY <1>3, NextIs
  <2>. QED  BY <1>3, <2>1
<1>4. CASE loop.status = "loop" /\ loop.i >= length
  <2>1. next = Stopped(loop, "ok")
    BY <1>4, NextIs
  <2>. QED  BY <1>2, <2>1
<1>5. CASE loop.status = "loop" /\ ~(loop.i >= length) /\ (left < 4 \/ left < 4 + words)
  <2>1. next = Stopped(loop, "extension")
    BY <1>5, NextIs
  <2>. QED  BY <1>2, <2>1
<1>6. CASE /\ loop.status = "loop" /\ ~(loop.i >= length)
           /\ ~(left < 4 \/ left < 4 + words) /\ left < 4 + 4 * words
  <2>1. next = Stopped(loop, "overrun")
    BY <1>6, NextIs
  <2>. QED  BY <1>2, <2>1
<1>7. CASE /\ loop.status = "loop" /\ ~(loop.i >= length)
           /\ ~(left < 4 \/ left < 4 + words) /\ ~(left < 4 + 4 * words)
  <2>1. next = Behind(w, loop, words)
    BY <1>7, NextIs
  <2>2. loop.offset + 4 <= Len(w)
    BY <1>1, <1>7
  <2>3. words \in Short /\ Read16(w, loop.offset) \in Short
    <3>1. /\ loop.offset + 2 \in Nat /\ 1 <= loop.offset + 2
          /\ (loop.offset + 2) + 2 <= Len(w) /\ loop.offset + 2 <= Len(w)
      BY <1>1, <2>2
    <3>. QED  BY <1>1, <3>1, Read16Is
  <2>. HIDE DEF words, left
  <2>4. words \in Nat
    <3>1. Short \subseteq Nat
      BY DEF Short
    <3>. QED  BY <2>3, <3>1
  <2>5. loop.offset + 4 + 4 * words \in 1..Len(w)
    BY <1>1, <1>7, <2>4 DEF left
  <2>6. Words(w, loop.offset + 4, words) \in Seq(Word)
    <3>1. loop.offset + 4 \in Nat /\ 1 <= loop.offset + 4 /\ (loop.offset + 4) + 4 * words <= Len(w)
      BY <1>1, <2>4, <2>5
    <3>. QED  BY <2>4, <3>1, WordsRead DEF WordsOf
  <2>7. ExtensionAt(w, loop.offset) \in Ext
    <3>1. Ext = [id : Short, data : Seq(Word)]
      BY DEF Ext
    <3>. QED  BY <2>3, <2>6, <3>1 DEF ExtensionAt, words
  <2>8. Append(loop.exts, ExtensionAt(w, loop.offset)) \in Seq(Ext)
    <3>1. loop.exts \in Seq(Ext)
      BY DEF Loops
    <3>. QED  BY <2>7, <3>1, AppendAll
  <2>9. loop.i + words \div 4 + 1 \in Nat
    <3>1. loop.i \in Nat
      BY DEF Loops
    <3>. QED  BY <2>4, <3>1
  <2>10. Behind(w, loop, words) \in Loops(w)
    BY <2>5, <2>8, <2>9 DEF Behind, Loops
  <2>11. Behind(w, loop, words).offset >= loop.offset + 4
    BY <1>1, <2>4 DEF Behind
  <2>. QED  BY <1>7, <2>1, <2>10, <2>11
<1>. QED  BY <1>3, <1>4, <1>5, <1>6, <1>7

LoopRun(g, w, offset, length) ==
  /\ g[0] = LoopStart(offset)
  /\ \A j \in 1..Len(w) : g[j] = NextExtension(w, length, g[j-1])

\* The turns that ReadExtensions goes through.
LEMMA LoopRuns ==
  ASSUME NEW w, IsWire(w), NEW offset \in 1..Len(w), NEW length \in Nat
  PROVE  \E g \in [0..Len(w) -> Loops(w)] :
           /\ LoopRun(g, w, offset, length)
           /\ ReadExtensions(w, offset, length) = g[Len(w)]
<1>. DEFINE n == Len(w)
            X == Loops(w)
            start == LoopStart(offset)
            Step(before) == NextExtension(w, length, before)
            Steps(h) == [j \in 0..n |-> IF j = 0 THEN start ELSE Step(h[j-1])]
<1>1. \A before \in X : Step(before) \in X
  BY NextTyped
<1>2. PICK F : F = [p \in (1..n) \X X |-> Step(p[2])]
  OBVIOUS
<1>3. F \in [(1..n) \X X -> X]
  <2>. HIDE DEF Step, n, X
  <2>1. ASSUME NEW p \in (1..n) \X X  PROVE Step(p[2]) \in X
    BY <1>1
  <2>. QED  BY <1>2, <2>1
<1>4. n \in Nat /\ start \in X
  <2>1. <<>> \in Seq(Ext)
    OBVIOUS
  <2>. QED  BY <2>1 DEF IsWire, LoopStart, Loops, FirstWord
<1>5. ReadExtensions(w, offset, length) = (CHOOSE h : h = Steps(h))[n]
  BY DEF ReadExtensions
<1>. HIDE DEF n, Step, X, start
<1>6. PICK g \in [0..n -> X] : Runs(g, n, start, F)
  BY <1>3, <1>4, RunExists
<1>7. \A j \in 1..n : g[j] = Step(g[j-1])
  <2>. SUFFICES ASSUME NEW j \in 1..n  PROVE g[j] = Step(g[j-1])
    OBVIOUS
  <2>1. j - 1 \in 0..n /\ g[j - 1] \in X
    BY <1>4
  <2>2. g[j] = F[<<j, g[j-1]>>] /\ <<j, g[j-1]>> \in (1..n) \X X
    BY <1>6, <2>1 DEF Runs
  <2>. QED  BY <1>2, <2>2
<1>8. g = Steps(g)
  <2>1. \A j \in 0..n : j = 0 \/ j \in 1..n
    BY <1>4
  <2>2. \A j \in 0..n : g[j] = Steps(g)[j]
    BY <1>6, <1>7, <2>1 DEF Runs
  <2>3. g = [j \in 0..n |-> g[j]]
    OBVIOUS
  <2>. HIDE DEF Steps
  <2>. QED  BY <2>2, <2>3 DEF Steps
<1>9. PICK k : k = CHOOSE h : h = Steps(h)
  OBVIOUS
<1>10. k = Steps(k)
  <2>. HIDE DEF Steps
  <2>. QED  BY <1>8, <1>9
<1>11. k[0] = start /\ \A j \in 1..n : k[j] = Step(k[j-1])
  <2>1. 0 \in 0..n /\ \A j \in 1..n : j \in 0..n /\ j # 0
    BY <1>4
  <2>. QED  BY <1>10, <2>1
<1>12. 0..n \subseteq {j \in 0..n : k[j] \in X}
  <2>. DEFINE T == {j \in 0..n : k[j] \in X}
  <2>1. 0 \in T
    BY <1>4, <1>11
  <2>2. ASSUME NEW j \in 0..(n-1), j \in T  PROVE j + 1 \in T
    <3>1. j + 1 \in 1..n /\ j + 1 \in 0..n /\ (j + 1) - 1 = j /\ k[j] \in X
      BY <1>4, <2>2
    <3>2. k[j + 1] = Step(k[j])
      BY <1>11, <3>1
    <3>. QED  BY <1>1, <3>1, <3>2
  <2>. HIDE DEF T
  <2>3. 0..n \subseteq T
    BY <1>4, <2>1, <2>2, UpTo
  <2>. QED  BY <2>3 DEF T
<1>13. k \in [0..n -> X]
  <2>1. DOMAIN k = 0..n /\ k = [j \in DOMAIN k |-> k[j]]
    BY <1>10
  <2>. QED  BY <1>12, <2>1
<1>14. LoopRun(k, w, offset, length)
  BY <1>11 DEF LoopRun, n, Step, start
<1>. QED  BY <1>5, <1>9, <1>13, <1>14 DEF n, X

\* The loop has ended when its bound is reached.
LEMMA LoopEnds ==
  ASSUME NEW w, IsWire(w), NEW offset \in 1..Len(w), NEW length \in Nat,
         NEW g \in [0..Len(w) -> Loops(w)], LoopRun(g, w, offset, length)
  PROVE  g[Len(w)].status # "loop"
<1>. DEFINE T == {j \in 0..Len(w) : g[j].status = "loop" => g[j].offset >= 1 + 4 * j}
<1>1. Len(w) \in Nat /\ Len(w) >= 1
  BY DEF IsWire
<1>2. 0 \in T
  <2>1. g[0].offset = offset
    BY DEF LoopRun, LoopStart
  <2>. QED  BY <1>1, <2>1
<1>3. ASSUME NEW j \in 0..(Len(w) - 1), j \in T  PROVE j + 1 \in T
  <2>1. j + 1 \in 1..Len(w) /\ j + 1 \in 0..Len(w) /\ (j + 1) - 1 = j /\ j \in 0..Len(w) /\ j \in Nat
    BY <1>1
  <2>2. g[j + 1] = NextExtension(w, length, g[j]) /\ g[j] \in Loops(w) /\ g[j + 1] \in Loops(w)
    BY <2>1 DEF LoopRun
  <2>3. g[j + 1].status = "loop" =>
          g[j].status = "loop" /\ g[j + 1].offset >= g[j].offset + 4
    BY <2>2, NextTyped
  <2>4. g[j].offset \in Nat /\ g[j + 1].offset \in Nat
    BY <1>1, <2>2 DEF Loops
  <2>5. g[j].status = "loop" => g[j].offset >= 1 + 4 * j
    BY <1>3
  <2>6. g[j + 1].status = "loop" => g[j + 1].offset >= 1 + 4 * (j + 1)
    BY <2>1, <2>3, <2>4, <2>5
  <2>. QED  BY <2>1, <2>6
<1>. HIDE DEF T
<1>4. 0..Len(w) \subseteq T
  BY <1>1, <1>2, <1>3, UpTo
<1>5. Len(w) \in T
  BY <1>1, <1>4
<1>6. g[Len(w)] \in Loops(w)
  BY <1>1
<1>7. g[Len(w)].offset \in Nat /\ g[Len(w)].offset <= Len(w)
  BY <1>1, <1>6 DEF Loops
<1>. QED  BY <1>1, <1>5, <1>7 DEF T

\* A loop that has ended stays as it is.
LEMMA LoopStays ==
  ASSUME NEW w, IsWire(w), NEW offset \in 1..Len(w), NEW length \in Nat,
         NEW g \in [0..Len(w) -> Loops(w)], LoopRun(g, w, offset, length),
         NEW k \in 0..Len(w), g[k].status # "loop"
  PROVE  g[Len(w)] = g[k]
<1>. DEFINE T == {j \in 0..Len(w) : k <= j => g[j] = g[k]}
<1>1. Len(w) \in Nat
  BY DEF IsWire
<1>2. 0 \in T
  <2>1. k <= 0 => k = 0
    BY <1>1
  <2>. QED  BY <1>1, <2>1
<1>3. ASSUME NEW j \in 0..(Len(w) - 1), j \in T  PROVE j + 1 \in T
  <2>1. j + 1 \in 1..Len(w) /\ j + 1 \in 0..Len(w) /\ (j + 1) - 1 = j
    BY <1>1
  <2>2. g[j + 1] = NextExtension(w, length, g[j])
    BY <2>1 DEF LoopRun
  <2>3. CASE k <= j
    <3>1. g[j] = g[k]
      BY <1>3, <2>3
    <3>2. NextExtension(w, length, g[k]) = g[k]
      BY NextIs
    <3>. QED  BY <2>1, <2>2, <3>1, <3>2
  <2>4. CASE ~(k <= j)
    <3>1. k <= j + 1 => k = j + 1
      BY <1>1, <2>4
    <3>. QED  BY <2>1, <3>1
  <2>. QED  BY <2>3, <2>4
<1>. HIDE DEF T
<1>4. 0..Len(w) \subseteq T
  BY <1>1, <1>2, <1>3, UpTo
<1>. QED  BY <1>1, <1>4 DEF T

\* From the extension header on.
LEMMA BlockTyped ==
  ASSUME NEW w, IsWire(w), NEW offset \in 1..Len(w)
  PROVE  /\ ReadBlock(w, offset).status \in {"ok", "extension", "overrun"}
         /\ ReadBlock(w, offset).offset \in 1..Len(w)
         /\ ReadBlock(w, offset).exts \in Seq(Ext)
<1>. DEFINE Stop(status) == [status |-> status, offset |-> offset, exts |-> <<>>]
            length == Read16(w, offset + 2)
            Typed(block) == /\ block.status \in {"ok", "extension", "overrun"}
                            /\ block.offset \in 1..Len(w)
                            /\ block.exts \in Seq(Ext)
<1>1. Len(w) \in Nat /\ offset \in Nat /\ 1 <= offset /\ offset <= Len(w)
  BY DEF IsWire
<1>2. ASSUME NEW status \in {"ok", "extension"}  PROVE Typed(Stop(status))
  OBVIOUS
<1>3. \/ ReadBlock(w, offset) = Stop("ok")
      \/ ReadBlock(w, offset) = Stop("extension")
      \/ /\ ~(Len(w) - offset < 4)
         /\ ReadBlock(w, offset) = ReadExtensions(w, offset + 4, length)
  BY DEF ReadBlock
<1>. HIDE DEF Typed, Stop
<1>4. CASE /\ ~(Len(w) - offset < 4)
           /\ ReadBlock(w, offset) = ReadExtensions(w, offset + 4, length)
  <2>1. offset + 4 \in 1..Len(w) /\ offset + 2 \in Nat /\ 1 <= offset + 2 /\ (offset + 2) + 2 <= Len(w)
    BY <1>1, <1>4
  <2>2. length \in Nat
    <3>1. length \in Short
      BY <2>1, Read16Is
    <3>2. Short \subseteq Nat
      BY DEF Short
    <3>. QED  BY <3>1, <3>2
  <2>. HIDE DEF length
  <2>3. PICK g \in [0..Len(w) -> Loops(w)] :
          /\ LoopRun(g, w, offset + 4, length)
          /\ ReadExtensions(w, offset + 4, length) = g[Len(w)]
    BY <2>1, <2>2, LoopRuns
  <2>4. g[Len(w)].status # "loop"
    BY <2>1, <2>2, <2>3, LoopEnds
  <2>5. g[Len(w)] \in Loops(w)
    BY <1>1
  <2>6. Typed(g[Len(w)])
    BY <2>4, <2>5 DEF Typed, Loops
  <2>. QED  BY <1>4, <2>3, <2>6 DEF Typed
<1>. QED  BY <1>2, <1>3, <1>4 DEF Typed

-----------------------------------------------------------------------------
(* The whole packet. *)

LEMMA ParseIs ==
  ASSUME NEW w
  PROVE  LET block == ReadBlock(w, 1 + 4 * w[1].cc)
             full  == Handler(w[1], Words(w, 1, w[1].cc), block.exts)
         IN  Parse(w) = IF CsrcsMissing(w) THEN Result("csrc", Handler(w[1], <<>>, <<>>))
                        ELSE IF block.status # "ok" THEN Result(block.status, full)
                        ELSE ReadPayload(w, block.offset, full)
BY Zenon DEF Parse

LEMMA PacketIs ==
  Packet = [padding : {0, 1}, extensions : {0, 1}, cc : 0..CsrcMax,
            csrc : Seq(Word), exts : Seq(Ext), payload : Seq(Byte)]
BY DEF Packet, Ext

LEMMA HandlerTyped ==
  ASSUME NEW fixed \in Head12, NEW csrc \in Seq(Word), NEW exts \in Seq(Ext)
  PROVE  Handler(fixed, csrc, exts) \in Packet
<1>1. <<>> \in Seq(Byte)
  OBVIOUS
<1>. QED  BY <1>1, PacketIs DEF Handler, Head12

Statuses == {"none", "ok", "csrc", "extension", "overrun", "payload", "padding"}

\* A payload without its padding.
LEMMA UnpaddedIs ==
  ASSUME NEW payload \in Seq(Byte), payload # <<>>, ~BadPadding(payload)
  PROVE  /\ Unpadded(payload) \in Seq(Byte)
         /\ Len(Unpadded(payload)) <= Len(payload)
<1>1. PICK count \in Byte : count = Last(payload)
  BY DEF Last
<1>2. PICK n : n = Len(payload) - count
  OBVIOUS
<1>3. count \in 0..255 /\ count <= Len(payload) /\ Len(payload) \in Nat
  BY <1>1 DEF BadPadding, Byte
<1>4. n \in Nat /\ n <= Len(payload)
  BY <1>2, <1>3
<1>5. Unpadded(payload) = SubSeq(payload, 1, n)
  BY <1>1, <1>2 DEF Unpadded
<1>6. SubSeq(payload, 1, n) \in Seq(Byte) /\ Len(SubSeq(payload, 1, n)) = n
  BY <1>4
<1>. QED  BY <1>4, <1>5, <1>6

LEMMA FinishTyped ==
  ASSUME NEW payload \in Seq(Byte), NEW p \in Packet
  PROVE  Finish(payload, p).status \in Statuses /\ Finish(payload, p).packet \in Packet
<1>. DEFINE With(q) == [p EXCEPT !.payload = q]
<1>1. ASSUME NEW q \in Seq(Byte)  PROVE With(q) \in Packet
  BY PacketIs
<1>2. ASSUME NEW status \in {"ok", "payload", "padding"}, NEW q \in Packet
      PROVE  Result(status, q).status \in Statuses /\ Result(status, q).packet \in Packet
  BY DEF Result, Statuses
<1>3. CASE payload = <<>>
  BY <1>2, <1>3 DEF Finish
<1>4. CASE payload # <<>> /\ p.padding = 0
  <2>1. Finish(payload, p) = Result("ok", With(payload))
    BY <1>4 DEF Finish
  <2>. QED  BY <1>1, <1>2, <2>1
<1>5. CASE payload # <<>> /\ p.padding # 0 /\ BadPadding(payload)
  BY <1>2, <1>5 DEF Finish
<1>6. CASE payload # <<>> /\ p.padding # 0 /\ ~BadPadding(payload)
  <2>1. Finish(payload, p) = Result("ok", With(Unpadded(payload)))
    BY <1>6 DEF Finish
  <2>2. Unpadded(payload) \in Seq(Byte)
    BY <1>6, UnpaddedIs
  <2>. QED  BY <1>1, <1>2, <2>1, <2>2
<1>. QED  BY <1>3, <1>4, <1>5, <1>6

\* Whatever arrives, behind a fixed header, is parsed to a handler of its type.
LEMMA ParseTyped ==
  ASSUME NEW w, IsWire(w)
  PROVE  Parse(w).status \in Statuses /\ Parse(w).packet \in Packet
<1>. DEFINE cc    == w[1].cc
            csrc  == Words(w, 1, cc)
            block == ReadBlock(w, 1 + 4 * cc)
            full  == Handler(w[1], csrc, block.exts)
            Typed(result) == result.status \in Statuses /\ result.packet \in Packet
<1>1. /\ <<>> \in Seq(Word) /\ <<>> \in Seq(Ext) /\ <<>> \in Seq(Byte)
      /\ cc \in Nat /\ Len(w) \in Nat /\ Len(w) >= 1
  BY CsrcMaxNat DEF IsWire, Head12
<1>2. Parse(w) = IF CsrcsMissing(w) THEN Result("csrc", Handler(w[1], <<>>, <<>>))
                 ELSE IF block.status # "ok" THEN Result(block.status, full)
                 ELSE ReadPayload(w, block.offset, full)
  BY ParseIs
<1>3. CASE CsrcsMissing(w)
  <2>1. Handler(w[1], <<>>, <<>>) \in Packet
    BY <1>1, HandlerTyped DEF IsWire
  <2>. QED  BY <1>2, <1>3, <2>1 DEF Result, Statuses
<1>4. CASE ~CsrcsMissing(w)
  <2>1. 1 + 4 * cc \in 1..Len(w)
    BY <1>1, <1>4 DEF CsrcsMissing
  <2>2. csrc \in Seq(Word)
    <3>1. 1 \in Nat /\ 1 <= 1 /\ 1 + 4 * cc <= Len(w)
      BY <1>1, <2>1
    <3>. QED  BY <1>1, <3>1, WordsRead DEF WordsOf
  <2>3. /\ block.status \in {"ok", "extension", "overrun"}
        /\ block.offset \in 1..Len(w)
        /\ block.exts \in Seq(Ext)
    BY <2>1, BlockTyped
  <2>. HIDE DEF csrc, block, cc
  <2>4. full \in Packet
    BY <2>2, <2>3, HandlerTyped DEF IsWire
  <2>. HIDE DEF full
  <2>5. CASE block.status # "ok"
    <3>1. Parse(w) = Result(block.status, full)
      BY <1>2, <1>4, <2>5
    <3>. QED  BY <2>3, <2>4, <3>1 DEF Result, Statuses
  <2>6. CASE block.status = "ok"
    <3>1. Parse(w) = Finish(SubSeq(w, block.offset + 1, Len(w)), full)
      BY <1>2, <1>4, <2>6 DEF ReadPayload
    <3>2. PICK o \in 1..Len(w) : o = block.offset
      BY <2>3
    <3>3. SubSeq(w, o + 1, Len(w)) \in Seq(Byte)
      <4>1. o \in Nat /\ Len(w) - o \in Nat /\ 1 <= o /\ o + (Len(w) - o) <= Len(w)
                /\ o + (Len(w) - o) = Len(w)
        BY <1>1
      <4>2. Bytes(w, o, Len(w) - o) \in Seq(Byte)
        BY <4>1, BytesRead
      <4>. QED  BY <4>1, <4>2 DEF Bytes
    <3>. QED  BY <2>4, <3>1, <3>2, <3>3, FinishTyped
  <2>. QED  BY <2>5, <2>6
<1>. QED  BY <1>3, <1>4

-----------------------------------------------------------------------------
(* What GetRTPPacket() writes. *)

\* Words one after the other: four bytes of each.
LEMMA FlattenWords ==
  ASSUME NEW words \in Seq(Word)
  PROVE  /\ FlattenSeq(words) \in Seq(Byte)
         /\ Len(FlattenSeq(words)) = 4 * Len(words)
         /\ \A k \in 1..Len(words) : \A j \in 1..4 :
              FlattenSeq(words)[4 * (k - 1) + j] = words[k][j]
<1>. DEFINE n == Len(words)
<1>1. ASSUME NEW word \in Word  PROVE word \in Seq(Byte) /\ Len(word) = 4
  <2>1. word = [i \in 1..4 |-> word[i]] /\ \A i \in 1..4 : word[i] \in Byte
    BY DEF Word
  <2>2. 4 \in Nat
    OBVIOUS
  <2>. QED  BY <2>1, <2>2, IsSequence
<1>2. words \in Seq(Seq(Byte)) /\ n \in Nat
  <2>1. Word \subseteq Seq(Byte)
    BY <1>1
  <2>. QED  BY <2>1
<1>3. PICK g \in [0..n -> Seq(Byte)] :
        /\ g[0] = <<>>
        /\ \A i \in 1..n : g[i] = g[i-1] \o words[i]
        /\ FlattenSeq(words) = g[n]
  BY <1>2, FlattenRuns
<1>. DEFINE T == {i \in 0..n : /\ Len(g[i]) = 4 * i
                               /\ \A k \in 1..i : \A j \in 1..4 :
                                    g[i][4 * (k - 1) + j] = words[k][j]}
<1>4. 0 \in T
  BY <1>2, <1>3
<1>5. ASSUME NEW i \in 0..(n - 1), i \in T  PROVE i + 1 \in T
  <2>1. i + 1 \in 1..n /\ i + 1 \in 0..n /\ i \in 0..n /\ i \in Nat /\ (i + 1) - 1 = i
    BY <1>2
  <2>2. g[i + 1] = g[i] \o words[i + 1] /\ g[i] \in Seq(Byte)
    BY <1>3, <2>1
  <2>3. words[i + 1] \in Seq(Byte) /\ Len(words[i + 1]) = 4
    BY <1>1, <2>1
  <2>4. Len(g[i]) = 4 * i /\ \A k \in 1..i : \A j \in 1..4 :
                               g[i][4 * (k - 1) + j] = words[k][j]
    BY <1>5
  <2>5. PICK before, word : before = g[i] /\ word = words[i + 1]
    OBVIOUS
  <2>6. /\ Len(before \o word) = Len(before) + Len(word)
        /\ \A x \in 1..Len(before) : (before \o word)[x] = before[x]
        /\ \A x \in 1..Len(word) : (before \o word)[Len(before) + x] = word[x]
    <3>1. before \in Seq(Byte) /\ word \in Seq(Byte)
      BY <2>2, <2>3, <2>5
    <3>. QED  BY <3>1
  <2>7. Len(g[i + 1]) = 4 * (i + 1)
    BY <2>1, <2>2, <2>3, <2>4, <2>5, <2>6
  <2>8. ASSUME NEW k \in 1..(i + 1), NEW j \in 1..4
        PROVE  g[i + 1][4 * (k - 1) + j] = words[k][j]
    <3>1. CASE k = i + 1
      <4>1. 4 * (k - 1) + j = 4 * i + j
        BY <2>1, <3>1
      <4>2. (before \o word)[4 * i + j] = word[j]
        BY <2>3, <2>4, <2>5, <2>6
      <4>. QED  BY <2>2, <2>5, <3>1, <4>1, <4>2
    <3>2. CASE k # i + 1
      <4>1. k \in 1..i /\ 4 * (k - 1) + j \in 1..(4 * i)
        BY <2>1, <3>2
      <4>2. (before \o word)[4 * (k - 1) + j] = before[4 * (k - 1) + j]
        BY <2>4, <2>5, <2>6, <4>1
      <4>. QED  BY <2>2, <2>4, <2>5, <4>1, <4>2
    <3>. QED  BY <3>1, <3>2
  <2>. QED  BY <2>1, <2>7, <2>8
<1>. HIDE DEF T
<1>6. 0..n \subseteq T
  BY <1>2, <1>4, <1>5, UpTo
<1>7. n \in T /\ g[n] \in Seq(Byte)
  BY <1>2, <1>6
<1>. QED  BY <1>3, <1>7 DEF T

LEMMA ExtensionTyped ==
  ASSUME NEW ext \in Ext
  PROVE  ExtensionBytes(ext) \in Seq(Byte)
<1>1. ext.id \in Nat /\ ext.data \in Seq(Word) /\ Len(ext.data) \in Nat
  <2>1. Short \subseteq Nat
    BY DEF Short
  <2>2. ext.id \in Short /\ ext.data \in Seq(Word)
    BY DEF Ext
  <2>3. Len(ext.data) \in Nat
    BY <2>2
  <2>. QED  BY <2>1, <2>2, <2>3
<1>2. Field16(ext.id) \in Seq(Byte) /\ Field16(Len(ext.data)) \in Seq(Byte)
  BY <1>1, Field16Typed
<1>3. FlattenSeq(ext.data) \in Seq(Byte)
  BY <1>1, FlattenWords
<1>4. Field16(ext.id) \o Field16(Len(ext.data)) \in Seq(Byte)
  BY <1>2, ConcatProperties
<1>. QED  BY <1>3, <1>4, ConcatProperties DEF ExtensionBytes

LEMMA FlattenBytes ==
  ASSUME NEW blocks \in Seq(Seq(Byte))
  PROVE  FlattenSeq(blocks) \in Seq(Byte)
<1>1. PICK g \in [0..Len(blocks) -> Seq(Byte)] : FlattenSeq(blocks) = g[Len(blocks)]
  BY FlattenRuns
<1>2. Len(blocks) \in 0..Len(blocks)
  OBVIOUS
<1>. QED  BY <1>1, <1>2

\* One sequence behind another.
Two(w, a, b) ==
  /\ Len(w) = Len(a) + Len(b)
  /\ \A i \in 1..Len(a) : w[i] = a[i]
  /\ \A i \in 1..Len(b) : w[Len(a) + i] = b[i]

LEMMA JoinedTwo ==
  ASSUME NEW V, NEW a \in Seq(V), NEW b \in Seq(V)
  PROVE  a \o b \in Seq(V) /\ Two(a \o b, a, b)
<1>1. PICK ab \in Seq(V) : ab = a \o b
  BY ConcatProperties
<1>2. Len(ab) = Len(a) + Len(b)
  BY <1>1
<1>3. \A i \in 1..Len(a) : ab[i] = a[i]
  BY <1>1
<1>4. \A i \in 1..Len(b) : ab[Len(a) + i] = b[i]
  BY <1>1
<1>5. Two(ab, a, b)
  BY <1>2, <1>3, <1>4 DEF Two
<1>. QED  BY <1>1, <1>5

LEMMA ContentTyped ==
  ASSUME NEW exts \in Seq(Ext)
  PROVE  Content(exts) \in Seq(Byte) /\ BlockWords(exts) \in Nat
<1>. DEFINE blocks == [i \in DOMAIN exts |-> ExtensionBytes(exts[i])]
<1>1. blocks \in Seq(Seq(Byte))
  <2>1. \A i \in DOMAIN exts : ExtensionBytes(exts[i]) \in Seq(Byte)
    BY ExtensionTyped
  <2>. QED  BY <2>1
<1>2. PICK content \in Seq(Byte) : content = Content(exts)
  <2>. HIDE DEF blocks
  <2>1. FlattenSeq(blocks) \in Seq(Byte)
    BY <1>1, FlattenBytes
  <2>. QED  BY <2>1 DEF Content, blocks
<1>3. Len(content) \in Nat
  OBVIOUS
<1>4. 1 + Len(content) \div 4 \in Nat
  BY <1>3
<1>. QED  BY <1>2, <1>4 DEF BlockWords

\* The header of a block, and how it tells that the length could not be written.
LEMMA BlockHeaderIs ==
  ASSUME NEW words \in Nat
  PROVE  /\ BlockHeader(words) \in Seq(Byte) /\ Len(BlockHeader(words)) = 4
         /\ words = LengthMax + 1 => BlockHeader(words)[2] # Marker[2]
<1>1. CASE words = LengthMax + 1
  <2>1. BlockHeader(words) = <<190, 223, 0, 0>>
    BY <1>1 DEF BlockHeader
  <2>. QED  BY <2>1 DEF Marker, Byte
<1>2. CASE words # LengthMax + 1
  <2>1. PICK length \in Seq(Byte) : length = Field16(words) /\ Len(length) = 2
    BY Field16Typed
  <2>2. PICK marker \in Seq(Byte) : marker = Marker /\ Len(marker) = 2
    <3>1. Marker \in Seq(Byte) /\ Len(Marker) = 2
      BY DEF Marker, Byte
    <3>. QED  BY <3>1
  <2>3. PICK header \in Seq(Byte) : header = marker \o length /\ Two(header, marker, length)
    BY JoinedTwo
  <2>4. Len(header) = 4
    BY <2>1, <2>2, <2>3 DEF Two
  <2>5. BlockHeader(words) = header
    BY <1>2, <2>1, <2>2, <2>3 DEF BlockHeader
  <2>. QED  BY <1>2, <2>4, <2>5
<1>. QED  BY <1>1, <1>2

LEMMA ExtensionBlockTyped ==
  ASSUME NEW exts \in Seq(Ext)
  PROVE  /\ ExtensionBlock(exts) \in Seq(Byte) /\ Len(ExtensionBlock(exts)) >= 4
         /\ BlockWords(exts) = LengthMax + 1 => ExtensionBlock(exts)[2] # Marker[2]
<1>1. PICK content \in Seq(Byte) : content = Content(exts)
  BY ContentTyped
<1>2. PICK words \in Nat : words = BlockWords(exts)
  BY ContentTyped
<1>3. PICK header \in Seq(Byte) : /\ header = BlockHeader(words) /\ Len(header) = 4
                                  /\ words = LengthMax + 1 => header[2] # Marker[2]
  BY BlockHeaderIs
<1>4. PICK block \in Seq(Byte) : /\ block = header \o content
                                 /\ Two(block, header, content)
  BY JoinedTwo
<1>5. ExtensionBlock(exts) = block
  BY <1>1, <1>2, <1>3, <1>4 DEF ExtensionBlock
<1>6. Len(block) >= 4
  BY <1>3, <1>4 DEF Two
<1>7. block[2] = header[2]
  BY <1>3, <1>4 DEF Two
<1>. QED  BY <1>2, <1>3, <1>5, <1>6, <1>7

\* The places of the parts of a packet.
Laid(w, fixed, csrc, block, payload) ==
  LET c == 1 + 4 * Len(csrc) IN
  /\ IsWire(w)
  /\ Len(w) = c + Len(block) + Len(payload)
  /\ w[1] = fixed
  /\ \A k \in 1..Len(csrc) : \A j \in 1..4 : w[1 + 4 * (k - 1) + j] = csrc[k][j]
  /\ \A i \in 1..Len(block) : w[c + i] = block[i]
  /\ \A i \in 1..Len(payload) : w[c + Len(block) + i] = payload[i]

\* The parts behind the sources, as they are written.
Extended(p) == IF p.extensions = 1 THEN ExtensionBlock(p.exts) ELSE <<>>
Block(p) == Written(p, Extended(p))
Load(p) == Written(p, p.payload)

LEMMA WrittenIs ==
  ASSUME NEW p, NEW bytes \in Seq(Byte)
  PROVE  /\ Written(p, bytes) \in Seq(Byte) /\ Len(Written(p, bytes)) = Len(bytes)
         /\ ~LeftOut(p) => Written(p, bytes) = bytes
         /\ LeftOut(p) => \A i \in 1..Len(bytes) : Written(p, bytes)[i] = 0
<1>1. CASE LeftOut(p)
  <2>1. PICK zeros : zeros = [i \in 1..Len(bytes) |-> 0]
    OBVIOUS
  <2>2. Written(p, bytes) = zeros
    BY <1>1, <2>1 DEF Written
  <2>3. 0 \in Byte
    BY DEF Byte
  <2>4. \A i \in 1..Len(bytes) : zeros[i] = 0
    BY <2>1
  <2>5. zeros = [i \in 1..Len(bytes) |-> zeros[i]]
    BY <2>1
  <2>6. \A i \in 1..Len(bytes) : zeros[i] \in Byte
    BY <2>3, <2>4
  <2>7. Len(bytes) \in Nat
    OBVIOUS
  <2>8. zeros \in Seq(Byte) /\ Len(zeros) = Len(bytes)
    BY <2>5, <2>6, <2>7, IsSequence
  <2>. QED  BY <1>1, <2>2, <2>4, <2>8
<1>2. CASE ~LeftOut(p)
  BY <1>2 DEF Written
<1>. QED  BY <1>1, <1>2

LEMMA PartsWritten ==
  ASSUME NEW p \in Packet
  PROVE  /\ Extended(p) \in Seq(Byte)
         /\ Block(p) \in Seq(Byte) /\ Load(p) \in Seq(Byte)
         /\ ~LeftOut(p) => Block(p) = Extended(p) /\ Load(p) = p.payload
<1>1. p.exts \in Seq(Ext) /\ p.payload \in Seq(Byte) /\ <<>> \in Seq(Byte)
  BY PacketIs
<1>2. Extended(p) \in Seq(Byte)
  BY <1>1, ExtensionBlockTyped DEF Extended
<1>. QED  BY <1>1, <1>2, WrittenIs DEF Block, Load

Parts(w, a, b, c, d) ==
  /\ Len(w) = Len(a) + Len(b) + Len(c) + Len(d)
  /\ \A i \in 1..Len(a) : w[i] = a[i]
  /\ \A i \in 1..Len(b) : w[Len(a) + i] = b[i]
  /\ \A i \in 1..Len(c) : w[Len(a) + Len(b) + i] = c[i]
  /\ \A i \in 1..Len(d) : w[Len(a) + Len(b) + Len(c) + i] = d[i]

LEMMA JoinedParts ==
  ASSUME NEW V, NEW a \in Seq(V), NEW b \in Seq(V), NEW c \in Seq(V), NEW d \in Seq(V)
  PROVE  ((a \o b) \o c) \o d \in Seq(V) /\ Parts(((a \o b) \o c) \o d, a, b, c, d)
<1>. PICK w : w = ((a \o b) \o c) \o d
  OBVIOUS
<1>1. PICK ab \in Seq(V) : ab = a \o b
  BY ConcatProperties
<1>2. PICK abc \in Seq(V) : abc = ab \o c
  BY ConcatProperties
<1>3. w = abc \o d /\ w \in Seq(V)
  BY <1>1, <1>2, ConcatProperties
<1>4. Len(a) \in Nat /\ Len(b) \in Nat /\ Len(c) \in Nat /\ Len(d) \in Nat
  OBVIOUS
<1>5. /\ Len(ab) = Len(a) + Len(b)
      /\ \A i \in 1..Len(a) : ab[i] = a[i]
      /\ \A i \in 1..Len(b) : ab[Len(a) + i] = b[i]
  BY <1>1, JoinedTwo DEF Two
<1>6. /\ Len(abc) = Len(ab) + Len(c)
      /\ \A i \in 1..Len(ab) : abc[i] = ab[i]
      /\ \A i \in 1..Len(c) : abc[Len(ab) + i] = c[i]
  BY <1>2, JoinedTwo DEF Two
<1>7. /\ Len(w) = Len(abc) + Len(d)
      /\ \A i \in 1..Len(abc) : w[i] = abc[i]
      /\ \A i \in 1..Len(d) : w[Len(abc) + i] = d[i]
  BY <1>3, JoinedTwo DEF Two
<1>. HIDE <1>1, <1>2
<1>8. Len(w) = Len(a) + Len(b) + Len(c) + Len(d)
  BY <1>4, <1>5, <1>6, <1>7
<1>9. \A i \in 1..Len(a) : w[i] = a[i]
  BY <1>4, <1>5, <1>6, <1>7
<1>10. \A i \in 1..Len(b) : w[Len(a) + i] = b[i]
  BY <1>4, <1>5, <1>6, <1>7
<1>11. \A i \in 1..Len(c) : w[Len(a) + Len(b) + i] = c[i]
  BY <1>4, <1>5, <1>6, <1>7
<1>12. \A i \in 1..Len(d) : w[Len(a) + Len(b) + Len(c) + i] = d[i]
  BY <1>4, <1>5, <1>6, <1>7
<1>. QED  BY <1>3, <1>8, <1>9, <1>10, <1>11, <1>12 DEF Parts

\* A packet is its fixed header, its sources, its block and its payload.
LEMMA BuildLaid ==
  ASSUME NEW p \in Packet, Len(p.csrc) = p.cc
  PROVE  Laid(Build(p), Fixed(p), p.csrc, Block(p), Load(p))
<1>. DEFINE V == Head12 \cup Byte
<1>0. Fixed(p) \in Head12 /\ p.csrc \in Seq(Word)
  BY PacketIs DEF Fixed, Head12
<1>1. PICK csrc \in Seq(Word) : csrc = p.csrc
  BY <1>0
<1>2. PICK payload \in Seq(Byte) : payload = Load(p)
  BY PartsWritten
<1>3. PICK block \in Seq(Byte) : block = Block(p)
  BY PartsWritten
<1>4. PICK sources \in Seq(Byte) : sources = FlattenSeq(csrc)
  BY FlattenWords
<1>5. /\ Len(sources) = 4 * Len(csrc)
      /\ \A k \in 1..Len(csrc) : \A j \in 1..4 : sources[4 * (k - 1) + j] = csrc[k][j]
  BY <1>4, FlattenWords
<1>6. PICK head \in Seq(V) : head = <<Fixed(p)>>
  <2>1. \A x \in V : <<x>> \in Seq(V)
    OBVIOUS
  <2>2. Fixed(p) \in V
    BY <1>0
  <2>. HIDE DEF V
  <2>. QED  BY <2>1, <2>2
<1>7. Len(head) = 1 /\ head[1] = Fixed(p)
  BY <1>6
<1>8. PICK w : w = ((head \o sources) \o block) \o payload
  OBVIOUS
<1>9. w = Build(p)
  BY <1>1, <1>2, <1>3, <1>4, <1>6, <1>8 DEF Build, Block, Load, Extended
<1>10. w \in Seq(V) /\ Parts(w, head, sources, block, payload)
  <2>1. sources \in Seq(V) /\ block \in Seq(V) /\ payload \in Seq(V)
    OBVIOUS
  <2>. HIDE DEF Parts, V
  <2>. QED  BY <1>8, <2>1, JoinedParts
<1>11. PICK n \in Nat : n = Len(csrc)
  OBVIOUS
<1>12. PICK m \in Nat : m = Len(block)
  OBVIOUS
<1>13. PICK l \in Nat : l = Len(payload)
  OBVIOUS
<1>14. PICK c \in Nat : c = 1 + 4 * n
  OBVIOUS
<1>. HIDE DEF V
<1>15. /\ Len(w) = c + m + l
       /\ w[1] = Fixed(p)
       /\ \A i \in 1..(4 * n) : w[1 + i] = sources[i]
       /\ \A i \in 1..m : w[c + i] = block[i]
       /\ \A i \in 1..l : w[c + m + i] = payload[i]
  <2>1. Len(head) = 1 /\ Len(sources) = 4 * n /\ Len(block) = m /\ Len(payload) = l
    BY <1>5, <1>7, <1>11, <1>12, <1>13
  <2>2. 1 + 4 * n = c
    BY <1>14
  <2>3. Len(w) = c + m + l
    BY <1>10, <2>1, <2>2 DEF Parts
  <2>4. w[1] = Fixed(p)
    BY <1>7, <1>10, <2>1 DEF Parts
  <2>5. \A i \in 1..(4 * n) : w[1 + i] = sources[i]
    BY <1>10, <2>1 DEF Parts
  <2>6. \A i \in 1..m : w[c + i] = block[i]
    BY <1>10, <2>1, <2>2 DEF Parts
  <2>7. \A i \in 1..l : w[c + m + i] = payload[i]
    BY <1>10, <2>1, <2>2 DEF Parts
  <2>. QED  BY <2>3, <2>4, <2>5, <2>6, <2>7
<1>16. ASSUME NEW k \in 1..n, NEW j \in 1..4
       PROVE  w[1 + 4 * (k - 1) + j] = csrc[k][j]
  <2>1. 4 * (k - 1) + j \in 1..(4 * n) /\ 1 + 4 * (k - 1) + j = 1 + (4 * (k - 1) + j)
    OBVIOUS
  <2>. QED  BY <1>5, <1>11, <1>15, <2>1
<1>17. \A i \in 2..Len(w) : w[i] \in Byte
  <2>. SUFFICES ASSUME NEW i \in 2..(c + m + l)  PROVE w[i] \in Byte
    BY <1>15
  <2>1. CASE i <= c
    <3>1. i - 1 \in 1..(4 * n) /\ 1 + (i - 1) = i
      BY <1>14, <2>1
    <3>2. sources[i - 1] \in Byte
      BY <1>5, <1>11, <3>1
    <3>. QED  BY <1>15, <3>1, <3>2
  <2>2. CASE c < i /\ i <= c + m
    <3>1. i - c \in 1..m /\ c + (i - c) = i
      BY <2>2
    <3>2. block[i - c] \in Byte
      BY <1>12, <3>1
    <3>. QED  BY <1>15, <3>1, <3>2
  <2>3. CASE c + m < i
    <3>1. i - (c + m) \in 1..l /\ c + m + (i - (c + m)) = i
      BY <2>3
    <3>2. payload[i - (c + m)] \in Byte
      BY <1>13, <3>1
    <3>. QED  BY <1>15, <3>1, <3>2
  <2>. QED  BY <2>1, <2>2, <2>3
<1>18. IsWire(w)
  <2>1. Len(w) >= 1
    BY <1>14, <1>15
  <2>. QED  BY <1>0, <1>10, <1>15, <1>17, <2>1 DEF IsWire, V
<1>19. Laid(w, Fixed(p), csrc, block, payload)
  BY <1>11, <1>12, <1>13, <1>14, <1>15, <1>16, <1>18 DEF Laid
<1>. QED  BY <1>1, <1>2, <1>3, <1>9, <1>19

-----------------------------------------------------------------------------
(* Reading what was written: all of it or its beginning. *)

\* The first bytes of a packet.
Begins(s, w) ==
  /\ IsWire(s)
  /\ Len(s) <= Len(w)
  /\ \A i \in 1..Len(s) : s[i] = w[i]

LEMMA CutBegins ==
  ASSUME NEW w, IsWire(w), NEW n \in 1..Len(w)
  PROVE  Begins(SubSeq(w, 1, n), w) /\ Len(SubSeq(w, 1, n)) = n
<1>1. PICK s : s = SubSeq(w, 1, n)
  OBVIOUS
<1>2. w \in Seq(Head12 \cup Byte) /\ Len(w) \in Nat /\ n \in Nat /\ n <= Len(w) /\ n >= 1
  BY DEF IsWire
<1>3. /\ s \in Seq(Head12 \cup Byte) /\ Len(s) = n
      /\ \A i \in 1..n : s[i] = w[i]
  BY <1>1, <1>2
<1>4. 1 \in 1..n /\ \A i \in 2..n : i \in 1..n /\ i \in 2..Len(w)
  BY <1>2
<1>5. s[1] \in Head12 /\ \A i \in 2..n : s[i] \in Byte
  BY <1>3, <1>4 DEF IsWire
<1>6. IsWire(s)
  BY <1>2, <1>3, <1>5 DEF IsWire
<1>. QED  BY <1>1, <1>2, <1>3, <1>6 DEF Begins

\* Words are the same if their bytes are.
LEMMA SameWord ==
  ASSUME NEW x \in Word, NEW y \in Word, \A j \in 1..4 : x[j] = y[j]
  PROVE  x = y
BY DEF Word

\* Words that lie behind an offset are read from there.
LEMMA WordsWritten ==
  ASSUME NEW s, IsWire(s), NEW words \in Seq(Word), NEW offset \in Nat, 1 <= offset,
         offset + 4 * Len(words) <= Len(s),
         \A k \in 1..Len(words) : \A j \in 1..4 :
           s[offset + 4 * (k - 1) + j] = words[k][j]
  PROVE  Words(s, offset, Len(words)) = words
<1>1. PICK n \in Nat : n = Len(words)
  OBVIOUS
<1>2. WordsOf(Words(s, offset, n), s, offset, n)
  <2>1. offset + 4 * n <= Len(s)
    BY <1>1
  <2>. QED  BY <2>1, WordsRead
<1>3. PICK read \in Seq(Word) :
        /\ read = Words(s, offset, n)
        /\ Len(read) = n
        /\ \A k \in 1..n : \A j \in 1..4 : read[k][j] = s[offset + 4 * (k - 1) + j]
  BY <1>2 DEF WordsOf
<1>4. ASSUME NEW k \in 1..n  PROVE read[k] = words[k]
  <2>1. \A j \in 1..4 : read[k][j] = words[k][j]
    BY <1>1, <1>3
  <2>2. read[k] \in Word /\ words[k] \in Word
    BY <1>1, <1>3
  <2>. QED  BY <2>1, <2>2, SameWord
<1>5. read = words
  BY <1>1, <1>3, <1>4, SeqEqual
<1>. QED  BY <1>1, <1>3, <1>5

\* The sources are read if they are all there.
LEMMA SourcesRead ==
  ASSUME NEW w, NEW fixed, NEW csrc \in Seq(Word), NEW block \in Seq(Byte),
         NEW payload \in Seq(Byte), Laid(w, fixed, csrc, block, payload),
         NEW s, Begins(s, w), 1 + 4 * Len(csrc) <= Len(s)
  PROVE  Words(s, 1, Len(csrc)) = csrc
<1>1. IsWire(s) /\ Len(s) \in Nat /\ Len(csrc) \in Nat
  BY DEF Begins, IsWire
<1>2. ASSUME NEW k \in 1..Len(csrc), NEW j \in 1..4
      PROVE  s[1 + 4 * (k - 1) + j] = csrc[k][j]
  <2>1. 1 + 4 * (k - 1) + j \in 1..Len(s)
    BY <1>1
  <2>2. s[1 + 4 * (k - 1) + j] = w[1 + 4 * (k - 1) + j]
    BY <2>1 DEF Begins
  <2>3. w[1 + 4 * (k - 1) + j] = csrc[k][j]
    BY DEF Laid
  <2>. QED  BY <2>2, <2>3
<1>3. 1 \in Nat /\ 1 <= 1
  OBVIOUS
<1>. QED  BY <1>1, <1>2, <1>3, WordsWritten

PayloadAt(csrc, block) == 1 + 4 * Len(csrc) + Len(block)

\* The payload of a beginning of that length.
TailRead(s, o, payload) ==
  /\ SubSeq(s, o + 1, Len(s)) \in Seq(Byte)
  /\ Len(SubSeq(s, o + 1, Len(s))) = Len(s) - o
  /\ Len(s) - o \in 0..Len(payload)
  /\ \A i \in 1..(Len(s) - o) : SubSeq(s, o + 1, Len(s))[i] = payload[i]

\* What is left behind the block is the payload, or its beginning.
LEMMA PayloadRead ==
  ASSUME NEW w, NEW fixed, NEW csrc \in Seq(Word), NEW block \in Seq(Byte),
         NEW payload \in Seq(Byte), Laid(w, fixed, csrc, block, payload),
         NEW s, Begins(s, w), PayloadAt(csrc, block) <= Len(s)
  PROVE  TailRead(s, PayloadAt(csrc, block), payload)
<1>1. PICK n \in Nat : n = Len(csrc)
  OBVIOUS
<1>2. PICK m \in Nat : m = Len(block)
  OBVIOUS
<1>3. PICK l \in Nat : l = Len(payload)
  OBVIOUS
<1>4. Len(s) \in Nat /\ IsWire(s) /\ Len(s) <= Len(w)
  BY DEF Begins, IsWire
<1>5. PICK c \in Nat : c = 1 + 4 * n
  OBVIOUS
<1>6. /\ Len(w) = c + m + l
      /\ \A i \in 1..l : w[c + m + i] = payload[i]
  BY <1>1, <1>2, <1>3, <1>5 DEF Laid
<1>7. PICK o \in Nat : o = c + m
  OBVIOUS
<1>8. o = PayloadAt(csrc, block)
  BY <1>1, <1>2, <1>5, <1>7 DEF PayloadAt
<1>9. PICK r \in Nat : r \in 0..l /\ o >= 1 /\ o + r = Len(s)
  <2>1. o <= Len(s) /\ o >= 1
    BY <1>5, <1>7, <1>8
  <2>2. Len(s) - o \in 0..l
    BY <1>4, <1>6, <1>7, <2>1
  <2>. QED  BY <1>4, <2>1, <2>2
<1>10. /\ Bytes(s, o, r) \in Seq(Byte)
       /\ Len(Bytes(s, o, r)) = r
       /\ \A i \in 1..r : Bytes(s, o, r)[i] = s[o + i]
  <2>1. 1 <= o /\ o + r <= Len(s)
    BY <1>4, <1>9
  <2>. QED  BY <1>4, <2>1, BytesRead
<1>11. PICK read \in Seq(Byte) :
         /\ read = Bytes(s, o, r)
         /\ Len(read) = r /\ \A i \in 1..r : read[i] = s[o + i]
  BY <1>10
<1>12. ASSUME NEW i \in 1..r  PROVE read[i] = payload[i]
  <2>1. o + i \in 1..Len(s) /\ i \in 1..l
    BY <1>9
  <2>2. s[o + i] = w[o + i]
    BY <2>1 DEF Begins
  <2>. QED  BY <1>6, <1>7, <1>11, <2>1, <2>2
<1>13. read = SubSeq(s, o + 1, Len(s))
  BY <1>9, <1>11 DEF Bytes
<1>14. Len(s) - o = r
  BY <1>9
<1>15. TailRead(s, o, payload)
  BY <1>3, <1>9, <1>11, <1>12, <1>13, <1>14 DEF TailRead
<1>. QED  BY <1>8, <1>15

\* The block is read: the payload begins at o.
ReadTo(block, o, exts) == block.status = "ok" /\ block.offset = o /\ block.exts = exts

\* A packet without extensions is read to its payload at once.
LEMMA PlainBlock ==
  ASSUME NEW s, NEW o, s[1].extensions = 0
  PROVE  ReadTo(ReadBlock(s, o), o, <<>>)
BY DEF ReadBlock, ReadTo

\* The handler that is made once the block has been read.
LEMMA RestRead ==
  ASSUME NEW w, NEW fixed, NEW csrc \in Seq(Word), NEW block \in Seq(Byte),
         NEW payload \in Seq(Byte), Laid(w, fixed, csrc, block, payload),
         fixed.cc = Len(csrc), NEW s, Begins(s, w), ~CsrcsMissing(s), NEW exts,
         ReadTo(ReadBlock(s, 1 + 4 * Len(csrc)), PayloadAt(csrc, block), exts)
  PROVE  Parse(s) = Finish(SubSeq(s, PayloadAt(csrc, block) + 1, Len(s)),
                           Handler(fixed, csrc, exts))
<1>1. s[1] = fixed
  <2>1. 1 \in 1..Len(s)
    BY DEF Begins, IsWire
  <2>. QED  BY <2>1 DEF Begins, Laid
<1>2. 1 + 4 * Len(csrc) <= Len(s)
  BY <1>1 DEF CsrcsMissing, Begins, IsWire
<1>3. Words(s, 1, Len(csrc)) = csrc
  BY <1>2, SourcesRead
<1>4. PICK n, o : n = Len(csrc) /\ o = PayloadAt(csrc, block)
  OBVIOUS
<1>5. /\ s[1].cc = n /\ Words(s, 1, n) = csrc
      /\ ReadTo(ReadBlock(s, 1 + 4 * n), o, exts)
  BY <1>1, <1>3, <1>4
<1>6. PICK b : b = ReadBlock(s, 1 + 4 * n)
  OBVIOUS
<1>7. b.status = "ok" /\ b.offset = o /\ b.exts = exts
  BY <1>5, <1>6 DEF ReadTo
<1>8. Parse(s) = ReadPayload(s, o, Handler(fixed, csrc, exts))
  BY <1>1, <1>5, <1>6, <1>7, ParseIs
<1>. QED  BY <1>4, <1>8 DEF ReadPayload

\* What a handler that was parsed without complaint has kept.
LEMMA FinishedOk ==
  ASSUME NEW payload \in Seq(Byte), NEW fixed, NEW csrc, NEW exts,
         Finish(payload, Handler(fixed, csrc, exts)).status = "ok"
  PROVE  /\ Finish(payload, Handler(fixed, csrc, exts)).packet.csrc = csrc
         /\ \/ Finish(payload, Handler(fixed, csrc, exts)).packet.payload = payload
            \/ /\ fixed.padding # 0 /\ payload # <<>> /\ ~BadPadding(payload)
               /\ Finish(payload, Handler(fixed, csrc, exts)).packet.payload =
                    Unpadded(payload)
<1>. DEFINE h == Handler(fixed, csrc, exts)
            With(q) == Result("ok", [h EXCEPT !.payload = q])
<1>1. ASSUME NEW q  PROVE With(q).packet.csrc = csrc /\ With(q).packet.payload = q
  BY DEF Result, Handler
<1>2. h.padding = fixed.padding
  BY DEF Handler
<1>. HIDE DEF h
<1>3. payload # <<>>
  BY DEF Finish, Result, h
<1>4. CASE h.padding = 0
  <2>1. Finish(payload, h) = With(payload)
    BY <1>3, <1>4 DEF Finish
  <2>. HIDE DEF With
  <2>. QED  BY <1>1, <2>1 DEF h
<1>5. CASE h.padding # 0
  <2>1. ~BadPadding(payload)
    BY <1>3, <1>5 DEF Finish, Result, h
  <2>2. Finish(payload, h) = With(Unpadded(payload))
    BY <1>3, <1>5, <2>1 DEF Finish
  <2>. HIDE DEF With
  <2>. QED  BY <1>1, <1>2, <1>3, <1>5, <2>1, <2>2 DEF h
<1>. QED  BY <1>4, <1>5

\* A beginning of a packet without extensions that is read without complaint has
\* all sources, and its payload is a beginning of the payload.
CutRead(result, p) ==
  result.status = "ok" =>
    /\ result.packet.csrc = p.csrc
    /\ p.padding = 0 => IsPrefix(result.packet.payload, p.payload)
    /\ Len(result.packet.payload) <= Len(p.payload)

LEMMA PlainCutRead ==
  ASSUME NEW p \in Packet, Len(p.csrc) = p.cc, p.extensions = 0,
         NEW s, Begins(s, Build(p))
  PROVE  CutRead(Parse(s), p)
<1>. SUFFICES ASSUME Parse(s).status = "ok"  PROVE CutRead(Parse(s), p)
  BY DEF CutRead
<1>1. PICK w : w = Build(p)
  OBVIOUS
<1>2. PICK csrc \in Seq(Word) : csrc = p.csrc
  BY PacketIs
<1>0. ~LeftOut(p) /\ Extended(p) = <<>>
  BY DEF LeftOut, Extended
<1>3. PICK payload \in Seq(Byte) : payload = p.payload /\ payload = Load(p)
  BY <1>0, PartsWritten
<1>4. PICK block \in Seq(Byte) : block = Block(p) /\ block = <<>>
  BY <1>0, PartsWritten
<1>5. PICK exts : exts = <<>>
  OBVIOUS
<1>6. Laid(w, Fixed(p), csrc, block, payload)
  BY <1>1, <1>2, <1>3, <1>4, BuildLaid
<1>7. Begins(s, w)
  BY <1>1
<1>8. PICK fixed : fixed = Fixed(p)
  OBVIOUS
<1>9. fixed.extensions = 0 /\ fixed.cc = Len(csrc) /\ fixed.padding = p.padding
  BY <1>2, <1>8 DEF Fixed
<1>10. s[1] = fixed
  <2>1. 1 \in 1..Len(s)
    BY <1>7 DEF Begins, IsWire
  <2>. QED  BY <1>6, <1>7, <1>8, <2>1 DEF Begins, Laid
<1>11. ~CsrcsMissing(s)
  <2>. SUFFICES ASSUME CsrcsMissing(s)  PROVE FALSE
    OBVIOUS
  <2>1. Parse(s) = Result("csrc", Handler(s[1], <<>>, <<>>))
    BY ParseIs
  <2>. QED  BY <2>1 DEF Result
<1>12. 1 + 4 * Len(csrc) = PayloadAt(csrc, block)
  BY <1>4 DEF PayloadAt
<1>13. ReadTo(ReadBlock(s, 1 + 4 * Len(csrc)), PayloadAt(csrc, block), exts)
  <2>1. s[1].extensions = 0
    BY <1>9, <1>10
  <2>. QED  BY <1>5, <1>12, <2>1, PlainBlock
<1>14. PayloadAt(csrc, block) <= Len(s)
  BY <1>9, <1>10, <1>11, <1>12 DEF CsrcsMissing, Begins, IsWire
<1>15. TailRead(s, PayloadAt(csrc, block), payload)
  BY <1>6, <1>7, <1>14, PayloadRead
<1>16. PICK o : o = PayloadAt(csrc, block)
  OBVIOUS
<1>17. PICK rest \in Seq(Byte) : /\ rest = SubSeq(s, o + 1, Len(s))
                                 /\ Len(rest) \in 0..Len(payload)
                                 /\ \A i \in 1..Len(rest) : rest[i] = payload[i]
  BY <1>15, <1>16 DEF TailRead
<1>18. Parse(s) = Finish(rest, Handler(fixed, csrc, exts))
  <2>1. Parse(s) = Finish(SubSeq(s, PayloadAt(csrc, block) + 1, Len(s)),
                          Handler(fixed, csrc, exts))
    BY <1>6, <1>7, <1>8, <1>9, <1>11, <1>13, RestRead
  <2>. QED  BY <1>16, <1>17, <2>1
<1>19. PICK got : got = Parse(s).packet
  OBVIOUS
<1>20. /\ got.csrc = csrc
       /\ \/ got.payload = rest
          \/ /\ fixed.padding # 0 /\ rest # <<>> /\ ~BadPadding(rest)
             /\ got.payload = Unpadded(rest)
  BY <1>18, <1>19, FinishedOk
<1>21. IsPrefix(rest, payload)
  <2>1. SubSeq(rest, 1, Len(rest)) = SubSeq(payload, 1, Len(rest))
    BY <1>17
  <2>. QED  BY <1>17, <2>1 DEF IsPrefix
<1>22. p.padding = 0 => IsPrefix(got.payload, payload)
  BY <1>9, <1>20, <1>21
<1>23. Len(got.payload) <= Len(payload)
  <2>1. CASE got.payload = rest
    BY <1>17, <2>1
  <2>2. CASE rest # <<>> /\ ~BadPadding(rest) /\ got.payload = Unpadded(rest)
    <3>1. Unpadded(rest) \in Seq(Byte) /\ Len(Unpadded(rest)) <= Len(rest)
      BY <2>2, UnpaddedIs
    <3>. QED  BY <1>17, <2>2, <3>1
  <2>. QED  BY <1>20, <2>1, <2>2
<1>. QED  BY <1>2, <1>3, <1>19, <1>20, <1>22, <1>23 DEF CutRead

-----------------------------------------------------------------------------
(* A packet with one extension of three or four words. *)

Three(w, a, b, c) ==
  /\ Len(w) = Len(a) + Len(b) + Len(c)
  /\ \A i \in 1..Len(a) : w[i] = a[i]
  /\ \A i \in 1..Len(b) : w[Len(a) + i] = b[i]
  /\ \A i \in 1..Len(c) : w[Len(a) + Len(b) + i] = c[i]

LEMMA JoinedThree ==
  ASSUME NEW V, NEW a \in Seq(V), NEW b \in Seq(V), NEW c \in Seq(V)
  PROVE  Three((a \o b) \o c, a, b, c)
<1>1. PICK ab \in Seq(V) : ab = a \o b
  BY ConcatProperties
<1>2. PICK w \in Seq(V) : w = ab \o c
  BY ConcatProperties
<1>3. Len(a) \in Nat /\ Len(b) \in Nat /\ Len(c) \in Nat
  OBVIOUS
<1>4. /\ Len(ab) = Len(a) + Len(b)
      /\ \A i \in 1..Len(a) : ab[i] = a[i]
      /\ \A i \in 1..Len(b) : ab[Len(a) + i] = b[i]
  BY <1>1, JoinedTwo DEF Two
<1>5. /\ Len(w) = Len(ab) + Len(c)
      /\ \A i \in 1..Len(ab) : w[i] = ab[i]
      /\ \A i \in 1..Len(c) : w[Len(ab) + i] = c[i]
  BY <1>2, JoinedTwo DEF Two
<1>6. Three(w, a, b, c)
  <2>. HIDE <1>1, <1>2
  <2>1. Len(w) = Len(a) + Len(b) + Len(c)
    BY <1>3, <1>4, <1>5
  <2>2. \A i \in 1..Len(a) : w[i] = a[i]
    BY <1>3, <1>4, <1>5
  <2>3. \A i \in 1..Len(b) : w[Len(a) + i] = b[i]
    BY <1>3, <1>4, <1>5
  <2>4. \A i \in 1..Len(c) : w[Len(a) + Len(b) + i] = c[i]
    BY <1>3, <1>4, <1>5
  <2>. QED  BY <2>1, <2>2, <2>3, <2>4 DEF Three
<1>. QED  BY <1>1, <1>2, <1>6

\* One block after the other, when there is one.
LEMMA FlattenOne ==
  ASSUME NEW blocks \in Seq(Seq(Byte)), Len(blocks) = 1
  PROVE  FlattenSeq(blocks) = blocks[1]
<1>1. PICK g \in [0..Len(blocks) -> Seq(Byte)] :
        /\ g[0] = <<>>
        /\ \A i \in 1..Len(blocks) : g[i] = g[i-1] \o blocks[i]
        /\ FlattenSeq(blocks) = g[Len(blocks)]
  BY FlattenRuns
<1>2. PICK one \in Seq(Byte) : one = blocks[1]
  <2>1. 1 \in 1..Len(blocks)
    OBVIOUS
  <2>2. blocks[1] \in Seq(Byte)
    BY <2>1, ElementOfSeq
  <2>. QED  BY <2>2, Zenon
<1>3. g[1] = g[0] \o blocks[1]
  <2>1. 1 \in 1..Len(blocks) /\ 1 - 1 = 0
    OBVIOUS
  <2>. QED  BY <1>1, <2>1
<1>4. g[1] = <<>> \o one
  BY <1>1, <1>2, <1>3
<1>5. <<>> \o one = one
  BY ConcatEmptySeq
<1>. QED  BY <1>1, <1>2, <1>4, <1>5

\* A number that was written is read.
LEMMA Written16 ==
  ASSUME NEW w, NEW o, NEW n \in Short, w[o + 1] = Field16(n)[1], w[o + 2] = Field16(n)[2]
  PROVE  Read16(w, o) = n
<1>1. PICK high, low : high \in Byte /\ low \in Byte
                         /\ Field16(n) = <<high, low>> /\ Joined(high, low) = n
  BY Field16Is, Zenon
<1>2. w[o + 1] = high /\ w[o + 2] = low
  BY <1>1
<1>3. Read16(w, o) = Joined(w[o + 1], w[o + 2])
  BY Read16Joins, Zenon
<1>. QED  BY <1>1, <1>2, <1>3, Zenon

\* The block of one extension of n words.
OneBlock(block, ext, n) ==
  /\ Len(block) = 8 + 4 * n
  /\ block[1] = Marker[1] /\ block[2] = Marker[2]
  /\ \A i \in 1..2 : /\ block[2 + i] = Field16(n + 2)[i]
                     /\ block[4 + i] = Field16(ext.id)[i]
                     /\ block[6 + i] = Field16(n)[i]
  /\ \A k \in 1..n : \A j \in 1..4 : block[8 + 4 * (k - 1) + j] = ext.data[k][j]

LEMMA OneExtension ==
  ASSUME NEW exts \in Seq(Ext), Len(exts) = 1, Len(exts[1].data) \in {3, 4}
  PROVE  /\ OneBlock(ExtensionBlock(exts), exts[1], Len(exts[1].data))
         /\ BlockWords(exts) <= LengthMax
<1>. DEFINE blocks == [i \in DOMAIN exts |-> ExtensionBytes(exts[i])]
            content == FlattenSeq(blocks)
<1>1. 1 \in 1..Len(exts) /\ DOMAIN exts = 1..Len(exts)
  OBVIOUS
<1>2. PICK ext \in Ext : ext = exts[1]
  BY <1>1
<1>3. blocks \in Seq(Seq(Byte)) /\ Len(blocks) = 1 /\ blocks[1] = ExtensionBytes(ext)
  <2>1. ASSUME NEW i \in DOMAIN exts  PROVE ExtensionBytes(exts[i]) \in Seq(Byte)
    <3>1. exts[i] \in Ext
      BY <1>1, ElementOfSeq
    <3>. QED  BY <3>1, ExtensionTyped
  <2>. QED  BY <1>1, <1>2, <2>1
<1>. HIDE DEF blocks
<1>4. content = ExtensionBytes(ext)
  BY <1>3, FlattenOne
<1>. HIDE DEF content
<1>5. PICK n \in Nat : n = Len(ext.data) /\ n \in {3, 4}
  <2>1. ext.data \in Seq(Word)
    BY DEF Ext
  <2>. QED  BY <1>2, <2>1
<1>6. ext.id \in Nat /\ ext.data \in Seq(Word)
  <2>1. Short \subseteq Nat
    BY DEF Short
  <2>2. ext.id \in Short /\ ext.data \in Seq(Word)
    BY DEF Ext
  <2>. QED  BY <2>1, <2>2
<1>7. PICK data \in Seq(Byte) : data = FlattenSeq(ext.data)
  BY <1>6, FlattenWords
<1>8. /\ Len(data) = 4 * n
      /\ \A k \in 1..n : \A j \in 1..4 : data[4 * (k - 1) + j] = ext.data[k][j]
  BY <1>5, <1>6, <1>7, FlattenWords
<1>9. PICK id \in Seq(Byte) : id = Field16(ext.id) /\ Len(id) = 2
  BY <1>6, Field16Typed
<1>10. PICK size \in Seq(Byte) : size = Field16(n) /\ Len(size) = 2
  BY <1>5, Field16Typed
<1>11. PICK e \in Seq(Byte) : e = (id \o size) \o data
  <2>1. id \o size \in Seq(Byte)
    BY ConcatProperties
  <2>. QED  BY <2>1, ConcatProperties
<1>12. Three(e, id, size, data)
  BY <1>11, JoinedThree
<1>13. content = e
  BY <1>5, <1>4, <1>7, <1>9, <1>10, <1>11 DEF ExtensionBytes
<1>14. /\ Len(e) = 4 + 4 * n
       /\ \A i \in 1..2 : e[i] = id[i] /\ e[2 + i] = size[i]
       /\ \A i \in 1..(4 * n) : e[4 + i] = data[i]
  BY <1>8, <1>9, <1>10, <1>12 DEF Three
<1>15. BlockWords(exts) = n + 2
  <2>1. PICK z \in Nat : z = 4 + 4 * n
    OBVIOUS
  <2>2. 1 + z \div 4 = n + 2
    BY <2>1
  <2>3. Len(content) = z
    BY <1>13, <1>14, <2>1
  <2>4. Content(exts) = content
    BY DEF Content, content, blocks
  <2>. QED  BY <2>2, <2>3, <2>4, Zenon DEF BlockWords
<1>16. PICK length \in Seq(Byte) : length = Field16(n + 2) /\ Len(length) = 2
  <2>1. n + 2 \in Nat
    OBVIOUS
  <2>. QED  BY <2>1, Field16Typed
<1>17. Marker \in Seq(Byte) /\ Len(Marker) = 2
  BY DEF Marker, Byte
<1>18. PICK block \in Seq(Byte) : block = (Marker \o length) \o e
  <2>1. Marker \o length \in Seq(Byte)
    BY <1>17, ConcatProperties
  <2>. QED  BY <2>1, ConcatProperties
<1>19. block = ExtensionBlock(exts) /\ BlockWords(exts) <= LengthMax
  <2>1. n + 2 <= LengthMax /\ n + 2 # LengthMax + 1
    <3>1. LengthMax \in Nat /\ 6 <= LengthMax
      BY LengthMaxFits
    <3>2. n + 2 <= 6
      <4>1. n = 3 \/ n = 4
        BY <1>5
      <4>. QED  BY <4>1
    <3>. QED  BY <3>1, <3>2
  <2>2. BlockHeader(n + 2) = Marker \o length
    BY <1>16, <2>1 DEF BlockHeader
  <2>3. Content(exts) = e
    BY <1>13 DEF Content, content, blocks
  <2>. QED  BY <1>15, <1>18, <2>1, <2>2, <2>3 DEF ExtensionBlock
<1>20. Three(block, Marker, length, e)
  BY <1>17, <1>18, JoinedThree
<1>21. /\ Len(block) = 8 + 4 * n
       /\ \A i \in 1..2 : block[i] = Marker[i] /\ block[2 + i] = length[i]
       /\ \A i \in 1..(4 + 4 * n) : block[4 + i] = e[i]
  <2>1. Len(Marker) = 2 /\ Len(length) = 2 /\ Len(e) = 4 + 4 * n
    BY <1>14, <1>16, <1>17
  <2>2. Len(block) = 8 + 4 * n
    BY <1>20, <2>1 DEF Three
  <2>3. \A i \in 1..2 : block[i] = Marker[i] /\ block[2 + i] = length[i]
    BY <1>20, <2>1 DEF Three
  <2>4. \A i \in 1..(4 + 4 * n) : block[2 + 2 + i] = e[i]
    BY <1>20, <2>1 DEF Three
  <2>5. \A i \in 1..(4 + 4 * n) : block[4 + i] = e[i]
    BY <2>4
  <2>. QED  BY <2>2, <2>3, <2>5
<1>22. ASSUME NEW i \in 1..2  PROVE block[4 + i] = id[i] /\ block[6 + i] = size[i]
  <2>1. i \in 1..(4 + 4 * n) /\ 2 + i \in 1..(4 + 4 * n) /\ 4 + (2 + i) = 6 + i
    OBVIOUS
  <2>2. block[4 + i] = e[i] /\ block[4 + (2 + i)] = e[2 + i]
    BY <1>21, <2>1
  <2>3. e[i] = id[i] /\ e[2 + i] = size[i]
    BY <1>14
  <2>. QED  BY <2>1, <2>2, <2>3
<1>23. ASSUME NEW k \in 1..n, NEW j \in 1..4
       PROVE  block[8 + 4 * (k - 1) + j] = ext.data[k][j]
  <2>1. PICK i \in 1..(4 * n) : i = 4 * (k - 1) + j
    OBVIOUS
  <2>2. 4 + i \in 1..(4 + 4 * n) /\ 4 + (4 + i) = 8 + 4 * (k - 1) + j
    BY <2>1
  <2>3. block[4 + (4 + i)] = e[4 + i] /\ e[4 + i] = data[i]
    BY <1>14, <1>21, <2>2
  <2>. QED  BY <1>8, <2>1, <2>2, <2>3
<1>24. block[1] = Marker[1] /\ block[2] = Marker[2]
  BY <1>21
<1>25. OneBlock(block, ext, n)
  BY <1>9, <1>10, <1>16, <1>21, <1>22, <1>23, <1>24 DEF OneBlock
<1>. QED  BY <1>5, <1>2, <1>19, <1>25

\* Three or four words are as many as the parser's counter follows.
LEMMA FollowedBlock ==
  ASSUME NEW p \in Packet, Len(p.csrc) = p.cc, p.extensions = 1, Len(p.exts) = 1,
         Len(p.exts[1].data) \in {3, 4}
  PROVE  /\ ~LeftOut(p)
         /\ ReadTo(ReadBlock(Build(p), 1 + 4 * Len(p.csrc)),
                   PayloadAt(p.csrc, Block(p)), p.exts)
<1>1. PICK w : w = Build(p)
  OBVIOUS
<1>2. PICK csrc \in Seq(Word) : csrc = p.csrc
  BY PacketIs
<1>3. PICK payload \in Seq(Byte) : payload = Load(p)
  BY PartsWritten
<1>4. PICK exts \in Seq(Ext) : exts = p.exts
  BY PacketIs
<1>5. PICK block \in Seq(Byte) : block = ExtensionBlock(exts)
  BY ExtensionBlockTyped
<1>0. ~LeftOut(p)
  <2>1. BlockWords(exts) <= LengthMax /\ BlockWords(exts) \in Nat
    BY <1>4, OneExtension, ContentTyped
  <2>2. ~(BlockWords(exts) > LengthMax + 1)
    BY <2>1, LengthMaxFits
  <2>. QED  BY <1>4, <2>2 DEF LeftOut
<1>6. Block(p) = block
  BY <1>0, <1>4, <1>5, PartsWritten DEF Extended
<1>7. Laid(w, Fixed(p), csrc, block, payload)
  BY <1>1, <1>2, <1>3, <1>6, BuildLaid
<1>8. Len(exts) = 1 /\ Len(exts[1].data) \in {3, 4}
  BY <1>4
<1>9. PICK ext \in Ext : ext = exts[1]
  <2>1. 1 \in 1..Len(exts)
    BY <1>8
  <2>2. exts[1] \in Ext
    BY <2>1, ElementOfSeq
  <2>. QED  BY <2>2, Zenon
<1>10. PICK n \in {3, 4} : n = Len(ext.data)
  BY <1>8, <1>9
<1>11. OneBlock(block, ext, n)
  BY <1>5, <1>8, <1>9, <1>10, OneExtension
<1>12. PICK c \in Nat : c = 1 + 4 * Len(csrc) /\ c >= 1
  OBVIOUS
<1>13. PICK l \in Nat : l = Len(payload)
  OBVIOUS
<1>14. IsWire(w) /\ w[1] = Fixed(p) /\ Len(w) = c + (8 + 4 * n) + l
  BY <1>7, <1>11, <1>12, <1>13 DEF Laid, OneBlock
<1>15. \A i \in 1..(8 + 4 * n) : w[c + i] = block[i]
  BY <1>7, <1>11, <1>12 DEF Laid, OneBlock
<1>16. ASSUME NEW i \in 1..2
       PROVE  /\ w[c + i] = Marker[i]
              /\ w[(c + 2) + i] = Field16(n + 2)[i]
              /\ w[(c + 4) + i] = Field16(ext.id)[i]
              /\ w[(c + 6) + i] = Field16(n)[i]
  <2>1. /\ i \in 1..(8 + 4 * n) /\ 2 + i \in 1..(8 + 4 * n) /\ 4 + i \in 1..(8 + 4 * n)
        /\ 6 + i \in 1..(8 + 4 * n) /\ (c + 2) + i = c + (2 + i)
        /\ (c + 4) + i = c + (4 + i) /\ (c + 6) + i = c + (6 + i)
    OBVIOUS
  <2>2. /\ w[c + i] = block[i] /\ w[(c + 2) + i] = block[2 + i]
        /\ w[(c + 4) + i] = block[4 + i] /\ w[(c + 6) + i] = block[6 + i]
    BY <1>15, <2>1
  <2>3. block[i] = Marker[i]
    BY <1>11 DEF OneBlock
  <2>4. /\ block[2 + i] = Field16(n + 2)[i] /\ block[4 + i] = Field16(ext.id)[i]
        /\ block[6 + i] = Field16(n)[i]
    BY <1>11 DEF OneBlock
  <2>. QED  BY <2>2, <2>3, <2>4
<1>17. ASSUME NEW k \in 1..n, NEW j \in 1..4
       PROVE  w[(c + 8) + 4 * (k - 1) + j] = ext.data[k][j]
  <2>1. PICK i \in 1..(8 + 4 * n) : i = 8 + 4 * (k - 1) + j
    OBVIOUS
  <2>2. (c + 8) + 4 * (k - 1) + j = c + i
    BY <2>1
  <2>3. block[8 + 4 * (k - 1) + j] = ext.data[k][j]
    BY <1>11 DEF OneBlock
  <2>. QED  BY <1>15, <2>1, <2>2, <2>3
<1>18. /\ n + 2 \in Short /\ n \in Short /\ ext.id \in Short /\ ext.data \in Seq(Word)
       /\ n \in Nat
  <2>1. ext.id \in Short /\ ext.data \in Seq(Word)
    BY DEF Ext
  <2>2. n + 2 \in Short /\ n \in Short /\ n \in Nat
    <3>1. 3 \in Short /\ 4 \in Short /\ 3 + 2 \in Short /\ 4 + 2 \in Short
      BY DEF Short
    <3>2. n = 3 \/ n = 4
      OBVIOUS
    <3>3. n \in Nat
      BY <3>2
    <3>. QED  BY <3>1, <3>2, <3>3, Zenon
  <2>. QED  BY <2>1, <2>2
<1>19. Read16(w, c + 2) = n + 2
  <2>1. w[(c + 2) + 1] = Field16(n + 2)[1] /\ w[(c + 2) + 2] = Field16(n + 2)[2]
    BY <1>16
  <2>. QED  BY <1>18, <2>1, Written16
<1>20. PICK o \in Nat : o = c + 4
  OBVIOUS
<1>21. Read16(w, o) = ext.id
  <2>1. w[o + 1] = Field16(ext.id)[1] /\ w[o + 2] = Field16(ext.id)[2]
    BY <1>16, <1>20
  <2>. QED  BY <1>18, <2>1, Written16
<1>22. Read16(w, o + 2) = n
  <2>1. o + 2 = c + 6
    BY <1>20
  <2>2. w[(c + 6) + 1] = Field16(n)[1] /\ w[(c + 6) + 2] = Field16(n)[2]
    BY <1>16
  <2>3. w[(o + 2) + 1] = Field16(n)[1] /\ w[(o + 2) + 2] = Field16(n)[2]
    BY <2>1, <2>2
  <2>. QED  BY <1>18, <2>3, Written16
<1>23. Words(w, o + 4, n) = ext.data
  <2>1. /\ o + 4 \in Nat /\ 1 <= o + 4 /\ (o + 4) + 4 * n <= Len(w) /\ o + 4 = c + 8
    BY <1>14, <1>20
  <2>2. \A k \in 1..n : \A j \in 1..4 : w[(o + 4) + 4 * (k - 1) + j] = ext.data[k][j]
    BY <1>17, <2>1
  <2>3. Words(w, o + 4, Len(ext.data)) = ext.data
    BY <1>10, <1>14, <1>18, <2>1, <2>2, WordsWritten
  <2>. QED  BY <1>10, <2>3
<1>24. ExtensionAt(w, o) = ext
  <2>1. ext = [id |-> ext.id, data |-> ext.data]
    BY DEF Ext
  <2>. QED  BY <1>21, <1>22, <1>23, <2>1 DEF ExtensionAt
<1>25. ReadBlock(w, c) = ReadExtensions(w, o, n + 2)
  <2>1. w[1].extensions = 1
    BY <1>14 DEF Fixed
  <2>2. ~(Len(w) - c < 4) /\ c + 2 <= Len(w)
    BY <1>14
  <2>3. Bytes(w, c, 2) = Marker
    <3>1. /\ Bytes(w, c, 2) \in Seq(Byte) /\ Len(Bytes(w, c, 2)) = 2
          /\ \A i \in 1..2 : Bytes(w, c, 2)[i] = w[c + i]
      <4>1. IsWire(w) /\ 2 \in Nat /\ 1 <= c /\ c + 2 <= Len(w)
        BY <1>12, <1>14, <2>2
      <4>. QED  BY <4>1, BytesRead
    <3>2. Marker \in Seq(Byte) /\ Len(Marker) = 2
      BY DEF Marker, Byte
    <3>3. \A i \in 1..2 : Bytes(w, c, 2)[i] = Marker[i]
      BY <1>16, <3>1
    <3>. QED  BY <3>1, <3>2, <3>3, SeqEqual
  <2>. QED  BY <1>19, <1>20, <2>1, <2>2, <2>3 DEF ReadBlock
<1>26. o \in 1..Len(w) /\ n + 2 \in Nat /\ 2 \in 0..Len(w) /\ 1 \in 1..Len(w) /\ 2 \in 1..Len(w)
  BY <1>12, <1>14, <1>20
<1>27. PICK g \in [0..Len(w) -> Loops(w)] :
         LoopRun(g, w, o, n + 2) /\ ReadExtensions(w, o, n + 2) = g[Len(w)]
  BY <1>14, <1>26, LoopRuns
<1>28. PICK start : start = LoopStart(o)
  OBVIOUS
<1>29. start.status = "loop" /\ start.offset = o /\ start.i = 4 /\ start.exts = <<>>
  BY <1>28 DEF LoopStart, FirstWord
<1>30. g[1] = NextExtension(w, n + 2, start) /\ g[2] = NextExtension(w, n + 2, g[1])
  <2>1. 1 - 1 = 0 /\ 2 - 1 = 1
    OBVIOUS
  <2>2. g[1] = NextExtension(w, n + 2, g[1 - 1]) /\ g[2] = NextExtension(w, n + 2, g[2 - 1])
    BY <1>26, <1>27 DEF LoopRun
  <2>. QED  BY <1>27, <1>28, <2>1, <2>2 DEF LoopRun
<1>31. g[1] = Behind(w, start, n)
  <2>1. ~(start.i >= n + 2)
    BY <1>29
  <2>2. ~(Len(w) - o < 4 \/ Len(w) - o < 4 + n) /\ ~(Len(w) - o < 4 + 4 * n)
    BY <1>14, <1>20
  <2>. QED  BY <1>22, <1>29, <1>30, <2>1, <2>2, NextIs
<1>32. /\ g[1].status = "loop" /\ g[1].offset = o + 4 + 4 * n
       /\ g[1].i = 4 + n \div 4 + 1 /\ g[1].exts = <<ext>>
  <2>1. Append(<<>>, ext) = <<ext>>
    OBVIOUS
  <2>. QED  BY <1>24, <1>29, <1>31, <2>1 DEF Behind
<1>33. g[2] = Stopped(g[1], "ok")
  <2>1. 4 + n \div 4 + 1 >= n + 2
    <3>1. CASE n = 3
      BY <3>1
    <3>2. CASE n = 4
      BY <3>2
    <3>. QED  BY <3>1, <3>2
  <2>2. g[1].i >= n + 2
    BY <1>32, <2>1
  <2>. QED  BY <1>30, <1>32, <2>2, NextIs
<1>34. /\ g[2].status = "ok" /\ g[2].offset = o + 4 + 4 * n /\ g[2].exts = <<ext>>
  <2>1. g[1] \in Loops(w)
    <3>1. 1 \in 0..Len(w)
      BY <1>26
    <3>. QED  BY <1>27, <3>1
  <2>2. /\ Stopped(g[1], "ok").status = "ok" /\ Stopped(g[1], "ok").offset = g[1].offset
        /\ Stopped(g[1], "ok").exts = g[1].exts
    BY <2>1 DEF Stopped, Loops
  <2>. QED  BY <1>32, <1>33, <2>2
<1>35. g[Len(w)] = g[2]
  BY <1>14, <1>26, <1>27, <1>34, LoopStays
<1>36. exts = <<ext>>
  <2>1. <<ext>> \in Seq(Ext) /\ Len(<<ext>>) = 1 /\ <<ext>>[1] = ext
    OBVIOUS
  <2>. QED  BY <1>8, <1>9, <2>1, SeqEqual
<1>37. PayloadAt(csrc, block) = o + 4 + 4 * n
  BY <1>11, <1>12, <1>20 DEF PayloadAt, OneBlock
<1>38. ReadTo(ReadBlock(w, c), PayloadAt(csrc, block), exts)
  BY <1>25, <1>27, <1>34, <1>35, <1>36, <1>37 DEF ReadTo
<1>. QED  BY <1>0, <1>1, <1>2, <1>4, <1>6, <1>12, <1>38

-----------------------------------------------------------------------------
(* A packet that arrives whole. *)

ExtsRead(p) == IF p.extensions = 1 THEN p.exts ELSE <<>>

FollowedIn(p) ==
  \/ p.extensions = 0
  \/ Len(p.exts) = 1 /\ Len(p.exts[1].data) \in {3, 4}

LEMMA WholeRead ==
  ASSUME NEW p \in Packet, Len(p.csrc) = p.cc, FollowedIn(p)
  PROVE  Parse(Build(p)) = Finish(p.payload, Handler(Fixed(p), p.csrc, ExtsRead(p)))
<1>1. PICK w : w = Build(p)
  OBVIOUS
<1>2. PICK csrc \in Seq(Word) : csrc = p.csrc
  BY PacketIs
<1>0. ~LeftOut(p)
  <2>1. CASE p.extensions = 0
    BY <2>1 DEF LeftOut
  <2>2. CASE p.extensions # 0
    <3>1. p.extensions = 1
      BY <2>2, PacketIs
    <3>. QED  BY <2>2, <3>1, FollowedBlock DEF FollowedIn
  <2>. QED  BY <2>1, <2>2
<1>3. PICK payload \in Seq(Byte) : payload = p.payload /\ payload = Load(p)
  BY <1>0, PartsWritten
<1>4. PICK block \in Seq(Byte) : block = Block(p)
  BY PartsWritten
<1>5. PICK fixed : fixed = Fixed(p)
  OBVIOUS
<1>6. PICK exts : exts = ExtsRead(p)
  OBVIOUS
<1>7. Laid(w, fixed, csrc, block, payload)
  BY <1>1, <1>2, <1>3, <1>4, <1>5, BuildLaid
<1>8. fixed.cc = Len(csrc) /\ w[1] = fixed
  <2>1. fixed.cc = Len(csrc)
    BY <1>2, <1>5 DEF Fixed
  <2>. QED  BY <1>7, <2>1 DEF Laid
<1>9. IsWire(w) /\ Len(w) = 1 + 4 * Len(csrc) + Len(block) + Len(payload)
  BY <1>7 DEF Laid
<1>10. Len(csrc) \in Nat /\ Len(block) \in Nat /\ Len(payload) \in Nat /\ Len(w) \in Nat
  BY <1>9 DEF IsWire
<1>11. Begins(w, w)
  BY <1>9, <1>10 DEF Begins
<1>12. ~CsrcsMissing(w)
  BY <1>8, <1>9, <1>10 DEF CsrcsMissing
<1>13. ReadTo(ReadBlock(w, 1 + 4 * Len(csrc)), PayloadAt(csrc, block), exts)
  <2>1. CASE p.extensions = 0
    <3>1. w[1].extensions = 0
      BY <1>5, <1>8, <2>1 DEF Fixed
    <3>2. block = <<>> /\ exts = <<>>
      BY <1>0, <1>4, <1>6, <2>1, PartsWritten DEF Extended, ExtsRead
    <3>3. PICK c : c = 1 + 4 * Len(csrc)
      OBVIOUS
    <3>4. PayloadAt(csrc, block) = c
      BY <1>10, <3>2, <3>3 DEF PayloadAt
    <3>5. ReadTo(ReadBlock(w, c), c, <<>>)
      BY <3>1, PlainBlock
    <3>. QED  BY <3>2, <3>3, <3>4, <3>5
  <2>2. CASE p.extensions # 0
    <3>1. p.extensions = 1 /\ Len(p.exts) = 1 /\ Len(p.exts[1].data) \in {3, 4}
      <4>1. p.extensions = 1
        BY <2>2, PacketIs
      <4>. QED  BY <2>2, <4>1 DEF FollowedIn
    <3>2. ReadTo(ReadBlock(Build(p), 1 + 4 * Len(p.csrc)), PayloadAt(p.csrc, Block(p)), p.exts)
      BY <3>1, FollowedBlock
    <3>3. exts = p.exts
      BY <1>6, <3>1 DEF ExtsRead
    <3>. QED  BY <1>1, <1>2, <1>4, <3>2, <3>3
  <2>. QED  BY <2>1, <2>2
<1>14. Parse(w) = Finish(SubSeq(w, PayloadAt(csrc, block) + 1, Len(w)),
                         Handler(fixed, csrc, exts))
  BY <1>7, <1>8, <1>11, <1>12, <1>13, RestRead
<1>15. PayloadAt(csrc, block) <= Len(w) /\ Len(w) - PayloadAt(csrc, block) = Len(payload)
  BY <1>9, <1>10 DEF PayloadAt
<1>16. TailRead(w, PayloadAt(csrc, block), payload)
  BY <1>7, <1>11, <1>15, PayloadRead
<1>17. SubSeq(w, PayloadAt(csrc, block) + 1, Len(w)) = payload
  <2>1. PICK o : o = PayloadAt(csrc, block)
    OBVIOUS
  <2>2. PICK rest \in Seq(Byte) : /\ rest = SubSeq(w, o + 1, Len(w))
                                  /\ Len(rest) = Len(payload)
                                  /\ \A i \in 1..Len(payload) : rest[i] = payload[i]
    BY <1>15, <1>16, <2>1 DEF TailRead
  <2>3. rest = payload
    BY <2>2, SeqEqual
  <2>. QED  BY <2>1, <2>2, <2>3
<1>. QED  BY <1>1, <1>2, <1>3, <1>5, <1>6, <1>14, <1>17

\* A block whose length could not be written is not taken for one: neither a
\* marker that the length has carried into, nor what was left as allocated.
LEMMA UncountedRead ==
  ASSUME NEW p \in Packet, Len(p.csrc) = p.cc, p.extensions = 1,
         BlockWords(p.exts) > LengthMax
  PROVE  Parse(Build(p)) = Result("extension", Handler(Fixed(p), p.csrc, <<>>))
<1>1. PICK w : w = Build(p)
  OBVIOUS
<1>2. PICK csrc \in Seq(Word) : csrc = p.csrc
  BY PacketIs
<1>3. PICK payload \in Seq(Byte) : payload = Load(p)
  BY PartsWritten
<1>4. PICK exts \in Seq(Ext) : exts = p.exts
  BY PacketIs
<1>5. PICK block \in Seq(Byte) : /\ block = Block(p) /\ Len(block) >= 4
                                 /\ block[2] # Marker[2]
  <2>1. PICK b \in Seq(Byte) : /\ b = ExtensionBlock(exts) /\ Len(b) >= 4
                               /\ BlockWords(exts) = LengthMax + 1 => b[2] # Marker[2]
    BY ExtensionBlockTyped
  <2>2. Block(p) = Written(p, b)
    BY <1>4, <2>1 DEF Block, Extended
  <2>3. CASE LeftOut(p)
    <3>1. /\ Written(p, b) \in Seq(Byte) /\ Len(Written(p, b)) = Len(b)
          /\ \A i \in 1..Len(b) : Written(p, b)[i] = 0
      BY <2>3, WrittenIs
    <3>2. Written(p, b)[2] = 0
      BY <2>1, <3>1
    <3>3. Marker[2] # 0
      BY DEF Marker
    <3>. QED  BY <2>1, <2>2, <3>1, <3>2, <3>3
  <2>4. CASE ~LeftOut(p)
    <3>1. PICK words \in Nat : words = BlockWords(exts)
      BY ContentTyped
    <3>2. words = LengthMax + 1
      <4>1. words > LengthMax /\ ~(words > LengthMax + 1)
        BY <1>4, <2>4, <3>1 DEF LeftOut
      <4>. QED  BY <4>1, LengthMaxFits
    <3>3. Written(p, b) = b
      BY <2>4 DEF Written
    <3>. QED  BY <2>1, <2>2, <3>1, <3>2, <3>3
  <2>. QED  BY <2>3, <2>4
<1>6. PICK fixed : fixed = Fixed(p)
  OBVIOUS
<1>7. Laid(w, fixed, csrc, block, payload)
  BY <1>1, <1>2, <1>3, <1>5, <1>6, BuildLaid
<1>8. fixed.cc = Len(csrc) /\ fixed.extensions = 1
  BY <1>2, <1>6 DEF Fixed
<1>9. PICK c \in Nat : c = 1 + 4 * Len(csrc) /\ c >= 1
  OBVIOUS
<1>10. IsWire(w) /\ w[1] = fixed /\ Len(w) = c + Len(block) + Len(payload)
  BY <1>7, <1>9 DEF Laid
<1>11. Len(block) \in Nat /\ Len(payload) \in Nat /\ Len(csrc) \in Nat /\ Len(w) \in Nat
  BY <1>10 DEF IsWire
<1>12. w[c + 2] = block[2]
  <2>1. 2 \in 1..Len(block)
    BY <1>5, <1>11
  <2>. QED  BY <1>7, <1>9, <2>1 DEF Laid
<1>13. Bytes(w, c, 2) # Marker
  <2>1. 1 <= c /\ c + 2 <= Len(w)
    BY <1>5, <1>9, <1>10, <1>11
  <2>2. \A i \in 1..2 : Bytes(w, c, 2)[i] = w[c + i]
    <3>1. 2 \in Nat
      OBVIOUS
    <3>. QED  BY <1>10, <2>1, <3>1, BytesRead
  <2>3. Bytes(w, c, 2)[2] = block[2]
    BY <1>12, <2>2
  <2>. QED  BY <1>5, <2>3
<1>14. PICK read : read = ReadBlock(w, c)
  OBVIOUS
<1>15. read.status = "extension" /\ read.exts = <<>>
  <2>1. ~(w[1].extensions = 0)
    BY <1>8, <1>10
  <2>. QED  BY <1>13, <1>14, <2>1 DEF ReadBlock
<1>16. ~CsrcsMissing(w)
  BY <1>8, <1>9, <1>10, <1>11 DEF CsrcsMissing
<1>17. Words(w, 1, Len(csrc)) = csrc
  <2>1. Begins(w, w)
    BY <1>10, <1>11 DEF Begins
  <2>2. 1 + 4 * Len(csrc) <= Len(w)
    BY <1>9, <1>10, <1>11
  <2>. QED  BY <1>7, <2>1, <2>2, SourcesRead
<1>18. Parse(w) = Result(read.status, Handler(fixed, csrc, read.exts))
  BY <1>8, <1>9, <1>10, <1>14, <1>15, <1>16, <1>17, ParseIs
<1>. QED  BY <1>1, <1>2, <1>6, <1>15, <1>18

\* The packet with what was read of its extensions and payload.
With(p, payload) == [p EXCEPT !.payload = payload]

LEMMA KeptPacket ==
  ASSUME NEW p \in Packet, NEW exts, NEW payload
  PROVE  With(Handler(Fixed(p), p.csrc, exts), payload) = With([p EXCEPT !.exts = exts], payload)
<1>1. PICK q : q = [p EXCEPT !.exts = exts]
  OBVIOUS
<1>2. q = [padding |-> p.padding, extensions |-> p.extensions, cc |-> p.cc,
           csrc |-> p.csrc, exts |-> exts, payload |-> p.payload]
  BY <1>1, PacketIs
<1>3. With(q, payload) = [padding |-> p.padding, extensions |-> p.extensions,
                          cc |-> p.cc, csrc |-> p.csrc, exts |-> exts,
                          payload |-> payload]
  BY <1>2 DEF With
<1>4. With(Handler(Fixed(p), p.csrc, exts), payload) =
        [padding |-> p.padding, extensions |-> p.extensions, cc |-> p.cc,
         csrc |-> p.csrc, exts |-> exts, payload |-> payload]
  BY DEF With, Handler, Fixed
<1>. QED  BY <1>1, <1>3, <1>4

-----------------------------------------------------------------------------
(* The handlers. *)

\* What is on the wire is the packet as it is now, for it is not edited until the
\* next one; and the source count counts the sources.
Inv ==
  /\ packet \in Packet
  /\ Len(packet.csrc) = packet.cc
  /\ \/ phase = "edit" /\ wire = <<>> /\ arrived = 0 /\ parsed = Nothing
     \/ phase = "sent" /\ wire = Build(packet) /\ arrived = 0 /\ parsed = Nothing
     \/ /\ phase = "parsed"
        /\ wire = Build(packet)
        /\ arrived \in 1..Len(wire)
        /\ parsed = Parse(SubSeq(wire, 1, arrived))

LEMMA EmptyTyped == Empty \in Packet /\ Len(Empty.csrc) = Empty.cc
<1>1. 0 \in 0..CsrcMax
  BY CsrcMaxNat
<1>2. <<>> \in Seq(Word) /\ <<>> \in Seq(Ext) /\ <<>> \in Seq(Byte) /\ Len(<<>>) = 0
  OBVIOUS
<1>. QED  BY <1>1, <1>2, PacketIs DEF Empty

LEMMA InitInv == Init => Inv
BY EmptyTyped DEF Init, Inv

\* A setter keeps the packet well formed.
LEMMA EditInv ==
  ASSUME Inv, NEW p \in Packet, Len(p.csrc) = p.cc, Edit(p)
  PROVE  Inv'
BY DEF Inv, Edit

LEMMA NextInv == Inv /\ [Next]_vars => Inv'
<1>. SUFFICES ASSUME Inv, [Next]_vars  PROVE Inv'
  OBVIOUS
<1>0. packet \in Packet /\ Len(packet.csrc) = packet.cc
  BY DEF Inv
<1>1. ASSUME NEW bit \in {0, 1}, SetPadding(bit)  PROVE Inv'
  <2>1. PICK p : p = [packet EXCEPT !.padding = bit]
    OBVIOUS
  <2>2. p \in Packet /\ Len(p.csrc) = p.cc
    BY <1>0, <2>1, PacketIs
  <2>. QED  BY <1>1, <2>1, <2>2, EditInv DEF SetPadding
<1>2. ASSUME NEW bit \in {0, 1}, SetExtensions(bit)  PROVE Inv'
  <2>1. PICK p : p = [packet EXCEPT !.extensions = bit]
    OBVIOUS
  <2>2. p \in Packet /\ Len(p.csrc) = p.cc
    BY <1>0, <2>1, PacketIs
  <2>. QED  BY <1>2, <2>1, <2>2, EditInv DEF SetExtensions
<1>3. ASSUME NEW csrc \in Csrcs, AddCsrc(csrc)  PROVE Inv'
  <2>1. packet.csrc \in Seq(Word) /\ csrc \in Word /\ packet.cc \in Nat
    BY <1>0, CsrcMaxNat, CsrcsAreWords, PacketIs
  <2>2. packet.cc + 1 \in 0..CsrcMax
    BY <1>3, <2>1, CsrcMaxNat DEF AddCsrc
  <2>3. PICK more : more = Append(packet.csrc, csrc)
    OBVIOUS
  <2>4. more \in Seq(Word) /\ Len(more) = packet.cc + 1
    BY <1>0, <2>1, <2>3, AppendAll
  <2>5. PICK p : p = [packet EXCEPT !.csrc = more, !.cc = packet.cc + 1]
    OBVIOUS
  <2>6. p \in Packet /\ Len(p.csrc) = p.cc
    BY <1>0, <2>2, <2>4, <2>5, PacketIs
  <2>7. Edit(p)
    BY <1>3, <2>3, <2>5 DEF AddCsrc
  <2>. QED  BY <2>6, <2>7, EditInv
<1>4. ASSUME NEW data \in ExtData, AddExtension(1, data)  PROVE Inv'
  <2>1. packet.exts \in Seq(Ext)
    BY <1>0, PacketIs
  <2>2. PICK ext : ext = [id |-> 1, data |-> data]
    OBVIOUS
  <2>3. ext \in Ext
    BY <2>2, ExtDataAreWords DEF Ext, Short
  <2>4. PICK more : more = Append(packet.exts, ext)
    OBVIOUS
  <2>5. more \in Seq(Ext)
    BY <2>1, <2>3, <2>4, AppendAll
  <2>6. PICK p : p = [packet EXCEPT !.exts = more, !.extensions = 1]
    OBVIOUS
  <2>7. p \in Packet /\ Len(p.csrc) = p.cc
    BY <1>0, <2>5, <2>6, PacketIs
  <2>8. Edit(p)
    BY <1>4, <2>2, <2>4, <2>6 DEF AddExtension
  <2>. QED  BY <2>7, <2>8, EditInv
<1>5. ASSUME NEW payload \in Payloads, SetPayload(payload)  PROVE Inv'
  <2>1. PICK p : p = [packet EXCEPT !.payload = payload]
    OBVIOUS
  <2>2. p \in Packet /\ Len(p.csrc) = p.cc
    BY <1>0, <2>1, PacketIs, PayloadsAreBytes
  <2>. QED  BY <1>5, <2>1, <2>2, EditInv DEF SetPayload
<1>6. CASE Reset
  BY <1>6, EmptyTyped, EditInv DEF Reset
<1>7. CASE GetRTPPacket
  BY <1>7 DEF GetRTPPacket, Inv
<1>8. CASE NextPacket
  BY <1>8 DEF NextPacket, Inv
<1>9. ASSUME NEW n \in 0..(Len(wire) - 1), Receive(n)  PROVE Inv'
  <2>1. wire = Build(packet) /\ IsWire(wire)
    BY <1>0, <1>9, BuildLaid DEF Inv, Receive, Laid
  <2>2. 1 + n \in 1..Len(wire)
    BY <2>1 DEF IsWire
  <2>. QED  BY <1>0, <1>9, <2>1, <2>2 DEF Receive, Inv
<1>10. CASE UNCHANGED vars
  BY <1>10 DEF vars, Inv
<1>. QED
  BY <1>1, <1>2, <1>3, <1>4, <1>5, <1>6, <1>7, <1>8, <1>9, <1>10 DEF Next

THEOREM HandlersInvariant == Spec => []Inv
BY InitInv, NextInv, PTL DEF Spec

\* TypeOK: whatever has arrived of whatever was built, the handler that is made
\* from it has its type, and the extension loop has come to an end.
THEOREM TypeCorrect == Spec => []TypeOK
<1>1. Inv => TypeOK
  <2>. SUFFICES ASSUME Inv  PROVE TypeOK
    OBVIOUS
  <2>1. IsWire(Build(packet))
    BY BuildLaid DEF Inv, Laid
  <2>2. packet \in Packet /\ phase \in {"edit", "sent", "parsed"}
    BY DEF Inv
  <2>3. parsed.packet \in Packet /\ parsed.status \in Statuses
    <3>1. CASE parsed = Nothing
      BY <3>1, EmptyTyped DEF Nothing, Result, Statuses
    <3>2. CASE /\ wire = Build(packet) /\ arrived \in 1..Len(wire)
               /\ parsed = Parse(SubSeq(wire, 1, arrived))
      <4>1. PICK s : s = SubSeq(wire, 1, arrived)
        OBVIOUS
      <4>2. IsWire(s)
        BY <2>1, <3>2, <4>1, CutBegins DEF Begins
      <4>. QED  BY <3>2, <4>1, <4>2, ParseTyped
    <3>. QED  BY <3>1, <3>2 DEF Inv
  <2>4. arrived \in 0..Len(wire)
    <3>1. CASE wire = <<>> /\ arrived = 0
      BY <3>1
    <3>2. CASE wire = Build(packet) /\ (arrived = 0 \/ arrived \in 1..Len(wire))
      <4>1. Len(wire) \in Nat
        BY <2>1, <3>2 DEF IsWire
      <4>. QED  BY <3>2, <4>1
    <3>. QED  BY <3>1, <3>2 DEF Inv
  <2>. QED  BY <2>2, <2>3, <2>4 DEF TypeOK, Statuses
<1>. QED  BY <1>1, HandlersInvariant, PTL

\* CutIsNoticed: a packet without extensions that lost its tail is refused, or
\* read up to where it was cut.
THEOREM CutsNoticed == Spec => []CutIsNoticed
<1>1. Inv => CutIsNoticed
  <2>. SUFFICES ASSUME Inv, phase = "parsed", packet.extensions = 0
                PROVE  CutRead(parsed, packet)
    BY DEF CutIsNoticed, CutRead
  <2>1. /\ packet \in Packet /\ Len(packet.csrc) = packet.cc /\ wire = Build(packet)
        /\ arrived \in 1..Len(wire) /\ parsed = Parse(SubSeq(wire, 1, arrived))
    BY DEF Inv
  <2>2. IsWire(wire)
    BY <2>1, BuildLaid DEF Laid
  <2>3. PICK s : s = SubSeq(wire, 1, arrived)
    OBVIOUS
  <2>4. Begins(s, Build(packet))
    BY <2>1, <2>2, <2>3, CutBegins
  <2>. QED  BY <2>1, <2>3, <2>4, PlainCutRead
<1>. QED  BY <1>1, HandlersInvariant, PTL

LEMMA WholeParsed ==
  ASSUME Inv, AllArrived
  PROVE  /\ packet \in Packet /\ Len(packet.csrc) = packet.cc
         /\ parsed = Parse(Build(packet))
<1>1. packet \in Packet /\ Len(packet.csrc) = packet.cc
  BY DEF Inv
<1>2. /\ wire = Build(packet) /\ arrived = Len(wire)
      /\ parsed = Parse(SubSeq(wire, 1, arrived))
  BY DEF Inv, AllArrived
<1>3. wire \in Seq(Head12 \cup Byte)
  BY <1>1, <1>2, BuildLaid DEF Laid, IsWire
<1>4. SubSeq(wire, 1, Len(wire)) = wire
  BY <1>3
<1>. QED  BY <1>1, <1>2, <1>4

\* ReadAsBuilt: a packet that arrives whole, without extensions or with one of
\* three or four words, is read as it was built; one with more extensions than
\* its length can count is refused.
THEOREM PacketsReadAsBuilt == Spec => []ReadAsBuilt
<1>1. Inv => FollowedIsRead
  <2>. SUFFICES ASSUME Inv, AllArrived, Followed  PROVE FollowedIsRead
    BY DEF FollowedIsRead
  <2>1. packet \in Packet /\ Len(packet.csrc) = packet.cc
    BY WholeParsed
  <2>2. parsed = Parse(Build(packet))
    BY WholeParsed
  <2>3. FollowedIn(packet)
    BY DEF Followed, FollowedIn
  <2>4. PICK h, exts, payload : /\ h = Handler(Fixed(packet), packet.csrc, exts)
                                /\ exts = ExtsRead(packet) /\ payload = packet.payload
    OBVIOUS
  <2>5. parsed = Finish(payload, h)
    BY <2>1, <2>2, <2>3, <2>4, WholeRead
  <2>6. h.padding = packet.padding /\ h.payload = <<>>
    BY <2>4 DEF Handler, Fixed
  <2>7. PICK kept : kept = [packet EXCEPT !.exts = exts]
    OBVIOUS
  <2>8. \A q : With(h, q) = With(kept, q)
    BY <2>1, <2>4, <2>7, KeptPacket
  <2>9. h = With(kept, <<>>)
    <3>1. With(h, <<>>) = h
      BY <2>4 DEF Handler, With
    <3>. QED  BY <2>8, <3>1
  <2>10. parsed = IF payload = <<>> THEN Result("payload", With(kept, <<>>))
                  ELSE IF packet.padding = 0 THEN Result("ok", With(kept, payload))
                  ELSE IF BadPadding(payload) THEN Result("padding", With(kept, <<>>))
                  ELSE Result("ok", With(kept, Unpadded(payload)))
    <3>1. parsed = IF payload = <<>> THEN Result("payload", h)
                   ELSE IF packet.padding = 0 THEN Result("ok", With(h, payload))
                   ELSE IF BadPadding(payload) THEN Result("padding", h)
                   ELSE Result("ok", With(h, Unpadded(payload)))
      BY <2>5, <2>6, Zenon DEF Finish, With
    <3>. QED  BY <2>8, <2>9, <3>1
  <2>. QED  BY <2>4, <2>7, <2>10, Zenon DEF FollowedIsRead, ExtsRead, Unpadded, With
<1>2. Inv => UncountedIsRefused
  <2>. SUFFICES ASSUME Inv, AllArrived, packet.extensions = 1,
                       BlockWords(packet.exts) > LengthMax
                PROVE  parsed = Result("extension", Handler(Fixed(packet), packet.csrc, <<>>))
    BY DEF UncountedIsRefused
  <2>. QED  BY WholeParsed, UncountedRead
<1>3. Inv => ReadAsBuilt
  BY <1>1, <1>2 DEF ReadAsBuilt
<1>. QED  BY <1>3, HandlersInvariant, PTL
=============================================================================
