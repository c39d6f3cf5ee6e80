------------------------------ MODULE SdpText -------------------------------
(***************************************************************************)
(* A session description as text (base/sdp.cc): what ToString() writes and *)
(* what the SDPHandler(const std::string&) constructor reads, line by      *)
(* line.  A line is its key and its value; a value that is converted there *)
(* and back (a number, the origin, a codec) stands for itself.  A text is  *)
(* a sequence of lines that all end with '\n' but perhaps the last         *)
(* (ended), since a byte stream may be cut anywhere.                       *)
(***************************************************************************)
EXTENDS SdpMedia

Line(key, value) == [key |-> key, value |-> value]

\* The items of a z= line: a word, a number, or the beginning of either.
Word(word) == [text |-> word, number |-> 0]
Number(n) == [text |-> "number", number |-> n]
Fragment == [text |-> "fragment", number |-> 0]

-----------------------------------------------------------------------------
(* ToString(). *)

PrintedMedia(media) ==
  <<Line("m", [kind |-> media.kind, fmt |-> media.fmt])>>
    \o [i \in DOMAIN media.attrs |-> Line("a", media.attrs[i])]

Printed(sdp) ==
  <<Line("v", sdp.v), Line("o", sdp.o), Line("s", sdp.s), Line("t", sdp.t)>>
    \o FlattenSeq([i \in DOMAIN sdp.m |-> PrintedMedia(sdp.m[i])])
    \o IF sdp.z = <<>> THEN <<>> ELSE <<Line("z", sdp.z)>>

-----------------------------------------------------------------------------
(* The scanner. *)

NoOrigin == "none"
RandomMid == "random"

\* What a default constructed SDPHandler holds.
Blank == [v |-> 0, o |-> NoOrigin, s |-> "-", t |-> "0 0", m |-> <<>>, z |-> <<>>]

ParsedSection(value) ==
  [kind |-> value.kind, mid |-> RandomMid, fmt |-> value.fmt, attrs |-> <<>>]

\* An a= line of another type is skipped.
WithAttribute(media, attr) ==
  IF attr.type \notin {"MID", "RTPMAP", "FMTP"} THEN media
  ELSE [media EXCEPT !.attrs = Append(@, attr),
                     !.mid = IF attr.type = "MID" THEN attr.value ELSE @]

\* A line the outer loop reads: it starts a media block, or sets a field (again),
\* or adds to z; any other line ends the parse.
ReadLine(scan, line) ==
  CASE line.key \in {"v", "o", "s", "t"} ->
         [scan EXCEPT !.at = "lines", !.sdp[line.key] = line.value]
    [] line.key = "m" ->
         [scan EXCEPT !.at = "block", !.sdp.m = Append(@, ParsedSection(line.value))]
    [] line.key = "z" ->
         [scan EXCEPT !.at = "lines", !.sdp.z = @ \o line.value]
    [] OTHER -> [scan EXCEPT !.at = "stopped"]

ReadAttribute(scan, attr) ==
  [scan EXCEPT !.sdp.m[Len(scan.sdp.m)] = WithAttribute(@, attr)]

\* Mutant: the scanner does not seek back.
ReadBehindBlock_NoSeek(scan, line, ended) == [scan EXCEPT !.at = "lines"]

\* Mutant: the scanner finds a last line without '\n' again.
ReadBehindBlock_Exact(scan, line, ended) == ReadLine(scan, line)

\* The line behind a media block has been read already, and the scanner seeks
\* back by its length and one.  Without a '\n' that is one character too many:
\* the next line read is the empty one before it, and the parse ends.
ReadBehindBlock(scan, line, ended) ==
  IF ended THEN ReadLine(scan, line) ELSE [scan EXCEPT !.at = "stopped"]

\* One line, ended by a '\n' or not.
Scanned(scan, line, ended) ==
  CASE scan.at = "lines" -> ReadLine(scan, line)
    [] scan.at = "block" /\ line.key = "a" -> ReadAttribute(scan, line.value)
    [] scan.at = "block" /\ line.key # "a" -> ReadBehindBlock(scan, line, ended)
    [] scan.at = "stopped" -> scan

Parsed(text, ended) ==
  LET n == Len(text)
      scan[i \in 0..n] ==
        IF i = 0 THEN [at |-> "lines", sdp |-> Blank]
        ELSE Scanned(scan[i-1], text[i], ended \/ i < n)
  IN  scan[n].sdp

-----------------------------------------------------------------------------
(* A text in a byte stream. *)

Cut(head, ended, rest) == [head |-> head, ended |-> ended, rest |-> rest]

FirstLines(text, n) == SubSeq(text, 1, n)
LinesBehind(text, n) == SubSeq(text, n + 1, Len(text))

\* What may be left of the items of a z= line that is cut.
ItemsCut(items) ==
  UNION {{SubSeq(items, 1, k), Append(SubSeq(items, 1, k), Fragment)} :
           k \in 0..(Len(items) - 1)}

\* Behind a line, and before its '\n'.
LineCuts(text) ==
  UNION {{Cut(FirstLines(text, n), TRUE, LinesBehind(text, n)),
          Cut(FirstLines(text, n), FALSE,
              <<Line("", "")>> \o LinesBehind(text, n))} : n \in DOMAIN text}

ItemCuts(text) ==
  UNION {{Cut(Append(FirstLines(text, n - 1), Line("z", items)), FALSE,
              <<Line("?", "")>> \o LinesBehind(text, n)) :
            items \in ItemsCut(text[n].value)} :
         n \in {i \in DOMAIN text : text[i].key = "z"}}

\* Where a stream can be cut: behind a line, before its '\n', and within a z=
\* line.  A cut within another line is none of its own: the part before it has
\* no z= line either, or ends in a conversion that throws.
Cuts(text) == LineCuts(text) \cup ItemCuts(text)
=============================================================================
