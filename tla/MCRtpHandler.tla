---------------------------- MODULE MCRtpHandler ----------------------------
(* Few sources, extensions that the parser skips, follows and overshoots,    *)
(* and payloads whose last byte is every kind of padding count.              *)
EXTENDS RtpHandler

MCCsrcs == {<<0, 0, 4, 210>>, <<0, 0, 22, 46>>}

\* Words that tell their place and the size of their extension.
Numbered(n) == [w \in 1..n |-> <<w, 0, 0, n>>]
MCExtData == {Numbered(n) : n \in {0, 1, 3, 4, 9}}
MCShortExtData == {Numbered(n) : n \in {1, 2, 4}}

MCPayloads == {<<>>, <<0>>, <<1>>, <<9>>, <<7, 5, 2>>, <<7, 5, 3>>, <<4, 4, 1, 1, 8>>}
=============================================================================
