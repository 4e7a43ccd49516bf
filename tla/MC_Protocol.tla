----------------------------- MODULE MC_Protocol -----------------------------
(***************************************************************************)
(* Model-checking instance of Protocol: frames built from every           *)
(* combination of a few leading blanks, command tokens, header tokens,    *)
(* length tokens, bodies and trailing bytes, valid and invalid.            *)
(***************************************************************************)
EXTENDS Protocol

Leads  == {<<>>, <<CR, LF>>}
Tokens == {PUT, GET, QUEUE, <<"P", "U", "T", "X">>, <<"P", "u">>}
Hdrs   == {<<>>, <<"t", "=", "1">>, <<"t", SP>>, <<"t", CR, "h">>}
Lens   == {<<>>, <<"0">>, <<"2">>}
Bodies == {<<>>, <<"h", "i">>}
Tails  == {<<>>, <<"X">>}

MCCases ==
  [lead : Leads, type : Tokens, hdrs : Hdrs, len : Lens, body : Bodies,
   tail : Tails]

\* Frames that fit a buffer: no token ever crosses a buffer boundary.
MCBufSizeWide == 24

\* Buffers of two bytes: every token of three or more bytes crosses one.
MCBufSizeNarrow == 2

\* Buffers of three bytes, with the small frame set that puts the LF after
\* a length token first in a buffer.
MCBufSizeThree == 3

MCStrayCases ==
  {[lead |-> <<>>, type |-> PUT, hdrs |-> <<>>, len |-> <<"2">>,
    body |-> <<"h", "i">>, tail |-> <<>>]}

\* A PUT whose length 10 overflows a 3-bit int (with a 6-bit size_t): the
\* scaled form of a length of 2^32 + 2 or more.  The body is the 10 bytes
\* the length declares.
MCAtoiCases ==
  {[lead |-> <<>>, type |-> PUT, hdrs |-> <<>>, len |-> <<"1", "0">>,
    body |-> [j \in 1 .. 10 |-> IF j % 2 = 0 THEN "h" ELSE "i"],
    tail |-> <<>>]}
=============================================================================
