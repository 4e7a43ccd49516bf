------------------------------ MODULE MC_ConfFile ------------------------------
(* ConfFile over one- and two-block files built from components that     *)
(* reach every case of the parser's switch and every way it can fail.      *)
EXTENDS ConfFile

X   == <<"x">>
ONE == <<"1">>

Cmd(ws, gap) == [words |-> ws, gap |-> gap]

\* Leading text: nothing, a comment line, a blank line, or a '{' too early.
MCLeads == {<<>>, <<"#", "x", LF>>, <<LF>>, <<"{">>}
\* Module names: the two modules, an unknown one, one with a bad character.
MCNames == {MAIN, NET, X, <<"m", ";">>}
\* Between the name and '{': nothing, a blank, a comment, a second word.
MCSeps  == {<<>>, <<SP>>, <<"#", LF>>, <<SP, "x">>}
\* Block bodies: empty; a local command; two commands, the second global;
\* "log" with too few arguments or a bad level; an unknown command; a
\* command starting with a digit.
MCBodies ==
  {<<>>,
   <<Cmd(<<DAEMON, OFF>>, FALSE)>>,
   <<Cmd(<<PID, X>>, TRUE), Cmd(<<LOG, X, INFO>>, FALSE)>>,
   <<Cmd(<<LOG, X>>, FALSE)>>,
   <<Cmd(<<LOG, X, X>>, FALSE)>>,
   <<Cmd(<<X>>, FALSE)>>,
   <<Cmd(<<ONE>>, FALSE)>>}
\* The block closed or not; after it nothing, a newline, a comment at EOF.
MCCloses == {<<"}">>, <<>>}
MCTails  == {<<>>, <<LF>>, <<"#">>}

\* One-block files.
MCCases1 ==
  [lead : MCLeads, name : MCNames, sep : MCSeps, body : MCBodies,
   close : MCCloses, tail : MCTails, more : {<<>>}]

\* Two-block files, one block per module: the first block closed, the
\* second one after it with any body, so that the parser switches mod from
\* one module to the other and may fail in either block.
MCBlocks2(first) ==
  {<<b>> : b \in [lead : {<<>>, <<LF>>}, name : {MAIN, NET} \ {first},
                  sep : {<<>>}, body : MCBodies, close : {<<"}">>}]}
MCCases2 ==
  UNION {[lead : {<<>>, <<LF>>}, name : {n}, sep : {<<>>, <<SP>>},
          body : MCBodies, close : {<<"}">>}, tail : MCTails,
          more : MCBlocks2(n)] : n \in {MAIN, NET}}

MCCases == MCCases1 \cup MCCases2

\* file_read's 1024 bytes scaled so that reads end inside words.
MCReadSize == 5
\* key[256]: no word of the files above comes near it.
MCKeySizeCode == 256
\* key[] scaled to 6 bytes: "daemon" then fills it.
MCKeySizeSmall == 6

\* Files with a six-letter word: a command "daemon".
MCKeyCases == {r \in MCCases1 : r.body = <<Cmd(<<DAEMON, OFF>>, FALSE)>>}

====
