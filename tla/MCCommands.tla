----------------------------- MODULE MCCommands ------------------------------
(* Instances of Commands for TLC, with the lines of its runs. *)
EXTENDS Commands

\* Ports and limits at the ends of their ranges, and those of int and long.
MCPortArg ==
  {0, 1023, 1024, 65535, 65536, MaxInt, MaxInt + 1, 2^IntWidth + 1023,
   2^IntWidth + 1024, MaxLong, MaxLong + 1}

MCNumberOf ==
  [p \in {<<"0">>, <<"1">>, <<"1001">>, <<"int">>, <<"long">>} |->
     CASE p = <<"0">> -> 0 [] p = <<"1">> -> 1 [] p = <<"1001">> -> 1001
       [] p = <<"int">> -> 2^IntWidth + 1000 [] p = <<"long">> -> MaxLong + 1]

MCMember == {<<"n1">>}

Text(symbols, max) == UNION {[1..n -> symbols] : n \in 1..max}

\* All short lines: up to 7 symbols if one of them is a letter, 5 if two are,
\* and 6 or 5 with the other white space.
ShortLine ==
  Text({"a", Blank, Colon}, 7) \cup Text({"a", "b", Blank, Colon}, 5) \cup
  Text({"a", Blank, Colon, Tab}, 6) \cup Text({"a", Blank, Colon, CR}, 5)

\* MODE #c <modes> with up to two parameters.
ModeString == Text({"+", "-", "t", "k", "l", "o"}, 3)

ModeParam == {<<Blank, p>> : p \in {"n1", "n2", "1", "int"}} \cup {<<>>}

LoneParam ==
  {<<Blank, p>> : p \in {"0", "1001", "long", Colon}} \cup
  {<<Blank, Colon>> \o p : p \in {<<"n1", Blank, "n1">>, <<Colon, "n1">>,
                                 <<"n1", Tab>>, <<"x", Colon, "x">>}}

ModeLine ==
  {<<"MODE", Blank, "#c", Blank>> \o s \o p :
     s \in ModeString \cup {<<"b">>, <<"-", "v", "b">>},
     p \in {q \o r : q \in ModeParam, r \in ModeParam} \cup LoneParam}

MCLine == ShortLine \cup ModeLine

MCModes0 ==
  {[flags |-> {"n"}, key |-> <<>>, limit |-> 0,
    lists |-> [c \in ListLetter |-> {}]],
   [flags |-> {"n", "t"}, key |-> <<"n1">>, limit |-> 7,
    lists |-> [c \in ListLetter |-> {<<"n1">>}]]}
=============================================================================
