---------------------------- MODULE MessageParse -----------------------------
(***************************************************************************)
(* Message::parse: a line is cut into prefix, command and parameters.  A   *)
(* line is a sequence of symbols, of which white space and the colon       *)
(* count; it has no line end (_handleClientInput has removed it, but only  *)
(* one CR of it).  That the command is put in capitals is left out.        *)
(***************************************************************************)
EXTENDS Naturals, SequencesExt

Blank == " "
Tab == "\t"      \* stands for the vertical tab and the form feed too
CR == "\r"
Colon == ":"

\* What >> skips.  Only the blank ends prefix and command.
Space == {Blank, Tab, CR}

\* The first place from i on where s has a symbol of sep, or something else
\* than a blank; the one behind its end if there is none.
Find(s, sep, i) == Min({k \in i..Len(s) : s[k] \in sep} \cup {Len(s) + 1})

SkipBlanks(s, i) == Min({k \in i..Len(s) : s[k] # Blank} \cup {Len(s) + 1})

From(s, i) == SubSeq(s, i, Len(s))

\* Where the words of s start that the symbols of sep separate, and the words.
Starts(s, sep) ==
  LET isStart(k) == s[k] \notin sep /\ (k = 1 \/ s[k - 1] \in sep)
      upTo[n \in 0..Len(s)] ==
        IF n = 0 THEN <<>>
        ELSE IF isStart(n) THEN Append(upTo[n - 1], n) ELSE upTo[n - 1]
  IN upTo[Len(s)]

Words(s, sep) ==
  LET word(start) == SubSeq(s, start, Find(s, sep, start) - 1)
      starts == Starts(s, sep)
  IN [k \in 1..Len(starts) |-> word(starts[k])]

\* The words up to the first one that starts with a colon: that one is the
\* rest of the text without the colon.
UpToColon(s, sep) ==
  LET starts == Starts(s, sep)
      colons == {k \in 1..Len(starts) : s[starts[k]] = Colon}
  IN IF colons = {}
     THEN Words(s, sep)
     ELSE Append(SubSeq(Words(s, sep), 1, Min(colons) - 1),
                 From(s, starts[Min(colons)] + 1))

\* Where a blank and a colon follow each other in s.
BlankColons(s) == {k \in 1..(Len(s) - 1) : s[k] = Blank /\ s[k + 1] = Colon}

\* Mutants of Params: the last symbol before the trailing parameter is lost;
\* the colon stays.
ParamsCutShort(s) ==
  IF BlankColons(s) # {}
  THEN LET k == Min(BlankColons(s)) IN
       Append(Words(SubSeq(s, 1, k - 2), Space), From(s, k + 2))
  ELSE UpToColon(s, Space)

ParamsWithColon(s) ==
  IF BlankColons(s) # {}
  THEN LET k == Min(BlankColons(s)) IN
       Append(Words(SubSeq(s, 1, k - 1), Space), From(s, k + 1))
  ELSE UpToColon(s, Space)

\* The parameters in s, which does not start with a blank.
Params(s) ==
  IF BlankColons(s) # {}
  THEN LET k == Min(BlankColons(s)) IN
       Append(Words(SubSeq(s, 1, k - 1), Space), From(s, k + 2))
  ELSE UpToColon(s, Space)

\* A text that is only a prefix, and one that starts with a blank, give a
\* message without a command, which isValid refuses.
Split(text) ==
  LET prefixed == text # <<>> /\ text[1] = Colon
      prefixEnd == Find(text, {Blank}, 1)
      start == IF prefixed THEN SkipBlanks(text, prefixEnd) ELSE 1
      commandEnd == Find(text, {Blank}, start)
  IN [prefix  |-> IF prefixed /\ prefixEnd <= Len(text)
                  THEN SubSeq(text, 2, prefixEnd - 1) ELSE <<>>,
      command |-> SubSeq(text, start, commandEnd - 1),
      params  |-> Params(From(text, SkipBlanks(text, commandEnd)))]

\* The second CR of a line that ended in two is removed here.
Chomped(line) ==
  IF line # <<>> /\ line[Len(line)] = CR
  THEN SubSeq(line, 1, Len(line) - 1) ELSE line

Parse(line) == Split(Chomped(line))

IsValid(msg) == msg.command # <<>>

-----------------------------------------------------------------------------
(* The same by the grammar of the protocol, which knows the blank only *)

\* A message is a prefix, which starts with a colon, a command and parameters.
CommandWord(text) == IF text[1] = Colon THEN 2 ELSE 1

\* Where the parameters start, behind the end if there are none.
ParamStart(text) ==
  LET starts == Starts(text, {Blank})
      n == CommandWord(text)
  IN IF n < Len(starts) THEN starts[n + 1] ELSE Len(text) + 1

ByGrammar(text) ==
  LET n == CommandWord(text) IN
  [prefix  |-> IF n = 2 THEN Tail(Words(text, {Blank})[1]) ELSE <<>>,
   command |-> Words(text, {Blank})[n],
   params  |-> UpToColon(From(text, ParamStart(text)), {Blank})]
=============================================================================
