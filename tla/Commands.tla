------------------------------ MODULE Commands -------------------------------
(***************************************************************************)
(* From text to effect: the port that main is given, a line that a client  *)
(* sends, and, if it is a MODE command for a channel, the loop that takes  *)
(* letters and parameters and then announces what it did to the members,   *)
(* as a line that they have to take apart again.  Who may give the         *)
(* command, and what the modes do, is in Channels.                         *)
(*                                                                         *)
(* A word that is a number stands for the digits; NumberOf has its value.  *)
(***************************************************************************)
EXTENDS Numbers, MessageParse

CONSTANTS
  PortArg,   \* numbers main may be given as port
  Line,      \* the lines clients send
  Mode,      \* the command and the channel of interest, as symbols
  Channel,
  Member,    \* the nicknames on the channel
  NumberOf,  \* the value of the parameters that consist of digits
  Modes0     \* modes the channel may have before

ASSUME CommandsAssumption ==
  /\ PortArg \subseteq Nat
  /\ Line \subseteq Seq(STRING)
  /\ NumberOf \in [DOMAIN NumberOf -> Nat]
  /\ DOMAIN NumberOf \cap Member = {}
  /\ {Mode, Channel, Blank, "+", "-",
      "i", "t", "n", "m", "k", "l", "o", "v", "b"} \subseteq STRING
  /\ {Mode, Channel} \cap (Space \cup {Colon}) = {}
  /\ \A m \in Modes0 :
       /\ m = [flags |-> m.flags, key |-> m.key, limit |-> m.limit, lists |-> m.lists]
       /\ m.limit \in 0..1000

VARIABLES
  phase,    \* "main", "ready", "mode", "done", or "exited"
  port,     \* the argument of main, then the port it listens on
  line,     \* the line received
  msg,      \* what parse made of it
  modes,    \* the modes of the channel
  before,   \* history: the modes before the command
  i,        \* the index of the loop over the mode string
  adding,
  next,     \* currentParam
  modeChanges, paramChanges,
  changes,  \* history: the accepted letters, with sign and parameter
  sent      \* the line that is broadcast, without the prefix in front of it

loopVars == <<before, i, adding, next>>
toldVars == <<modeChanges, paramChanges, changes>>
vars == <<phase, port, line, msg, modes, loopVars, toldVars, sent>>

NoLine == <<>>

Init ==
  /\ phase = "main"
  /\ port \in PortArg
  /\ line = NoLine
  /\ msg = Parse(NoLine)
  /\ modes \in Modes0
  /\ before = modes
  /\ i = 1
  /\ adding = TRUE
  /\ next = 3
  /\ modeChanges = <<>> /\ paramChanges = <<>> /\ changes = <<>>
  /\ sent = NoLine

-----------------------------------------------------------------------------

Main ==
  /\ phase = "main"
  /\ IF ValidPort(port)
     THEN port' = Atoi(port) /\ phase' = "ready"
     ELSE UNCHANGED port /\ phase' = "exited"
  /\ UNCHANGED <<line, msg, modes, loopVars, toldVars, sent>>

\* The line is parsed; a MODE with a mode string goes into its loop.
ProcessMessage(text) ==
  /\ phase = "ready"
  /\ line' = text
  /\ msg' = Parse(text)
  /\ phase' = IF /\ msg'.command = <<Mode>>
                 /\ Len(msg'.params) >= 2
                 /\ msg'.params[1] = <<Channel>>
              THEN "mode" ELSE "done"
  /\ UNCHANGED <<port, modes, loopVars, toldVars, sent>>

-----------------------------------------------------------------------------
(* The loop of _handleChannelMode *)

FlagLetter == {"i", "t", "n", "m"}
ListLetter == {"o", "v", "b"}

\* The number a parameter stands for.
Value(param) == IF param \in DOMAIN NumberOf THEN NumberOf[param] ELSE 0

\* Channel::setMode: whether it accepts the change, and what that does.  The
\* parameter is empty if there is none.
Accepts(m, c, add, param) ==
  \/ c \in FlagLetter
  \/ c = "k" /\ (add => param # <<>>)
  \/ c = "l" /\ (add => param \in DOMAIN NumberOf /\ ValidLimit(Value(param)))
  \/ /\ c \in ListLetter
     /\ param # <<>>
     /\ IF add THEN c = "b" \/ param \in Member ELSE param \in m.lists[c]

Changed(m, c, add, param, limit) ==
  CASE c \in FlagLetter ->
         [m EXCEPT !.flags = IF add THEN @ \cup {c} ELSE @ \ {c}]
    [] c = "k" -> [m EXCEPT !.key = IF add THEN param ELSE <<>>]
    [] c = "l" -> [m EXCEPT !.limit = IF add THEN limit ELSE 0]
    [] c \in ListLetter ->
         [m EXCEPT !.lists[c] = IF add THEN @ \cup {param} ELSE @ \ {param}]

\* Mutant of Consumes: -k does not take a parameter.
ConsumesForKey(c, add) == c \in {"l"} \cup ListLetter \/ (c = "k" /\ add)

\* The letters that take a parameter if one is left, with either sign.
Consumes(c, add) == c \in {"k", "l"} \cup ListLetter

ModeSign ==
  /\ phase = "mode"
  /\ i <= Len(msg.params[2])
  /\ msg.params[2][i] \in {"+", "-"}
  /\ adding' = (msg.params[2][i] = "+")
  /\ i' = i + 1
  /\ UNCHANGED <<phase, port, line, msg, modes, before, next, toldVars, sent>>

Sign(add) == IF add THEN "+" ELSE "-"

\* A parameter is put behind the others with a blank between.
Joining(told, param) ==
  IF param = <<>> THEN told
  ELSE IF told = <<>> THEN param ELSE told \o <<Blank>> \o param

\* Mutant of ModeLetter: the parameter of a refused letter is announced too.
ModeLetterTelling ==
  LET c == msg.params[2][i]
      takes == Consumes(c, adding) /\ next <= Len(msg.params)
      param == IF takes THEN msg.params[next] ELSE <<>>
  IN /\ phase = "mode"
     /\ i <= Len(msg.params[2])
     /\ c \notin {"+", "-"}
     /\ next' = IF takes THEN next + 1 ELSE next
     /\ i' = i + 1
     /\ paramChanges' = Joining(paramChanges, param)
     /\ IF Accepts(modes, c, adding, param)
        THEN /\ modes' = Changed(modes, c, adding, param, LimitOf(Value(param)))
             /\ modeChanges' = modeChanges \o <<Sign(adding), c>>
             /\ changes' = Append(changes,
                             [add |-> adding, letter |-> c, param |-> param])
        ELSE UNCHANGED <<modes, modeChanges, changes>>
     /\ UNCHANGED <<phase, port, line, msg, before, adding, sent>>

\* One letter.  An added one that lacks its parameter is refused by setMode as
\* it is by the test before it; a refused one has consumed its parameter.
ModeLetter ==
  LET c == msg.params[2][i]
      takes == Consumes(c, adding) /\ next <= Len(msg.params)
      param == IF takes THEN msg.params[next] ELSE <<>>
  IN /\ phase = "mode"
     /\ i <= Len(msg.params[2])
     /\ c \notin {"+", "-"}
     /\ next' = IF takes THEN next + 1 ELSE next
     /\ i' = i + 1
     /\ IF Accepts(modes, c, adding, param)
        THEN /\ modes' = Changed(modes, c, adding, param, LimitOf(Value(param)))
             /\ modeChanges' = modeChanges \o <<Sign(adding), c>>
             /\ paramChanges' = Joining(paramChanges, param)
             /\ changes' = Append(changes,
                             [add |-> adding, letter |-> c, param |-> param])
        ELSE UNCHANGED <<modes, toldVars>>
     /\ UNCHANGED <<phase, port, line, msg, before, adding, sent>>

\* The line, in which no colon marks the last parameter.
Announcement ==
  Joining(Joining(<<Mode>>, <<Channel>>), Joining(modeChanges, paramChanges))

\* The notices on +t and the limit that follow repeat what modes says, and are
\* left out.
ModeAnnounce ==
  /\ phase = "mode"
  /\ i > Len(msg.params[2])
  /\ phase' = "done"
  /\ sent' = IF modeChanges = <<>> THEN NoLine ELSE Announcement
  /\ UNCHANGED <<port, line, msg, modes, loopVars, toldVars>>

Next ==
  \/ Main
  \/ \E text \in Line : ProcessMessage(text)
  \/ ModeSign \/ ModeLetter \/ ModeAnnounce

Spec == Init /\ [][Next]_vars

-----------------------------------------------------------------------------
(* Properties *)

CmdTypeOK ==
  /\ phase \in {"main", "ready", "mode", "done", "exited"}
  /\ port \in Nat
  /\ line \in Seq(STRING)
  /\ modes.limit \in 0..1000
  /\ next \in 3..(3 + Len(msg.params))

Unprivileged(p) == 1024 <= p /\ p <= 65535

\* main listens on a port in 1024..65535, and as long as the number fits an
\* int it is the one it was given, and refuses no other.
PortAsGiven ==
  [][phase = "main" /\ phase' # phase =>
       /\ phase' = "ready" => Unprivileged(port')
       /\ port <= MaxInt =>
            /\ phase' = "ready" <=> Unprivileged(port)
            /\ port' = port]_vars

Received == phase \in {"mode", "done"}

\* The text of the parameters.
ParamText(text) == From(text, ParamStart(text))

ColonTwice(s) == s # <<>> /\ s[1] = Colon /\ BlankColons(s) # {}

\* White space other than the blank before the trailing parameter.
Stray(s) ==
  \E k \in 1..Len(s) :
    /\ s[k] \in Space \ {Blank}
    /\ \A j \in 1..k : s[j] = Colon => j > 1 /\ s[j - 1] # Blank

\* A line that starts with something else than a blank is taken apart as the
\* grammar of the protocol has it, and refused if it has no command by that,
\* unless the first parameter and a later word both start with a colon, or a
\* parameter before the trailing one has a tab or the like in it, or a CR.
ParsedByGrammar ==
  LET text == Chomped(line) IN
  Received /\ text # <<>> /\ text[1] # Blank =>
    /\ IsValid(msg) <=> Len(Words(text, {Blank})) >= CommandWord(text)
    /\ IsValid(msg) /\ ~ColonTwice(ParamText(text)) /\ ~Stray(ParamText(text)) =>
         msg = ByGrammar(text)

Dropped == Space \cup {Colon}

Letters(s) ==
  FlattenSeq([k \in 1..Len(s) |-> IF s[k] \in Dropped THEN <<>> ELSE <<s[k]>>])

\* Whatever the line, no text is lost, doubled or moved, but for white space
\* and colons: prefix, command and parameters together are the line.
NoTextLost ==
  Received /\ IsValid(msg) =>
    Letters(msg.prefix \o msg.command \o FlattenSeq(msg.params)) = Letters(line)

\* What a letter does to a reader of the announcement, who has the modes, the
\* sign and the place of the next parameter in r: he gives the parameters in
\* order to the letters that take one by his rule.
ReadLetter(r, c, read, takes, limit) ==
  LET gets == <<c, r.adding>> \in takes /\ r.next <= Len(read.params)
      param == IF gets THEN read.params[r.next] ELSE <<>>
  IN [r EXCEPT
        !.next = IF gets THEN @ + 1 ELSE @,
        !.modes = IF Accepts(@, c, r.adding, param)
                  THEN Changed(@, c, r.adding, param, limit[Value(param)]) ELSE @]

\* The modes as he has them at the end.
Replayed(read, takes, limit) ==
  LET at[k \in 0..Len(read.params[2])] ==
        IF k = 0 THEN [modes |-> before, adding |-> TRUE, next |-> 3]
        ELSE LET c == read.params[2][k] IN
             IF c \in {"+", "-"} THEN [at[k - 1] EXCEPT !.adding = (c = "+")]
             ELSE ReadLetter(at[k - 1], c, read, takes, limit)
  IN at[Len(read.params[2])].modes

\* The server's rule, and the protocol's, by which -l takes no parameter.
TakenHere ==
  {r \in ({"k", "l"} \cup ListLetter) \X BOOLEAN : Consumes(r[1], r[2])}

TakenByProtocol == (({"k", "l"} \cup ListLetter) \X BOOLEAN) \ {<<"l", FALSE>>}

\* No parameter that was accepted has white space in it or starts with a colon:
\* a key or a mask given as the trailing parameter may.
Legible ==
  \A k \in 1..Len(changes) :
    LET p == changes[k].param IN
    p # <<>> => p[1] # Colon /\ \A j \in 1..Len(p) : p[j] \notin Space

\* The announcement says what was done, whichever letters were refused, if its
\* parameters are legible: one who takes it apart as the server does a line,
\* and gives the parameters to the letters by its rule, has the channel's modes.
AnnouncementReplays ==
  phase = "done" /\ Legible =>
    modes = IF sent = NoLine THEN before
            ELSE Replayed(Parse(sent), TakenHere, [n \in Nat |-> LimitOf(n)])

\* No -l was given a parameter, and no +l a number beyond int.
Plain ==
  \A k \in 1..Len(changes) :
    changes[k].letter = "l" =>
      IF changes[k].add THEN Value(changes[k].param) <= MaxInt
                        ELSE changes[k].param = <<>>

\* One who reads it by the protocol, its grammar and its rule on parameters,
\* and numbers as numbers, has them too, if its parameters are legible, no -l
\* was given one and no +l a number beyond int.
MembersAgree ==
  phase = "done" /\ Legible /\ Plain =>
    modes = IF sent = NoLine THEN before
            ELSE Replayed(ByGrammar(sent), TakenByProtocol, [n \in Nat |-> n])
=============================================================================
