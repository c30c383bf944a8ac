# A verification model of the IRC server

The server is one process with one thread: `Server::run` polls the listening
socket and the clients, and calls a handler for each line that a client sends.
The handlers work on three structures that point into each other:

    Server::_clients    descriptor -> Client*        (owns the clients)
    Server::_channels   name       -> Channel*       (owns the channels)
    Channel::_clients   nickname   -> Client*        (members; roles are sets of nicknames)
    Client::_channels   name       -> Channel*       (where the client is)
    Server::_pollfds    vector of (descriptor, events)

Nothing runs in parallel, so what is hard here is not a data race. It is the
order of commands of several clients and of connections that end between them,
membership that is kept twice under names that change, raw pointers whose
target may be gone, and a loop whose vector shrinks under its own index.

## Components

| component | state | operations | what makes it correct |
|---|---|---|---|
| Registration (`CommandHandlers.cpp`, `Server.cpp`, `Client.cpp`) | fields of `Client`, `_clients` | accept, PASS, NICK, USER, OPER, MODE nick, removal | nicknames unique; registered exactly when complete; final once registered; operator status only from OPER or an operator |
| Channels (`Channel.cpp`, handlers) | `_channels`, the fields of `Channel`, `Client::_channels` | JOIN, PART, KICK, INVITE, TOPIC, MODE, QUIT, loss of a connection | the two maps agree; roles are of members; no pointer outlives its target; who may enter; who may become operator; empty channels go |
| Queries | none of their own | PRIVMSG, NOTICE, WHO, WHOIS | follow only live pointers |
| Event loop (`Server.cpp`) | `_pollfds`, index, count, `_running` | poll, accept, the three parts of serving a client, signals, clean-up | polls exactly the clients; takes no connection for another; leaves no event behind; reads everybody in the end; stops when told |
| Input framing (`_handleClientInput`, `receiveMessage`) | `Client::_inBuffer` | recv, cutting lines | every line once, whole, in order, wherever reads end |
| Output path (`addToBuffer`, `sendMessage`, `_handleClientOutput`) | `Client::_buffer` | queue, direct send, flush | nothing twice, order known, a loss has a cause, the queue is sent in the end |
| Message parsing (`Message.cpp`) | none | `parse`, `isValid` | prefix, command and parameters as the protocol has them, no text lost |
| MODE strings (`_handleChannelMode`, `setMode`) | the index and the next parameter | letters and signs, parameters, announcement | members who read the announcement know the modes |
| Names (`Utils.cpp`) | none | validation, `toLower`, `split` | one channel per name without regard to case |
| Start-up (`main.cpp`) | none | arguments, socket | the port given is the port used; listening socket |

They interact by plain calls: the loop calls `_handleClientInput`, that calls a
handler, a handler calls `Channel` and `Client`, and QUIT, end of input, a
failed send or a hang-up come back to `Server::_removeClient`, which erases from
the vector the loop is walking over. The only asynchronous entry is the signal
handler.

## Modules

| module | models |
|---|---|
| `Registration` | a client from accept to removal |
| `Channels` | extends it: channels, members, roles, access, MODE, QUIT, queries |
| `EventLoop` | `Server::run` and what it calls, seen from the vector |
| `Membership` | abstract: one relation of clients, channels and roles; `Channels` implements it |
| `InputFraming` | the bytes of one client, the reads, and the lines cut from them |
| `LineOrder` | abstract: each symbol handled once, in order, in pieces that never cross a line end; `InputFraming` implements it |
| `OutputPath` | the queue of one client, direct sends, the socket and the peer |
| `Numbers` | `atoi` in its width, the port test, the limit test |
| `MessageParse` | `Message::parse`, and the grammar it is compared with |
| `Commands` | extends the last two: the port, a line, and the loop over a MODE string |
| `MC...` | the instances for TLC, one per module that is run |
| `Registration_proofs`, `Channels_proofs`, `Channels_steps_proofs`, `Membership_proofs`, `EventLoop_proofs`, `OutputPath_proofs`, `InputFraming_proofs`, `Commands_proofs` | the theorems |

The modules meet where the code's calls do. `EventLoop` says when a client is
read and written; `InputFraming` and `OutputPath` say what one such read or
write does to its bytes; `Commands` says what becomes of a line; `Registration`
and `Channels` say what the command does to the server.

### Registration

A member of `Client` is the address of a `Client` object. `conn` is the set of
clients in `_clients`; the other variables are fields. Every handler that
changes a client is an action; a handler that only queues a reply is a
stuttering step. `RegisterClient` is the call of `_registerClient` at the end of
PASS, NICK and USER and works on the primed fields, as the call does. An
address that was freed can come back with the next accept. `HandleUserMode`
takes one letter at a time, which has the effect of the loop (the argument is in
the module). The history `opered` has the operators that became one by their own
OPER, so that `OperFromOper` can tell that from a MODE: a client gains the status
by its own OPER when it is registered, or while another registered client has it.

### Channels

`chan` is the directory, `members[o]` the map of the object at address `o`,
`joined[c]` the map of client `c`. `Leave` is `Channel::removeClient` with the
removal of the channel it leaves empty, as PART and KICK do it; `Drop` is
`leaveAllChannels` with `_removeClient`, which never removes a channel. NICK
changes neither map: the code looks a member up by the nickname of the moment.

Channel objects are allocated at any free address, so a client may hold the
address of a deleted channel that is now another channel. Following a pointer to
an object that is not live is undefined behaviour. `Touch` names the objects a
handler follows through the two maps; if one is not live, `dangled` becomes TRUE,
and `running` FALSE if the process aborts there. If it does not, it goes on as if
that object were not there.

The maps are not the only pointers: `_handleClientInput` keeps the `Client*` it
called the handlers with, and when the line was QUIT it goes on with the lines
behind it in the same read and then clears the buffer of the freed client. `gone`
is that client, with the fields its dead memory still reads as, from `HandleQuit`
until `RestOfRead`: the last line of the read was QUIT (`QuitLast`), or a JOIN
behind it creates a channel or enters one (`QuitThenCreate`, `QuitThenJoin`) and
leaves an entry that leads to the freed client. In each case the process may
abort. `NoDanglingDeref` is about the entries of the two maps: as long as nobody
has renamed itself on a channel or joined one behind its own QUIT, all lead to
live objects, and the only freed object ever used is the one the loop itself
holds. That use is the run `quit`.

MODE is not atomic: `BeginMode` asks for permission, each letter is an action
(`SetFlag`, `SetKey`, `SetLimit`, `SetOp`, `SetVoice`, `SetBan`), and `EndMode`
tells the members if a letter was accepted. No other command is taken meanwhile.

`Membership` is what the maps are for: a set of pairs of client and channel with
two subsets for the roles. `OneMembership` maps the maps of `Channels` to it:
`on` comes from the clients' own maps, the roles from the nickname sets of the
channels, so the refinement also says that the two sides agree. Its promise ends
(`promise`) with the first NICK by a client on a channel, or the first JOIN
behind a QUIT.

Two history variables record what the properties leave out: `abandoned` has the
nicknames given up by a client that was on a channel and those entered by a
client that had quit, `moved` the connected clients that gave one up. No guard
reads them.

### EventLoop

`pollfds` is the vector, `i` its index (from 1), `past` the element that
`erase` leaves behind just past the end, which is what the memory holds there in
the build. A client element is served in the three parts of the loop's body
(`in`, `out`, `hup`), and each reads `Slot`, that is `_pollfds[i]` as it is
then. Peers send, close and reset between any two parts. What a client sends is
one bit, and receiving it is either `ReceiveCommands` or `ReceiveQuit`.
After QUIT the rest of `_handleClientInput` uses the deleted client: the outcome
is to go on or `"corrupted"`. A connection is `"broken"` if its peer reset it and
the error was told to an earlier send, or if the reset came after a FIN: the next
send is `"killed"` by SIGPIPE. The commands of one read may send several times, so
`MayBeKilled` asks for no more than that some peer has closed or reset.

The values of the index, the count and the events after a round, and of the
memory past the end after an element was served, are never read again; the model
resets them.

### InputFraming

`stream` is all the client has written, `got` how much of it recv has returned.
`Receive` takes any part of up to `BufferSize - 1` bytes and appends it as a C
string, that is up to the first NUL. `HandleLine` is a turn of the getline loop,
`EndLines` the end of the loop with `clearInBuffer`. The peer may write between
any two of them. `cuts` records where reads ended: `WholeLines` is the promise
for the streams whose reads end at line ends (or before one, or before the CR LF
of one), and `TextInOrder`, the refinement of `LineOrder`, is what remains when
they end anywhere. `LineOrder` has one text, `todo`, which is what is left of the
lines followed by what was not read yet, so a piece that is handled is a prefix
of it: no symbol can be skipped, doubled or moved, except one CR at the end of a
piece, the line ends themselves, and what follows a NUL in its read.

### OutputPath

A message is its number, in the order the server issues them, and consists of
two units, its text and its CR LF. `AddToBuffer` queues it, `SendMessage` is
`broadcastMessage` to this client, which goes past the queue. The socket holds
`Room` units; `send` takes what fits. `HandleClientOutput` sends the queue as
one and clears it when anything was taken. A queue lost with its client is
`RemoveClient`, which stands for `_removeClient` and for `_cleanup`.

### Commands

One behaviour is one run of the program on one port argument, one line and one
channel. `Parse` is a function of the line. Its definition follows the code:
`Chomped` removes the CR that may be left of two, `Split` finds prefix, command
and trailing parameter by the blank, and takes the parameters between as `>>`
does, that is at every symbol of `Space`. These are the blank, CR, and a tab that
stands for the vertical tab and the form feed as well: they all reach `parse`,
since `_handleClientInput` removes the line end and one CR only. `ByGrammar` is
the protocol's grammar, in which words are separated by blanks. The two differ in
two cases, which `ParsedByGrammar` names and leaves out: the first parameter and a
later word both start with a colon (`ColonTwice`), so that the code splits the
trailing parameter; or there is white space other than the blank before the
trailing parameter (`Stray`), so that one parameter of the grammar is several of
the code. `NoTextLost` has no exception, and says of text what is left when white
space and colons are taken away: `PRIVMSG #a hi\tthere` loses its tab but no
letter. A word that is a number is one symbol whose value is in `NumberOf`; `Atoi`
wraps it as the build does.

The announcement is a line of text. `modeChanges` and `paramChanges` are the two
strings the loop builds; `Joining` puts a blank between two parts, and
`Announcement` joins the command, the channel and both, with no colon anywhere.
`sent` is that line without the sender's prefix. A reader gets nothing but
`sent`. He takes it apart and gives the parameters out to the letters by a rule,
the set of letters, with their sign, that take one; `Replayed` is what the modes
before the command become by that. `AnnouncementReplays` has him use `Parse` and
the server's rule, `MembersAgree` the grammar and the protocol's rule, by which
`-l` takes no parameter. Both ask for `Legible` parameters: one that was given as
the trailing parameter may have white space in it or start with a colon, and is
then announced as something else. `MODE #c +k :a b` sets the key `a b` and
announces `+k a b`, which reads as the key `a`. `MembersAgree` asks besides that
no `-l` was given a parameter and no `+l` a number that `atoi` wraps (`Plain`).
`changes` is a history of the accepted letters, and is read by these two
conditions only.

## Runs

| run | instance | shows |
|---|---|---|
| `registration` | 3 clients, 3 nicknames, 2 user names, 2 passwords | `NickUnique`, `RegisteredIffComplete`, `IdentityFrozen`, `OperFromOper`, types |
| `membership` | 3 clients, 2 nicknames, 1 name, 2 channel addresses, MODE o v | `RolesHeldByMembers`, `MapsAgree`, `NoDanglingDeref`, `EmptiedOnlyByDrop`, `RoleNeedsOperator`, the refinement `OneMembership` |
| `access` | 2 clients, 2 nicknames, 1 name, 2 addresses, a key, limit 1, MODE i k l b | `AdmittedOnly`, types |
| `loop` | 3 descriptors | `PollSetMatchesClients`, `NoneLeftBehind`, `BeyondEndIsInert`, `OnlyTheGone`, types |
| `service` | 2 descriptors, fairness | `InputIsRead`, `StopsWhenTold` |
| `framing` | 2 letters, NUL, CR and LF, 6 bytes, reads of up to 3 | `WholeLines`, the refinement `TextInOrder`, types |
| `delivery` | 6 messages, a socket of 5 units, fairness | `OnlyBroadcastsOvertake`, `LossHasCause`, `DamageIsContained`, `QueueDrains`, types |
| `commands` | 11 ports, about 17000 lines | `PortAsGiven`, `NoTextLost`, `ParsedByGrammar`, `AnnouncementReplays`, `MembersAgree`, types |
| `disconnect`, `quit`, `broken_pipe`, `partial_lines` | the smallest that shows it | four places where the code does not do what the repository says |

Bounds. Two clients are enough for the channel properties to be at stake: one
that renames, leaves or dies, and one that takes its nickname, its address or
its channel; the third client of `membership` can take a nickname while the one
that gave it up still sits on the channel with the other. Two nicknames allow a
rename to one that nobody has and back. Two
addresses for one name allow a channel to be deleted and made again elsewhere or
at the same place. With one channel name an address cannot come back under
another; that case is in the theorems of `Channels_proofs`, which hold for any
number of names. Limit 1 has both sides of the comparison with two clients. Three descriptors
allow two removals in one walk with an element after them; with two the loop
can still pass over an element. Six bytes hold two lines with CR LF and text, and
a read of three cuts them at every place; the real `BUFFER_SIZE` changes where
cuts fall and not what a cut does. Five units of socket and six messages allow a
cut in the middle of a message and of the queue, a full socket, a retry after
it, and messages after the damage. Lines of seven symbols of one letter, blank
and colon (five of two letters, six with a tab, five with CR) have a prefix, a
command and two more words, each with or without a colon, repeated blanks, and
white space at every place. Three letters of MODE with two parameters allow a
refused letter, with its parameter, before and after an accepted one; trailing
parameters with a blank, a tab or a colon in them are among them. `IntWidth` is 18 and `LongWidth` 22 in place of 32 and 64: what
counts is that 65536 and 1000 are below the largest int, and that there are
numbers beyond int and beyond long; `WidthAssumption` asks for that. Symmetry is declared
where all properties of the run are safety properties, and never in `service`
and `delivery`.

Constraints. `OrderlyRegistration` has clients send PASS before USER with a real
name in the runs of `Channels`; all orders are in `registration`. `OneOper` has at
most one IRC operator at a time there. `OneBan` keeps one ban mask per channel.
Of the lines behind QUIT in one read at most one has an effect, and it is a JOIN. The topic text takes part in no property, so `Topic`
is empty and TOPIC clears it. All clients connect from one host, and a channel
name is spelled in one way, since the code folds it.

`CHECK_DEADLOCK FALSE` is there because the process may end: by undefined
behaviour in `Channels`, by a signal or a failure in `EventLoop`; because the
client goes or the bound is reached in `InputFraming` and `OutputPath`; and
because a behaviour of `Commands` ends with its line.

Fairness. `FairSpec` of `EventLoop` asks that the process goes on stepping
(`WF_vars(Step)`): no call in a handler blocks, sockets are non-blocking, and
poll returns after a second. Nothing is asked of peers, of the user at the
terminal or of the choice among the outcomes of a step. `FairSpec` of
`OutputPath` has weak fairness of `HandleClientOutput`: the loop asks for POLLOUT
for every client in every round. That the peer reads is no assumption of the
specification but the premise of `QueueDrains`.

## What the violation runs show

- `disconnect`: a client that renamed itself on a channel stays in that channel
  when its QUIT was handled, with a pointer to the deleted object.
- `quit`: the input handler uses the client that QUIT deleted.
- `broken_pipe`: a write to a connection that is gone ends the process.
- `partial_lines`: a command that arrives in two reads is handled as two.

`membership` shows the other side of `disconnect`: as long as nobody renames
itself on a channel or joins one behind its own QUIT, the maps agree, no entry
dangles and membership is one relation; and the agreement holds for every
nickname that was not given up.
`framing` shows the other side of `partial_lines`.

Other consequences that can be read off the model and have no run of their own:
after a rename KICK may find its target in the channel and not among the clients
(`CommandHandlers.cpp:901` says "Should not happen"); the last member's
disconnection leaves the channel in the directory, which `EmptiedOnlyByDrop` and
`Membership` state as what the code does; without a server password a client
still needs PASS to be registered (`Client.cpp:508` says "if required"), as
`Complete` has it; `+m` restricts NOTICE and not PRIVMSG, though
`src/README.md:100` lists it.

## Proofs

TLAPS checks, for every value of the constants:

- `Registration_proofs`: `RegTypeCorrect`, `NicknamesAreUnique`,
  `RegistrationIsComplete`, `IdentityIsFrozen`, `OperComesFromOper`. The
  inductive invariant `RegInv` is the type invariant, unique nicknames, exact
  registration, and that an object that is not connected has its initial
  fields; and that the clients in `opered` are operators, so that a second gain of
  the status shows. The two action properties follow from it step by step.
- `Channels_proofs`: `ImplementsRegistration` (every behaviour of `Channels` is
  one of `Registration`: the field-level theorems carry over),
  `NicknamesStayUnique`, `ChTypeCorrect`, `RolesAreMembers`, `MapsAlwaysAgree`,
  `MapsLeadToLiveObjects`.
- `Channels_steps_proofs`: the action properties of `Channels`,
  `OnlyDropEmpties`, `OperatorsComeFromOperators`, `EntryIsAdmission`, and
  `EntriesAreFinite`, which the limit needs: without it the cardinality of a
  channel's entries means nothing.
- `Membership_proofs`: `ImplementsMembership`, the refinement `OneMembership`.
- `EventLoop_proofs`: `EventLoopTypes`, `PollSetIsTheClients`,
  `NothingReportedIsLeft`, `PastTheEndIsInert`, `NoneRemovedForAnother`.
- `InputFraming_proofs`: `FramingTypes`, `LinesStayWhole`, and
  `TextIsHandledInOrder`, the refinement `TextInOrder`.
- `OutputPath_proofs`: `OutputTypes`, `OrderOfOutput`, `NothingLostWithoutCause`,
  `DamageIsOneLine`.
- `Commands_proofs`: `CommandTypes`, `PortIsTheOneGiven`, `GrammarIsFollowed`,
  `NothingIsLost`, `AnnouncementsReplay`, `MembersKnowTheModes`.

### Registration and channels

`MapsAgree` is not inductive. `MapInv` adds what it needs: an object has one
name (`OneNamePerObject`), a freed object is empty (`FreedIsEmpty`, without
which a reused address would bring members with it), only registered connected
clients hold channels (`HoldersAreRegistered`, so that they have a nickname),
`moved` is a set of connected clients (`MovedIsHistory`), and the channel of a
MODE loop is live (`ModeOnLive`). `PointersAreLive` then gives
`NoDanglingDeref`: with `abandoned` empty both maps agree everywhere, so every
pointer in them is to a live object. A JOIN behind QUIT makes an entry that leads
to a freed client, under a nickname that it puts into `abandoned` (`LateEntryIs`).

The action properties follow from `EntriesChange`, which says how the entries of
a channel that exists before and after a step may change: by a JOIN, one behind
QUIT, a PART, a KICK, the end of a connection, or not. `EntryIsAdmission` then counts: `Full`
compares a cardinality before the entry, and the property one after it.

The refinement needs `RelationKept`: while nobody has renamed itself on a channel,
a client's own map, the channel's entries and the nickname of the moment say the
same. Each action of `Channels` is then a step of `Membership` or a stutter,
and a NICK on a channel, or an entry behind QUIT, is the step that ends the
promise.

### Event loop

`LoopInv` holds in the middle of a walk, where the properties' own statements are
too weak. `OneElementEach` says of the vector that its descriptors are distinct
and as many as the clients, which an erasure keeps and a set of descriptors would
not show. `CountCovers` is about the elements behind the index while element `i`
is served: a removal brings one of them to place `i` and the loop then passes
over it, so the count has to cover the elements from `i + 1` on, whatever
stands at `i`. `PastListener` keeps the index of the client branches off the
listening socket, and `HupMeansGone` is what makes a removal on POLLHUP one for
the client's own reset although the element is read again. The proof that
`numEvents` is enough counts `ReadyFrom`, the ready elements from an index on,
under erasure (`RemovedAt` and the lemmas after it).

### Input framing

`FrInv` adds to the types that between reads nothing is kept (`NothingKept`): only
then can a read put what it got in front of nothing, so that the text still to do
is the same before and after. `CutAt` says what `Before` and `After` are for
any sequence, from the least index of a symbol. `HandleLine` is then
`PieceHandled(n)` for the place of the line end, or of the end of the text, and
`Receive` is a stutter, or `Lost` if the C string ended in a NUL.

`WholeLines` is not inductive: it promises something for streams of which no cut
was harmful, and whether a cut is harmful may depend on symbols that are not
written yet. `WholeInv` is about what has been written so far (`Spared`: nothing
yet says that this cut split a line), and gives the place in the stream that
the getline loop has reached (`Pos`). `InStep` says that `rest` is what was read
behind that place, that the place is where a line starts or where a read ended,
and that the pieces handled are `Pieces(stream, Pos)`: the lines that end up to
there, and the text behind the last of them if there is any. If a read ended in
front of a line end, the text was handled at the cut, and what comes next is an
empty line, which is skipped: `Pieces` is the same before and after it.

### Output path

`OutInv` generalises each property to the flow, that is what the peer has
received, what the socket holds and what the queue holds, as one sequence.
`InOrder` of the flow needs that the queue holds replies only
(`QueueHoldsReplies`), since a direct send puts its message in front of them.
`DamageIsContained` speaks of what was received; inductive is the number of texts
without their end in all the socket has taken (`FewLoose`), for which the queue
has to be whole (`QueueIsWhole`): a cut in the queue is then a new failure, and
one in the socket never happens. `Accounted` is `LossHasCause` of the flow, and
`FailuresCounted` bounds the failures by the messages that can still fail.

### Lines and words

`Parsed` says that `msg` is `Parse(line)` once a line was received; all the rest
is about that function. `ChompedIs` sets the last CR aside. `SplitParts` brings
`Split` into the form in which a line is taken apart: the prefix, the first word
behind it, and what is behind that. `Starts` and `Words` are lemmas for any set of
separators, since the code splits by `Space` and the grammar by the blank.
`StartsJoined` and `WordsJoined` are what the argument rests on: if two texts are
joined where a separator is (`Seam`), the words of the whole are those of the
parts, and the places of the second are shifted. With that, `Leaves(s, n, p, d)`
says that `p` is what the first `n` words of `s` leave of it; `LeavesNext` takes
one word more, and `ByTheGrammar` compares the whole line.

`ParamsAgree` compares the parameters. The code looks for the first blank and
colon, the grammar for the first word that starts with a colon, and a word starts
at the beginning or behind a blank, so the two find the same place unless the
very first word starts with a colon and a later one too: that is `ColonTwice`.
What stands before that place is split by `Space` here and by blanks there, and
`SameWords` says that this is the same where no other white space occurs: that is
`Stray`.

`TextKept` does not need the grammar, and holds without either exception: each
of the branches of `Params` drops white space and colons only. `Letters` of a
joined text is the letters of its parts joined (`LettersConcat`), which comes from
the same fact about `FlattenSeq`.

### MODE

Two things have to meet: the text that was sent, and the changes that were made.

The text is built by `Joining`, one parameter at a time. `Spelled(p, w)` says that
`p` is the words `w` with blanks between and no colon at the start of one, and
`SpelledJoining` that `Joining` keeps it as long as what is joined is legible.
`ReadBack` then says that such a text is parsed in the same way by the code and
by the grammar and gives its words back, and `AnnouncementRead` that for the
announcement these are the letters and the parameters.

The loop keeps `CmdInv`. `Telling` says that `modeChanges` are the signs and
letters of `changes` (`Lettered`), and that their parameters have places in a list
of words (`Placed`), of which `paramChanges` is the spelling if all are legible. A
letter that takes a parameter and has none is in place only if none is left: that
is true because of `Filled`, the result of the lemmas about `Parse` (only the last
parameter of a line can be empty, for all words hold at least one symbol), and
`NoneLeft` (a letter goes without only when the line has no more). `Followed` says
that the modes are what the changes make of the modes before; as a run
(`IsRun`), one function from the number of changes to modes, it grows by one
element per accepted letter.

The reader is a walk over the letters (`Walks`). `WalkFollows` is the heart of the
argument: any reader whose rule gives parameters to all letters that have one,
and to none that the server's loop would not (`Suits`), has after each letter the
modes of the run and the place of the next parameter.

`Replayed`, `Starts`, the `FlattenSeq` of the library and the `Lines` of
`InputFraming` are recursive functions. That the recursion has a
solution, that it has one only, and what it contains is proved by `Induction`,
which says of a set of numbers what the induction principle says of a predicate,
and follows from the least number that is not in the set. `Powers` takes the
little that is needed of `2^n` from the number of subsets of `1..n`.

### Assumptions

`RegistrationAssumption` and `ChannelsAssumption`: the values that stand for "none"
are outside the sets they are none of, the server's password is one clients may
send, limits are those `setMode` accepts. `EventLoopAssumption`: finitely many
descriptors, of which the listening socket's is not a client's.
`FramingAssumption`: NUL, CR and LF are different and no letters, a read takes at
least one byte. `OutputAssumption`: the socket holds something. `WidthAssumption`:
int holds 65536 and long is wider. `CommandsAssumption`: ports and parameters that
consist of digits have natural numbers as values, no nickname consists of
digits, lines are sequences of symbols, the symbols that `MODE` is told with are
strings (which TLAPS does not know of a literal), the command and the channel are
neither white space nor a colon, and a channel's limit is in 0..1000 before.

### Model-checked and not proved

Every safety property of the passing runs is a theorem. Liveness (`InputIsRead`,
`StopsWhenTold`, `QueueDrains`) stays with TLC, since TLAPS has no rule for
fairness. So does what a theorem does not say: that the actions can be taken at
all, and that the cases the properties speak of occur, which the runs show by
firing every action and by the counterexamples of the violation runs.

## Not modelled

LIST, NAMES, MOTD, TIME, PING and PONG format text and queue it; none of them
changes state or follows a pointer from one client or channel to another, so all
they do is `AddToBuffer`. Private messages only queue text. Which replies a
handler queues is left out everywhere, and with it the welcome that every NICK
of a registered client repeats. The character tests of names, reply wording,
logging, time stamps and hostnames are data no property speaks of. Case folding
is in the choice of `ChanName`, one element per folded name. That the loop never
rests while a socket is writable is a matter of processor time. `toString`,
`hasTrailing` and `getTrailing` of `Message` are called by no handler. The guides,
the Makefile and the logs hold no program logic; the guides and comments are the
source of the statements that the violation runs test.

Some things are modelled with less than the system has:

- What a client has sent is one bit in `EventLoop`, and a read clears it, though
  `recv` takes at most `BUFFER_SIZE - 1` bytes and the rest waits for the next
  round. `InputFraming` has the bytes and reads of every size.
- When a peer resets its connection, the kernel drops what it had taken and not
  delivered. In `OutputPath` the socket of a removed client can still be received
  from, so what `LossHasCause` says of a client that goes is about what the server
  had handed over, and not about what such a peer has read.
- Of the lines behind QUIT in one read, the model has one JOIN or none. A second
  JOIN, or a NICK, PRIVMSG or MODE by the freed client, is not modelled; it is the
  same undefined behaviour.
- After undefined behaviour that does not abort, the model goes on with dead
  memory that reads as before or as nothing. The real outcomes are more.
