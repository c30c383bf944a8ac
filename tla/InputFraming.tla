---------------------------- MODULE InputFraming -----------------------------
(***************************************************************************)
(* The input of one client: what it writes, the pieces recv takes of it,   *)
(* and the lines _handleClientInput cuts out of Client::_inBuffer.         *)
(*                                                                         *)
(* The peer writes while the server works; recv may take any part of what  *)
(* is there, up to BUFFER_SIZE - 1 bytes.  What handling a line does is in *)
(* Registration and Channels, and that QUIT frees the client in EventLoop; *)
(* here a line is handled when _processMessage is called with it.          *)
(***************************************************************************)
EXTENDS Naturals, SequencesExt

CONSTANTS
  Letter,       \* the symbols of a line's text; NUL, CR and LF besides
  NUL, CR, LF,
  BufferSize,   \* BUFFER_SIZE
  MaxStream     \* bound: how much the client writes

ASSUME FramingAssumption ==
  /\ {NUL, CR, LF} \cap Letter = {}
  /\ NUL # CR /\ NUL # LF /\ CR # LF
  /\ BufferSize \in Nat /\ BufferSize > 1
  /\ MaxStream \in Nat

Symbol == Letter \cup {NUL, CR, LF}

VARIABLES
  stream,    \* history: all the client has written
  got,       \* how much of it recv has returned
  cuts,      \* history: where in the stream reads have ended
  inBuffer,  \* Client::_inBuffer
  rest,      \* what is left in the stream getline reads
  handled,   \* history: the lines given to _processMessage
  phase      \* "poll", "lines", or "gone" after the removal

vars == <<stream, got, cuts, inBuffer, rest, handled, phase>>

FrTypeOK ==
  /\ stream \in Seq(Symbol) /\ Len(stream) <= MaxStream
  /\ got \in 0..Len(stream)
  /\ cuts \subseteq 1..got
  /\ inBuffer \in Seq(Symbol \ {NUL})
  /\ rest \in Seq(Symbol \ {NUL})
  /\ handled \in Seq(Seq(Symbol \ {NUL, LF}) \ {<<>>})
  /\ phase \in {"poll", "lines", "gone"}

Init ==
  /\ stream = <<>>
  /\ got = 0
  /\ cuts = {}
  /\ inBuffer = <<>>
  /\ rest = <<>>
  /\ handled = <<>>
  /\ phase = "poll"

-----------------------------------------------------------------------------

\* s up to the first x, and what follows that x.
Before(s, x) ==
  LET k == SelectInSeq(s, LAMBDA y : y = x) IN
  IF k = 0 THEN s ELSE SubSeq(s, 1, k - 1)

After(s, x) ==
  LET k == SelectInSeq(s, LAMBDA y : y = x) IN
  IF k = 0 THEN <<>> ELSE SubSeq(s, k + 1, Len(s))

Chomp(s) == IF s # <<>> /\ Last(s) = CR THEN Front(s) ELSE s

Write(s) ==
  /\ phase # "gone"
  /\ Len(stream) < MaxStream
  /\ stream' = Append(stream, s)
  /\ UNCHANGED <<got, cuts, inBuffer, rest, handled, phase>>

\* Mutant of Receive: the bytes are taken with their count.
ReceiveRaw ==
  /\ phase = "poll"
  /\ \E n \in 1..(BufferSize - 1) :
       /\ got + n <= Len(stream)
       /\ got' = got + n
       /\ inBuffer' = inBuffer \o SubSeq(stream, got + 1, got + n)
  /\ cuts' = cuts \cup {got'}
  /\ rest' = inBuffer'
  /\ phase' = "lines"
  /\ UNCHANGED <<stream, handled>>

\* recv, and addToInBuffer of the bytes as a C string.
Receive ==
  /\ phase = "poll"
  /\ \E n \in 1..(BufferSize - 1) :
       /\ got + n <= Len(stream)
       /\ got' = got + n
       /\ inBuffer' = inBuffer \o Before(SubSeq(stream, got + 1, got + n), NUL)
  /\ cuts' = cuts \cup {got'}
  /\ rest' = inBuffer'
  /\ phase' = "lines"
  /\ UNCHANGED <<stream, handled>>

\* Mutant of HandleLine: a CR stays in the line.
HandleLineUnchomped ==
  LET line == Before(rest, LF) IN
  /\ phase = "lines"
  /\ rest # <<>>
  /\ handled' = IF line = <<>> THEN handled ELSE Append(handled, line)
  /\ rest' = After(rest, LF)
  /\ UNCHANGED <<stream, got, cuts, inBuffer, phase>>

\* One turn of the getline loop.  What follows the last line end is a line too.
HandleLine ==
  LET line == Chomp(Before(rest, LF)) IN
  /\ phase = "lines"
  /\ rest # <<>>
  /\ handled' = IF line = <<>> THEN handled ELSE Append(handled, line)
  /\ rest' = After(rest, LF)
  /\ UNCHANGED <<stream, got, cuts, inBuffer, phase>>

\* Mutant of EndLines: the buffer is not cleared.
EndLinesKeeping ==
  /\ phase = "lines"
  /\ rest = <<>>
  /\ phase' = "poll"
  /\ UNCHANGED <<stream, got, cuts, inBuffer, rest, handled>>

EndLines ==
  /\ phase = "lines"
  /\ rest = <<>>
  /\ inBuffer' = <<>>
  /\ phase' = "poll"
  /\ UNCHANGED <<stream, got, cuts, rest, handled>>

\* recv returns 0 or an error, or the connection hangs up: _removeClient.
RemoveClient ==
  /\ phase = "poll"
  /\ phase' = "gone"
  /\ UNCHANGED <<stream, got, cuts, inBuffer, rest, handled>>

Next ==
  \/ \E s \in Symbol : Write(s)
  \/ Receive \/ HandleLine \/ EndLines
  \/ RemoveClient

Spec == Init /\ [][Next]_vars

-----------------------------------------------------------------------------
(* Properties *)

\* The text of s behind its last line end, as far as n.
LineTo(s, n) == SubSeq(s, Min({k \in 1..(n + 1) : \A j \in k..n : s[j] # LF}), n)

Another(lines, line) == IF line = <<>> THEN lines ELSE Append(lines, line)

\* The lines that end in s, as the client meant them: without the line end and
\* one CR before it, and without the empty ones.
Lines(s) ==
  LET upTo[n \in 0..Len(s)] ==
        IF n = 0 THEN <<>>
        ELSE IF s[n] = LF THEN Another(upTo[n - 1], Chomp(LineTo(s, n - 1)))
                          ELSE upTo[n - 1]
  IN upTo[Len(s)]

\* A read may end here without touching a line: behind its line end, before
\* it, or before the CR LF that ends it (unless the text itself ends in CR).
Harmless(p) ==
  \/ stream[p] = LF
  \/ p + 1 <= Len(stream) /\ stream[p + 1] = LF
  \/ /\ p + 2 <= Len(stream)
     /\ stream[p] # CR /\ stream[p + 1] = CR /\ stream[p + 2] = LF

NulIn(s) == \E k \in 1..Len(s) : s[k] = NUL

\* As long as no read ended inside a line and no NUL was sent, the server
\* handles exactly the lines the client wrote: between reads all that are
\* received, none twice, none joined, and a CR LF cut in two adds none.
WholeLines ==
  (\A p \in cuts : Harmless(p)) /\ ~NulIn(stream) =>
    /\ IsPrefix(handled, Lines(stream))
    /\ phase = "poll" => IsPrefix(Lines(SubSeq(stream, 1, got)), handled)

\* However reads end, the text is handled in order, each symbol once, and a
\* piece never holds text of two lines; only a NUL loses text.  Of the CRs, one
\* at the end of a read is dropped as if the line ended there.
Order == INSTANCE LineOrder WITH
  todo   <- rest \o SubSeq(stream, got + 1, Len(stream)),
  intact <- ~NulIn(SubSeq(stream, 1, got))

TextInOrder == Order!LineSpec

\* What the guide says: "We process complete messages from this buffer and keep
\* partial messages until more data arrives."
PartialMessagesKept == ~NulIn(stream) => IsPrefix(handled, Lines(stream))
=============================================================================
