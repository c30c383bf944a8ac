------------------------------ MODULE LineOrder ------------------------------
(***************************************************************************)
(* What reading a client promises, whatever way its text is cut on the     *)
(* way: each symbol is handled once and in order, in pieces that never     *)
(* hold text of two lines, and all that goes besides the line ends is one  *)
(* CR at the end of a piece.  Text is lost only if `intact' says so.       *)
(***************************************************************************)
EXTENDS Naturals, Sequences

CONSTANTS
  Symbol,  \* what clients write
  CR, LF   \* what they end lines with

VARIABLES
  todo,     \* text written and not handled yet
  handled,  \* the pieces handled
  intact    \* nothing has been lost

LineInit ==
  /\ todo = <<>>
  /\ handled = <<>>
  /\ intact = TRUE

Written(s) ==
  /\ todo' = Append(todo, s)
  /\ UNCHANGED <<handled, intact>>

WithoutCR(s) ==
  IF s # <<>> /\ s[Len(s)] = CR THEN SubSeq(s, 1, Len(s) - 1) ELSE s

\* The first n symbols of a line are handled as a piece, or passed over if they
\* make none.  The end of the line may go with the piece before it.
PieceHandled(n) ==
  LET piece == WithoutCR(SubSeq(todo, 1, n))
      end == IF n < Len(todo) /\ todo[n + 1] = LF THEN n + 1 ELSE n
  IN /\ \A k \in 1..n : todo[k] # LF
     /\ handled' = IF piece = <<>> THEN handled ELSE Append(handled, piece)
     /\ \E from \in {n, end} : todo' = SubSeq(todo, from + 1, Len(todo))
     /\ UNCHANGED intact

\* A stretch of the text is lost.
Lost ==
  /\ intact' = FALSE
  /\ \E from, to \in 0..Len(todo) :
       /\ from <= to
       /\ todo' = SubSeq(todo, 1, from) \o SubSeq(todo, to + 1, Len(todo))
  /\ UNCHANGED handled

LineNext ==
  \/ \E s \in Symbol : Written(s)
  \/ \E n \in 0..Len(todo) : PieceHandled(n)
  \/ Lost

LineSpec == LineInit /\ [][LineNext]_<<todo, handled, intact>>
=============================================================================
