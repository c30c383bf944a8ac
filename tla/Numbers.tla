------------------------------- MODULE Numbers -------------------------------
(***************************************************************************)
(* Numbers that come as text: the port and the argument of MODE +l.  Both  *)
(* are tested for digits and converted by atoi, which in the C library of  *)
(* the build takes the low bits of a long that stops at its largest value. *)
(* The widths are constants: the build has 32 and 64 bits.                 *)
(***************************************************************************)
EXTENDS Integers

CONSTANTS IntWidth, LongWidth

ASSUME WidthAssumption ==
  /\ IntWidth \in Nat \ {0} /\ LongWidth \in Nat
  /\ 2^(IntWidth - 1) > 65536
  /\ LongWidth > IntWidth

MaxInt == 2^(IntWidth - 1) - 1
MaxLong == 2^(LongWidth - 1) - 1

\* atoi of the digits of n.
Atoi(n) ==
  LET low == (IF n > MaxLong THEN MaxLong ELSE n) % 2^IntWidth IN
  IF low > MaxInt THEN low - 2^IntWidth ELSE low

\* Mutant of ValidPort: the bounds are let in.
ValidPortInclusive(n) == Atoi(n) >= 1023 /\ Atoi(n) <= 65536

\* validatePort, for a string of digits.
ValidPort(n) == Atoi(n) > 1023 /\ Atoi(n) < 65536

\* The limit as setMode converts it.
LimitOf(n) == Atoi(n) % 2^IntWidth

\* Mutant of ValidLimit: the conversion alone decides.
ValidLimitUnbounded(n) == LimitOf(n) # 0

\* Whether setMode accepts it.
ValidLimit(n) == LimitOf(n) # 0 /\ LimitOf(n) <= 1000
=============================================================================
