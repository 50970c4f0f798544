-------------------------------- MODULE Widths --------------------------------
(* The integers of Go: what is too large for the type it is converted to, or *)
(* for the type it is computed in, wraps around.                             *)
EXTENDS Integers

CONSTANTS
  MaxInt32,   \* 2^31 - 1
  MaxInt64    \* 2^63 - 1, also that of int

ASSUME WidthsAssumption ==
  MaxInt32 \in Nat /\ MaxInt64 \in Nat /\ MaxInt32 <= MaxInt64

\* The values of a type whose largest one is max.
IntRange(max) == -(max + 1) .. max

\* A number as a value of that type.
Wrap(x, max) == ((x + max + 1) % (2 * (max + 1))) - (max + 1)
=============================================================================
