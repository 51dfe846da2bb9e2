----------------------------- MODULE Durations -----------------------------
(***************************************************************************)
(* eventengine::timer::Duration: milliseconds in an unsigned integer that  *)
(* wraps around, made from units and combined by operator+ and operator-.  *)
(*                                                                         *)
(* The state is two Durations a client computes with.                      *)
(***************************************************************************)
EXTENDS Naturals

CONSTANTS
  Modulus,  \* 2^64 in the code
  Amounts   \* amounts of a unit a client asks for

ASSUME DurationAssumption == Modulus \in Nat \ {0} /\ Amounts \subseteq Nat

Durations == 0 .. (Modulus - 1)

Wrap(n) == n % Modulus

\* The argument is such an integer already.
Times(n, factor) == Wrap(Wrap(n) * factor)

milliseconds(ms) == Wrap(ms)
seconds(s) == Times(s, 1000)
minutes(m) == Times(Times(m, 60), 1000)
hours(h) == Times(Times(Times(h, 60), 60), 1000)

\* Faulty variant: an hour too few.
daysShort(d) == Times(Times(Times(Times(d, 23), 60), 60), 1000)

days(d) == Times(Times(Times(Times(d, 24), 60), 60), 1000)

Plus(a, b) == Wrap(a + b)

\* Faulty variant: the difference wraps.
MinusWrapped(a, b) == Wrap(a + (Modulus - b))

Minus(a, b) == IF a > b THEN a - b ELSE 0

-----------------------------------------------------------------------------
VARIABLES
  amount,  \* the amount of the last call
  x,       \* the Duration made of it
  y        \* the one made before

durationVars == <<amount, x, y>>

DurationInit == amount = 0 /\ x = milliseconds(0) /\ y = milliseconds(0)

Make(n) ==
  /\ amount' = n
  /\ x' \in {milliseconds(n), seconds(n), minutes(n), hours(n), days(n)}
  /\ y' = x

DurationNext == \E n \in Amounts : Make(n)

DurationSpec == DurationInit /\ [][DurationNext]_durationVars

-----------------------------------------------------------------------------
\* Subtraction never wraps: what it gives, added again, is the larger operand.  A sum that
\* did not wrap around is undone by subtraction, and one that did shows it, by being smaller
\* than both operands.
SumAndDifferenceAgree ==
  /\ Plus(Minus(x, y), y) = (IF x > y THEN x ELSE y)
  /\ IF x + y < Modulus THEN Minus(Plus(x, y), y) = x
     ELSE Plus(x, y) < x /\ Plus(x, y) < y

\* The same time given in another unit is the same Duration, also where it wraps around.
UnitsAgree ==
  /\ days(amount) = hours(24 * amount)
  /\ hours(amount) = minutes(60 * amount)
  /\ minutes(amount) = seconds(60 * amount)
  /\ seconds(amount) = milliseconds(1000 * amount)
=============================================================================
