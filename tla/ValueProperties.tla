--------------------------- MODULE ValueProperties ---------------------------
(***************************************************************************)
(* The validation of value_properties.py.  A number is a multiple of a     *)
(* finest unit, or not a number; One units are 1.0, and Quantum units are  *)
(* what is left of a number that is rounded to ROUND_DIGITS digits.        *)
(***************************************************************************)
EXTENDS Integers, Sequences

CONSTANTS None, NaN, One, Quantum

ASSUME UnitsAssumption ==
  One \in Nat \ {0} /\ Quantum \in Nat \ {0} /\ One % Quantum = 0

\* round(x, ROUND_DIGITS), halves to even.
Round(x) ==
  LET k == x \div Quantum
      r == x % Quantum
  IN  Quantum * (IF 2 * r < Quantum \/ (2 * r = Quantum /\ k % 2 = 0) THEN k ELSE k + 1)

\* round(offset / step, ROUND_DIGITS).is_integer()
CheckStep(value, min, step) ==
  LET offset == Round(value - min)
      s == Round(step)
      multiple == s * (offset \div s)
      close(distance) == 2 * distance * (One \div Quantum) <= s
  IN  close(offset - multiple) \/ close(multiple + s - offset)

\* _parse_value_description_element: int if all limits are integers.
IsInt(d) == \A limit \in {d.min, d.max, d.step} : limit # None /\ limit % One = 0

\* _generate_validate_value_function: the limits that are checked.
Limits(d) ==
  IF d.min # None /\ d.max # None /\ d.min > d.max
  THEN [min |-> None, max |-> None, step |-> None]
  ELSE IF d.step # None /\ (d.min = None \/ d.max = None \/ ~CheckStep(d.min, d.max, d.step))
  THEN [min |-> d.min, max |-> d.max, step |-> None]
  ELSE [min |-> d.min, max |-> d.max, step |-> d.step]

\* The limits l admit v; NaN is neither lower nor greater, but no multiple of a step.
Within(l, v) ==
  /\ (l.min # None /\ v # NaN) => v >= l.min
  /\ (l.max # None /\ v # NaN) => v <= l.max
  /\ l.step # None => (v # NaN /\ CheckStep(v, l.min, l.step))

\* type_(value): int rounds towards zero, and fails for NaN, which remains.
Converted(d, v) ==
  IF ~IsInt(d) \/ v = NaN THEN v
  ELSE IF v >= 0 THEN One * (v \div One)
  ELSE 0 - One * ((0 - v) \div One)

\* Faulty: the value is validated after it was converted to an integer.
ValidTruncated(d, v) == Within(Limits(d), Converted(d, v))

\* _validate_number_value
Valid(d, v) == Within(Limits(d), v)

\* Faulty: the length is not checked.
AnyLength(max_length, bytes) == TRUE

\* _validate_value_length; a description without max_length admits any.
ValidLength(max_length, bytes) == max_length # None => Len(bytes) <= max_length
=============================================================================
