---------------------------- MODULE DisplayScale ----------------------------
(***************************************************************************)
(* The arithmetic of a field's scaled value box (ui.cpp): what is shown of *)
(* a value, and what value is stored when the box is edited.               *)
(*                                                                         *)
(* A float is an integer number of Units, its mantissa of Precision bits;  *)
(* below 2^Precision Units it is a whole number of them.  A scale is a     *)
(* float.  The value of a field is an integer; that of a floating point    *)
(* field is a float.                                                       *)
(***************************************************************************)
EXTENDS Integers

CONSTANTS
  Unit,        \* Units in 1
  Precision,   \* bits of a mantissa
  MaxExponent,
  Decimals,    \* steps in 1 of a number printed with "%f"
  Ranges       \* the values of each type

\* The multiple of step nearest to n / d, ties to an even one; n >= 0.
Nearest(n, d, step) ==
  LET q == n \div (d * step)
      twice == 2 * (n - q * d * step)
  IN IF twice > d * step \/ (twice = d * step /\ (q % 2) = 1) THEN (q + 1) * step ELSE q * step

\* The float nearest to n / d Units.
Rounded(n, d) ==
  LET Magnitude(m) ==
        LET e == CHOOSE e \in 0..MaxExponent :
                   /\ m < d * 2^(Precision + e)
                   /\ e > 0 => m >= d * 2^(Precision + e - 1)
        IN Nearest(m, d, 2^e)
  IN IF n < 0 THEN -Magnitude(-n) ELSE Magnitude(n)

IsFloat(type) == type = "float"

\* calculate_display_value(): an integer is converted to a float first.
ToFloat(type, v) == IF IsFloat(type) THEN v ELSE Rounded(v * Unit, 1)

Displayed(type, v, scale) == Rounded(ToFloat(type, v) * scale, Unit)

\* A float printed into the box and read back.
Text(x) ==
  LET Steps(m) == Nearest(m * Decimals, Unit, 1)
  IN IF x < 0 THEN Rounded(-Steps(-x) * Unit, Decimals) ELSE Rounded(Steps(x) * Unit, Decimals)

\* Integer part, towards zero.
Truncated(x) == IF x < 0 THEN -((-x) \div Unit) ELSE x \div Unit

\* Mutation of Stored: what is typed is stored as it is.
StoredUnscaled(type, shown, scale) == {IF IsFloat(type) THEN shown ELSE Truncated(shown)}

\* (type)(display_value / display_scale).  A quotient by zero, or one out of
\* the type's range, is undefined: any value of the type may come of it.
Stored(type, shown, scale) ==
  IF scale = 0 THEN Ranges[type]
  ELSE LET sign == IF scale < 0 THEN -1 ELSE 1
           quotient == Rounded(sign * shown * Unit, sign * scale)
       IN IF IsFloat(type) THEN {quotient}
          ELSE IF Truncated(quotient) \in Ranges[type] THEN {Truncated(quotient)}
          ELSE Ranges[type]
=============================================================================
