------------------------------- MODULE Floats -------------------------------
(***************************************************************************)
(* The values of a C float, as far as the properties tell them apart:      *)
(* numbers, rounded down to integers and without a greatest one, the two   *)
(* infinities, and NaN, with the comparisons and the arithmetic IEEE 754   *)
(* gives them.  Zero has no sign.                                          *)
(***************************************************************************)
EXTENDS Integers

Number(n)   == [kind |-> "number",   value |-> n]
Infinity(s) == [kind |-> "infinite", value |-> s]     \* of sign s, 1 or -1
NaN         == [kind |-> "nan",      value |-> 0]

Numbers    == [kind : {"number"}, value : Int]
Infinities == [kind : {"infinite"}, value : {-1, 1}]
Floats     == Numbers \cup Infinities \cup {NaN}

IsNumber(x)   == x.kind = "number"
IsInfinite(x) == x.kind = "infinite"

-----------------------------------------------------------------------------
(* Comparisons: with a NaN on either side each of them is false.           *)

Less(x, y) ==
    /\ NaN \notin {x, y}
    /\ \/ IsNumber(x) /\ IsNumber(y) /\ x.value < y.value
       \/ x = Infinity(-1) /\ y # Infinity(-1)
       \/ y = Infinity(1) /\ x # Infinity(1)

AtMost(x, y) == Less(x, y) \/ (x = y /\ x # NaN)

-----------------------------------------------------------------------------
(* Arithmetic.                                                             *)

Sign(n) == IF n > 0 THEN 1 ELSE IF n < 0 THEN -1 ELSE 0

Negated(x) == [x EXCEPT !.value = -@]

Plus(x, y) ==
    CASE IsNumber(x) /\ IsNumber(y)                -> Number(x.value + y.value)
      [] IsNumber(x) /\ IsInfinite(y)              -> y
      [] IsInfinite(x) /\ (IsNumber(y) \/ y = x)   -> x
      [] OTHER                                     -> NaN

Minus(x, y) == Plus(x, Negated(y))

Times(x, y) ==
    CASE IsNumber(x) /\ IsNumber(y) -> Number(x.value * y.value)
      [] (IsInfinite(x) \/ IsInfinite(y)) /\ x.value * y.value # 0
                                    -> Infinity(Sign(x.value * y.value))
      [] OTHER                      -> NaN

\* n / d, rounded down.
RoundedDown(n, d) == IF d > 0 THEN n \div d ELSE (-n) \div (-d)

Quotient(x, y) ==
    CASE IsNumber(x) /\ IsNumber(y) /\ y.value # 0 -> Number(RoundedDown(x.value, y.value))
      [] IsNumber(x) /\ x.value # 0 /\ y = Number(0) -> Infinity(Sign(x.value))
      [] IsNumber(x) /\ IsInfinite(y)              -> Number(0)
      [] IsInfinite(x) /\ IsNumber(y)              -> IF y.value < 0 THEN Negated(x) ELSE x
      [] OTHER                                     -> NaN

=============================================================================
