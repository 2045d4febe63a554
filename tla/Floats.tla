-------------------------------- MODULE Floats --------------------------------
(***************************************************************************)
(* What the scheduler's arithmetic needs of float64: fractions, with the   *)
(* three values a division by zero gives. A fraction has d > 0; with d = 0 *)
(* the sign of n tells NaN (0) from the two infinities. Rounding is left   *)
(* out, signed zeros are one.                                              *)
(***************************************************************************)
EXTENDS Integers

Frac(n, d) == [n |-> n, d |-> d]
Num(i) == Frac(i, 1)
NotANumber == Frac(0, 0)

IsNaN(x) == x.d = 0 /\ x.n = 0
IsInf(x) == x.d = 0 /\ x.n # 0
Finite(x) == x.d > 0
Positive(x) == x.n > 0

(* The difference, for operands of which at most one is infinite. *)
Minus(x, y) ==
  IF IsNaN(x) \/ IsNaN(y) THEN NotANumber
  ELSE IF IsInf(x) THEN x
  ELSE IF IsInf(y) THEN Frac(-y.n, 0)
  ELSE Frac(x.n * y.d - y.n * x.d, x.d * y.d)

(* 0 times an infinity is 0/0 here as there. *)
Times(x, y) == Frac(x.n * y.n, x.d * y.d)

(* The sign goes to the numerator; 0/0 is NaN, x/0 an infinity. *)
Over(x, y) == IF y.n >= 0 THEN Frac(x.n * y.d, x.d * y.n)
              ELSE Frac(-(x.n * y.d), -(x.d * y.n))

Square(x) == Times(x, x)

(* x < y for fractions. *)
Less(x, y) == Finite(x) /\ Finite(y) /\ x.n * y.d < y.n * x.d

=============================================================================
