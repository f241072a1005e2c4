------------------------------- MODULE Floats -------------------------------
(***************************************************************************)
(* Go's conversion float64(n) of an integer n of at most 64 bits, which    *)
(* validators, the profile of a source and the number a JSON text is read  *)
(* as all go through: the nearest float64, and of two the even one.  Up to *)
(* Mantissa, 2^53 in Go, every integer is a float64; beyond it only every  *)
(* second one is, beyond twice as much every fourth, and so on.            *)
(***************************************************************************)
EXTENDS Integers

CONSTANT Mantissa

ASSUME MantissaAssumption == Mantissa \in Nat \ {0}

Magnitude(n) == IF n < 0 THEN -n ELSE n

(* How far apart the float64s are, up to 2^64. *)
Spacings == {1, 2, 4, 8, 16, 32, 64, 128, 256, 512, 1024, 2048}

Wide == Mantissa * 2048

Spacing(a) ==
    CHOOSE u \in Spacings : a <= Mantissa * u /\ \A t \in Spacings : t < u => Mantissa * t < a

(* a to the nearest multiple of u, and half-way to the even one. *)
RoundEven(a, u) ==
    LET q == a \div u
        r == a % u
    IN  IF 2 * r < u \/ (2 * r = u /\ q % 2 = 0) THEN q * u ELSE (q + 1) * u

Float64(n) ==
    LET f == RoundEven(Magnitude(n), Spacing(Magnitude(n)))
    IN  IF n < 0 THEN -f ELSE f
=============================================================================
