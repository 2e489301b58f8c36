------------------------------ MODULE Rounding ------------------------------
(* Python's sum, over a finite set of places, and its round of a quotient. *)
EXTENDS FiniteSetsExt

SumOver(f, S) == MapThenSumSet(LAMBDA x : f[x], S)

\* round(a / b) for b > 0: to the nearest integer, and to the even one of two.
RoundHalfEven(a, b) ==
    LET q == a \div b
        r == 2 * (a % b)
    IN  IF r > b \/ (r = b /\ q % 2 = 1) THEN q + 1 ELSE q
=============================================================================
