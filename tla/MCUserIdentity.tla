--------------------------- MODULE MCUserIdentity ---------------------------
(* A small instance of UserIdentity: floats with McMantissa bits, accounts  *)
(* that are interchangeable.                                                *)
EXTENDS UserIdentity, TLC

McMantissa == 3
McExact == 2 ^ McMantissa

\* The distance between the floats next to n.
McSpacing(n) ==
  2 ^ (CHOOSE k \in 0 .. 8 : n < 2 ^ (McMantissa + k) /\ (k = 0 \/ n >= 2 ^ (McMantissa + k - 1)))

\* To the nearest float, and half-way to the one whose last bit is 0.
McFloat64(n) ==
  LET s == McSpacing(n)
      down == (n \div s) * s
      off == 2 * (n % s)
  IN IF off < s \/ (off = s /\ (n \div s) % 2 = 0) THEN down ELSE down + s

UserSymmetry == Permutations(User)
=============================================================================
