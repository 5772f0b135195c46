------------------------------ MODULE ScanLimit ------------------------------
(***************************************************************************)
(* The software scan limit check of a pair of steering words.              *)
(*                                                                         *)
(* Words are counted in half steps, so that the rounding of the code stays *)
(* within the integers: a word alpha is 2 * alpha, the direction cosine v  *)
(* is that over 2K = 2 * GAMMA * CENTER_FREQ, and the unit sphere has the  *)
(* radius 2K.  The limits are the constants of the source in this unit,    *)
(* rounded to the side that decides every pair of integer words alike.     *)
(***************************************************************************)
EXTENDS Integers

Sphere == 1138904   \* (2K)^2: beyond it w is not a number
WLimit == 1011999   \* (2K)^2 * (1 - W_THRESHOLD^2)
UVLimit == 928      \* 2K * UV_THRESHOLD
Count == 2          \* one count of a steering word

Square(a, b) == a * a + b * b
Sign(a) == IF a > 0 THEN 1 ELSE IF a < 0 THEN -1 ELSE 0

\* w + v is below the limit of the elevation: (2K)^2 - a^2 - b^2 is less than
\* the square of 25.0232 - a, multiplied out and by 100.
TooLow(a, b) == a <= 25 /\ 200 * a * a + 100 * b * b - 5005 * a > 113827869

\* abs(u) > UV_THRESHOLD as it is built: the abs of <stdlib.h>, on the whole
\* part of the cosine, which is 0 inside the sphere.
CosineExceeds(a) == a * a > Sphere

Exceeds(a, b) == CosineExceeds(a) \/ CosineExceeds(b) \/ Square(a, b) > WLimit

\* Mutant: the sign is ignored.
RoundedDown(a) == a - 1

\* Half a step towards zero.
Rounded(a) == a - Sign(a)

\* runSWScanLimitCheck
RunSWScanLimitCheck(alpha, beta) ==
  LET a == Count * alpha
      b == Count * beta
  IN  /\ Square(a, b) <= Sphere
      /\ ~TooLow(a, b)
      /\ Exceeds(a, b) => ~Exceeds(Rounded(a), Rounded(b))

-----------------------------------------------------------------------------
(* What the check is for. *)

\* The points that are rounded to this one.
HalfAStep(a) == a - 1 .. a + 1

WithinW(a, b) == \E x \in HalfAStep(a), y \in HalfAStep(b) : Square(x, y) <= WLimit
WithinCosine(a) == \E x \in HalfAStep(a) : x \in -UVLimit .. UVLimit

==============================================================================
