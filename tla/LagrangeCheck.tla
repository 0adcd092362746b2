---------------------------- MODULE LagrangeCheck ----------------------------
(***************************************************************************)
(* _lagrange_interpolation checked against its reference: the constant    *)
(* term of the polynomial whose values it is given.  Each behaviour is one *)
(* call: a polynomial of degree < t (coefficients a0..a(t-1)) is evaluated *)
(* with the code's own loop at t x-coordinates, which may repeat, and the  *)
(* t points are interpolated at 0.                                         *)
(***************************************************************************)
EXTENDS Shamir

CONSTANTS
  MaxT,     \* largest number of points (the threshold t)
  Xs,       \* x-coordinates a share may carry
  Coeffs    \* coefficient values

ASSUME MaxT \in Nat \ {0} /\ Xs \subseteq 1..255 /\ Coeffs \subseteq Elems

VARIABLES
  poly,     \* the coefficients <<a0, ..., a(t-1)>>
  xs,       \* the x-coordinates of the points, in the order they are passed
  outcome   \* what _lagrange_interpolation returned, or "pending"

vars == <<poly, xs, outcome>>

Pending == [err |-> "pending", val |-> <<>>]

Points == [k \in 1..Len(xs) |-> [x |-> xs[k], y |-> EvalPoly(poly, xs[k])]]

Init ==
  \E t \in 1..MaxT :
    /\ poly \in [1..t -> Coeffs]
    /\ xs \in [1..t -> Xs]
    /\ outcome = Pending

Interpolate ==
  /\ outcome = Pending
  /\ outcome' = LagrangeInterpolation(Points)
  /\ UNCHANGED <<poly, xs>>

Next == Interpolate

Spec == Init /\ [][Next]_vars

-----------------------------------------------------------------------------
Distinct(s) == \A i, j \in DOMAIN s : i # j => s[i] # s[j]

(* Interpolating t points of one polynomial of degree < t at 0 yields its *)
(* constant term a0 exactly when the x-coordinates are distinct, whatever *)
(* their order; a repeated x-coordinate raises the degenerate error and   *)
(* never yields a value.  This is the whole correctness of reconstruction *)
(* once every share comes from the same polynomial.                       *)
InterpolationRecoversConstantTerm ==
  outcome # Pending =>
    outcome = IF Distinct(xs) THEN Ok(poly[1])
              ELSE Err("DegenerateInterpolation")
=============================================================================
