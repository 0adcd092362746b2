------------------------------- MODULE Shamir -------------------------------
(***************************************************************************)
(* Class ShamirSecretSharing and the functions split_secret_bytes and      *)
(* reconstruct_secret_bytes of finite_field.py, as operators over GF256.   *)
(* A secret is a sequence of bytes; a share is a record [x, y] where y has *)
(* one byte per byte of the secret.  The random coefficients that          *)
(* random.randint draws are an argument ("draws"), so that a caller of     *)
(* these operators enumerates them with \E.                                *)
(***************************************************************************)
EXTENDS GF256, Sequences, Outcome

(* ShamirSecretSharing.__init__: the parameter checks, in code order. *)
CheckParams(t, n) ==
  CASE t <= 0   -> "ThresholdNotPositive"
    [] t > n    -> "ThresholdExceedsTotal"
    [] n > 255  -> "TooManyShares"
    [] OTHER    -> "none"

(* The evaluation loop of _evaluate_polynomial_at_point: Horner-free,     *)
(* accumulating coeff * x_power and multiplying x_power by x each round.  *)
RECURSIVE EvalLoop(_, _, _, _)
EvalLoop(coeffs, x, result, xPower) ==
  IF coeffs = <<>> THEN result
  ELSE EvalLoop(Tail(coeffs), x,
                Add(result, Multiply(Head(coeffs), xPower)),
                Multiply(xPower, x))

EvalPoly(coeffs, x) == EvalLoop(coeffs, x, 0, 1)

(* _evaluate_polynomial_at_point(secret, x): for every byte it draws the  *)
(* t-1 coefficients a1..a(t-1) afresh (draw[b]) and evaluates the         *)
(* polynomial with a0 = the secret byte at x.                             *)
(* Defect variant: the coefficient loop starts one late (range(2, t)). *)
EvaluateAtPointShortDraw(secret, x, draw) ==
  [b \in 1..Len(secret) |-> EvalPoly(<<secret[b]>> \o
                                    (IF draw[b] = <<>> THEN <<>> ELSE Tail(draw[b])), x)]

EvaluateAtPoint(secret, x, draw) ==
  [b \in 1..Len(secret) |-> EvalPoly(<<secret[b]>> \o draw[b], x)]

(* split_secret: share i is _evaluate_polynomial_at_point(secret, i) for  *)
(* i = 1..n, each call with its own draws (draws[i]).                     *)
(* Defect variant: share points numbered from 0 (range(0, n)). *)
SplitSecretFromZero(secret, n, draws) ==
  [i \in 1..n |-> [x |-> i - 1, y |-> EvaluateAtPoint(secret, i - 1, draws[i])]]

SplitSecret(secret, n, draws) ==
  [i \in 1..n |-> [x |-> i, y |-> EvaluateAtPoint(secret, i, draws[i])]]

(* The draws split_secret can make: per share, per byte, t-1 values.     *)
Draws(secret, t, n, Values) ==
  [1..n -> [1..Len(secret) -> [1..t-1 -> Values]]]

(* _lagrange_interpolation(points, 0): for each point the products of x_j *)
(* and of (x_i - x_j) over the other points; a zero denominator raises,   *)
(* otherwise y_i * num / den is added to the result.  Points are records  *)
(* [x, y] with a single byte y.                                          *)
(* Defect variant: the numerator takes x_i instead of x_j. *)
RECURSIVE BasisLoopWrongNum(_, _, _, _, _)
BasisLoopWrongNum(points, i, j, num, den) ==
  IF j > Len(points) THEN <<num, den>>
  ELSE IF j = i THEN BasisLoopWrongNum(points, i, j + 1, num, den)
  ELSE BasisLoopWrongNum(points, i, j + 1,
                 Multiply(num, points[i].x),
                 Multiply(den, Subtract(points[i].x, points[j].x)))

(* Defect variant: points are skipped by equal x instead of equal index. *)
RECURSIVE BasisLoopSkipsEqualX(_, _, _, _, _)
BasisLoopSkipsEqualX(points, i, j, num, den) ==
  IF j > Len(points) THEN <<num, den>>
  ELSE IF points[j].x = points[i].x THEN BasisLoopSkipsEqualX(points, i, j + 1, num, den)
  ELSE BasisLoopSkipsEqualX(points, i, j + 1,
                 Multiply(num, points[j].x),
                 Multiply(den, Subtract(points[i].x, points[j].x)))

RECURSIVE BasisLoop(_, _, _, _, _)
BasisLoop(points, i, j, num, den) ==
  IF j > Len(points) THEN <<num, den>>
  ELSE IF j = i THEN BasisLoop(points, i, j + 1, num, den)
  ELSE BasisLoop(points, i, j + 1,
                 Multiply(num, points[j].x),
                 Multiply(den, Subtract(points[i].x, points[j].x)))

(* Defect variant: no zero-denominator check, so GF256.divide raises. *)
LagrangeTermNoCheck(points, i) ==
  LET nd == BasisLoop(points, i, 1, 1, 1)
  IN  IF nd[2] = 0 THEN Err("ZeroDivisionError")
      ELSE Ok(Multiply(points[i].y, Divide(nd[1], nd[2])))

LagrangeTerm(points, i) ==
  LET nd == BasisLoop(points, i, 1, 1, 1)
  IN  IF nd[2] = 0 THEN Err("DegenerateInterpolation")
      ELSE Ok(Multiply(points[i].y, Divide(nd[1], nd[2])))

RECURSIVE LagrangeLoop(_, _, _)
LagrangeLoop(points, i, acc) ==
  IF i > Len(points) THEN Ok(acc)
  ELSE LET term == LagrangeTerm(points, i)
       IN  IF term.err # "none" THEN term
           ELSE LagrangeLoop(points, i + 1, Add(acc, term.val))

LagrangeInterpolation(points) == LagrangeLoop(points, 1, 0)

(* reconstruct_secret: at least t shares, the first t are used, all of    *)
(* the same length; then one interpolation per byte position, the first   *)
(* failing position raising.                                             *)
RECURSIVE ByteLoop(_, _, _)
ByteLoop(active, pos, acc) ==
  IF pos > Len(active[1].y) THEN Ok(acc)
  ELSE LET pts == [k \in 1..Len(active) |->
                     [x |-> active[k].x, y |-> active[k].y[pos]]]
           r   == LagrangeInterpolation(pts)
       IN  IF r.err # "none" THEN r
           ELSE ByteLoop(active, pos + 1, Append(acc, r.val))

ReconstructSecret(shares, t) ==
  LET active == SubSeq(shares, 1, t) IN
  IF Len(shares) < t THEN Err("InsufficientShares")
  ELSE IF \E k \in 1..t : Len(active[k].y) # Len(active[1].y)
       THEN Err("LengthMismatch")
  ELSE ByteLoop(active, 1, <<>>)

(* reconstruct_secret_bytes(shares, t): builds the object with            *)
(* total_shares = max(len(shares), t), whose checks come first.          *)
ReconstructSecretBytes(shares, t) ==
  LET total == IF Len(shares) > t THEN Len(shares) ELSE t
      bad   == CheckParams(t, total)
  IN  IF bad # "none" THEN Err(bad) ELSE ReconstructSecret(shares, t)

(* verify_shares: False below t shares; otherwise reconstructs every      *)
(* window shares[i : i+t] and is True unless one of them raises.         *)
VerifyShares(shares, t) ==
  /\ Len(shares) >= t
  /\ \A i \in 0..Len(shares)-t :
       ReconstructSecret(SubSeq(shares, i+1, i+t), t).err = "none"
=============================================================================
