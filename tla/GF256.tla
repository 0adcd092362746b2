------------------------------- MODULE GF256 -------------------------------
(***************************************************************************)
(* Arithmetic of class GF256 in finite_field.py: the field GF(2^W) built   *)
(* from log/exp tables over the powers of a generator.  The code fixes     *)
(* W = 8, Poly = 0x11b and Gen = 3; the width is a constant here so that   *)
(* the concurrent table initialisation (FieldEngine) can be checked on a   *)
(* small field with the very same construction.  Every constant of the    *)
(* code is expressed through W: 255 = Order, 256 = 2^W (the 0x100 carry    *)
(* bit and the log table size), 512 = 2^(W+1) (the exp table size),       *)
(* 0xff = 2^W - 1.                                                         *)
(***************************************************************************)
EXTENDS Integers, Bitwise

CONSTANTS
  W,      \* bits per field element (8 in the code)
  Poly,   \* irreducible polynomial (0x11b = 283 in the code)
  Gen     \* primitive element used to build the tables (3 in the code)

ASSUME W \in 1..8 /\ Poly \in 2^W..2^(W+1)-1 /\ Gen \in 2..2^W-1

Order    == 2^W - 1          \* 255: size of the multiplicative group
Elems    == 0..Order         \* field elements (bytes)
ExpSize  == 2^(W+1)          \* 512
LogSize  == 2^W              \* 256
ZeroDivisionError == -1   \* the raised error, an integer outside Elems so
                          \* that results compare with it

(* _multiply_raw: shift-and-add multiplication, reducing by Poly whenever  *)
(* the shifted operand carries into bit W; the result is masked to W bits. *)
RECURSIVE RawLoop(_, _, _)
RawLoop(result, a, b) ==
  IF b = 0 THEN result & Order
  ELSE LET r  == IF b % 2 = 1 THEN result ^^ a ELSE result
           s  == 2 * a
           s2 == IF (s & LogSize) # 0 THEN s ^^ Poly ELSE s
       IN  RawLoop(r, s2, b \div 2)

MultiplyRaw(a, b) == RawLoop(0, a, b)

InitialExp == [i \in 0..ExpSize-1 |-> 0]
InitialLog == [v \in 0..LogSize-1 |-> 0]

(* The loop of _initialize_tables, from x = 1 and zero-filled tables:    *)
(*   for i in range(Order): exp[i] = x; log[x] = i; x = x * Gen           *)
(* A loop state is <<exp, log, x, i>>.  FillRounds runs up to k rounds of *)
(* the body; FillBlocks runs the loop 16 rounds at a time, so that no     *)
(* evaluation nests more than about 32 calls deep.                        *)
RECURSIVE FillRounds(_, _)
FillRounds(s, k) ==
  IF k = 0 \/ s[4] = Order THEN s
  ELSE FillRounds(<< [s[1] EXCEPT ![s[4]] = s[3]], [s[2] EXCEPT ![s[3]] = s[4]],
                     MultiplyRaw(s[3], Gen), s[4] + 1 >>, k - 1)

RECURSIVE FillBlocks(_)
FillBlocks(q) ==
  IF q = 0 THEN << InitialExp, InitialLog, 1, 0 >> ELSE FillRounds(FillBlocks(q - 1), 16)

Filled == FillBlocks(Order \div 16 + 1)

(* The tables as _initialize_tables leaves them.  The overflow loop        *)
(* exp[i] = exp[i - Order] for i in Order..ExpSize-1 runs in increasing i, *)
(* so every entry ends equal to exp[i % Order]; log[0] is then set to 0.   *)
ExpTable   == [i \in 0..ExpSize-1 |-> Filled[1][i % Order]]
LogTable   == [Filled[2] EXCEPT ![0] = 0]

(***************************************************************************)
(* The operations, over given tables (FieldEngine passes the shared,       *)
(* possibly half-built ones).  Add and subtract are XOR and touch no table.*)
(***************************************************************************)
Add(a, b)      == a ^^ b
Subtract(a, b) == a ^^ b

MultiplyWith(exp, log, a, b) ==
  IF a = 0 \/ b = 0 THEN 0 ELSE exp[log[a] + log[b]]

DivideWith(exp, log, a, b) ==
  exp[log[a] - log[b] + Order]

PowerWith(exp, log, a, e) ==
  exp[(log[a] * e) % Order]

(* Defect variant: the inverse looked up one power too low. *)
InverseWithOffByOne(exp, log, a) ==
  exp[Order - 1 - log[a]]

InverseWith(exp, log, a) ==
  exp[Order - log[a]]

(* The operations as a single-threaded caller sees them, with the early    *)
(* returns each method takes before it touches the tables.                 *)
Multiply(a, b) == MultiplyWith(ExpTable, LogTable, a, b)

Divide(a, b) ==
  IF b = 0 THEN ZeroDivisionError
  ELSE IF a = 0 THEN 0
  ELSE DivideWith(ExpTable, LogTable, a, b)

Power(a, e) ==
  IF e = 0 THEN 1
  ELSE IF a = 0 THEN 0
  ELSE PowerWith(ExpTable, LogTable, a, e)

Inverse(a) ==
  IF a = 0 THEN ZeroDivisionError
  ELSE InverseWith(ExpTable, LogTable, a)

(***************************************************************************)
(* Reference definitions the table-driven operations are checked against: *)
(* the field product is the reduced carry-less product, the quotient and   *)
(* inverse are characterised by it, the power is square-and-multiply.      *)
(***************************************************************************)
RECURSIVE RefPower(_, _)
RefPower(a, e) ==
  IF e = 0 THEN 1
  ELSE LET h  == RefPower(a, e \div 2)
           hh == MultiplyRaw(h, h)
       IN  IF e % 2 = 1 THEN MultiplyRaw(hh, a) ELSE hh

IsQuotient(r, a, b) == r \in Elems /\ MultiplyRaw(r, b) = a
IsInverse(r, a)     == r \in Elems /\ MultiplyRaw(a, r) = 1
=============================================================================
