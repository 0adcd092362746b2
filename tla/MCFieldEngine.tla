--------------------------- MODULE MCFieldEngine ---------------------------
EXTENDS FieldEngine, TLC

CONSTANTS t1, t2

(* The field of the code, GF(2^8) with 0x11b and generator 3, one thread. *)
MCW8       == 8
MCPoly8    == 283
MCGen8     == 3
MCThreads1 == {t1}
MCOperands8 == {0, 1, 2, 3, 83, 202, 255}

(* GF(2^2) with x^2 + x + 1 and generator x: the same construction on a   *)
(* field small enough to interleave two initialising threads.            *)
MCW2       == 2
MCPoly2    == 7
MCGen2     == 2
MCThreads2 == {t1, t2}
MCOperands2 == {1, 2}

MCMaxCalls1 == 1
MCMaxCalls2 == 2

Symmetry == Permutations(MCThreads2)
=============================================================================
