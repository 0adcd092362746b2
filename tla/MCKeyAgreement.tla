--------------------------- MODULE MCKeyAgreement ---------------------------
EXTENDS KeyAgreement, TLC

CONSTANTS pa, pb, m1, m2, s1, s2

(* y^2 = x^3 + 7 over P = 43 has 31 points, generated by G = (2, 12).     *)
MCP == 43
MCN == 31
MCG == <<2, 12>>
MCParties == {pa, pb}
(* 2G = (7, 7) and 30G = (2, 31) have odd y, 4G = (21, 18) even y.       *)
MCScalars == {2, 4, 30}
(* None, b'', 31 bytes, and 32 bytes encoding 0, 4 and N.               *)
MCKeyInputs == {NoKeyBytes, [len |-> 0, val |-> 0], [len |-> 31, val |-> 4],
                [len |-> 32, val |-> 0], [len |-> 32, val |-> 4],
                [len |-> 32, val |-> 31]}
(* x = 0 is on no point; prefix 7 before the x of 4G; prefix 5 before 2G. *)
MCMalformed == {Enc(32, 0, 0, 0), Enc(33, 7, 21, 0), Enc(65, 5, 7, 7)}
MCMessages == {m1, m2}
MCMessages1 == {m1}
MCSalts == {s1, s2}
Symmetry == Permutations(MCParties)
=============================================================================
