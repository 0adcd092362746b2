----------------------------- MODULE MCEnvelope ------------------------------
EXTENDS Envelope, TLC

CONSTANTS o1, o2, pl1, pl2, n1, n2, wn1, salt1

MCW     == 8
MCPoly  == 283
MCGen   == 3
MCCitrate == {"citrate"}
MCBoth    == {"citrate", "lattice"}
MCOwners   == {o1, o2}
MCPayloads == {pl1, pl2}
(* Two fresh one-byte data keys, so two envelopes never share a key.     *)
MCDataKeys == {<<171>>, <<7>>}
MCNonces   == {n1, n2}
MCWrapNonces == {wn1}
MCSalts    == {salt1}
(* No shares; t = 1 of 2; t = 2 of 2; t = 2 > n = 1 (rejected by split).  *)
MCConfigs  == {[t |-> 0, n |-> 0], [t |-> 1, n |-> 2], [t |-> 2, n |-> 2],
               [t |-> 2, n |-> 1]}
(* Without t = 1, whose shares hold the key itself (a finding of its own). *)
MCConfigsNoT1 == MCConfigs \ {[t |-> 1, n |-> 2]}
MCCoeffs   == {0, 83}
MCMaxEnvelopes == 2
MCMaxList  == 2
MCMaxTamper == 1
(* Owners, payloads and nonces are interchangeable model values. *)
Symmetry == Permutations(MCOwners) \cup Permutations(MCPayloads) \cup Permutations(MCNonces)
=============================================================================
