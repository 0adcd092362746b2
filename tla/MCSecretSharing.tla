--------------------------- MODULE MCSecretSharing ---------------------------
EXTENDS SecretSharing

MCW     == 8
MCPoly  == 283
MCGen   == 3
(* Two one-byte secrets, 0xAB as in the spec's scenario and 0x07, and    *)
(* the empty secret, whose shares carry no bytes.                        *)
MCSecrets    == {<<171>>, <<7>>, <<>>}
(* t = 0 and t > n exercise the constructor's errors, n = 256 the bound. *)
MCThresholds == {0, 1, 2}
MCTotals     == {1, 2, 3, 256}
MCCoeffs     == {0, 83, 202}
MCMaxList    == 3
MCMaxList2   == 2
MCMaxTamper  == 1
=============================================================================
