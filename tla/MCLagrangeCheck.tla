--------------------------- MODULE MCLagrangeCheck ---------------------------
EXTENDS LagrangeCheck

MCW      == 8
MCPoly   == 283
MCGen    == 3
MCMaxT   == 3
(* x-coordinates at both ends of the range and in between; coefficients   *)
(* with zero, one, and values of high and low log.                        *)
MCXs     == {1, 2, 3, 128, 255}
MCCoeffs == {0, 1, 2, 83, 202, 255}
=============================================================================
