CONSTANTS
  W <- MCW
  Poly <- MCPoly
  Gen <- MCGen
  MaxT <- MCMaxT
  Xs <- MCXs
  Coeffs <- MCCoeffs
SPECIFICATION Spec
INVARIANT InterpolationRecoversConstantTerm
CHECK_DEADLOCK FALSE
