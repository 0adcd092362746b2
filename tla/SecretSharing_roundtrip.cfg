CONSTANTS
  W <- MCW
  Poly <- MCPoly
  Gen <- MCGen
  Secrets <- MCSecrets
  Thresholds <- MCThresholds
  Totals <- MCTotals
  Coeffs <- MCCoeffs
  MaxList <- MCMaxList
  MaxTamper <- MCMaxTamper
SPECIFICATION Spec
INVARIANT RoundTrip
