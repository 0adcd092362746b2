CONSTANTS
  W <- MCW
  Poly <- MCPoly
  Gen <- MCGen
  Secrets <- MCSecrets
  Thresholds <- MCThresholds
  Totals <- MCTotals
  Coeffs <- MCCoeffs
  MaxList <- MCMaxList2
  MaxTamper <- MCMaxTamper
SPECIFICATION Spec
INVARIANT TypeOK
INVARIANT ReconstructionUsedDistinctShares
PROPERTY DealtSharesRevealNothing
