CONSTANTS
  o1 = o1
  o2 = o2
  pl1 = pl1
  pl2 = pl2
  n1 = n1
  n2 = n2
  wn1 = wn1
  salt1 = salt1
  W <- MCW
  Poly <- MCPoly
  Gen <- MCGen
  Sdks <- MCBoth
  Owners <- MCOwners
  Payloads <- MCPayloads
  DataKeys <- MCDataKeys
  Nonces <- MCNonces
  WrapNonces <- MCWrapNonces
  Salts <- MCSalts
  Configs <- MCConfigsNoT1
  Coeffs <- MCCoeffs
  MaxEnvelopes <- MCMaxEnvelopes
  MaxList <- MCMaxList
  MaxTamper <- MCMaxTamper
SPECIFICATION Spec
INVARIANT TypeOK
PROPERTY ImplementsContract
SYMMETRY Symmetry
