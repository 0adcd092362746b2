CONSTANTS
  pa = pa
  pb = pb
  m1 = m1
  m2 = m2
  s1 = s1
  s2 = s2
  P <- MCP
  N <- MCN
  G <- MCG
  Parties <- MCParties
  Scalars <- MCScalars
  KeyInputs <- MCKeyInputs
  Malformed <- MCMalformed
  Messages <- MCMessages1
  Salts <- MCSalts
SYMMETRY Symmetry
SPECIFICATION Spec
INVARIANTS
  TypeOK
  EcdhSymmetry
  GenuineSignaturesVerify
