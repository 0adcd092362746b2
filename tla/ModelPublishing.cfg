CONSTANTS
  k1 = k1
  kx = kx
  h1 = h1
  f1 = f1
  Supported <- MCSupported
  ModelKeys <- MCModelKeys
  FormatChoices <- MCFormatChoices
  HfModels <- MCHfModels
  ModelFiles <- MCModelFiles
  CoreMLTypes <- MCCoreMLTypes
  MaxRuns = 2
SPECIFICATION Spec
CHECK_DEADLOCK FALSE
INVARIANT TypeOK
INVARIANT RegisteredMetadataDescribesPinnedContent
