CONSTANTS
  W <- MCW8
  Poly <- MCPoly8
  Gen <- MCGen8
  t1 = t1
  t2 = t2
  Threads <- MCThreads1
  Operands <- MCOperands8
  MaxCalls <- MCMaxCalls2
SPECIFICATION Spec
INVARIANTS
  TypeOK
  ResultsAgreeWithReference
  QuiescentTablesComplete
CHECK_DEADLOCK FALSE
