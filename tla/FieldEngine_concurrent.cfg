CONSTANTS
  W <- MCW2
  Poly <- MCPoly2
  Gen <- MCGen2
  t1 = t1
  t2 = t2
  Threads <- MCThreads2
  Operands <- MCOperands2
  MaxCalls <- MCMaxCalls1
SPECIFICATION Spec
SYMMETRY Symmetry
INVARIANT QuiescentTablesComplete
CHECK_DEADLOCK FALSE
