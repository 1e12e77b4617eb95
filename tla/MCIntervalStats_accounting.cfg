CONSTANTS
  Fills <- MCDataFills
  Modulus <- MCModulus
  MaxBlocks <- MCMaxBlocks
  MaxReports <- MCMaxReports
SPECIFICATION Spec
INVARIANTS AccountingExactUnlessRaced
CHECK_DEADLOCK FALSE
