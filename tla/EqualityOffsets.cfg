\* A condition A - B = 0 on variables at distances from others makes them equal to the wrong ones.
SPECIFICATION PartSpec
CONSTANTS
  Parts = {"equality"}
  Unknown = Unknown
  Modulus = 3
  Var <- MCVar
  Ptr <- MCPtr
  Address <- MCAddress
  Others <- MCOthers
  Exprs <- MCExprs
  Cmps <- MCCmps
  PtrSets <- MCPtrSets
  Renames <- MCRenames
  Untracked = FALSE
  MaxInt = 1
  EqVar <- MCEqVar
  EqOthers <- MCEqOthers
  EqExprs <- MCEqExprs
  EqWeakExprs <- MCEqWeakExprs
  EqCmps <- MCEqCmps
  EqRenames <- MCEqRenames
  EqLeftOut = {"extended", "unrebased", "weak", "spread"}
INVARIANT AssumedEqual
CHECK_DEADLOCK FALSE
