\* What a condition tells of a variable is passed on to its class at the wrong distance.
SPECIFICATION PartSpec
CONSTANTS
  Parts = {"equality"}
  Unknown = Unknown
  Modulus = 3
  Var <- MCVar
  Ptr <- MCPtr
  Address <- MCAddress
  Others <- MCOthers
  Exprs <- MCExprs
  Cmps <- MCCmps
  PtrSets <- MCPtrSets
  Renames <- MCRenames
  Untracked = FALSE
  MaxInt = 1
  EqVar <- MCEqVar
  EqOthers <- MCEqOthers
  EqExprs <- MCEqExprs
  EqWeakExprs <- MCEqWeakExprs
  EqCmps <- MCEqCmps
  EqRenames <- MCEqRenames
  EqLeftOut = {"extended", "unrebased", "weak", "displaced"}
INVARIANT EqualsKnown
CHECK_DEADLOCK FALSE
