\* Every sequence of operations on two variables and two pointers, and on four
\* variables at distances from each other.
SPECIFICATION PartSpec
CONSTANTS
  Parts = {"als", "equality"}
  Unknown = Unknown
  Modulus = 3
  Var <- MCVar
  Ptr <- MCPtr
  Address <- MCAddress
  Others <- MCOthers
  Exprs <- MCExprs
  Cmps <- MCCmps
  PtrSets <- MCPtrSets
  Renames <- MCRenames
  Untracked = FALSE
  MaxInt = 1
  EqVar <- MCEqVar
  EqOthers <- MCEqOthers
  EqExprs <- MCEqExprs
  EqWeakExprs <- MCEqWeakExprs
  EqCmps <- MCEqCmps
  EqRenames <- MCEqRenames
  EqLeftOut = {"extended", "unrebased", "weak", "displaced", "spread"}
INVARIANTS EqualitySound AlsSound WayBack MissingIsTop
CHECK_DEADLOCK FALSE
