\* Every expression over the value sets over -2..2; every sequence of operations on
\* the states of two variables; every program of two statements over words of three bits.
SPECIFICATION PartSpec
CONSTANTS
  Parts = {"value", "vsd", "converter"}
  MaxInt = 2
  MaxGrowth = 1
  Operands <- MCOperands
  Var <- VsdVar
  Address <- MCAddress
  Others <- MCOthers
  Exprs <- MCExprs
  Cmps <- MCCmps
INVARIANTS Sound WideningClimbs
INVARIANTS VsdSound VsdEngineBounds ConverterExact
CHECK_DEADLOCK FALSE
