\* Renamings of at most two fields and eight variables; every sequence of three
\* instructions on overlapping fields; every two ways of two instructions that meet
\* (three, if the ways meet twice).
SPECIFICATION PartSpec
CONSTANTS
  Parts = {"rename", "memory", "meet", "again"}
  MaxCounter = 8
  MaxFields = 2
  MaxEqual = 1
  Numbers = "digit"
  Registers <- MCRegisters
  Derefs <- MCDerefs
  Static <- MCStatic
  Cells <- MCCells
  Ranges <- MCRanges
  Sources <- MCSources
  Targets <- MCTargets
  Conditions <- MCConditions
  Length = 3
  LeftOut = {"gap", "suffix", "skip"}
INVARIANTS SameOrder SameShape Apart
INVARIANTS MemorySound Aligned
PROPERTIES JoinCovers Stable
CHECK_DEADLOCK FALSE
