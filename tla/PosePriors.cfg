CONSTANTS
  Images = {1, 2}
  Stamp = 1
  Children = {odom}
  Times = {1, 2, 3, 4}
  MaxGap = 2
  Importers = {i1, i2}
  None = None
SPECIFICATION Spec
INVARIANTS RowsAreBracketed OutputIsOneImport SuccessIsWhole
CHECK_DEADLOCK FALSE
