SPECIFICATION Spec
CONSTANTS
  Bin = {b1, b2}
  MaxVersion = 2
  Relinks = TRUE
  CanKill = TRUE
  CanFail = TRUE
SYMMETRY Symmetry
INVARIANTS NoElfLost WrapperHasTarget NoDoubleWrap
PROPERTIES BackupNotOverwritten ScriptsComplete 
