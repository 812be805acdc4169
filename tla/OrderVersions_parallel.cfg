CONSTANTS
  Savers = {s1, s2, s3}
  MaxSaves = 4
  Budget <- FullBudget
SPECIFICATION Spec
SYMMETRY SaverSymmetry
INVARIANTS DocumentPerSaver SavedIsKept SavedOnce
CHECK_DEADLOCK FALSE
