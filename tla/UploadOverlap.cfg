\* Two saves in quick succession share one temporary file.
SPECIFICATION Spec
CONSTANTS
  Upload = {u1, u2}
  Chunks = 2
  MaxEdits = 1
  MaxFaults = 0
SYMMETRY Symmetry
INVARIANTS
  TargetNotWrittenInPlace
