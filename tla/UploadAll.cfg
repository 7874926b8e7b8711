\* Three uploads of one file edited twice at any moment, with and without useTempFile,
\* against servers whose rename replaces the target and servers that refuse to.
SPECIFICATION Spec
CONSTANTS
  Upload = {u1, u2, u3}
  Chunks = 2
  MaxEdits = 2
  MaxFaults = 1
SYMMETRY Symmetry
INVARIANTS
  TargetWhole
  DeliveredAtRest
  NoStrayTemp
