CONSTANTS
  Party = {Alice, Bob}
  MaxHeight = 4
SPECIFICATION Spec
INVARIANT ChainsOverlap
INVARIANT NoHeightMismatch
PROPERTY HeightsAdvance
SYMMETRY Symmetry
