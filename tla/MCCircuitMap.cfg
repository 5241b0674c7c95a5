CONSTANTS
  InKey = {k1, k2, k3}
  MaxOut = 1
  NoKey = NoKey
SPECIFICATION Spec
SYMMETRY Symmetry
INVARIANT MemoryIsDurable
INVARIANT NoDisjointSegments
INVARIANT LookupIsComplete
PROPERTY RestartKeepsSigned
