CONSTANTS
  Seqs <- MCSeqs
  Ring = 3
  Jump = 2
SPECIFICATION Spec
INVARIANTS
  InOrder
  NoStaleMark
PROPERTIES
  FirstMarkKept
