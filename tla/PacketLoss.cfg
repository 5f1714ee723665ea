CONSTANT
  Samples <- MCSamples
SPECIFICATION Spec
INVARIANT
  LossNoticed
