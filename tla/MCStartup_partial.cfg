\* Two listeners of which the second cannot listen.
SPECIFICATION Spec
CONSTANTS
  Configs <- AllConfigs
  Gates <- TwoGates
PROPERTY NoPartialOperation
