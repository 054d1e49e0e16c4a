CONSTANTS
  Thread = {t1, t2}
  Op = {"FFMA", "HMMA", "MatMul"}
  Schema = {"own", "temp", "read", "canonical"}
  None = None
  Reg = {"sass", "onnx"}
  Initial <- MCInitial
  Override <- MCOverride
  File <- MCFile
  Default = "bundled"
  Canonical <- MCCanonical
  CanonicalLatency <- MCCanonicalLatency
  MaxOps = 2
SPECIFICATION Spec
INVARIANT OverridesAreUndone
PROPERTIES
  OverriddenByOneThread
  EveryCallIsServed
CHECK_DEADLOCK FALSE
