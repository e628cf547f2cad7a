SPECIFICATION Spec
CONSTANTS
  NumRoles = 2
  Snapshots = {s1, s2, s3, s4}
  Null = Null
  MaxDepth = 2
SYMMETRY Sym
INVARIANTS GuardedNeverReclaimed
PROPERTIES ImplementsRegister RetentionBound
