SPECIFICATION Spec
CONSTANTS
  Authority = {a1, a2, a3}
  RequiredSignatures = 2
  Message = {m1, m2}
  NoSignature = NoSignature
INVARIANT CollectedWhenEnough
CHECK_DEADLOCK FALSE
