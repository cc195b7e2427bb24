SPECIFICATION Spec
CONSTANTS
  Writer = {w1, w2, w3}
  Record = {decline, decision, result, outcome}
INVARIANTS AcknowledgedIsKept VersionsIdentifyContent
CHECK_DEADLOCK FALSE
