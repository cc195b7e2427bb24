SPECIFICATION Spec
CONSTANTS
  Writer = {w1, w2}
  Record = {decline, decision}
INVARIANT InMemoryKeepsAcknowledged
CHECK_DEADLOCK FALSE
