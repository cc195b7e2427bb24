SPECIFICATION Spec
CONSTANTS
  Page = {p1, p2}
  Section = {"facts", "policy"}
  Content = {seed, edit}
  Seed = seed
  MaxVersion = 3
  MaxCalls = 2
SYMMETRY Pages
INVARIANTS TypeOK AcknowledgedEditsKept FormsAreWhole RefusedMeansChanged
PROPERTY SettingsPromise
CHECK_DEADLOCK FALSE
