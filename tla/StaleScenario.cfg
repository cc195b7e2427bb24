SPECIFICATION Spec
CONSTANTS
  Horizon = 3
  Parent = Parent
  NoOne = NoOne
  grandma = grandma
  sitter = sitter
  coop = coop
  nanny = nanny
  Known = {grandma}
  Candidate = {coop, nanny}
  BaseAvailability <- LongAvailability
  Offer <- ResearchOffer
  ParentFree = {1}
  Movable = {}
  Rate <- ResearchRate
  SpendLimit = 6
  Unfamiliar = {}
  ExternalSettings = {TRUE}
  EventId = {e1, e2}
  Reports <- TwoReports
  Thread = {w1, w2}
  FailTargets = {}
SYMMETRY Symmetric
INVARIANTS ResolvedRespectsDeclines
CHECK_DEADLOCK FALSE
