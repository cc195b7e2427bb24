SPECIFICATION Spec
CONSTANTS
  Horizon = 2
  Parent = Parent
  NoOne = NoOne
  grandma = grandma
  sitter = sitter
  coop = coop
  nanny = nanny
  Known = {grandma}
  Candidate = {coop, nanny}
  BaseAvailability <- ResearchAvailability
  Offer <- ResearchOffer
  ParentFree = {1}
  Movable = {1}
  Rate <- ResearchRate
  SpendLimit = 1
  Unfamiliar = {coop, nanny}
  ExternalSettings = {TRUE, FALSE}
  EventId = {e1, e2}
  Reports <- AnyReport
  Thread = {w1}
  FailTargets = {Parent}
SYMMETRY SymmetricResearch
INVARIANTS ResolvedIsEarned ResolvedRespectsDeclines
PROPERTIES NothingRecordedIsLost PromiseKept
CHECK_DEADLOCK FALSE
