SPECIFICATION ReliableSpec
CONSTANTS
  Horizon = 1
  Parent = Parent
  NoOne = NoOne
  grandma = grandma
  sitter = sitter
  coop = coop
  nanny = nanny
  Known = {grandma, sitter}
  Candidate = {coop, nanny}
  BaseAvailability <- KnownAvailability
  Offer <- ResearchOffer
  ParentFree = {}
  Movable = {}
  Rate <- FreeRate
  SpendLimit = 0
  Unfamiliar = {sitter}
  ExternalSettings = {TRUE, FALSE}
  EventId = {e1, e2}
  Reports <- AnyReport
  Thread = {w1, w2}
  FailTargets = {}
INVARIANT ExecutionNeverDropped
CHECK_DEADLOCK FALSE
PROPERTIES RequestsAnswered ExecutionSettles
