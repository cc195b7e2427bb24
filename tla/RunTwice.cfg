SPECIFICATION ReliableSpec
CONSTANTS
  Horizon = 2
  Parent = Parent
  NoOne = NoOne
  grandma = grandma
  sitter = sitter
  coop = coop
  nanny = nanny
  Known = {grandma, sitter}
  Candidate = {}
  BaseAvailability <- KnownAvailability
  Offer <- NoOffer
  ParentFree = {}
  Movable = {1}
  Rate <- KnownRate
  SpendLimit = 2
  Unfamiliar = {}
  ExternalSettings = {FALSE}
  EventId = {e1, e2}
  Reports <- KnownReports
  Thread = {w1, w2}
  FailTargets = {}
SYMMETRY Symmetric
INVARIANT ActionsRunOnce
CHECK_DEADLOCK FALSE
