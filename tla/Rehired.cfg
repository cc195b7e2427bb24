SPECIFICATION Spec
CONSTANTS
  mom = mom
  grandma = grandma
  sitter = sitter
  nanny = nanny
  minder = minder
  NoOne = NoOne
  LastTime = 4
  Required <- MCRequired
  Parents <- MCParents
  Known <- MCKnown
  Candidates <- MCCandidates
  External <- MCCandidates
  Trusted <- MCTrusted
  Drivers <- MCDrivers
  Home = "home"
  At <- MCAt
  Travel <- MCTravel
  Buffer <- MCBuffer
  Offer <- MCOffer
  Vetted <- MCCandidates
  Snapshots <- MCSnapshots
  Hosts <- MCHosts
  Reports <- MCReports
  MaxDeclines = 2
INVARIANT DeclinersAreReleased
CHECK_DEADLOCK FALSE
