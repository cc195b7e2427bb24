SPECIFICATION FairSpec
CONSTANTS
  Progress = {p1, p2}
  Case = {c1, c2}
  None = None
  MaxProgressEvents = 2
  MaxEvents = 3
  MaxSnapshots = 1
  MaxFaults = 1
INVARIANTS TypeOK ChannelsAreWindows OneChannelPerCase ShownIsOfTheCase ShownHasNoHole
PROPERTIES ShownStays EventsArrive
CHECK_DEADLOCK FALSE
