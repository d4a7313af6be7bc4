CONSTANTS
  parent = parent
  child = child
  planning = planning
  simple = simple
  dear = dear
  cheap = cheap
  kid = kid
  reader = reader
  None = None
  Session = {parent, child}
  Children = {child}
  Group <- MCGroup
  Simple = simple
  Alternate = planning
  Ref <- MCRef
  Driver <- MCDriver
  Reader = reader
  Capacities = {1, 2}
  MaxTurns <- MCTurns
  MaxStreams = 2
SPECIFICATION Spec
INVARIANTS  DriverPinned OwnState ContextAlive
PROPERTIES FollowUpContinues
CHECK_DEADLOCK FALSE
