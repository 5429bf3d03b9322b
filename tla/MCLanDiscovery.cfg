SPECIFICATION Spec
CONSTANTS
  NodeMax = 1
  Conns = {c1, c2}
  Networks = {{1}, {1, 2}}
  MaxAdvertise = 1
  MaxQueue = 1
INVARIANTS    NoConnectionLeaks ConnectedHasLink MtuRestored
PROPERTIES FollowsHost FinalizeReturns
