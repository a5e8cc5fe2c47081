\* Two connections of one client, of two, or of somebody with no account.
SPECIFICATION Spec
CONSTANTS
  ann = ann
  bob = bob
  p1 = p1
  p2 = p2
  Nobody = Nobody
  Programs = {p1, p2}
  Clients = {ann, bob}
  Owners <- TheOwners
  MaxEvents = 1
INVARIANTS
  PushesReachTheirClient
  ReachableUnlessRaced
PROPERTIES
  ProgramsEnd
CHECK_DEADLOCK FALSE
