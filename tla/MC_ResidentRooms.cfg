SPECIFICATION RoomsSpec
CONSTANTS
  r1 = r1
  r2 = r2
  u1 = u1
  u2 = u2
  u3 = u3
  h1 = h1
  h2 = h2
  b1 = b1
  b2 = b2
  q1 = q1
  q2 = q2
  Users = {u1, u2, u3}
  Hostels = {h1, h2}
  Rooms = {r1, r2}
  Beds = {b1, b2}
  Requests = {q1, q2}
  MaxCapacity = 2
  ResidentLimit = 2
  RoomEdits <- MCRoomEdits
  Opening <- MCOpening
  None = None
SYMMETRY MCSymmetry
CHECK_DEADLOCK FALSE
INVARIANTS
  RoomsTypeOK
  BedHeldOnce
  CounterCoversRoom
  NeverOverfull
PROPERTIES
  LimitPassedOnlyUncounted
  DeletedComesBackOnlyByRace
  HostelKeepsItsRooms
