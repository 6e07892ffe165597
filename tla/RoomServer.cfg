SPECIFICATION Spec
CONSTANTS
  Players = {p1, p2, p3, p4}
  Rooms = {room1, room2, room3}
  NoRoom = noRoom
  Absent = absent
INVARIANTS
  MapsAgree
PROPERTIES
  StartMissedOnlyByDeparture
  KeepsPromise
