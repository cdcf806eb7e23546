CONSTANTS
  Tracks = {"t1", "t2"}
  Revisions = {"r1", "r2"}
  Length <- MCLength
  RoomLists <- MCRoomLists
  First <- MCFirst
  PageSize = 1
  MaxMoves = 1
  Refusals = TRUE
  SlowReads = FALSE
SPECIFICATION Spec
INVARIANTS
  ActsOnWhatItBegan
  AdmittedForWhatIsThere
  GestureOfThisScreen
PROPERTIES
  PageInRange
