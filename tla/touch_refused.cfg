CONSTANTS
  Tracks = {"t1"}
  Revisions = {"r1"}
  Length <- MCTwoPages
  RoomLists <- MCOneRoom
  First <- MCFirstRoom
  PageSize = 1
  MaxMoves = 2
  Refusals = TRUE
  SlowReads = TRUE
SPECIFICATION TapSpec
PROPERTIES
  PageIsAskedFor
