SPECIFICATION MCFairSpec
CONSTANTS
    Uids = {"A", "B"}
    Urls = {"u", "v"}
    Pages = 2
    ArmTime = 1
    OpTime = 1
    MaxMoves = 5
    Sizes <- Tags
    Cards <- NewCards
    Originals <- UsedCards
    MaxWrites = 2
    Clients = {"a", "b", "c"}
    Leavers = {"a"}
    Ids = {1, 2, 3}
    Pieces = 2
    Limit = 0
    maxDrafts = 2
    DraftTime = 1
    MaxTime = 1
INVARIANTS
    SessionsMatch
    WritesAreSafe
    AnswersAreOwn
PROPERTIES
    WritesAsAsked
    NobodyHoldsForEver
