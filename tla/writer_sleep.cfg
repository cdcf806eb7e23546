SPECIFICATION WriterSpec
CONSTANTS
    Uids = {"A"}
    Urls = {"u", "v"}
    Pages = 2
    ArmTime = 1
    OpTime = 1
    MaxMoves = 5
INVARIANTS
    ReadIsLoaded
