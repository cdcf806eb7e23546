SPECIFICATION MCFairSpec
CONSTANTS
    Players = {1, 2, 3}
    Names = {1, 2}
    Topologies <- MCTopologies
    Configs <- MCConfigs
    Songs = {"x", "y"}
    MaxChanges = 2
    MaxTime = 8
    MaxQueue = 3
INVARIANTS
    SelectionIsSound
    ObservationIsCoherent
PROPERTIES
    SelectionIsTheUsers
    ChoiceIsSaved
