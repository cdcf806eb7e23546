SPECIFICATION MCSpec
CONSTANTS
    MaxU32 = 2
    Requests <- SessionRequests
    Speakers <- Players
    PlanRequests <- MCRequests
    Contexts <- MCContexts
    Reconfigured <- MCReconfigured
    PlanSpeakers <- MCSpeakers
    MaxTampers = 1
    MaxJobs = 2
INVARIANTS
    PlanIsFaithful
    PolicyAsAdmitted
    SuccessIsTrue
    PlaceIsTheOneChosen
    OnlyTheTarget
PROPERTIES
    ImplementsOutcome
