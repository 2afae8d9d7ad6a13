CONSTANTS
    PopulateJobs = {j1, j2}
    Capacity = 2
    Clients = {a}
    Ids = {1, 2}
    Values = {1}
    Handlers = {h1, h2}
    Texts = {"ab", "abc", "x"}
    Isins = {"x"}
    MaxEdits = 5
SPECIFICATION ServingSpec
INVARIANTS OrderlyShutdown StatusTellsOutcome NamedErrorsHaveStatus
    CandidatesMatchField ClosedDialogIsQuiet
PROPERTIES ActsOnWhatIsSeen ShutdownEnds
CHECK_DEADLOCK FALSE
