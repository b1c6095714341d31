CONSTANTS
    Questions <- MCQuestions
    None = None
    Ends <- MCEnds
    RandomLooking = {"random"}
    WindowLength = 2
    MaxEntries = 3
    NxdomainCount = 2
    NxdomainSpan = 1
    FailureCount = 2
    FailureSpan = 2
    SpikePercent = 150
    Baseline = 1
    MinRepeats = 3
    Tolerance = 0
    PageSize = 2
    Chunk = 2
    AnomalyKeep = 1
    MaxTime = 3
    MaxQueries = 4
    MaxFailures = 1
SPECIFICATION Spec
INVARIANTS WindowReadOnce AnomaliesGoWithTheWatermark
PROPERTY AnomaliesMatchTheLog
