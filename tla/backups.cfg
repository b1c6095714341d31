CONSTANTS
    Process = {p1, p2}
    File = {f1}
    Database = db
    Keep = 1
    None = None
    Missing = Missing
    Broken = Broken
    First = 2
    MaxTime = 3
    MaxVersion = 1
    MaxCommands = 2
    MaxFailures = 1
    MaxEdits = 1
SPECIFICATION Spec
SYMMETRY Symmetric
INVARIANTS PublishedIsComplete OnlyEditsSpoilBackups SnapshotLivesWithItsCommand
PROPERTIES NewestValidSurvives 
CHECK_DEADLOCK FALSE
