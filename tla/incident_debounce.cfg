CONSTANTS
    IncidentAfter = 3
    RecoveredAfter = 2
    Cooldown = 2
    StreakBound = 4
    MaxCrashes = 2
SPECIFICATION Spec
INVARIANTS TypeOK StateMatchesStreaks HistoryFollowsIncident
PROPERTIES TransitionsAlternate RemindersAreSpaced
