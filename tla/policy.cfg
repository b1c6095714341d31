CONSTANTS
    top = top
    shop = shop
    cdn = cdn
    ads = ads
    kids = kids
    s1 = s1
    s2 = s2
    Label <- MCLabel
    Domain <- MCDomain
    Group <- MCGroup
    Default = Default
    All = All
    Pattern <- MCPattern
    Matches <- MCMatches
    Configurations <- MCConfigurations
    StoredSource = {s1, s2}
    Lists <- MCLists
    NoArtifact = NoArtifact
    Unreadable = Unreadable
    Never = Never
    NoAnswer = NoAnswer
    MaxLength = 6
    MaxTime = 2
SPECIFICATION PolicySpec
INVARIANTS AcceptedForGood DenySparesProtected NoListSkippedSilently
PROPERTIES OnlyExpiryOfAllowBlocks
