CONSTANTS
    top = top
    shop = shop
    cdn = cdn
    img = img
    ads = ads
    a = a
    b = b
    Label <- MCLabel
    Domain <- MCDomain
    NoList = NoList
    NoLimits = NoLimits
    Limits <- MCLimits
    Broken = Broken
    Local = Local
    Nothing = Nothing
    MaxInvalid = 30
    MaxStreak = 3
    Source = {a, b}
    Fallback = {a}
    Offered <- MCOfferedFew
    Protections <- MCProtectionsOne
    Fragile = {a}
    Serialized = TRUE
    MaxDisturbances = 2
SPECIFICATION Spec
INVARIANT CounterCountsKeptRuns
PROPERTY ThirdRunIsCritical
