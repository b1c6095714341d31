CONSTANTS
    Process = {p1, p2}
    Sha = {s1, s2, s3, s4}
    NoSha = NoSha
    Serialized = TRUE
    MaxFailures = 3
SPECIFICATION Spec
INVARIANTS TypeOK ReferencedArtifactsPresent
PROPERTIES SwitchOnlyToIntact PruneLeavesNoOrphan ImplementsVersionStore
SYMMETRY Symmetric
