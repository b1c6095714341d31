CONSTANTS
    Process = {p1, p2}
    Sha = {s1, s2, s3}
    NoSha = NoSha
    Serialized = FALSE
    MaxFailures = 0
SPECIFICATION Spec
INVARIANTS ReferencedArtifactsPresent
SYMMETRY Symmetric
