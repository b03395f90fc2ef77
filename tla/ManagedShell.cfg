SPECIFICATION Spec
CONSTANTS
    Sessions = {s1}
    Callers = {c1, c2}
    MaxOutput = 2
    Pages = {1, 2}
    Nobody = Nobody
    NoFile = NoFile
INVARIANTS
    TypeOK
    PollsResume
    KilledMeansGone
    ManifestTellsTheEnd
PROPERTIES
    ExitIsReported
CHECK_DEADLOCK FALSE
