SPECIFICATION Spec
CONSTANTS
    Projects <- MCProjects
    Sources <- MCSources
    ProjectOf <- MCProjectOf
    Fetched <- MCFetched
    Texts = {t1, t2}
    Runs = {r1, r2}
    None = None
    MaxEdits = 1
SYMMETRY Interchangeable
INVARIANTS
    IngestReplacesSource
    IndexFollowsStore
CHECK_DEADLOCK FALSE
