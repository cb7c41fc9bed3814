CONSTANTS
    Ids = {a1, a2}
    Workers = {w1, w2}
    Clicks = {r1, r2, r3}
    Sessions = {s1}
    Actions = {"create_ticket", "reject_pr", "release_approval"}
    Roles = {"developer", "manager"}
    MaxOutages = 1
    MaxRestarts = 1
    None = None
    Placeholder = Placeholder
SPECIFICATION Spec
INVARIANTS
    SettledNeverFound
    PendingUntilSettled
    NotFoundMeansSettled
    WriteIsAuthorised
    SlackOutcomePosted
    PlaceholdersCleared
CONSTRAINT Scenario
SYMMETRY Interchangeable
CHECK_DEADLOCK FALSE
