CONSTANTS
    Ids = {a1}
    Workers = {w1}
    Clicks = {r1}
    Sessions = {s1}
    Actions = {"create_ticket", "reject_pr"}
    Roles = {"developer"}
    MaxOutages = 0
    MaxRestarts = 0
    None = None
    Placeholder = Placeholder
SPECIFICATION Spec
INVARIANT ExecutedIsRemoved
CHECK_DEADLOCK FALSE
