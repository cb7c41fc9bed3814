\* One job and one request, no fault.
CONSTANTS
    j1 = j1
    r1 = r1
    c1 = c1
    None = None
    Jobs = {j1}
    Uploads = {}
    Blank = {}
    Requests = {r1}
    Calls = {c1}
    MaxFaults = 0
SPECIFICATION Spec
INVARIANT DeletedIsGone
CHECK_DEADLOCK FALSE
