\* A job, an upload and an upload of a blank text, two deleting requests, one
\* pending call, one fault.
CONSTANTS
    j1 = j1
    u1 = u1
    u2 = u2
    r1 = r1
    r2 = r2
    c1 = c1
    None = None
    Jobs = {j1}
    Uploads = {u1, u2}
    Blank = {u2}
    Requests = {r1, r2}
    Calls = {c1}
    MaxFaults = 1
SPECIFICATION Spec
INVARIANTS DocumentsWhole ExecutedIsResolved ApprovedLeavesNone AuditAgrees
PROPERTY JobsEnd
CHECK_DEADLOCK FALSE
