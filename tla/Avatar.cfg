\* Two scenes, of which the first is searched for and the second closes the
\* demo, and two calls of start().
CONSTANTS
    Starts = {s1, s2}
    Plays = {p1, p2}
    None = None
    NumScenes = 2
    Searching = {1}
    Closing = {2}
    MaxEvents = 3
SPECIFICATION Spec
INVARIANTS
    NothingLeftBehind
    ScriptInOrder
SYMMETRY Interchangeable
CHECK_DEADLOCK FALSE
