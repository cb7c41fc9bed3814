CONSTANTS
    h1 = h1  h2 = h2
    f1 = f1  f2 = f2
    p1 = p1  p2 = p2
    x1 = x1  x2 = x2
    sdlc = sdlc  other = other
    board = board  assign = assign  search = search
    c1 = c1  c2 = c2
    Hosts <- MCHosts
    Flows <- MCFlows
    HostOf <- MCHostOf
    Posts = {p1, p2}
    Exchanges = {x1, x2}
    None = None
    Servers = {sdlc, other}
    Home = sdlc
    Tools = {board, assign, search}
    ServerOf <- MCServerOf
    WriteTools = {assign}
    Calls = {c1, c2}
    MaxEvents = 5
SYMMETRY MCSymmetry
SPECIFICATION Spec
INVARIANTS OneCodePerConsent IndexNamesOpenConsent TokensAreConsented ListFollowsConfig HealsWhenListed
CHECK_DEADLOCK FALSE
