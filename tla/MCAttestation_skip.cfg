SPECIFICATION Spec
CONSTANTS
    c1 = c1
    c2 = c2
    p1 = p1
    p2 = p2
    p3 = p3
    p4 = p4
    Contracts = {c1, c2}
    Providers = {p1, p2, p3, p4}
    Mute = {p4}
    Needed = 3
    Outcomes = {"error", "accepted", "simulated"}
PROPERTY SkippedWhenAttested
CHECK_DEADLOCK FALSE
