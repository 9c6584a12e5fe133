SPECIFICATION Spec
CONSTANTS
    u1 = u1
    u2 = u2
    u3 = u3
    u4 = u4
    Uploads = {u1, u2, u3, u4}
    Provers = {u1}
    Size <- MCSize
    MaxMessageSize = 3
    Outcomes = {"error", "rejected", "accepted", "simulated"}
INVARIANTS TypeOK SentInOrder QueueHoldsTheRest AnswerIsOwn NoPanic
SYMMETRY SizeOneSymmetry
CHECK_DEADLOCK FALSE
