SPECIFICATION Spec
CONSTANTS
    Users = {u1, u2}
    Requests = {r1, r2}
    MaxToken = 4
    Null = Null
INVARIANTS SingleSuccessor OneLivePerSession LoggedOutStays
CHECK_DEADLOCK FALSE
