SPECIFICATION Spec
CONSTANTS
    Admins = {a1, a2}
    Tickets = {k1, k2}
    References = {x}
    Messages = {p1, p2, p3}
    Cap = 2
    confirmTTL = 1
    MaxTime = 2
    Null = Null
INVARIANTS WithinCap SingleUse ConfirmedAsShown
PROPERTY OnlyNewestActs
