SPECIFICATION Spec
CONSTANTS
    Users = {s1, a1}
    TicketAdmins = {a1}
    Buyers = {}
    RolesOf <- MCRolesOf
    InputTypes = {"withdraw", "general", "regional"}
    Amounts <- MCAmounts
    References = {x}
    Requests = {r1}
    Ops = {"Create", "Claim", "SetResolution", "Transition", "ApproveWithdrawal", "RecordPayment"}
    MaxOpenTickets = 2
    MaxSeq = 3
    Null = Null
SYMMETRY Symmetry
INVARIANTS LedgerAndTicketTogether WithinActiveLimits
PROPERTIES StatusFollowsWorkflow
