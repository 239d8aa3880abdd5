SPECIFICATION Spec
CONSTANTS
    Users = {s1, a1, a2}
    TicketAdmins = {a1, a2}
    Buyers = {}
    RolesOf <- MCRolesOf
    InputTypes = {"withdraw"}
    Amounts <- MCAmounts
    References = {x, y}
    Requests = {r1, r2}
    Ops = {"Create", "ApproveWithdrawal", "RecordPayment"}
    MaxOpenTickets = 3
    MaxSeq = 2
    Null = Null
SYMMETRY Symmetry
INVARIANTS LedgerRowMatchesRequest
PROPERTIES TicketIdentityStable ImplementsLedger
