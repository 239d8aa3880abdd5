SPECIFICATION Spec
CONSTANTS
    Users = {s1, a1, a2}
    TicketAdmins = {a1, a2}
    Buyers = {a1}
    RolesOf <- MCRolesOf
    InputTypes = {"withdraw", "seller-verification"}
    Amounts <- MCAmounts
    References = {x}
    Requests = {r1, r2}
    Ops = {"Create", "Claim", "Handoff", "SetResolution", "Transition", "ApproveWithdrawal", "RecordPayment", "ApproveSeller"}
    MaxOpenTickets = 3
    MaxSeq = 1
    Null = Null
SYMMETRY Symmetry
INVARIANTS PaidHasLedgerRow ClosedHasResolution OpenerRecusal
