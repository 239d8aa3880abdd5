SPECIFICATION Spec
CONSTANTS
    Users = {s1, a1}
    TicketAdmins = {a1}
    Buyers = {}
    RolesOf <- MCRolesOf
    InputTypes = {"withdraw"}
    Amounts <- MCAmounts
    References = {x}
    Requests = {r1, r2}
    Ops = {"Create", "Claim", "ApproveWithdrawal", "RecordPayment"}
    MaxOpenTickets = 3
    MaxSeq = 1
    Null = Null
SYMMETRY Symmetry
INVARIANT LedgerAndTicketTogether
