SPECIFICATION BotSpec
CONSTANTS
    p1 = p1
    p2 = p2
    Null = Null
    TicketTypes = {"purchase", "dispute", "general", "withdraw"}
    Processes = {p1, p2}
INVARIANTS OneGateway ReadyHolder RemindsOfWork CloseReachable
PROPERTIES QueueAnnounced
