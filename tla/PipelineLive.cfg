CONSTANTS
    r1 = r1
    r2 = r2
    r3 = r3
    t1 = t1
    x1 = x1
    x2 = x2
    s1 = s1
    s2 = s2
    w1 = w1
    w2 = w2
    NoRequest = NoRequest
    Requests = {r1, r3}
    Tickets = {t1}
    Seats = {x1}
    TicketOf <- FloorTicketOf
    Qty <- FloorQty
    SeatsOf <- FloorSeatsOf
    SeatTicket <- AllSeatTicket
    Total <- FloorTotal
    ExpireLimit = 1
    Servers = {s1}
    Workers = {w1}
    HostOf <- OneHost
    Traffic = {"overdue"}
    Faults <- CrashAndDb
    SlowConsumers = FALSE
    MaxEntries = 2
    MaxTries = 2
SPECIFICATION FairSpec
CHECK_DEADLOCK FALSE
PROPERTIES EntriesSettle AnswerArrives OverdueIsReclaimed
