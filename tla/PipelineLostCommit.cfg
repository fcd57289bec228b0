CONSTANTS
    r1 = r1
    r2 = r2
    r3 = r3
    t1 = t1
    x1 = x1
    x2 = x2
    s1 = s1
    s2 = s2
    w1 = w1
    w2 = w2
    NoRequest = NoRequest
    Requests = {r1, r2}
    Tickets = {t1}
    Seats = {x1}
    TicketOf <- SeatTicketOf
    Qty <- SeatQty
    SeatsOf <- SeatSeatsOf
    SeatTicket <- AllSeatTicket
    Total <- SeatTotal
    ExpireLimit = 1
    Servers = {s1}
    Workers = {w1}
    HostOf <- OneHost
    Traffic = {}
    Faults <- TwoDb
    SlowConsumers = FALSE
    MaxEntries = 2
    MaxTries = 1
SPECIFICATION Spec
CHECK_DEADLOCK FALSE
INVARIANTS FailedHasNoOrder
