CONSTANTS
    r1 = r1
    r2 = r2
    r3 = r3
    t1 = t1
    x1 = x1
    x2 = x2
    s1 = s1
    s2 = s2
    w1 = w1
    w2 = w2
    NoRequest = NoRequest
    Requests = {r1, r2}
    Tickets = {t1}
    Seats = {x1, x2}
    TicketOf <- SeatTicketOf
    Qty <- PairQty
    SeatsOf <- PairSeatsOf
    SeatTicket <- AllSeatTicket
    Total <- PairTotal
    ExpireLimit = 1
    Servers = {s1, s2}
    Workers = {w1}
    HostOf <- OneHost
    Traffic = {"view", "add", "pay"}
    Faults <- DbAndTtl
    SlowConsumers = TRUE
    MaxEntries = 2
    MaxTries = 2
SPECIFICATION Spec
CHECK_DEADLOCK FALSE
INVARIANTS TypeOK CarriedStateIsCurrent AckedIsResolved RefusedForCause
PROPERTIES StoreSpec
