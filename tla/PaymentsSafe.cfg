CONSTANTS
    r1 = r1
    t1 = t1
    k1 = k1
    k2 = k2
    s1 = s1
    s2 = s2
    NoRequest = NoRequest
    NoServer = NoServer
    NoPayment = NoPayment
    Requests = {r1}
    Tickets = {t1}
    Seats = {}
    TicketOf <- OneTicketOf
    Qty <- OneQty
    SeatsOf <- NoSeatsOf
    SeatTicket <- NoSeats
    Total <- OneTotal
    ExpireLimit = 1
    Servers = {s1, s2}
    Keys = {k1, k2}
    MaxAttempts = 2
    Faults <- MCFaults
SYMMETRY Alike
CONSTRAINT UnnoticedApart
SPECIFICATION Spec
CHECK_DEADLOCK FALSE
INVARIANTS PaymentTypeOK OnePaymentPerOrder SucceededIsConfirmed RefundsAreTrue OneCallPerLease
PROPERTIES NoChargeWrittenOff ImplementsPurchase
