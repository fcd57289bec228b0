--------------------------- MODULE OrderPipeline ---------------------------
(***************************************************************************)
(* The asynchronous order path of the backend: the worker threads that run *)
(* orderTicket, cancelTicket, viewTickets and the admin handlers, and the  *)
(* timer thread of each server process that runs processQueuedOrders,      *)
(* expirePendingOrders and refreshTicketStatus one after the other.  They  *)
(* share MySQL (TicketStore) and Redis (RedisQueue); every transaction,    *)
(* statement or command is a step, and between two of them anything can    *)
(* happen: another process, a fault, the crash of the server.              *)
(***************************************************************************)
EXTENDS TicketStore, RedisQueue

CONSTANTS
    Servers,        \* server processes, one timer thread each
    Workers,        \* worker threads
    HostOf,         \* [Workers -> Servers]
    Traffic,        \* what happens beside orderTicket
    Faults,         \* [{"db", "redis", "crash", "ttl"} -> Nat], faults to come
    SlowConsumers,  \* may a consumer hold an entry for claim_idle_ms?
    MaxEntries      \* bound on the length of the stream

ASSUME PipelineAssumption ==
    /\ HostOf \in [Workers -> Servers]
    /\ Traffic \subseteq {"cancel", "view", "add", "delete", "refresh", "pay", "overdue"}
    /\ Faults \in [{"db", "redis", "crash", "ttl"} -> Nat]
    /\ SlowConsumers \in BOOLEAN
    /\ MaxEntries \in Nat
    /\ IsFiniteSet(Servers)

VARIABLES
    job,     \* [Servers -> what the timer thread is doing]
    api,     \* [Workers -> what the worker thread is doing]
    reply,   \* the last answer to the ORDER message of each request
    budget   \* the faults that can still happen

procVars == <<job, api, reply, budget>>
vars == <<storeVars, queueVars, procVars>>

\* The configured max_retries is where the delivery counter saturates.
MaxRetries == MaxTries

Logical == {"TICKET_NOT_FOUND", "TICKET_OFFLINE", "NO_TICKET", "SEAT_TAKEN"}
NoTimer == [pc |-> "idle", msg |-> 0, val |-> "", todo |-> {}]
Expiring(R) == [pc |-> "incr", msg |-> 0, val |-> "", todo |-> R]
NoCall == [pc |-> "idle", req |-> NoRequest, vals |-> {}]

Init ==
    /\ StoreInit /\ QueueInit
    /\ job = [s \in Servers |-> NoTimer]
    /\ api = [w \in Workers |-> NoCall]
    /\ reply = [r \in Requests |-> "none"]
    /\ budget = Faults

Spend(k) == budget[k] > 0 /\ budget' = [budget EXCEPT ![k] = @ - 1]
NoFault == UNCHANGED budget

Order(s) == stream[job[s].msg]
At(s, pc) == job[s].pc = pc
Go(s, pc, val) ==
    job' = [job EXCEPT ![s] = IF pc = "idle" THEN NoTimer
                              ELSE [@ EXCEPT !.pc = pc, !.val = val]]
-----------------------------------------------------------------------------
(* processQueuedOrders, one entry at a time.                               *)

\* Mutant: an entry is claimed however recently it was delivered.
ClaimableAtOnce(s, id) == TRUE

\* XAUTOCLAIM takes an entry that was idle for claim_idle_ms.
Claimable(s, id) ==
    SlowConsumers \/ \A q \in Servers : q = s \/ job[q].msg # id

\* consume; when its reply is lost the entry is delivered to nobody.
Poll(s, id) ==
    /\ At(s, "idle") /\ Claimable(s, id)
    /\ Deliver(id)
    /\ \/ job' = [job EXCEPT ![s].pc = "find", ![s].msg = id] /\ NoFault
       \/ Spend("redis") /\ UNCHANGED job
    /\ UNCHANGED <<storeVars, api, reply>>

\* Mutant: an order that is found is acknowledged without its status.
FindOrderSilently(s) ==
    /\ At(s, "find")
    /\ \/ resv[Order(s)] # "NONE" /\ Go(s, "ack", "") /\ NoFault
       \/ resv[Order(s)] = "NONE" /\ Go(s, "txn", "") /\ NoFault
    /\ UNCHANGED <<storeVars, queueVars, api, reply>>

\* getConnection and findByRequestId before the transaction.
FindOrder(s) ==
    /\ At(s, "find")
    /\ \/ resv[Order(s)] # "NONE" /\ Go(s, "status", resv[Order(s)]) /\ NoFault
       \/ resv[Order(s)] = "NONE" /\ Go(s, "txn", "") /\ NoFault
       \/ (Go(s, "txn", "") \/ Go(s, "count", "DB_UNAVAILABLE")) /\ Spend("db")
    /\ UNCHANGED <<storeVars, queueVars, api, reply>>

\* A statement that fails: lockForUpdate and lockAndSell answer as if the row
\* were not there, adjustSeats and insert with an error of their own.
StatementFailures(r) ==
    {"TICKET_NOT_FOUND", "DB_UPDATE", "DB_INSERT"}
        \cup (IF SeatsOf[r] = {} THEN {} ELSE {"SEAT_TAKEN"})

\* Mutant: a taken seat commits what was written before it was noticed.
TransactWithoutRollback(s) ==
    LET r == Order(s)
    IN  /\ At(s, "txn")
        /\ \/ Reserve(r) /\ Go(s, "number", "")
           \/ /\ Outcome(r) = "SEAT_TAKEN" /\ Go(s, "recheck", "SEAT_TAKEN")
              /\ avail' = [avail EXCEPT ![TicketOf[r]] = @ - Qty[r]]
              /\ resv' = [resv EXCEPT ![r] = "PENDING"]
              /\ UNCHANGED <<shelf, due, numbered, seatOf>>
        /\ NoFault
        /\ UNCHANGED <<queueVars, api, reply>>

\* Mutant: the result of the COMMIT is not looked at.
TransactIgnoringCommit(s) ==
    /\ At(s, "txn")
    /\ \/ Reserve(Order(s)) /\ Go(s, "number", "") /\ NoFault
       \/ /\ Outcome(Order(s)) = "OK" /\ Go(s, "number", "")
          /\ Spend("db") /\ UNCHANGED storeVars
       \/ /\ Outcome(Order(s)) # "OK" /\ Go(s, "recheck", Outcome(Order(s)))
          /\ NoFault /\ UNCHANGED storeVars
    /\ UNCHANGED <<queueVars, api, reply>>

\* BEGIN .. COMMIT; the reply of the COMMIT can be lost.
Transact(s) ==
    /\ At(s, "txn")
    /\ \/ /\ Reserve(Order(s))
          /\ \/ Go(s, "number", "") /\ NoFault
             \/ Go(s, "recheck", "DB_UPDATE") /\ Spend("db")
       \/ /\ Outcome(Order(s)) # "OK"
          /\ Go(s, "recheck", Outcome(Order(s)))
          /\ NoFault /\ UNCHANGED storeVars
       \/ /\ Spend("db") /\ UNCHANGED storeVars
          /\ \/ Go(s, "idle", "")
             \/ \E f \in StatementFailures(Order(s)) : Go(s, "recheck", f)
    /\ UNCHANGED <<queueVars, api, reply>>

\* Mutant: what the transaction found is believed without a second look.
RecheckSkipped(s) ==
    /\ At(s, "recheck")
    /\ Go(s, IF job[s].val \in Logical THEN "fail" ELSE "count", job[s].val)
    /\ NoFault
    /\ UNCHANGED <<storeVars, queueVars, api, reply>>

\* After the ROLLBACK: did another consumer commit this request?
Recheck(s) ==
    /\ At(s, "recheck")
    /\ \/ resv[Order(s)] # "NONE" /\ Go(s, "status", resv[Order(s)]) /\ NoFault
       \/ /\ (resv[Order(s)] = "NONE" /\ NoFault) \/ Spend("db")
          /\ Go(s, IF job[s].val \in Logical THEN "fail" ELSE "count", job[s].val)
    /\ UNCHANGED <<storeVars, queueVars, api, reply>>

\* Mutant: an entry below max_retries is acknowledged instead of left pending.
CountTriesAck(s) ==
    /\ At(s, "count") /\ NoFault
    /\ Go(s, IF DeliveryCount(job[s].msg) >= MaxRetries THEN "fail" ELSE "ack", job[s].val)
    /\ UNCHANGED <<storeVars, queueVars, api, reply>>

\* deliveryCount against max_retries; an error counts as zero deliveries.
CountTries(s) ==
    /\ At(s, "count")
    /\ \/ DeliveryCount(job[s].msg) >= MaxRetries /\ Go(s, "fail", job[s].val) /\ NoFault
       \/ DeliveryCount(job[s].msg) < MaxRetries /\ Go(s, "idle", "") /\ NoFault
       \/ Spend("redis") /\ Go(s, "idle", "")
    /\ UNCHANGED <<storeVars, queueVars, api, reply>>

\* A command whose result the caller ignores: done, or lost to a fault.
Unchecked(command) ==
    \/ command /\ NoFault
    \/ UNCHANGED queueVars /\ Spend("redis")

GiveUp(s) ==
    /\ At(s, "fail")
    /\ Unchecked(TerminalFailure(job[s].msg, job[s].val))
    /\ Go(s, IF job[s].val \in Logical \ {"SEAT_TAKEN"} THEN "zero" ELSE "idle", "")
    /\ UNCHANGED <<storeVars, api, reply>>

\* "stale-high cache: fail closed"
ZeroStock(s) ==
    /\ At(s, "zero")
    /\ Unchecked(PutStock(TicketOf[Order(s)], 0))
    /\ Go(s, "idle", "")
    /\ UNCHANGED <<storeVars, api, reply>>

NumberOrder(s) ==
    /\ At(s, "number")
    /\ \/ Number(Order(s)) /\ NoFault
       \/ UNCHANGED storeVars /\ Spend("db")
    /\ Go(s, "status", "PENDING")
    /\ UNCHANGED <<queueVars, api, reply>>

PublishStatus(s) ==
    /\ At(s, "status")
    /\ Unchecked(SetStatus(Order(s), job[s].val))
    /\ Go(s, "ack", "")
    /\ UNCHANGED <<storeVars, api, reply>>

AckOrder(s) ==
    /\ At(s, "ack")
    /\ Unchecked(Acknowledge(job[s].msg))
    /\ Go(s, "idle", "")
    /\ UNCHANGED <<storeVars, api, reply>>
-----------------------------------------------------------------------------
(* The other jobs of the timer thread.                                     *)

\* expirePendingOrders up to its COMMIT, then one incr per order.
ExpireOrders(s) ==
    /\ At(s, "idle")
    /\ \E R \in SUBSET Requests :
          /\ Expire(R)
          /\ \/ job' = [job EXCEPT ![s] = Expiring(R)] /\ NoFault
             \/ Spend("db") /\ UNCHANGED job
    /\ UNCHANGED <<queueVars, api, reply>>

IncrExpired(s) ==
    /\ At(s, "incr")
    /\ \E r \in job[s].todo :
          /\ Unchecked(IncrStock(TicketOf[r], Qty[r]))
          /\ job' = [job EXCEPT ![s] = IF @.todo = {r} THEN NoTimer
                                       ELSE Expiring(@.todo \ {r})]
    /\ UNCHANGED <<storeVars, api, reply>>

RefreshTicketStatus(s) ==
    /\ "refresh" \in Traffic /\ At(s, "idle")
    /\ \E T \in SUBSET {t \in Tickets : shelf[t] = "onsale"} : T # {} /\ TakeOffline(T)
    /\ UNCHANGED <<queueVars, procVars>>

\* The steps of an entry or an expiry that is under way.
Work(s) ==
    \/ FindOrder(s) \/ Transact(s) \/ Recheck(s) \/ CountTries(s) \/ GiveUp(s)
    \/ ZeroStock(s) \/ NumberOrder(s) \/ PublishStatus(s) \/ AckOrder(s)
    \/ IncrExpired(s)
-----------------------------------------------------------------------------
(* The handlers of the worker threads.                                     *)

Free(w) == api[w].pc = "idle"
Call(w, pc, r, V) == api' = [api EXCEPT ![w] = [pc |-> pc, req |-> r, vals |-> V]]
Return(w) == api' = [api EXCEPT ![w] = NoCall]
Answer(r, a) == reply' = [reply EXCEPT ![r] = a]

\* orderTicket up to its first enqueue.  Unavailable, a lost command and a
\* lost reply all lead to the cold path.
OrderTicket(w, r) ==
    /\ Free(w) /\ Len(stream) < MaxEntries
    /\ \/ /\ Enqueue(r) /\ NoFault
          /\ IF Admission(r) = "UNAVAILABLE"
             THEN Call(w, "cold", r, {}) /\ UNCHANGED reply
             ELSE UNCHANGED api /\ Answer(r, Admission(r))
       \/ /\ Enqueue(r) \/ UNCHANGED queueVars
          /\ Spend("redis")
          /\ Call(w, "cold", r, {}) /\ UNCHANGED reply
    /\ UNCHANGED <<storeVars, job>>

\* findDetail (status != 0) of the cold path.
ColdRead(w) ==
    LET r == api[w].req
        t == TicketOf[r]
    IN  /\ api[w].pc = "cold"
        /\ \/ /\ shelf[t] = "onsale" /\ NoFault
              /\ Call(w, "init", r, {<<t, avail[t]>>}) /\ UNCHANGED reply
           \/ /\ (shelf[t] # "onsale" /\ NoFault) \/ Spend("db")
              /\ Return(w) /\ Answer(r, "UNAVAILABLE")
        /\ UNCHANGED <<storeVars, queueVars, job>>

ColdInit(w) ==
    LET r == api[w].req
    IN  /\ api[w].pc = "init"
        /\ \/ /\ \E v \in api[w].vals : InitializeStock(v[1], v[2])
              /\ Call(w, "again", r, {}) /\ NoFault /\ UNCHANGED reply
           \/ /\ UNCHANGED queueVars /\ Spend("redis")
              /\ Return(w) /\ Answer(r, "UNAVAILABLE")
        /\ UNCHANGED <<storeVars, job>>

ColdEnqueue(w) ==
    LET r == api[w].req
    IN  /\ api[w].pc = "again" /\ Len(stream) < MaxEntries
        /\ \/ Enqueue(r) /\ Answer(r, Admission(r)) /\ NoFault
           \/ /\ Enqueue(r) \/ UNCHANGED queueVars
              /\ Answer(r, "UNAVAILABLE") /\ Spend("redis")
        /\ Return(w)
        /\ UNCHANGED <<storeVars, job>>

\* cancelTicket up to its COMMIT, then incr; no incr when the reply is lost.
CancelTicket(w, r) ==
    /\ "cancel" \in Traffic /\ Free(w)
    /\ Cancel(r)
    /\ \/ Call(w, "incr", r, {}) /\ NoFault
       \/ UNCHANGED api /\ Spend("db")
    /\ UNCHANGED <<queueVars, job, reply>>

IncrCancelled(w) ==
    /\ api[w].pc = "incr"
    /\ Unchecked(IncrStock(TicketOf[api[w].req], Qty[api[w].req]))
    /\ Return(w)
    /\ UNCHANGED <<storeVars, job, reply>>

\* viewTickets on a miss of the list cache: read the rows, then warm the keys.
ViewTickets(w) ==
    /\ "view" \in Traffic /\ Free(w)
    /\ \E t \in Tickets : shelf[t] = "onsale"
    /\ Call(w, "refill", NoRequest,
            {<<t, avail[t]>> : t \in {u \in Tickets : shelf[u] = "onsale"}})
    /\ UNCHANGED <<storeVars, queueVars, job, reply, budget>>

\* adminAddTicket: INSERT, then set(total_seats).
AdminAddTicket(w, t) ==
    /\ "add" \in Traffic /\ Free(w)
    /\ AddTicket(t)
    /\ Call(w, "refill", NoRequest, {<<t, Total[t]>>})
    /\ UNCHANGED <<queueVars, job, reply, budget>>

\* adminDeleteTicket: setOffline, then set(0).
AdminDeleteTicket(w, t) ==
    /\ "delete" \in Traffic /\ Free(w)
    /\ TakeOffline({t})
    /\ Call(w, "refill", NoRequest, {<<t, 0>>})
    /\ UNCHANGED <<queueVars, job, reply, budget>>

\* One RedisStockCache::set of the handlers above.
Refill(w) ==
    /\ api[w].pc = "refill"
    /\ \E v \in api[w].vals :
          /\ Unchecked(PutStock(v[1], v[2]))
          /\ IF api[w].vals = {v} THEN Return(w)
             ELSE Call(w, "refill", NoRequest, api[w].vals \ {v})
    /\ UNCHANGED <<storeVars, job, reply>>
-----------------------------------------------------------------------------
(* The surroundings.                                                       *)

\* The payment of an order settles, or its time to pay runs out.
Elapse ==
    /\ \E r \in Requests :
          \/ "pay" \in Traffic /\ Confirm(r)
          \/ "overdue" \in Traffic /\ Deadline(r)
    /\ UNCHANGED <<queueVars, procVars>>

ForgetStatus ==
    /\ \E r \in Requests : StatusExpires(r)
    /\ Spend("ttl")
    /\ UNCHANGED <<storeVars, job, api, reply>>

\* A server dies with what its threads were doing and is started again.
Crash(s) ==
    /\ Spend("crash")
    /\ job' = [job EXCEPT ![s] = NoTimer]
    /\ api' = [w \in Workers |-> IF HostOf[w] = s THEN NoCall ELSE api[w]]
    /\ UNCHANGED <<storeVars, queueVars, reply>>

WorkerStep(w) ==
    \/ \E r \in Requests : OrderTicket(w, r) \/ CancelTicket(w, r)
    \/ \E t \in Tickets : AdminAddTicket(w, t) \/ AdminDeleteTicket(w, t)
    \/ ColdRead(w) \/ ColdInit(w) \/ ColdEnqueue(w) \/ IncrCancelled(w)
    \/ ViewTickets(w) \/ Refill(w)

TimerStep(s) ==
    \/ \E id \in Entries : Poll(s, id)
    \/ Work(s) \/ ExpireOrders(s) \/ RefreshTicketStatus(s)

Next ==
    \/ \E s \in Servers : TimerStep(s) \/ Crash(s)
    \/ \E w \in Workers : WorkerStep(w)
    \/ Elapse \/ ForgetStatus

Spec == Init /\ [][Next]_vars

\* The timer thread runs every job again and again (WF: it never stops inside
\* one; SF: polls and expiries alternate on it), and an entry that is left
\* pending becomes idle for claim_idle_ms and is claimed in its turn.
Fairness ==
    /\ \A s \in Servers : WF_vars(Work(s)) /\ SF_vars(ExpireOrders(s))
    /\ \A id \in 1 .. MaxEntries :
          SF_vars(id \in Entries /\ \E s \in Servers : Poll(s, id))

FairSpec == Spec /\ Fairness
-----------------------------------------------------------------------------
Jobs == [pc : {"idle", "find", "txn", "recheck", "count", "fail", "zero",
              "number", "status", "ack", "incr"},
         msg : Nat, val : States \cup Reasons \cup {""}, todo : SUBSET Requests]
Calls == [pc : {"idle", "cold", "init", "again", "incr", "refill"},
          req : Requests \cup {NoRequest}, vals : SUBSET (Tickets \X Nat)]

\* Rows, keys and threads keep their types.
TypeOK ==
    /\ StoreTypeOK /\ QueueTypeOK
    /\ job \in [Servers -> Jobs]
    /\ api \in [Workers -> Calls]
    /\ reply \in [Requests -> {"none", "QUEUED", "DUPLICATE", "NO_TICKET", "UNAVAILABLE"}]
    /\ budget \in [{"db", "redis", "crash", "ttl"} -> Nat]

\* The program counters of a timer thread that holds an entry.
HoldsEntry == {"find", "txn", "recheck", "count", "fail", "zero", "number", "status", "ack"}

\* The states that an order in state s may have been in.
Past(s) ==
    CASE s = "NONE" -> {} [] s = "PENDING" -> {s} [] s = "CONFIRMED" -> {"PENDING", s}
      [] s = "CANCELLED" -> {"PENDING", "CONFIRMED", s} [] s = "EXPIRED" -> {"PENDING", s}

TimerIsCurrent(s) ==
    /\ job[s].pc \in HoldsEntry => job[s].msg \in 1 .. last
    /\ job[s].pc \in {"recheck", "count", "fail"} => job[s].val \in Reasons
    /\ job[s].pc = "status" => job[s].val \in Past(resv[Order(s)])
    /\ job[s].pc \in {"number", "status", "ack"} => resv[Order(s)] # "NONE"

\* What ORDER_QUERY says of a request names no state its order never was in.
AnswerIsPast(r) == status[r] \in {"NONE", "QUEUED", "FAILED"} \cup Past(resv[r])

\* What a thread carries from one step to the next stays right whatever the
\* others do: the entry a timer holds was delivered, once it has committed
\* the order of that entry, or found it, the order is there for good, and the
\* state it read then and publishes later is one the order has been in.
CarriedStateIsCurrent ==
    /\ \A s \in Servers : TimerIsCurrent(s)
    /\ \A r \in Requests : AnswerIsPast(r)
    /\ \A w \in Workers :
          api[w].pc \in {"cold", "init", "again", "incr"} => api[w].req \in Requests

Resolved(id) == resv[stream[id]] # "NONE" \/ dead[id] # <<>>

\* No accepted order gets lost: an entry leaves the pending list only when its
\* reservation is in the database or it was dead-lettered.  It takes a fault
\* between any two steps of processQueuedOrders to break it.
AckedIsResolved == \A id \in Acked : Resolved(id)

\* Stock is given back once per entry: terminalFailure compensates and
\* acknowledges in one script, so a retried or recovered entry cannot
\* compensate again.
CompensatedOnce == \A id \in Entries : Len(dead[id]) <= 1

\* The orders that ever had a row.
Placed == {r \in Requests : resv[r] # "NONE"}

\* What may have made the order transaction refuse r, and is so for good: the
\* ticket was taken off sale, or other orders took the admissions or a seat.
\* No ticket that an accepted order names is ever missing.
Founded(reason, r) ==
    LET t == TicketOf[r]
    IN  CASE reason = "TICKET_OFFLINE"   -> shelf[t] = "offline"
          [] reason = "NO_TICKET"        -> Total[t] < Cardinality(Units(Placed \cup {r}, t))
          [] reason = "SEAT_TAKEN"       ->
                \E x \in SeatsOf[r] : SeatTicket[x] # t \/ \E q \in Placed \ {r} : x \in SeatsOf[q]
          [] reason = "TICKET_NOT_FOUND" -> FALSE
          [] OTHER                       -> TRUE

Unfounded == {p \in Logical \X Requests : ~Founded(p[1], p[2])}

\* The entries that were given up without a cause.
Misjudged == {id \in Entries : \E i \in 1 .. Len(dead[id]) : <<dead[id][i], stream[id]>> \in Unfounded}

\* An order is given up for a reason.  For an infrastructure error it is after
\* max_retries deliveries, however consumers crash and reclaim in between; for
\* a state of the tables it is because the tables are so, except that a failed
\* statement is read as a missing row: that costs at most one order each.
RefusedForCause ==
    /\ \A id \in Entries : \A i \in 1 .. Len(dead[id]) :
          dead[id][i] \notin Logical => tries[id] >= MaxRetries
    /\ Cardinality(Misjudged) + budget["db"] <= Faults["db"]

\* ORDER_QUERY never says FAILED of an order that exists: a purchase that is
\* reported failed does not hold admissions (docs: failure returns FAILED).
FailedHasNoOrder ==
    \A r \in Requests : status[r] = "FAILED" => resv[r] = "NONE"

Prededucted == {r \in Undecided : resv[r] = "NONE"}

\* The cached stock never promises more than the database has left after the
\* orders still in the stream: no pre-deduction is forgotten or given back
\* twice (enqueue, terminalFailure, incr and initializeStock against the
\* transactions that change available_seats).
StockRemembersQueue ==
    \A t \in Tickets : stock[t] # NoKey =>
        stock[t] + Cardinality(Units(Prededucted, t)) <= avail[t]

\* Every entry is settled in the end: committed or dead-lettered, and
\* acknowledged, whatever finite number of faults and crashes delays it.
EntriesSettle ==
    \A id \in 1 .. MaxEntries : id \in Entries ~> id \in Acked

\* A client that polls ORDER_QUERY stops seeing QUEUED.
AnswerArrives ==
    \A r \in Requests : status[r] = "QUEUED" ~> status[r] # "QUEUED"

\* Seats of an order that was not paid in time return to sale.
OverdueIsReclaimed ==
    \A r \in Requests : resv[r] = "PENDING" /\ due[r] ~> resv[r] # "PENDING"
=============================================================================
