------------------------------ MODULE Payments ------------------------------
(***************************************************************************)
(* Payments and refunds: payOrder and cancelTicket on the worker threads,  *)
(* settleDuePayments on the timer thread of every server.  A settlement is *)
(* a read, and for each row it found a transaction that leases the row, a  *)
(* call to the provider without any lock, and a transaction that writes    *)
(* the answer.  A payment is identified by its idempotency key; it has at  *)
(* most one refund, because it is SUCCEEDED at most once.                  *)
(***************************************************************************)
EXTENDS TicketStore

\* What can go wrong: a commit that fails or is lost, an exception of the
\* provider, a crash, a call that outlasts its lease, and a single statement
\* that fails in a transaction that goes on, because the code takes it for one
\* that found no row.
FaultKinds == {"db", "provider", "crash", "slow", "statement"}

CONSTANTS
    Servers,      \* server processes, one timer thread each
    Keys,         \* (user_id, client_idempotency_key)
    NoServer,     \* action_token = ''
    NoPayment,
    MaxAttempts,  \* refunds.max_attempts
    Faults        \* [FaultKinds -> Nat], faults to come

ASSUME PaymentsAssumption ==
    /\ NoServer \notin Servers /\ NoPayment \notin Keys
    /\ MaxAttempts \in Nat \ {0}
    /\ Faults \in [FaultKinds -> Nat]

VARIABLES
    pay,       \* payments, by key
    refund,    \* refunds, by the key of their payment
    account,   \* what the provider will say of each payment
    repaid,    \* the payments whose money the provider returned
    settler,   \* [Servers -> what settleDuePayments is doing]
    budget     \* the faults that can still happen

payVars == <<pay, refund, account, repaid, settler, budget>>
vars == <<storeVars, payVars>>

Unsettled == {"CREATED", "PROCESSING"}

\* canTransitionPayment, and the transitions the code makes without asking it.
Transitions ==
    {<<"CREATED", "PROCESSING">>, <<"CREATED", "FAILED">>, <<"CREATED", "CLOSED">>,
     <<"PROCESSING", "SUCCEEDED">>, <<"PROCESSING", "FAILED">>, <<"PROCESSING", "CLOSED">>,
     <<"SUCCEEDED", "REFUNDING">>, <<"REFUNDING", "REFUNDED">>}

Blank == [order |-> NoRequest, state |-> "NONE", token |-> NoServer, ready |-> FALSE]
NoRefund == [state |-> "NONE", tries |-> 0, token |-> NoServer, ready |-> FALSE]
Scan(todo, refunds) ==
    [pc |-> "scan", key |-> NoPayment, expected |-> "", answer |-> "",
     todo |-> todo, refunds |-> refunds]
Idle == Scan({}, {})

Init ==
    /\ StoreInit /\ shelf = [t \in Tickets |-> "onsale"]
    /\ pay = [k \in Keys |-> Blank]
    /\ refund = [k \in Keys |-> NoRefund]
    /\ account = [k \in Keys |-> "none"]
    /\ repaid = {}
    /\ settler = [s \in Servers |-> Idle]
    /\ budget = Faults

Spend(f) == budget[f] > 0 /\ budget' = [budget EXCEPT ![f] = @ - 1]
NoFault == UNCHANGED budget

At(s, pc) == settler[s].pc = pc
Stop(s) == settler' = [settler EXCEPT ![s] = Idle]
Resume(s) == settler' = [settler EXCEPT ![s] = Scan(@.todo, @.refunds)]
Skip(s, k) == settler' = [settler EXCEPT ![s] = Scan(@.todo \ {k}, @.refunds)]
SkipRefund(s, d) == settler' = [settler EXCEPT ![s] = Scan(@.todo, @.refunds \ {d})]
Work(s, pc, k, expected) ==
    LET e == settler[s]
    IN  settler' = [settler EXCEPT ![s] =
            [e EXCEPT !.pc = pc, !.key = k, !.expected = expected,
                      !.todo = e.todo \ {k}, !.refunds = e.refunds \ {<<k, expected>>}]]

Write(k, row) == pay' = [pay EXCEPT ![k] = row]
-----------------------------------------------------------------------------
(* The handlers of the worker threads.                                     *)

\* What a provider makes of a payment.  The shipped ones keep no state: they
\* refuse an amount of 0, and a hash of the payment's number says whether it is
\* paid.  With a channel of the kind docs/PAYMENT_PROVIDERS.md describes it is
\* open until the customer pays or gives up.
Verdicts == {"refused", "paid", "failed", "open"}

\* The row of a new payment; its number settles what the provider will say.
InsertForReservation(r, k) ==
    /\ Write(k, [Blank EXCEPT !.order = r, !.state = "CREATED", !.ready = TRUE])
    /\ \E a \in Verdicts : account' = [account EXCEPT ![k] = a]

\* findActiveByResv finds none.
NoneActive(r) == \A k \in Keys : pay[k].order = r => pay[k].state \notin Unsettled

\* Mutant: payOrder does not look for a payment under way.
PayOrderAgain(r, k) ==
    /\ pay[k].state = "NONE" /\ resv[r] = "PENDING"
    /\ InsertForReservation(r, k)
    /\ UNCHANGED <<storeVars, refund, repaid, settler, budget>>

\* payOrder; a key that was used before changes nothing.  A findActiveByResv
\* that fails is taken for one that found nothing.
PayOrder(r, k) ==
    /\ pay[k].state = "NONE" /\ resv[r] = "PENDING"
    /\ IF NoneActive(r) THEN NoFault ELSE Spend("statement")
    /\ InsertForReservation(r, k)
    /\ UNCHANGED <<storeVars, refund, repaid, settler>>

\* beginFullRefund: transition to REFUNDING and insertRefund.
BeginFullRefund(k, row) ==
    /\ Write(k, [row EXCEPT !.state = "REFUNDING", !.ready = TRUE])
    /\ refund' = [refund EXCEPT ![k] = [NoRefund EXCEPT !.state = "CREATED", !.ready = TRUE]]

SucceededOf(r) == {k \in Keys : pay[k].order = r /\ pay[k].state = "SUCCEEDED"}

\* Mutant: the refund of a paid order is left out.
CancelWithoutRefund(r) ==
    /\ Cancel(r)
    /\ UNCHANGED payVars

\* cancelTicket: a paid order gets its refund in the same transaction, unless
\* lockSucceededByResv fails: then it is cancelled like one without a payment.
CancelTicket(r) ==
    /\ Cancel(r)
    /\ IF resv[r] = "CONFIRMED" /\ SucceededOf(r) # {}
       THEN \/ (\E k \in SucceededOf(r) : BeginFullRefund(k, pay[k])) /\ NoFault
            \/ UNCHANGED <<pay, refund>> /\ Spend("statement")
       ELSE UNCHANGED <<pay, refund>> /\ NoFault
    /\ UNCHANGED <<account, repaid, settler>>
-----------------------------------------------------------------------------
(* settleDuePayments: what is due, and the transaction that leases a row.  *)

\* Mutant: refunds are listed in any state.
ListDueAnyRefund(s) ==
    LET payments == {k \in Keys : pay[k].state \in Unsettled /\ pay[k].ready}
        refunds == {<<k, refund[k].state>> : k \in {l \in Keys : refund[l].ready}}
    IN  /\ settler[s] = Idle
        /\ payments # {} \/ refunds # {}
        /\ settler' = [settler EXCEPT ![s] = Scan(payments, refunds)]
        /\ UNCHANGED <<storeVars, pay, refund, account, repaid, budget>>

\* listDuePayments and listDueRefunds; one that fails lists nothing.
ListDue(s) ==
    LET payments == {k \in Keys : pay[k].state \in Unsettled /\ pay[k].ready}
        refunds == {<<k, refund[k].state>> : k \in
                    {l \in Keys : refund[l].state \in Unsettled /\ refund[l].ready}}
    IN  /\ settler[s] = Idle
        /\ payments # {} \/ refunds # {}
        /\ \/ settler' = [settler EXCEPT ![s] = Scan(payments, refunds)] /\ NoFault
           \/ /\ \/ settler' = [settler EXCEPT ![s] = Scan({}, refunds)]
                 \/ settler' = [settler EXCEPT ![s] = Scan(payments, {})]
              /\ Spend("statement")
        /\ UNCHANGED <<storeVars, pay, refund, account, repaid>>

Unpayable(k) == pay[k].state = "CREATED" /\ resv[pay[k].order] # "PENDING"
Claimable(k) == pay[k].state \in Unsettled /\ pay[k].ready /\ ~Unpayable(k)

\* Settled or leased by another server since it was listed.
SkipPayment(s, k) ==
    /\ ~Claimable(k) /\ ~Unpayable(k)
    /\ Skip(s, k)
    /\ UNCHANGED <<pay, budget>>

\* The order was given up before the provider was asked, as far as the row
\* tells; the lease of another server is not looked at.
CloseUnpayable(s, k) ==
    /\ Unpayable(k)
    /\ Write(k, [pay[k] EXCEPT !.state = "CLOSED", !.ready = TRUE])
    /\ (Skip(s, k) /\ NoFault) \/ (Stop(s) /\ Spend("db"))

\* Which call of the provider a leased payment needs.
CallFor(k) ==
    IF pay[k].state = "CREATED" THEN "create"
    ELSE IF resv[pay[k].order] = "PENDING" THEN "query" ELSE "close"

\* Mutant: the lease of another server is not looked at.
ClaimLeased(s, k) ==
    /\ pay[k].state \in Unsettled /\ ~Unpayable(k)
    /\ Write(k, [pay[k] EXCEPT !.token = s, !.ready = FALSE])
    /\ Work(s, CallFor(k), k, pay[k].state) /\ NoFault

\* claimPaymentAction: a new token, and next_action_at after the lease.
ClaimPayment(s, k) ==
    /\ Claimable(k)
    /\ Write(k, [pay[k] EXCEPT !.token = s, !.ready = FALSE])
    /\ \/ Work(s, CallFor(k), k, pay[k].state) /\ NoFault
       \/ Skip(s, k) /\ Spend("db")

\* The first transaction of a payment; it may also fail.
TakePayment(s) ==
    /\ At(s, "scan")
    /\ \E k \in settler[s].todo :
          \/ SkipPayment(s, k) \/ CloseUnpayable(s, k) \/ ClaimPayment(s, k)
          \/ Spend("db") /\ (Skip(s, k) \/ Stop(s)) /\ UNCHANGED pay
    /\ UNCHANGED <<storeVars, refund, account, repaid>>
-----------------------------------------------------------------------------
(* The calls of the provider.                                              *)

Calls == {"create", "query", "close"}

\* createPayment, queryPayment and closePayment of the shipped providers; not
\* accepted counts as FAILED, and a close says CLOSED of a paid one too.
Answer(call, a) ==
    CASE call = "create" -> IF a = "refused" THEN "FAILED" ELSE "PROCESSING"
      [] call = "query" /\ a = "paid" -> "SUCCEEDED"
      [] call = "query" /\ a = "open" -> "PROCESSING"
      [] call = "query" /\ a \notin {"paid", "open"} -> "FAILED"
      [] call = "close" -> "CLOSED"

Answers(s, answer) ==
    settler' = [settler EXCEPT ![s] = [@ EXCEPT !.pc = "settle", !.answer = answer]]

\* Mutant: an exception counts as a payment that failed.
CallProviderOnce(s) ==
    /\ settler[s].pc \in Calls
    /\ \/ Answers(s, Answer(settler[s].pc, account[settler[s].key])) /\ NoFault
       \/ Answers(s, "FAILED") /\ Spend("provider")
    /\ UNCHANGED <<storeVars, pay, refund, account, repaid>>

\* The call of settleDuePayments, with its answer or an exception.
CallProvider(s) ==
    /\ settler[s].pc \in Calls
    /\ \/ Answers(s, Answer(settler[s].pc, account[settler[s].key])) /\ NoFault
       \/ Answers(s, "EXCEPTION") /\ Spend("provider")
    /\ UNCHANGED <<storeVars, pay, refund, account, repaid>>

\* refundPayment; an exception is taken for a refusal.
CallRefund(s) ==
    /\ At(s, "refund")
    /\ \/ /\ repaid' = repaid \cup {settler[s].key}
          /\ settler' = [settler EXCEPT ![s] = [@ EXCEPT !.pc = "repaid", !.answer = "SUCCEEDED"]]
          /\ NoFault
       \/ /\ repaid' \in {repaid, repaid \cup {settler[s].key}}
          /\ settler' = [settler EXCEPT ![s] = [@ EXCEPT !.pc = "repaid", !.answer = "FAILED"]]
          /\ Spend("provider")
    /\ UNCHANGED <<storeVars, pay, refund, account>>

\* At a channel that waits for the customer: he pays, or does not.
Decide(k) ==
    /\ account[k] = "open"
    /\ account' = [account EXCEPT ![k] = "paid"] \/ account' = [account EXCEPT ![k] = "failed"]
    /\ UNCHANGED <<storeVars, pay, refund, repaid, settler, budget>>
-----------------------------------------------------------------------------
(* settleDuePayments: the transaction that writes the answer.              *)

Finals == {"SUCCEEDED", "FAILED", "CLOSED"}

\* The row is where it was when it was leased, and nobody leased it since.
Holds(s) ==
    LET p == pay[settler[s].key]
    IN  p.state = settler[s].expected /\ p.token = s

\* Released unchanged: an exception, or the provider is not done yet.
Postpones(s) ==
    \/ settler[s].answer = "EXCEPTION"
    \/ settler[s].expected = "PROCESSING" /\ settler[s].answer = "PROCESSING"

Allowed(s) == Postpones(s) \/ <<settler[s].expected, settler[s].answer>> \in Transitions

Released(s, state, ready) ==
    [pay[settler[s].key] EXCEPT !.state = state, !.token = NoServer, !.ready = ready]

Postpone(s) ==
    /\ Postpones(s)
    /\ Write(settler[s].key, Released(s, settler[s].expected, FALSE))
    /\ UNCHANGED <<storeVars, refund>>

Move(s) ==
    /\ ~Postpones(s) /\ settler[s].answer # "SUCCEEDED"
    /\ Write(settler[s].key, Released(s, settler[s].answer, settler[s].expected = "PROCESSING"))
    /\ UNCHANGED <<storeVars, refund>>

\* Mutant: a payment that comes too late is kept.
SucceedAlways(s) ==
    /\ settler[s].answer = "SUCCEEDED"
    /\ Write(settler[s].key, Released(s, "SUCCEEDED", TRUE))
    /\ Confirm(pay[settler[s].key].order) \/ UNCHANGED storeVars
    /\ UNCHANGED refund

\* The order is confirmed, or, when it cannot be any more, the money refunded.
Succeed(s) ==
    LET k == settler[s].key
        r == pay[k].order
    IN  /\ settler[s].answer = "SUCCEEDED"
        /\ \/ /\ Confirm(r)
              /\ Write(k, Released(s, "SUCCEEDED", TRUE))
              /\ UNCHANGED refund
           \/ /\ resv[r] # "PENDING" \/ due[r]
              /\ BeginFullRefund(k, Released(s, "SUCCEEDED", TRUE))
              /\ UNCHANGED storeVars

\* The UPDATE of an order that could be paid fails: it counts as not payable.
Refuse(s) ==
    /\ settler[s].answer = "SUCCEEDED"
    /\ BeginFullRefund(settler[s].key, Released(s, "SUCCEEDED", TRUE))
    /\ UNCHANGED storeVars

\* The second transaction of a payment.
Settle(s) ==
    /\ At(s, "settle")
    /\ \/ /\ ~Holds(s) \/ ~Allowed(s)
          /\ Resume(s) /\ NoFault /\ UNCHANGED <<storeVars, pay, refund>>
       \/ /\ Holds(s) /\ Allowed(s)
          /\ Postpone(s) \/ Move(s) \/ Succeed(s)
          /\ \/ Resume(s) /\ NoFault
             \/ /\ Spend("db")
                /\ IF settler[s].expected = "PROCESSING" /\ settler[s].answer \in Finals
                   THEN Stop(s) ELSE Resume(s)
       \/ /\ Holds(s) /\ Allowed(s) /\ Refuse(s)
          /\ Spend("statement") /\ (Resume(s) \/ Stop(s))
       \/ /\ Spend("db") /\ (Resume(s) \/ Stop(s))
          /\ UNCHANGED <<storeVars, pay, refund>>
    /\ UNCHANGED <<account, repaid>>
-----------------------------------------------------------------------------
(* settleDuePayments: refunds, when the payments are done.                 *)

\* Mutant: only a refund that was never tried is leased.
LeaseNewRefund(d) == refund[d[1]].state = "CREATED" /\ d[2] = "CREATED" /\ refund[d[1]].ready

\* claimRefundAction on the state that was listed.
Leasable(d) == refund[d[1]].state = d[2] /\ refund[d[1]].ready

TakeRefund(s) ==
    /\ At(s, "scan") /\ settler[s].todo = {}
    /\ \E d \in settler[s].refunds :
          \/ ~Leasable(d) /\ SkipRefund(s, d) /\ NoFault /\ UNCHANGED refund
          \/ /\ Leasable(d)
             /\ refund' = [refund EXCEPT ![d[1]] = [@ EXCEPT !.token = s, !.ready = FALSE]]
             /\ \/ Work(s, "refund", d[1], d[2]) /\ NoFault
                \/ SkipRefund(s, d) /\ Spend("db")
          \/ Spend("db") /\ (SkipRefund(s, d) \/ Stop(s)) /\ UNCHANGED refund
    /\ UNCHANGED <<storeVars, pay, account, repaid>>

HoldsRefund(s) ==
    LET f == refund[settler[s].key]
    IN  f.state = settler[s].expected /\ f.token = s

\* Mutant: the result of the provider is not looked at.
CompleteAnyRefund(s) ==
    LET k == settler[s].key
    IN  /\ pay[k].state = "REFUNDING"
        /\ refund' = [refund EXCEPT ![k] =
              [@ EXCEPT !.state = "SUCCEEDED", !.tries = refund[k].tries + 1,
                        !.token = NoServer, !.ready = TRUE]]
        /\ Write(k, [pay[k] EXCEPT !.state = "REFUNDED", !.ready = TRUE])

\* completeRefund and the transition to REFUNDED.
CompleteRefund(s) ==
    LET k == settler[s].key
    IN  /\ settler[s].answer = "SUCCEEDED"
        /\ pay[k].state = "REFUNDING"
        /\ refund' = [refund EXCEPT ![k] =
              [@ EXCEPT !.state = "SUCCEEDED", !.tries = refund[k].tries + 1,
                        !.token = NoServer, !.ready = TRUE]]
        /\ Write(k, [pay[k] EXCEPT !.state = "REFUNDED", !.ready = TRUE])

\* retryRefund: until max_attempts.
RetryRefund(s) ==
    LET k == settler[s].key
        exhausted == refund[k].tries + 1 >= MaxAttempts
    IN  /\ settler[s].answer # "SUCCEEDED"
        /\ refund' = [refund EXCEPT ![k] =
              [@ EXCEPT !.state = IF exhausted THEN "FAILED" ELSE "PROCESSING",
                        !.tries = refund[k].tries + 1, !.token = NoServer, !.ready = FALSE]]
        /\ UNCHANGED pay

\* The second transaction of a refund.
SettleRefund(s) ==
    /\ At(s, "repaid")
    /\ \/ /\ ~HoldsRefund(s)
          /\ Resume(s) /\ NoFault /\ UNCHANGED <<pay, refund>>
       \/ /\ HoldsRefund(s)
          /\ CompleteRefund(s) \/ RetryRefund(s)
          /\ (Resume(s) /\ NoFault) \/ (Stop(s) /\ Spend("db"))
       \/ /\ Spend("db") /\ (Resume(s) \/ Stop(s))
          /\ UNCHANGED <<pay, refund>>
    /\ UNCHANGED <<storeVars, account, repaid>>
-----------------------------------------------------------------------------
(* The surroundings.                                                       *)

Leased(k) == \E s \in Servers : settler[s].key = k

\* next_action_at passes: a delay, or the lease of a server that died; the
\* lease of one that is at work only when its call takes longer than 30 s.
Elapse(k) ==
    /\ \/ /\ pay[k].state \in Unsettled /\ ~pay[k].ready
          /\ pay' = [pay EXCEPT ![k].ready = TRUE] /\ UNCHANGED refund
       \/ /\ refund[k].state \in Unsettled /\ ~refund[k].ready
          /\ refund' = [refund EXCEPT ![k].ready = TRUE] /\ UNCHANGED pay
    /\ IF Leased(k) THEN Spend("slow") ELSE NoFault
    /\ UNCHANGED <<storeVars, account, repaid, settler>>

\* The transactions of the order path.
ExpireOrders == (\E R \in SUBSET Requests : Expire(R)) /\ UNCHANGED payVars
TimePasses(r) == Deadline(r) /\ UNCHANGED payVars
TakeOrder(r) == Reserve(r) /\ UNCHANGED payVars

Crash(s) ==
    /\ Spend("crash") /\ Stop(s)
    /\ UNCHANGED <<storeVars, pay, refund, account, repaid>>

Settling(s) ==
    \/ ListDue(s) \/ TakePayment(s) \/ CallProvider(s) \/ Settle(s)
    \/ TakeRefund(s) \/ CallRefund(s) \/ SettleRefund(s)

Next ==
    \/ \E s \in Servers : Settling(s) \/ Crash(s)
    \/ \E r \in Requests, k \in Keys : PayOrder(r, k)
    \/ \E r \in Requests : TakeOrder(r) \/ CancelTicket(r) \/ TimePasses(r)
    \/ \E k \in Keys : Decide(k) \/ Elapse(k)
    \/ ExpireOrders

Spec == Init /\ [][Next]_vars

\* The timer thread of every server keeps running, time passes, and overdue
\* orders are reclaimed; nobody has to pay.
Fairness ==
    /\ \A s \in Servers : WF_vars(Settling(s))
    /\ \A k \in Keys : WF_vars(Elapse(k))
    /\ \A r \in Requests : WF_vars(TimePasses(r))
    /\ WF_vars(ExpireOrders)

FairSpec == Spec /\ Fairness
-----------------------------------------------------------------------------
PaymentStates == {"NONE", "CREATED", "PROCESSING", "SUCCEEDED", "FAILED", "CLOSED",
                  "REFUNDING", "REFUNDED"}
PaymentRows == [order : Requests \cup {NoRequest}, state : PaymentStates,
                token : Servers \cup {NoServer}, ready : BOOLEAN]
RefundRows == [state : {"NONE", "CREATED", "PROCESSING", "SUCCEEDED", "FAILED"},
               tries : Nat, token : Servers \cup {NoServer}, ready : BOOLEAN]
Settlers == [pc : {"scan", "settle", "refund", "repaid"} \cup Calls,
             key : Keys \cup {NoPayment},
             expected : {"", "CREATED", "PROCESSING"},
             answer : {"", "PROCESSING", "SUCCEEDED", "FAILED", "CLOSED", "EXCEPTION"},
             todo : SUBSET Keys,
             refunds : SUBSET (Keys \X Unsettled)]

\* Rows, provider and timer threads keep their types; a thread between its two
\* transactions knows its payment and the state it had.
PaymentTypeOK ==
    /\ StoreTypeOK
    /\ pay \in [Keys -> PaymentRows]
    /\ \A k \in Keys : pay[k].state # "NONE" => pay[k].order \in Requests
    /\ refund \in [Keys -> RefundRows]
    /\ account \in [Keys -> {"none"} \cup Verdicts]
    /\ repaid \subseteq Keys
    /\ settler \in [Servers -> Settlers]
    /\ \A s \in Servers : ~At(s, "scan") =>
          settler[s].key \in Keys /\ settler[s].expected \in Unsettled
    /\ budget \in [FaultKinds -> Nat]

\* As long as no statement failed unnoticed.
NothingOverlooked == budget["statement"] = Faults["statement"]

\* No order is paid twice, whatever fails; and as long as no statement failed
\* unnoticed it has no second payment under way either, which would take the
\* customer's money to give it back (payOrder against settlement and lease).
OnePaymentPerOrder ==
    \A k, l \in Keys :
        k # l /\ pay[k].order = pay[l].order =>
            /\ pay[k].state = "SUCCEEDED" => pay[l].state # "SUCCEEDED"
            /\ NothingOverlooked /\ pay[k].state \in Unsettled \cup {"SUCCEEDED"} =>
                  pay[l].state \notin Unsettled \cup {"SUCCEEDED"}

\* No order for nothing: one that is CONFIRMED has a payment that is kept,
\* whatever fails.  No money for nothing: a payment is kept only for a CONFIRMED
\* order, as long as no statement failed unnoticed; cancelTicket keeps the
\* money of an order when lockSucceededByResv fails.
SucceededIsConfirmed ==
    /\ \A r \in Requests : resv[r] = "CONFIRMED" => SucceededOf(r) # {}
    /\ \A k \in Keys : pay[k].state = "SUCCEEDED" =>
          \/ resv[pay[k].order] = "CONFIRMED"
          \/ ~NothingOverlooked /\ resv[pay[k].order] = "CANCELLED"

\* What the comment of cancelTicket says: when a paid order is cancelled a
\* refund is requested.
PaidCancelIsRefunded ==
    \A k \in Keys : pay[k].state = "SUCCEEDED" => resv[pay[k].order] # "CANCELLED"

\* Money goes back only for a payment that is refunded, and a payment is
\* called refunded only when the provider returned the money, however often
\* the refund was sent and whatever happened to the answers; and a debt is on
\* the list of refunds to send until max_attempts answers were counted.
RefundsAreTrue ==
    /\ \A k \in Keys : k \in repaid \/ refund[k].state # "NONE" =>
          pay[k].state \in {"REFUNDING", "REFUNDED"}
    /\ \A k \in Keys : pay[k].state = "REFUNDED" =>
          k \in repaid /\ refund[k].state = "SUCCEEDED"
    /\ \A s \in Servers : settler[s].pc \in {"refund", "repaid"} =>
          pay[settler[s].key].state \in {"REFUNDING", "REFUNDED"}
    /\ \A s \in Servers : At(s, "repaid") /\ settler[s].answer = "SUCCEEDED" =>
          settler[s].key \in repaid
    /\ \A k \in Keys : pay[k].state = "REFUNDING" =>
          \/ refund[k].state \in Unsettled /\ refund[k].tries < MaxAttempts
          \/ refund[k].state = "FAILED" /\ refund[k].tries = MaxAttempts

\* While no call takes longer than its lease, no payment or refund is in the
\* hands of two servers: the provider is not asked the same thing twice at once
\* (claimPaymentAction, claimRefundAction, and rows that were listed earlier).
OneCallPerLease ==
    budget["slow"] = Faults["slow"] =>
        \A s, q \in Servers : s # q /\ settler[s].key = settler[q].key =>
            settler[s].key = NoPayment

\* A payment under way for which the provider has the money is never written
\* FAILED, whatever answers got lost before, and it is CLOSED only when its
\* order does not wait for money any more (a close is the answer to a call that
\* was chosen two transactions earlier).
NoChargeWrittenOff ==
    [][\A k \in Keys : pay[k].state = "PROCESSING" /\ account[k] = "paid" =>
          /\ pay'[k].state # "FAILED"
          /\ pay'[k].state = "CLOSED" => resv[pay[k].order] # "PENDING"]_pay

OrderMoney(state) ==
    CASE state \in Unsettled -> "asked"
      [] state = "SUCCEEDED" -> "kept"
      [] state = "REFUNDING" -> "owed"
      [] state = "REFUNDED" -> "returned"
      [] state \in {"FAILED", "CLOSED"} -> "void"
      [] state = "NONE" -> "none"

Promise == INSTANCE Purchase WITH
    Payments <- Keys,
    order <- [r \in Requests |-> OrderState(resv[r])],
    money <- [k \in Keys |-> OrderMoney(pay[k].state)],
    for <- [k \in Keys |-> pay[k].order],
    slips <- budget["statement"]

\* The two-transaction settlement with its leases, lost answers and crashes
\* keeps the promise of Purchase: order and money change together, except for
\* one slip of Purchase for each statement that fails unnoticed.
ImplementsPurchase == Promise!PurchaseSpec

\* Every payment is decided and every refund is carried out or given up, even
\* when nobody pays and nobody asks again.
PaymentsSettle ==
    \A k \in Keys :
        pay[k].state \in Unsettled \cup {"REFUNDING"} ~>
            pay[k].state \in Finals \cup {"REFUNDED"} \/ refund[k].state = "FAILED"
=============================================================================
