--------------------------- MODULE PaymentsProofs ---------------------------
(***************************************************************************)
(* Proofs about payments and refunds, for every number of orders, keys and *)
(* servers, every number of faults and every limit of attempts.            *)
(***************************************************************************)
EXTENDS Payments, TicketStoreProofs

USE DEF FaultKinds

-----------------------------------------------------------------------------
(* The rows and the settlers.                                              *)

SettlerOK(e) == e \in Settlers /\ (e.pc # "scan" => e.key \in Keys /\ e.expected \in Unsettled)
RowOK(p) == p \in PaymentRows /\ (p.state # "NONE" => p.order \in Requests)

LEMMA RowTypes ==
    PaymentTypeOK <=>
        /\ StoreTypeOK
        /\ pay \in [Keys -> PaymentRows] /\ \A k \in Keys : RowOK(pay[k])
        /\ refund \in [Keys -> RefundRows]
        /\ account \in [Keys -> {"none"} \cup Verdicts]
        /\ repaid \subseteq Keys
        /\ settler \in [Servers -> Settlers] /\ \A s \in Servers : SettlerOK(settler[s])
        /\ budget \in [FaultKinds -> Nat]
BY DEF PaymentTypeOK, RowOK, SettlerOK, At

LEMMA ScanOK ==
    ASSUME NEW T \in SUBSET Keys, NEW D \in SUBSET (Keys \X Unsettled)
    PROVE  SettlerOK(Scan(T, D))
BY DEF SettlerOK, Scan, Settlers

LEMMA BudgetKept ==
    ASSUME budget \in [FaultKinds -> Nat],
           NEW f \in FaultKinds, Spend(f) \/ NoFault
    PROVE  budget' \in [FaultKinds -> Nat]
<1>1. CASE NoFault
  BY <1>1 DEF NoFault
<1>2. CASE Spend(f)
  <2>1. budget[f] - 1 \in Nat
    BY <1>2 DEF Spend
  <2>2. QED
    BY <1>2, <2>1 DEF Spend
<1>3. QED
  BY <1>1, <1>2

\* Going on, stopping and skipping all lead back to the scan.
LEMMA BackToScan ==
    ASSUME PaymentTypeOK, NEW s \in Servers, NEW k, NEW d,
           Resume(s) \/ Stop(s) \/ Skip(s, k) \/ SkipRefund(s, d)
    PROVE  \E T \in SUBSET Keys, D \in SUBSET (Keys \X Unsettled) :
              settler' = [settler EXCEPT ![s] = Scan(T, D)]
<1>1. settler[s].todo \in SUBSET Keys /\ settler[s].refunds \in SUBSET (Keys \X Unsettled)
  BY DEF PaymentTypeOK, Settlers
<1>2. CASE Stop(s)
  BY <1>2 DEF Stop, Idle
<1>3. CASE Resume(s)
  BY <1>1, <1>3 DEF Resume
<1>4. CASE Skip(s, k)
  <2>1. settler[s].todo \ {k} \in SUBSET Keys
    BY <1>1
  <2>2. QED
    BY <1>1, <1>4, <2>1 DEF Skip
<1>5. CASE SkipRefund(s, d)
  <2>1. settler[s].refunds \ {d} \in SUBSET (Keys \X Unsettled)
    BY <1>1
  <2>2. QED
    BY <1>1, <1>5, <2>1 DEF SkipRefund
<1>6. QED
  BY <1>2, <1>3, <1>4, <1>5

-----------------------------------------------------------------------------
(* Type correctness.                                                       *)

RowsKeep == pay' \in [Keys -> PaymentRows] /\ \A k \in Keys : RowOK(pay'[k])
RefundsKeep == refund' \in [Keys -> RefundRows]
SettlersKeep == settler' \in [Servers -> Settlers] /\ \A s \in Servers : SettlerOK(settler'[s])
BudgetKeeps == budget' \in [FaultKinds -> Nat]

\* What the provider has, and what it still has after a step.
Accounts == {"none"} \cup Verdicts
ProviderKeeps == account' \in [Keys -> Accounts] /\ repaid' \subseteq Keys

TypesKeep ==
    [StoreNext]_storeVars /\ RowsKeep /\ RefundsKeep /\ SettlersKeep /\ BudgetKeeps /\ ProviderKeeps

LEMMA TypesKeepTypeOK ==
    ASSUME PaymentTypeOK, TypesKeep PROVE PaymentTypeOK'
<1>1. StoreTypeOK'
  BY StoreStepTypeOK DEF PaymentTypeOK, TypesKeep
<1>2. QED
  BY <1>1 DEF PaymentTypeOK, TypesKeep, RowsKeep, RefundsKeep, SettlersKeep, BudgetKeeps,
     ProviderKeeps, Accounts, RowOK, SettlerOK, At

\* What a step leaves alone keeps its type.
LEMMA Untouched ==
    ASSUME PaymentTypeOK
    PROVE  /\ pay' = pay => RowsKeep
           /\ refund' = refund => RefundsKeep
           /\ settler' = settler => SettlersKeep
           /\ budget' = budget => BudgetKeeps
           /\ account' = account /\ repaid' = repaid => ProviderKeeps
           /\ UNCHANGED storeVars => [StoreNext]_storeVars
BY RowTypes DEF RowsKeep, RefundsKeep, SettlersKeep, BudgetKeeps, ProviderKeeps, Accounts

LEMMA WriteKeeps ==
    ASSUME PaymentTypeOK, NEW k \in Keys, NEW row, RowOK(row), Write(k, row)
    PROVE  RowsKeep
BY RowTypes DEF RowsKeep, Write, RowOK

LEMMA RefundKeeps ==
    ASSUME PaymentTypeOK, NEW k \in Keys, NEW row \in RefundRows,
           refund' = [refund EXCEPT ![k] = row]
    PROVE  RefundsKeep
BY RowTypes DEF RefundsKeep

LEMMA EntryKeeps ==
    ASSUME PaymentTypeOK, NEW s \in Servers, NEW e, SettlerOK(e),
           settler' = [settler EXCEPT ![s] = e]
    PROVE  SettlersKeep
BY RowTypes DEF SettlersKeep, SettlerOK

LEMMA BackKeeps ==
    ASSUME PaymentTypeOK, NEW s \in Servers, NEW k, NEW d,
           Resume(s) \/ Stop(s) \/ Skip(s, k) \/ SkipRefund(s, d)
    PROVE  SettlersKeep
<1>1. PICK T \in SUBSET Keys, D \in SUBSET (Keys \X Unsettled) :
          settler' = [settler EXCEPT ![s] = Scan(T, D)]
  BY BackToScan
<1>2. QED
  BY <1>1, ScanOK, EntryKeeps

LEMMA WorkKeeps ==
    ASSUME PaymentTypeOK, NEW s \in Servers, NEW pc \in Calls \cup {"refund"},
           NEW k \in Keys, NEW expected \in Unsettled, Work(s, pc, k, expected)
    PROVE  SettlersKeep
<1> DEFINE e == [settler[s] EXCEPT !.pc = pc, !.key = k, !.expected = expected,
                                   !.todo = settler[s].todo \ {k},
                                   !.refunds = settler[s].refunds \ {<<k, expected>>}]
<1>1. settler[s] \in Settlers
  BY DEF PaymentTypeOK
<1>2. SettlerOK(e)
  BY <1>1 DEF SettlerOK, Settlers, Unsettled
<1>3. settler' = [settler EXCEPT ![s] = e]
  BY DEF Work
<1> HIDE DEF e
<1>4. QED
  BY <1>2, <1>3, EntryKeeps

LEMMA AnswerKeeps ==
    ASSUME PaymentTypeOK, NEW s \in Servers, NEW pc \in {"settle", "repaid"},
           NEW a \in {"PROCESSING", "SUCCEEDED", "FAILED", "CLOSED", "EXCEPTION"},
           ~At(s, "scan"),
           settler' = [settler EXCEPT ![s] = [@ EXCEPT !.pc = pc, !.answer = a]]
    PROVE  SettlersKeep
<1> DEFINE e == [settler[s] EXCEPT !.pc = pc, !.answer = a]
<1>1. settler[s] \in Settlers /\ SettlerOK(settler[s])
  BY RowTypes
<1>2. SettlerOK(e)
  BY <1>1 DEF SettlerOK, Settlers, At
<1>3. QED
  BY <1>2, EntryKeeps

LEMMA BudgetSpent ==
    ASSUME PaymentTypeOK, NEW f \in FaultKinds, Spend(f) \/ NoFault
    PROVE  BudgetKeeps
BY BudgetKept DEF BudgetKeeps, PaymentTypeOK

LEMMA BlankRows == Blank \in PaymentRows /\ NoRefund \in RefundRows
BY DEF Blank, NoRefund, PaymentRows, RefundRows, PaymentStates

\* A refund row whose fields get values of their types.
LEMMA RefundRowUpdate ==
    ASSUME NEW f \in RefundRows,
           NEW state \in {"NONE", "CREATED", "PROCESSING", "SUCCEEDED", "FAILED"},
           NEW tries \in Nat, NEW token \in Servers \cup {NoServer}, NEW ready \in BOOLEAN
    PROVE  /\ [f EXCEPT !.token = token, !.ready = ready] \in RefundRows
           /\ [f EXCEPT !.state = state, !.tries = tries, !.token = token, !.ready = ready]
                  \in RefundRows
BY DEF RefundRows

LEMMA RefundStarts ==
    ASSUME PaymentTypeOK, NEW k \in Keys, NEW row, RowOK(row), row.state # "NONE",
           BeginFullRefund(k, row)
    PROVE  RowsKeep /\ RefundsKeep
<1>1. RowOK([row EXCEPT !.state = "REFUNDING", !.ready = TRUE])
  BY DEF RowOK, PaymentRows, PaymentStates
<1>2. [NoRefund EXCEPT !.state = "CREATED", !.ready = TRUE] \in RefundRows
  BY BlankRows DEF RefundRows, NoRefund
<1>3. QED
  BY <1>1, <1>2, WriteKeeps, RefundKeeps DEF BeginFullRefund

LEMMA PayOrderTypes ==
    ASSUME PaymentTypeOK, NEW r \in Requests, NEW k \in Keys, PayOrder(r, k)
    PROVE  TypesKeep
<1>1. RowOK([Blank EXCEPT !.order = r, !.state = "CREATED", !.ready = TRUE])
  BY BlankRows DEF RowOK, Blank, PaymentRows, PaymentStates
<1>2. RowsKeep
  BY <1>1, WriteKeeps DEF PayOrder, InsertForReservation
<1>3. ProviderKeeps
  BY DEF PayOrder, InsertForReservation, PaymentTypeOK, ProviderKeeps, Accounts
<1>4. BudgetKeeps
  BY BudgetSpent DEF PayOrder
<1>5. QED
  BY <1>2, <1>3, <1>4, Untouched DEF PayOrder, TypesKeep

LEMMA CancelTicketTypes ==
    ASSUME PaymentTypeOK, NEW r \in Requests, CancelTicket(r)
    PROVE  TypesKeep
<1>1. [StoreNext]_storeVars
  BY DEF CancelTicket, StoreNext
<1>2. RowsKeep /\ RefundsKeep
  <2>1. ASSUME NEW k \in SucceededOf(r), BeginFullRefund(k, pay[k])
        PROVE  RowsKeep /\ RefundsKeep
    <3>1. k \in Keys /\ pay[k].state # "NONE"
      BY <2>1 DEF SucceededOf
    <3>2. QED
      BY <2>1, <3>1, RowTypes, RefundStarts
  <2>2. CASE UNCHANGED <<pay, refund>>
    BY <2>2, Untouched
  <2>3. QED
    BY <2>1, <2>2 DEF CancelTicket
<1>3. BudgetKeeps
  BY BudgetSpent DEF CancelTicket
<1>4. QED
  BY <1>1, <1>2, <1>3, Untouched DEF CancelTicket, TypesKeep

LEMMA ListDueTypes ==
    ASSUME PaymentTypeOK, NEW s \in Servers, ListDue(s)
    PROVE  TypesKeep
<1>1. PICK T \in SUBSET Keys, D \in SUBSET (Keys \X Unsettled) :
          settler' = [settler EXCEPT ![s] = Scan(T, D)]
  <2> DEFINE T == {k \in Keys : pay[k].state \in Unsettled /\ pay[k].ready}
             D == {<<k, refund[k].state>> : k \in
                      {l \in Keys : refund[l].state \in Unsettled /\ refund[l].ready}}
  <2>1. /\ T \in SUBSET Keys /\ {} \in SUBSET Keys
        /\ D \in SUBSET (Keys \X Unsettled) /\ {} \in SUBSET (Keys \X Unsettled)
    OBVIOUS
  <2>2. \/ settler' = [settler EXCEPT ![s] = Scan(T, D)]
        \/ settler' = [settler EXCEPT ![s] = Scan({}, D)]
        \/ settler' = [settler EXCEPT ![s] = Scan(T, {})]
    BY DEF ListDue
  <2> HIDE DEF T, D
  <2>3. QED
    BY <2>1, <2>2
<1>2. SettlersKeep
  BY <1>1, ScanOK, EntryKeeps
<1>3. BudgetKeeps
  BY BudgetSpent DEF ListDue
<1>4. QED
  BY <1>2, <1>3, Untouched DEF ListDue, TypesKeep

LEMMA TakePaymentTypes ==
    ASSUME PaymentTypeOK, NEW s \in Servers, TakePayment(s)
    PROVE  TypesKeep
<1>1. PICK k \in settler[s].todo :
          \/ SkipPayment(s, k) \/ CloseUnpayable(s, k) \/ ClaimPayment(s, k)
          \/ Spend("db") /\ (Skip(s, k) \/ Stop(s)) /\ UNCHANGED pay
  BY DEF TakePayment
<1>2. k \in Keys /\ RowOK(pay[k])
  BY RowTypes DEF Settlers
<1>3. RowsKeep
  <2>1. CASE UNCHANGED pay
    BY <2>1, Untouched
  <2>2. CASE CloseUnpayable(s, k)
    <3>1. RowOK([pay[k] EXCEPT !.state = "CLOSED", !.ready = TRUE])
      BY <1>2, <2>2 DEF CloseUnpayable, Unpayable, RowOK, PaymentRows, PaymentStates
    <3>2. QED
      BY <1>2, <2>2, <3>1, WriteKeeps DEF CloseUnpayable
  <2>3. CASE ClaimPayment(s, k)
    <3>1. RowOK([pay[k] EXCEPT !.token = s, !.ready = FALSE])
      BY <1>2 DEF RowOK, PaymentRows, PaymentStates
    <3>2. QED
      BY <1>2, <2>3, <3>1, WriteKeeps DEF ClaimPayment
  <2>4. QED
    BY <1>1, <2>1, <2>2, <2>3 DEF SkipPayment
<1>4. SettlersKeep
  <2>1. CASE Work(s, CallFor(k), k, pay[k].state) /\ ClaimPayment(s, k)
    <3>1. CallFor(k) \in Calls /\ pay[k].state \in Unsettled
      BY <2>1 DEF CallFor, Calls, ClaimPayment, Claimable
    <3>2. QED
      BY <1>2, <2>1, <3>1, WorkKeeps
  <2>2. CASE Skip(s, k) \/ Stop(s)
    BY <2>2, BackKeeps
  <2>3. QED
    BY <1>1, <2>1, <2>2 DEF SkipPayment, CloseUnpayable, ClaimPayment
<1>5. BudgetKeeps
  BY <1>1, BudgetSpent, Untouched DEF SkipPayment, CloseUnpayable, ClaimPayment
<1>6. QED
  BY <1>3, <1>4, <1>5, Untouched DEF TakePayment, TypesKeep

\* The provider answers in words the code knows.
LEMMA AnswersOK ==
    ASSUME NEW call \in Calls, NEW a
    PROVE  Answer(call, a) \in {"PROCESSING", "SUCCEEDED", "FAILED", "CLOSED"}
BY DEF Answer, Calls

LEMMA CallProviderTypes ==
    ASSUME PaymentTypeOK, NEW s \in Servers, CallProvider(s)
    PROVE  TypesKeep
<1>1. settler[s].pc \in Calls /\ ~At(s, "scan")
  BY DEF CallProvider, At, Calls
<1>2. PICK a \in {"PROCESSING", "SUCCEEDED", "FAILED", "CLOSED", "EXCEPTION"} : Answers(s, a)
  <2>1. Answer(settler[s].pc, account[settler[s].key]) \in {"PROCESSING", "SUCCEEDED", "FAILED", "CLOSED"}
    BY <1>1, AnswersOK
  <2>2. QED
    BY <2>1 DEF CallProvider
<1>3. SettlersKeep
  BY <1>1, <1>2, AnswerKeeps DEF Answers
<1>4. BudgetKeeps
  BY BudgetSpent DEF CallProvider
<1>5. QED
  BY <1>3, <1>4, Untouched DEF CallProvider, TypesKeep

LEMMA CallRefundTypes ==
    ASSUME PaymentTypeOK, NEW s \in Servers, CallRefund(s)
    PROVE  TypesKeep
<1>1. settler[s].key \in Keys /\ ~At(s, "scan")
  BY DEF CallRefund, PaymentTypeOK, At
<1>2. ProviderKeeps
  BY <1>1 DEF CallRefund, PaymentTypeOK, ProviderKeeps, Accounts
<1>3. SettlersKeep
  BY <1>1, AnswerKeeps DEF CallRefund
<1>4. BudgetKeeps
  BY BudgetSpent DEF CallRefund
<1>5. QED
  BY <1>2, <1>3, <1>4, Untouched DEF CallRefund, TypesKeep

\* What a settlement knows of the row it may write.
LEMMA HeldRow ==
    ASSUME PaymentTypeOK, NEW s \in Servers, At(s, "settle"), Holds(s)
    PROVE  /\ settler[s].key \in Keys /\ RowOK(pay[settler[s].key])
           /\ pay[settler[s].key].state = settler[s].expected
           /\ pay[settler[s].key].state \in Unsettled
           /\ pay[settler[s].key].order \in Requests
BY RowTypes DEF SettlerOK, At, Holds, RowOK, Unsettled

LEMMA ReleasedOK ==
    ASSUME PaymentTypeOK, NEW s \in Servers, At(s, "settle"), Holds(s),
           NEW state \in PaymentStates \ {"NONE"}, NEW ready \in BOOLEAN
    PROVE  RowOK(Released(s, state, ready)) /\ Released(s, state, ready).state = state
           /\ Released(s, state, ready).order = pay[settler[s].key].order
BY HeldRow DEF Released, RowOK, PaymentRows

LEMMA SettleTypes ==
    ASSUME PaymentTypeOK, NEW s \in Servers, Settle(s)
    PROVE  TypesKeep
<1>1. [StoreNext]_storeVars /\ RowsKeep /\ RefundsKeep
  <2>1. CASE UNCHANGED <<storeVars, pay, refund>>
    BY <2>1, Untouched
  <2>2. ASSUME Holds(s), Postpone(s)
        PROVE  [StoreNext]_storeVars /\ RowsKeep /\ RefundsKeep
    <3>1. settler[s].expected \in PaymentStates \ {"NONE"}
      BY <2>2, HeldRow DEF Settle, Unsettled, PaymentStates
    <3>2. RowOK(Released(s, settler[s].expected, FALSE))
      BY <2>2, <3>1, ReleasedOK DEF Settle
    <3>3. QED
      BY <2>2, <3>2, HeldRow, WriteKeeps, Untouched DEF Settle, Postpone
  <2>3. ASSUME Holds(s), Allowed(s), Move(s)
        PROVE  [StoreNext]_storeVars /\ RowsKeep /\ RefundsKeep
    <3>1. settler[s].answer \in PaymentStates \ {"NONE"}
      BY <2>3 DEF Allowed, Move, Transitions, PaymentStates
    <3>2. RowOK(Released(s, settler[s].answer, settler[s].expected = "PROCESSING"))
      BY <2>3, <3>1, ReleasedOK DEF Settle
    <3>3. QED
      BY <2>3, <3>2, HeldRow, WriteKeeps, Untouched DEF Settle, Move
  <2>4. ASSUME Holds(s), Succeed(s)
        PROVE  [StoreNext]_storeVars /\ RowsKeep /\ RefundsKeep
    <3>1. "SUCCEEDED" \in PaymentStates \ {"NONE"} /\ TRUE \in BOOLEAN
      BY DEF PaymentStates
    <3>2. RowOK(Released(s, "SUCCEEDED", TRUE)) /\ Released(s, "SUCCEEDED", TRUE).state # "NONE"
      BY <2>4, <3>1, ReleasedOK DEF Settle
    <3>3. CASE /\ Confirm(pay[settler[s].key].order) /\ UNCHANGED refund
               /\ Write(settler[s].key, Released(s, "SUCCEEDED", TRUE))
      <4>1. [StoreNext]_storeVars
        BY <2>4, <3>3, HeldRow DEF Settle, StoreNext
      <4>2. QED
        BY <2>4, <3>2, <3>3, <4>1, HeldRow, WriteKeeps, Untouched DEF Settle
    <3>4. CASE /\ UNCHANGED storeVars
               /\ BeginFullRefund(settler[s].key, Released(s, "SUCCEEDED", TRUE))
      BY <2>4, <3>2, <3>4, HeldRow, RefundStarts, Untouched DEF Settle
    <3>5. QED
      BY <2>4, <3>3, <3>4 DEF Succeed
  <2>5. ASSUME Holds(s), Refuse(s)
        PROVE  [StoreNext]_storeVars /\ RowsKeep /\ RefundsKeep
    <3>1. "SUCCEEDED" \in PaymentStates \ {"NONE"} /\ TRUE \in BOOLEAN
      BY DEF PaymentStates
    <3>2. RowOK(Released(s, "SUCCEEDED", TRUE)) /\ Released(s, "SUCCEEDED", TRUE).state # "NONE"
      BY <2>5, <3>1, ReleasedOK DEF Settle
    <3>3. QED
      BY <2>5, <3>2, HeldRow, RefundStarts, Untouched DEF Settle, Refuse
  <2>6. QED
    BY <2>1, <2>2, <2>3, <2>4, <2>5 DEF Settle
<1>2. SettlersKeep
  BY BackKeeps DEF Settle
<1>3. BudgetKeeps
  BY BudgetSpent DEF Settle
<1>4. QED
  BY <1>1, <1>2, <1>3, Untouched DEF Settle, TypesKeep

LEMMA TakeRefundTypes ==
    ASSUME PaymentTypeOK, NEW s \in Servers, TakeRefund(s)
    PROVE  TypesKeep
<1>1. PICK d \in settler[s].refunds :
          \/ ~Leasable(d) /\ SkipRefund(s, d) /\ NoFault /\ UNCHANGED refund
          \/ /\ Leasable(d)
             /\ refund' = [refund EXCEPT ![d[1]] = [@ EXCEPT !.token = s, !.ready = FALSE]]
             /\ \/ Work(s, "refund", d[1], d[2]) /\ NoFault
                \/ SkipRefund(s, d) /\ Spend("db")
          \/ Spend("db") /\ (SkipRefund(s, d) \/ Stop(s)) /\ UNCHANGED refund
  BY DEF TakeRefund
<1>2. d[1] \in Keys /\ d[2] \in Unsettled
  BY DEF PaymentTypeOK, Settlers
<1>3. RefundsKeep
  <2>1. [refund[d[1]] EXCEPT !.token = s, !.ready = FALSE] \in RefundRows
    BY <1>2, RowTypes, RefundRowUpdate
  <2>2. QED
    BY <1>1, <1>2, <2>1, RefundKeeps, Untouched
<1>4. SettlersKeep
  <2>1. CASE Work(s, "refund", d[1], d[2])
    BY <1>2, <2>1, WorkKeeps
  <2>2. CASE SkipRefund(s, d) \/ Stop(s)
    BY <2>2, BackKeeps
  <2>3. QED
    BY <1>1, <2>1, <2>2
<1>5. BudgetKeeps
  BY <1>1, BudgetSpent
<1>6. QED
  BY <1>3, <1>4, <1>5, Untouched DEF TakeRefund, TypesKeep

LEMMA SettleRefundTypes ==
    ASSUME PaymentTypeOK, NEW s \in Servers, SettleRefund(s)
    PROVE  TypesKeep
<1> DEFINE k == settler[s].key
<1>1. k \in Keys /\ RowOK(pay[k]) /\ refund[k] \in RefundRows
  BY RowTypes DEF SettleRefund, SettlerOK, At
<1>2. refund[k].tries + 1 \in Nat
  BY <1>1 DEF RefundRows
<1>3. RowsKeep /\ RefundsKeep
  <2>1. CASE UNCHANGED <<pay, refund>>
    BY <2>1, Untouched
  <2>2. ASSUME CompleteRefund(s) PROVE RowsKeep /\ RefundsKeep
    <3>1. RowOK([pay[k] EXCEPT !.state = "REFUNDED", !.ready = TRUE])
      BY <1>1, <2>2 DEF CompleteRefund, RowOK, PaymentRows, PaymentStates
    <3>2. [refund[k] EXCEPT !.state = "SUCCEEDED", !.tries = refund[k].tries + 1,
                            !.token = NoServer, !.ready = TRUE] \in RefundRows
      BY <1>1, <1>2, RefundRowUpdate
    <3>3. QED
      BY <1>1, <2>2, <3>1, <3>2, WriteKeeps, RefundKeeps DEF CompleteRefund
  <2>3. ASSUME RetryRefund(s) PROVE RowsKeep /\ RefundsKeep
    <3>1. ASSUME NEW state \in {"FAILED", "PROCESSING"}
          PROVE  [refund[k] EXCEPT !.state = state, !.tries = refund[k].tries + 1,
                                   !.token = NoServer, !.ready = FALSE] \in RefundRows
      BY <1>1, <1>2, RefundRowUpdate
    <3>2. QED
      BY <1>1, <2>3, <3>1, RefundKeeps, Untouched DEF RetryRefund
  <2>4. QED
    BY <2>1, <2>2, <2>3 DEF SettleRefund
<1>4. SettlersKeep
  BY BackKeeps DEF SettleRefund
<1>5. BudgetKeeps
  BY BudgetSpent DEF SettleRefund
<1>6. QED
  BY <1>3, <1>4, <1>5, Untouched DEF SettleRefund, TypesKeep

LEMMA ElapseTypes ==
    ASSUME PaymentTypeOK, NEW k \in Keys, Elapse(k)
    PROVE  TypesKeep
<1>1. RowsKeep /\ RefundsKeep
  <2>1. CASE pay' = [pay EXCEPT ![k].ready = TRUE] /\ UNCHANGED refund
    <3>1. RowOK([pay[k] EXCEPT !.ready = TRUE])
      BY RowTypes DEF RowOK, PaymentRows
    <3>2. Write(k, [pay[k] EXCEPT !.ready = TRUE])
      BY <2>1 DEF Write
    <3>3. QED
      BY <2>1, <3>1, <3>2, WriteKeeps, Untouched
  <2>2. CASE refund' = [refund EXCEPT ![k].ready = TRUE] /\ UNCHANGED pay
    <3>1. [refund[k] EXCEPT !.ready = TRUE] \in RefundRows
      BY RowTypes DEF RefundRows
    <3>2. refund' = [refund EXCEPT ![k] = [refund[k] EXCEPT !.ready = TRUE]]
      BY <2>2
    <3>3. QED
      BY <2>2, <3>1, <3>2, RefundKeeps, Untouched
  <2>3. QED
    BY <2>1, <2>2 DEF Elapse
<1>2. BudgetKeeps
  BY BudgetSpent DEF Elapse
<1>3. QED
  BY <1>1, <1>2, Untouched DEF Elapse, TypesKeep

LEMMA DecideTypes ==
    ASSUME PaymentTypeOK, NEW k \in Keys, Decide(k)
    PROVE  TypesKeep
<1>1. ProviderKeeps
  BY DEF Decide, PaymentTypeOK, ProviderKeeps, Accounts, Verdicts
<1>2. QED
  BY <1>1, Untouched DEF Decide, TypesKeep

LEMMA CrashTypes ==
    ASSUME PaymentTypeOK, NEW s \in Servers, Crash(s)
    PROVE  TypesKeep
<1>1. SettlersKeep /\ BudgetKeeps
  BY BackKeeps, BudgetSpent DEF Crash
<1>2. QED
  BY <1>1, Untouched DEF Crash, TypesKeep

\* The transactions of the order path leave the payments alone.
LEMMA OrderPathTypes ==
    ASSUME PaymentTypeOK,
           \/ ExpireOrders \/ \E r \in Requests : TakeOrder(r) \/ TimePasses(r)
    PROVE  TypesKeep
<1>1. [StoreNext]_storeVars /\ UNCHANGED payVars
  BY DEF ExpireOrders, TakeOrder, TimePasses, StoreNext
<1>2. QED
  BY <1>1, Untouched DEF payVars, TypesKeep

LEMMA NextTypes == PaymentTypeOK /\ [Next]_vars => TypesKeep
<1> SUFFICES ASSUME PaymentTypeOK, [Next]_vars PROVE TypesKeep
  OBVIOUS
<1>1. ASSUME NEW s \in Servers, Settling(s) \/ Crash(s) PROVE TypesKeep
  BY <1>1, ListDueTypes, TakePaymentTypes, CallProviderTypes, SettleTypes, TakeRefundTypes,
     CallRefundTypes, SettleRefundTypes, CrashTypes DEF Settling
<1>2. ASSUME NEW r \in Requests, NEW k \in Keys, PayOrder(r, k) PROVE TypesKeep
  BY <1>2, PayOrderTypes
<1>3. ASSUME NEW r \in Requests, CancelTicket(r) PROVE TypesKeep
  BY <1>3, CancelTicketTypes
<1>4. CASE ExpireOrders \/ \E r \in Requests : TakeOrder(r) \/ TimePasses(r)
  BY <1>4, OrderPathTypes
<1>5. ASSUME NEW k \in Keys, Decide(k) \/ Elapse(k) PROVE TypesKeep
  BY <1>5, DecideTypes, ElapseTypes
<1>6. CASE UNCHANGED vars
  BY <1>6, Untouched DEF vars, payVars, TypesKeep
<1>7. QED
  BY <1>1, <1>2, <1>3, <1>4, <1>5, <1>6 DEF Next

LEMMA InitTypes == Init => PaymentTypeOK
<1> SUFFICES ASSUME Init PROVE PaymentTypeOK
  OBVIOUS
<1>1. StoreTypeOK
  BY StoreInitTypeOK DEF Init
<1>2. SettlerOK(Idle)
  BY ScanOK DEF Idle
<1>3. QED
  BY <1>1, <1>2, BlankRows, PaymentsAssumption
     DEF Init, PaymentTypeOK, At, SettlerOK, Idle, Scan, Blank

\* Rows, provider and timer threads keep their types.
THEOREM PaymentTypeCorrect == Spec => []PaymentTypeOK
<1>1. PaymentTypeOK /\ [Next]_vars => PaymentTypeOK'
  BY NextTypes, TypesKeepTypeOK
<1>2. QED
  BY <1>1, InitTypes, PTL DEF Spec

\* The payment path changes the tables by the transactions of TicketStore.
THEOREM PaymentsImplementStore == Spec => StoreSpec
<1>1. Init => StoreInit
  BY DEF Init
<1>2. PaymentTypeOK /\ [Next]_vars => [StoreNext]_storeVars
  BY NextTypes DEF TypesKeep
<1>3. QED
  BY <1>1, <1>2, PaymentTypeCorrect, PTL DEF Spec, StoreSpec

\* Settlements, cancellations and expiries never lose or create admissions.
THEOREM PaymentsConserve == Spec => []Conservation
BY PaymentsImplementStore, AdmissionsConserved, PTL

-----------------------------------------------------------------------------
(* What a step does to orders and payments together.                       *)

\* Statements that fail unnoticed become fewer.
SlipsLast == budget'["statement"] \in 0 .. budget["statement"]
Slips == budget'["statement"] \in 0 .. budget["statement"] - 1

Same == \A k \in Keys : pay'[k].state = pay[k].state /\ pay'[k].order = pay[k].order

Moves(k, state) ==
    /\ pay'[k].state = state /\ pay'[k].order = pay[k].order
    /\ \A l \in Keys \ {k} : pay'[l].state = pay[l].state /\ pay'[l].order = pay[l].order

Nothing == Same /\ resv' = resv

Asks(k, r) ==
    /\ pay[k].state = "NONE" /\ resv[r] = "PENDING" /\ resv' = resv
    /\ NoneActive(r) \/ Slips
    /\ pay'[k].state = "CREATED" /\ pay'[k].order = r
    /\ \A l \in Keys \ {k} : pay'[l].state = pay[l].state /\ pay'[l].order = pay[l].order

\* The payment goes on, ends without money, or becomes a debt at once.
GoesOn(k) ==
    /\ pay[k].state \in Unsettled /\ resv' = resv
    /\ \E state \in {"PROCESSING", "FAILED", "CLOSED", "REFUNDING"} : Moves(k, state)

Pays(k) ==
    /\ pay[k].state \in Unsettled /\ pay[k].order \in Requests
    /\ Moves(k, "SUCCEEDED") /\ Confirm(pay[k].order)

Repays(k) == pay[k].state = "REFUNDING" /\ Moves(k, "REFUNDED") /\ resv' = resv

Withdraws(k) ==
    /\ pay[k].state = "SUCCEEDED" /\ pay[k].order \in Requests
    /\ Moves(k, "REFUNDING") /\ Cancel(pay[k].order)

\* The order is cancelled and its payment forgotten.
Forgets(r) == resv[r] = "CONFIRMED" /\ Cancel(r) /\ Same /\ Slips

Lapses(R) ==
    /\ R # {} /\ \A r \in R : resv[r] = "PENDING"
    /\ \E state \in {"CANCELLED", "EXPIRED"} : GiveBack(R, state)
    /\ Same

OrderAndMoney ==
    \/ Nothing
    \/ \E k \in Keys : GoesOn(k) \/ Pays(k) \/ Repays(k) \/ Withdraws(k)
    \/ \E k \in Keys, r \in Requests : Asks(k, r)
    \/ \E r \in Requests : Forgets(r)
    \/ \E R \in SUBSET Requests : Lapses(R)
    \/ Same /\ \E r \in Requests : Reserve(r)

LEMMA SpendSlips ==
    ASSUME PaymentTypeOK
    PROVE  /\ Spend("statement") => Slips
           /\ \A f \in FaultKinds : Spend(f) \/ NoFault => SlipsLast
BY DEF PaymentTypeOK, Spend, NoFault, Slips, SlipsLast

LEMMA SamePay == (pay' = pay => Same) /\ (UNCHANGED <<storeVars, pay>> => Nothing)
BY DEF Same, Nothing, storeVars

LEMMA WriteMoves ==
    ASSUME PaymentTypeOK, NEW k \in Keys, NEW row, Write(k, row), row.order = pay[k].order
    PROVE  Moves(k, row.state) /\ (row.state = pay[k].state => Same)
<1>1. pay' = [pay EXCEPT ![k] = row] /\ DOMAIN pay = Keys
  BY DEF Write, PaymentTypeOK
<1>2. pay'[k] = row /\ \A l \in Keys \ {k} : pay'[l] = pay[l]
  BY <1>1
<1>3. QED
  BY <1>2 DEF Moves, Same

LEMMA RefundMoves ==
    ASSUME PaymentTypeOK, NEW k \in Keys, NEW row, RowOK(row), row.order = pay[k].order,
           BeginFullRefund(k, row)
    PROVE  Moves(k, "REFUNDING")
<1> DEFINE new == [row EXCEPT !.state = "REFUNDING", !.ready = TRUE]
<1>1. new.state = "REFUNDING" /\ new.order = row.order
  BY DEF RowOK, PaymentRows
<1>2. Write(k, new)
  BY DEF BeginFullRefund
<1> HIDE DEF new
<1>3. QED
  BY <1>1, <1>2, WriteMoves

LEMMA PayOrderAsks ==
    ASSUME PaymentTypeOK, NEW r \in Requests, NEW k \in Keys, PayOrder(r, k)
    PROVE  OrderAndMoney
<1>1. pay' = [pay EXCEPT ![k] = [Blank EXCEPT !.order = r, !.state = "CREATED", !.ready = TRUE]]
  BY DEF PayOrder, InsertForReservation, Write
<1>2. /\ pay'[k].state = "CREATED" /\ pay'[k].order = r
      /\ \A l \in Keys \ {k} : pay'[l] = pay[l]
  BY <1>1 DEF Blank, PaymentTypeOK
<1>3. NoneActive(r) \/ Slips
  BY SpendSlips DEF PayOrder
<1>4. Asks(k, r)
  BY <1>2, <1>3 DEF PayOrder, Asks, storeVars
<1>5. QED
  BY <1>4 DEF OrderAndMoney

LEMMA CancelTicketWithdraws ==
    ASSUME PaymentTypeOK, SucceededIsConfirmed, NEW r \in Requests, CancelTicket(r)
    PROVE  OrderAndMoney
<1>1. Cancel(r)
  BY DEF CancelTicket
<1>2. ASSUME resv[r] = "CONFIRMED", NEW k \in SucceededOf(r), BeginFullRefund(k, pay[k])
      PROVE  OrderAndMoney
  <2>1. k \in Keys /\ pay[k].order = r /\ pay[k].state = "SUCCEEDED" /\ RowOK(pay[k])
    BY RowTypes DEF SucceededOf
  <2>2. Moves(k, "REFUNDING")
    BY <1>2, <2>1, RefundMoves
  <2>3. Withdraws(k)
    BY <1>1, <2>1, <2>2 DEF Withdraws
  <2>4. QED
    BY <2>1, <2>3 DEF OrderAndMoney
<1>3. ASSUME resv[r] = "CONFIRMED", UNCHANGED <<pay, refund>>, Spend("statement")
      PROVE  OrderAndMoney
  <2>1. Same /\ Slips
    BY <1>3, SamePay, SpendSlips
  <2>2. Forgets(r)
    BY <1>1, <1>3, <2>1 DEF Forgets
  <2>3. QED
    BY <2>2 DEF OrderAndMoney
<1>4. ASSUME resv[r] # "CONFIRMED" \/ SucceededOf(r) = {}, UNCHANGED <<pay, refund>>
      PROVE  OrderAndMoney
  <2>1. resv[r] = "PENDING"
    BY <1>1, <1>4 DEF Cancel, SucceededIsConfirmed
  <2>2. Lapses({r})
    BY <1>1, <1>4, <2>1, SamePay DEF Cancel, Lapses
  <2>3. QED
    BY <2>2 DEF OrderAndMoney
<1>5. QED
  BY <1>2, <1>3, <1>4 DEF CancelTicket

LEMMA TakePaymentGoesOn ==
    ASSUME PaymentTypeOK, NEW s \in Servers, TakePayment(s)
    PROVE  OrderAndMoney
<1>1. PICK k \in settler[s].todo :
          UNCHANGED pay \/ CloseUnpayable(s, k) \/ ClaimPayment(s, k)
  BY DEF TakePayment, SkipPayment
<1>2. k \in Keys /\ pay[k] \in PaymentRows /\ resv' = resv
  BY RowTypes DEF Settlers, TakePayment, storeVars
<1>3. CASE UNCHANGED pay
  BY <1>2, <1>3, SamePay DEF OrderAndMoney, Nothing
<1>4. CASE CloseUnpayable(s, k)
  <2> DEFINE row == [pay[k] EXCEPT !.state = "CLOSED", !.ready = TRUE]
  <2>1. Write(k, row) /\ row.order = pay[k].order /\ row.state = "CLOSED"
    BY <1>2, <1>4 DEF CloseUnpayable, PaymentRows
  <2>2. pay[k].state \in Unsettled
    BY <1>4 DEF CloseUnpayable, Unpayable, Unsettled
  <2> HIDE DEF row
  <2>3. Moves(k, "CLOSED")
    BY <1>2, <2>1, WriteMoves
  <2>4. GoesOn(k)
    BY <1>2, <2>2, <2>3 DEF GoesOn
  <2>5. QED
    BY <1>2, <2>4 DEF OrderAndMoney
<1>5. CASE ClaimPayment(s, k)
  <2> DEFINE row == [pay[k] EXCEPT !.token = s, !.ready = FALSE]
  <2>1. Write(k, row) /\ row.order = pay[k].order /\ row.state = pay[k].state
    BY <1>2, <1>5 DEF ClaimPayment, PaymentRows
  <2> HIDE DEF row
  <2>2. Same
    BY <1>2, <2>1, WriteMoves
  <2>3. QED
    BY <1>2, <2>2 DEF OrderAndMoney, Nothing
<1>6. QED
  BY <1>1, <1>3, <1>4, <1>5

LEMMA SettleMoves ==
    ASSUME PaymentTypeOK, NEW s \in Servers, Settle(s)
    PROVE  OrderAndMoney
<1> DEFINE k == settler[s].key
<1>1. CASE UNCHANGED <<storeVars, pay, refund>>
  BY <1>1, SamePay DEF OrderAndMoney
<1>2. ASSUME Holds(s), Allowed(s), Postpone(s) \/ Move(s) \/ Succeed(s)
      PROVE  OrderAndMoney
  <2>1. /\ k \in Keys /\ pay[k].state = settler[s].expected
        /\ pay[k].state \in Unsettled /\ pay[k].order \in Requests
    BY <1>2, HeldRow DEF Settle
  <2>2. CASE Postpone(s)
    <3> DEFINE row == Released(s, settler[s].expected, FALSE)
    <3>1. settler[s].expected \in PaymentStates \ {"NONE"}
      BY <2>1 DEF Unsettled, PaymentStates
    <3>2. Write(k, row) /\ row.order = pay[k].order /\ row.state = pay[k].state
      BY <1>2, <2>1, <2>2, <3>1, ReleasedOK DEF Postpone, Settle
    <3>3. resv' = resv
      BY <2>2 DEF Postpone, storeVars
    <3> HIDE DEF row
    <3>4. Same
      BY <2>1, <3>2, WriteMoves
    <3>5. QED
      BY <3>3, <3>4 DEF OrderAndMoney, Nothing
  <2>3. CASE Move(s)
    <3> DEFINE row == Released(s, settler[s].answer, settler[s].expected = "PROCESSING")
    <3>1. settler[s].answer \in {"PROCESSING", "FAILED", "CLOSED"}
      BY <1>2, <2>1, <2>3 DEF Allowed, Move, Transitions, Unsettled
    <3>2. settler[s].answer \in PaymentStates \ {"NONE"}
      BY <3>1 DEF PaymentStates
    <3>3. Write(k, row) /\ row.order = pay[k].order /\ row.state = settler[s].answer
      BY <1>2, <2>1, <2>3, <3>2, ReleasedOK DEF Move, Settle
    <3>4. resv' = resv
      BY <2>3 DEF Move, storeVars
    <3> HIDE DEF row
    <3>5. Moves(k, settler[s].answer)
      BY <2>1, <3>3, WriteMoves
    <3>6. GoesOn(k)
      BY <2>1, <3>1, <3>4, <3>5 DEF GoesOn
    <3>7. QED
      BY <2>1, <3>6 DEF OrderAndMoney
  <2>4. CASE Succeed(s)
    <3> DEFINE row == Released(s, "SUCCEEDED", TRUE)
    <3>1. "SUCCEEDED" \in PaymentStates \ {"NONE"} /\ TRUE \in BOOLEAN
      BY DEF PaymentStates
    <3>2. RowOK(row) /\ row.order = pay[k].order /\ row.state = "SUCCEEDED"
      BY <1>2, <3>1, ReleasedOK DEF Settle
    <3>3. \/ Confirm(pay[k].order) /\ Write(k, row)
          \/ BeginFullRefund(k, row) /\ UNCHANGED storeVars
      BY <2>4 DEF Succeed
    <3> HIDE DEF row
    <3>4. CASE Confirm(pay[k].order) /\ Write(k, row)
      <4>1. Moves(k, "SUCCEEDED")
        BY <2>1, <3>2, <3>4, WriteMoves
      <4>2. Pays(k)
        BY <2>1, <3>4, <4>1 DEF Pays
      <4>3. QED
        BY <2>1, <4>2 DEF OrderAndMoney
    <3>5. CASE BeginFullRefund(k, row) /\ UNCHANGED storeVars
      <4>1. Moves(k, "REFUNDING") /\ resv' = resv
        BY <2>1, <3>2, <3>5, RefundMoves DEF storeVars
      <4>2. GoesOn(k)
        BY <2>1, <4>1 DEF GoesOn
      <4>3. QED
        BY <2>1, <4>2 DEF OrderAndMoney
    <3>6. QED
      BY <3>3, <3>4, <3>5
  <2>5. QED
    BY <1>2, <2>2, <2>3, <2>4
<1>3. ASSUME Holds(s), Refuse(s)
      PROVE  OrderAndMoney
  <2> DEFINE row == Released(s, "SUCCEEDED", TRUE)
  <2>1. "SUCCEEDED" \in PaymentStates \ {"NONE"} /\ TRUE \in BOOLEAN
    BY DEF PaymentStates
  <2>2. /\ k \in Keys /\ pay[k].state \in Unsettled
        /\ RowOK(row) /\ row.order = pay[k].order
    BY <1>3, <2>1, HeldRow, ReleasedOK DEF Settle
  <2>3. BeginFullRefund(k, row) /\ resv' = resv
    BY <1>3 DEF Refuse, storeVars
  <2> HIDE DEF row
  <2>4. Moves(k, "REFUNDING")
    BY <2>2, <2>3, RefundMoves
  <2>5. GoesOn(k)
    BY <2>2, <2>3, <2>4 DEF GoesOn
  <2>6. QED
    BY <2>2, <2>5 DEF OrderAndMoney
<1>4. QED
  BY <1>1, <1>2, <1>3 DEF Settle

LEMMA SettleRefundRepays ==
    ASSUME PaymentTypeOK, NEW s \in Servers, SettleRefund(s)
    PROVE  OrderAndMoney
<1> DEFINE k == settler[s].key
           row == [pay[k] EXCEPT !.state = "REFUNDED", !.ready = TRUE]
<1>1. k \in Keys /\ pay[k] \in PaymentRows /\ resv' = resv
  BY RowTypes DEF SettleRefund, SettlerOK, At, RowOK, storeVars
<1>2. CASE pay' = pay
  BY <1>1, <1>2, SamePay DEF OrderAndMoney, Nothing
<1>3. CASE CompleteRefund(s)
  <2>1. /\ Write(k, row) /\ row.order = pay[k].order /\ row.state = "REFUNDED"
        /\ pay[k].state = "REFUNDING"
    BY <1>1, <1>3 DEF CompleteRefund, PaymentRows
  <2> HIDE DEF row
  <2>2. Moves(k, "REFUNDED")
    BY <1>1, <2>1, WriteMoves
  <2>3. Repays(k)
    BY <1>1, <2>1, <2>2 DEF Repays
  <2>4. QED
    BY <1>1, <2>3 DEF OrderAndMoney
<1>4. QED
  BY <1>2, <1>3 DEF SettleRefund, RetryRefund

LEMMA ElapseNothing ==
    ASSUME PaymentTypeOK, NEW k \in Keys, Elapse(k)
    PROVE  OrderAndMoney
<1> DEFINE row == [pay[k] EXCEPT !.ready = TRUE]
<1>1. pay[k] \in PaymentRows /\ DOMAIN pay = Keys
  BY DEF PaymentTypeOK
<1>2. row.state = pay[k].state /\ row.order = pay[k].order
  BY <1>1 DEF PaymentRows
<1>3. pay' = pay \/ pay' = [pay EXCEPT ![k] = row]
  BY DEF Elapse
<1> HIDE DEF row
<1>4. Same
  BY <1>1, <1>2, <1>3 DEF Same
<1>5. QED
  BY <1>4 DEF Elapse, OrderAndMoney, Nothing, storeVars

LEMMA OrderPathLapses ==
    ASSUME \/ ExpireOrders \/ \E r \in Requests : TakeOrder(r) \/ TimePasses(r)
    PROVE  OrderAndMoney
<1>1. Same
  BY SamePay DEF ExpireOrders, TakeOrder, TimePasses, payVars
<1>2. CASE ExpireOrders
  <2>1. PICK R \in SUBSET Requests : Expire(R)
    BY <1>2 DEF ExpireOrders
  <2>2. Lapses(R)
    BY <1>1, <2>1 DEF Expire, Overdue, Lapses
  <2>3. QED
    BY <2>2 DEF OrderAndMoney
<1>3. ASSUME NEW r \in Requests, TakeOrder(r) PROVE OrderAndMoney
  BY <1>1, <1>3 DEF TakeOrder, OrderAndMoney
<1>4. ASSUME NEW r \in Requests, TimePasses(r) PROVE OrderAndMoney
  BY <1>1, <1>4 DEF TimePasses, Deadline, OrderAndMoney, Nothing
<1>5. QED
  BY <1>2, <1>3, <1>4

\* Order and money change together.
LEMMA NextOrderAndMoney ==
    PaymentTypeOK /\ SucceededIsConfirmed /\ [Next]_vars => OrderAndMoney
<1> SUFFICES ASSUME PaymentTypeOK, SucceededIsConfirmed, [Next]_vars PROVE OrderAndMoney
  OBVIOUS
<1>1. ASSUME UNCHANGED <<storeVars, pay>> PROVE OrderAndMoney
  BY <1>1, SamePay DEF OrderAndMoney
<1>2. ASSUME NEW s \in Servers, Settling(s) \/ Crash(s) PROVE OrderAndMoney
  <2>1. CASE ListDue(s) \/ CallProvider(s) \/ TakeRefund(s) \/ CallRefund(s) \/ Crash(s)
    BY <1>1, <2>1 DEF ListDue, CallProvider, TakeRefund, CallRefund, Crash
  <2>2. CASE TakePayment(s) \/ Settle(s) \/ SettleRefund(s)
    BY <2>2, TakePaymentGoesOn, SettleMoves, SettleRefundRepays
  <2>3. QED
    BY <1>2, <2>1, <2>2 DEF Settling
<1>3. ASSUME NEW r \in Requests, NEW k \in Keys, PayOrder(r, k) PROVE OrderAndMoney
  BY <1>3, PayOrderAsks
<1>4. ASSUME NEW r \in Requests, CancelTicket(r) PROVE OrderAndMoney
  BY <1>4, CancelTicketWithdraws
<1>5. CASE ExpireOrders \/ \E r \in Requests : TakeOrder(r) \/ TimePasses(r)
  BY <1>5, OrderPathLapses
<1>6. ASSUME NEW k \in Keys, Decide(k) PROVE OrderAndMoney
  BY <1>1, <1>6 DEF Decide
<1>7. ASSUME NEW k \in Keys, Elapse(k) PROVE OrderAndMoney
  BY <1>7, ElapseNothing
<1>8. CASE UNCHANGED vars
  BY <1>1, <1>8 DEF vars, payVars
<1>9. QED
  BY <1>2, <1>3, <1>4, <1>5, <1>6, <1>7, <1>8 DEF Next

\* A step spends one fault at most.
Spends == NoFault \/ \E f \in FaultKinds : Spend(f)

LEMMA SpendsOne ==
    /\ NoFault => Spends
    /\ \A f \in FaultKinds : Spend(f) => Spends
BY DEF Spends, NoFault, payVars

LEMMA SettlingSpends ==
    ASSUME NEW s \in Servers, Settling(s) \/ Crash(s) PROVE Spends
<1>1. CASE ListDue(s) \/ CallProvider(s) \/ CallRefund(s) \/ Crash(s)
  BY <1>1, SpendsOne DEF ListDue, CallProvider, CallRefund, Crash
<1>2. CASE TakePayment(s)
  BY <1>2, SpendsOne DEF TakePayment, SkipPayment, CloseUnpayable, ClaimPayment, NoFault
<1>3. CASE Settle(s)
  BY <1>3, SpendsOne DEF Settle
<1>4. CASE TakeRefund(s) \/ SettleRefund(s)
  BY <1>4, SpendsOne DEF TakeRefund, SettleRefund
<1>5. QED
  BY <1>1, <1>2, <1>3, <1>4 DEF Settling

LEMMA NextSpends == [Next]_vars => Spends
<1> SUFFICES ASSUME [Next]_vars PROVE Spends
  OBVIOUS
<1>1. ASSUME NEW s \in Servers, Settling(s) \/ Crash(s) PROVE Spends
  BY <1>1, SettlingSpends
<1>2. ASSUME NEW r \in Requests, NEW k \in Keys, PayOrder(r, k) PROVE Spends
  BY <1>2, SpendsOne DEF PayOrder
<1>3. ASSUME NEW r \in Requests, CancelTicket(r) PROVE Spends
  BY <1>3, SpendsOne DEF CancelTicket
<1>4. ASSUME NEW k \in Keys, Decide(k) \/ Elapse(k) PROVE Spends
  BY <1>4, SpendsOne DEF Decide, Elapse, NoFault
<1>5. CASE ExpireOrders \/ \E r \in Requests : TakeOrder(r) \/ TimePasses(r)
  BY <1>5 DEF Spends, NoFault, ExpireOrders, TakeOrder, TimePasses, payVars
<1>6. CASE UNCHANGED vars
  BY <1>6 DEF Spends, NoFault, vars, payVars
<1>7. QED
  BY <1>1, <1>2, <1>3, <1>4, <1>5, <1>6 DEF Next

LEMMA NextSlips == PaymentTypeOK /\ [Next]_vars => SlipsLast
<1>1. PaymentTypeOK /\ NoFault => SlipsLast
  BY DEF PaymentTypeOK, NoFault, SlipsLast
<1>2. QED
  BY <1>1, NextSpends, SpendSlips DEF Spends

-----------------------------------------------------------------------------
(* One payment per order, kept for a confirmed order.                       *)

IInv ==
    /\ PaymentTypeOK /\ OnePaymentPerOrder /\ SucceededIsConfirmed
    /\ budget["statement"] <= Faults["statement"]

\* A payment that is under way or kept.
Live == {k \in Keys : pay[k].state \in Unsettled \cup {"SUCCEEDED"}}

OneKept ==
    \A k, l \in Keys : pay[k].state = "SUCCEEDED" /\ pay[l].state = "SUCCEEDED"
                         /\ pay[k].order = pay[l].order => k = l
OneLive == \A k, l \in Live : pay[k].order = pay[l].order => k = l

LEMMA OneLiveOrder == OnePaymentPerOrder <=> OneKept /\ (NothingOverlooked => OneLive)
BY DEF OnePaymentPerOrder, OneKept, OneLive, Live

\* What was overlooked stays so, and a slip overlooks something.
LEMMA Overlooks ==
    ASSUME IInv, SlipsLast, NothingOverlooked'
    PROVE  NothingOverlooked /\ ~Slips
BY PaymentsAssumption DEF IInv, PaymentTypeOK, SlipsLast, Slips, NothingOverlooked

\* Payments change their state, never their order.
LEMMA FewerLive ==
    ASSUME OneLive,
           \A k \in Keys : pay'[k].order = pay[k].order,
           \A k \in Keys : pay'[k].state \in Unsettled \cup {"SUCCEEDED"} => k \in Live
    PROVE  OneLive'
BY DEF OneLive, Live

LEMMA FewerKept ==
    ASSUME OneKept,
           \A k \in Keys : pay'[k].state = "SUCCEEDED" =>
              pay[k].state = "SUCCEEDED" /\ pay'[k].order = pay[k].order
    PROVE  OneKept'
BY DEF OneKept

LEMMA NextOneKept == IInv /\ OrderAndMoney => OneKept'
<1> SUFFICES ASSUME IInv, OrderAndMoney PROVE OneKept'
  OBVIOUS
<1>1. OneKept
  BY OneLiveOrder DEF IInv
<1>2. ASSUME Same PROVE OneKept'
  BY <1>1, <1>2, FewerKept DEF Same
<1>3. ASSUME NEW k \in Keys, GoesOn(k) \/ Repays(k) \/ Withdraws(k) PROVE OneKept'
  <2>1. PICK state : Moves(k, state) /\ state # "SUCCEEDED"
    BY <1>3 DEF GoesOn, Repays, Withdraws
  <2>2. QED
    BY <1>1, <2>1, FewerKept DEF Moves
<1>4. ASSUME NEW k \in Keys, Pays(k) PROVE OneKept'
  <2>1. \A l \in Keys : pay[l].state = "SUCCEEDED" => pay[l].order # pay[k].order
    BY <1>4 DEF Pays, Confirm, IInv, SucceededIsConfirmed
  <2>2. Moves(k, "SUCCEEDED")
    BY <1>4 DEF Pays
  <2>3. QED
    BY <1>1, <2>1, <2>2 DEF OneKept, Moves
<1>5. ASSUME NEW k \in Keys, NEW r \in Requests, Asks(k, r) PROVE OneKept'
  BY <1>1, <1>5, FewerKept DEF Asks
<1>6. QED
  BY <1>2, <1>3, <1>4, <1>5 DEF OrderAndMoney, Nothing, Lapses, Forgets

LEMMA NextOneLive == IInv /\ OrderAndMoney /\ NothingOverlooked /\ ~Slips => OneLive'
<1> SUFFICES ASSUME IInv, OrderAndMoney, NothingOverlooked, ~Slips PROVE OneLive'
  OBVIOUS
<1>0. OneLive
  BY OneLiveOrder DEF IInv
<1>1. ASSUME Same PROVE OneLive'
  BY <1>0, <1>1, FewerLive DEF Same, Live
<1>2. ASSUME NEW k \in Keys, GoesOn(k) \/ Pays(k) \/ Repays(k) \/ Withdraws(k)
      PROVE  OneLive'
  <2>1. PICK state : Moves(k, state) /\ (state \in Unsettled \cup {"SUCCEEDED"} => k \in Live)
    BY <1>2 DEF GoesOn, Pays, Repays, Withdraws, Live, Unsettled
  <2>2. /\ \A l \in Keys : pay'[l].order = pay[l].order
        /\ \A l \in Keys : pay'[l].state \in Unsettled \cup {"SUCCEEDED"} => l \in Live
    BY <2>1 DEF Moves, Live
  <2>3. QED
    BY <1>0, <2>2, FewerLive
<1>3. ASSUME NEW k \in Keys, NEW r \in Requests, Asks(k, r)
      PROVE  OneLive'
  <2>1. ASSUME NEW l \in Keys, l \in Live PROVE pay[l].order # r
    BY <1>3, <2>1 DEF Asks, NoneActive, Live, SucceededIsConfirmed, IInv
  <2>2. ASSUME NEW l \in Keys \ {k}, pay'[l].state \in Unsettled \cup {"SUCCEEDED"}
        PROVE  l \in Live /\ pay'[l].order = pay[l].order /\ pay'[l].order # r
    BY <1>3, <2>1, <2>2 DEF Asks, Live
  <2>3. pay'[k].order = r
    BY <1>3 DEF Asks
  <2>4. SUFFICES ASSUME NEW l \in Keys, NEW m \in Keys,
                        pay'[l].state \in Unsettled \cup {"SUCCEEDED"},
                        pay'[m].state \in Unsettled \cup {"SUCCEEDED"},
                        pay'[l].order = pay'[m].order
                 PROVE  l = m
    BY DEF OneLive, Live
  <2>5. QED
    BY <1>0, <2>2, <2>3, <2>4 DEF OneLive
<1>4. QED
  BY <1>1, <1>2, <1>3 DEF OrderAndMoney, Nothing, Lapses, Forgets

LEMMA NextOnePayment == IInv /\ OrderAndMoney /\ SlipsLast => OnePaymentPerOrder'
BY NextOneKept, NextOneLive, Overlooks, OneLiveOrder DEF OnePaymentPerOrder, OneKept, OneLive, Live

LEMMA NextSucceeded == IInv /\ OrderAndMoney /\ SlipsLast => SucceededIsConfirmed'
<1> SUFFICES ASSUME IInv, OrderAndMoney, SlipsLast PROVE SucceededIsConfirmed'
  OBVIOUS
<1>1. /\ PaymentTypeOK /\ SucceededIsConfirmed /\ OneKept
      /\ resv \in [Requests -> {"NONE", "PENDING", "CONFIRMED", "CANCELLED", "EXPIRED"}]
      /\ \A k \in Keys : pay[k].state = "SUCCEEDED" => pay[k].order \in Requests
  BY OneLiveOrder DEF IInv, PaymentTypeOK, StoreTypeOK
<1>0. (NothingOverlooked' => NothingOverlooked) /\ (Slips => ~NothingOverlooked')
  BY Overlooks
<1>a. /\ \A q \in Requests : resv[q] = "CONFIRMED" =>
             \E l \in Keys : pay[l].order = q /\ pay[l].state = "SUCCEEDED"
      /\ \A l \in Keys : pay[l].state = "SUCCEEDED" =>
             resv[pay[l].order] = "CONFIRMED" \/ (~NothingOverlooked /\ resv[pay[l].order] = "CANCELLED")
  BY <1>1 DEF SucceededIsConfirmed, SucceededOf
<1>b. SUFFICES
          /\ \A q \in Requests : resv'[q] = "CONFIRMED" =>
                \E l \in Keys : pay'[l].order = q /\ pay'[l].state = "SUCCEEDED"
          /\ \A l \in Keys : pay'[l].state = "SUCCEEDED" =>
                \/ resv'[pay'[l].order] = "CONFIRMED"
                \/ ~NothingOverlooked' /\ resv'[pay'[l].order] = "CANCELLED"
  BY DEF SucceededIsConfirmed, SucceededOf
<1>2. CASE Nothing
  BY <1>0, <1>a, <1>2 DEF Nothing, Same
<1>3. ASSUME NEW k \in Keys, GoesOn(k) \/ Repays(k) PROVE <1>b!1
  <2>1. PICK state : /\ Moves(k, state) /\ resv' = resv
                     /\ pay[k].state # "SUCCEEDED" /\ state # "SUCCEEDED"
    BY <1>3 DEF GoesOn, Repays, Unsettled
  <2>2. /\ \A l \in Keys : pay'[l].order = pay[l].order
        /\ \A l \in Keys : pay'[l].state = "SUCCEEDED" <=> pay[l].state = "SUCCEEDED"
    BY <2>1 DEF Moves
  <2>3. QED
    BY <1>0, <1>a, <2>1, <2>2
<1>4. ASSUME NEW k \in Keys, Pays(k) PROVE <1>b!1
  <2> DEFINE r == pay[k].order
  <2>1. /\ r \in Requests /\ resv[r] = "PENDING"
        /\ \A q \in Requests : resv'[q] = IF q = r THEN "CONFIRMED" ELSE resv[q]
    BY <1>1, <1>4 DEF Pays, Confirm
  <2>2. /\ pay'[k].state = "SUCCEEDED" /\ pay'[k].order = r
        /\ \A l \in Keys \ {k} : pay'[l].state = pay[l].state /\ pay'[l].order = pay[l].order
    BY <1>4 DEF Pays, Moves
  <2>3. \A l \in Keys : pay[l].state = "SUCCEEDED" => pay[l].order \in Requests /\ pay[l].order # r
    BY <1>1, <1>a, <2>1
  <2>4. QED
    BY <1>0, <1>a, <2>1, <2>2, <2>3
<1>5. ASSUME NEW k \in Keys, Withdraws(k) PROVE <1>b!1
  <2> DEFINE r == pay[k].order
  <2>1. /\ r \in Requests
        /\ \A q \in Requests : resv'[q] = IF q = r THEN "CANCELLED" ELSE resv[q]
    BY <1>1, <1>5 DEF Withdraws, Cancel, GiveBack
  <2>2. /\ pay[k].state = "SUCCEEDED" /\ pay'[k].state # "SUCCEEDED"
        /\ \A l \in Keys \ {k} : pay'[l].state = pay[l].state /\ pay'[l].order = pay[l].order
    BY <1>5 DEF Withdraws, Moves
  <2>3. \A l \in Keys \ {k} : pay[l].state = "SUCCEEDED" => pay[l].order \in Requests /\ pay[l].order # r
    BY <1>1, <2>2 DEF OneKept
  <2>4. QED
    BY <1>0, <1>a, <2>1, <2>2, <2>3
<1>6. ASSUME NEW k \in Keys, NEW r \in Requests, Asks(k, r) PROVE <1>b!1
  <2>1. /\ pay[k].state = "NONE" /\ pay'[k].state = "CREATED" /\ resv' = resv
        /\ \A l \in Keys \ {k} : pay'[l].state = pay[l].state /\ pay'[l].order = pay[l].order
    BY <1>6 DEF Asks
  <2>2. QED
    BY <1>0, <1>a, <2>1
<1>7. ASSUME NEW R \in SUBSET Requests, Lapses(R) PROVE <1>b!1
  <2>1. \A q \in Requests : IF q \in R THEN resv'[q] # "CONFIRMED" /\ resv[q] = "PENDING"
                            ELSE resv'[q] = resv[q]
    BY <1>7 DEF Lapses, GiveBack
  <2>2. QED
    BY <1>0, <1>1, <1>a, <1>7, <2>1 DEF Lapses, Same
<1>8. ASSUME NEW r \in Requests, Reserve(r), Same PROVE <1>b!1
  <2>1. resv[r] = "NONE"
    BY <1>1, <1>8, ReserveChecks DEF PaymentTypeOK
  <2>2. \A q \in Requests : IF q = r THEN resv'[q] # "CONFIRMED" /\ resv[q] = "NONE"
                            ELSE resv'[q] = resv[q]
    BY <1>1, <1>8, <2>1 DEF Reserve
  <2>3. QED
    BY <1>0, <1>1, <1>a, <1>8, <2>2 DEF Same
<1>9. ASSUME NEW r \in Requests, Forgets(r) PROVE <1>b!1
  <2>1. /\ \A q \in Requests : resv'[q] = IF q = r THEN "CANCELLED" ELSE resv[q]
        /\ ~NothingOverlooked'
    BY <1>0, <1>1, <1>9 DEF Forgets, Cancel, GiveBack
  <2>2. QED
    BY <1>1, <1>a, <1>9, <2>1 DEF Forgets, Same
<1>10. QED
  BY <1>2, <1>3, <1>4, <1>5, <1>6, <1>7, <1>8, <1>9 DEF OrderAndMoney

LEMMA InitIInv == Init => IInv
<1> SUFFICES ASSUME Init PROVE IInv
  OBVIOUS
<1>1. OnePaymentPerOrder /\ SucceededIsConfirmed
  BY DEF Init, StoreInit, Blank, OnePaymentPerOrder, SucceededIsConfirmed, Unsettled
<1>2. budget["statement"] <= Faults["statement"]
  BY PaymentsAssumption DEF Init
<1>3. QED
  BY <1>1, <1>2, InitTypes DEF IInv

LEMMA NextIInv == IInv /\ [Next]_vars => IInv'
<1> SUFFICES ASSUME IInv, [Next]_vars PROVE IInv'
  OBVIOUS
<1>1. PaymentTypeOK' /\ OrderAndMoney /\ SlipsLast
  BY NextTypes, TypesKeepTypeOK, NextOrderAndMoney, NextSlips DEF IInv
<1>2. budget'["statement"] <= Faults["statement"]
  BY <1>1, PaymentsAssumption DEF IInv, PaymentTypeOK, SlipsLast
<1>3. QED
  BY <1>1, <1>2, NextOnePayment, NextSucceeded DEF IInv

LEMMA SpecIInv == Spec => []IInv
BY InitIInv, NextIInv, PTL DEF Spec

\* Nobody pays an order twice, whatever fails, and no second payment is under
\* way unless a statement failed unnoticed.
THEOREM NoDoublePayment == Spec => []OnePaymentPerOrder
<1>1. IInv => OnePaymentPerOrder
  BY DEF IInv
<1>2. QED
  BY <1>1, SpecIInv, PTL

\* No order for nothing, whatever fails; no money kept for an order that was
\* given up, unless a statement failed unnoticed.
THEOREM ConfirmedIsPaid == Spec => []SucceededIsConfirmed
<1>1. IInv => SucceededIsConfirmed
  BY DEF IInv
<1>2. QED
  BY <1>1, SpecIInv, PTL

-----------------------------------------------------------------------------
(* The settlement implements Purchase.                                     *)

Orders == [r \in Requests |-> OrderState(resv[r])]
Money == [k \in Keys |-> OrderMoney(pay[k].state)]
OrderOf == [k \in Keys |-> pay[k].order]

LEMMA MoneyOf ==
    /\ \A state \in Unsettled : OrderMoney(state) = "asked"
    /\ OrderMoney("SUCCEEDED") = "kept" /\ OrderMoney("REFUNDING") = "owed"
    /\ OrderMoney("REFUNDED") = "returned" /\ OrderMoney("NONE") = "none"
    /\ OrderMoney("FAILED") = "void" /\ OrderMoney("CLOSED") = "void"
BY DEF OrderMoney, Unsettled

\* Only the states that are under way are mapped to "asked".
LEMMA AskedOf ==
    \A state \in PaymentStates : OrderMoney(state) = "asked" => state \in Unsettled
BY DEF OrderMoney, PaymentStates, Unsettled

LEMMA MoneySame ==
    ASSUME Same PROVE Money' = Money /\ OrderOf' = OrderOf
BY DEF Same, Money, OrderOf

LEMMA MoneyMoves ==
    ASSUME NEW k \in Keys, NEW state, Moves(k, state)
    PROVE  Money' = [Money EXCEPT ![k] = OrderMoney(state)] /\ OrderOf' = OrderOf
BY DEF Moves, Money, OrderOf

LEMMA OrdersSame == ASSUME resv' = resv PROVE Orders' = Orders
BY DEF Orders

LEMMA PromiseUnits == \A R, t : Promise!Units(R, t) = Office!Units(R, t)
BY DEF Promise!Units, Office!Units, Promise!MaxPerOrder, Office!MaxPerOrder

LEMMA PromiseCardinality == \A S : Promise!Cardinality(S) = Office!Cardinality(S)
BY DEF Promise!Cardinality, Office!Cardinality

LEMMA PromiseHolding == Promise!Holding = Office!Holding
BY DEF Promise!Holding, Office!Holding

LEMMA PromiseTake == ASSUME NEW r \in Requests, Office!Take(r) PROVE Promise!Take(r)
BY PromiseUnits, PromiseCardinality, PromiseHolding DEF Office!Take, Promise!Take

LEMMA PromiseRelease ==
    ASSUME NEW R \in SUBSET Requests, Office!Release(R) PROVE Promise!Release(R)
BY PromiseHolding DEF Office!Release, Promise!Release

\* A payment that goes on, ends without money or becomes a debt at once.
LEMMA GoesOnRefines ==
    ASSUME NEW k \in Keys, GoesOn(k)
    PROVE  Promise!PurchaseStep \/ (Orders' = Orders /\ Money' = Money /\ OrderOf' = OrderOf)
<1>1. PICK state \in {"PROCESSING", "FAILED", "CLOSED", "REFUNDING"} : Moves(k, state)
  BY DEF GoesOn
<1>2. Orders' = Orders /\ Money[k] = "asked"
  BY OrdersSame, MoneyOf DEF GoesOn, Money
<1>3. Money' = [Money EXCEPT ![k] = OrderMoney(state)] /\ OrderOf' = OrderOf
  BY <1>1, MoneyMoves
<1>4. CASE state = "PROCESSING"
  <2>1. OrderMoney(state) = "asked"
    BY <1>4, MoneyOf DEF Unsettled
  <2>2. Money' = Money
    BY <1>2, <1>3, <2>1 DEF Money
  <2>3. QED
    BY <1>2, <1>3, <2>2
<1>5. CASE state \in {"FAILED", "CLOSED"}
  <2>1. Promise!Void(k)
    BY <1>2, <1>3, <1>5, MoneyOf DEF Promise!Void, Promise!Becomes, Money, Orders, OrderOf
  <2>2. QED
    BY <2>1 DEF Promise!PurchaseStep
<1>6. CASE state = "REFUNDING"
  <2>1. Promise!Owe(k)
    BY <1>2, <1>3, <1>6, MoneyOf DEF Promise!Owe, Promise!Becomes, Money, Orders, OrderOf
  <2>2. QED
    BY <2>1 DEF Promise!PurchaseStep
<1>7. QED
  BY <1>1, <1>4, <1>5, <1>6

LEMMA PaysRefines ==
    ASSUME IInv, NEW k \in Keys, Pays(k)
    PROVE  Promise!Keep(k)
<1> DEFINE r == pay[k].order
<1>1. r \in Requests /\ resv[r] = "PENDING" /\ resv' = [resv EXCEPT ![r] = "CONFIRMED"]
  BY DEF Pays, Confirm
<1>2. DOMAIN resv = Requests
  BY DEF IInv, PaymentTypeOK, StoreTypeOK
<1>3. Orders[r] = "held" /\ Orders' = [Orders EXCEPT ![r] = "paid"]
  BY <1>1, <1>2 DEF Orders, OrderState
<1>4. Promise!Pay(r)
  BY <1>3 DEF Promise!Pay, Orders
<1>5. Money[k] = "asked" /\ Money' = [Money EXCEPT ![k] = "kept"] /\ OrderOf' = OrderOf
  BY MoneyMoves, MoneyOf DEF Pays, Money
<1>6. OrderOf[k] = r
  BY DEF OrderOf
<1>7. QED
  BY <1>4, <1>5, <1>6 DEF Promise!Keep, Promise!Becomes, Money, OrderOf

LEMMA RepaysRefines ==
    ASSUME NEW k \in Keys, Repays(k)
    PROVE  Promise!GiveMoneyBack(k)
<1>1. Money[k] = "owed" /\ Money' = [Money EXCEPT ![k] = "returned"] /\ OrderOf' = OrderOf
  BY MoneyMoves, MoneyOf DEF Repays, Money
<1>2. Orders' = Orders
  BY OrdersSame DEF Repays
<1>3. QED
  BY <1>1, <1>2 DEF Promise!GiveMoneyBack, Promise!Becomes, Money, OrderOf, Orders

LEMMA WithdrawsRefines ==
    ASSUME IInv, StoreInv, NEW k \in Keys, Withdraws(k)
    PROVE  Promise!Withdraw(pay[k].order)
<1> DEFINE r == pay[k].order
<1>1. r \in Requests /\ resv[r] = "CONFIRMED" /\ GiveBack({r}, "CANCELLED")
  BY DEF Withdraws, Cancel, IInv, SucceededIsConfirmed
<1>2. {r} \in SUBSET Active /\ {r} # {}
  BY <1>1 DEF Active
<1>3. Promise!Release({r})
  BY <1>1, <1>2, GiveBackReleases, PromiseRelease
<1>4. Orders[r] = "paid"
  BY <1>1 DEF Orders, OrderState
<1>5. Money[k] = "kept" /\ Money' = [Money EXCEPT ![k] = "owed"] /\ OrderOf' = OrderOf
  BY MoneyMoves, MoneyOf DEF Withdraws, Money
<1>6. OrderOf[k] = r
  BY DEF OrderOf
<1>7. k \in Promise!With(r, "kept")
  BY <1>5, <1>6 DEF Promise!With, Money, OrderOf
<1>8. Promise!Becomes(k, "owed")
  BY <1>5 DEF Promise!Becomes, Money
<1>9. QED
  BY <1>3, <1>4, <1>5, <1>7, <1>8 DEF Promise!Withdraw, Orders, OrderOf

LEMMA AsksRefines ==
    ASSUME IInv, NEW k \in Keys, NEW r \in Requests, Asks(k, r)
    PROVE  Promise!Ask(k, r)
<1>1. Money[k] = "none" /\ Orders[r] = "held" /\ Orders' = Orders
  BY OrdersSame, MoneyOf DEF Asks, Money, Orders, OrderState
<1>2. Promise!With(r, "asked") = {} \/ Promise!Slip
  <2>1. CASE NoneActive(r)
    <3> SUFFICES ASSUME NEW l \in Keys, OrderOf[l] = r, Money[l] = "asked" PROVE FALSE
      BY DEF Promise!With, Money, OrderOf
    <3>1. pay[l].order = r /\ OrderMoney(pay[l].state) = "asked" /\ pay[l].state \in PaymentStates
      BY DEF OrderOf, Money, IInv, PaymentTypeOK, PaymentRows
    <3>2. QED
      BY <2>1, <3>1, AskedOf DEF NoneActive
  <2>2. CASE Slips
    BY <2>2 DEF Slips, Promise!Slip
  <2>3. QED
    BY <2>1, <2>2 DEF Asks
<1>3. Money' = [Money EXCEPT ![k] = "asked"] /\ OrderOf' = [OrderOf EXCEPT ![k] = r]
  <2>1. OrderMoney("CREATED") = "asked"
    BY MoneyOf DEF Unsettled
  <2>2. QED
    BY <2>1 DEF Asks, Money, OrderOf
<1>4. QED
  BY <1>1, <1>2, <1>3 DEF Promise!Ask, Promise!Becomes, Money, OrderOf, Orders

LEMMA LapsesRefines ==
    ASSUME StoreInv, NEW R \in SUBSET Requests, Lapses(R)
    PROVE  Promise!Lapse(R)
<1>1. PICK state \in {"CANCELLED", "EXPIRED"} : GiveBack(R, state)
  BY DEF Lapses
<1>2. R \in SUBSET Active /\ R # {}
  BY DEF Lapses, Active
<1>3. Promise!Release(R)
  BY <1>1, <1>2, GiveBackReleases, PromiseRelease
<1>4. \A r \in R : Orders[r] = "held"
  BY DEF Lapses, Orders, OrderState
<1>5. Money' = Money /\ OrderOf' = OrderOf
  BY MoneySame DEF Lapses
<1>6. QED
  BY <1>3, <1>4, <1>5 DEF Promise!Lapse, Orders, Money, OrderOf

LEMMA ForgetsRefines ==
    ASSUME IInv, StoreInv, NEW r \in Requests, Forgets(r)
    PROVE  Promise!Withdraw(r)
<1>1. GiveBack({r}, "CANCELLED") /\ Same /\ Slips /\ Orders[r] = "paid"
  BY DEF Forgets, Cancel, Orders, OrderState
<1>2. {r} \in SUBSET Active /\ {r} # {}
  BY DEF Forgets, Active
<1>3. Promise!Release({r})
  BY <1>1, <1>2, GiveBackReleases, PromiseRelease
<1>4. Money' = Money /\ OrderOf' = OrderOf
  BY <1>1, MoneySame
<1>5. Promise!Slip
  BY <1>1 DEF Slips, Promise!Slip
<1>6. QED
  BY <1>1, <1>3, <1>4, <1>5 DEF Promise!Withdraw, Orders, Money, OrderOf

LEMMA ReserveRefines ==
    ASSUME StoreInv, Same, NEW r \in Requests, Reserve(r)
    PROVE  Promise!PurchaseStep
<1>1. Promise!Take(r)
  BY ReserveTakes, PromiseTake
<1>2. Money' = Money /\ OrderOf' = OrderOf
  BY MoneySame
<1>3. QED
  BY <1>1, <1>2 DEF Promise!PurchaseStep, Money, OrderOf

LEMMA NextRefines ==
    IInv /\ StoreInv /\ OrderAndMoney /\ SlipsLast => Promise!PurchaseNext
<1> SUFFICES ASSUME IInv, StoreInv, OrderAndMoney, SlipsLast PROVE Promise!PurchaseNext
  OBVIOUS
<1> DEFINE Rests == Orders' = Orders /\ Money' = Money /\ OrderOf' = OrderOf
<1>1. ASSUME NEW k \in Keys, GoesOn(k) PROVE Promise!PurchaseStep \/ Rests
  BY <1>1, GoesOnRefines
<1>2. ASSUME NEW k \in Keys, Pays(k) PROVE Promise!PurchaseStep
  BY <1>2, PaysRefines DEF Promise!PurchaseStep
<1>3. ASSUME NEW k \in Keys, Repays(k) PROVE Promise!PurchaseStep
  BY <1>3, RepaysRefines DEF Promise!PurchaseStep
<1>4. ASSUME NEW k \in Keys, Withdraws(k) PROVE Promise!PurchaseStep
  BY <1>4, WithdrawsRefines DEF Promise!PurchaseStep, Withdraws
<1>5. ASSUME NEW k \in Keys, NEW r \in Requests, Asks(k, r) PROVE Promise!PurchaseStep
  BY <1>5, AsksRefines DEF Promise!PurchaseStep
<1>6. ASSUME NEW R \in SUBSET Requests, Lapses(R) PROVE Promise!PurchaseStep
  BY <1>6, LapsesRefines DEF Promise!PurchaseStep
<1>7. ASSUME NEW r \in Requests, Reserve(r), Same PROVE Promise!PurchaseStep
  BY <1>7, ReserveRefines
<1>8. ASSUME NEW r \in Requests, Forgets(r) PROVE Promise!PurchaseStep
  BY <1>8, ForgetsRefines DEF Promise!PurchaseStep
<1>9. Promise!PurchaseStep \/ Rests
  BY <1>1, <1>2, <1>3, <1>4, <1>5, <1>6, <1>7, <1>8, MoneySame, OrdersSame
     DEF OrderAndMoney, Nothing
<1>10. QED
  BY <1>9 DEF SlipsLast, Promise!SlipsLast, Promise!PurchaseNext, Orders, Money, OrderOf

LEMMA InitRefines == Init => Promise!PurchaseInit
<1> SUFFICES ASSUME Init PROVE Promise!PurchaseInit
  OBVIOUS
<1>1. Promise!AllocationInit
  BY DEF Init, StoreInit, Promise!AllocationInit, OrderState
<1>2. budget["statement"] \in Nat
  BY PaymentsAssumption DEF Init
<1>3. QED
  BY <1>1, <1>2, MoneyOf DEF Init, Blank, Promise!PurchaseInit

\* Two transactions around an unlocked call, with leases, lost answers,
\* crashes and slow servers, are one step of Purchase where it matters: order
\* and money change together, but for one slip of Purchase for each statement
\* that fails unnoticed.
THEOREM PaymentsImplementPurchase == Spec => ImplementsPurchase
<1>1. Init => StoreInv
  BY StoreInitTypeOK, StoreInitConserves, StoreInitSeats DEF Init, StoreInv
<1>2. IInv /\ StoreInv /\ [Next]_vars => StoreInv'
  BY NextTypes, StoreStepTypeOK, StoreStepConserves, StoreStepSeats
     DEF IInv, StoreInv, TypesKeep
<1>3. IInv /\ StoreInv /\ [Next]_vars => [Promise!PurchaseNext]_(Promise!purchaseVars)
  BY NextRefines, NextOrderAndMoney, NextSlips DEF IInv
<1>4. QED
  BY <1>1, <1>2, <1>3, SpecIInv, InitRefines, PTL
     DEF Spec, ImplementsPurchase, Promise!PurchaseSpec

-----------------------------------------------------------------------------
(* Refunds.                                                                *)

Debts == {k \in Keys : pay[k].state \in {"REFUNDING", "REFUNDED"}}

\* A server that has a refund in its hands.
Refunding(s) == settler[s].pc \in {"refund", "repaid"}

\* A debt has a refund that is still to be sent, or was sent often enough.
Followed(row) ==
    \/ row.state \in Unsettled /\ row.tries < MaxAttempts
    \/ row.state = "FAILED" /\ row.tries = MaxAttempts
AllFollowed == \A k \in Keys : pay[k].state = "REFUNDING" => Followed(refund[k])

RInv == PaymentTypeOK /\ RefundsAreTrue

LEMMA RefundsByDebts ==
    RefundsAreTrue <=>
        /\ \A k \in Keys : k \in repaid \/ refund[k].state # "NONE" => k \in Debts
        /\ \A k \in Keys : pay[k].state = "REFUNDED" => k \in repaid /\ refund[k].state = "SUCCEEDED"
        /\ \A s \in Servers : Refunding(s) =>
              pay[settler[s].key].state \in {"REFUNDING", "REFUNDED"}
        /\ \A s \in Servers : At(s, "repaid") /\ settler[s].answer = "SUCCEEDED" =>
              settler[s].key \in repaid
        /\ AllFollowed
BY DEF RefundsAreTrue, Debts, Refunding, AllFollowed, Followed

\* A debt stays a debt until the money is back.
LEMMA DebtsStay ==
    ASSUME OrderAndMoney PROVE Debts \subseteq Debts'
<1>1. ASSUME Same PROVE Debts \subseteq Debts'
  BY <1>1 DEF Same, Debts
<1>2. ASSUME NEW k \in Keys, GoesOn(k) \/ Pays(k) \/ Repays(k) \/ Withdraws(k)
      PROVE  Debts \subseteq Debts'
  BY <1>2 DEF GoesOn, Pays, Repays, Withdraws, Moves, Debts, Unsettled
<1>3. ASSUME NEW k \in Keys, NEW r \in Requests, Asks(k, r) PROVE Debts \subseteq Debts'
  BY <1>3 DEF Asks, Debts
<1>4. QED
  BY <1>1, <1>2, <1>3 DEF OrderAndMoney, Nothing, Lapses, Forgets

\* What every step has to show: refunds start and money goes back for debts
\* only, a debt is called returned when it is, a server takes up debts and
\* believes the provider only, and a refund begins, rests or counts a try.
SameTries(k) == refund'[k].state = refund[k].state /\ refund'[k].tries = refund[k].tries
CountsTry(k) ==
    /\ refund[k].state \in Unsettled /\ refund'[k].tries = refund[k].tries + 1
    /\ refund'[k].state = IF refund[k].tries + 1 >= MaxAttempts THEN "FAILED" ELSE "PROCESSING"
DebtStep(k) ==
    \/ refund'[k].state = "CREATED" /\ refund'[k].tries = 0
    \/ pay'[k].state = "REFUNDED"
    \/ (pay'[k].state = "REFUNDING" => pay[k].state = "REFUNDING") /\ (SameTries(k) \/ CountsTry(k))

RefundsKeepTrue ==
    /\ repaid \subseteq repaid'
    /\ \A k \in Keys : k \in repaid' \/ refund'[k].state # "NONE" =>
          k \in repaid \/ refund[k].state # "NONE" \/ k \in Debts'
    /\ \A k \in Keys : pay'[k].state = "REFUNDED" => k \in repaid' /\ refund'[k].state = "SUCCEEDED"
    /\ \A s \in Servers : Refunding(s)' =>
          \/ settler'[s] = settler[s]
          \/ /\ settler'[s].key \in Debts
             /\ At(s, "repaid")' /\ settler'[s].answer = "SUCCEEDED" => settler'[s].key \in repaid'
    /\ \A k \in Keys : DebtStep(k)

LEMMA RefundsStayTrue ==
    ASSUME RInv, OrderAndMoney, RefundsKeepTrue
    PROVE  RefundsAreTrue'
<1>1. Debts \subseteq Debts'
  BY DebtsStay
<1>2. \A s \in Servers : Refunding(s) => settler[s].key \in Debts
  BY RowTypes, RefundsByDebts DEF RInv, Refunding, SettlerOK, Debts
<1>3. \A k \in Keys : k \in repaid' \/ refund'[k].state # "NONE" => k \in Debts'
  BY <1>1, RefundsByDebts DEF RInv, RefundsKeepTrue
<1>4. ASSUME NEW s \in Servers, Refunding(s)' PROVE settler'[s].key \in Debts'
  BY <1>1, <1>2, <1>4 DEF RefundsKeepTrue, Refunding
<1>5. ASSUME NEW s \in Servers, At(s, "repaid")', settler'[s].answer = "SUCCEEDED"
      PROVE  settler'[s].key \in repaid'
  <2>1. Refunding(s)'
    BY <1>5 DEF At, Refunding
  <2>2. QED
    BY <1>5, <2>1, RefundsByDebts DEF RefundsKeepTrue, RInv, At
<1>6. \A k \in Keys : pay'[k].state = "REFUNDED" => k \in repaid' /\ refund'[k].state = "SUCCEEDED"
  BY DEF RefundsKeepTrue
<1>7. ASSUME NEW k \in Keys, pay'[k].state = "REFUNDING" PROVE Followed(refund'[k])
  <2>1. DebtStep(k) /\ pay'[k].state # "REFUNDED"
    BY <1>7 DEF RefundsKeepTrue
  <2>2. pay[k].state = "REFUNDING" => Followed(refund[k])
    BY RefundsByDebts DEF RInv, AllFollowed
  <2>3. refund[k].tries \in Nat /\ MaxAttempts \in Nat \ {0}
    BY RowTypes, PaymentsAssumption DEF RInv, PaymentTypeOK, RefundRows
  <2>4. QED
    BY <1>7, <2>1, <2>2, <2>3 DEF DebtStep, SameTries, CountsTry, Followed, Unsettled
<1>8. QED
  BY <1>3, <1>4, <1>5, <1>6, <1>7 DEF RefundsAreTrue, Debts, Refunding, Followed

\* No refund comes into the hands of a server.
NoNewRefund == \A s \in Servers : Refunding(s)' => settler'[s] = settler[s]

\* No payment becomes a debt, and no debt is called returned.
DebtStates == {"REFUNDING", "REFUNDED"}
NoneReturned == \A k \in Keys : pay'[k].state \in DebtStates => pay'[k].state = pay[k].state

LEMMA EntryIsQuiet ==
    ASSUME PaymentTypeOK, NEW s \in Servers, NEW e, e.pc \notin {"refund", "repaid"},
           settler' = [settler EXCEPT ![s] = e]
    PROVE  NoNewRefund
BY DEF NoNewRefund, Refunding, PaymentTypeOK

LEMMA BackIsQuiet ==
    ASSUME PaymentTypeOK, NEW s \in Servers, NEW k, NEW d,
           Resume(s) \/ Stop(s) \/ Skip(s, k) \/ SkipRefund(s, d)
    PROVE  NoNewRefund
<1>1. PICK T \in SUBSET Keys, D \in SUBSET (Keys \X Unsettled) :
          settler' = [settler EXCEPT ![s] = Scan(T, D)]
  BY BackToScan
<1>2. Scan(T, D).pc \notin {"refund", "repaid"}
  BY DEF Scan
<1>3. QED
  BY <1>1, <1>2, EntryIsQuiet

LEMMA WriteReturnsNone ==
    ASSUME PaymentTypeOK, NEW k \in Keys, NEW row, Write(k, row),
           row.state \notin DebtStates \/ row.state = pay[k].state
    PROVE  NoneReturned
BY DEF NoneReturned, Write, PaymentTypeOK

\* A step that writes no refund.
LEMMA QuietRefunds ==
    ASSUME RInv, NoNewRefund, NoneReturned, repaid' = repaid,
           \A k \in Keys : SameTries(k)
    PROVE  RefundsKeepTrue
<1>1. \A k \in Keys : DebtStep(k)
  BY DEF DebtStep, NoneReturned, DebtStates
<1>2. QED
  BY <1>1, RefundsByDebts DEF RInv, RefundsKeepTrue, NoNewRefund, NoneReturned, DebtStates, SameTries

\* A refund that begins.
LEMMA RefundBegins ==
    ASSUME RInv, NEW k \in Keys, NEW row, RowOK(row), BeginFullRefund(k, row),
           NoNewRefund, repaid' = repaid
    PROVE  RefundsKeepTrue
<1>1. pay'[k].state = "REFUNDING" /\ \A l \in Keys \ {k} : pay'[l] = pay[l]
  BY DEF BeginFullRefund, Write, RInv, PaymentTypeOK, RowOK, PaymentRows
<1>2. /\ refund'[k].state = "CREATED" /\ refund'[k].tries = 0
      /\ \A l \in Keys \ {k} : refund'[l] = refund[l]
  BY DEF BeginFullRefund, NoRefund, RInv, PaymentTypeOK
<1>3. k \in Debts'
  BY <1>1 DEF Debts
<1>4. \A l \in Keys : DebtStep(l)
  BY <1>1, <1>2 DEF DebtStep, SameTries
<1>5. QED
  BY <1>1, <1>2, <1>3, <1>4, RefundsByDebts DEF RInv, RefundsKeepTrue, NoNewRefund

LEMMA SameRefunds ==
    ASSUME RInv, NoNewRefund, UNCHANGED <<pay, refund, repaid>> PROVE RefundsKeepTrue
BY QuietRefunds DEF NoneReturned, SameTries

LEMMA SameSettlers == settler' = settler => NoNewRefund
BY DEF NoNewRefund

LEMMA PayOrderRefunds ==
    ASSUME RInv, NEW r \in Requests, NEW k \in Keys, PayOrder(r, k)
    PROVE  RefundsKeepTrue
<1> DEFINE row == [Blank EXCEPT !.order = r, !.state = "CREATED", !.ready = TRUE]
<1>1. row.state \notin DebtStates /\ Write(k, row)
  BY DEF Blank, PayOrder, InsertForReservation, DebtStates
<1> HIDE DEF row
<1>2. NoneReturned
  BY <1>1, WriteReturnsNone DEF RInv
<1>3. QED
  BY <1>2, QuietRefunds, SameSettlers DEF PayOrder, SameTries

LEMMA CancelTicketRefunds ==
    ASSUME RInv, NEW r \in Requests, CancelTicket(r)
    PROVE  RefundsKeepTrue
<1>1. NoNewRefund /\ repaid' = repaid
  BY SameSettlers DEF CancelTicket
<1>2. ASSUME NEW k \in SucceededOf(r), BeginFullRefund(k, pay[k]) PROVE RefundsKeepTrue
  <2>1. k \in Keys /\ RowOK(pay[k])
    BY RowTypes DEF SucceededOf, RInv
  <2>2. QED
    BY <1>1, <1>2, <2>1, RefundBegins
<1>3. CASE UNCHANGED <<pay, refund>>
  BY <1>1, <1>3, SameRefunds
<1>4. QED
  BY <1>2, <1>3 DEF CancelTicket

LEMMA TakePaymentRefunds ==
    ASSUME RInv, NEW s \in Servers, TakePayment(s)
    PROVE  RefundsKeepTrue
<1>1. PICK k \in settler[s].todo :
          \/ SkipPayment(s, k) \/ CloseUnpayable(s, k) \/ ClaimPayment(s, k)
          \/ Spend("db") /\ (Skip(s, k) \/ Stop(s)) /\ UNCHANGED pay
  BY DEF TakePayment
<1>2. k \in Keys /\ pay[k] \in PaymentRows
  BY RowTypes DEF Settlers, RInv
<1>3. NoneReturned
  <2>1. CASE UNCHANGED pay
    BY <2>1 DEF NoneReturned
  <2>2. CASE CloseUnpayable(s, k)
    <3> DEFINE row == [pay[k] EXCEPT !.state = "CLOSED", !.ready = TRUE]
    <3>1. row.state \notin DebtStates /\ Write(k, row)
      BY <1>2, <2>2 DEF CloseUnpayable, PaymentRows, DebtStates
    <3> HIDE DEF row
    <3>2. QED
      BY <1>2, <3>1, WriteReturnsNone DEF RInv
  <2>3. CASE ClaimPayment(s, k)
    <3> DEFINE row == [pay[k] EXCEPT !.token = s, !.ready = FALSE]
    <3>1. row.state = pay[k].state /\ Write(k, row)
      BY <1>2, <2>3 DEF ClaimPayment, PaymentRows
    <3> HIDE DEF row
    <3>2. QED
      BY <1>2, <3>1, WriteReturnsNone DEF RInv
  <2>4. QED
    BY <1>1, <2>1, <2>2, <2>3 DEF SkipPayment
<1>4. NoNewRefund
  <2>1. CASE Work(s, CallFor(k), k, pay[k].state)
    <3> DEFINE e == [settler[s] EXCEPT !.pc = CallFor(k), !.key = k, !.expected = pay[k].state,
                                       !.todo = settler[s].todo \ {k},
                                       !.refunds = settler[s].refunds \ {<<k, pay[k].state>>}]
    <3>1. CallFor(k) \in {"create", "query", "close"} /\ settler[s] \in Settlers
      BY RowTypes DEF CallFor, RInv
    <3>2. e.pc \notin {"refund", "repaid"}
      BY <3>1 DEF Settlers
    <3>3. settler' = [settler EXCEPT ![s] = e]
      BY <2>1 DEF Work
    <3> HIDE DEF e
    <3>4. QED
      BY <3>2, <3>3, EntryIsQuiet DEF RInv
  <2>2. CASE Skip(s, k) \/ Stop(s)
    BY <2>2, BackIsQuiet DEF RInv
  <2>3. QED
    BY <1>1, <2>1, <2>2 DEF SkipPayment, CloseUnpayable, ClaimPayment
<1>5. QED
  BY <1>3, <1>4, QuietRefunds DEF TakePayment, SameTries

LEMMA CallProviderRefunds ==
    ASSUME RInv, NEW s \in Servers, CallProvider(s)
    PROVE  RefundsKeepTrue
<1>1. PICK a : settler' = [settler EXCEPT ![s] = [@ EXCEPT !.pc = "settle", !.answer = a]]
  BY DEF CallProvider, Answers
<1> DEFINE e == [settler[s] EXCEPT !.pc = "settle", !.answer = a]
<1>2. e.pc \notin {"refund", "repaid"} /\ settler' = [settler EXCEPT ![s] = e]
  BY <1>1, RowTypes DEF Settlers, RInv
<1> HIDE DEF e
<1>3. NoNewRefund
  BY <1>2, EntryIsQuiet DEF RInv
<1>4. QED
  BY <1>3, SameRefunds DEF CallProvider

LEMMA SettleRefunds ==
    ASSUME RInv, NEW s \in Servers, Settle(s)
    PROVE  RefundsKeepTrue
<1> DEFINE k == settler[s].key
<1>1. NoNewRefund /\ repaid' = repaid
  BY BackIsQuiet DEF Settle, RInv
<1>2. CASE UNCHANGED <<storeVars, pay, refund>>
  BY <1>1, <1>2, SameRefunds
<1>3. ASSUME Holds(s), NEW state \in PaymentStates \ ({"NONE"} \cup DebtStates), NEW ready \in BOOLEAN,
             Write(k, Released(s, state, ready)), UNCHANGED refund
      PROVE  RefundsKeepTrue
  <2> DEFINE row == Released(s, state, ready)
  <2>1. k \in Keys /\ row.state = state /\ Write(k, row)
    BY <1>3, HeldRow, ReleasedOK DEF Settle, RInv
  <2> HIDE DEF row
  <2>2. NoneReturned
    BY <1>3, <2>1, WriteReturnsNone DEF RInv
  <2>3. QED
    BY <1>1, <1>3, <2>2, QuietRefunds DEF SameTries
<1>4. ASSUME Holds(s), Postpone(s) PROVE RefundsKeepTrue
  <2>1. settler[s].expected \in PaymentStates \ ({"NONE"} \cup DebtStates)
    BY <1>4, HeldRow DEF Settle, Unsettled, PaymentStates, RInv, DebtStates
  <2>2. QED
    BY <1>3, <1>4, <2>1 DEF Postpone
<1>5. ASSUME Holds(s), Allowed(s), Move(s) PROVE RefundsKeepTrue
  <2>1. settler[s] \in Settlers
    BY RowTypes DEF RInv
  <2>2. settler[s].answer \in PaymentStates \ ({"NONE"} \cup DebtStates)
    BY <1>5, <2>1 DEF Settlers, Allowed, Move, Transitions, PaymentStates, DebtStates
  <2>3. QED
    BY <1>3, <1>5, <2>2 DEF Move
<1>6. ASSUME Holds(s), Succeed(s) PROVE RefundsKeepTrue
  <2>1. "SUCCEEDED" \in PaymentStates \ ({"NONE"} \cup DebtStates) /\ TRUE \in BOOLEAN
    BY DEF PaymentStates, DebtStates
  <2>2. CASE Write(k, Released(s, "SUCCEEDED", TRUE)) /\ UNCHANGED refund
    BY ONLY <1>3, <1>6, <2>1, <2>2
  <2>3. CASE BeginFullRefund(k, Released(s, "SUCCEEDED", TRUE))
    <3>1. k \in Keys /\ RowOK(Released(s, "SUCCEEDED", TRUE))
      BY <1>6, <2>1, HeldRow, ReleasedOK DEF Settle, RInv
    <3>2. QED
      BY <1>1, <2>3, <3>1, RefundBegins
  <2>4. QED
    BY <1>6, <2>2, <2>3 DEF Succeed
<1>7. ASSUME Holds(s), Refuse(s) PROVE RefundsKeepTrue
  <2>1. "SUCCEEDED" \in PaymentStates \ {"NONE"} /\ TRUE \in BOOLEAN
    BY DEF PaymentStates
  <2>2. k \in Keys /\ RowOK(Released(s, "SUCCEEDED", TRUE))
    BY <1>7, <2>1, HeldRow, ReleasedOK DEF Settle, RInv
  <2>3. QED
    BY <1>1, <1>7, <2>2, RefundBegins DEF Refuse
<1>8. QED
  BY <1>2, <1>4, <1>5, <1>6, <1>7 DEF Settle

LEMMA TakeRefundRefunds ==
    ASSUME RInv, NEW s \in Servers, TakeRefund(s)
    PROVE  RefundsKeepTrue
<1>1. PICK d \in settler[s].refunds :
          \/ (SkipRefund(s, d) \/ Stop(s)) /\ UNCHANGED refund
          \/ /\ Leasable(d)
             /\ refund' = [refund EXCEPT ![d[1]] = [@ EXCEPT !.token = s, !.ready = FALSE]]
             /\ Work(s, "refund", d[1], d[2]) \/ SkipRefund(s, d)
  BY DEF TakeRefund
<1>2. /\ d[1] \in Keys /\ d[2] \in Unsettled /\ settler[s] \in Settlers
      /\ refund \in [Keys -> RefundRows]
  BY DEF PaymentTypeOK, Settlers, RInv
<1>3. \A k \in Keys : SameTries(k)
  <2> DEFINE row == [refund[d[1]] EXCEPT !.token = s, !.ready = FALSE]
  <2>1. row.state = refund[d[1]].state /\ row.tries = refund[d[1]].tries
    BY <1>2 DEF RefundRows
  <2>2. refund' = refund \/ refund' = [refund EXCEPT ![d[1]] = row]
    BY <1>1
  <2> HIDE DEF row
  <2>3. QED
    BY <1>2, <2>1, <2>2 DEF SameTries
<1>4. pay' = pay /\ repaid' = repaid
  BY DEF TakeRefund
<1>5. CASE SkipRefund(s, d) \/ Stop(s)
  <2>1. NoNewRefund
    BY <1>5, BackIsQuiet DEF RInv
  <2>2. QED
    BY <1>3, <1>4, <2>1, QuietRefunds DEF NoneReturned
<1>6. CASE Leasable(d) /\ Work(s, "refund", d[1], d[2])
  <2>1. d[1] \in Debts
    BY <1>2, <1>6, RefundsByDebts DEF Leasable, Unsettled, RInv
  <2>2. /\ settler'[s].key = d[1] /\ settler'[s].pc = "refund"
        /\ \A q \in Servers \ {s} : settler'[q] = settler[q]
    BY <1>2, <1>6, RowTypes DEF Work, Settlers, RInv
  <2>3. ASSUME NEW q \in Servers, Refunding(q)'
        PROVE  settler'[q] = settler[q] \/ (settler'[q].key \in Debts /\ ~At(q, "repaid")')
    BY <2>1, <2>2 DEF At
  <2>4. \A k \in Keys : DebtStep(k)
    BY <1>3, <1>4 DEF DebtStep
  <2>5. QED
    BY <1>3, <1>4, <2>3, <2>4, RefundsByDebts DEF RInv, RefundsKeepTrue, SameTries
<1>7. QED
  BY <1>1, <1>5, <1>6

LEMMA CallRefundRefunds ==
    ASSUME RInv, NEW s \in Servers, CallRefund(s)
    PROVE  RefundsKeepTrue
<1> DEFINE k == settler[s].key
<1>1. k \in Keys /\ settler[s] \in Settlers /\ DOMAIN settler = Servers
  BY RowTypes DEF CallRefund, RInv, SettlerOK, At
<1>2. k \in Debts
  BY <1>1, RefundsByDebts DEF CallRefund, RInv, Refunding, At, Debts
<1>3. \E a : settler' = [settler EXCEPT ![s] = [@ EXCEPT !.pc = "repaid", !.answer = a]]
             /\ (a = "SUCCEEDED" => repaid' = repaid \cup {k})
             /\ repaid' \in {repaid, repaid \cup {k}}
  BY DEF CallRefund
<1>4. /\ settler'[s].key = k /\ (settler'[s].answer = "SUCCEEDED" => k \in repaid')
      /\ \A q \in Servers \ {s} : settler'[q] = settler[q]
  BY <1>1, <1>3 DEF Settlers
<1>5. Debts' = Debts /\ refund' = refund /\ pay' = pay
  BY DEF CallRefund, Debts
<1>6. \A l \in Keys : DebtStep(l)
  BY <1>5 DEF DebtStep, SameTries
<1>7. QED
  BY <1>2, <1>3, <1>4, <1>5, <1>6, RefundsByDebts DEF RInv, RefundsKeepTrue

LEMMA SettleRefundRefunds ==
    ASSUME RInv, NEW s \in Servers, SettleRefund(s)
    PROVE  RefundsKeepTrue
<1> DEFINE k == settler[s].key
<1>1. /\ k \in Keys /\ pay[k] \in PaymentRows /\ refund[k] \in RefundRows
      /\ refund \in [Keys -> RefundRows] /\ pay \in [Keys -> PaymentRows]
      /\ settler[s].expected \in Unsettled
  BY RowTypes DEF SettleRefund, SettlerOK, At, RowOK, RInv
<1>2. NoNewRefund /\ repaid' = repaid
  BY BackIsQuiet DEF SettleRefund, RInv
<1>3. CASE UNCHANGED <<pay, refund>>
  BY <1>2, <1>3, SameRefunds
<1>4. k \in Debts
  BY <1>1, RefundsByDebts DEF SettleRefund, RInv, Refunding, At, Debts
<1>5. CASE CompleteRefund(s)
  <2>1. /\ pay'[k].state = "REFUNDED" /\ refund'[k].state = "SUCCEEDED"
        /\ \A l \in Keys \ {k} : pay'[l] = pay[l] /\ refund'[l] = refund[l]
    BY <1>1, <1>5 DEF CompleteRefund, Write, PaymentRows, RefundRows
  <2>2. k \in repaid
    BY <1>5, RefundsByDebts DEF SettleRefund, CompleteRefund, RInv
  <2>3. k \in Debts'
    BY <1>1, <2>1 DEF Debts
  <2>4. \A l \in Keys : DebtStep(l)
    BY <2>1 DEF DebtStep, SameTries
  <2>5. QED
    BY <1>2, <2>1, <2>2, <2>3, <2>4, RefundsByDebts DEF RInv, RefundsKeepTrue, NoNewRefund
<1>6. CASE HoldsRefund(s) /\ RetryRefund(s)
  <2>1. refund[k].state \in Unsettled
    BY <1>1, <1>6 DEF HoldsRefund
  <2>2. pay[k].state # "REFUNDED"
    BY <1>1, <2>1, RefundsByDebts DEF RInv, Unsettled
  <2>3. pay' = pay /\ \A l \in Keys \ {k} : refund'[l] = refund[l]
    BY <1>6 DEF RetryRefund
  <2>4. k \in Debts'
    BY <1>4, <2>3 DEF Debts
  <2>5. CountsTry(k)
    BY <1>1, <1>6, <2>1 DEF RetryRefund, CountsTry, RefundRows
  <2>6. \A l \in Keys : DebtStep(l)
    BY <2>3, <2>5 DEF DebtStep, SameTries
  <2>7. QED
    BY <1>2, <2>2, <2>3, <2>4, <2>6, RefundsByDebts DEF RInv, RefundsKeepTrue, NoNewRefund
<1>7. QED
  BY <1>3, <1>5, <1>6 DEF SettleRefund

LEMMA ElapseRefunds ==
    ASSUME RInv, NEW k \in Keys, Elapse(k)
    PROVE  RefundsKeepTrue
<1>1. pay \in [Keys -> PaymentRows] /\ refund \in [Keys -> RefundRows]
  BY RowTypes DEF RInv
<1>2. \/ pay' = [pay EXCEPT ![k].ready = TRUE] /\ UNCHANGED refund
      \/ refund' = [refund EXCEPT ![k].ready = TRUE] /\ UNCHANGED pay
  BY DEF Elapse
<1>3. \A l \in Keys : pay'[l].state = pay[l].state
  BY <1>1, <1>2 DEF PaymentRows
<1>4. \A l \in Keys : refund'[l].state = refund[l].state /\ refund'[l].tries = refund[l].tries
  BY <1>1, <1>2 DEF RefundRows
<1>5. NoneReturned /\ \A l \in Keys : SameTries(l)
  BY <1>3, <1>4 DEF NoneReturned, SameTries
<1>6. QED
  BY <1>5, QuietRefunds, SameSettlers DEF Elapse

LEMMA NextRefunds == RInv /\ [Next]_vars => RefundsKeepTrue
<1> SUFFICES ASSUME RInv, [Next]_vars PROVE RefundsKeepTrue
  OBVIOUS
<1>1. ASSUME NEW s \in Servers, Settling(s) \/ Crash(s) PROVE RefundsKeepTrue
  <2>1. CASE ListDue(s)
    <3>1. PICK T, D : settler' = [settler EXCEPT ![s] = Scan(T, D)]
      BY <2>1 DEF ListDue
    <3>2. Scan(T, D).pc \notin {"refund", "repaid"}
      BY DEF Scan
    <3>3. NoNewRefund
      BY <3>1, <3>2, EntryIsQuiet DEF RInv
    <3>4. QED
      BY <2>1, <3>3, SameRefunds DEF ListDue
  <2>2. CASE Crash(s)
    BY <2>2, BackIsQuiet, SameRefunds DEF Crash, RInv
  <2>3. CASE TakePayment(s) \/ CallProvider(s) \/ Settle(s)
    BY <2>3, TakePaymentRefunds, CallProviderRefunds, SettleRefunds
  <2>4. CASE TakeRefund(s) \/ CallRefund(s) \/ SettleRefund(s)
    BY <2>4, TakeRefundRefunds, CallRefundRefunds, SettleRefundRefunds
  <2>5. QED
    BY <1>1, <2>1, <2>2, <2>3, <2>4 DEF Settling
<1>2. ASSUME NEW r \in Requests, NEW k \in Keys, PayOrder(r, k) PROVE RefundsKeepTrue
  BY <1>2, PayOrderRefunds
<1>3. ASSUME NEW r \in Requests, CancelTicket(r) PROVE RefundsKeepTrue
  BY <1>3, CancelTicketRefunds
<1>4. ASSUME UNCHANGED <<pay, refund, repaid, settler>> PROVE RefundsKeepTrue
  BY <1>4, SameRefunds, SameSettlers
<1>5. CASE ExpireOrders \/ \E r \in Requests : TakeOrder(r) \/ TimePasses(r)
  BY <1>4, <1>5 DEF ExpireOrders, TakeOrder, TimePasses, payVars
<1>6. ASSUME NEW k \in Keys, Decide(k) PROVE RefundsKeepTrue
  BY <1>4, <1>6 DEF Decide
<1>7. ASSUME NEW k \in Keys, Elapse(k) PROVE RefundsKeepTrue
  BY <1>7, ElapseRefunds
<1>8. CASE UNCHANGED vars
  BY <1>4, <1>8 DEF vars, payVars
<1>9. QED
  BY <1>1, <1>2, <1>3, <1>5, <1>6, <1>7, <1>8 DEF Next

\* Money goes back for debts only, and what is called refunded is refunded.
THEOREM RefundsStayHonest == Spec => []RefundsAreTrue
<1>1. Init => RInv
  <2> SUFFICES ASSUME Init PROVE RefundsAreTrue
    BY InitTypes DEF RInv
  <2>1. \A k \in Keys : pay[k].state = "NONE" /\ refund[k].state = "NONE"
    BY DEF Init, Blank, NoRefund
  <2>2. \A s \in Servers : settler[s].pc = "scan"
    BY DEF Init, Idle, Scan
  <2>3. repaid = {}
    BY DEF Init
  <2>4. QED
    BY <2>1, <2>2, <2>3 DEF RefundsAreTrue, At
<1>2. IInv /\ RInv /\ [Next]_vars => RInv'
  BY NextRefunds, NextOrderAndMoney, RefundsStayTrue, NextTypes, TypesKeepTypeOK
     DEF IInv, RInv
<1>3. RInv => RefundsAreTrue
  BY DEF RInv
<1>4. QED
  BY <1>1, <1>2, <1>3, SpecIInv, PTL DEF Spec

-----------------------------------------------------------------------------
(* What the provider says, and what is written about it.                   *)

\* The order of a payment waits for money no more.
Over(k) == resv[pay[k].order] \notin {"NONE", "PENDING"}

\* What a server between its two transactions may conclude: only a payment
\* whose order is over is closed, and one under way that is said to have failed
\* never brings money.
Founded(e) ==
    e.pc \in Calls \cup {"settle"} =>
        /\ pay[e.key].state # "NONE"
        /\ e.pc = "create" => e.expected = "CREATED"
        /\ e.pc = "close" \/ (e.pc = "settle" /\ e.answer = "CLOSED") => Over(e.key)
        /\ e.pc = "settle" /\ e.answer = "FAILED" /\ e.expected = "PROCESSING" =>
              account[e.key] \notin {"paid", "open"}

ChargesInv ==
    /\ \A k \in Keys : pay[k].state # "NONE" => resv[pay[k].order] # "NONE"
    /\ \A s \in Servers : Founded(settler[s])

\* A payment stays with its order, an order that is over stays so, and the
\* provider does not change its mind.
VerdictStays == \A k \in Keys : pay[k].state # "NONE" /\ account[k] # "open" => account'[k] = account[k]
FactsStay ==
    /\ VerdictStays
    /\ \A k \in Keys : pay[k].state # "NONE" => pay'[k].state # "NONE" /\ (Over(k) => Over(k)')

\* A payment ends on the answer a server has in its hands.
EndsAnswered(k) ==
    pay[k].state = "PROCESSING" /\ pay'[k].state \in {"FAILED", "CLOSED"} =>
        \E s \in Servers : /\ At(s, "settle") /\ settler[s].key = k
                           /\ settler[s].expected = "PROCESSING" /\ settler[s].answer = pay'[k].state

\* One server goes on, the others wait.
OneServer(s, e) == settler' = [settler EXCEPT ![s] = e]

LEMMA BackIsFree ==
    ASSUME PaymentTypeOK, NEW s \in Servers, NEW k, NEW d,
           Resume(s) \/ Stop(s) \/ Skip(s, k) \/ SkipRefund(s, d)
    PROVE  \E e : OneServer(s, e) /\ e.pc = "scan" /\ e.key = NoPayment
<1>1. PICK T \in SUBSET Keys, D \in SUBSET (Keys \X Unsettled) :
          settler' = [settler EXCEPT ![s] = Scan(T, D)]
  BY BackToScan
<1>2. Scan(T, D).pc = "scan" /\ Scan(T, D).key = NoPayment
  BY DEF Scan
<1>3. QED
  BY <1>1, <1>2 DEF OneServer

LEMMA WorkEntry ==
    ASSUME PaymentTypeOK, NEW s \in Servers, NEW pc, NEW k, NEW expected, Work(s, pc, k, expected)
    PROVE  \E e : OneServer(s, e) /\ e.pc = pc /\ e.key = k /\ e.expected = expected
<1> DEFINE e == [settler[s] EXCEPT !.pc = pc, !.key = k, !.expected = expected,
                                   !.todo = settler[s].todo \ {k},
                                   !.refunds = settler[s].refunds \ {<<k, expected>>}]
<1>1. settler[s] \in Settlers
  BY DEF PaymentTypeOK
<1>2. e.pc = pc /\ e.key = k /\ e.expected = expected
  BY <1>1 DEF Settlers
<1>3. OneServer(s, e)
  BY DEF Work, OneServer
<1> HIDE DEF e
<1>4. QED
  BY <1>2, <1>3

AnswerIs(s, pc, a) == settler' = [settler EXCEPT ![s] = [@ EXCEPT !.pc = pc, !.answer = a]]

LEMMA AnswerEntry ==
    ASSUME PaymentTypeOK, NEW s \in Servers, NEW pc, NEW a, AnswerIs(s, pc, a)
    PROVE  \E e : /\ OneServer(s, e) /\ e.pc = pc /\ e.answer = a
                  /\ e.key = settler[s].key /\ e.expected = settler[s].expected
<1> DEFINE e == [settler[s] EXCEPT !.pc = pc, !.answer = a]
<1>1. settler[s] \in Settlers
  BY DEF PaymentTypeOK
<1>2. e.pc = pc /\ e.answer = a /\ e.key = settler[s].key /\ e.expected = settler[s].expected
  BY <1>1 DEF Settlers
<1>3. OneServer(s, e)
  BY DEF OneServer, AnswerIs
<1> HIDE DEF e
<1>4. QED
  BY <1>2, <1>3

\* What every step has to show.
ChargesKeep ==
    /\ VerdictStays
    /\ \A k \in Keys : EndsAnswered(k)
    /\ \A s \in Servers : settler'[s] = settler[s] \/ Founded(settler'[s])

LEMMA OrdersGoOn ==
    ASSUME PaymentTypeOK, OrderAndMoney
    PROVE  \A r \in Requests : /\ resv[r] # "NONE" => resv'[r] # "NONE"
                               /\ resv[r] \notin {"NONE", "PENDING"} => resv'[r] \notin {"NONE", "PENDING"}
<1> DEFINE GoOn == \A r \in Requests : /\ resv[r] # "NONE" => resv'[r] # "NONE"
                                       /\ resv[r] \notin {"NONE", "PENDING"} => resv'[r] \notin {"NONE", "PENDING"}
<1>1. DOMAIN resv = Requests
  BY DEF PaymentTypeOK, StoreTypeOK
<1>2. resv' = resv => GoOn
  OBVIOUS
<1>3. ASSUME NEW R, NEW state \in {"CANCELLED", "EXPIRED"}, GiveBack(R, state) PROVE GoOn
  BY <1>1, <1>3 DEF GiveBack
<1>4. ASSUME NEW k \in Keys, Pays(k) PROVE GoOn
  BY <1>1, <1>4 DEF Pays, Confirm
<1>5. ASSUME NEW r \in Requests, Cancel(r) PROVE GoOn
  BY <1>3, <1>5 DEF Cancel
<1>6. ASSUME NEW r \in Requests, Reserve(r) PROVE GoOn
  BY <1>1, <1>6, ReserveChecks DEF Reserve, PaymentTypeOK
<1>7. ASSUME NEW k \in Keys, GoesOn(k) \/ Pays(k) \/ Repays(k) \/ Withdraws(k) PROVE GoOn
  BY <1>2, <1>4, <1>5, <1>7 DEF GoesOn, Repays, Withdraws
<1>8. ASSUME NEW R \in SUBSET Requests, Lapses(R) PROVE GoOn
  BY <1>3, <1>8 DEF Lapses
<1>9. QED
  BY <1>2, <1>5, <1>6, <1>7, <1>8 DEF OrderAndMoney, Nothing, Asks, Forgets

\* A payment keeps its order.
LEMMA OrdersKept ==
    ASSUME OrderAndMoney, NEW k \in Keys
    PROVE  \/ pay'[k].order = pay[k].order /\ (pay'[k].state = "NONE" <=> pay[k].state = "NONE")
           \/ pay[k].state = "NONE" /\ \E r \in Requests : pay'[k].order = r /\ resv[r] = "PENDING"
<1> DEFINE Kept == pay'[k].order = pay[k].order /\ (pay'[k].state = "NONE" <=> pay[k].state = "NONE")
<1>1. Same => Kept
  BY DEF Same
<1>2. ASSUME NEW l \in Keys, GoesOn(l) \/ Pays(l) \/ Repays(l) \/ Withdraws(l) PROVE Kept
  BY <1>2 DEF GoesOn, Pays, Repays, Withdraws, Moves, Unsettled
<1>3. ASSUME NEW l \in Keys, NEW r \in Requests, Asks(l, r)
      PROVE  Kept \/ (pay[k].state = "NONE" /\ pay'[k].order = r /\ resv[r] = "PENDING")
  BY <1>3 DEF Asks
<1>4. QED
  BY <1>1, <1>2, <1>3 DEF OrderAndMoney, Nothing, Forgets, Lapses

LEMMA ChargesStay ==
    ASSUME PaymentTypeOK, PaymentTypeOK', OrderAndMoney, ChargesInv, ChargesKeep
    PROVE  ChargesInv'
<1>1. \A k \in Keys : pay[k].state # "NONE" => pay[k].order \in Requests
  BY DEF PaymentTypeOK
<1>2. \A k \in Keys : pay'[k].state # "NONE" => resv'[pay'[k].order] # "NONE"
  BY <1>1, OrdersGoOn, OrdersKept DEF ChargesInv
<1>3. FactsStay
  BY <1>1, OrdersGoOn, OrdersKept DEF FactsStay, ChargesKeep, Over
<1>4. ASSUME NEW s \in Servers PROVE \E e : e = settler'[s] /\ Founded(e)'
  <2> PICK e : e = settler'[s]
    OBVIOUS
  <2>1. Founded(e)
    BY DEF ChargesInv, ChargesKeep
  <2>2. e.pc \in Calls \cup {"settle"} => e.key \in Keys
    BY ONLY <1>4, e = settler'[s], PaymentTypeOK' DEF PaymentTypeOK, At, Calls
  <2>3. Founded(e)'
    BY <2>1, <2>2, <1>3 DEF Founded, FactsStay, VerdictStays
  <2>4. QED
    BY <2>3
<1>5. QED
  BY <1>2, <1>4 DEF ChargesInv

\* A step of one server that leaves the provider alone.
LEMMA ServerCharges ==
    ASSUME PaymentTypeOK, NEW s \in Servers, NEW e, OneServer(s, e), Founded(e),
           account' = account, \A k \in Keys : EndsAnswered(k)
    PROVE  ChargesKeep
<1>1. \A q \in Servers : settler'[q] = settler[q] \/ settler'[q] = e
  BY DEF OneServer, PaymentTypeOK
<1>2. QED
  BY <1>1 DEF ChargesKeep, VerdictStays

LEMMA BackCharges ==
    ASSUME PaymentTypeOK, NEW s \in Servers, NEW k, NEW d,
           Resume(s) \/ Stop(s) \/ Skip(s, k) \/ SkipRefund(s, d),
           account' = account, \A l \in Keys : EndsAnswered(l)
    PROVE  ChargesKeep
<1>1. PICK e : OneServer(s, e) /\ e.pc = "scan" /\ e.key = NoPayment
  BY BackIsFree
<1>2. Founded(e)
  BY <1>1 DEF Founded, Calls
<1>3. QED
  BY <1>1, <1>2, ServerCharges

LEMMA SameRows == ASSUME pay' = pay PROVE \A k \in Keys : EndsAnswered(k)
BY DEF EndsAnswered

LEMMA WriteSteps ==
    ASSUME PaymentTypeOK, NEW k \in Keys, NEW row, Write(k, row),
           \/ row.state \notin {"FAILED", "CLOSED"} \/ pay[k].state # "PROCESSING"
           \/ \E s \in Servers : /\ At(s, "settle") /\ settler[s].key = k
                                 /\ settler[s].expected = "PROCESSING" /\ settler[s].answer = row.state
    PROVE  \A l \in Keys : EndsAnswered(l)
<1>1. pay'[k] = row /\ \A l \in Keys \ {k} : pay'[l] = pay[l]
  BY DEF Write, PaymentTypeOK
<1>2. QED
  BY <1>1 DEF EndsAnswered

LEMMA RefundSteps ==
    ASSUME PaymentTypeOK, NEW k \in Keys, NEW row, RowOK(row), BeginFullRefund(k, row)
    PROVE  \A l \in Keys : EndsAnswered(l)
<1> DEFINE new == [row EXCEPT !.state = "REFUNDING", !.ready = TRUE]
<1>1. new.state = "REFUNDING" /\ Write(k, new)
  BY DEF BeginFullRefund, RowOK, PaymentRows
<1> HIDE DEF new
<1>2. QED
  BY <1>1, WriteSteps

LEMMA TakePaymentCharges ==
    ASSUME PaymentTypeOK, ChargesInv, NEW s \in Servers, TakePayment(s)
    PROVE  ChargesKeep
<1>1. PICK k \in settler[s].todo :
          \/ SkipPayment(s, k) \/ CloseUnpayable(s, k) \/ ClaimPayment(s, k)
          \/ Spend("db") /\ (Skip(s, k) \/ Stop(s)) /\ UNCHANGED pay
  BY DEF TakePayment
<1>2. k \in Keys /\ pay[k] \in PaymentRows /\ account' = account
  BY <1>1 DEF TakePayment, PaymentTypeOK, Settlers
<1>3. CASE SkipPayment(s, k) \/ ((Skip(s, k) \/ Stop(s)) /\ UNCHANGED pay)
  BY <1>2, <1>3, BackCharges, SameRows DEF SkipPayment
<1>4. CASE CloseUnpayable(s, k)
  <2> DEFINE row == [pay[k] EXCEPT !.state = "CLOSED", !.ready = TRUE]
  <2>1. row.state = "CLOSED" /\ Write(k, row) /\ pay[k].state = "CREATED"
    BY <1>2, <1>4 DEF CloseUnpayable, Unpayable, PaymentRows
  <2> HIDE DEF row
  <2>2. \A l \in Keys : EndsAnswered(l)
    BY <1>2, <2>1, WriteSteps
  <2>3. QED
    BY <1>2, <1>4, <2>2, BackCharges DEF CloseUnpayable
<1>5. CASE ClaimPayment(s, k)
  <2> DEFINE row == [pay[k] EXCEPT !.token = s, !.ready = FALSE]
  <2>1. row.state = pay[k].state /\ Write(k, row)
    BY <1>2, <1>5 DEF ClaimPayment, PaymentRows
  <2>2. pay[k].state \in Unsettled /\ ~Unpayable(k)
    BY <1>5 DEF ClaimPayment, Claimable
  <2> HIDE DEF row
  <2>3. \A l \in Keys : EndsAnswered(l)
    BY <1>2, <2>1, <2>2, WriteSteps DEF Unsettled
  <2>4. CASE Skip(s, k)
    BY <1>2, <2>3, <2>4, BackCharges
  <2>5. CASE Work(s, CallFor(k), k, pay[k].state)
    <3> PICK pc, x : pc = CallFor(k) /\ x = pay[k].state
      OBVIOUS
    <3>1. PICK e : OneServer(s, e) /\ e.pc = pc /\ e.key = k /\ e.expected = x
      BY <2>5, WorkEntry
    <3>2. Founded(e)
      BY <1>2, <2>2, <3>1 DEF Founded, ChargesInv, CallFor, Over, Unsettled
    <3>3. QED
      BY <1>2, <2>3, <3>1, <3>2, ServerCharges
  <2>6. QED
    BY <1>5, <2>4, <2>5 DEF ClaimPayment
<1>6. QED
  BY <1>1, <1>3, <1>4, <1>5

LEMMA CallProviderCharges ==
    ASSUME PaymentTypeOK, ChargesInv, NEW s \in Servers, CallProvider(s)
    PROVE  ChargesKeep
<1> PICK call, k : call = settler[s].pc /\ k = settler[s].key
  OBVIOUS
<1>1. /\ call \in Calls /\ k \in Keys /\ settler[s].expected \in Unsettled
      /\ account[k] \in {"none"} \cup Verdicts
      /\ Founded(settler[s]) /\ account' = account /\ pay' = pay
  BY RowTypes DEF CallProvider, SettlerOK, Calls, ChargesInv, PaymentTypeOK
<1>2. PICK a : AnswerIs(s, "settle", a) /\ (a = Answer(call, account[k]) \/ a = "EXCEPTION")
  BY DEF CallProvider, Answers, AnswerIs
<1>3. PICK e : /\ OneServer(s, e) /\ e.pc = "settle" /\ e.answer = a
               /\ e.key = k /\ e.expected = settler[s].expected
  BY <1>2, AnswerEntry
<1>4. /\ a = "CLOSED" => call = "close"
      /\ a = "FAILED" => \/ call = "create"
                        \/ (call = "query" /\ account[k] \notin {"paid", "open"})
  BY <1>1, <1>2 DEF Answer, Calls
<1>5. Founded(e)
  BY <1>1, <1>3, <1>4 DEF Founded, Calls
<1>6. QED
  BY <1>1, <1>3, <1>5, SameRows, ServerCharges

LEMMA SettleCharges ==
    ASSUME PaymentTypeOK, ChargesInv, NEW s \in Servers, Settle(s)
    PROVE  ChargesKeep
<1> DEFINE k == settler[s].key
<1>1. /\ k \in Keys /\ pay[k] \in PaymentRows /\ account' = account /\ settler[s].expected \in Unsettled
      /\ At(s, "settle")
  BY RowTypes DEF Settle, SettlerOK, At
<1>2. ASSUME NEW state, NEW ready PROVE Released(s, state, ready).state = state
  BY <1>1 DEF Released, PaymentRows
<1>3. \A l \in Keys : EndsAnswered(l)
  <2>1. CASE UNCHANGED pay
    BY <2>1, SameRows
  <2>2. CASE Holds(s) /\ Postpone(s)
    <3> PICK x : x = settler[s].expected
      OBVIOUS
    <3>1. Write(k, Released(s, x, FALSE)) /\ x \in Unsettled
      BY <1>1, <2>2 DEF Postpone
    <3>2. QED
      BY <1>1, <1>2, <3>1, WriteSteps DEF Unsettled
  <2>3. CASE Holds(s) /\ Move(s)
    <3> PICK a, b : a = settler[s].answer /\ b = (settler[s].expected = "PROCESSING")
      OBVIOUS
    <3>1. Write(k, Released(s, a, b)) /\ pay[k].state = settler[s].expected
      BY <2>3 DEF Move, Holds
    <3>2. QED
      BY <1>1, <1>2, <3>1, WriteSteps
  <2>4. CASE Write(k, Released(s, "SUCCEEDED", TRUE))
    BY <1>1, <1>2, <2>4, WriteSteps
  <2>5. CASE Holds(s) /\ BeginFullRefund(k, Released(s, "SUCCEEDED", TRUE))
    <3>1. RowOK(Released(s, "SUCCEEDED", TRUE))
      BY <1>1, <2>5, HeldRow, ReleasedOK DEF PaymentStates
    <3>2. QED
      BY <1>1, <2>5, <3>1, RefundSteps
  <2>6. QED
    BY <2>1, <2>2, <2>3, <2>4, <2>5 DEF Settle, Succeed, Refuse
<1>4. Resume(s) \/ Stop(s)
  BY DEF Settle
<1>5. QED
  BY <1>1, <1>3, <1>4, BackCharges

LEMMA RefundCharges ==
    ASSUME PaymentTypeOK, ChargesInv, NEW s \in Servers, TakeRefund(s) \/ CallRefund(s) \/ SettleRefund(s)
    PROVE  ChargesKeep
<1>1. CASE TakeRefund(s)
  <2>1. account' = account /\ \A l \in Keys : EndsAnswered(l)
    BY <1>1, SameRows DEF TakeRefund
  <2>2. PICK d : SkipRefund(s, d) \/ Stop(s) \/ Work(s, "refund", d[1], d[2])
    BY <1>1 DEF TakeRefund
  <2>3. CASE Work(s, "refund", d[1], d[2])
    <3>1. PICK e : OneServer(s, e) /\ e.pc = "refund"
      BY <2>3, WorkEntry
    <3>2. Founded(e)
      BY <3>1 DEF Founded, Calls
    <3>3. QED
      BY <2>1, <3>1, <3>2, ServerCharges
  <2>4. QED
    BY <2>1, <2>2, <2>3, BackCharges
<1>2. CASE CallRefund(s)
  <2>1. account' = account /\ \A l \in Keys : EndsAnswered(l)
    BY <1>2, SameRows DEF CallRefund
  <2>2. PICK a : AnswerIs(s, "repaid", a)
    <3>1. AnswerIs(s, "repaid", "SUCCEEDED") \/ AnswerIs(s, "repaid", "FAILED")
      BY <1>2 DEF CallRefund, AnswerIs
    <3>2. QED
      BY <3>1
  <2>3. PICK e : OneServer(s, e) /\ e.pc = "repaid"
    BY <2>2, AnswerEntry
  <2>4. Founded(e)
    BY <2>3 DEF Founded, Calls
  <2>5. QED
    BY <2>1, <2>3, <2>4, ServerCharges
<1>3. CASE SettleRefund(s)
  <2> DEFINE k == settler[s].key
             row == [pay[k] EXCEPT !.state = "REFUNDED", !.ready = TRUE]
  <2>1. k \in Keys /\ pay[k] \in PaymentRows /\ account' = account /\ (Resume(s) \/ Stop(s))
    BY <1>3, RowTypes DEF SettleRefund, SettlerOK, At
  <2>2. pay' = pay \/ (Write(k, row) /\ row.state = "REFUNDED")
    BY <1>3, <2>1 DEF SettleRefund, CompleteRefund, RetryRefund, PaymentRows
  <2> HIDE DEF row
  <2>3. \A l \in Keys : EndsAnswered(l)
    BY <2>1, <2>2, SameRows, WriteSteps
  <2>4. QED
    BY <2>1, <2>3, BackCharges
<1>4. QED
  BY <1>1, <1>2, <1>3

LEMMA NextCharges == PaymentTypeOK /\ ChargesInv /\ [Next]_vars => ChargesKeep
<1> SUFFICES ASSUME PaymentTypeOK, ChargesInv, [Next]_vars PROVE ChargesKeep
  OBVIOUS
<1>1. ASSUME account' = account, settler' = settler, \A k \in Keys : EndsAnswered(k) PROVE ChargesKeep
  BY <1>1 DEF ChargesKeep, VerdictStays
<1>2. ASSUME UNCHANGED payVars PROVE ChargesKeep
  BY <1>1, <1>2, SameRows DEF payVars
<1>3. ASSUME NEW s \in Servers, Settling(s) \/ Crash(s) PROVE ChargesKeep
  <2>1. CASE ListDue(s)
    <3>1. PICK e : OneServer(s, e) /\ e.pc = "scan"
      <4>1. PICK T, D : OneServer(s, Scan(T, D))
        BY <2>1 DEF ListDue, OneServer
      <4>2. Scan(T, D).pc = "scan"
        BY DEF Scan
      <4>3. QED
        BY <4>1, <4>2
    <3>2. Founded(e)
      BY <3>1 DEF Founded, Calls
    <3>3. account' = account /\ \A k \in Keys : EndsAnswered(k)
      BY <2>1, SameRows DEF ListDue
    <3>4. QED
      BY <3>1, <3>2, <3>3, ServerCharges
  <2>2. CASE Crash(s)
    BY <2>2, BackCharges, SameRows DEF Crash
  <2>3. QED
    BY <1>3, <2>1, <2>2, TakePaymentCharges, CallProviderCharges, SettleCharges, RefundCharges DEF Settling
<1>4. ASSUME NEW r \in Requests, NEW k \in Keys, PayOrder(r, k) PROVE ChargesKeep
  <2> DEFINE row == [Blank EXCEPT !.order = r, !.state = "CREATED", !.ready = TRUE]
  <2>1. row.state = "CREATED" /\ Write(k, row) /\ pay[k].state = "NONE" /\ settler' = settler
    BY <1>4 DEF PayOrder, InsertForReservation, Blank
  <2> HIDE DEF row
  <2>2. \A l \in Keys : EndsAnswered(l)
    BY <2>1, WriteSteps
  <2>3. \A l \in Keys \ {k} : account'[l] = account[l]
    BY <1>4 DEF PayOrder, InsertForReservation, PaymentTypeOK
  <2>4. QED
    BY <2>1, <2>2, <2>3 DEF ChargesKeep, VerdictStays
<1>5. ASSUME NEW r \in Requests, CancelTicket(r) PROVE ChargesKeep
  <2>1. account' = account /\ settler' = settler
    BY <1>5 DEF CancelTicket
  <2>2. pay' = pay \/ \E k \in Keys : BeginFullRefund(k, pay[k]) /\ RowOK(pay[k])
    BY <1>5, RowTypes DEF CancelTicket, SucceededOf
  <2>3. QED
    BY <1>1, <2>1, <2>2, SameRows, RefundSteps
<1>6. ASSUME NEW k \in Keys, Decide(k) PROVE ChargesKeep
  BY <1>6, SameRows DEF Decide, ChargesKeep, VerdictStays, PaymentTypeOK
<1>7. ASSUME NEW k \in Keys, Elapse(k) PROVE ChargesKeep
  <2>1. account' = account /\ settler' = settler
    BY <1>7 DEF Elapse
  <2>2. \A l \in Keys : pay'[l].state = pay[l].state
    BY <1>7, RowTypes DEF Elapse, PaymentRows
  <2>3. QED
    BY <1>1, <2>1, <2>2 DEF EndsAnswered
<1>8. QED
  BY <1>2, <1>3, <1>4, <1>5, <1>6, <1>7 DEF Next, vars, TakeOrder, TimePasses, ExpireOrders

\* What is under way is written FAILED only when the provider will never have
\* the money, and CLOSED only when its order is over, whatever answers were
\* lost between the choice of the call and the writing of its answer.
THEOREM NoMoneyIsLost == Spec => NoChargeWrittenOff
<1> DEFINE Step == \A k \in Keys : pay[k].state = "PROCESSING" /\ account[k] = "paid" =>
                     /\ pay'[k].state # "FAILED"
                     /\ pay'[k].state = "CLOSED" => resv[pay[k].order] # "PENDING"
<1>1. Init => ChargesInv
  <2> SUFFICES ASSUME Init PROVE ChargesInv
    OBVIOUS
  <2>1. \A k \in Keys : pay[k].state = "NONE"
    BY DEF Init, Blank
  <2>2. \A s \in Servers : settler[s].pc = "scan"
    BY DEF Init, Idle, Scan
  <2>3. QED
    BY <2>1, <2>2 DEF ChargesInv, Founded, Calls
<1>2. IInv /\ IInv' /\ ChargesInv /\ [Next]_vars => ChargesInv'
  BY NextOrderAndMoney, NextCharges, ChargesStay DEF IInv
<1>3. IInv /\ ChargesInv /\ [Next]_vars => [Step]_pay
  <2> SUFFICES ASSUME IInv, ChargesInv, [Next]_vars, NEW k \in Keys,
                      pay[k].state = "PROCESSING", account[k] = "paid",
                      pay'[k].state \in {"FAILED", "CLOSED"}
               PROVE  pay'[k].state = "CLOSED" /\ Over(k)
    BY DEF Over
  <2>1. EndsAnswered(k)
    BY NextCharges DEF ChargesKeep, IInv
  <2>2. PICK s \in Servers : /\ At(s, "settle") /\ settler[s].key = k
                             /\ settler[s].expected = "PROCESSING" /\ settler[s].answer = pay'[k].state
    BY <2>1 DEF EndsAnswered
  <2>3. Founded(settler[s])
    BY DEF ChargesInv
  <2>4. QED
    BY <2>2, <2>3 DEF Founded, At
<1>4. Spec => [](IInv /\ ChargesInv)
  BY <1>1, <1>2, SpecIInv, PTL DEF Spec
<1>5. Spec => [][Step]_pay
  BY <1>3, <1>4, PTL DEF Spec
<1>6. QED
  BY <1>5 DEF NoChargeWrittenOff

-----------------------------------------------------------------------------
(* Leases.                                                                  *)

NoSlowCall == budget["slow"] = Faults["slow"]

\* The row p of a payment, or the row f of its refund, that a server has in
\* hand is not due, so that nobody else can lease it; a payment whose order was
\* given up may have been closed meanwhile.
InHand(e, p, f) ==
    \/ e.pc \in Calls \cup {"settle"} /\ ((p.state \in Unsettled /\ ~p.ready) \/ p.state = "CLOSED")
    \/ e.pc \in {"refund", "repaid"} /\ ~f.ready /\ p.state \in {"REFUNDING", "REFUNDED"}

LeaseInv ==
    /\ budget["slow"] <= Faults["slow"]
    /\ \A s \in Servers : At(s, "scan") => settler[s].key = NoPayment
    /\ OneCallPerLease
    /\ NoSlowCall =>
          \A s \in Servers, k \in Keys : settler[s].key = k => InHand(settler[s], pay[k], refund[k])

\* The row in the hand of a server, as a step of another leaves it.
Keeps(q) ==
    \A k \in Keys : settler[q].key = k /\ InHand(settler[q], pay[k], refund[k]) => InHand(settler[q], pay'[k], refund'[k])

\* A server lets go, goes on with its row, or takes one that nobody has.
Takes(s, e) ==
    /\ OneServer(s, e)
    /\ e.pc = "scan" => e.key = NoPayment
    /\ NoSlowCall => /\ \A q \in Servers \ {s} : Keeps(q) /\ settler[q].key \notin {e.key} \ {NoPayment}
                     /\ \A k \in Keys : e.key = k => InHand(e, pay'[k], refund'[k])

LeaseKeeps ==
    /\ budget'["slow"] <= budget["slow"]
    /\ \/ \E s \in Servers : \E e : Takes(s, e)
       \/ settler' = settler /\ (budget'["slow"] < budget["slow"] \/ (NoSlowCall => \A q \in Servers : Keeps(q)))

LEMMA SlowTypes ==
    ASSUME PaymentTypeOK PROVE budget["slow"] \in Nat /\ Faults["slow"] \in Nat
BY PaymentsAssumption DEF PaymentTypeOK

LEMMA LeaseStays ==
    ASSUME PaymentTypeOK, PaymentTypeOK', LeaseInv, LeaseKeeps PROVE LeaseInv'
<1>1. /\ budget["slow"] \in Nat /\ budget'["slow"] \in Nat /\ Faults["slow"] \in Nat
      /\ settler \in [Servers -> Settlers] /\ settler' \in [Servers -> Settlers]
  BY SlowTypes, PaymentsAssumption DEF PaymentTypeOK
<1>2. budget'["slow"] <= Faults["slow"] /\ (NoSlowCall' => NoSlowCall /\ ~(budget'["slow"] < budget["slow"]))
  BY <1>1 DEF LeaseInv, LeaseKeeps, NoSlowCall
<1>3. CASE \E s \in Servers : \E e : Takes(s, e)
  <2>0. PICK s \in Servers : \E e : Takes(s, e)
    BY <1>3
  <2>1. PICK e : Takes(s, e)
    BY <2>0
  <2>2. settler'[s] = e /\ \A q \in Servers \ {s} : settler'[q] = settler[q]
    BY <1>1, <2>1 DEF Takes, OneServer
  <2>3. \A q \in Servers : At(q, "scan")' => settler'[q].key = NoPayment
    BY <2>1, <2>2 DEF Takes, LeaseInv, At
  <2>4. ASSUME NoSlowCall, NEW p \in Servers, NEW q \in Servers, p # q, settler'[p].key = settler'[q].key
        PROVE  settler'[p].key = NoPayment
    BY <2>1, <2>2, <2>4 DEF Takes, LeaseInv, OneCallPerLease, NoSlowCall
  <2>5. ASSUME NoSlowCall, NEW q \in Servers, NEW k \in Keys, settler'[q].key = k
        PROVE  InHand(settler'[q], pay'[k], refund'[k])
    <3>1. CASE q = s
      BY <2>1, <2>2, <2>5, <3>1 DEF Takes
    <3>2. CASE q # s
      BY <2>1, <2>2, <2>5, <3>2 DEF Takes, Keeps, LeaseInv
    <3>3. QED
      BY <3>1, <3>2
  <2>6. OneCallPerLease'
    BY <1>2, <2>4 DEF OneCallPerLease, NoSlowCall
  <2>7. QED
    BY <1>2, <2>3, <2>5, <2>6 DEF LeaseInv
<1>4. CASE settler' = settler /\ (budget'["slow"] < budget["slow"] \/ (NoSlowCall => \A q \in Servers : Keeps(q)))
  <2>1. NoSlowCall' => \A q \in Servers, k \in Keys :
                          settler'[q].key = k => InHand(settler'[q], pay'[k], refund'[k])
    BY <1>2, <1>4 DEF Keeps, LeaseInv
  <2>2. OneCallPerLease' /\ \A q \in Servers : At(q, "scan")' => settler'[q].key = NoPayment
    BY <1>2, <1>4 DEF OneCallPerLease, NoSlowCall, LeaseInv, At
  <2>3. QED
    BY <1>2, <2>1, <2>2 DEF LeaseInv
<1>5. QED
  BY <1>3, <1>4 DEF LeaseKeeps

LEMMA SlowSpends ==
    ASSUME PaymentTypeOK, NEW f \in FaultKinds, Spend(f) \/ NoFault
    PROVE  budget'["slow"] <= budget["slow"]
BY SlowTypes DEF Spend, NoFault, PaymentTypeOK

\* A server that is done with its row.
LEMMA LetsGo ==
    ASSUME PaymentTypeOK, NEW s \in Servers, NEW k, NEW d,
           Resume(s) \/ Stop(s) \/ Skip(s, k) \/ SkipRefund(s, d),
           NoSlowCall => \A q \in Servers \ {s} : Keeps(q), budget'["slow"] <= budget["slow"]
    PROVE  LeaseKeeps
<1>1. PICK e : OneServer(s, e) /\ e.pc = "scan" /\ e.key = NoPayment
  BY BackIsFree
<1>2. Takes(s, e)
  BY <1>1, PaymentsAssumption DEF Takes
<1>3. QED
  BY <1>2 DEF LeaseKeeps

LEMMA SameKeep == ASSUME UNCHANGED <<pay, refund>> PROVE \A q \in Servers : Keeps(q)
BY DEF Keeps

\* The row that a server has in hand is not in another hand.
LEMMA OwnRow ==
    ASSUME PaymentTypeOK, LeaseInv, NoSlowCall, NEW s \in Servers, settler[s].key \in Keys,
           \A l \in Keys \ {settler[s].key} : pay'[l] = pay[l] /\ refund'[l] = refund[l]
    PROVE  \A q \in Servers \ {s} : Keeps(q) /\ settler[q].key # settler[s].key
BY PaymentsAssumption DEF Keeps, LeaseInv, OneCallPerLease, NoSlowCall

LEMMA NotInHand ==
    ASSUME LeaseInv, NoSlowCall, NEW k \in Keys, \A e : ~InHand(e, pay[k], refund[k])
    PROVE  \A q \in Servers : settler[q].key # k
BY DEF LeaseInv

\* A row that changes in nobody's hand.
LEMMA LooseRow ==
    ASSUME LeaseInv, NoSlowCall, NEW k \in Keys, \A q \in Servers : settler[q].key # k,
           \A l \in Keys \ {k} : pay'[l] = pay[l] /\ refund'[l] = refund[l]
    PROVE  \A q \in Servers : Keeps(q)
BY DEF Keeps

LEMMA TakePaymentLeases ==
    ASSUME RInv, LeaseInv, NEW s \in Servers, TakePayment(s)
    PROVE  LeaseKeeps
<1>0. PaymentTypeOK /\ refund' = refund
  BY DEF RInv, TakePayment
<1>1. PICK k \in settler[s].todo :
          \/ SkipPayment(s, k) \/ CloseUnpayable(s, k) \/ ClaimPayment(s, k)
          \/ Spend("db") /\ (Skip(s, k) \/ Stop(s)) /\ UNCHANGED pay
  BY DEF TakePayment
<1>2. k \in Keys /\ pay[k] \in PaymentRows /\ pay \in [Keys -> PaymentRows] /\ settler[s] \in Settlers
  BY <1>0 DEF PaymentTypeOK, Settlers
<1>3. CASE SkipPayment(s, k) \/ (Spend("db") /\ (Skip(s, k) \/ Stop(s)) /\ UNCHANGED pay)
  <2>1. budget'["slow"] <= budget["slow"]
    BY <1>0, <1>3, SlowSpends DEF SkipPayment, NoFault
  <2>2. \A q \in Servers : Keeps(q)
    BY <1>0, <1>3, SameKeep DEF SkipPayment
  <2>3. QED
    BY <1>0, <1>3, <2>1, <2>2, LetsGo DEF SkipPayment
<1>4. CASE CloseUnpayable(s, k)
  <2>1. budget'["slow"] <= budget["slow"]
    BY <1>0, <1>4, SlowSpends DEF CloseUnpayable
  <2>2. /\ pay[k].state = "CREATED" /\ pay'[k].state = "CLOSED"
        /\ \A l \in Keys \ {k} : pay'[l] = pay[l]
    BY <1>2, <1>4 DEF CloseUnpayable, Unpayable, Write, PaymentRows
  <2>3. \A q \in Servers : Keeps(q)
    BY <1>0, <2>2 DEF Keeps, InHand
  <2>4. QED
    BY <1>0, <1>4, <2>1, <2>3, LetsGo DEF CloseUnpayable
<1>5. CASE ClaimPayment(s, k)
  <2>1. budget'["slow"] <= budget["slow"]
    BY <1>0, <1>5, SlowSpends DEF ClaimPayment
  <2>2. /\ pay[k].state \in Unsettled /\ pay[k].ready
        /\ pay'[k].state \in Unsettled /\ ~pay'[k].ready
        /\ \A l \in Keys \ {k} : pay'[l] = pay[l]
    BY <1>2, <1>5 DEF ClaimPayment, Claimable, Write, PaymentRows
  <2>3. \A e : ~InHand(e, pay[k], refund[k])
    BY <2>2 DEF InHand, Unsettled
  <2>4. NoSlowCall => \A q \in Servers : Keeps(q) /\ settler[q].key # k
    BY <1>0, <1>2, <2>2, <2>3, NotInHand, LooseRow
  <2>5. CASE Skip(s, k)
    BY <1>0, <2>1, <2>4, <2>5, LetsGo
  <2>6. CASE Work(s, CallFor(k), k, pay[k].state)
    <3> PICK pc, x : pc = CallFor(k) /\ x = pay[k].state
      OBVIOUS
    <3>1. PICK e : OneServer(s, e) /\ e.pc = pc /\ e.key = k
      BY <1>0, <2>6, WorkEntry
    <3>2. pc \in Calls
      BY DEF CallFor, Calls
    <3>3. Takes(s, e)
      BY <1>2, <2>2, <2>4, <3>1, <3>2 DEF Takes, InHand, Calls
    <3>4. QED
      BY <2>1, <3>3 DEF LeaseKeeps
  <2>7. QED
    BY <1>5, <2>5, <2>6 DEF ClaimPayment
<1>6. QED
  BY <1>1, <1>3, <1>4, <1>5

LEMMA CallLeases ==
    ASSUME RInv, LeaseInv, NEW s \in Servers, CallProvider(s) \/ CallRefund(s)
    PROVE  LeaseKeeps
<1>0. PaymentTypeOK /\ UNCHANGED <<pay, refund>>
  BY DEF RInv, CallProvider, CallRefund
<1>1. settler[s].key \in Keys
  BY <1>0, RowTypes DEF CallProvider, CallRefund, SettlerOK, At, Calls
<1>2. budget'["slow"] <= budget["slow"]
  BY <1>0, SlowSpends DEF CallProvider, CallRefund
<1>3. ASSUME NEW pc \in {"settle", "repaid"}, NEW a, AnswerIs(s, pc, a),
             pc = "settle" => settler[s].pc \in Calls, pc = "repaid" => settler[s].pc = "refund"
      PROVE  LeaseKeeps
  <2>1. PICK e : OneServer(s, e) /\ e.pc = pc /\ e.key = settler[s].key
    BY <1>0, <1>3, AnswerEntry
  <2>2. NoSlowCall => \A q \in Servers \ {s} : Keeps(q) /\ settler[q].key # e.key
    BY <1>0, <1>1, <2>1, OwnRow
  <2>3. ASSUME NoSlowCall, NEW k \in Keys, e.key = k PROVE InHand(e, pay'[k], refund'[k])
    <3>1. InHand(settler[s], pay[k], refund[k])
      BY <2>1, <2>3 DEF LeaseInv
    <3>2. QED
      BY <1>0, <1>3, <2>1, <3>1 DEF InHand, Calls
  <2>4. Takes(s, e)
    BY <1>3, <2>1, <2>2, <2>3 DEF Takes
  <2>5. QED
    BY <1>2, <2>4 DEF LeaseKeeps
<1>4. CASE CallProvider(s)
  <2>1. settler[s].pc \in Calls /\ \E a : AnswerIs(s, "settle", a)
    <3>1. QED
      BY <1>4 DEF CallProvider, Answers, AnswerIs
  <2>2. QED
    BY <1>3, <2>1
<1>5. CASE CallRefund(s)
  <2>1. AnswerIs(s, "repaid", "SUCCEEDED") \/ AnswerIs(s, "repaid", "FAILED")
    BY <1>5 DEF CallRefund, AnswerIs
  <2>2. settler[s].pc = "refund"
    BY <1>5 DEF CallRefund, At
  <2>3. QED
    BY <1>3, <2>1, <2>2
<1>6. QED
  BY <1>4, <1>5

LEMMA SettleLeases ==
    ASSUME RInv, LeaseInv, NEW s \in Servers, Settle(s) \/ SettleRefund(s)
    PROVE  LeaseKeeps
<1> DEFINE k == settler[s].key
<1>1. PaymentTypeOK /\ k \in Keys /\ pay \in [Keys -> PaymentRows] /\ refund \in [Keys -> RefundRows]
  BY RowTypes DEF RInv, Settle, SettleRefund, SettlerOK, At
<1>2. budget'["slow"] <= budget["slow"]
  BY <1>1, SlowSpends DEF Settle, SettleRefund
<1>3. \A l \in Keys \ {k} : pay'[l] = pay[l] /\ refund'[l] = refund[l]
  BY <1>1 DEF Settle, SettleRefund, Postpone, Move, Succeed, Refuse, BeginFullRefund, CompleteRefund,
              RetryRefund, Write
<1>4. Resume(s) \/ Stop(s)
  BY DEF Settle, SettleRefund
<1>5. NoSlowCall => \A q \in Servers \ {s} : Keeps(q)
  BY <1>1, <1>3, OwnRow
<1>6. QED
  BY <1>1, <1>2, <1>4, <1>5, LetsGo

LEMMA TakeRefundLeases ==
    ASSUME RInv, LeaseInv, NEW s \in Servers, TakeRefund(s)
    PROVE  LeaseKeeps
<1>0. /\ PaymentTypeOK /\ pay' = pay /\ refund \in [Keys -> RefundRows] /\ settler[s] \in Settlers
  BY DEF RInv, TakeRefund, PaymentTypeOK
<1>1. PICK d \in settler[s].refunds :
          \/ (SkipRefund(s, d) \/ Stop(s)) /\ UNCHANGED refund
          \/ /\ Leasable(d)
             /\ refund' = [refund EXCEPT ![d[1]] = [@ EXCEPT !.token = s, !.ready = FALSE]]
             /\ Work(s, "refund", d[1], d[2]) \/ SkipRefund(s, d)
  BY DEF TakeRefund
<1>2. d[1] \in Keys /\ d[2] \in Unsettled
  BY <1>0 DEF Settlers
<1>3. budget'["slow"] <= budget["slow"]
  BY <1>0, SlowSpends DEF TakeRefund
<1>4. CASE (SkipRefund(s, d) \/ Stop(s)) /\ UNCHANGED refund
  BY <1>0, <1>3, <1>4, SameKeep, LetsGo
<1>5. CASE /\ Leasable(d)
           /\ refund' = [refund EXCEPT ![d[1]] = [@ EXCEPT !.token = s, !.ready = FALSE]]
           /\ Work(s, "refund", d[1], d[2]) \/ SkipRefund(s, d)
  <2> PICK k, x : k = d[1] /\ x = d[2]
    OBVIOUS
  <2>1. k \in Keys /\ refund[k].ready /\ refund[k].state \in Unsettled
    BY <1>2, <1>5 DEF Leasable
  <2>2. pay[k].state \in {"REFUNDING", "REFUNDED"}
    BY <2>1, RefundsByDebts DEF RInv, Unsettled, Debts
  <2>3. ~refund'[k].ready /\ \A l \in Keys \ {k} : refund'[l] = refund[l]
    BY <1>0, <1>5, <2>1 DEF RefundRows
  <2>4. \A e : ~InHand(e, pay[k], refund[k])
    BY <2>1, <2>2 DEF InHand, Unsettled
  <2>5. NoSlowCall => \A q \in Servers : Keeps(q) /\ settler[q].key # k
    BY <1>0, <2>1, <2>3, <2>4, NotInHand, LooseRow
  <2>6. CASE SkipRefund(s, d)
    BY <1>0, <1>3, <2>5, <2>6, LetsGo
  <2>7. CASE Work(s, "refund", k, x)
    <3>1. PICK e : OneServer(s, e) /\ e.pc = "refund" /\ e.key = k
      BY <1>0, <2>7, WorkEntry
    <3>2. Takes(s, e)
      BY <1>0, <2>2, <2>3, <2>5, <3>1 DEF Takes, InHand
    <3>3. QED
      BY <1>3, <3>2 DEF LeaseKeeps
  <2>8. QED
    BY <1>5, <2>6, <2>7
<1>6. QED
  BY <1>1, <1>4, <1>5

LEMMA NextLeases == RInv /\ LeaseInv /\ [Next]_vars => LeaseKeeps
<1> SUFFICES ASSUME RInv, LeaseInv, [Next]_vars PROVE LeaseKeeps
  OBVIOUS
<1>0. /\ PaymentTypeOK /\ pay \in [Keys -> PaymentRows] /\ refund \in [Keys -> RefundRows]
      /\ budget["slow"] \in Nat
  BY RowTypes, SlowTypes DEF RInv
<1>1. ASSUME settler' = settler, budget'["slow"] <= budget["slow"], NoSlowCall => \A q \in Servers : Keeps(q)
      PROVE  LeaseKeeps
  BY <1>0, <1>1 DEF LeaseKeeps
<1>a. budget' = budget => budget'["slow"] <= budget["slow"]
  BY <1>0
<1>2. ASSUME UNCHANGED payVars PROVE LeaseKeeps
  BY <1>1, <1>a, <1>2, SameKeep DEF payVars
<1>3. ASSUME NEW s \in Servers, Settling(s) \/ Crash(s) PROVE LeaseKeeps
  <2>1. CASE ListDue(s)
    <3>1. PICK T, D : OneServer(s, Scan(T, D))
      BY <2>1 DEF ListDue, OneServer
    <3>2. Scan(T, D).pc = "scan" /\ Scan(T, D).key = NoPayment
      BY DEF Scan
    <3>3. UNCHANGED <<pay, refund>> /\ budget'["slow"] <= budget["slow"]
      BY <1>0, <2>1, SlowSpends DEF ListDue
    <3>4. Takes(s, Scan(T, D))
      BY <3>1, <3>2, <3>3, SameKeep, PaymentsAssumption DEF Takes
    <3>5. QED
      BY <1>0, <3>3, <3>4 DEF LeaseKeeps
  <2>2. CASE Crash(s)
    BY <1>0, <2>2, LetsGo, SameKeep, SlowSpends DEF Crash
  <2>3. QED
    BY <1>3, <2>1, <2>2, TakePaymentLeases, CallLeases, SettleLeases, TakeRefundLeases DEF Settling
<1>4. ASSUME NEW r \in Requests, NEW k \in Keys, PayOrder(r, k) PROVE LeaseKeeps
  <2>1. /\ pay[k].state = "NONE" /\ (\A l \in Keys \ {k} : pay'[l] = pay[l])
        /\ UNCHANGED <<refund, settler>> /\ budget'["slow"] <= budget["slow"]
    BY <1>0, <1>4, SlowSpends DEF PayOrder, InsertForReservation, Write
  <2>2. \A e : ~InHand(e, pay[k], refund[k])
    BY <2>1 DEF InHand, Unsettled
  <2>3. QED
    BY <1>1, <2>1, <2>2, NotInHand, LooseRow
<1>5. ASSUME NEW r \in Requests, CancelTicket(r) PROVE LeaseKeeps
  <2>1. settler' = settler /\ budget'["slow"] <= budget["slow"]
    BY <1>0, <1>5, SlowSpends DEF CancelTicket
  <2>2. CASE UNCHANGED <<pay, refund>>
    BY <1>1, <2>1, <2>2, SameKeep
  <2>3. ASSUME NEW k \in SucceededOf(r), BeginFullRefund(k, pay[k]) PROVE LeaseKeeps
    <3>1. /\ k \in Keys /\ pay[k].state = "SUCCEEDED"
          /\ \A l \in Keys \ {k} : pay'[l] = pay[l] /\ refund'[l] = refund[l]
      BY <1>0, <2>3 DEF SucceededOf, BeginFullRefund, Write
    <3>2. \A e : ~InHand(e, pay[k], refund[k])
      BY <3>1 DEF InHand, Unsettled
    <3>3. QED
      BY <1>1, <2>1, <3>1, <3>2, NotInHand, LooseRow
  <2>4. QED
    BY <1>5, <2>2, <2>3 DEF CancelTicket
<1>6. ASSUME NEW k \in Keys, Decide(k) PROVE LeaseKeeps
  BY <1>1, <1>a, <1>6, SameKeep DEF Decide
<1>7. ASSUME NEW k \in Keys, Elapse(k) PROVE LeaseKeeps
  <2>1. settler' = settler /\ \A l \in Keys \ {k} : pay'[l] = pay[l] /\ refund'[l] = refund[l]
    BY <1>0, <1>7 DEF Elapse
  <2>2. CASE Leased(k)
    <3>1. budget'["slow"] < budget["slow"] /\ budget'["slow"] <= budget["slow"]
      BY <1>0, <1>7, <2>2 DEF Elapse, Spend, PaymentTypeOK
    <3>2. QED
      BY <2>1, <3>1 DEF LeaseKeeps
  <2>3. CASE ~Leased(k)
    <3>1. budget' = budget /\ \A q \in Servers : settler[q].key # k
      BY <1>7, <2>3 DEF Elapse, NoFault, Leased
    <3>2. QED
      BY <1>1, <1>a, <2>1, <3>1, LooseRow
  <2>4. QED
    BY <2>2, <2>3
<1>8. QED
  BY <1>2, <1>3, <1>4, <1>5, <1>6, <1>7 DEF Next, vars, TakeOrder, TimePasses, ExpireOrders

\* As long as no call outlasts its lease a payment or refund is in one hand.
THEOREM LeasesExclude == Spec => []OneCallPerLease
<1>1. Init => LeaseInv
  <2> SUFFICES ASSUME Init PROVE LeaseInv
    OBVIOUS
  <2>1. \A s \in Servers : settler[s].pc = "scan" /\ settler[s].key = NoPayment
    BY DEF Init, Idle, Scan
  <2>2. budget["slow"] = Faults["slow"] /\ Faults["slow"] \in Nat
    BY PaymentsAssumption DEF Init
  <2>3. QED
    BY <2>1, <2>2, PaymentsAssumption DEF LeaseInv, OneCallPerLease
<1>2. RInv /\ PaymentTypeOK' /\ LeaseInv /\ [Next]_vars => LeaseInv'
  BY NextLeases, LeaseStays DEF RInv
<1>3. RInv <=> PaymentTypeOK /\ RefundsAreTrue
  BY DEF RInv
<1>4. LeaseInv => OneCallPerLease
  BY DEF LeaseInv
<1>5. Spec => []LeaseInv
  BY <1>1, <1>2, <1>3, PaymentTypeCorrect, RefundsStayHonest, PTL DEF Spec
<1>6. QED
  BY <1>4, <1>5, PTL
=============================================================================
