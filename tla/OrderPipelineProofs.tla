------------------------ MODULE OrderPipelineProofs ------------------------
(***************************************************************************)
(* Proofs about the order pipeline, for every number of servers, workers,  *)
(* requests and faults: it implements the ticket store, so nothing it does *)
(* can oversell, and no accepted order gets lost.  Then what depends on    *)
(* the consumers being fast and on MySQL answering: an order that is given *)
(* up is compensated once, FAILED is never said of an order that exists,   *)
(* and the cached stock never promises more than there is.                 *)
(***************************************************************************)
EXTENDS OrderPipeline, TicketStoreProofs

IInv == TypeOK /\ CarriedStateIsCurrent /\ AckedIsResolved

LEMMA RequestData == \A r \in Requests : TicketOf[r] \in Tickets /\ Qty[r] \in Nat
BY RequestsAssumption DEF MaxPerOrder

-----------------------------------------------------------------------------
(* What lasts: rows, entries and dead letters are never taken back.        *)

LEMMA RowsStay ==
    ASSUME StoreTypeOK, [StoreNext]_storeVars, NEW r \in Requests, resv[r] # "NONE"
    PROVE  resv'[r] # "NONE"
<1>1. ASSUME NEW q \in Requests,
             Reserve(q) \/ Number(q) \/ Cancel(q) \/ Confirm(q) \/ Deadline(q)
      PROVE  resv'[r] # "NONE"
  BY <1>1 DEF Reserve, Number, Cancel, GiveBack, Confirm, Deadline, StoreTypeOK
<1>2. ASSUME NEW R \in SUBSET Requests, Expire(R) PROVE resv'[r] # "NONE"
  BY <1>2 DEF Expire, GiveBack
<1>3. ASSUME NEW t \in Tickets, AddTicket(t) PROVE resv'[r] # "NONE"
  BY <1>3 DEF AddTicket
<1>4. ASSUME NEW T \in SUBSET Tickets, TakeOffline(T) PROVE resv'[r] # "NONE"
  BY <1>4 DEF TakeOffline
<1>5. ASSUME UNCHANGED storeVars PROVE resv'[r] # "NONE"
  BY <1>5 DEF storeVars
<1>6. QED
  BY <1>1, <1>2, <1>3, <1>4, <1>5 DEF StoreNext

Rows == {"NONE", "PENDING", "CONFIRMED", "CANCELLED", "EXPIRED"}

\* What an order has been it has been, and no order has been nothing.
LEMMA PastOf ==
    /\ \A v \in Rows : Past(v) \subseteq Rows \ {"NONE"}
    /\ \A v \in Rows \ {"NONE"} : v \in Past(v) /\ "PENDING" \in Past(v)
    /\ Past("NONE") = {}
BY DEF Past, Rows

LEMMA PastStays ==
    ASSUME StoreTypeOK, [StoreNext]_storeVars, NEW r \in Requests
    PROVE  Past(resv[r]) \subseteq Past(resv'[r])
<1> DEFINE old == resv[r]
           new == resv'[r]
<1>1. old \in Rows
  BY DEF StoreTypeOK, Rows
<1>2. \/ new = old
      \/ old = "NONE" /\ new = "PENDING"
      \/ old = "PENDING" /\ new \in {"CONFIRMED", "CANCELLED", "EXPIRED"}
      \/ old = "CONFIRMED" /\ new = "CANCELLED"
  <2>1. ASSUME NEW q \in Requests, Reserve(q) PROVE new = old \/ (old = "NONE" /\ new = "PENDING")
    BY <2>1 DEF Reserve, Outcome, StoreTypeOK
  <2>2. ASSUME NEW q \in Requests, Number(q) \/ Deadline(q) PROVE new = old
    BY <2>2 DEF Number, Deadline
  <2>3. ASSUME NEW q \in Requests, Cancel(q)
        PROVE  new = old \/ (old \in {"PENDING", "CONFIRMED"} /\ new = "CANCELLED")
    BY <2>3 DEF Cancel, GiveBack
  <2>4. ASSUME NEW q \in Requests, Confirm(q) PROVE new = old \/ (old = "PENDING" /\ new = "CONFIRMED")
    BY <2>4 DEF Confirm, StoreTypeOK
  <2>5. ASSUME NEW R \in SUBSET Requests, Expire(R) PROVE new = old \/ (old = "PENDING" /\ new = "EXPIRED")
    BY <2>5 DEF Expire, GiveBack, Overdue
  <2>6. ASSUME NEW t \in Tickets, AddTicket(t) PROVE new = old
    BY <2>6 DEF AddTicket
  <2>7. ASSUME NEW T \in SUBSET Tickets, TakeOffline(T) PROVE new = old
    BY <2>7 DEF TakeOffline
  <2>8. ASSUME UNCHANGED storeVars PROVE new = old
    BY <2>8 DEF storeVars
  <2> HIDE DEF old, new
  <2>9. QED
    BY <2>1, <2>2, <2>3, <2>4, <2>5, <2>6, <2>7, <2>8 DEF StoreNext
<1> HIDE DEF old, new
<1>3. Past(old) \subseteq Past(new)
  BY <1>1, <1>2 DEF Past, Rows
<1>4. QED
  BY <1>3 DEF old, new

\* The stream only grows, and what was said about its entries stays.
Grows ==
    /\ last <= last'
    /\ \A id \in 1 .. last : stream'[id] = stream[id] /\ (dead[id] # <<>> => dead'[id] # <<>>)

\* What is newly said of a request is no state its order never was in.
Silence == {"NONE", "QUEUED", "FAILED"}
AnswersKeep == \A r \in Requests : status'[r] \in {status[r]} \cup Silence \cup Past(resv'[r])

\* A step of Redis that acknowledges at most the entries of A.
QueueStep(A) == QueueTypeOK' /\ Grows /\ Acked' \subseteq Acked \cup A /\ AnswersKeep

LEMMA UnchangedQueue ==
    ASSUME QueueTypeOK, UNCHANGED queueVars
    PROVE  QueueStep({})
<1>1. QueueTypeOK'
  BY DEF QueueTypeOK, Entries, queueVars
<1>2. Grows
  BY DEF QueueTypeOK, Grows, queueVars
<1>3. Acked' = Acked /\ AnswersKeep
  BY DEF Acked, queueVars, AnswersKeep
<1>4. QED
  BY <1>1, <1>2, <1>3 DEF QueueStep

LEMMA EnqueueStep ==
    ASSUME QueueTypeOK, NEW r \in Requests, Enqueue(r)
    PROVE  QueueStep({})
<1>1. CASE Admission(r) # "QUEUED"
  BY <1>1, UnchangedQueue DEF Enqueue
<1>2. CASE Admission(r) = "QUEUED"
  <2>1. /\ stock' = [stock EXCEPT ![TicketOf[r]] = @ - Qty[r]]
        /\ stream' = Append(stream, r)
        /\ tries' = Append(tries, 0)
        /\ dead' = Append(dead, <<>>)
        /\ status' = [status EXCEPT ![r] = "QUEUED"]
        /\ last' = last /\ pel' = pel
    BY <1>2 DEF Enqueue
  <2>2. stock[TicketOf[r]] - Qty[r] \in Nat
    <3>1. TicketOf[r] \in Tickets /\ Qty[r] \in Nat
      BY RequestData
    <3>2. stock[TicketOf[r]] \in Nat \cup {NoKey}
      BY <3>1 DEF QueueTypeOK
    <3>3. status[r] = "NONE" /\ stock[TicketOf[r]] # NoKey
      BY <1>2 DEF Admission
    <3>4. ~ (stock[TicketOf[r]] < Qty[r])
      BY <1>2, <3>3 DEF Admission
    <3>5. QED
      BY <3>1, <3>2, <3>3, <3>4
  <2>3. stock' \in [Tickets -> Nat \cup {NoKey}]
    BY <2>1, <2>2 DEF QueueTypeOK
  <2>4. status' \in [Requests -> States]
    BY <2>1 DEF QueueTypeOK, States
  <2>5. stream' \in Seq(Requests) /\ Len(stream') = Len(stream) + 1
    BY <2>1 DEF QueueTypeOK
  <2>6. tries' \in Seq(0 .. MaxTries) /\ Len(tries') = Len(stream')
    BY <2>1, <2>5, MaxTriesAssumption DEF QueueTypeOK
  <2>7. dead' \in Seq(Seq(Reasons)) /\ Len(dead') = Len(stream')
    BY <2>1, <2>5 DEF QueueTypeOK
  <2>8. last' \in 0 .. Len(stream') /\ pel' \subseteq 1 .. last'
    BY <2>1, <2>5 DEF QueueTypeOK
  <2>9. QueueTypeOK'
    BY <2>3, <2>4, <2>5, <2>6, <2>7, <2>8 DEF QueueTypeOK
  <2>10. Grows
    BY <2>1 DEF Grows, QueueTypeOK
  <2>11. Acked' = Acked
    BY <2>1 DEF Acked
  <2>12. AnswersKeep
    BY <2>1 DEF AnswersKeep, Silence, QueueTypeOK
  <2>13. QED
    BY <2>9, <2>10, <2>11, <2>12 DEF QueueStep
<1>3. QED
  BY <1>1, <1>2

LEMMA PutStockStep ==
    ASSUME QueueTypeOK, NEW t \in Tickets, NEW n \in Nat, PutStock(t, n)
    PROVE  QueueStep({})
<1>1. QueueTypeOK'
  BY DEF QueueTypeOK, PutStock, Entries
<1>2. Grows
  BY DEF QueueTypeOK, Grows, PutStock
<1>3. Acked' = Acked /\ AnswersKeep
  BY DEF Acked, PutStock, AnswersKeep
<1>4. QED
  BY <1>1, <1>2, <1>3 DEF QueueStep

LEMMA InitializeStockStep ==
    ASSUME QueueTypeOK, NEW t \in Tickets, NEW n \in Nat, InitializeStock(t, n)
    PROVE  QueueStep({})
BY PutStockStep, UnchangedQueue DEF InitializeStock

LEMMA IncrStockStep ==
    ASSUME QueueTypeOK, NEW t \in Tickets, NEW n \in Nat, IncrStock(t, n)
    PROVE  QueueStep({})
<1>1. CASE stock[t] = NoKey
  BY <1>1, UnchangedQueue DEF IncrStock
<1>2. CASE stock[t] # NoKey
  <2>1. stock[t] + n \in Nat
    BY <1>2 DEF QueueTypeOK
  <2>2. QED
    BY <1>2, <2>1, PutStockStep DEF IncrStock
<1>3. QED
  BY <1>1, <1>2

LEMMA DeliverStep ==
    ASSUME QueueTypeOK, NEW id \in Entries, Deliver(id)
    PROVE  QueueStep({}) /\ id \in 1 .. last'
<1>1. last' \in 0 .. Len(stream') /\ last <= last' /\ id \in 1 .. last'
  BY DEF Deliver, QueueTypeOK, Entries
<1>2. pel' \subseteq 1 .. last'
  BY <1>1 DEF Deliver, QueueTypeOK
<1>3. Counted(id) \in 0 .. MaxTries
  BY MaxTriesAssumption DEF Counted, QueueTypeOK, Entries
<1>4. tries' \in Seq(0 .. MaxTries) /\ Len(tries') = Len(stream')
  BY <1>3 DEF Deliver, QueueTypeOK, Entries
<1>5. QueueTypeOK'
  BY <1>1, <1>2, <1>4 DEF Deliver, QueueTypeOK, Entries
<1>6. Grows
  BY <1>1 DEF Grows, Deliver
<1>7. Acked' \subseteq Acked
  <2>1. CASE id \in pel
    <3>1. last' = last /\ pel' = pel
      BY <2>1 DEF Deliver
    <3>2. QED
      BY <3>1 DEF Acked
  <2>2. CASE id \notin pel
    <3>1. id = last + 1 /\ last' = id /\ pel' = pel \cup {id} /\ last \in Nat
      BY <2>2 DEF Deliver, QueueTypeOK
    <3>2. \A i \in 1 .. id : i # id => i \in 1 .. last
      BY <3>1
    <3>3. QED
      BY <3>1, <3>2 DEF Acked
  <2>3. QED
    BY <2>1, <2>2
<1>8. AnswersKeep
  BY DEF Deliver, AnswersKeep
<1>9. QED
  BY <1>1, <1>5, <1>6, <1>7, <1>8 DEF QueueStep

LEMMA AcknowledgeStep ==
    ASSUME QueueTypeOK, NEW id \in 1 .. last, Acknowledge(id)
    PROVE  QueueStep({id})
<1>1. QueueTypeOK'
  BY DEF QueueTypeOK, Acknowledge, Entries
<1>2. Grows
  BY DEF QueueTypeOK, Grows, Acknowledge
<1>3. Acked' \subseteq Acked \cup {id} /\ AnswersKeep
  BY DEF Acked, Acknowledge, AnswersKeep
<1>4. QED
  BY <1>1, <1>2, <1>3 DEF QueueStep

LEMMA SetStatusStep ==
    ASSUME QueueTypeOK, NEW r \in Requests, NEW v \in States, SetStatus(r, v),
           v \in Silence \cup Past(resv'[r])
    PROVE  QueueStep({})
<1>1. QueueTypeOK'
  BY DEF QueueTypeOK, SetStatus, Entries
<1>2. Grows
  BY DEF QueueTypeOK, Grows, SetStatus
<1>3. Acked' = Acked
  BY DEF Acked, SetStatus
<1>4. AnswersKeep
  BY DEF SetStatus, AnswersKeep, QueueTypeOK
<1>5. QED
  BY <1>1, <1>2, <1>3, <1>4 DEF QueueStep

\* Giving up compensates and leaves a dead letter before it acknowledges.
LEMMA TerminalFailureStep ==
    ASSUME QueueTypeOK, NEW id \in 1 .. last, NEW reason \in Reasons,
           TerminalFailure(id, reason)
    PROVE  QueueStep({id}) /\ dead'[id] # <<>>
<1>1. stream[id] \in Requests /\ id \in 1 .. Len(dead) /\ dead[id] \in Seq(Reasons)
  BY DEF QueueTypeOK
<1>2. TicketOf[stream[id]] \in Tickets /\ Qty[stream[id]] \in Nat
  BY <1>1, RequestData
<1>3. stock' \in [Tickets -> Nat \cup {NoKey}]
  BY <1>2 DEF TerminalFailure, QueueTypeOK
<1>4. Append(dead[id], reason) \in Seq(Reasons) /\ Append(dead[id], reason) # <<>>
  BY <1>1
<1>5. dead' \in Seq(Seq(Reasons)) /\ Len(dead') = Len(stream')
  BY <1>1, <1>4 DEF TerminalFailure, QueueTypeOK
<1>6. status' \in [Requests -> States]
  BY <1>1 DEF TerminalFailure, QueueTypeOK, States
<1>7. QueueTypeOK'
  BY <1>3, <1>5, <1>6 DEF TerminalFailure, QueueTypeOK
<1>8. \A i \in 1 .. last : dead'[i] = IF i = id THEN Append(dead[id], reason) ELSE dead[i]
  BY <1>1 DEF TerminalFailure, QueueTypeOK
<1>9. Grows
  BY <1>4, <1>8 DEF Grows, TerminalFailure, QueueTypeOK
<1>10. Acked' \subseteq Acked \cup {id}
  BY DEF Acked, TerminalFailure
<1>11. AnswersKeep
  BY <1>1 DEF TerminalFailure, AnswersKeep, Silence, QueueTypeOK
<1>12. QED
  BY <1>4, <1>7, <1>8, <1>9, <1>10, <1>11 DEF QueueStep

-----------------------------------------------------------------------------
(* What the threads carry.                                                 *)

PCs == {"idle", "find", "txn", "recheck", "count", "fail", "zero",
        "number", "status", "ack", "incr"}
Values == States \cup Reasons \cup {""}

LEMMA GoStep ==
    ASSUME job \in [Servers -> Jobs], NEW s \in Servers, NEW pc \in PCs,
           NEW val \in Values, Go(s, pc, val)
    PROVE  /\ job' \in [Servers -> Jobs]
           /\ \A q \in Servers \ {s} : job'[q] = job[q]
           /\ job'[s].pc = pc
           /\ pc # "idle" => job'[s].msg = job[s].msg /\ job'[s].val = val
<1>1. NoTimer \in Jobs
  BY DEF NoTimer, Jobs, PCs
<1>2. job[s] \in Jobs
  OBVIOUS
<1>3. [job[s] EXCEPT !.pc = pc, !.val = val] \in Jobs
  BY <1>2 DEF Jobs, PCs, Values
<1>4. CASE pc = "idle"
  BY <1>1, <1>4 DEF Go, NoTimer
<1>5. CASE pc # "idle"
  BY <1>2, <1>3, <1>5 DEF Go, Jobs
<1>6. QED
  BY <1>4, <1>5

\* A timer that does not move stays right about its entry and its order.
LEMMA OthersStayCurrent ==
    ASSUME QueueTypeOK, StoreTypeOK, Grows, [StoreNext]_storeVars,
           NEW q \in Servers, TimerIsCurrent(q), job'[q] = job[q], last \in Nat, last' \in Nat
    PROVE  TimerIsCurrent(q)'
<1>1. ASSUME job[q].pc \in HoldsEntry
      PROVE  /\ job'[q].msg \in 1 .. last /\ job'[q].msg \in 1 .. last'
             /\ Order(q)' = Order(q) /\ Order(q) \in Requests
  BY <1>1 DEF TimerIsCurrent, Grows, Order, QueueTypeOK
<1>2. ASSUME job[q].pc \in {"number", "status", "ack"} PROVE resv'[Order(q)'] # "NONE"
  <2>1. job[q].pc \in HoldsEntry /\ resv[Order(q)] # "NONE"
    BY <1>2 DEF HoldsEntry, TimerIsCurrent
  <2>2. QED
    BY <1>1, <2>1, RowsStay
<1>3. ASSUME job[q].pc = "status" PROVE job'[q].val \in Past(resv'[Order(q)'])
  <2>1. job[q].pc \in HoldsEntry /\ job[q].val \in Past(resv[Order(q)])
    BY <1>3 DEF HoldsEntry, TimerIsCurrent
  <2>2. QED
    BY <1>1, <2>1, PastStays
<1>4. QED
  BY <1>1, <1>2, <1>3 DEF TimerIsCurrent

\* What was said of a request stays said of its past.
LEMMA AnswersStayPast ==
    ASSUME StoreTypeOK, [StoreNext]_storeVars, AnswersKeep, \A r \in Requests : AnswerIsPast(r)
    PROVE  \A r \in Requests : AnswerIsPast(r)'
BY PastStays DEF AnswersKeep, AnswerIsPast, Silence

\* Acknowledged entries stay resolved, and new ones must be.
LEMMA AckedStaysResolved ==
    ASSUME QueueTypeOK, StoreTypeOK, AckedIsResolved, [StoreNext]_storeVars,
           NEW A \in SUBSET (1 .. last), QueueStep(A),
           \A id \in A : resv'[stream[id]] # "NONE" \/ dead'[id] # <<>>
    PROVE  AckedIsResolved'
<1> SUFFICES ASSUME NEW id \in Acked' PROVE resv'[stream'[id]] # "NONE" \/ dead'[id] # <<>>
  BY DEF AckedIsResolved, Resolved
<1>1. id \in Acked \/ id \in A
  BY DEF QueueStep
<1>2. id \in 1 .. last
  BY <1>1 DEF Acked
<1>3. stream'[id] = stream[id] /\ stream[id] \in Requests
  BY <1>2 DEF QueueStep, Grows, QueueTypeOK
<1>4. CASE id \in A
  BY <1>3, <1>4
<1>5. CASE id \in Acked
  <2>1. resv[stream[id]] # "NONE" \/ dead[id] # <<>>
    BY <1>5 DEF AckedIsResolved, Resolved
  <2>2. QED
    BY <1>2, <1>3, <2>1, RowsStay DEF QueueStep, Grows
<1>6. QED
  BY <1>1, <1>4, <1>5

Budgets == [{"db", "redis", "crash", "ttl"} -> Nat]

LEMMA SpendStep ==
    ASSUME budget \in Budgets, NEW k \in {"db", "redis", "crash", "ttl"}, NoFault \/ Spend(k)
    PROVE  budget' \in Budgets
BY DEF Budgets, NoFault, Spend

\* What the queue shows in a step that may acknowledge: only entries that are
\* resolved by then.
QueueKeeps ==
    \E A \in SUBSET (1 .. last) :
        QueueStep(A) /\ \A id \in A : resv'[stream[id]] # "NONE" \/ dead'[id] # <<>>

LEMMA QuietQueue == ASSUME QueueStep({}) PROVE QueueKeeps
BY DEF QueueKeeps

\* A step of a timer on the store, the queue and the faults.
Around ==
    /\ [StoreNext]_storeVars /\ QueueKeeps
    /\ api' = api /\ reply' = reply /\ budget' \in Budgets

\* A timer arrives at pc with what it must carry there.
Arrives(s, pc, val) ==
    /\ Go(s, pc, val)
    /\ pc \in PCs \ {"incr"} /\ val \in Values
    /\ pc \in {"recheck", "count", "fail"} => val \in Reasons
    /\ pc = "status" => val \in Past(resv'[Order(s)])
    /\ pc \in {"number", "status", "ack"} => resv'[Order(s)] # "NONE"

Replies == {"none", "QUEUED", "DUPLICATE", "NO_TICKET", "UNAVAILABLE"}

CallIsCurrent(w) ==
    api[w].pc \in {"cold", "init", "again", "incr"} => api[w].req \in Requests

CallsKeep == api' \in [Workers -> Calls] /\ \A w \in Workers : CallIsCurrent(w)'

\* What a step has to show for the invariant to hold again.
StepKeeps ==
    /\ [StoreNext]_storeVars /\ QueueKeeps /\ budget' \in Budgets
    /\ job' \in [Servers -> Jobs]
    /\ \A s \in Servers : job'[s] = job[s] \/ TimerIsCurrent(s)'
    /\ CallsKeep /\ reply' \in [Requests -> Replies]

LEMMA StepKeepsIInv ==
    ASSUME IInv, StepKeeps
    PROVE  IInv'
<1> USE DEF IInv
<1>1. PICK A \in SUBSET (1 .. last) :
          QueueStep(A) /\ \A id \in A : resv'[stream[id]] # "NONE" \/ dead'[id] # <<>>
  BY DEF StepKeeps, QueueKeeps
<1>2. /\ StoreTypeOK /\ QueueTypeOK /\ job \in [Servers -> Jobs] /\ api \in [Workers -> Calls]
      /\ [StoreNext]_storeVars
  BY DEF TypeOK, StepKeeps
<1>3. StoreTypeOK' /\ QueueTypeOK' /\ Grows
  BY <1>1, <1>2, StoreStepTypeOK DEF QueueStep
<1>4. TypeOK'
  BY <1>3 DEF TypeOK, StepKeeps, CallsKeep, Budgets, Replies
<1>5. AckedIsResolved'
  BY <1>1, <1>2, AckedStaysResolved
<1>6. last \in Nat /\ last' \in Nat
  BY <1>2, <1>3 DEF QueueTypeOK
<1>7. ASSUME NEW s \in Servers PROVE TimerIsCurrent(s)'
  <2>1. CASE TimerIsCurrent(s)'
    BY <2>1
  <2>2. CASE job'[s] = job[s]
    <3>1. TimerIsCurrent(s)
      BY DEF CarriedStateIsCurrent
    <3>2. QED
      BY <1>2, <1>3, <1>6, <2>2, <3>1, OthersStayCurrent
  <2>3. QED
    BY <2>1, <2>2 DEF StepKeeps
<1>8. \A r \in Requests : AnswerIsPast(r)'
  BY <1>1, <1>2, AnswersStayPast DEF CarriedStateIsCurrent, QueueStep
<1>9. CarriedStateIsCurrent'
  BY <1>7, <1>8 DEF CarriedStateIsCurrent, StepKeeps, CallsKeep, CallIsCurrent
<1>10. QED
  BY <1>4, <1>5, <1>9

\* What a step of timer s has to show.
TimerKeeps(s) ==
    /\ Around
    /\ job' \in [Servers -> Jobs] /\ (\A q \in Servers \ {s} : job'[q] = job[q])
    /\ TimerIsCurrent(s)'

LEMMA SameCalls ==
    ASSUME IInv, api' = api
    PROVE  CallsKeep
BY DEF IInv, TypeOK, CarriedStateIsCurrent, CallsKeep, CallIsCurrent

LEMMA TimerKeepsIInv ==
    ASSUME IInv, NEW s \in Servers, TimerKeeps(s)
    PROVE  IInv'
<1>1. reply' \in [Requests -> Replies]
  BY DEF IInv, TypeOK, TimerKeeps, Around, Replies
<1>2. CallsKeep
  BY SameCalls DEF TimerKeeps, Around
<1>3. StepKeeps
  BY <1>1, <1>2 DEF TimerKeeps, Around, StepKeeps
<1>4. QED
  BY <1>3, StepKeepsIInv

-----------------------------------------------------------------------------
(* The steps of a timer thread.                                            *)

\* The entry a timer holds was delivered, so it names a request.
LEMMA InHand ==
    ASSUME IInv, NEW s \in Servers, job[s].pc \in HoldsEntry
    PROVE  job[s].msg \in 1 .. last /\ Order(s) \in Requests /\ stream[job[s].msg] = Order(s)
BY DEF IInv, TypeOK, QueueTypeOK, CarriedStateIsCurrent, TimerIsCurrent, Order

\* The part all steps with an entry in hand have in common.
LEMMA GoKeeps ==
    ASSUME IInv, NEW s \in Servers, job[s].pc \in HoldsEntry, Around,
           NEW pc, NEW val, Arrives(s, pc, val)
    PROVE  TimerKeeps(s)
<1>1. job \in [Servers -> Jobs] /\ QueueTypeOK
  BY DEF IInv, TypeOK
<1>2. /\ job' \in [Servers -> Jobs] /\ (\A q \in Servers \ {s} : job'[q] = job[q])
      /\ job'[s].pc = pc
      /\ pc # "idle" => job'[s].msg = job[s].msg /\ job'[s].val = val
  BY <1>1, GoStep DEF Arrives
<1>3. job[s].msg \in 1 .. last /\ stream[job[s].msg] = Order(s)
  BY InHand
<1>4. job[s].msg \in 1 .. last' /\ stream'[job[s].msg] = Order(s)
  BY <1>1, <1>3 DEF Around, QueueKeeps, QueueStep, Grows, QueueTypeOK
<1>5. TimerIsCurrent(s)'
  <2>1. CASE pc = "idle"
    BY <1>2, <2>1 DEF TimerIsCurrent, HoldsEntry
  <2>2. CASE pc # "idle"
    <3>1. Order(s)' = Order(s)
      BY <1>2, <1>4, <2>2 DEF Order
    <3>2. QED
      BY <1>2, <1>4, <2>2, <3>1 DEF TimerIsCurrent, Arrives
  <2>3. QED
    BY <2>1, <2>2
<1>6. QED
  BY <1>2, <1>5 DEF TimerKeeps

\* What the steps with an entry in hand start from.
LEMMA Basics ==
    ASSUME IInv
    PROVE  /\ StoreTypeOK /\ QueueTypeOK /\ job \in [Servers -> Jobs] /\ budget \in Budgets
           /\ \A r \in Requests : resv[r] \in States
           /\ \A s \in Servers : TimerIsCurrent(s)
BY DEF IInv, TypeOK, Budgets, StoreTypeOK, States, CarriedStateIsCurrent

LEMMA PollKeeps ==
    ASSUME IInv, NEW s \in Servers, NEW id \in Entries, Poll(s, id)
    PROVE  TimerKeeps(s)
<1>1. QueueTypeOK /\ job \in [Servers -> Jobs] /\ budget \in Budgets
  BY DEF IInv, TypeOK, Budgets
<1>2. QueueStep({}) /\ id \in 1 .. last'
  BY <1>1, DeliverStep DEF Poll
<1>3. id \in Nat
  BY <1>1 DEF QueueTypeOK, Entries
<1>4. CASE job' = [job EXCEPT ![s].pc = "find", ![s].msg = id] /\ NoFault
  <2>1. [job[s] EXCEPT !.pc = "find", !.msg = id] \in Jobs
    BY <1>1, <1>3 DEF Jobs
  <2>2. job' = [job EXCEPT ![s] = [job[s] EXCEPT !.pc = "find", !.msg = id]]
    BY <1>1, <1>4 DEF Jobs
  <2>3. job' \in [Servers -> Jobs] /\ job'[s].pc = "find" /\ job'[s].msg = id
    BY <1>1, <2>1, <2>2 DEF Jobs
  <2>4. TimerIsCurrent(s)'
    BY <1>2, <2>3 DEF TimerIsCurrent
  <2>5. QED
    BY <1>1, <1>2, <1>4, <2>2, <2>3, <2>4, QuietQueue DEF TimerKeeps, Around, Poll, NoFault
<1>5. CASE Spend("redis") /\ UNCHANGED job
  <2>1. TimerIsCurrent(s)'
    BY <1>5 DEF TimerIsCurrent, Poll, At, HoldsEntry
  <2>2. budget' \in Budgets
    BY <1>1, <1>5, SpendStep
  <2>3. QED
    BY <1>1, <1>2, <1>5, <2>1, <2>2, QuietQueue DEF TimerKeeps, Around, Poll
<1>6. QED
  BY <1>4, <1>5 DEF Poll

LEMMA FindOrderKeeps ==
    ASSUME IInv, NEW s \in Servers, FindOrder(s) PROVE TimerKeeps(s)
<1>1. job[s].pc \in HoldsEntry
  BY DEF FindOrder, At, HoldsEntry
<1>2. Around /\ resv' = resv
  BY Basics, UnchangedQueue, QuietQueue, SpendStep DEF Around, FindOrder, storeVars
<1>3. Order(s) \in Requests /\ resv[Order(s)] \in States
  BY <1>1, InHand, Basics
<1>4. CASE resv[Order(s)] # "NONE" /\ Go(s, "status", resv[Order(s)])
  <2>1. Arrives(s, "status", resv[Order(s)])
    BY <1>2, <1>3, <1>4, Basics, PastOf DEF Arrives, PCs, Values, Rows, StoreTypeOK
  <2>2. QED
    BY <1>1, <1>2, <2>1, GoKeeps
<1>5. CASE Go(s, "txn", "")
  <2>1. Arrives(s, "txn", "")
    BY <1>5 DEF Arrives, PCs, Values
  <2>2. QED
    BY <1>1, <1>2, <2>1, GoKeeps
<1>6. CASE Go(s, "count", "DB_UNAVAILABLE")
  <2>1. Arrives(s, "count", "DB_UNAVAILABLE")
    BY <1>6 DEF Arrives, PCs, Values, Reasons
  <2>2. QED
    BY <1>1, <1>2, <2>1, GoKeeps
<1>7. QED
  BY <1>4, <1>5, <1>6 DEF FindOrder

LEMMA TransactKeeps ==
    ASSUME IInv, NEW s \in Servers, Transact(s) PROVE TimerKeeps(s)
<1>1. job[s].pc \in HoldsEntry
  BY DEF Transact, At, HoldsEntry
<1>2. Order(s) \in Requests
  BY <1>1, InHand
<1>3. [StoreNext]_storeVars
  BY <1>2 DEF Transact, StoreNext
<1>4. Around
  BY <1>3, Basics, UnchangedQueue, QuietQueue, SpendStep DEF Around, Transact
<1>5. CASE Reserve(Order(s)) /\ Go(s, "number", "")
  <2>1. resv'[Order(s)] # "NONE"
    BY <1>2, <1>5, Basics DEF Reserve, StoreTypeOK
  <2>2. Arrives(s, "number", "")
    BY <1>5, <2>1 DEF Arrives, PCs, Values
  <2>3. QED
    BY <1>1, <1>4, <2>2, GoKeeps
<1>6. CASE Go(s, "recheck", "DB_UPDATE")
  <2>1. Arrives(s, "recheck", "DB_UPDATE")
    BY <1>6 DEF Arrives, PCs, Values, Reasons
  <2>2. QED
    BY <1>1, <1>4, <2>1, GoKeeps
<1>7. CASE Outcome(Order(s)) # "OK" /\ Go(s, "recheck", Outcome(Order(s)))
  <2>1. shelf[TicketOf[Order(s)]] \in {"absent", "onsale", "offline"}
    BY <1>2, RequestData, Basics DEF StoreTypeOK
  <2>2. Outcome(Order(s)) \in Reasons
    BY <1>7, <2>1 DEF Outcome, Reasons
  <2>3. Arrives(s, "recheck", Outcome(Order(s)))
    BY <1>7, <2>2 DEF Arrives, PCs, Values
  <2>4. QED
    BY <1>1, <1>4, <2>3, GoKeeps
<1>8. CASE Go(s, "idle", "")
  <2>1. Arrives(s, "idle", "")
    BY <1>8 DEF Arrives, PCs, Values
  <2>2. QED
    BY <1>1, <1>4, <2>1, GoKeeps
<1>9. CASE \E f \in StatementFailures(Order(s)) : Go(s, "recheck", f)
  <2>1. PICK f \in StatementFailures(Order(s)) : Go(s, "recheck", f)
    BY <1>9
  <2>2. f \in Reasons
    BY DEF StatementFailures, Reasons
  <2>3. Arrives(s, "recheck", f)
    BY <2>1, <2>2 DEF Arrives, PCs, Values
  <2>4. QED
    BY <1>1, <1>4, <2>3, GoKeeps
<1>10. QED
  BY <1>5, <1>6, <1>7, <1>8, <1>9 DEF Transact

LEMMA RecheckKeeps ==
    ASSUME IInv, NEW s \in Servers, Recheck(s) PROVE TimerKeeps(s)
<1>1. job[s].pc \in HoldsEntry /\ job[s].pc = "recheck"
  BY DEF Recheck, At, HoldsEntry
<1>2. Around /\ resv' = resv
  BY Basics, UnchangedQueue, QuietQueue, SpendStep DEF Around, Recheck, storeVars
<1>3. Order(s) \in Requests /\ resv[Order(s)] \in States
  BY <1>1, InHand, Basics
<1>4. job[s].val \in Reasons
  BY <1>1, Basics DEF TimerIsCurrent
<1>5. CASE resv[Order(s)] # "NONE" /\ Go(s, "status", resv[Order(s)])
  <2>1. Arrives(s, "status", resv[Order(s)])
    BY <1>2, <1>3, <1>5, Basics, PastOf DEF Arrives, PCs, Values, Rows, StoreTypeOK
  <2>2. QED
    BY <1>1, <1>2, <2>1, GoKeeps
<1>6. CASE Go(s, "fail", job[s].val)
  <2>1. Arrives(s, "fail", job[s].val)
    BY <1>4, <1>6 DEF Arrives, PCs, Values
  <2>2. QED
    BY <1>1, <1>2, <2>1, GoKeeps
<1>7. CASE Go(s, "count", job[s].val)
  <2>1. Arrives(s, "count", job[s].val)
    BY <1>4, <1>7 DEF Arrives, PCs, Values
  <2>2. QED
    BY <1>1, <1>2, <2>1, GoKeeps
<1>8. QED
  BY <1>5, <1>6, <1>7 DEF Recheck

LEMMA CountTriesKeeps ==
    ASSUME IInv, NEW s \in Servers, CountTries(s) PROVE TimerKeeps(s)
<1>1. job[s].pc \in HoldsEntry /\ job[s].pc = "count"
  BY DEF CountTries, At, HoldsEntry
<1>2. Around
  BY Basics, UnchangedQueue, QuietQueue, SpendStep DEF Around, CountTries
<1>3. job[s].val \in Reasons
  BY <1>1, Basics DEF TimerIsCurrent
<1>4. CASE Go(s, "fail", job[s].val)
  <2>1. Arrives(s, "fail", job[s].val)
    BY <1>3, <1>4 DEF Arrives, PCs, Values
  <2>2. QED
    BY <1>1, <1>2, <2>1, GoKeeps
<1>5. CASE Go(s, "idle", "")
  <2>1. Arrives(s, "idle", "")
    BY <1>5 DEF Arrives, PCs, Values
  <2>2. QED
    BY <1>1, <1>2, <2>1, GoKeeps
<1>6. QED
  BY <1>4, <1>5 DEF CountTries

LEMMA GiveUpKeeps ==
    ASSUME IInv, NEW s \in Servers, GiveUp(s) PROVE TimerKeeps(s)
<1>1. job[s].pc \in HoldsEntry /\ job[s].pc = "fail"
  BY DEF GiveUp, At, HoldsEntry
<1>2. job[s].msg \in 1 .. last /\ job[s].val \in Reasons
  BY <1>1, InHand, Basics DEF TimerIsCurrent
<1>3. QueueKeeps
  <2>1. CASE TerminalFailure(job[s].msg, job[s].val)
    <3>1. QueueStep({job[s].msg}) /\ dead'[job[s].msg] # <<>>
      BY <1>2, <2>1, Basics, TerminalFailureStep
    <3>2. {job[s].msg} \in SUBSET (1 .. last)
      BY <1>2
    <3>3. \A id \in {job[s].msg} : resv'[stream[id]] # "NONE" \/ dead'[id] # <<>>
      BY <3>1
    <3>4. QED
      BY <3>1, <3>2, <3>3 DEF QueueKeeps
  <2>2. CASE UNCHANGED queueVars
    BY <2>2, Basics, UnchangedQueue, QuietQueue
  <2>3. QED
    BY <2>1, <2>2 DEF GiveUp, Unchecked
<1>4. Around
  BY <1>3, Basics, SpendStep DEF Around, GiveUp, Unchecked
<1>5. CASE Go(s, "zero", "")
  <2>1. Arrives(s, "zero", "")
    BY <1>5 DEF Arrives, PCs, Values
  <2>2. QED
    BY <1>1, <1>4, <2>1, GoKeeps
<1>6. CASE Go(s, "idle", "")
  <2>1. Arrives(s, "idle", "")
    BY <1>6 DEF Arrives, PCs, Values
  <2>2. QED
    BY <1>1, <1>4, <2>1, GoKeeps
<1>7. QED
  BY <1>5, <1>6 DEF GiveUp

LEMMA ZeroStockKeeps ==
    ASSUME IInv, NEW s \in Servers, ZeroStock(s) PROVE TimerKeeps(s)
<1>1. job[s].pc \in HoldsEntry
  BY DEF ZeroStock, At, HoldsEntry
<1>2. TicketOf[Order(s)] \in Tickets
  BY <1>1, InHand, RequestData
<1>3. QueueKeeps
  BY <1>2, Basics, PutStockStep, UnchangedQueue, QuietQueue DEF ZeroStock, Unchecked
<1>4. Around
  BY <1>3, Basics, SpendStep DEF Around, ZeroStock, Unchecked
<1>5. Arrives(s, "idle", "")
  BY DEF ZeroStock, Arrives, PCs, Values
<1>6. QED
  BY <1>1, <1>4, <1>5, GoKeeps

LEMMA NumberOrderKeeps ==
    ASSUME IInv, NEW s \in Servers, NumberOrder(s) PROVE TimerKeeps(s)
<1>1. job[s].pc \in HoldsEntry /\ job[s].pc = "number"
  BY DEF NumberOrder, At, HoldsEntry
<1>2. Order(s) \in Requests /\ resv[Order(s)] # "NONE"
  BY <1>1, InHand, Basics DEF TimerIsCurrent
<1>3. [StoreNext]_storeVars
  BY <1>2 DEF NumberOrder, StoreNext
<1>4. Around
  BY <1>3, Basics, UnchangedQueue, QuietQueue, SpendStep DEF Around, NumberOrder
<1>5. resv'[Order(s)] # "NONE"
  BY <1>2, <1>3, Basics, RowsStay
<1>6. Arrives(s, "status", "PENDING")
  <2>1. resv'[Order(s)] \in Rows
    BY <1>2, <1>3, Basics, StoreStepTypeOK DEF StoreTypeOK, Rows
  <2>2. QED
    BY <1>5, <2>1, PastOf DEF NumberOrder, Arrives, PCs, Values, States
<1>7. QED
  BY <1>1, <1>4, <1>6, GoKeeps

LEMMA PublishStatusKeeps ==
    ASSUME IInv, NEW s \in Servers, PublishStatus(s) PROVE TimerKeeps(s)
<1>1. job[s].pc \in HoldsEntry /\ job[s].pc = "status"
  BY DEF PublishStatus, At, HoldsEntry
<1>2. /\ Order(s) \in Requests /\ resv[Order(s)] # "NONE" /\ job[s].val \in States
      /\ job[s].val \in Past(resv'[Order(s)])
  <2>1. Order(s) \in Requests /\ resv[Order(s)] # "NONE" /\ job[s].val \in Past(resv[Order(s)])
    BY <1>1, InHand, Basics DEF TimerIsCurrent
  <2>2. resv' = resv /\ resv[Order(s)] \in Rows
    BY <2>1, Basics DEF PublishStatus, storeVars, StoreTypeOK, Rows
  <2>3. QED
    BY <2>1, <2>2, PastOf DEF Rows, States
<1>3. QueueKeeps
  BY <1>2, Basics, SetStatusStep, UnchangedQueue, QuietQueue DEF PublishStatus, Unchecked
<1>4. Around
  BY <1>3, Basics, SpendStep DEF Around, PublishStatus, Unchecked
<1>5. Arrives(s, "ack", "")
  BY <1>2 DEF PublishStatus, storeVars, Arrives, PCs, Values
<1>6. QED
  BY <1>1, <1>4, <1>5, GoKeeps

LEMMA AckOrderKeeps ==
    ASSUME IInv, NEW s \in Servers, AckOrder(s) PROVE TimerKeeps(s)
<1>1. job[s].pc \in HoldsEntry /\ job[s].pc = "ack"
  BY DEF AckOrder, At, HoldsEntry
<1>2. /\ job[s].msg \in 1 .. last /\ stream[job[s].msg] = Order(s)
      /\ resv[Order(s)] # "NONE"
  BY <1>1, InHand, Basics DEF TimerIsCurrent
<1>3. resv' = resv
  BY DEF AckOrder, storeVars
<1>4. QueueKeeps
  <2>1. CASE Acknowledge(job[s].msg)
    <3>1. QueueStep({job[s].msg})
      BY <1>2, <2>1, Basics, AcknowledgeStep
    <3>2. {job[s].msg} \in SUBSET (1 .. last)
      BY <1>2
    <3>3. \A id \in {job[s].msg} : resv'[stream[id]] # "NONE" \/ dead'[id] # <<>>
      BY <1>2, <1>3
    <3>4. QED
      BY <3>1, <3>2, <3>3 DEF QueueKeeps
  <2>2. CASE UNCHANGED queueVars
    BY <2>2, Basics, UnchangedQueue, QuietQueue
  <2>3. QED
    BY <2>1, <2>2 DEF AckOrder, Unchecked
<1>5. Around
  BY <1>4, Basics, SpendStep DEF Around, AckOrder, Unchecked
<1>6. Arrives(s, "idle", "")
  BY DEF AckOrder, Arrives, PCs, Values
<1>7. QED
  BY <1>1, <1>5, <1>6, GoKeeps

LEMMA ExpireOrdersKeeps ==
    ASSUME IInv, NEW s \in Servers, ExpireOrders(s) PROVE TimerKeeps(s)
<1>1. PICK R \in SUBSET Requests :
          /\ Expire(R)
          /\ \/ job' = [job EXCEPT ![s] = Expiring(R)] /\ NoFault
             \/ Spend("db") /\ UNCHANGED job
  BY DEF ExpireOrders
<1>2. [StoreNext]_storeVars
  BY <1>1 DEF StoreNext
<1>3. Around
  BY <1>1, <1>2, Basics, UnchangedQueue, QuietQueue, SpendStep DEF Around, ExpireOrders
<1>4. job[s] \in Jobs /\ job \in [Servers -> Jobs]
  BY Basics
<1>5. CASE job' = [job EXCEPT ![s] = Expiring(R)]
  <2>1. Expiring(R) \in Jobs /\ Expiring(R).pc = "incr"
    BY DEF Expiring, Jobs
  <2>2. job' \in [Servers -> Jobs] /\ job'[s].pc = "incr"
    BY <1>4, <1>5, <2>1
  <2>3. TimerIsCurrent(s)'
    BY <2>2 DEF TimerIsCurrent, HoldsEntry
  <2>4. QED
    BY <1>3, <1>4, <1>5, <2>2, <2>3 DEF TimerKeeps
<1>6. CASE UNCHANGED job
  BY <1>3, <1>4, <1>6 DEF TimerKeeps, TimerIsCurrent, HoldsEntry, ExpireOrders, At
<1>7. QED
  BY <1>1, <1>5, <1>6

LEMMA IncrExpiredKeeps ==
    ASSUME IInv, NEW s \in Servers, IncrExpired(s) PROVE TimerKeeps(s)
<1>1. PICK r \in job[s].todo :
          /\ Unchecked(IncrStock(TicketOf[r], Qty[r]))
          /\ job' = [job EXCEPT ![s] = IF @.todo = {r} THEN NoTimer
                                       ELSE Expiring(@.todo \ {r})]
  BY DEF IncrExpired
<1>2. job[s] \in Jobs /\ job[s].pc = "incr" /\ r \in Requests
  BY Basics DEF IncrExpired, At, Jobs
<1>3. QueueKeeps
  BY <1>1, <1>2, RequestData, Basics, IncrStockStep, UnchangedQueue, QuietQueue DEF Unchecked
<1>4. Around
  BY <1>1, <1>3, Basics, SpendStep DEF Around, IncrExpired, Unchecked
<1>5. /\ NoTimer \in Jobs /\ NoTimer.pc = "idle"
      /\ Expiring(job[s].todo \ {r}) \in Jobs /\ Expiring(job[s].todo \ {r}).pc = "incr"
  BY <1>2 DEF NoTimer, Expiring, Jobs
<1>6. /\ job' \in [Servers -> Jobs] /\ job'[s].pc \in {"idle", "incr"}
      /\ \A q \in Servers \ {s} : job'[q] = job[q]
  BY <1>1, <1>5, Basics
<1>7. TimerIsCurrent(s)'
  BY <1>6 DEF TimerIsCurrent, HoldsEntry
<1>8. QED
  BY <1>4, <1>6, <1>7 DEF TimerKeeps

LEMMA RefreshTicketStatusKeeps ==
    ASSUME IInv, NEW s \in Servers, RefreshTicketStatus(s) PROVE TimerKeeps(s)
<1>1. [StoreNext]_storeVars
  BY DEF RefreshTicketStatus, StoreNext
<1>2. Around
  BY <1>1, Basics, UnchangedQueue, QuietQueue DEF Around, RefreshTicketStatus, procVars
<1>3. QED
  BY <1>2, Basics
     DEF TimerKeeps, TimerIsCurrent, HoldsEntry, RefreshTicketStatus, At, procVars

-----------------------------------------------------------------------------
(* The steps of the worker threads and of the surroundings.                *)

\* A worker goes on with what it must carry.
Carries(w, pc, r, V) ==
    /\ Call(w, pc, r, V)
    /\ [pc |-> pc, req |-> r, vals |-> V] \in Calls
    /\ pc \in {"cold", "init", "again", "incr"} => r \in Requests

LEMMA CarriesKeeps ==
    ASSUME IInv, NEW w \in Workers, NEW pc, NEW r, NEW V, Carries(w, pc, r, V)
    PROVE  CallsKeep
<1>1. api \in [Workers -> Calls] /\ \A v \in Workers : CallIsCurrent(v)
  BY DEF IInv, TypeOK, CarriedStateIsCurrent, CallIsCurrent
<1>2. api' = [api EXCEPT ![w] = [pc |-> pc, req |-> r, vals |-> V]]
  BY DEF Carries, Call
<1>3. api' \in [Workers -> Calls]
  BY <1>1, <1>2 DEF Carries
<1>4. ASSUME NEW v \in Workers PROVE CallIsCurrent(v)'
  BY <1>1, <1>2 DEF Carries, CallIsCurrent
<1>5. QED
  BY <1>3, <1>4 DEF CallsKeep

LEMMA ReturnKeeps ==
    ASSUME IInv, NEW w \in Workers, Return(w)
    PROVE  CallsKeep
<1>1. api \in [Workers -> Calls] /\ \A v \in Workers : CallIsCurrent(v)
  BY DEF IInv, TypeOK, CarriedStateIsCurrent, CallIsCurrent
<1>2. NoCall \in Calls /\ NoCall.pc = "idle"
  BY DEF NoCall, Calls
<1>3. api' \in [Workers -> Calls]
  BY <1>1, <1>2 DEF Return
<1>4. ASSUME NEW v \in Workers PROVE CallIsCurrent(v)'
  BY <1>1, <1>2 DEF Return, CallIsCurrent
<1>5. QED
  BY <1>3, <1>4 DEF CallsKeep

LEMMA AnswerKeeps ==
    ASSUME IInv, NEW r \in Requests, NEW a \in Replies, Answer(r, a)
    PROVE  reply' \in [Requests -> Replies]
BY DEF IInv, TypeOK, Answer, Replies

LEMMA SameReplies ==
    ASSUME IInv, reply' = reply
    PROVE  reply' \in [Requests -> Replies]
BY DEF IInv, TypeOK, Replies

LEMMA AdmissionReply == \A r \in Requests : Admission(r) \in Replies
BY DEF Admission, Replies

\* What a worker's step shows of everything but its call and its answer.
Beside ==
    [StoreNext]_storeVars /\ QueueKeeps /\ budget' \in Budgets /\ job' = job

LEMMA BesideKeeps ==
    ASSUME IInv, Beside, CallsKeep, reply' \in [Requests -> Replies]
    PROVE  StepKeeps
BY Basics DEF Beside, StepKeeps

LEMMA OrderTicketKeeps ==
    ASSUME IInv, NEW w \in Workers, NEW r \in Requests, OrderTicket(w, r) PROVE StepKeeps
<1>1. Beside
  BY Basics, EnqueueStep, UnchangedQueue, QuietQueue, SpendStep DEF OrderTicket, Beside
<1>2. CASE Call(w, "cold", r, {}) /\ UNCHANGED reply
  <2>1. Carries(w, "cold", r, {})
    BY <1>2 DEF Carries, Calls
  <2>2. QED
    BY <1>1, <1>2, <2>1, CarriesKeeps, SameReplies, BesideKeeps
<1>3. CASE UNCHANGED api /\ Answer(r, Admission(r))
  BY <1>1, <1>3, SameCalls, AdmissionReply, AnswerKeeps, BesideKeeps
<1>4. QED
  BY <1>2, <1>3 DEF OrderTicket

\* The request a worker carries.
LEMMA InCall ==
    ASSUME IInv, NEW w \in Workers, api[w].pc \in {"cold", "init", "again", "incr"}
    PROVE  /\ api[w].req \in Requests
           /\ TicketOf[api[w].req] \in Tickets /\ Qty[api[w].req] \in Nat
BY RequestData DEF IInv, CarriedStateIsCurrent

LEMMA ColdReadKeeps ==
    ASSUME IInv, NEW w \in Workers, ColdRead(w) PROVE StepKeeps
<1> DEFINE r == api[w].req
           t == TicketOf[r]
<1>1. r \in Requests /\ t \in Tickets
  BY InCall DEF ColdRead
<1>2. Beside
  BY Basics, UnchangedQueue, QuietQueue, SpendStep DEF ColdRead, Beside
<1>3. CASE Call(w, "init", r, {<<t, avail[t]>>}) /\ UNCHANGED reply
  <2>1. avail[t] \in Nat
    BY <1>1, Basics DEF StoreTypeOK
  <2>2. Carries(w, "init", r, {<<t, avail[t]>>})
    BY <1>1, <1>3, <2>1 DEF Carries, Calls
  <2>3. QED
    BY <1>2, <1>3, <2>2, CarriesKeeps, SameReplies, BesideKeeps
<1>4. CASE Return(w) /\ Answer(r, "UNAVAILABLE")
  <2>1. reply' \in [Requests -> Replies]
    BY <1>1, <1>4, AnswerKeeps DEF Replies
  <2>2. QED
    BY <1>2, <1>4, <2>1, ReturnKeeps, BesideKeeps
<1>5. QED
  BY <1>3, <1>4 DEF ColdRead

LEMMA ColdInitKeeps ==
    ASSUME IInv, NEW w \in Workers, ColdInit(w) PROVE StepKeeps
<1> DEFINE r == api[w].req
<1>1. r \in Requests /\ api[w] \in Calls
  BY InCall DEF ColdInit, IInv, TypeOK
<1>2. QueueKeeps
  <2>1. CASE \E v \in api[w].vals : InitializeStock(v[1], v[2])
    <3>1. PICK v \in api[w].vals : InitializeStock(v[1], v[2])
      BY <2>1
    <3>2. v[1] \in Tickets /\ v[2] \in Nat
      BY <1>1 DEF Calls
    <3>3. QED
      BY <3>1, <3>2, Basics, InitializeStockStep, QuietQueue
  <2>2. CASE UNCHANGED queueVars
    BY <2>2, Basics, UnchangedQueue, QuietQueue
  <2>3. QED
    BY <2>1, <2>2 DEF ColdInit
<1>3. Beside
  BY <1>2, Basics, SpendStep DEF ColdInit, Beside
<1>4. CASE Call(w, "again", r, {}) /\ UNCHANGED reply
  <2>1. Carries(w, "again", r, {})
    BY <1>1, <1>4 DEF Carries, Calls
  <2>2. QED
    BY <1>3, <1>4, <2>1, CarriesKeeps, SameReplies, BesideKeeps
<1>5. CASE Return(w) /\ Answer(r, "UNAVAILABLE")
  <2>1. reply' \in [Requests -> Replies]
    BY <1>1, <1>5, AnswerKeeps DEF Replies
  <2>2. QED
    BY <1>3, <1>5, <2>1, ReturnKeeps, BesideKeeps
<1>6. QED
  BY <1>4, <1>5 DEF ColdInit

LEMMA ColdEnqueueKeeps ==
    ASSUME IInv, NEW w \in Workers, ColdEnqueue(w) PROVE StepKeeps
<1> DEFINE r == api[w].req
<1>1. r \in Requests
  BY InCall DEF ColdEnqueue
<1>2. Beside
  BY <1>1, Basics, EnqueueStep, UnchangedQueue, QuietQueue, SpendStep DEF ColdEnqueue, Beside
<1>3. reply' \in [Requests -> Replies]
  <2>1. PICK a \in Replies : Answer(r, a)
    BY <1>1, AdmissionReply DEF ColdEnqueue, Replies
  <2>2. QED
    BY <1>1, <2>1, AnswerKeeps
<1>4. QED
  BY <1>2, <1>3, ReturnKeeps, BesideKeeps DEF ColdEnqueue

LEMMA CancelTicketKeeps ==
    ASSUME IInv, NEW w \in Workers, NEW r \in Requests, CancelTicket(w, r) PROVE StepKeeps
<1>1. [StoreNext]_storeVars
  BY DEF CancelTicket, StoreNext
<1>2. Beside /\ reply' = reply
  BY <1>1, Basics, UnchangedQueue, QuietQueue, SpendStep DEF CancelTicket, Beside
<1>3. CASE Call(w, "incr", r, {})
  <2>1. Carries(w, "incr", r, {})
    BY <1>3 DEF Carries, Calls
  <2>2. QED
    BY <1>2, <2>1, CarriesKeeps, SameReplies, BesideKeeps
<1>4. CASE UNCHANGED api
  BY <1>2, <1>4, SameCalls, SameReplies, BesideKeeps
<1>5. QED
  BY <1>3, <1>4 DEF CancelTicket

LEMMA IncrCancelledKeeps ==
    ASSUME IInv, NEW w \in Workers, IncrCancelled(w) PROVE StepKeeps
<1>1. QueueKeeps
  BY InCall, Basics, IncrStockStep, UnchangedQueue, QuietQueue DEF IncrCancelled, Unchecked
<1>2. Beside
  BY <1>1, Basics, SpendStep DEF IncrCancelled, Unchecked, Beside
<1>3. QED
  BY <1>2, ReturnKeeps, SameReplies, BesideKeeps DEF IncrCancelled

LEMMA ViewTicketsKeeps ==
    ASSUME IInv, NEW w \in Workers, ViewTickets(w) PROVE StepKeeps
<1> DEFINE V == {<<t, avail[t]>> : t \in {u \in Tickets : shelf[u] = "onsale"}}
<1>1. Beside
  BY Basics, UnchangedQueue, QuietQueue DEF ViewTickets, Beside
<1>2. V \in SUBSET (Tickets \X Nat)
  BY Basics DEF StoreTypeOK
<1>3. Carries(w, "refill", NoRequest, V)
  BY <1>2 DEF ViewTickets, Carries, Calls
<1>4. QED
  BY <1>1, <1>3, CarriesKeeps, SameReplies, BesideKeeps DEF ViewTickets

LEMMA AdminAddTicketKeeps ==
    ASSUME IInv, NEW w \in Workers, NEW t \in Tickets, AdminAddTicket(w, t) PROVE StepKeeps
<1>1. [StoreNext]_storeVars
  BY DEF AdminAddTicket, StoreNext
<1>2. Beside
  BY <1>1, Basics, UnchangedQueue, QuietQueue DEF AdminAddTicket, Beside
<1>3. Carries(w, "refill", NoRequest, {<<t, Total[t]>>})
  BY RequestsAssumption DEF AdminAddTicket, Carries, Calls
<1>4. QED
  BY <1>2, <1>3, CarriesKeeps, SameReplies, BesideKeeps DEF AdminAddTicket

LEMMA AdminDeleteTicketKeeps ==
    ASSUME IInv, NEW w \in Workers, NEW t \in Tickets, AdminDeleteTicket(w, t) PROVE StepKeeps
<1>1. [StoreNext]_storeVars
  BY DEF AdminDeleteTicket, StoreNext
<1>2. Beside
  BY <1>1, Basics, UnchangedQueue, QuietQueue DEF AdminDeleteTicket, Beside
<1>3. Carries(w, "refill", NoRequest, {<<t, 0>>})
  BY DEF AdminDeleteTicket, Carries, Calls
<1>4. QED
  BY <1>2, <1>3, CarriesKeeps, SameReplies, BesideKeeps DEF AdminDeleteTicket

LEMMA RefillKeeps ==
    ASSUME IInv, NEW w \in Workers, Refill(w) PROVE StepKeeps
<1>1. PICK v \in api[w].vals :
          /\ Unchecked(PutStock(v[1], v[2]))
          /\ IF api[w].vals = {v} THEN Return(w)
             ELSE Call(w, "refill", NoRequest, api[w].vals \ {v})
  BY DEF Refill
<1>2. api[w] \in Calls
  BY DEF IInv, TypeOK
<1>3. v[1] \in Tickets /\ v[2] \in Nat
  BY <1>2 DEF Calls
<1>4. QueueKeeps
  BY <1>1, <1>3, Basics, PutStockStep, UnchangedQueue, QuietQueue DEF Unchecked
<1>5. Beside
  BY <1>1, <1>4, Basics, SpendStep DEF Refill, Unchecked, Beside
<1>6. CASE api[w].vals = {v}
  BY <1>1, <1>5, <1>6, ReturnKeeps, SameReplies, BesideKeeps DEF Refill
<1>7. CASE api[w].vals # {v}
  <2>1. Carries(w, "refill", NoRequest, api[w].vals \ {v})
    BY <1>1, <1>2, <1>7 DEF Carries, Calls
  <2>2. QED
    BY <1>5, <2>1, CarriesKeeps, SameReplies, BesideKeeps DEF Refill
<1>8. QED
  BY <1>6, <1>7

LEMMA ElapseKeeps ==
    ASSUME IInv, Elapse PROVE StepKeeps
<1>1. [StoreNext]_storeVars
  BY DEF Elapse, StoreNext
<1>2. Beside /\ api' = api /\ reply' = reply
  BY <1>1, Basics, UnchangedQueue, QuietQueue DEF Elapse, Beside, procVars
<1>3. QED
  BY <1>2, SameCalls, SameReplies, BesideKeeps

LEMMA ForgetStatusKeeps ==
    ASSUME IInv, ForgetStatus PROVE StepKeeps
<1>1. QueueKeeps
  <2>1. PICK r \in Requests : SetStatus(r, "NONE")
    BY DEF ForgetStatus, StatusExpires
  <2>2. "NONE" \in States
    BY DEF States
  <2>3. QED
    BY <2>1, <2>2, Basics, SetStatusStep, QuietQueue DEF Silence
<1>2. Beside
  BY <1>1, Basics, SpendStep DEF ForgetStatus, Beside
<1>3. QED
  BY <1>2, SameCalls, SameReplies, BesideKeeps DEF ForgetStatus

LEMMA CrashKeeps ==
    ASSUME IInv, NEW s \in Servers, Crash(s) PROVE StepKeeps
<1>1. NoTimer \in Jobs /\ NoCall \in Calls
  BY DEF NoTimer, Jobs, NoCall, Calls
<1>2. [StoreNext]_storeVars /\ QueueKeeps /\ budget' \in Budgets
  BY Basics, UnchangedQueue, QuietQueue, SpendStep DEF Crash
<1>3. job' \in [Servers -> Jobs]
  BY <1>1, Basics DEF Crash
<1>4. ASSUME NEW q \in Servers PROVE job'[q] = job[q] \/ TimerIsCurrent(q)'
  BY Basics DEF Crash, TimerIsCurrent, NoTimer, HoldsEntry
<1>5. CallsKeep
  <2>1. api \in [Workers -> Calls] /\ \A w \in Workers : CallIsCurrent(w)
    BY DEF IInv, TypeOK, CarriedStateIsCurrent, CallIsCurrent
  <2>2. api' \in [Workers -> Calls]
    BY <1>1, <2>1 DEF Crash
  <2>3. ASSUME NEW w \in Workers PROVE CallIsCurrent(w)'
    BY <2>1 DEF Crash, CallIsCurrent, NoCall
  <2>4. QED
    BY <2>2, <2>3 DEF CallsKeep
<1>6. QED
  BY <1>2, <1>3, <1>4, <1>5, SameReplies DEF StepKeeps, Crash

-----------------------------------------------------------------------------
(* The invariant and what follows from it.                                 *)

LEMMA InitIInv == Init => IInv
<1> SUFFICES ASSUME Init PROVE IInv
  OBVIOUS
<1>1. StoreTypeOK
  BY RequestsAssumption DEF Init, StoreInit, StoreTypeOK
<1>2. QueueTypeOK
  BY MaxTriesAssumption DEF Init, QueueInit, QueueTypeOK, NoKey, States
<1>3. TypeOK
  BY <1>1, <1>2, PipelineAssumption DEF Init, TypeOK, NoTimer, Jobs, NoCall, Calls
<1>4. CarriedStateIsCurrent
  BY DEF Init, QueueInit, CarriedStateIsCurrent, TimerIsCurrent, AnswerIsPast, HoldsEntry, NoTimer, NoCall
<1>5. AckedIsResolved
  BY DEF Init, QueueInit, AckedIsResolved, Acked
<1>6. QED
  BY <1>3, <1>4, <1>5 DEF IInv

\* Every step of a timer.
LEMMA TimerStepKeeps ==
    ASSUME IInv, NEW s \in Servers, TimerStep(s) PROVE TimerKeeps(s)
<1>1. CASE \E id \in Entries : Poll(s, id)
  BY <1>1, PollKeeps
<1>2. CASE Work(s)
  BY <1>2, FindOrderKeeps, TransactKeeps, RecheckKeeps, CountTriesKeeps, GiveUpKeeps,
     ZeroStockKeeps, NumberOrderKeeps, PublishStatusKeeps, AckOrderKeeps, IncrExpiredKeeps
     DEF Work
<1>3. CASE ExpireOrders(s) \/ RefreshTicketStatus(s)
  BY <1>3, ExpireOrdersKeeps, RefreshTicketStatusKeeps
<1>4. QED
  BY <1>1, <1>2, <1>3 DEF TimerStep

\* Every step of a worker.
LEMMA WorkerStepKeeps ==
    ASSUME IInv, NEW w \in Workers, WorkerStep(w) PROVE StepKeeps
<1>1. CASE \E r \in Requests : OrderTicket(w, r) \/ CancelTicket(w, r)
  BY <1>1, OrderTicketKeeps, CancelTicketKeeps
<1>2. CASE \E t \in Tickets : AdminAddTicket(w, t) \/ AdminDeleteTicket(w, t)
  BY <1>2, AdminAddTicketKeeps, AdminDeleteTicketKeeps
<1>3. CASE \/ ColdRead(w) \/ ColdInit(w) \/ ColdEnqueue(w) \/ IncrCancelled(w)
           \/ ViewTickets(w) \/ Refill(w)
  BY <1>3, ColdReadKeeps, ColdInitKeeps, ColdEnqueueKeeps, IncrCancelledKeeps,
     ViewTicketsKeeps, RefillKeeps
<1>4. QED
  BY <1>1, <1>2, <1>3 DEF WorkerStep

\* Every step keeps the invariant, and it is a step of the ticket store.
LEMMA NextIInv == IInv /\ [Next]_vars => IInv' /\ [StoreNext]_storeVars
<1> SUFFICES ASSUME IInv, [Next]_vars PROVE IInv' /\ [StoreNext]_storeVars
  OBVIOUS
<1>1. ASSUME StepKeeps PROVE IInv' /\ [StoreNext]_storeVars
  BY <1>1, StepKeepsIInv DEF StepKeeps
<1>2. ASSUME NEW s \in Servers, TimerStep(s) PROVE IInv' /\ [StoreNext]_storeVars
  BY <1>2, TimerStepKeeps, TimerKeepsIInv DEF TimerKeeps, Around
<1>3. ASSUME NEW s \in Servers, Crash(s) PROVE StepKeeps
  BY <1>3, CrashKeeps
<1>4. ASSUME NEW w \in Workers, WorkerStep(w) PROVE StepKeeps
  BY <1>4, WorkerStepKeeps
<1>5. ASSUME UNCHANGED vars PROVE StepKeeps
  <2>1. /\ UNCHANGED storeVars /\ UNCHANGED queueVars
        /\ job' = job /\ api' = api /\ reply' = reply /\ budget' = budget
    BY <1>5 DEF vars, procVars
  <2>2. Beside
    BY <2>1, Basics, UnchangedQueue, QuietQueue DEF Beside
  <2>3. QED
    BY <2>1, <2>2, SameCalls, SameReplies, BesideKeeps
<1>6. QED
  BY <1>1, <1>2, <1>3, <1>4, <1>5, ElapseKeeps, ForgetStatusKeeps DEF Next

LEMMA SpecIInv == Spec => []IInv
BY InitIInv, NextIInv, PTL DEF Spec

\* Rows, keys and what the threads carry keep their types, whatever faults,
\* crashes and slow consumers there are.
THEOREM PipelineTypeCorrect == Spec => []TypeOK
<1>1. IInv => TypeOK
  BY DEF IInv
<1>2. QED
  BY <1>1, SpecIInv, PTL

\* The entry a timer works on and the order it found or committed are still
\* there at its next step, whatever the other threads and processes did.
THEOREM CarriedStateStaysCurrent == Spec => []CarriedStateIsCurrent
<1>1. IInv => CarriedStateIsCurrent
  BY DEF IInv
<1>2. QED
  BY <1>1, SpecIInv, PTL

\* No accepted order gets lost: what left the pending list is in the database
\* or among the dead letters.
THEOREM AcceptedOrdersResolved == Spec => []AckedIsResolved
<1>1. IInv => AckedIsResolved
  BY DEF IInv
<1>2. QED
  BY <1>1, SpecIInv, PTL

\* The threads change the tables by the transactions of TicketStore only.
THEOREM PipelineImplementsStore == Spec => StoreSpec
<1>1. Init => StoreInit
  BY DEF Init
<1>2. QED
  BY <1>1, SpecIInv, NextIInv, PTL DEF Spec, StoreSpec

\* No admission is lost or sold twice by the concurrent order path.
THEOREM PipelineConserves == Spec => []Conservation
BY PipelineImplementsStore, AdmissionsConserved, PTL

\* No two live orders share a seat in the concurrent order path.
THEOREM PipelineSeatsMatch == Spec => []SeatsMatch
BY PipelineImplementsStore, SeatsMatchOrders, PTL

\* The order path keeps the abstract promise of the ticket office.
THEOREM PipelineImplementsAllocation == Spec => ImplementsAllocation
BY PipelineImplementsStore, StoreImplementsAllocation, PTL

-----------------------------------------------------------------------------
(* Steps that settle no entry.                                             *)

\* The group, its counters and the dead letters stay; entries may be added.
StillQueue ==
    /\ last' = last /\ pel' = pel
    /\ \A id \in Entries : /\ id \in Entries' /\ stream'[id] = stream[id]
                           /\ tries'[id] = tries[id] /\ dead'[id] = dead[id]
    /\ \A id \in Entries' \ Entries : dead'[id] = <<>>

LEMMA StillUnchanged == ASSUME QueueTypeOK, UNCHANGED queueVars PROVE StillQueue
BY DEF StillQueue, queueVars, Entries

LEMMA StillPut == ASSUME QueueTypeOK, NEW t, NEW n, PutStock(t, n) PROVE StillQueue
BY DEF StillQueue, PutStock, Entries

LEMMA StillInitialize == ASSUME QueueTypeOK, NEW t, NEW n, InitializeStock(t, n) PROVE StillQueue
BY StillPut, StillUnchanged DEF InitializeStock

LEMMA StillIncr == ASSUME QueueTypeOK, NEW t, NEW n, IncrStock(t, n) PROVE StillQueue
BY StillPut, StillUnchanged DEF IncrStock

LEMMA StillStatus == ASSUME QueueTypeOK, NEW r, NEW v, SetStatus(r, v) PROVE StillQueue
BY DEF StillQueue, SetStatus, Entries

LEMMA StillEnqueue == ASSUME QueueTypeOK, NEW r, r \in Requests, Enqueue(r) PROVE StillQueue
<1>1. CASE Admission(r) # "QUEUED"
  BY <1>1, StillUnchanged DEF Enqueue
<1>2. CASE Admission(r) = "QUEUED"
  <2>1. /\ stream' = Append(stream, r) /\ tries' = Append(tries, 0) /\ dead' = Append(dead, <<>>)
        /\ last' = last /\ pel' = pel
    BY <1>2 DEF Enqueue
  <2>2. /\ stream \in Seq(Requests) /\ Len(stream) \in Nat /\ tries \in Seq(0 .. MaxTries)
        /\ Len(tries) = Len(stream) /\ dead \in Seq(Seq(Reasons)) /\ Len(dead) = Len(stream)
    BY DEF QueueTypeOK
  <2>3. Len(stream') = Len(stream) + 1
    BY <2>1, <2>2
  <2>4. \A id \in Entries : /\ id \in Entries' /\ stream'[id] = stream[id]
                            /\ tries'[id] = tries[id] /\ dead'[id] = dead[id]
    BY <2>1, <2>2, <2>3 DEF Entries
  <2>5. \A id \in Entries' \ Entries : id = Len(dead) + 1
    BY <2>2, <2>3 DEF Entries
  <2>6. dead'[Len(dead) + 1] = <<>>
    BY <2>1, <2>2
  <2>7. QED
    BY <2>1, <2>4, <2>5, <2>6 DEF StillQueue
<1>3. QED
  BY <1>1, <1>2

\* The program counters of a timer whose entry is still pending.
Holding == HoldsEntry \ {"zero"}

\* A timer stays, lets go of its entry, or goes on with it; it gives up for an
\* infrastructure error only after max_retries deliveries.
GoesOn(s) ==
    \/ job'[s] = job[s]
    \/ job'[s].msg = 0 /\ job'[s].pc \notin HoldsEntry
    \/ /\ job[s].pc \in HoldsEntry /\ job'[s].msg = job[s].msg
       /\ job'[s].pc \in Holding => job[s].pc \in Holding
       /\ job'[s].pc = "fail" /\ job'[s].val \notin Logical => tries[job[s].msg] >= MaxRetries

GoOn == \A s \in Servers : GoesOn(s)
Quiet == StillQueue /\ GoOn

\* The three steps of a timer that settle, or take, an entry.
Takes(s, id) ==
    /\ id \in pel \/ (id = last + 1 /\ id \in Entries)
    /\ Claimable(s, id) /\ Deliver(id)
    /\ \A q \in Servers \ {s} : job'[q] = job[q]
    /\ \/ job' = job
       \/ job'[s].pc = "find" /\ job'[s].msg = id

LetsGo(s) ==
    /\ \A q \in Servers \ {s} : job'[q] = job[q]
    /\ \/ job'[s].msg = 0 /\ job'[s].pc \notin HoldsEntry
       \/ job'[s].msg = job[s].msg /\ job'[s].pc = "zero"

Settles(s) ==
    /\ job[s].pc = "fail" /\ TerminalFailure(job[s].msg, job[s].val) /\ LetsGo(s)
Drops(s) ==
    /\ job[s].pc = "ack" /\ Acknowledge(job[s].msg) /\ LetsGo(s)

EntryStep(s) == (\E id \in Entries : Takes(s, id)) \/ Settles(s) \/ Drops(s)

LEMMA SameJobs == ASSUME job' = job PROVE GoOn
BY DEF GoOn, GoesOn

\* Going to pc with the entry in hand.
LEMMA GoOnWith ==
    ASSUME IInv, NEW s \in Servers, job[s].pc \in Holding, NEW pc \in PCs \ {"incr"},
           NEW val \in Values, Go(s, pc, val),
           pc = "fail" /\ val \notin Logical => tries[job[s].msg] >= MaxRetries
    PROVE  GoOn
<1>1. /\ \A q \in Servers \ {s} : job'[q] = job[q]
      /\ job'[s].pc = pc
      /\ pc # "idle" => job'[s].msg = job[s].msg /\ job'[s].val = val
  BY Basics, GoStep
<1>2. pc = "idle" => job'[s].msg = 0
  BY Basics DEF Go, NoTimer
<1>3. GoesOn(s)
  BY <1>1, <1>2 DEF GoesOn, Holding, HoldsEntry
<1>4. QED
  BY <1>1, <1>3 DEF GoOn, GoesOn

LEMMA GoLetsGo ==
    ASSUME IInv, NEW s \in Servers, NEW pc \in {"idle", "zero"}, Go(s, pc, "")
    PROVE  LetsGo(s)
<1>1. /\ \A q \in Servers \ {s} : job'[q] = job[q]
      /\ job'[s].pc = pc
      /\ pc # "idle" => job'[s].msg = job[s].msg
  BY Basics, GoStep DEF PCs, Values
<1>2. pc = "idle" => job'[s].msg = 0
  BY Basics DEF Go, NoTimer
<1>3. QED
  BY <1>1, <1>2 DEF LetsGo, HoldsEntry

LEMMA LetsGoOn ==
    ASSUME NEW s \in Servers, job[s].pc \in HoldsEntry, LetsGo(s) PROVE GoOn
BY DEF LetsGo, GoOn, GoesOn, Holding

LEMMA TimerEntrySteps ==
    ASSUME IInv, NEW s \in Servers, TimerStep(s) PROVE Quiet \/ EntryStep(s)
<1>1. QueueTypeOK /\ job \in [Servers -> Jobs]
  BY Basics
<1>2. ASSUME NEW id \in Entries, Poll(s, id) PROVE EntryStep(s)
  <2>1. job' = job \/ job' = [job EXCEPT ![s].pc = "find", ![s].msg = id]
    BY <1>2 DEF Poll
  <2>2. \A q \in Servers \ {s} : job'[q] = job[q]
    BY <1>1, <2>1
  <2>3. job' = job \/ (job'[s].pc = "find" /\ job'[s].msg = id)
    BY <1>1, <2>1 DEF Jobs
  <2>4. QED
    BY <1>2, <2>2, <2>3 DEF Poll, Deliver, Takes, EntryStep
<1>3. ASSUME FindOrder(s) PROVE Quiet
  <2>1. job[s].pc = "find" /\ Order(s) \in Requests /\ resv[Order(s)] \in Values
    BY <1>3, InHand, Basics DEF FindOrder, At, HoldsEntry, Values
  <2>2. PICK pc \in {"status", "txn", "count"}, val \in Values : Go(s, pc, val)
    BY <1>3, <2>1 DEF FindOrder, Values, Reasons
  <2>3. GoOn
    BY <2>1, <2>2, GoOnWith DEF Holding, HoldsEntry, PCs
  <2>4. QED
    BY <1>1, <1>3, <2>3, StillUnchanged DEF FindOrder, Quiet
<1>4. ASSUME Transact(s) PROVE Quiet
  <2>1. job[s].pc = "txn" /\ Order(s) \in Requests
    BY <1>4, InHand DEF Transact, At, HoldsEntry
  <2>2. PICK pc \in {"number", "recheck", "idle"}, val \in Values \cup {"OK"} :
            Go(s, pc, val) /\ val # "OK"
    <3>1. shelf[TicketOf[Order(s)]] \in {"absent", "onsale", "offline"}
      BY <2>1, RequestData, Basics DEF StoreTypeOK
    <3>2. Outcome(Order(s)) \in Values \cup {"OK"}
      BY <3>1 DEF Outcome, Values, Reasons
    <3>3. StatementFailures(Order(s)) \subseteq Values \ {"OK"}
      BY DEF StatementFailures, Values, Reasons, States
    <3>4. {"", "DB_UPDATE"} \subseteq Values \ {"OK"}
      BY DEF Values, Reasons, States
    <3>5. QED
      BY <1>4, <3>2, <3>3, <3>4 DEF Transact
  <2>3. GoOn
    BY <2>1, <2>2, GoOnWith DEF Holding, HoldsEntry, PCs
  <2>4. QED
    BY <1>1, <1>4, <2>3, StillUnchanged DEF Transact, Quiet
<1>5. ASSUME Recheck(s) PROVE Quiet
  <2>1. /\ job[s].pc = "recheck" /\ Order(s) \in Requests
        /\ resv[Order(s)] \in Values /\ job[s].val \in Values
    BY <1>5, InHand, Basics DEF Recheck, At, HoldsEntry, Values, TimerIsCurrent
  <2>2. PICK pc \in {"status", "fail", "count"}, val \in Values :
            Go(s, pc, val) /\ (pc = "fail" => val \in Logical)
    BY <1>5, <2>1 DEF Recheck
  <2>3. GoOn
    BY <2>1, <2>2, GoOnWith DEF Holding, HoldsEntry, PCs
  <2>4. QED
    BY <1>1, <1>5, <2>3, StillUnchanged DEF Recheck, Quiet
<1>6. ASSUME CountTries(s) PROVE Quiet
  <2>1. job[s].pc = "count" /\ job[s].val \in Values
    BY <1>6, Basics DEF CountTries, At, Values, TimerIsCurrent
  <2>2. PICK pc \in {"fail", "idle"}, val \in Values :
            Go(s, pc, val) /\ (pc = "fail" => DeliveryCount(job[s].msg) >= MaxRetries)
    BY <1>6, <2>1 DEF CountTries, Values
  <2>3. DeliveryCount(job[s].msg) >= MaxRetries => tries[job[s].msg] >= MaxRetries
    BY MaxTriesAssumption DEF DeliveryCount, MaxRetries
  <2>4. GoOn
    BY <2>1, <2>2, <2>3, GoOnWith DEF Holding, HoldsEntry, PCs
  <2>5. QED
    BY <1>1, <1>6, <2>4, StillUnchanged DEF CountTries, Quiet
<1>7. ASSUME GiveUp(s) PROVE Quiet \/ EntryStep(s)
  <2>1. LetsGo(s) /\ job[s].pc = "fail"
    BY <1>7, GoLetsGo DEF GiveUp, At
  <2>2. CASE TerminalFailure(job[s].msg, job[s].val)
    BY <2>1, <2>2 DEF EntryStep, Settles
  <2>3. CASE UNCHANGED queueVars
    BY <1>1, <2>1, <2>3, LetsGoOn, StillUnchanged DEF Quiet, HoldsEntry
  <2>4. QED
    BY <1>7, <2>2, <2>3 DEF GiveUp, Unchecked
<1>8. ASSUME ZeroStock(s) PROVE Quiet
  <2>1. GoOn
    BY <1>8, GoLetsGo, LetsGoOn DEF ZeroStock, At, HoldsEntry
  <2>2. StillQueue
    BY <1>1, <1>8, StillPut, StillUnchanged DEF ZeroStock, Unchecked
  <2>3. QED
    BY <2>1, <2>2 DEF Quiet
<1>9. ASSUME NumberOrder(s) PROVE Quiet
  <2>1. job[s].pc = "number" /\ Go(s, "status", "PENDING")
    BY <1>9 DEF NumberOrder, At
  <2>2. GoOn
    BY <2>1, GoOnWith DEF Holding, HoldsEntry, PCs, Values, States
  <2>3. QED
    BY <1>1, <1>9, <2>2, StillUnchanged DEF NumberOrder, Quiet
<1>10. ASSUME PublishStatus(s) PROVE Quiet
  <2>1. job[s].pc = "status" /\ Go(s, "ack", "")
    BY <1>10 DEF PublishStatus, At
  <2>2. GoOn
    BY <2>1, GoOnWith DEF Holding, HoldsEntry, PCs, Values
  <2>3. StillQueue
    BY <1>1, <1>10, StillStatus, StillUnchanged DEF PublishStatus, Unchecked
  <2>4. QED
    BY <2>2, <2>3 DEF Quiet
<1>11. ASSUME AckOrder(s) PROVE Quiet \/ EntryStep(s)
  <2>1. LetsGo(s) /\ job[s].pc = "ack"
    BY <1>11, GoLetsGo DEF AckOrder, At
  <2>2. CASE Acknowledge(job[s].msg)
    BY <2>1, <2>2 DEF EntryStep, Drops
  <2>3. CASE UNCHANGED queueVars
    BY <1>1, <2>1, <2>3, LetsGoOn, StillUnchanged DEF Quiet, HoldsEntry
  <2>4. QED
    BY <1>11, <2>2, <2>3 DEF AckOrder, Unchecked
<1>12. ASSUME ExpireOrders(s) PROVE Quiet
  <2>1. PICK R : job' = [job EXCEPT ![s] = Expiring(R)] \/ job' = job
    BY <1>12 DEF ExpireOrders
  <2>2. \A q \in Servers : job'[q] = job[q] \/ job'[q] = Expiring(R)
    BY <1>1, <2>1
  <2>3. Expiring(R).msg = 0 /\ Expiring(R).pc = "incr"
    BY DEF Expiring
  <2>4. GoOn
    BY <2>2, <2>3 DEF GoOn, GoesOn, HoldsEntry
  <2>5. QED
    BY <1>1, <1>12, <2>4, StillUnchanged DEF ExpireOrders, Quiet
<1>13. ASSUME IncrExpired(s) PROVE Quiet
  <2>1. PICK r \in job[s].todo :
          /\ Unchecked(IncrStock(TicketOf[r], Qty[r]))
          /\ job' = [job EXCEPT ![s] = IF @.todo = {r} THEN NoTimer
                                       ELSE Expiring(@.todo \ {r})]
    BY <1>13 DEF IncrExpired
  <2>2. GoOn
    BY <1>1, <2>1 DEF GoOn, GoesOn, Expiring, NoTimer, HoldsEntry
  <2>3. QED
    BY <1>1, <2>1, <2>2, StillIncr, StillUnchanged DEF Unchecked, Quiet
<1>14. ASSUME RefreshTicketStatus(s) PROVE Quiet
  BY <1>1, <1>14, SameJobs, StillUnchanged DEF RefreshTicketStatus, procVars, Quiet
<1>15. QED
  BY <1>2, <1>3, <1>4, <1>5, <1>6, <1>7, <1>8, <1>9, <1>10, <1>11, <1>12, <1>13, <1>14
     DEF TimerStep, Work

LEMMA WorkerStepsQuiet ==
    ASSUME IInv, NEW w \in Workers, WorkerStep(w) PROVE Quiet
<1>1. QueueTypeOK
  BY Basics
<1>2. ASSUME NEW r \in Requests, OrderTicket(w, r) PROVE Quiet
  BY <1>1, <1>2, SameJobs, StillEnqueue, StillUnchanged DEF OrderTicket, Quiet
<1>3. ASSUME NEW r \in Requests, CancelTicket(w, r) PROVE Quiet
  BY <1>1, <1>3, SameJobs, StillUnchanged DEF CancelTicket, Quiet
<1>4. ASSUME NEW t \in Tickets, AdminAddTicket(w, t) \/ AdminDeleteTicket(w, t) PROVE Quiet
  BY <1>1, <1>4, SameJobs, StillUnchanged DEF AdminAddTicket, AdminDeleteTicket, Quiet
<1>5. ASSUME ColdRead(w) \/ ViewTickets(w) PROVE Quiet
  BY <1>1, <1>5, SameJobs, StillUnchanged DEF ColdRead, ViewTickets, Quiet
<1>6. ASSUME ColdInit(w) PROVE Quiet
  BY <1>1, <1>6, SameJobs, StillInitialize, StillUnchanged DEF ColdInit, Quiet
<1>7. ASSUME ColdEnqueue(w) PROVE Quiet
  BY <1>1, <1>7, InCall, SameJobs, StillEnqueue, StillUnchanged DEF ColdEnqueue, Quiet
<1>8. ASSUME IncrCancelled(w) PROVE Quiet
  BY <1>1, <1>8, SameJobs, StillIncr, StillUnchanged DEF IncrCancelled, Unchecked, Quiet
<1>9. ASSUME Refill(w) PROVE Quiet
  BY <1>1, <1>9, SameJobs, StillPut, StillUnchanged DEF Refill, Unchecked, Quiet
<1>10. QED
  BY <1>2, <1>3, <1>4, <1>5, <1>6, <1>7, <1>8, <1>9 DEF WorkerStep

\* Every step settles or takes an entry, or is quiet.
LEMMA EntrySteps ==
    ASSUME IInv, [Next]_vars PROVE Quiet \/ \E s \in Servers : EntryStep(s)
<1>1. QueueTypeOK /\ job \in [Servers -> Jobs]
  BY Basics
<1>2. ASSUME NEW s \in Servers, Crash(s) PROVE Quiet
  <2>1. GoOn
    BY <1>1, <1>2 DEF Crash, GoOn, GoesOn, NoTimer, HoldsEntry
  <2>2. QED
    BY <1>1, <1>2, <2>1, StillUnchanged DEF Crash, Quiet
<1>3. ASSUME Elapse PROVE Quiet
  BY <1>1, <1>3, SameJobs, StillUnchanged DEF Elapse, procVars, Quiet
<1>4. ASSUME ForgetStatus PROVE Quiet
  BY <1>1, <1>4, SameJobs, StillStatus DEF ForgetStatus, StatusExpires, Quiet
<1>5. ASSUME UNCHANGED vars PROVE Quiet
  <2>1. job' = job /\ UNCHANGED queueVars
    BY <1>5 DEF vars, procVars
  <2>2. QED
    BY <1>1, <2>1, SameJobs, StillUnchanged DEF Quiet
<1>6. QED
  BY <1>2, <1>3, <1>4, <1>5, TimerEntrySteps, WorkerStepsQuiet DEF Next

-----------------------------------------------------------------------------
(* Requests that wait for their outcome.                                   *)

\* ORDER_QUERY says QUEUED only of a request whose entry is still to be handled.
QueuedIsUndecided == \A r \in Requests : status[r] = "QUEUED" => r \in Undecided

\* An entry that nobody is about to acknowledge.
Open(id) ==
    /\ id > last \/ id \in pel
    /\ \A s \in Servers : job[s].msg = id => job[s].pc # "ack"

\* A thread acknowledges after it has replaced QUEUED.
AwaitInv ==
    /\ budget["redis"] = 0
    /\ \A r \in Requests : status[r] = "QUEUED" => \E id \in Entries : stream[id] = r /\ Open(id)

Newest == Len(stream) + 1

\* QUEUED is said of new entries, and replaced before the acknowledgement.
Says ==
    /\ \A r \in Requests : status'[r] = "QUEUED" =>
          status[r] = "QUEUED" \/ (Newest \in Entries' /\ stream'[Newest] = r)
    /\ \A s \in Servers : job'[s].pc = "ack" =>
          \/ job'[s] = job[s]
          \/ job'[s].msg = job[s].msg /\ status'[Order(s)] # "QUEUED"

LEMMA AwaitStays ==
    ASSUME IInv, IInv', AwaitInv, Says, budget'["redis"] = 0,
           Quiet \/ \E s \in Servers : EntryStep(s)
    PROVE  AwaitInv'
<1>1. QueueTypeOK /\ last \in Nat /\ pel \subseteq 1 .. last /\ Entries = 1 .. Len(stream)
  BY Basics DEF QueueTypeOK, Entries
<1>2. \A s \in Servers : job'[s].pc = "ack" => job'[s].msg \in 1 .. last'
  BY DEF IInv, CarriedStateIsCurrent, TimerIsCurrent, HoldsEntry
<1>3. \A s \in Servers : job[s].pc \in HoldsEntry => stream[job[s].msg] = Order(s)
  BY InHand
<1>4. CASE Quiet
  <2>1. ASSUME NEW id \in Entries, Open(id), status'[stream[id]] = "QUEUED" PROVE Open(id)'
    <3>1. ASSUME NEW s \in Servers, job'[s].msg = id PROVE job'[s].pc # "ack"
      <4>1. SUFFICES ASSUME job'[s].pc = "ack" PROVE FALSE
        OBVIOUS
      <4>2. job'[s].msg = job[s].msg /\ status'[Order(s)] # "QUEUED"
        BY <2>1, <3>1, <4>1 DEF Says, Open
      <4>3. stream[id] = Order(s)
        BY <3>1, <4>2 DEF Order
      <4>4. QED
        BY <2>1, <4>2, <4>3
    <3>2. QED
      BY <1>4, <2>1, <3>1 DEF Quiet, StillQueue, Open
  <2>2. ASSUME NEW r \in Requests, status'[r] = "QUEUED"
        PROVE  \E id \in Entries' : stream'[id] = r /\ Open(id)'
    <3>1. CASE status[r] = "QUEUED"
      <4>1. PICK id \in Entries : stream[id] = r /\ Open(id)
        BY <3>1 DEF AwaitInv
      <4>2. id \in Entries' /\ stream'[id] = r
        BY <1>4, <4>1 DEF Quiet, StillQueue
      <4>3. QED
        BY <2>1, <2>2, <4>1, <4>2
    <3>2. CASE Newest \in Entries' /\ stream'[Newest] = r
      <4>1. PICK n \in Entries' : n = Newest /\ stream'[n] = r
        BY <3>2
      <4>2. n > last' /\ last' \in Nat /\ n \in Nat
        BY <1>1, <1>4, <4>1 DEF Quiet, StillQueue, QueueTypeOK, Newest
      <4>3. Open(n)'
        BY <1>2, <4>2 DEF Open
      <4>4. QED
        BY <4>1, <4>3
    <3>3. QED
      BY <2>2, <3>1, <3>2 DEF Says
  <2>3. QED
    BY <2>2 DEF AwaitInv
<1>5. ASSUME NEW s \in Servers, EntryStep(s) PROVE AwaitInv'
  <2>1. stream' = stream /\ Entries' = Entries
    BY <1>5 DEF EntryStep, Takes, Deliver, Settles, TerminalFailure, Drops, Acknowledge, Entries
  <2>2. \A r \in Requests : status'[r] = "QUEUED" => status[r] = "QUEUED"
    BY <1>1, <2>1 DEF Says, Newest, QueueTypeOK
  <2>3. ASSUME NEW id \in Entries, Open(id), status'[stream[id]] = "QUEUED" PROVE Open(id)'
    <3>1. ASSUME NEW q \in Servers, job'[q].msg = id PROVE job'[q].pc # "ack"
      <4>1. SUFFICES ASSUME job'[q].pc = "ack" PROVE FALSE
        OBVIOUS
      <4>2. job'[q].msg = job[q].msg /\ status'[Order(q)] # "QUEUED"
        BY <2>3, <3>1, <4>1 DEF Says, Open
      <4>3. stream[id] = Order(q)
        BY <3>1, <4>2 DEF Order
      <4>4. QED
        BY <2>3, <4>2, <4>3
    <3>2. id > last' \/ id \in pel'
      <4>1. ASSUME NEW i \in Entries, Takes(s, i) PROVE id > last' \/ id \in pel'
        BY <1>1, <2>3, <4>1 DEF Takes, Deliver, Open
      <4>2. CASE Settles(s)
        <5>1. job[s].msg \in Entries /\ stream[job[s].msg] \in Requests
          BY <4>2, InHand, Basics DEF Settles, HoldsEntry, QueueTypeOK, Entries
        <5>2. pel' = pel \ {job[s].msg} /\ last' = last
              /\ status' = [status EXCEPT ![stream[job[s].msg]] = "FAILED"]
          BY <4>2 DEF Settles, TerminalFailure
        <5>3. id # job[s].msg
          BY <1>1, <2>3, <5>1, <5>2 DEF QueueTypeOK
        <5>4. QED
          BY <2>3, <5>2, <5>3 DEF Open
      <4>3. CASE Drops(s)
        <5>1. id # job[s].msg
          BY <2>3, <4>3 DEF Drops, Open
        <5>2. QED
          BY <2>3, <4>3, <5>1 DEF Drops, Acknowledge, Open
      <4>4. QED
        BY <1>5, <4>1, <4>2, <4>3 DEF EntryStep
    <3>3. QED
      BY <3>1, <3>2 DEF Open
  <2>4. QED
    BY <2>1, <2>2, <2>3 DEF AwaitInv
<1>6. QED
  BY <1>4, <1>5

\* A step that writes no status and moves nobody to the acknowledgement.
LEMMA SaysNothing ==
    ASSUME status' = status, \A s \in Servers : job'[s] = job[s] \/ job'[s].pc # "ack"
    PROVE  Says
BY DEF Says

LEMMA GoSays ==
    ASSUME IInv, NEW s \in Servers, status' = status, NEW pc \in PCs \ {"ack"}, NEW val \in Values,
           Go(s, pc, val)
    PROVE  Says
<1>1. \A q \in Servers : job'[q] = job[q] \/ job'[q].pc # "ack"
  BY Basics, GoStep
<1>2. QED
  BY <1>1, SaysNothing

LEMMA EnqueueSays ==
    ASSUME IInv, NEW r \in Requests, Enqueue(r) \/ UNCHANGED queueVars, job' = job PROVE Says
<1>1. CASE status' = status
  BY <1>1, SaysNothing
<1>2. CASE status' # status
  <2>1. stream' = Append(stream, r) /\ status' = [status EXCEPT ![r] = "QUEUED"]
    BY <1>2 DEF Enqueue, queueVars
  <2>2. Newest \in Entries' /\ stream'[Newest] = r
    BY <2>1, Basics DEF QueueTypeOK, Newest, Entries
  <2>3. \A q \in Requests : q # r => status'[q] = status[q]
    BY <2>1, Basics DEF QueueTypeOK
  <2>4. QED
    BY <2>2, <2>3 DEF Says
<1>3. QED
  BY <1>1, <1>2

LEMMA PublishSays ==
    ASSUME IInv, AwaitInv, NEW s \in Servers, PublishStatus(s) PROVE Says
<1>0. ~Spend("redis")
  BY DEF Spend, AwaitInv
<1>1. job[s].pc = "status" /\ SetStatus(Order(s), job[s].val) /\ Go(s, "ack", "")
  BY <1>0 DEF PublishStatus, At, Unchecked
<1>2. Order(s) \in Requests /\ job[s].val \in Past(resv[Order(s)]) /\ resv[Order(s)] \in Rows
  BY <1>1, InHand, Basics DEF HoldsEntry, TimerIsCurrent, StoreTypeOK, Rows
<1>3. job[s].val # "QUEUED"
  BY <1>2, PastOf DEF Rows
<1>4. status' = [status EXCEPT ![Order(s)] = job[s].val] /\ status \in [Requests -> States]
  BY <1>1, Basics DEF SetStatus, QueueTypeOK
<1>5. \A r \in Requests : status'[r] = "QUEUED" => status[r] = "QUEUED"
  BY <1>2, <1>3, <1>4
<1>6. \A q \in Servers : job'[q] = job[q] \/ (q = s /\ job'[q].msg = job[q].msg)
  BY <1>1, Basics, GoStep DEF PCs, Values
<1>7. QED
  BY <1>2, <1>3, <1>4, <1>5, <1>6 DEF Says

LEMMA TimerSays ==
    ASSUME IInv, AwaitInv, NEW s \in Servers, TimerStep(s) PROVE Says
<1>1. /\ job \in [Servers -> Jobs] /\ TimerIsCurrent(s)
      /\ job[s].pc \in HoldsEntry => Order(s) \in Requests /\ resv[Order(s)] \in Values
  BY InHand, Basics DEF Values
<1>2. ASSUME NEW id \in Entries, Poll(s, id) PROVE Says
  <2>1. job' = job \/ job' = [job EXCEPT ![s].pc = "find", ![s].msg = id]
    BY <1>2 DEF Poll
  <2>2. \A q \in Servers : job'[q] = job[q] \/ job'[q].pc # "ack"
    BY <1>1, <2>1 DEF Jobs
  <2>3. QED
    BY <1>2, <2>2, SaysNothing DEF Poll, Deliver
<1>3. ASSUME FindOrder(s) PROVE Says
  <2>1. PICK pc \in {"status", "txn", "count"}, val \in Values : Go(s, pc, val)
    BY <1>1, <1>3 DEF FindOrder, At, HoldsEntry, Values, Reasons
  <2>2. QED
    BY <1>3, <2>1, GoSays DEF FindOrder, queueVars, PCs
<1>4. ASSUME Transact(s) PROVE Says
  <2>1. Outcome(Order(s)) \in Values \cup {"OK"}
    <3>1. shelf[TicketOf[Order(s)]] \in {"absent", "onsale", "offline"}
      BY <1>1, <1>4, RequestData, Basics DEF Transact, At, HoldsEntry, StoreTypeOK
    <3>2. QED
      BY <3>1 DEF Outcome, Values, Reasons
  <2>2. StatementFailures(Order(s)) \cup {"", "DB_UPDATE"} \subseteq Values
    BY DEF StatementFailures, Values, Reasons
  <2>3. PICK pc \in {"number", "recheck", "idle"}, val \in Values : Go(s, pc, val)
    BY <1>4, <2>1, <2>2 DEF Transact
  <2>4. QED
    BY <1>4, <2>3, GoSays DEF Transact, queueVars, PCs
<1>5. ASSUME Recheck(s) PROVE Says
  <2>1. job[s].val \in Values
    BY <1>1, <1>5 DEF Recheck, At, TimerIsCurrent, Values
  <2>2. PICK pc \in {"status", "fail", "count"}, val \in Values : Go(s, pc, val)
    BY <1>1, <1>5, <2>1 DEF Recheck, At, HoldsEntry
  <2>3. QED
    BY <1>5, <2>2, GoSays DEF Recheck, queueVars, PCs
<1>6. ASSUME CountTries(s) PROVE Says
  <2>1. job[s].val \in Values
    BY <1>1, <1>6 DEF CountTries, At, TimerIsCurrent, Values
  <2>2. PICK pc \in {"fail", "idle"}, val \in Values : Go(s, pc, val)
    BY <1>6, <2>1 DEF CountTries, Values
  <2>3. QED
    BY <1>6, <2>2, GoSays DEF CountTries, queueVars, PCs
<1>7. ASSUME GiveUp(s) PROVE Says
  <2>1. LetsGo(s)
    BY <1>7, GoLetsGo DEF GiveUp
  <2>2. \A q \in Servers : job'[q] = job[q] \/ job'[q].pc # "ack"
    BY <2>1 DEF LetsGo, HoldsEntry
  <2>3. status' = status \/ status' = [status EXCEPT ![Order(s)] = "FAILED"]
    BY <1>7 DEF GiveUp, Unchecked, TerminalFailure, Order, queueVars
  <2>4. \A r \in Requests : status'[r] = "QUEUED" => status[r] = "QUEUED"
    BY <2>3, Basics DEF QueueTypeOK
  <2>5. QED
    BY <2>2, <2>4 DEF Says
<1>8. ASSUME ZeroStock(s) PROVE Says
  BY <1>8, GoSays DEF ZeroStock, Unchecked, PutStock, queueVars, PCs, Values
<1>9. ASSUME NumberOrder(s) PROVE Says
  BY <1>9, GoSays DEF NumberOrder, queueVars, PCs, Values, States
<1>10. ASSUME AckOrder(s) PROVE Says
  BY <1>10, GoSays DEF AckOrder, Unchecked, Acknowledge, queueVars, PCs, Values
<1>11. ASSUME ExpireOrders(s) PROVE Says
  <2>1. PICK R : job' = [job EXCEPT ![s] = Expiring(R)] \/ job' = job
    BY <1>11 DEF ExpireOrders
  <2>2. \A q \in Servers : job'[q] = job[q] \/ job'[q] = Expiring(R)
    BY <1>1, <2>1
  <2>3. Expiring(R).pc # "ack"
    BY DEF Expiring
  <2>4. QED
    BY <1>11, <2>2, <2>3, SaysNothing DEF ExpireOrders, queueVars
<1>12. ASSUME IncrExpired(s) PROVE Says
  <2>1. \A R : Expiring(R).pc # "ack" /\ NoTimer.pc # "ack"
    BY DEF Expiring, NoTimer
  <2>2. \A q \in Servers : job'[q] = job[q] \/ job'[q] = NoTimer \/ \E R : job'[q] = Expiring(R)
    BY <1>1, <1>12 DEF IncrExpired
  <2>3. \A q \in Servers : job'[q] = job[q] \/ job'[q].pc # "ack"
    BY <2>1, <2>2
  <2>4. QED
    BY <1>12, <2>3, SaysNothing DEF IncrExpired, Unchecked, IncrStock, PutStock, queueVars
<1>13. ASSUME RefreshTicketStatus(s) PROVE Says
  BY <1>13, SaysNothing DEF RefreshTicketStatus, procVars, queueVars
<1>14. QED
  BY <1>2, <1>3, <1>4, <1>5, <1>6, <1>7, <1>8, <1>9, <1>10, <1>11, <1>12, <1>13, PublishSays
     DEF TimerStep, Work

LEMMA WorkerSays ==
    ASSUME IInv, NEW w \in Workers, WorkerStep(w) PROVE Says
<1>1. ASSUME NEW r \in Requests, OrderTicket(w, r) PROVE Says
  BY <1>1, EnqueueSays DEF OrderTicket
<1>2. ASSUME NEW r \in Requests, CancelTicket(w, r) PROVE Says
  BY <1>2, SaysNothing DEF CancelTicket, queueVars
<1>3. ASSUME NEW t \in Tickets, AdminAddTicket(w, t) \/ AdminDeleteTicket(w, t) PROVE Says
  BY <1>3, SaysNothing DEF AdminAddTicket, AdminDeleteTicket, queueVars
<1>4. ASSUME ColdRead(w) \/ ViewTickets(w) PROVE Says
  BY <1>4, SaysNothing DEF ColdRead, ViewTickets, queueVars
<1>5. ASSUME ColdInit(w) PROVE Says
  BY <1>5, SaysNothing DEF ColdInit, InitializeStock, PutStock, queueVars
<1>6. ASSUME ColdEnqueue(w) PROVE Says
  BY <1>6, InCall, EnqueueSays DEF ColdEnqueue
<1>7. ASSUME IncrCancelled(w) PROVE Says
  BY <1>7, SaysNothing DEF IncrCancelled, Unchecked, IncrStock, PutStock, queueVars
<1>8. ASSUME Refill(w) PROVE Says
  BY <1>8, SaysNothing DEF Refill, Unchecked, PutStock, queueVars
<1>9. QED
  BY <1>1, <1>2, <1>3, <1>4, <1>5, <1>6, <1>7, <1>8 DEF WorkerStep

LEMMA NextSays ==
    ASSUME IInv, AwaitInv, [Next]_vars PROVE Says
<1>1. ASSUME NEW s \in Servers, Crash(s) PROVE Says
  <2>1. \A q \in Servers : job'[q] = job[q] \/ job'[q].pc # "ack"
    BY <1>1, Basics DEF Crash, NoTimer
  <2>2. QED
    BY <1>1, <2>1, SaysNothing DEF Crash, queueVars
<1>2. ASSUME Elapse PROVE Says
  BY <1>2, SaysNothing DEF Elapse, procVars, queueVars
<1>3. ASSUME ForgetStatus PROVE Says
  <2>1. \A r \in Requests : status'[r] = "QUEUED" => status[r] = "QUEUED"
    BY <1>3, Basics DEF ForgetStatus, StatusExpires, SetStatus, QueueTypeOK
  <2>2. QED
    BY <1>3, <2>1 DEF Says, ForgetStatus
<1>4. ASSUME UNCHANGED vars PROVE Says
  BY <1>4, SaysNothing DEF vars, procVars, queueVars
<1>5. QED
  BY <1>1, <1>2, <1>3, <1>4, TimerSays, WorkerSays DEF Next

\* Once no Redis command can fail any more, none does.
LEMMA RedisStays ==
    ASSUME IInv, AwaitInv, [Next]_vars PROVE budget'["redis"] = 0
<1>1. budget \in Budgets /\ ~Spend("redis")
  BY Basics DEF AwaitInv, Spend
<1>2. NoFault \/ Spend("db") \/ Spend("crash") \/ Spend("ttl") => budget'["redis"] = budget["redis"]
  BY <1>1 DEF NoFault, Spend, Budgets
<1>3. ASSUME NEW s \in Servers, TimerStep(s) PROVE budget'["redis"] = budget["redis"]
  BY <1>1, <1>2, <1>3 DEF TimerStep, Work, Poll, FindOrder, Transact, Recheck, CountTries, GiveUp, ZeroStock,
     NumberOrder, PublishStatus, AckOrder, ExpireOrders, IncrExpired, RefreshTicketStatus, Unchecked,
     procVars, NoFault
<1>4. ASSUME NEW w \in Workers, WorkerStep(w) PROVE budget'["redis"] = budget["redis"]
  BY <1>1, <1>2, <1>4 DEF WorkerStep, OrderTicket, CancelTicket, AdminAddTicket, AdminDeleteTicket,
     ColdRead, ColdInit, ColdEnqueue, IncrCancelled, ViewTickets, Refill, Unchecked
<1>5. QED
  BY <1>2, <1>3, <1>4 DEF Next, Crash, Elapse, ForgetStatus, vars, procVars, AwaitInv

\* ORDER_QUERY never goes on saying QUEUED of a request whose entry is settled,
\* as long as no Redis command is lost (setStatus does not look at its result,
\* and the entry is acknowledged all the same): whatever crashes, slow
\* consumers, database faults and expired keys come between. With EntriesSettle
\* this is why a client that polls gets its answer.
THEOREM QueuedOrdersAreUndecided ==
    ASSUME Faults["redis"] = 0 PROVE Spec => []QueuedIsUndecided
<1>1. ASSUME Init PROVE AwaitInv
  BY <1>1 DEF Init, QueueInit, AwaitInv
<1>2. ASSUME IInv, IInv', AwaitInv, [Next]_vars PROVE AwaitInv'
  BY <1>2, AwaitStays, NextSays, RedisStays, EntrySteps
<1>3. ASSUME IInv, AwaitInv PROVE QueuedIsUndecided
  BY <1>3 DEF AwaitInv, QueuedIsUndecided, Undecided, Open
<1>4. QED
  BY <1>1, <1>2, <1>3, SpecIInv, PTL DEF Spec

-----------------------------------------------------------------------------
(* Retries.                                                                *)

\* Dead letters for an infrastructure error come after max_retries deliveries.
LateLetters ==
    \A id \in Entries : \A i \in 1 .. Len(dead[id]) :
        dead[id][i] \notin Logical => tries[id] >= MaxRetries

\* Who is about to give up for an infrastructure error counted enough tries.
LateFailure ==
    \A s \in Servers : job[s].pc = "fail" /\ job[s].val \notin Logical
                          => tries[job[s].msg] >= MaxRetries

TriesInv == LateLetters /\ LateFailure

\* Dead letters stay, and a new one for an infrastructure error comes late.
LettersKeep ==
    /\ \A id \in Entries : id \in Entries' /\ tries'[id] >= tries[id]
    /\ \A id \in Entries' :
          \/ dead'[id] = <<>>
          \/ id \in Entries /\ dead'[id] = dead[id]
          \/ /\ id \in Entries
             /\ \E reason \in Reasons :
                   /\ dead'[id] = Append(dead[id], reason)
                   /\ reason \notin Logical => tries[id] >= MaxRetries

LEMMA SeqMember == ASSUME NEW S, NEW q \in Seq(S), NEW i \in 1 .. Len(q) PROVE q[i] \in S
OBVIOUS

LEMMA EntryRows ==
    ASSUME QueueTypeOK
    PROVE  \A id \in Entries :
              /\ stream[id] \in Requests /\ tries[id] \in 0 .. MaxTries
              /\ dead[id] \in Seq(Reasons)
<1>1. /\ stream \in Seq(Requests) /\ tries \in Seq(0 .. MaxTries) /\ dead \in Seq(Seq(Reasons))
      /\ Len(tries) = Len(stream) /\ Len(dead) = Len(stream)
  BY DEF QueueTypeOK
<1>2. \A id \in Entries : stream[id] \in Requests
  BY <1>1 DEF Entries
<1>3. \A id \in Entries : tries[id] \in 0 .. MaxTries
  BY <1>1, SeqMember DEF Entries
<1>4. \A id \in Entries : dead[id] \in Seq(Reasons)
  BY <1>1, SeqMember DEF Entries
<1>5. QED
  BY <1>2, <1>3, <1>4

LEMMA NextTries == ASSUME QueueTypeOK' PROVE \A id \in Entries' : tries'[id] \in 0 .. MaxTries
<1>1. tries' \in Seq(0 .. MaxTries) /\ Len(tries') = Len(stream')
  BY DEF QueueTypeOK
<1>2. QED
  BY <1>1, SeqMember DEF Entries

LEMMA LettersStayLate ==
    ASSUME IInv, QueueTypeOK', TriesInv, LettersKeep PROVE LateLetters'
<1> SUFFICES ASSUME NEW id \in Entries', NEW i \in 1 .. Len(dead'[id]), dead'[id][i] \notin Logical
             PROVE  tries'[id] >= MaxRetries
  BY DEF LateLetters, MaxRetries
<1>1. QueueTypeOK
  BY Basics
<1>2. dead'[id] # <<>>
  OBVIOUS
<1>3. /\ id \in Entries /\ dead[id] \in Seq(Reasons) /\ tries[id] \in Nat /\ tries'[id] \in Nat
      /\ MaxRetries \in Nat
  <2>1. id \in Entries
    BY <1>2 DEF LettersKeep
  <2>2. dead[id] \in Seq(Reasons) /\ tries[id] \in 0 .. MaxTries
    BY <1>1, <2>1, EntryRows
  <2>3. tries'[id] \in 0 .. MaxTries
    BY NextTries
  <2>4. QED
    BY <2>1, <2>2, <2>3, MaxTriesAssumption DEF MaxRetries
<1>4. tries[id] >= MaxRetries
  <2>1. CASE dead'[id] = dead[id]
    BY <1>3, <2>1 DEF TriesInv, LateLetters
  <2>2. CASE \E reason \in Reasons :
                /\ dead'[id] = Append(dead[id], reason)
                /\ reason \notin Logical => tries[id] >= MaxRetries
    <3>1. PICK reason \in Reasons : /\ dead'[id] = Append(dead[id], reason)
                                    /\ reason \notin Logical => tries[id] >= MaxRetries
      BY <2>2
    <3>2. CASE i \in 1 .. Len(dead[id])
      BY <1>3, <3>1, <3>2 DEF TriesInv, LateLetters
    <3>3. CASE i \notin 1 .. Len(dead[id])
      BY <1>3, <3>1, <3>3
    <3>4. QED
      BY <3>2, <3>3
  <2>3. QED
    BY <1>2, <2>1, <2>2 DEF LettersKeep
<1>5. tries'[id] >= tries[id]
  BY <1>3 DEF LettersKeep
<1>6. QED
  BY <1>3, <1>4, <1>5

LEMMA TriesStay ==
    ASSUME IInv, QueueTypeOK', TriesInv, [Next]_vars PROVE TriesInv'
<1>1. QueueTypeOK /\ job \in [Servers -> Jobs]
  BY Basics
<1>2. /\ Len(stream) \in Nat /\ MaxTries \in Nat /\ last \in 0 .. Len(stream) /\ pel \subseteq 1 .. last
      /\ \A id \in Entries : tries[id] \in 0 .. MaxTries
      /\ dead \in Seq(Seq(Reasons)) /\ Len(dead) = Len(stream)
  BY <1>1, MaxTriesAssumption DEF QueueTypeOK, Entries
<1>3. \A s \in Servers : job[s].pc \in HoldsEntry => job[s].msg \in Entries
  BY <1>2, InHand DEF Entries
<1>4. ASSUME Quiet PROVE LettersKeep /\ LateFailure'
  <2>1. LettersKeep
    BY <1>2, <1>4 DEF Quiet, StillQueue, LettersKeep, MaxRetries
  <2>2. ASSUME NEW s \in Servers, job'[s].pc = "fail", job'[s].val \notin Logical
        PROVE  tries'[job'[s].msg] >= MaxRetries
    <3>1. job[s].pc \in HoldsEntry /\ job'[s].msg = job[s].msg /\ tries[job[s].msg] >= MaxRetries
      BY <1>4, <2>2 DEF Quiet, GoOn, GoesOn, TriesInv, LateFailure, HoldsEntry
    <3>2. QED
      BY <1>3, <1>4, <3>1 DEF Quiet, StillQueue
  <2>3. QED
    BY <2>1, <2>2 DEF LateFailure, MaxRetries
<1>5. ASSUME NEW s \in Servers, NEW id \in Entries, Takes(s, id) PROVE LettersKeep /\ LateFailure'
  <2>1. tries' = [tries EXCEPT ![id] = Counted(id)] /\ stream' = stream /\ dead' = dead
    BY <1>5 DEF Takes, Deliver
  <2>2. \A i \in Entries : tries'[i] >= tries[i] /\ tries'[i] \in Nat
    BY <1>2, <2>1 DEF Counted
  <2>3. LettersKeep
    BY <2>1, <2>2 DEF LettersKeep, Entries
  <2>4. ASSUME NEW q \in Servers, job'[q].pc = "fail", job'[q].val \notin Logical
        PROVE  tries'[job'[q].msg] >= MaxRetries
    <3>1. job'[q] = job[q]
      BY <1>5, <2>4 DEF Takes
    <3>2. job[q].msg \in Entries /\ tries[job[q].msg] >= MaxRetries
      BY <1>3, <2>4, <3>1 DEF TriesInv, LateFailure, HoldsEntry
    <3>3. QED
      BY <1>2, <2>2, <3>1, <3>2 DEF MaxRetries
  <2>5. QED
    BY <2>3, <2>4 DEF LateFailure, MaxRetries
<1>6. ASSUME NEW s \in Servers, Settles(s) \/ Drops(s) PROVE LettersKeep /\ LateFailure'
  <2>1. tries' = tries /\ stream' = stream /\ Entries' = Entries
    BY <1>6 DEF Settles, Drops, TerminalFailure, Acknowledge, Entries
  <2>0. \A id \in Entries : id \in Entries' /\ tries'[id] >= tries[id]
    BY <1>2, <2>1
  <2>2. ASSUME Drops(s) PROVE LettersKeep
    BY <2>0, <2>1, <2>2 DEF Drops, Acknowledge, LettersKeep
  <2>3. ASSUME Settles(s) PROVE LettersKeep
    <3>1. /\ job[s].msg \in Entries /\ job[s].val \in Reasons
          /\ job[s].val \notin Logical => tries[job[s].msg] >= MaxRetries
      BY <1>3, <2>3, Basics DEF Settles, TriesInv, LateFailure, HoldsEntry, TimerIsCurrent
    <3>2. \A id \in Entries : dead'[id] = IF id = job[s].msg THEN Append(dead[id], job[s].val)
                                          ELSE dead[id]
      <4>1. dead' = [dead EXCEPT ![job[s].msg] = Append(dead[job[s].msg], job[s].val)]
        BY <2>3 DEF Settles, TerminalFailure
      <4>2. DOMAIN dead = Entries
        BY <1>2 DEF Entries
      <4>3. QED
        BY ONLY <4>1, <4>2
    <3>3. QED
      BY <2>0, <2>1, <3>1, <3>2 DEF LettersKeep
  <2>4. LateFailure'
    <3>1. ASSUME NEW q \in Servers, job'[q].pc = "fail" PROVE job'[q] = job[q]
      BY <1>6, <3>1 DEF Settles, Drops, LetsGo, HoldsEntry
    <3>2. QED
      BY <2>1, <3>1 DEF LateFailure, TriesInv, MaxRetries
  <2>5. QED
    BY <1>6, <2>2, <2>3, <2>4
<1>7. LettersKeep /\ LateFailure'
  BY <1>4, <1>5, <1>6, EntrySteps DEF EntryStep
<1>8. QED
  BY <1>7, LettersStayLate DEF TriesInv

LEMMA InitIdle ==
    ASSUME Init
    PROVE  /\ Entries = {} /\ pel = {}
           /\ \A s \in Servers : job[s].pc = "idle" /\ job[s].msg = 0 /\ job[s].todo = {}
<1>1. stream = <<>> /\ pel = {} /\ job = [s \in Servers |-> NoTimer]
  BY DEF Init, QueueInit
<1>2. NoTimer.pc = "idle" /\ NoTimer.msg = 0 /\ NoTimer.todo = {}
  BY DEF NoTimer
<1>3. Entries = {}
  BY <1>1 DEF Entries
<1>4. QED
  BY <1>1, <1>2, <1>3

LEMMA SpecTriesInv == Spec => []TriesInv
<1>1. ASSUME Init PROVE TriesInv
  <2>1. Entries = {} /\ \A s \in Servers : job[s].pc = "idle"
    BY <1>1, InitIdle
  <2>2. QED
    BY <2>1 DEF TriesInv, LateLetters, LateFailure
<1>2. IInv /\ IInv' /\ TriesInv /\ [Next]_vars => TriesInv'
  BY TriesStay, Basics DEF IInv, TypeOK
<1>3. QED
  BY <1>1, <1>2, SpecIInv, PTL DEF Spec

-----------------------------------------------------------------------------
(* Orders that are refused.                                                *)

LEMMA UnitsMonotone ==
    ASSUME NEW B \in SUBSET Requests, NEW A \in SUBSET B, NEW t
    PROVE  Cardinality(Units(A, t)) <= Cardinality(Units(B, t))
<1>1. A \in SUBSET Requests /\ B \ A \in SUBSET Requests /\ A \cap (B \ A) = {} /\ A \cup (B \ A) = B
  OBVIOUS
<1>2. Cardinality(Units(B, t)) = Cardinality(Units(A, t)) + Cardinality(Units(B \ A, t))
  BY <1>1, UnitsDisjoint
<1>3. /\ Cardinality(Units(A, t)) \in Nat /\ Cardinality(Units(B, t)) \in Nat
      /\ Cardinality(Units(B \ A, t)) \in Nat
  BY <1>1, UnitsFinite
<1>4. QED
  BY <1>2, <1>3

LEMMA UnitsWithout ==
    ASSUME NEW B \in SUBSET Requests, NEW r \in B, NEW A \in SUBSET B, r \notin A, NEW t
    PROVE  Cardinality(Units(A, t)) + (IF TicketOf[r] = t THEN Qty[r] ELSE 0)
              <= Cardinality(Units(B, t))
<1>1. A \in SUBSET Requests /\ {r} \in SUBSET Requests /\ A \cap {r} = {} /\ A \cup {r} \in SUBSET B
  OBVIOUS
<1>2. Cardinality(Units(A \cup {r}, t)) = Cardinality(Units(A, t)) + Cardinality(Units({r}, t))
  BY <1>1, UnitsDisjoint
<1>3. Cardinality(Units(A \cup {r}, t)) <= Cardinality(Units(B, t))
  BY <1>1, UnitsMonotone
<1>4. QED
  BY <1>2, <1>3, UnitsOfOne

\* A ticket that has a stock key, or an entry, or is about to get a key, was
\* put on sale.
ShelvedInv ==
    /\ \A t \in Tickets : stock[t] # NoKey => shelf[t] # "absent"
    /\ \A id \in Entries : shelf[TicketOf[stream[id]]] # "absent"
    /\ \A w \in Workers : \A v \in api[w].vals : shelf[v[1]] # "absent"

KeysFound == \A t \in Tickets : stock'[t] # NoKey => stock[t] # NoKey \/ shelf'[t] # "absent"
EntriesFound ==
    \A id \in Entries' :
        (id \in Entries /\ stream'[id] = stream[id]) \/ shelf'[TicketOf[stream'[id]]] # "absent"
CallsFound ==
    \A w \in Workers : \A v \in api'[w].vals : v \in api[w].vals \/ shelf'[v[1]] # "absent"

LEMMA ShelfStays ==
    ASSUME StoreTypeOK, [StoreNext]_storeVars, NEW t \in Tickets, shelf[t] # "absent"
    PROVE  shelf'[t] # "absent"
<1>1. ASSUME NEW q \in Requests,
             Reserve(q) \/ Number(q) \/ Cancel(q) \/ Confirm(q) \/ Deadline(q)
      PROVE  shelf' = shelf
  BY <1>1 DEF Reserve, Number, Cancel, GiveBack, Confirm, Deadline
<1>2. ASSUME NEW R \in SUBSET Requests, Expire(R) PROVE shelf' = shelf
  BY <1>2 DEF Expire, GiveBack
<1>3. ASSUME NEW u \in Tickets, AddTicket(u) PROVE shelf'[t] # "absent"
  BY <1>3 DEF AddTicket, StoreTypeOK
<1>4. ASSUME NEW T \in SUBSET Tickets, TakeOffline(T) PROVE shelf'[t] # "absent"
  BY <1>4 DEF TakeOffline
<1>5. ASSUME UNCHANGED storeVars PROVE shelf' = shelf
  BY <1>5 DEF storeVars
<1>6. QED
  BY <1>1, <1>2, <1>3, <1>4, <1>5 DEF StoreNext

LEMMA ShelfOffline ==
    ASSUME StoreTypeOK, [StoreNext]_storeVars, NEW t \in Tickets, shelf[t] = "offline"
    PROVE  shelf'[t] = "offline"
<1>1. ASSUME NEW q \in Requests,
             Reserve(q) \/ Number(q) \/ Cancel(q) \/ Confirm(q) \/ Deadline(q)
      PROVE  shelf' = shelf
  BY <1>1 DEF Reserve, Number, Cancel, GiveBack, Confirm, Deadline
<1>2. ASSUME NEW R \in SUBSET Requests, Expire(R) PROVE shelf' = shelf
  BY <1>2 DEF Expire, GiveBack
<1>3. ASSUME NEW u \in Tickets, AddTicket(u) PROVE shelf'[t] = "offline"
  BY <1>3 DEF AddTicket, StoreTypeOK
<1>4. ASSUME NEW T \in SUBSET Tickets, TakeOffline(T) PROVE shelf'[t] = "offline"
  BY <1>4 DEF TakeOffline
<1>5. ASSUME UNCHANGED storeVars PROVE shelf' = shelf
  BY <1>5 DEF storeVars
<1>6. QED
  BY <1>1, <1>2, <1>3, <1>4, <1>5 DEF StoreNext

LEMMA ShelvedStays ==
    ASSUME IInv, IInv', ShelvedInv, [StoreNext]_storeVars, KeysFound, EntriesFound, CallsFound
    PROVE  ShelvedInv'
<1>1. \A t \in Tickets : shelf[t] # "absent" => shelf'[t] # "absent"
  BY ShelfStays, Basics
<1>2. \A t \in Tickets : stock'[t] # NoKey => shelf'[t] # "absent"
  BY <1>1 DEF ShelvedInv, KeysFound
<1>3. ASSUME NEW id \in Entries' PROVE shelf'[TicketOf[stream'[id]]] # "absent"
  <2>1. ASSUME id \in Entries, stream'[id] = stream[id] PROVE shelf'[TicketOf[stream'[id]]] # "absent"
    <3>1. stream[id] \in Requests
      BY <2>1, EntryRows, Basics
    <3>2. TicketOf[stream[id]] \in Tickets
      BY <3>1, RequestData
    <3>3. QED
      BY <1>1, <2>1, <3>2 DEF ShelvedInv
  <2>2. QED
    BY <1>3, <2>1 DEF EntriesFound
<1>4. ASSUME NEW w \in Workers, NEW v \in api'[w].vals PROVE shelf'[v[1]] # "absent"
  <2>1. ASSUME v \in api[w].vals PROVE shelf'[v[1]] # "absent"
    <3>1. api[w].vals \subseteq Tickets \X Nat
      BY DEF IInv, TypeOK, Calls
    <3>2. v[1] \in Tickets
      BY <2>1, <3>1
    <3>3. QED
      BY <1>1, <2>1, <3>2 DEF ShelvedInv
  <2>2. QED
    BY <1>4, <2>1 DEF CallsFound
<1>5. QED
  BY <1>2, <1>3, <1>4 DEF ShelvedInv

\* What the commands of Redis do to keys and entries.
Found == KeysFound /\ EntriesFound

LEMMA FoundStill == ASSUME stock' = stock, stream' = stream PROVE Found
BY DEF Found, KeysFound, EntriesFound, Entries

LEMMA FoundUnchanged == ASSUME UNCHANGED queueVars PROVE Found
BY FoundStill DEF queueVars

LEMMA FoundPut ==
    ASSUME QueueTypeOK, NEW t, NEW n, PutStock(t, n), t \in Tickets => shelf'[t] # "absent" PROVE Found
BY DEF PutStock, Found, KeysFound, EntriesFound, Entries, QueueTypeOK

LEMMA FoundIncr == ASSUME QueueTypeOK, NEW t, NEW n, IncrStock(t, n) PROVE Found
<1>1. CASE stock[t] = NoKey
  BY <1>1, FoundUnchanged DEF IncrStock
<1>2. CASE stock[t] # NoKey
  BY <1>2 DEF IncrStock, PutStock, Found, KeysFound, EntriesFound, Entries, QueueTypeOK
<1>3. QED
  BY <1>1, <1>2

LEMMA FoundInitialize ==
    ASSUME QueueTypeOK, NEW t, NEW n, InitializeStock(t, n), t \in Tickets => shelf'[t] # "absent"
    PROVE  Found
BY FoundPut, FoundUnchanged DEF InitializeStock

LEMMA FoundEnqueue ==
    ASSUME IInv, ShelvedInv, [StoreNext]_storeVars, NEW r \in Requests, Enqueue(r) PROVE Found
<1>1. CASE Admission(r) # "QUEUED"
  BY <1>1, FoundUnchanged DEF Enqueue
<1>2. CASE Admission(r) = "QUEUED"
  <2>1. TicketOf[r] \in Tickets /\ stock[TicketOf[r]] # NoKey
    BY <1>2, RequestData DEF Admission
  <2>2. shelf'[TicketOf[r]] # "absent"
    BY <2>1, ShelfStays, Basics DEF ShelvedInv
  <2>3. /\ stock' = [stock EXCEPT ![TicketOf[r]] = @ - Qty[r]]
        /\ stream' = Append(stream, r)
    BY <1>2 DEF Enqueue
  <2>4. stream \in Seq(Requests) /\ stock \in [Tickets -> Nat \cup {NoKey}]
    BY Basics DEF QueueTypeOK
  <2>5. KeysFound
    BY <2>1, <2>2, <2>3, <2>4 DEF KeysFound
  <2>6. EntriesFound
    BY <2>2, <2>3, <2>4 DEF EntriesFound, Entries
  <2>7. QED
    BY <2>5, <2>6 DEF Found
<1>3. QED
  BY <1>1, <1>2

LEMMA SameCallsFound == ASSUME api' = api PROVE CallsFound
BY DEF CallsFound

\* The entry in hand is of a ticket that was on sale.
LEMMA HeldShelved ==
    ASSUME IInv, ShelvedInv, NEW s \in Servers, job[s].pc \in HoldsEntry
    PROVE  Order(s) \in Requests /\ TicketOf[Order(s)] \in Tickets /\ shelf[TicketOf[Order(s)]] # "absent"
<1>1. job[s].msg \in 1 .. last /\ Order(s) \in Requests /\ stream[job[s].msg] = Order(s)
  BY InHand
<1>2. job[s].msg \in Entries
  BY <1>1, Basics DEF QueueTypeOK, Entries
<1>3. QED
  BY <1>1, <1>2, RequestData DEF ShelvedInv

LEMMA TimerShelved ==
    ASSUME IInv, ShelvedInv, [StoreNext]_storeVars, NEW s \in Servers, TimerStep(s)
    PROVE  Found /\ CallsFound
<1>1. QueueTypeOK
  BY Basics
<1>2. ASSUME NEW id \in Entries, Poll(s, id) PROVE Found /\ api' = api
  BY <1>2, FoundStill DEF Poll, Deliver
<1>3. ASSUME FindOrder(s) \/ Transact(s) \/ Recheck(s) \/ CountTries(s) \/ NumberOrder(s)
      PROVE  Found /\ api' = api
  BY <1>3, FoundUnchanged DEF FindOrder, Transact, Recheck, CountTries, NumberOrder
<1>4. ASSUME GiveUp(s) PROVE Found /\ api' = api
  <2>1. CASE UNCHANGED queueVars
    BY <1>4, <2>1, FoundUnchanged DEF GiveUp
  <2>2. CASE TerminalFailure(job[s].msg, job[s].val)
    <3>1. stream' = stream
      BY <2>2 DEF TerminalFailure
    <3>2. \A t \in Tickets : stock[t] = NoKey => stock'[t] = NoKey
      BY <1>1, <2>2 DEF TerminalFailure, QueueTypeOK
    <3>3. QED
      BY <1>4, <3>1, <3>2 DEF GiveUp, Found, KeysFound, EntriesFound, Entries
  <2>3. QED
    BY <1>4, <2>1, <2>2 DEF GiveUp, Unchecked
<1>5. ASSUME ZeroStock(s) PROVE Found /\ api' = api
  <2>1. job[s].pc \in HoldsEntry
    BY <1>5 DEF ZeroStock, At, HoldsEntry
  <2>2. shelf'[TicketOf[Order(s)]] # "absent"
    BY <2>1, HeldShelved, ShelfStays, Basics
  <2>3. QED
    BY <1>1, <1>5, <2>2, FoundPut, FoundUnchanged DEF ZeroStock, Unchecked
<1>6. ASSUME PublishStatus(s) PROVE Found /\ api' = api
  BY <1>6, FoundUnchanged, FoundStill DEF PublishStatus, Unchecked, SetStatus
<1>7. ASSUME AckOrder(s) PROVE Found /\ api' = api
  BY <1>7, FoundUnchanged, FoundStill DEF AckOrder, Unchecked, Acknowledge
<1>8. ASSUME ExpireOrders(s) PROVE Found /\ api' = api
  BY <1>8, FoundUnchanged DEF ExpireOrders
<1>9. ASSUME IncrExpired(s) PROVE Found /\ api' = api
  BY <1>1, <1>9, FoundUnchanged, FoundIncr DEF IncrExpired, Unchecked
<1>10. ASSUME RefreshTicketStatus(s) PROVE Found /\ api' = api
  BY <1>10, FoundUnchanged DEF RefreshTicketStatus, procVars
<1>11. QED
  BY <1>2, <1>3, <1>4, <1>5, <1>6, <1>7, <1>8, <1>9, <1>10, SameCallsFound DEF TimerStep, Work

LEMMA CallFound ==
    ASSUME NEW w \in Workers, NEW pc, NEW r, NEW V, api \in [Workers -> Calls],
           Call(w, pc, r, V), \A v \in V : v \in api[w].vals \/ shelf'[v[1]] # "absent"
    PROVE  CallsFound
BY DEF Call, CallsFound

LEMMA ReturnFound ==
    ASSUME NEW w \in Workers, api \in [Workers -> Calls], Return(w) PROVE CallsFound
BY DEF Return, NoCall, CallsFound

LEMMA WorkerShelved ==
    ASSUME IInv, ShelvedInv, [StoreNext]_storeVars, NEW w \in Workers, WorkerStep(w)
    PROVE  Found /\ CallsFound
<1>1. QueueTypeOK /\ StoreTypeOK /\ api \in [Workers -> Calls]
  BY Basics DEF IInv, TypeOK
<1>2. ASSUME NEW r \in Requests, OrderTicket(w, r) PROVE Found /\ CallsFound
  <2>1. Found
    BY <1>2, FoundEnqueue, FoundUnchanged DEF OrderTicket
  <2>2. CallsFound
    BY <1>1, <1>2, CallFound, SameCallsFound DEF OrderTicket
  <2>3. QED
    BY <2>1, <2>2
<1>3. ASSUME ColdRead(w) PROVE Found /\ CallsFound
  <2>1. TicketOf[api[w].req] \in Tickets
    BY <1>3, InCall DEF ColdRead
  <2>2. CASE Return(w)
    BY <1>1, <1>3, <2>2, ReturnFound, FoundUnchanged DEF ColdRead
  <2>3. CASE ~Return(w)
    <3>1. /\ shelf[TicketOf[api[w].req]] = "onsale" /\ shelf' = shelf
          /\ Call(w, "init", api[w].req, {<<TicketOf[api[w].req], avail[TicketOf[api[w].req]]>>})
      BY <1>3, <2>3 DEF ColdRead, storeVars
    <3>2. CallsFound
      BY <1>1, <3>1, CallFound
    <3>3. QED
      BY <1>3, <3>2, FoundUnchanged DEF ColdRead
  <2>4. QED
    BY <2>2, <2>3
<1>4. ASSUME ColdInit(w) PROVE Found /\ CallsFound
  <2>1. CASE Return(w) /\ UNCHANGED queueVars
    BY <1>1, <2>1, ReturnFound, FoundUnchanged
  <2>2. CASE Call(w, "again", api[w].req, {}) /\ \E v \in api[w].vals : InitializeStock(v[1], v[2])
    <3>1. PICK v \in api[w].vals : InitializeStock(v[1], v[2])
      BY <2>2
    <3>2. shelf[v[1]] # "absent"
      BY <3>1 DEF ShelvedInv
    <3>3. shelf' = shelf
      BY <1>4 DEF ColdInit, storeVars
    <3>4. Found
      BY <1>1, <3>1, <3>2, <3>3, FoundInitialize
    <3>5. QED
      BY <1>1, <2>2, <3>4, CallFound
  <2>3. QED
    BY <1>4, <2>1, <2>2 DEF ColdInit
<1>5. ASSUME ColdEnqueue(w) PROVE Found /\ CallsFound
  <2>1. api[w].req \in Requests
    BY <1>5, InCall DEF ColdEnqueue
  <2>2. Found
    BY <1>5, <2>1, FoundEnqueue, FoundUnchanged DEF ColdEnqueue
  <2>3. QED
    BY <1>1, <1>5, <2>2, ReturnFound DEF ColdEnqueue
<1>6. ASSUME NEW r \in Requests, CancelTicket(w, r) PROVE Found /\ CallsFound
  <2>1. CallsFound
    BY <1>1, <1>6, CallFound, SameCallsFound DEF CancelTicket
  <2>2. QED
    BY <1>6, <2>1, FoundUnchanged DEF CancelTicket
<1>7. ASSUME IncrCancelled(w) PROVE Found /\ CallsFound
  BY <1>1, <1>7, FoundUnchanged, FoundIncr, ReturnFound DEF IncrCancelled, Unchecked
<1>8. ASSUME ViewTickets(w) PROVE Found /\ CallsFound
  <2>1. /\ Call(w, "refill", NoRequest,
                {<<t, avail[t]>> : t \in {u \in Tickets : shelf[u] = "onsale"}})
        /\ shelf' = shelf /\ UNCHANGED queueVars
    BY <1>8 DEF ViewTickets, storeVars
  <2>2. \A v \in {<<t, avail[t]>> : t \in {u \in Tickets : shelf[u] = "onsale"}} :
            shelf'[v[1]] # "absent"
    BY <2>1
  <2>3. CallsFound
    BY <1>1, <2>1, <2>2, CallFound
  <2>4. QED
    BY <2>1, <2>3, FoundUnchanged
<1>9. ASSUME NEW t \in Tickets, AdminAddTicket(w, t) PROVE Found /\ CallsFound
  <2>1. /\ Call(w, "refill", NoRequest, {<<t, Total[t]>>}) /\ UNCHANGED queueVars
        /\ shelf' = [shelf EXCEPT ![t] = "onsale"]
    BY <1>9 DEF AdminAddTicket, AddTicket
  <2>2. shelf'[t] # "absent"
    BY <1>1, <2>1 DEF StoreTypeOK
  <2>3. CallsFound
    BY <1>1, <2>1, <2>2, CallFound
  <2>4. QED
    BY <2>1, <2>3, FoundUnchanged
<1>10. ASSUME NEW t \in Tickets, AdminDeleteTicket(w, t) PROVE Found /\ CallsFound
  <2>1. /\ Call(w, "refill", NoRequest, {<<t, 0>>}) /\ UNCHANGED queueVars
        /\ shelf' = [u \in Tickets |-> IF u \in {t} THEN "offline" ELSE shelf[u]]
    BY <1>10 DEF AdminDeleteTicket, TakeOffline
  <2>2. shelf'[t] # "absent"
    BY <2>1
  <2>3. CallsFound
    BY <1>1, <2>1, <2>2, CallFound
  <2>4. QED
    BY <2>1, <2>3, FoundUnchanged
<1>11. ASSUME Refill(w) PROVE Found /\ CallsFound
  <2>1. PICK v \in api[w].vals :
          /\ Unchecked(PutStock(v[1], v[2]))
          /\ IF api[w].vals = {v} THEN Return(w)
             ELSE Call(w, "refill", NoRequest, api[w].vals \ {v})
    BY <1>11 DEF Refill
  <2>2. shelf[v[1]] # "absent" /\ shelf' = shelf
    BY <1>11, <2>1 DEF ShelvedInv, Refill, storeVars
  <2>3. Found
    BY <1>1, <2>1, <2>2, FoundPut, FoundUnchanged DEF Unchecked
  <2>4. CallsFound
    BY <1>1, <2>1, CallFound, ReturnFound
  <2>5. QED
    BY <2>3, <2>4
<1>12. QED
  BY <1>2, <1>3, <1>4, <1>5, <1>6, <1>7, <1>8, <1>9, <1>10, <1>11 DEF WorkerStep

LEMMA ShelvedKept ==
    ASSUME IInv, IInv', ShelvedInv, [Next]_vars PROVE ShelvedInv'
<1>1. [StoreNext]_storeVars
  BY NextIInv
<1>2. ASSUME NEW s \in Servers, Crash(s) PROVE Found /\ CallsFound
  <2>1. CallsFound
    BY <1>2 DEF Crash, NoCall, CallsFound
  <2>2. QED
    BY <1>2, <2>1, FoundUnchanged DEF Crash
<1>3. ASSUME Elapse PROVE Found /\ CallsFound
  BY <1>3, FoundUnchanged, SameCallsFound DEF Elapse, procVars
<1>4. ASSUME ForgetStatus PROVE Found /\ CallsFound
  BY <1>4, FoundStill, SameCallsFound DEF ForgetStatus, StatusExpires, SetStatus
<1>5. ASSUME UNCHANGED vars PROVE Found /\ CallsFound
  BY <1>5, FoundUnchanged, SameCallsFound DEF vars, procVars
<1>6. Found /\ CallsFound
  BY <1>1, <1>2, <1>3, <1>4, <1>5, TimerShelved, WorkerShelved DEF Next
<1>7. QED
  BY <1>1, <1>6, ShelvedStays DEF Found

LEMMA SpecShelvedInv == Spec => []ShelvedInv
<1>1. ASSUME Init PROVE ShelvedInv
  <2>1. /\ stock = [t \in Tickets |-> NoKey] /\ api = [w \in Workers |-> NoCall] /\ Entries = {}
    BY <1>1, InitIdle DEF Init, QueueInit
  <2>2. QED
    BY <2>1 DEF ShelvedInv, NoCall
<1>2. IInv /\ IInv' /\ ShelvedInv /\ [Next]_vars => ShelvedInv'
  BY ShelvedKept
<1>3. QED
  BY <1>1, <1>2, SpecIInv, PTL DEF Spec

-----------------------------------------------------------------------------
(* Causes, and who gives up without one.                                   *)

LEMMA UnfoundedAre ==
    \A reason \in Logical, r \in Requests :
        /\ <<reason, r>> \in Unfounded <=> ~Founded(reason, r)
        /\ <<reason, r>> \in Unfounded' <=> ~Founded(reason, r)'
BY DEF Unfounded

\* What is a cause once stays one.
LEMMA CausesStay ==
    ASSUME StoreTypeOK, [StoreNext]_storeVars
    PROVE  Unfounded' \subseteq Unfounded
<1> SUFFICES ASSUME NEW reason \in Logical, NEW r \in Requests, Founded(reason, r)
             PROVE  Founded(reason, r)'
  <2>1. Unfounded \subseteq Logical \X Requests /\ Unfounded' \subseteq Logical \X Requests
    BY DEF Unfounded
  <2>2. QED
    BY <2>1, UnfoundedAre
<1> DEFINE t == TicketOf[r]
<1>1. t \in Tickets /\ Total[t] \in Nat
  BY RequestData, RequestsAssumption
<1>2. Placed \in SUBSET Placed' /\ Placed' \in SUBSET Requests
  BY RowsStay DEF Placed
<1>3. CASE reason = "TICKET_OFFLINE"
  <2>1. shelf[t] = "offline"
    BY <1>3 DEF Founded
  <2>2. shelf'[t] = "offline"
    BY <1>1, <2>1, ShelfOffline
  <2>3. QED
    BY <1>3, <2>2 DEF Founded
<1>4. CASE reason = "NO_TICKET"
  <2>1. Total[t] < Cardinality(Units(Placed \cup {r}, t))
    BY <1>4 DEF Founded
  <2>2. (Placed \cup {r}) \in SUBSET (Placed' \cup {r}) /\ (Placed' \cup {r}) \in SUBSET Requests
    BY <1>2
  <2>3. Cardinality(Units(Placed \cup {r}, t)) <= Cardinality(Units(Placed' \cup {r}, t))
    BY <2>2, UnitsMonotone
  <2>4. /\ Cardinality(Units(Placed \cup {r}, t)) \in Nat
        /\ Cardinality(Units(Placed' \cup {r}, t)) \in Nat
    BY <2>2, UnitsFinite
  <2>5. Total[t] < Cardinality(Units(Placed' \cup {r}, t))
    BY <1>1, <2>1, <2>3, <2>4
  <2>6. QED
    BY <1>4, <2>5 DEF Founded
<1>5. CASE reason = "SEAT_TAKEN"
  BY <1>2, <1>5 DEF Founded
<1>6. CASE reason = "TICKET_NOT_FOUND"
  BY <1>6 DEF Founded
<1>7. QED
  BY <1>3, <1>4, <1>5, <1>6 DEF Logical

\* A transaction that refuses an order without a row has a reason.
LEMMA OutcomeFounded ==
    ASSUME IInv, Conservation, SeatsMatch, NEW r \in Requests,
           shelf[TicketOf[r]] # "absent", resv[r] = "NONE", Outcome(r) # "OK"
    PROVE  <<Outcome(r), r>> \notin Unfounded
<1> DEFINE t == TicketOf[r]
<1>1. /\ t \in Tickets /\ Qty[r] \in Nat /\ Total[t] \in Nat /\ avail[t] \in Nat
      /\ shelf[t] \in {"onsale", "offline"}
  BY RequestData, RequestsAssumption, Basics DEF StoreTypeOK
<1>2. CASE shelf[t] = "offline"
  <2>1. Outcome(r) = "TICKET_OFFLINE"
    BY <1>2 DEF Outcome
  <2>2. Founded("TICKET_OFFLINE", r)
    BY <1>2 DEF Founded
  <2>3. QED
    BY <2>1, <2>2, UnfoundedAre DEF Logical
<1>3. CASE shelf[t] = "onsale" /\ avail[t] < Qty[r]
  <2>1. Outcome(r) = "NO_TICKET"
    BY <1>3 DEF Outcome
  <2>2. avail[t] + Cardinality(Units(Active, t)) = Total[t]
    BY <1>1 DEF Conservation
  <2>3. /\ Active \in SUBSET (Placed \cup {r}) /\ r \notin Active /\ r \in Placed \cup {r}
        /\ (Placed \cup {r}) \in SUBSET Requests
    BY DEF Active, Placed
  <2>4. Cardinality(Units(Active, t)) + Qty[r] <= Cardinality(Units(Placed \cup {r}, t))
    BY <2>3, UnitsWithout
  <2>5. /\ Cardinality(Units(Active, t)) \in Nat
        /\ Cardinality(Units(Placed \cup {r}, t)) \in Nat
    <3>1. Active \in SUBSET Requests
      BY <2>3
    <3>2. QED
      BY <2>3, <3>1, UnitsFinite
  <2>6. Total[t] < Cardinality(Units(Placed \cup {r}, t))
    BY <1>1, <1>3, <2>2, <2>4, <2>5
  <2>7. Founded("NO_TICKET", r)
    BY <2>6 DEF Founded
  <2>8. QED
    BY <2>1, <2>7, UnfoundedAre DEF Logical
<1>4. CASE shelf[t] = "onsale" /\ ~(avail[t] < Qty[r])
  <2>1. Outcome(r) = "SEAT_TAKEN" /\ ~SeatsFree(r)
    BY <1>4 DEF Outcome
  <2>2. PICK x \in SeatsOf[r] : SeatTicket[x] # t \/ seatOf[x] # NoRequest
    BY <2>1 DEF SeatsFree
  <2>3. CASE seatOf[x] # NoRequest
    <3>1. x \in Seats
      BY <2>2, RequestsAssumption
    <3>2. seatOf[x] \in Active /\ x \in SeatsOf[seatOf[x]]
      BY <2>3, <3>1 DEF SeatsMatch
    <3>3. seatOf[x] \in Placed \ {r}
      BY <3>2 DEF Active, Placed
    <3>4. PICK q \in Placed \ {r} : x \in SeatsOf[q]
      BY <3>2, <3>3
    <3>5. Founded("SEAT_TAKEN", r)
      BY <2>2, <3>4 DEF Founded
    <3>6. QED
      BY <2>1, <3>5, UnfoundedAre DEF Logical
  <2>4. CASE SeatTicket[x] # t
    BY <2>1, <2>2, <2>4, UnfoundedAre DEF Founded, Logical
  <2>5. QED
    BY <2>2, <2>3, <2>4
<1>5. QED
  BY <1>1, <1>2, <1>3, <1>4

\* Who is about to give an order up without a reason.
Misjudges(s) ==
    /\ job[s].pc \in {"recheck", "count", "fail"}
    /\ job[s].pc = "recheck" => resv[Order(s)] = "NONE"
    /\ <<job[s].val, Order(s)>> \in Unfounded

Misjudgers == {s \in Servers : Misjudges(s)}

\* A timer that does not start to misjudge.
Fair(q) == Misjudges(q)' => Misjudges(q)

StreamStays == \A id \in Entries : id \in Entries' /\ stream'[id] = stream[id]

LEMMA SameOrder ==
    ASSUME IInv, StreamStays, NEW s \in Servers, job[s].pc \in HoldsEntry, job'[s].msg = job[s].msg
    PROVE  Order(s) \in Requests /\ Order(s)' = Order(s)
<1>1. job[s].msg \in 1 .. last /\ Order(s) \in Requests /\ stream[job[s].msg] = Order(s)
  BY InHand
<1>2. job[s].msg \in Entries
  BY <1>1, Basics DEF QueueTypeOK, Entries
<1>3. QED
  BY <1>1, <1>2 DEF StreamStays, Order

\* Standing still, going on with the same verdict, and letting go are fair.
LEMMA FairWays ==
    ASSUME IInv, StreamStays, [StoreNext]_storeVars, NEW q \in Servers,
           \/ job'[q].pc \notin {"recheck", "count", "fail"}
           \/ job'[q] = job[q]
           \/ /\ job[q].pc \in {"recheck", "count"} /\ job'[q].msg = job[q].msg
              /\ job'[q].val = job[q].val
              /\ job[q].pc = "recheck" => resv[Order(q)] = "NONE"
    PROVE  Fair(q)
<1> SUFFICES ASSUME Misjudges(q)' PROVE Misjudges(q)
  BY DEF Fair
<1>1. /\ job'[q].pc \in {"recheck", "count", "fail"}
      /\ job'[q].pc = "recheck" => resv'[Order(q)'] = "NONE"
      /\ <<job'[q].val, Order(q)'>> \in Unfounded'
  BY DEF Misjudges
<1>2. job[q].pc \in {"recheck", "count", "fail"} /\ job'[q].msg = job[q].msg /\ job'[q].val = job[q].val
  BY <1>1
<1>3. Order(q) \in Requests /\ Order(q)' = Order(q)
  BY <1>2, SameOrder DEF HoldsEntry
<1>4. <<job[q].val, Order(q)>> \in Unfounded
  BY <1>1, <1>2, <1>3, CausesStay, Basics
<1>5. job[q].pc = "recheck" => resv[Order(q)] = "NONE"
  <2>1. CASE job'[q] = job[q]
    BY <1>1, <1>3, <2>1, RowsStay, Basics
  <2>2. CASE job'[q] # job[q]
    BY <1>1, <2>2
  <2>3. QED
    BY <2>1, <2>2
<1>6. QED
  BY <1>2, <1>4, <1>5 DEF Misjudges

\* A step pays a failed statement for a timer that starts to misjudge.
JudgeStep ==
    \/ budget'["db"] <= budget["db"] /\ \A q \in Servers : Fair(q)
    \/ /\ budget["db"] > 0 /\ budget'["db"] = budget["db"] - 1
       /\ \E s \in Servers : \A q \in Servers \ {s} : Fair(q)

LEMMA Spent ==
    ASSUME budget \in Budgets
    PROVE  /\ Spend("db") => budget["db"] > 0 /\ budget'["db"] = budget["db"] - 1
           /\ NoFault \/ Spend("redis") \/ Spend("crash") \/ Spend("ttl")
                  => budget'["db"] = budget["db"]
           /\ budget["db"] \in Nat
BY DEF Spend, NoFault, Budgets

\* The other timers stay as they are.
LEMMA StartsAlone ==
    ASSUME IInv, StreamStays, [StoreNext]_storeVars, NEW s \in Servers, Spend("db"),
           \A q \in Servers \ {s} : job'[q] = job[q]
    PROVE  JudgeStep
BY FairWays, Spent, Basics DEF JudgeStep

LEMMA FairAlone ==
    ASSUME IInv, StreamStays, [StoreNext]_storeVars, NEW s \in Servers, Fair(s),
           NoFault \/ Spend("redis"),
           \A q \in Servers \ {s} : job'[q] = job[q]
    PROVE  JudgeStep
<1>1. \A q \in Servers : Fair(q)
  BY FairWays
<1>2. budget'["db"] <= budget["db"]
  BY Spent, Basics
<1>3. QED
  BY <1>1, <1>2 DEF JudgeStep

LEMMA FairGo ==
    ASSUME IInv, StreamStays, [StoreNext]_storeVars, NEW s \in Servers, NEW pc \in PCs, NEW val \in Values,
           Go(s, pc, val), pc \notin {"recheck", "count", "fail"}, NoFault \/ Spend("redis")
    PROVE  JudgeStep
<1>1. (\A q \in Servers \ {s} : job'[q] = job[q]) /\ job'[s].pc = pc
  BY GoStep, Basics
<1>2. Fair(s)
  BY <1>1, FairWays
<1>3. QED
  BY <1>1, <1>2, FairAlone

LEMMA GoOthers ==
    ASSUME IInv, NEW s \in Servers, NEW pc, NEW val, Go(s, pc, val)
    PROVE  \A q \in Servers \ {s} : job'[q] = job[q]
BY Basics DEF Go

LEMMA TimerJudges ==
    ASSUME IInv, ShelvedInv, Conservation, SeatsMatch, StreamStays, [StoreNext]_storeVars,
           NEW s \in Servers, TimerStep(s)
    PROVE  JudgeStep
<1>1. job \in [Servers -> Jobs] /\ StoreTypeOK
  BY Basics
<1>2. ASSUME NEW id \in Entries, Poll(s, id) PROVE JudgeStep
  <2>1. /\ job' = job \/ job' = [job EXCEPT ![s].pc = "find", ![s].msg = id]
        /\ NoFault \/ Spend("redis")
    BY <1>2 DEF Poll
  <2>2. /\ \A q \in Servers \ {s} : job'[q] = job[q]
        /\ job'[s] = job[s] \/ job'[s].pc = "find"
    BY <1>1, <2>1 DEF Jobs
  <2>3. Fair(s)
    BY <2>2, FairWays
  <2>4. QED
    BY <2>1, <2>2, <2>3, FairAlone
<1>3. ASSUME FindOrder(s) PROVE JudgeStep
  <2>1. job[s].pc = "find" /\ Order(s) \in Requests /\ resv[Order(s)] \in Values
    BY <1>3, InHand, Basics DEF FindOrder, At, HoldsEntry, Values
  <2>2. \/ \E pc \in {"status", "txn"}, val \in Values : Go(s, pc, val) /\ NoFault
        \/ \E pc, val : Go(s, pc, val) /\ Spend("db")
    BY <1>3, <2>1 DEF FindOrder, Values
  <2>3. QED
    BY <2>2, FairGo, StartsAlone, GoOthers DEF PCs
<1>4. ASSUME Transact(s) PROVE JudgeStep
  <2>1. job[s].pc = "txn" /\ Order(s) \in Requests /\ shelf[TicketOf[Order(s)]] # "absent"
    BY <1>4, HeldShelved DEF Transact, At, HoldsEntry
  <2>2. CASE \E pc, val : Go(s, pc, val) /\ Spend("db")
    BY <2>2, StartsAlone, GoOthers
  <2>3. CASE Go(s, "number", "") /\ NoFault
    BY <2>3, FairGo DEF PCs, Values
  <2>4. CASE /\ Outcome(Order(s)) # "OK" /\ Go(s, "recheck", Outcome(Order(s)))
             /\ NoFault /\ UNCHANGED storeVars
    <3>1. PICK val : val = Outcome(Order(s))
      OBVIOUS
    <3>2. shelf[TicketOf[Order(s)]] \in {"onsale", "offline"}
      BY <1>1, <2>1, RequestData DEF StoreTypeOK
    <3>3. val \in Values
      BY <2>4, <3>1, <3>2 DEF Outcome, Values, Reasons
    <3>4. Go(s, "recheck", val)
      BY <2>4, <3>1
    <3>5. /\ \A q \in Servers \ {s} : job'[q] = job[q]
          /\ job'[s].pc = "recheck" /\ job'[s].msg = job[s].msg /\ job'[s].val = val
      BY <1>1, <3>3, <3>4, GoStep DEF PCs
    <3>6. Order(s)' = Order(s)
      BY <2>1, <3>5, SameOrder DEF HoldsEntry
    <3>7. ASSUME Misjudges(s)' PROVE FALSE
      <4>1. resv'[Order(s)'] = "NONE" /\ <<job'[s].val, Order(s)'>> \in Unfounded'
        BY <3>5, <3>7 DEF Misjudges
      <4>2. resv[Order(s)] = "NONE"
        BY <2>4, <3>6, <4>1 DEF storeVars
      <4>3. <<val, Order(s)>> \notin Unfounded
        BY <2>1, <2>4, <3>1, <4>2, OutcomeFounded
      <4>4. <<val, Order(s)>> \notin Unfounded'
        BY <1>1, <2>1, <4>3, CausesStay
      <4>5. QED
        BY <3>5, <3>6, <4>1, <4>4
    <3>8. QED
      BY <2>4, <3>5, <3>7, FairAlone DEF Fair
  <2>5. QED
    BY <1>4, <2>2, <2>3, <2>4 DEF Transact
<1>5. ASSUME Recheck(s) PROVE JudgeStep
  <2>1. /\ job[s].pc = "recheck" /\ Order(s) \in Requests
        /\ resv[Order(s)] \in Values /\ job[s].val \in Values
    BY <1>5, InHand, Basics DEF Recheck, At, HoldsEntry, Values, TimerIsCurrent
  <2>2. CASE \E pc, val : Go(s, pc, val) /\ Spend("db")
    BY <2>2, StartsAlone, GoOthers
  <2>3. CASE Go(s, "status", resv[Order(s)]) /\ NoFault
    BY <2>1, <2>3, FairGo DEF PCs
  <2>4. CASE /\ resv[Order(s)] = "NONE" /\ NoFault
             /\ \E pc \in {"fail", "count"} : Go(s, pc, job[s].val)
    <3>1. /\ \A q \in Servers \ {s} : job'[q] = job[q]
          /\ job'[s].msg = job[s].msg /\ job'[s].val = job[s].val
      BY <1>1, <2>1, <2>4, GoStep DEF PCs
    <3>2. Fair(s)
      BY <2>1, <2>4, <3>1, FairWays
    <3>3. QED
      BY <2>4, <3>1, <3>2, FairAlone
  <2>5. QED
    BY <1>5, <2>2, <2>3, <2>4 DEF Recheck
<1>6. ASSUME CountTries(s) PROVE JudgeStep
  <2>1. job[s].pc = "count" /\ job[s].val \in Values
    BY <1>6, Basics DEF CountTries, At, Values, TimerIsCurrent
  <2>2. CASE Go(s, "idle", "") /\ (NoFault \/ Spend("redis"))
    BY <2>2, FairGo DEF PCs, Values
  <2>3. CASE Go(s, "fail", job[s].val) /\ NoFault
    <3>1. /\ \A q \in Servers \ {s} : job'[q] = job[q]
          /\ job'[s].msg = job[s].msg /\ job'[s].val = job[s].val
      BY <1>1, <2>1, <2>3, GoStep DEF PCs
    <3>2. Fair(s)
      BY <2>1, <3>1, FairWays
    <3>3. QED
      BY <2>3, <3>1, <3>2, FairAlone
  <2>4. QED
    BY <1>6, <2>2, <2>3 DEF CountTries
<1>7. ASSUME GiveUp(s) PROVE JudgeStep
  <2>1. NoFault \/ Spend("redis")
    BY <1>7 DEF GiveUp, Unchecked
  <2>2. Go(s, "zero", "") \/ Go(s, "idle", "")
    BY <1>7 DEF GiveUp
  <2>3. QED
    BY <2>1, <2>2, FairGo DEF PCs, Values
<1>8. ASSUME ZeroStock(s) \/ AckOrder(s) PROVE JudgeStep
  <2>1. Go(s, "idle", "") /\ (NoFault \/ Spend("redis"))
    BY <1>8 DEF ZeroStock, AckOrder, Unchecked
  <2>2. QED
    BY <2>1, FairGo DEF PCs, Values
<1>9. ASSUME NumberOrder(s) PROVE JudgeStep
  <2>1. Go(s, "status", "PENDING") /\ (NoFault \/ Spend("db"))
    BY <1>9 DEF NumberOrder
  <2>2. CASE Spend("db")
    BY <2>1, <2>2, StartsAlone, GoOthers
  <2>3. CASE NoFault
    BY <2>1, <2>3, FairGo DEF PCs, Values, States
  <2>4. QED
    BY <2>1, <2>2, <2>3
<1>10. ASSUME PublishStatus(s) PROVE JudgeStep
  <2>1. Go(s, "ack", "") /\ (NoFault \/ Spend("redis"))
    BY <1>10 DEF PublishStatus, Unchecked
  <2>2. QED
    BY <2>1, FairGo DEF PCs, Values
<1>11. ASSUME ExpireOrders(s) PROVE JudgeStep
  <2>1. PICK R : \/ job' = [job EXCEPT ![s] = Expiring(R)] /\ NoFault
                 \/ Spend("db") /\ job' = job
    BY <1>11 DEF ExpireOrders
  <2>2. CASE Spend("db") /\ job' = job
    BY <2>2, StartsAlone
  <2>3. CASE job' = [job EXCEPT ![s] = Expiring(R)] /\ NoFault
    <3>1. (\A q \in Servers \ {s} : job'[q] = job[q]) /\ job'[s].pc = "incr"
      BY <1>1, <2>3 DEF Expiring
    <3>2. Fair(s)
      BY <3>1, FairWays
    <3>3. QED
      BY <2>3, <3>1, <3>2, FairAlone
  <2>4. QED
    BY <2>1, <2>2, <2>3
<1>12. ASSUME IncrExpired(s) PROVE JudgeStep
  <2>1. NoFault \/ Spend("redis")
    BY <1>12 DEF IncrExpired, Unchecked
  <2>2. (\A q \in Servers \ {s} : job'[q] = job[q]) /\ job'[s].pc \in {"idle", "incr"}
    <3>1. PICK r \in job[s].todo : job' = [job EXCEPT ![s] = IF @.todo = {r} THEN NoTimer
                                                        ELSE Expiring(@.todo \ {r})]
      BY <1>12 DEF IncrExpired
    <3>2. job'[s] = IF job[s].todo = {r} THEN NoTimer ELSE Expiring(job[s].todo \ {r})
      BY <1>1, <3>1
    <3>3. job'[s].pc \in {"idle", "incr"}
      <4>1. NoTimer.pc = "idle" /\ \A R : Expiring(R).pc = "incr"
        BY DEF NoTimer, Expiring
      <4>2. QED
        BY <3>2, <4>1
    <3>4. QED
      BY <1>1, <3>1, <3>3
  <2>3. Fair(s)
    BY <2>2, FairWays
  <2>4. QED
    BY <2>1, <2>2, <2>3, FairAlone
<1>13. ASSUME RefreshTicketStatus(s) PROVE JudgeStep
  <2>1. job' = job /\ NoFault
    BY <1>13 DEF RefreshTicketStatus, procVars, NoFault
  <2>2. Fair(s)
    BY <2>1, FairWays
  <2>3. QED
    BY <2>1, <2>2, FairAlone
<1>14. QED
  BY <1>2, <1>3, <1>4, <1>5, <1>6, <1>7, <1>8, <1>9, <1>10, <1>11, <1>12, <1>13
     DEF TimerStep, Work

LEMMA LessFair ==
    ASSUME IInv, StreamStays, [StoreNext]_storeVars,
           NoFault \/ \E k \in {"db", "redis", "crash", "ttl"} : Spend(k),
           \A q \in Servers : job'[q] = job[q] \/ job'[q].pc = "idle"
    PROVE  JudgeStep
<1>1. \A q \in Servers : Fair(q)
  BY FairWays
<1>2. budget'["db"] <= budget["db"]
  BY Spent, Basics
<1>3. QED
  BY <1>1, <1>2 DEF JudgeStep

LEMMA Judged ==
    ASSUME IInv, ShelvedInv, Conservation, SeatsMatch, StreamStays, [Next]_vars
    PROVE  JudgeStep
<1>1. [StoreNext]_storeVars /\ job \in [Servers -> Jobs]
  BY NextIInv, Basics
<1>2. ASSUME NEW s \in Servers, Crash(s) PROVE JudgeStep
  <2>1. \A q \in Servers : job'[q] = job[q] \/ job'[q].pc = "idle"
    BY <1>1, <1>2 DEF Crash, NoTimer
  <2>2. QED
    BY <1>1, <1>2, <2>1, LessFair DEF Crash
<1>3. ASSUME NEW w \in Workers, WorkerStep(w) PROVE JudgeStep
  <2>1. job' = job /\ (NoFault \/ Spend("db") \/ Spend("redis"))
    BY <1>3 DEF WorkerStep, OrderTicket, CancelTicket, AdminAddTicket, AdminDeleteTicket, ColdRead,
                ColdInit, ColdEnqueue, IncrCancelled, ViewTickets, Refill, Unchecked, NoFault
  <2>2. QED
    BY <1>1, <2>1, LessFair
<1>4. ASSUME Elapse \/ UNCHANGED vars PROVE JudgeStep
  <2>1. job' = job /\ NoFault
    BY <1>4 DEF Elapse, vars, procVars, NoFault
  <2>2. QED
    BY <1>1, <2>1, LessFair
<1>5. ASSUME ForgetStatus PROVE JudgeStep
  BY <1>1, <1>5, LessFair DEF ForgetStatus
<1>6. QED
  BY <1>1, <1>2, <1>3, <1>4, <1>5, TimerJudges DEF Next

\* Whom an entry step condemns: nobody, or the order a misjudging timer holds.
CondemnStep ==
    \/ Misjudged' \subseteq Misjudged
    \/ \E s \in Servers : /\ ~Misjudges(s)'
                          /\ Misjudged' \subseteq Misjudged \cup {job[s].msg}
                          /\ Misjudges(s) \/ Misjudged' \subseteq Misjudged

LEMMA LettersCondemn ==
    ASSUME IInv, IInv', [Next]_vars PROVE StreamStays /\ CondemnStep
<1>1. /\ QueueTypeOK /\ [StoreNext]_storeVars /\ StoreTypeOK
      /\ dead \in Seq(Seq(Reasons)) /\ Len(dead) = Len(stream) /\ Unfounded' \subseteq Unfounded
      /\ \A id \in Entries : dead[id] \in Seq(Reasons)
  BY NextIInv, Basics, CausesStay, EntryRows DEF QueueTypeOK
<1>2. ASSUME Quiet PROVE StreamStays /\ Misjudged' \subseteq Misjudged
  <2>1. StreamStays
    BY <1>2 DEF Quiet, StillQueue, StreamStays
  <2>2. ASSUME NEW id \in Misjudged' PROVE id \in Misjudged
    <3>1. id \in Entries' /\ \E i \in 1 .. Len(dead'[id]) : <<dead'[id][i], stream'[id]>> \in Unfounded'
      BY <2>2 DEF Misjudged
    <3>2. dead'[id] # <<>>
      BY <3>1
    <3>3. id \in Entries /\ dead'[id] = dead[id] /\ stream'[id] = stream[id]
      BY <1>2, <3>1, <3>2 DEF Quiet, StillQueue
    <3>4. QED
      BY <1>1, <3>1, <3>3 DEF Misjudged
  <2>3. QED
    BY <2>1, <2>2
<1>3. ASSUME NEW s \in Servers, (\E id \in Entries : Takes(s, id)) \/ Drops(s)
      PROVE  StreamStays /\ Misjudged' \subseteq Misjudged
  <2>1. stream' = stream /\ dead' = dead
    BY <1>3 DEF Takes, Deliver, Drops, Acknowledge
  <2>2. QED
    BY <1>1, <2>1 DEF StreamStays, Misjudged, Entries
<1>4. ASSUME NEW s \in Servers, Settles(s) PROVE StreamStays /\ CondemnStep
  <2>1. stream' = stream /\ dead' = [dead EXCEPT ![job[s].msg] = Append(dead[job[s].msg], job[s].val)]
    BY <1>4 DEF Settles, TerminalFailure
  <2>2. /\ job[s].pc = "fail" /\ job[s].msg \in Entries /\ Order(s) = stream[job[s].msg]
        /\ job[s].val \in Reasons
    BY <1>1, <1>4, InHand, Basics DEF Settles, HoldsEntry, QueueTypeOK, Entries, TimerIsCurrent
  <2>3. ~Misjudges(s)'
    BY <1>4 DEF Settles, LetsGo, HoldsEntry, Misjudges
  <2>4. Entries' = Entries /\ DOMAIN dead = Entries
    BY <1>1, <2>1 DEF Entries
  <2>5. ASSUME NEW id \in Misjudged', id # job[s].msg PROVE id \in Misjudged
    <3>1. id \in Entries /\ dead'[id] = dead[id]
      BY <2>1, <2>4, <2>5 DEF Misjudged
    <3>2. QED
      BY <1>1, <2>1, <2>5, <3>1 DEF Misjudged
  <2>6. ASSUME job[s].msg \in Misjudged', ~Misjudges(s) PROVE job[s].msg \in Misjudged
    <3>1. PICK id : id = job[s].msg
      OBVIOUS
    <3>2. PICK val \in Reasons : val = job[s].val
      BY <2>2
    <3>3. id \in Entries /\ dead'[id] = Append(dead[id], val) /\ <<val, stream[id]>> \notin Unfounded
      BY <2>1, <2>2, <2>4, <2>6, <3>1, <3>2 DEF Misjudges
    <3>4. PICK i \in 1 .. Len(dead'[id]) : <<dead'[id][i], stream[id]>> \in Unfounded
      BY <1>1, <2>1, <2>6, <3>1 DEF Misjudged
    <3>5. dead[id] \in Seq(Reasons)
      BY <1>1, <3>3
    <3>6. i \in 1 .. Len(dead[id]) /\ dead'[id][i] = dead[id][i]
      <4>1. i = Len(dead[id]) + 1 => dead'[id][i] = val
        BY <3>3, <3>5
      <4>2. i \in 1 .. Len(dead[id]) + 1 /\ Len(dead[id]) \in Nat
        BY <3>3, <3>4, <3>5
      <4>3. i # Len(dead[id]) + 1
        BY <3>3, <3>4, <4>1
      <4>4. QED
        BY <3>3, <3>5, <4>2, <4>3
    <3>7. QED
      BY <3>1, <3>3, <3>4, <3>6 DEF Misjudged
  <2>7. StreamStays
    BY <2>1 DEF StreamStays, Entries
  <2>8. CondemnStep
    BY <2>3, <2>5, <2>6 DEF CondemnStep
  <2>9. QED
    BY <2>7, <2>8
<1>5. QED
  BY <1>2, <1>3, <1>4, EntrySteps DEF EntryStep, CondemnStep

-----------------------------------------------------------------------------
(* Counting.                                                               *)

LEMMA CountSubset ==
    ASSUME NEW B, IsFiniteSet(B), NEW A \in SUBSET B
    PROVE  IsFiniteSet(A) /\ Cardinality(A) \in Nat /\ Cardinality(B) \in Nat /\ Cardinality(A) <= Cardinality(B)
BY FS_Subset, FS_CardinalityType

LEMMA CountWith ==
    ASSUME NEW B, IsFiniteSet(B), NEW x, NEW A \in SUBSET (B \cup {x})
    PROVE  /\ IsFiniteSet(A) /\ Cardinality(A) \in Nat /\ Cardinality(B) \in Nat
           /\ Cardinality(A) <= Cardinality(B) + 1
<1>1. IsFiniteSet(B \cup {x}) /\ Cardinality(B) \in Nat
      /\ Cardinality(B \cup {x}) = IF x \in B THEN Cardinality(B) ELSE Cardinality(B) + 1
  BY FS_AddElement, FS_CardinalityType
<1>2. QED
  BY <1>1, CountSubset

LEMMA CountWithout ==
    ASSUME NEW B, IsFiniteSet(B), NEW x \in B
    PROVE  IsFiniteSet(B \ {x}) /\ Cardinality(B \ {x}) + 1 = Cardinality(B) /\ Cardinality(B) \in Nat
<1>1. /\ IsFiniteSet(B \ {x})
      /\ Cardinality(B \ {x}) = IF x \in B THEN Cardinality(B) - 1 ELSE Cardinality(B)
  BY FS_RemoveElement
<1>2. Cardinality(B) \in Nat
  BY FS_CardinalityType
<1>3. QED
  BY ONLY <1>1, <1>2, x \in B

\* An entry that is condemned costs a misjudging timer, and a timer that
\* starts to misjudge a failed statement.
LEMMA Balance ==
    ASSUME NEW M, NEW N, NEW J, NEW K, NEW b \in Nat, NEW c \in Nat,
           IsFiniteSet(M), IsFiniteSet(J),
           \/ N \subseteq M
           \/ \E s \in J : \E m : s \notin K /\ N \subseteq M \cup {m},
           \/ c <= b /\ K \subseteq J
           \/ b > 0 /\ c = b - 1 /\ \E s : K \subseteq J \cup {s}
    PROVE  Cardinality(N) + Cardinality(K) + c <= Cardinality(M) + Cardinality(J) + b
<1>1. CASE N \subseteq M
  <2>1. Cardinality(N) \in Nat /\ Cardinality(M) \in Nat /\ Cardinality(N) <= Cardinality(M)
    BY <1>1, CountSubset
  <2>2. CASE c <= b /\ K \subseteq J
    <3>1. Cardinality(K) \in Nat /\ Cardinality(J) \in Nat /\ Cardinality(K) <= Cardinality(J)
      BY <2>2, CountSubset
    <3>2. QED
      BY <2>1, <2>2, <3>1
  <2>3. CASE b > 0 /\ c = b - 1 /\ \E s : K \subseteq J \cup {s}
    <3>1. PICK s : K \subseteq J \cup {s}
      BY <2>3
    <3>2. Cardinality(K) \in Nat /\ Cardinality(J) \in Nat /\ Cardinality(K) <= Cardinality(J) + 1
      BY <3>1, CountWith
    <3>3. QED
      BY <2>1, <2>3, <3>2
  <2>4. QED
    BY <2>2, <2>3
<1>2. CASE \E s \in J : \E m : s \notin K /\ N \subseteq M \cup {m}
  <2>1. PICK p \in J : p \notin K /\ \E m : N \subseteq M \cup {m}
    BY <1>2
  <2>2. Cardinality(N) \in Nat /\ Cardinality(M) \in Nat /\ Cardinality(N) <= Cardinality(M) + 1
    <3>1. PICK m : N \subseteq M \cup {m}
      BY <2>1
    <3>2. QED
      BY <3>1, CountWith
  <2>3. /\ IsFiniteSet(J \ {p}) /\ Cardinality(J \ {p}) + 1 = Cardinality(J)
        /\ Cardinality(J) \in Nat
    BY CountWithout
  <2>4. CASE c <= b /\ K \subseteq J
    <3>1. K \subseteq J \ {p}
      BY <2>1, <2>4
    <3>2. /\ Cardinality(K) \in Nat /\ Cardinality(J \ {p}) \in Nat
          /\ Cardinality(K) <= Cardinality(J \ {p})
      BY <2>3, <3>1, CountSubset
    <3>3. QED
      BY <2>2, <2>3, <2>4, <3>2
  <2>5. CASE b > 0 /\ c = b - 1 /\ \E s : K \subseteq J \cup {s}
    <3>1. PICK s : K \subseteq J \cup {s}
      BY <2>5
    <3>2. K \subseteq (J \ {p}) \cup {s}
      BY <2>1, <3>1
    <3>3. /\ Cardinality(K) \in Nat /\ Cardinality(J \ {p}) \in Nat
          /\ Cardinality(K) <= Cardinality(J \ {p}) + 1
      BY <2>3, <3>2, CountWith
    <3>4. QED
      BY <2>2, <2>3, <2>5, <3>3
  <2>6. QED
    BY <2>4, <2>5
<1>3. QED
  BY <1>1, <1>2

VerdictInv == Cardinality(Misjudged) + Cardinality(Misjudgers) + budget["db"] <= Faults["db"]

LEMMA JudgesFinite ==
    ASSUME IInv PROVE /\ IsFiniteSet(Misjudged) /\ Cardinality(Misjudged) \in Nat
                      /\ IsFiniteSet(Misjudgers) /\ Cardinality(Misjudgers) \in Nat
<1>1. IsFiniteSet(Entries)
  <2>1. 1 \in Int /\ Len(stream) \in Int
    BY Basics DEF QueueTypeOK
  <2>2. QED
    BY <2>1, FS_Interval DEF Entries
<1>2. Misjudged \in SUBSET Entries /\ Misjudgers \in SUBSET Servers
  BY DEF Misjudged, Misjudgers
<1>3. QED
  BY <1>1, <1>2, CountSubset, PipelineAssumption

LEMMA VerdictStays ==
    ASSUME IInv, IInv', ShelvedInv, Conservation, SeatsMatch, VerdictInv, [Next]_vars
    PROVE  VerdictInv'
<1>1. StreamStays /\ CondemnStep
  BY LettersCondemn
<1>2. JudgeStep
  BY <1>1, Judged
<1>3. budget["db"] \in Nat /\ budget'["db"] \in Nat /\ Faults["db"] \in Nat
  BY PipelineAssumption DEF IInv, TypeOK
<1>4. /\ IsFiniteSet(Misjudged) /\ Cardinality(Misjudged) \in Nat
      /\ IsFiniteSet(Misjudgers) /\ Cardinality(Misjudgers) \in Nat
  BY JudgesFinite
<1>5. \/ budget'["db"] <= budget["db"] /\ Misjudgers' \subseteq Misjudgers
      \/ /\ budget["db"] > 0 /\ budget'["db"] = budget["db"] - 1
         /\ \E s : Misjudgers' \subseteq Misjudgers \cup {s}
  BY <1>2 DEF JudgeStep, Fair, Misjudgers
<1>6. \/ Misjudged' \subseteq Misjudged
      \/ \E s \in Misjudgers : \E m : s \notin Misjudgers' /\ Misjudged' \subseteq Misjudged \cup {m}
  BY <1>1 DEF CondemnStep, Misjudgers
<1>7. PICK M, N, J, K, b, c : /\ M = Misjudged /\ N = Misjudged' /\ J = Misjudgers /\ K = Misjudgers'
                              /\ b = budget["db"] /\ c = budget'["db"]
  OBVIOUS
<1>8. /\ Cardinality(N) + Cardinality(K) + c <= Cardinality(M) + Cardinality(J) + b
  BY <1>3, <1>4, <1>5, <1>6, <1>7, Balance
<1>9. /\ Cardinality(N) \in Nat /\ Cardinality(K) \in Nat
  <2>1. (Cardinality(Misjudged) \in Nat)' /\ (Cardinality(Misjudgers) \in Nat)'
    BY JudgesFinite, PTL
  <2>2. QED
    BY <1>7, <2>1
<1>10. QED
  BY <1>3, <1>4, <1>7, <1>8, <1>9 DEF VerdictInv

\* An order is given up for a cause, whatever consumers, crashes and lost
\* replies there are: for an infrastructure error after max_retries deliveries,
\* for a state of the tables because the tables are in it, but for one order
\* at most for each statement that failed.
THEOREM OrdersRefusedForCause == Spec => []RefusedForCause
<1>1. Init => VerdictInv
  <2>1. ASSUME Init PROVE Misjudged = {} /\ Misjudgers = {} /\ budget = Faults
    BY <2>1, InitIdle DEF Misjudged, Misjudgers, Misjudges, Init
  <2>2. Faults["db"] \in Nat
    BY PipelineAssumption
  <2>3. Cardinality({}) = 0
    BY FS_EmptySet
  <2>4. QED
    BY <2>1, <2>2, <2>3 DEF VerdictInv
<1>2. IInv /\ IInv' /\ ShelvedInv /\ Conservation /\ SeatsMatch /\ VerdictInv /\ [Next]_vars
          => VerdictInv'
  BY VerdictStays
<1>3. IInv /\ TriesInv /\ VerdictInv => RefusedForCause
  <2>1. ASSUME IInv, TriesInv, VerdictInv PROVE RefusedForCause
    <3>1. Cardinality(Misjudged) \in Nat /\ Cardinality(Misjudgers) \in Nat
      BY <2>1, JudgesFinite
    <3>2. budget["db"] \in Nat /\ Faults["db"] \in Nat
      BY <2>1, PipelineAssumption DEF IInv, TypeOK
    <3>3. Cardinality(Misjudged) + budget["db"] <= Faults["db"]
      BY <2>1, <3>1, <3>2 DEF VerdictInv
    <3>4. QED
      BY <2>1, <3>3 DEF RefusedForCause, TriesInv, LateLetters
  <2>2. QED
    BY <2>1
<1>4. QED
  BY <1>1, <1>2, <1>3, SpecIInv, SpecTriesInv, SpecShelvedInv, PipelineConserves,
     PipelineSeatsMatch, PTL DEF Spec

-----------------------------------------------------------------------------
(* One consumer per entry.                                                 *)

\* While no consumer is slow an entry is in one hand, it is pending until its
\* holder settles it, and once dead it is never delivered again.
HoldInv ==
    /\ \A s, q \in Servers : s # q /\ job[s].msg = job[q].msg => job[s].msg = 0
    /\ \A s \in Servers : job[s].pc \in Holding => job[s].msg \in pel
    /\ \A id \in Entries : dead[id] # <<>> => id \in Acked /\ Len(dead[id]) <= 1

LEMMA QuietHolds ==
    ASSUME IInv, HoldInv, Quiet PROVE HoldInv'
<1>1. \A s, q \in Servers : s # q /\ job'[s].msg = job'[q].msg => job'[s].msg = 0
  BY DEF Quiet, GoOn, GoesOn, HoldInv
<1>2. \A s \in Servers : job'[s].pc \in Holding => job'[s].msg \in pel'
  BY DEF Quiet, StillQueue, GoOn, GoesOn, HoldInv, Holding
<1>3. Acked' = Acked
  BY DEF Quiet, StillQueue, Acked
<1>4. \A id \in Entries' : dead'[id] # <<>> => id \in Acked' /\ Len(dead'[id]) <= 1
  BY <1>3 DEF Quiet, StillQueue, HoldInv
<1>5. QED
  BY <1>1, <1>2, <1>4 DEF HoldInv

LEMMA TakesHolds ==
    ASSUME IInv, HoldInv, ~SlowConsumers, NEW s \in Servers, NEW id \in Entries, Takes(s, id)
    PROVE  HoldInv'
<1>1. /\ \A q \in Servers \ {s} : job'[q] = job[q] /\ job[q].msg # id
      /\ job' = job \/ job'[s].msg = id
      /\ pel' = pel \cup {id} /\ stream' = stream /\ dead' = dead
  BY DEF Takes, Deliver, Claimable
<1>2. last \in Nat /\ id \in Nat /\ (id \in pel \/ id = last + 1)
      /\ last' = IF id \in pel THEN last ELSE id
  BY Basics DEF QueueTypeOK, Takes, Deliver, Entries
<1>3. \A p, q \in Servers : p # q /\ job'[p].msg = job'[q].msg => job'[p].msg = 0
  BY <1>1 DEF HoldInv
<1>4. \A q \in Servers : job'[q].pc \in Holding => job'[q].msg \in pel'
  BY <1>1 DEF HoldInv
<1>5. ASSUME NEW i \in Entries', dead'[i] # <<>> PROVE i \in Acked' /\ Len(dead'[i]) <= 1
  <2>1. i \in Entries /\ dead[i] # <<>>
    BY <1>1, <1>5 DEF Entries
  <2>2. i \in 1 .. last /\ i \notin pel /\ Len(dead'[i]) <= 1
    BY <1>1, <2>1 DEF HoldInv, Acked
  <2>3. i # id /\ i \in 1 .. last'
    BY <1>2, <2>2
  <2>4. QED
    BY <1>1, <2>2, <2>3 DEF Acked
<1>6. QED
  BY <1>3, <1>4, <1>5 DEF HoldInv

\* A holder that settles or drops its entry is the only one that had it.
LEMMA SettlesHolds ==
    ASSUME IInv, HoldInv, NEW s \in Servers, Settles(s) \/ Drops(s)
    PROVE  HoldInv'
<1> DEFINE m == job[s].msg
<1>1. job[s].pc \in Holding /\ job[s].pc \in HoldsEntry
  BY DEF Settles, Drops, Holding, HoldsEntry
<1>2. m \in 1 .. last /\ m \in pel /\ m # 0 /\ m \in Entries
  BY <1>1, InHand, Basics DEF HoldInv, QueueTypeOK, Entries
<1>3. /\ \A q \in Servers \ {s} : job'[q] = job[q] /\ job[q].msg # m
      /\ job'[s].msg \in {0, m} /\ job'[s].pc \notin Holding
  BY <1>2 DEF Settles, Drops, LetsGo, HoldInv, Holding
<1>4. pel' = pel \ {m} /\ last' = last /\ stream' = stream
  BY DEF Settles, Drops, TerminalFailure, Acknowledge
<1>5. \A p, q \in Servers : p # q /\ job'[p].msg = job'[q].msg => job'[p].msg = 0
  BY <1>3 DEF HoldInv
<1>6. \A q \in Servers : job'[q].pc \in Holding => job'[q].msg \in pel'
  BY <1>3, <1>4 DEF HoldInv
<1>7. dead[m] = <<>>
  BY <1>2 DEF HoldInv, Acked
<1>8. \A i \in Entries : i # m => dead'[i] = dead[i]
  <2>1. \A i \in Entries : i \in 1 .. Len(dead)
    BY Basics DEF QueueTypeOK, Entries
  <2>2. QED
    BY <2>1, Basics DEF Settles, Drops, TerminalFailure, Acknowledge, QueueTypeOK
<1>9. Len(dead'[m]) <= 1
  <2>1. CASE Drops(s)
    BY <1>7, <2>1 DEF Drops, Acknowledge
  <2>2. CASE Settles(s)
    <3>1. m \in 1 .. Len(dead) /\ dead \in Seq(Seq(Reasons)) /\ job[s].val \in Reasons
      BY <1>2, <2>2, Basics DEF QueueTypeOK, Entries, Settles, TimerIsCurrent
    <3>2. dead'[m] = Append(<<>>, job[s].val)
      BY <1>7, <2>2, <3>1 DEF Settles, TerminalFailure
    <3>3. QED
      BY <3>2
  <2>3. QED
    BY <2>1, <2>2
<1>10. m \in Acked' /\ Acked \subseteq Acked' /\ Entries' = Entries
  BY <1>2, <1>4 DEF Acked, Entries
<1>11. \A i \in Entries' : dead'[i] # <<>> => i \in Acked' /\ Len(dead'[i]) <= 1
  BY <1>8, <1>9, <1>10 DEF HoldInv
<1>12. QED
  BY <1>5, <1>6, <1>11 DEF HoldInv

LEMMA SpecHoldInv == ASSUME ~SlowConsumers PROVE Spec => []HoldInv
<1>1. ASSUME Init PROVE HoldInv
  BY <1>1, InitIdle DEF HoldInv, Holding, HoldsEntry
<1>2. ASSUME IInv, HoldInv, [Next]_vars PROVE HoldInv'
  BY <1>2, EntrySteps, QuietHolds, TakesHolds, SettlesHolds DEF EntryStep
<1>3. QED
  BY <1>1, <1>2, SpecIInv, PTL DEF Spec

\* While no consumer holds an entry for claim_idle_ms, an order that is given
\* up is compensated once, whatever commands fail and servers crash.
THEOREM StockIsGivenBackOnce == ASSUME ~SlowConsumers PROVE Spec => []CompensatedOnce
<1>1. ASSUME IInv, HoldInv PROVE CompensatedOnce
  <2>1. \A id \in Entries : dead[id] = <<>> \/ Len(dead[id]) <= 1
    BY <1>1 DEF HoldInv
  <2>2. QED
    BY <2>1 DEF CompensatedOnce
<1>2. QED
  BY <1>1, SpecIInv, SpecHoldInv, PTL

-----------------------------------------------------------------------------
(* What ORDER_QUERY says of an order.                                      *)

\* Consumers are fast, MySQL does not fail and no status key expires.
Calm == ~SlowConsumers /\ Faults["db"] = 0 /\ Faults["ttl"] = 0

\* The program counters of a timer that found no order for its entry.
Undone == {"txn", "recheck", "count", "fail"}

Silent(r) == resv[r] = "NONE" /\ \A id \in Entries : stream[id] = r => id \in Acked

\* A request has one entry, and its order is made from that entry only: who
\* found none may rely on it, and a request that failed is never looked at again.
StatusInv ==
    /\ budget["db"] = 0 /\ budget["ttl"] = 0
    /\ \A id \in Entries : status[stream[id]] # "NONE"
    /\ \A i, j \in Entries : stream[i] = stream[j] => i = j
    /\ \A s \in Servers : job[s].pc \in Undone => resv[Order(s)] = "NONE"
    /\ \A s \in Servers : job[s].pc = "status" => job[s].val \notin {"NONE", "FAILED"}
    /\ \A r \in Requests : resv[r] # "NONE" => \E id \in Entries : stream[id] = r
    /\ \A r \in Requests : status[r] = "FAILED" => Silent(r)

CalmBudget == budget'["db"] = 0 /\ budget'["ttl"] = 0

LEMMA CalmStays ==
    ASSUME IInv, StatusInv, NoFault \/ Spend("redis") \/ Spend("crash") PROVE CalmBudget
BY Basics DEF StatusInv, CalmBudget, Budgets, NoFault, Spend

LEMMA NoDbFault == ASSUME StatusInv PROVE ~Spend("db") /\ ~Spend("ttl")
BY DEF StatusInv, Spend

\* A timer goes nowhere, or where what it found lets it go.
Informed(s) ==
    \/ job'[s] = job[s]
    \/ job'[s].pc \notin Undone \cup {"status"}
    \/ /\ job[s].pc \in HoldsEntry /\ job'[s].msg = job[s].msg
       /\ job'[s].pc \in Undone => resv[Order(s)] = "NONE"
       /\ job'[s].pc = "status" => job'[s].val \notin {"NONE", "FAILED"}

AllInformed == \A s \in Servers : Informed(s)

SameRows == \A r \in Requests : resv'[r] = "NONE" <=> resv[r] = "NONE"

\* Steps that neither add an entry or a row nor write a status.
PlainStep ==
    /\ SameRows /\ stream' = stream /\ status' = status /\ Acked \subseteq Acked'
    /\ CalmBudget /\ AllInformed

Adds(r) ==
    /\ status[r] = "NONE" /\ status' = [status EXCEPT ![r] = "QUEUED"]
    /\ stream' = Append(stream, r) /\ resv' = resv /\ pel' = pel /\ last' = last
    /\ CalmBudget /\ job' = job

Writes(s) ==
    /\ job[s].pc = "txn" /\ resv' = [resv EXCEPT ![Order(s)] = "PENDING"]
    /\ UNCHANGED queueVars /\ CalmBudget
    /\ (\A q \in Servers \ {s} : job'[q] = job[q]) /\ job'[s].pc = "number"

Publishes(s) ==
    /\ job[s].pc = "status" /\ SetStatus(Order(s), job[s].val) /\ resv' = resv /\ CalmBudget
    /\ (\A q \in Servers \ {s} : job'[q] = job[q]) /\ job'[s].pc = "ack"

Fails(s) == Settles(s) /\ resv' = resv /\ CalmBudget

LEMMA HeldEntry ==
    ASSUME IInv, NEW s \in Servers, job[s].pc \in HoldsEntry
    PROVE  job[s].msg \in Entries /\ Order(s) = stream[job[s].msg] /\ Order(s) \in Requests
BY InHand, Basics DEF QueueTypeOK, Entries

LEMMA PlainKeepsStatus ==
    ASSUME IInv, StatusInv, PlainStep PROVE StatusInv'
<1>1. Entries' = Entries /\ \A r \in Requests : Silent(r) => Silent(r)'
  BY DEF PlainStep, SameRows, Silent, Entries
<1>2. ASSUME NEW s \in Servers, job'[s].pc \in Undone PROVE resv'[Order(s)'] = "NONE"
  <2>1. job[s].pc \in HoldsEntry /\ job'[s].msg = job[s].msg /\ resv[Order(s)] = "NONE"
    BY <1>2 DEF PlainStep, AllInformed, Informed, StatusInv, Undone, HoldsEntry
  <2>2. Order(s)' = Order(s) /\ Order(s) \in Requests
    BY <2>1, HeldEntry DEF PlainStep, Order
  <2>3. QED
    BY <2>1, <2>2 DEF PlainStep, SameRows
<1>3. \A s \in Servers : job'[s].pc = "status" => job'[s].val \notin {"NONE", "FAILED"}
  BY DEF PlainStep, AllInformed, Informed, StatusInv
<1>4. \A r \in Requests : resv'[r] # "NONE" => \E id \in Entries' : stream'[id] = r
  BY <1>1 DEF PlainStep, SameRows, StatusInv
<1>5. QED
  BY <1>1, <1>2, <1>3, <1>4 DEF StatusInv, PlainStep, CalmBudget

LEMMA AddsKeepsStatus ==
    ASSUME IInv, StatusInv, NEW r \in Requests, Adds(r) PROVE StatusInv'
<1>1. stream \in Seq(Requests) /\ Len(stream) \in Nat /\ status \in [Requests -> States]
  BY Basics DEF QueueTypeOK
<1>2. /\ Entries' = Entries \cup {Len(stream) + 1} /\ Len(stream) + 1 \notin Entries
      /\ stream'[Len(stream) + 1] = r /\ \A id \in Entries : stream'[id] = stream[id]
  BY <1>1 DEF Adds, Entries
<1>3. \A id \in Entries : stream[id] # r /\ stream[id] \in Requests
  BY <1>1 DEF Adds, StatusInv, Entries
<1>4. resv[r] = "NONE" /\ Acked' = Acked /\ resv' = resv /\ job' = job
  BY <1>3 DEF Adds, StatusInv, Acked
<1>5. \A id \in Entries' : status'[stream'[id]] # "NONE"
  <2>1. \A q \in Requests : status'[q] = IF q = r THEN "QUEUED" ELSE status[q]
    BY <1>1 DEF Adds
  <2>2. \A id \in Entries : status'[stream'[id]] # "NONE"
    BY <1>2, <1>3, <2>1 DEF StatusInv
  <2>3. QED
    BY <1>2, <2>1, <2>2
<1>6. \A i, j \in Entries' : stream'[i] = stream'[j] => i = j
  BY <1>2, <1>3 DEF StatusInv
<1>7. \A s \in Servers : job'[s].pc \in Undone => resv'[Order(s)'] = "NONE"
  <2>1. ASSUME NEW s \in Servers, job[s].pc \in Undone PROVE Order(s)' = Order(s)
    BY <1>2, <1>4, <2>1, HeldEntry DEF Order, Undone, HoldsEntry
  <2>2. QED
    BY <1>4, <2>1 DEF StatusInv
<1>8. \A q \in Requests : resv'[q] # "NONE" => \E id \in Entries' : stream'[id] = q
  BY <1>2, <1>4 DEF StatusInv
<1>9. ASSUME NEW q \in Requests, status'[q] = "FAILED" PROVE Silent(q)'
  <2>1. q # r /\ status[q] = "FAILED"
    BY <1>1, <1>9 DEF Adds
  <2>2. Silent(q)
    BY <2>1 DEF StatusInv
  <2>3. QED
    BY <1>2, <1>4, <2>1, <2>2 DEF Silent
<1>10. QED
  BY <1>4, <1>5, <1>6, <1>7, <1>8, <1>9 DEF StatusInv, Adds, CalmBudget

LEMMA WritesKeepsStatus ==
    ASSUME IInv, HoldInv, StatusInv, NEW s \in Servers, Writes(s) PROVE StatusInv'
<1> DEFINE o == Order(s)
<1>1. job[s].pc \in HoldsEntry /\ job[s].pc \in Holding
  BY DEF Writes, HoldsEntry, Holding
<1>2. job[s].msg \in Entries /\ o = stream[job[s].msg] /\ o \in Requests /\ job[s].msg \in pel
  BY <1>1, HeldEntry DEF HoldInv
<1>3. stream' = stream /\ status' = status /\ Acked' = Acked /\ Entries' = Entries
  BY DEF Writes, queueVars, Acked, Entries
<1>4. resv' = [resv EXCEPT ![o] = "PENDING"] /\ resv \in [Requests -> States]
  BY Basics DEF Writes, StoreTypeOK, States
<1>5. ASSUME NEW q \in Servers, job'[q].pc \in Undone PROVE resv'[Order(q)'] = "NONE"
  <2>1. q # s /\ job'[q] = job[q]
    BY <1>5 DEF Writes, Undone
  <2>2. job[q].msg \in Entries /\ Order(q) = stream[job[q].msg] /\ Order(q) \in Requests
    BY <1>5, <2>1, HeldEntry DEF Undone, HoldsEntry
  <2>3. job[q].msg # job[s].msg
    <3>1. 0 \notin Entries
      BY DEF Entries
    <3>2. QED
      BY <1>2, <2>1, <3>1 DEF HoldInv
  <2>4. Order(q) # o
    BY <1>2, <2>2, <2>3 DEF StatusInv
  <2>5. Order(q)' = Order(q)
    BY <1>3, <2>1 DEF Order
  <2>6. resv[Order(q)] = "NONE"
    BY <1>5, <2>1 DEF StatusInv
  <2>7. QED
    BY <1>4, <2>2, <2>4, <2>5, <2>6
<1>6. \A q \in Servers : job'[q].pc = "status" => job'[q].val \notin {"NONE", "FAILED"}
  BY DEF Writes, StatusInv
<1>7. \A r \in Requests : resv'[r] # "NONE" => \E id \in Entries' : stream'[id] = r
  BY <1>2, <1>3, <1>4 DEF StatusInv
<1>8. ASSUME NEW r \in Requests, status'[r] = "FAILED" PROVE Silent(r)'
  <2>1. Silent(r)
    BY <1>3, <1>8 DEF StatusInv
  <2>2. r # o
    BY <1>2, <2>1 DEF Silent, Acked
  <2>3. QED
    BY <1>3, <1>4, <2>1, <2>2 DEF Silent
<1>9. QED
  BY <1>3, <1>5, <1>6, <1>7, <1>8 DEF StatusInv, Writes, CalmBudget

LEMMA PublishesKeepsStatus ==
    ASSUME IInv, StatusInv, NEW s \in Servers, Publishes(s) PROVE StatusInv'
<1>1. job[s].val \notin {"NONE", "FAILED"} /\ Order(s) \in Requests
  BY HeldEntry DEF Publishes, StatusInv, HoldsEntry
<1>2. /\ stream' = stream /\ Acked' = Acked /\ Entries' = Entries /\ resv' = resv
      /\ status' = [status EXCEPT ![Order(s)] = job[s].val] /\ status \in [Requests -> States]
  BY Basics DEF Publishes, SetStatus, Acked, Entries, QueueTypeOK
<1>3. \A id \in Entries' : status'[stream'[id]] # "NONE"
  BY <1>1, <1>2, EntryRows, Basics DEF StatusInv
<1>4. \A q \in Servers : job'[q].pc \in Undone => job'[q] = job[q]
  BY DEF Publishes, Undone
<1>5. \A q \in Servers : job'[q].pc \in Undone => resv'[Order(q)'] = "NONE"
  BY <1>2, <1>4 DEF StatusInv, Order
<1>6. \A q \in Servers : job'[q].pc = "status" => job'[q].val \notin {"NONE", "FAILED"}
  BY DEF Publishes, StatusInv
<1>7. \A r \in Requests : status'[r] = "FAILED" => Silent(r)'
  BY <1>1, <1>2 DEF StatusInv, Silent
<1>8. QED
  BY <1>2, <1>3, <1>5, <1>6, <1>7 DEF StatusInv, Publishes, CalmBudget

LEMMA FailsKeepsStatus ==
    ASSUME IInv, HoldInv, StatusInv, NEW s \in Servers, Fails(s) PROVE StatusInv'
<1>0. PICK o \in Requests : o = Order(s)
  BY HeldEntry DEF Fails, Settles, HoldsEntry
<1>1. job[s].pc \in HoldsEntry /\ job[s].pc \in Undone
  BY DEF Fails, Settles, HoldsEntry, Undone
<1>2. job[s].msg \in Entries /\ o = stream[job[s].msg] /\ o \in Requests /\ job[s].msg \in 1 .. last
  BY <1>0, <1>1, HeldEntry, InHand
<1>3. /\ stream' = stream /\ Entries' = Entries /\ resv' = resv /\ last' = last
      /\ status' = [status EXCEPT ![o] = "FAILED"] /\ status \in [Requests -> States]
      /\ pel' = pel \ {job[s].msg}
  BY <1>0, <1>2, Basics DEF Fails, Settles, TerminalFailure, Entries, QueueTypeOK
<1>4. Acked' = Acked \cup {job[s].msg}
  BY <1>2, <1>3 DEF Acked
<1>5. Silent(o)'
  <2>1. resv[o] = "NONE"
    BY <1>0, <1>1 DEF StatusInv
  <2>2. \A id \in Entries : stream[id] = o => id = job[s].msg
    BY <1>2 DEF StatusInv
  <2>3. QED
    BY <1>3, <1>4, <2>1, <2>2 DEF Silent
<1>6. \A id \in Entries' : status'[stream'[id]] # "NONE"
  BY <1>3, EntryRows, Basics DEF StatusInv
<1>7. \A q \in Servers : job'[q].pc \in Undone \cup {"status"} => job'[q] = job[q]
  BY DEF Fails, Settles, LetsGo, Undone, HoldsEntry
<1>8. \A q \in Servers : job'[q].pc \in Undone => resv'[Order(q)'] = "NONE"
  BY <1>3, <1>7 DEF StatusInv, Order
<1>9. \A q \in Servers : job'[q].pc = "status" => job'[q].val \notin {"NONE", "FAILED"}
  BY <1>7 DEF StatusInv
<1>10. ASSUME NEW r \in Requests, status'[r] = "FAILED" PROVE Silent(r)'
  <2>1. CASE r = o
    BY <1>5, <2>1
  <2>2. CASE r # o
    <3>1. Silent(r)
      BY <1>3, <1>10, <2>2 DEF StatusInv
    <3>2. QED
      BY <1>3, <1>4, <3>1 DEF Silent
  <2>3. QED
    BY <2>1, <2>2
<1>11. QED
  BY <1>3, <1>6, <1>8, <1>9, <1>10 DEF StatusInv, Fails, CalmBudget

\* What becomes of an order between NONE and the rest happens in Reserve only.
LEMMA LaterRows ==
    ASSUME NEW r \in Requests, Number(r) \/ Cancel(r) \/ Confirm(r) \/ Deadline(r), StoreTypeOK
    PROVE  SameRows
BY DEF Number, Cancel, GiveBack, Confirm, Deadline, SameRows, StoreTypeOK

LEMMA ExpiredRows ==
    ASSUME NEW R \in SUBSET Requests, Expire(R), StoreTypeOK PROVE SameRows
BY DEF Expire, GiveBack, Overdue, SameRows, StoreTypeOK

LEMMA ShelfRows ==
    ASSUME StoreTypeOK, (\E t \in Tickets : AddTicket(t)) \/ (\E T : TakeOffline(T)) \/ UNCHANGED storeVars
    PROVE  SameRows
BY DEF AddTicket, TakeOffline, storeVars, SameRows

\* What the queue does beside entries and statuses.
PlainQueue == stream' = stream /\ status' = status /\ Acked \subseteq Acked'

LEMMA PlainUnchanged == ASSUME UNCHANGED queueVars PROVE PlainQueue
BY DEF queueVars, PlainQueue, Acked

LEMMA PlainPut == ASSUME NEW t, NEW n, PutStock(t, n) PROVE PlainQueue
BY DEF PutStock, PlainQueue, Acked

LEMMA PlainInitialize == ASSUME NEW t, NEW n, InitializeStock(t, n) PROVE PlainQueue
BY PlainPut, PlainUnchanged DEF InitializeStock

LEMMA PlainIncr == ASSUME NEW t, NEW n, IncrStock(t, n) PROVE PlainQueue
BY PlainPut, PlainUnchanged DEF IncrStock

LEMMA PlainEntry ==
    ASSUME QueueTypeOK, NEW id \in Entries, Deliver(id) \/ Acknowledge(id) PROVE PlainQueue
<1>1. CASE Acknowledge(id)
  BY <1>1 DEF Acknowledge, PlainQueue, Acked
<1>2. CASE Deliver(id)
  <2>1. stream' = stream /\ status' = status /\ pel' = pel \cup {id}
        /\ last \in Nat /\ ((id \in pel /\ last' = last) \/ (id = last + 1 /\ last' = id))
    BY <1>2 DEF Deliver, QueueTypeOK
  <2>2. ASSUME NEW i \in Acked PROVE i \in Acked'
    BY <2>1, <2>2 DEF Acked
  <2>3. QED
    BY <2>1, <2>2 DEF PlainQueue
<1>3. QED
  BY <1>1, <1>2

LEMMA SameInformed == ASSUME job' = job PROVE AllInformed
BY DEF AllInformed, Informed

LEMMA GoInformed ==
    ASSUME IInv, NEW s \in Servers, job[s].pc \in HoldsEntry, NEW pc \in PCs, NEW val \in Values,
           Go(s, pc, val), pc \in Undone => resv[Order(s)] = "NONE",
           pc = "status" => val \notin {"NONE", "FAILED"}
    PROVE  AllInformed
<1>1. /\ \A q \in Servers \ {s} : job'[q] = job[q]
      /\ job'[s].pc = pc
      /\ pc # "idle" => job'[s].msg = job[s].msg /\ job'[s].val = val
  BY Basics, GoStep
<1>2. Informed(s)
  BY <1>1 DEF Informed, Undone
<1>3. QED
  BY <1>1, <1>2 DEF AllInformed, Informed

StatusStep ==
    \/ PlainStep
    \/ \E r \in Requests : Adds(r)
    \/ \E s \in Servers : Writes(s) \/ Publishes(s) \/ Fails(s)

LEMMA EnqueueAdds ==
    ASSUME IInv, NEW r \in Requests, Enqueue(r), CalmBudget, job' = job, resv' = resv
    PROVE  StatusStep
<1>1. CASE Admission(r) = "QUEUED"
  <2>1. status[r] = "NONE"
    BY <1>1 DEF Admission
  <2>2. QED
    BY <1>1, <2>1 DEF Enqueue, Adds, StatusStep
<1>2. CASE Admission(r) # "QUEUED"
  <2>1. PlainQueue
    BY <1>2, PlainUnchanged DEF Enqueue
  <2>2. QED
    BY <2>1, SameInformed DEF PlainQueue, PlainStep, SameRows, StatusStep
<1>3. QED
  BY <1>1, <1>2

LEMMA TimerStatusSteps ==
    ASSUME IInv, StatusInv, NEW s \in Servers, TimerStep(s) PROVE StatusStep
<1>1. /\ QueueTypeOK /\ StoreTypeOK /\ job \in [Servers -> Jobs] /\ ~Spend("db")
      /\ job[s].pc \in HoldsEntry => Order(s) \in Requests /\ resv[Order(s)] \in Values
                                     /\ resv[Order(s)] # "FAILED" /\ job[s].msg \in Entries
  BY Basics, HeldEntry, NoDbFault DEF StoreTypeOK, Values, States
<1>2. ASSUME NEW id \in Entries, Poll(s, id) PROVE StatusStep
  <2>1. job' = job \/ job' = [job EXCEPT ![s].pc = "find", ![s].msg = id]
    BY <1>2 DEF Poll
  <2>2. \A q \in Servers : job'[q] = job[q] \/ job'[q].pc = "find"
    BY <1>1, <2>1 DEF Jobs
  <2>3. AllInformed
    BY <2>2 DEF AllInformed, Informed, Undone
  <2>4. PlainQueue /\ CalmBudget /\ SameRows
    BY <1>1, <1>2, CalmStays, PlainEntry, ShelfRows DEF Poll
  <2>5. QED
    BY <2>3, <2>4 DEF StatusStep, PlainStep, PlainQueue
<1>3. ASSUME FindOrder(s) PROVE StatusStep
  <2>1. job[s].pc \in HoldsEntry
    BY <1>3 DEF FindOrder, At, HoldsEntry
  <2>2. AllInformed
    <3>1. CASE resv[Order(s)] # "NONE" /\ Go(s, "status", resv[Order(s)])
      BY <1>1, <2>1, <3>1, GoInformed DEF PCs, Undone
    <3>2. CASE resv[Order(s)] = "NONE" /\ Go(s, "txn", "")
      BY <1>1, <2>1, <3>2, GoInformed DEF PCs, Values
    <3>3. QED
      BY <1>1, <1>3, <3>1, <3>2 DEF FindOrder
  <2>3. PlainQueue /\ CalmBudget /\ SameRows
    BY <1>1, <1>3, CalmStays, PlainUnchanged, ShelfRows DEF FindOrder
  <2>4. QED
    BY <2>2, <2>3 DEF StatusStep, PlainStep, PlainQueue
<1>4. ASSUME Transact(s) PROVE StatusStep
  <2>1. job[s].pc = "txn" /\ job[s].pc \in HoldsEntry
    BY <1>4 DEF Transact, At, HoldsEntry
  <2>2. CalmBudget
    BY <1>1, <1>4, CalmStays DEF Transact
  <2>3. CASE Reserve(Order(s)) /\ Go(s, "number", "")
    <3>1. (\A q \in Servers \ {s} : job'[q] = job[q]) /\ job'[s].pc = "number"
      BY <1>1, <2>3, GoStep DEF PCs, Values
    <3>2. QED
      BY <1>4, <2>1, <2>2, <2>3, <3>1 DEF Transact, Reserve, Writes, StatusStep
  <2>4. CASE /\ Outcome(Order(s)) # "OK"
             /\ Go(s, "recheck", Outcome(Order(s)))
             /\ UNCHANGED storeVars
    <3>1. shelf[TicketOf[Order(s)]] \in {"absent", "onsale", "offline"}
      BY <1>1, <2>1, RequestData DEF StoreTypeOK
    <3>2. Outcome(Order(s)) \in Values
      BY <2>4, <3>1 DEF Outcome, Values, Reasons
    <3>3. resv[Order(s)] = "NONE"
      BY <2>1 DEF StatusInv, Undone
    <3>4. AllInformed
      BY <2>1, <2>4, <3>2, <3>3, GoInformed DEF PCs
    <3>5. PlainQueue /\ SameRows
      BY <1>1, <1>4, <2>4, PlainUnchanged, ShelfRows DEF Transact
    <3>6. QED
      BY <2>2, <3>4, <3>5 DEF StatusStep, PlainStep, PlainQueue
  <2>5. QED
    BY <1>1, <1>4, <2>3, <2>4 DEF Transact
<1>5. ASSUME Recheck(s) PROVE StatusStep
  <2>1. job[s].pc \in HoldsEntry /\ job[s].val \in Values /\ resv[Order(s)] = "NONE"
    BY <1>5, Basics DEF Recheck, At, HoldsEntry, TimerIsCurrent, Values, StatusInv, Undone
  <2>2. PICK pc \in {"fail", "count"} : Go(s, pc, job[s].val)
    BY <1>1, <1>5, <2>1 DEF Recheck
  <2>3. AllInformed
    BY <2>1, <2>2, GoInformed DEF PCs
  <2>4. PlainQueue /\ CalmBudget /\ SameRows
    BY <1>1, <1>5, CalmStays, PlainUnchanged, ShelfRows DEF Recheck
  <2>5. QED
    BY <2>3, <2>4 DEF StatusStep, PlainStep, PlainQueue
<1>6. ASSUME CountTries(s) PROVE StatusStep
  <2>1. job[s].pc \in HoldsEntry /\ job[s].val \in Values /\ resv[Order(s)] = "NONE"
    BY <1>6, Basics DEF CountTries, At, HoldsEntry, TimerIsCurrent, Values, StatusInv, Undone
  <2>2. PICK pc \in {"fail", "idle"}, val \in Values : Go(s, pc, val)
    BY <1>6, <2>1 DEF CountTries, Values
  <2>3. AllInformed
    BY <2>1, <2>2, GoInformed DEF PCs
  <2>4. PlainQueue /\ CalmBudget /\ SameRows
    BY <1>1, <1>6, CalmStays, PlainUnchanged, ShelfRows DEF CountTries
  <2>5. QED
    BY <2>3, <2>4 DEF StatusStep, PlainStep, PlainQueue
<1>7. ASSUME GiveUp(s) PROVE StatusStep
  <2>1. job[s].pc = "fail" /\ job[s].pc \in HoldsEntry /\ LetsGo(s)
    BY <1>7, GoLetsGo DEF GiveUp, At, HoldsEntry
  <2>2. CalmBudget /\ SameRows /\ resv' = resv
    BY <1>1, <1>7, CalmStays, ShelfRows DEF GiveUp, Unchecked, storeVars
  <2>3. CASE TerminalFailure(job[s].msg, job[s].val)
    BY <2>1, <2>2, <2>3 DEF Fails, Settles, StatusStep
  <2>4. CASE UNCHANGED queueVars
    <3>1. AllInformed
      BY <2>1 DEF LetsGo, AllInformed, Informed, Undone, HoldsEntry
    <3>2. QED
      BY <2>2, <2>4, <3>1, PlainUnchanged DEF StatusStep, PlainStep, PlainQueue
  <2>5. QED
    BY <1>7, <2>3, <2>4 DEF GiveUp, Unchecked
<1>8. ASSUME ZeroStock(s) PROVE StatusStep
  <2>1. AllInformed
    BY <1>8, GoLetsGo DEF ZeroStock, LetsGo, AllInformed, Informed, Undone, HoldsEntry
  <2>2. PlainQueue /\ CalmBudget /\ SameRows
    BY <1>1, <1>8, CalmStays, PlainPut, PlainUnchanged, ShelfRows DEF ZeroStock, Unchecked
  <2>3. QED
    BY <2>1, <2>2 DEF StatusStep, PlainStep, PlainQueue
<1>9. ASSUME NumberOrder(s) PROVE StatusStep
  <2>1. job[s].pc \in HoldsEntry /\ Go(s, "status", "PENDING")
    BY <1>9 DEF NumberOrder, At, HoldsEntry
  <2>2. AllInformed
    BY <2>1, GoInformed DEF PCs, Values, States, Undone
  <2>3. PlainQueue /\ CalmBudget /\ SameRows
    BY <1>1, <1>9, <2>1, CalmStays, PlainUnchanged, LaterRows DEF NumberOrder
  <2>4. QED
    BY <2>2, <2>3 DEF StatusStep, PlainStep, PlainQueue
<1>10. ASSUME PublishStatus(s) PROVE StatusStep
  <2>1. job[s].pc = "status" /\ job[s].pc \in HoldsEntry /\ Go(s, "ack", "")
    BY <1>10 DEF PublishStatus, At, HoldsEntry
  <2>2. CalmBudget /\ SameRows /\ resv' = resv
    BY <1>1, <1>10, CalmStays, ShelfRows DEF PublishStatus, Unchecked, storeVars
  <2>3. CASE SetStatus(Order(s), job[s].val)
    <3>1. (\A q \in Servers \ {s} : job'[q] = job[q]) /\ job'[s].pc = "ack"
      BY <1>1, <2>1, GoStep DEF PCs, Values
    <3>2. QED
      BY <2>1, <2>2, <2>3, <3>1 DEF Publishes, StatusStep
  <2>4. CASE UNCHANGED queueVars
    <3>1. AllInformed
      BY <2>1, GoInformed DEF PCs, Values, Undone
    <3>2. QED
      BY <2>2, <2>4, <3>1, PlainUnchanged DEF StatusStep, PlainStep, PlainQueue
  <2>5. QED
    BY <1>10, <2>3, <2>4 DEF PublishStatus, Unchecked
<1>11. ASSUME AckOrder(s) PROVE StatusStep
  <2>1. AllInformed
    BY <1>11, GoLetsGo DEF AckOrder, LetsGo, AllInformed, Informed, Undone, HoldsEntry
  <2>2. job[s].msg \in Entries
    BY <1>1, <1>11 DEF AckOrder, At, HoldsEntry
  <2>3. PlainQueue /\ CalmBudget /\ SameRows
    BY <1>1, <1>11, <2>2, CalmStays, PlainEntry, PlainUnchanged, ShelfRows DEF AckOrder, Unchecked
  <2>4. QED
    BY <2>1, <2>3 DEF StatusStep, PlainStep, PlainQueue
<1>12. ASSUME ExpireOrders(s) PROVE StatusStep
  <2>1. PICK R \in SUBSET Requests : Expire(R) /\ job' = [job EXCEPT ![s] = Expiring(R)] /\ NoFault
    BY <1>1, <1>12 DEF ExpireOrders
  <2>2. \A q \in Servers : job'[q] = job[q] \/ job'[q] = Expiring(R)
    BY <1>1, <2>1
  <2>3. Expiring(R).pc = "incr"
    BY DEF Expiring
  <2>4. AllInformed
    BY <2>2, <2>3 DEF AllInformed, Informed, Undone
  <2>5. PlainQueue /\ CalmBudget /\ SameRows
    BY <1>1, <1>12, <2>1, CalmStays, PlainUnchanged, ExpiredRows DEF ExpireOrders
  <2>6. QED
    BY <2>4, <2>5 DEF StatusStep, PlainStep, PlainQueue
<1>13. ASSUME IncrExpired(s) PROVE StatusStep
  <2>1. PICK r \in job[s].todo :
          /\ Unchecked(IncrStock(TicketOf[r], Qty[r]))
          /\ job' = [job EXCEPT ![s] = IF @.todo = {r} THEN NoTimer
                                       ELSE Expiring(@.todo \ {r})]
    BY <1>13 DEF IncrExpired
  <2>2. NoTimer.pc = "idle" /\ Expiring(job[s].todo \ {r}).pc = "incr"
    BY DEF Expiring, NoTimer
  <2>3. AllInformed
    BY <1>1, <2>1, <2>2 DEF AllInformed, Informed, Undone
  <2>4. PlainQueue /\ CalmBudget /\ SameRows
    BY <1>1, <1>13, <2>1, CalmStays, PlainIncr, PlainUnchanged, ShelfRows DEF Unchecked, IncrExpired
  <2>5. QED
    BY <2>3, <2>4 DEF StatusStep, PlainStep, PlainQueue
<1>14. ASSUME RefreshTicketStatus(s) PROVE StatusStep
  <2>1. PlainQueue /\ SameRows /\ AllInformed
    BY <1>1, <1>14, PlainUnchanged, ShelfRows, SameInformed DEF RefreshTicketStatus, procVars
  <2>2. CalmBudget
    BY <1>14, CalmStays DEF RefreshTicketStatus, procVars, NoFault
  <2>3. QED
    BY <2>1, <2>2 DEF StatusStep, PlainStep, PlainQueue
<1>15. QED
  BY <1>2, <1>3, <1>4, <1>5, <1>6, <1>7, <1>8, <1>9, <1>10, <1>11, <1>12, <1>13, <1>14
     DEF TimerStep, Work

LEMMA PlainWorker ==
    ASSUME PlainQueue, CalmBudget, SameRows, job' = job PROVE StatusStep
BY SameInformed DEF StatusStep, PlainStep, PlainQueue

LEMMA WorkerStatusSteps ==
    ASSUME IInv, StatusInv, NEW w \in Workers, WorkerStep(w) PROVE StatusStep
<1>1. StoreTypeOK /\ ~Spend("db")
  BY Basics, NoDbFault
<1>2. ASSUME NEW r \in Requests, Enqueue(r) \/ UNCHANGED queueVars, UNCHANGED storeVars,
             job' = job, NoFault \/ Spend("redis")
      PROVE  StatusStep
  <2>1. resv' = resv /\ CalmBudget /\ SameRows
    BY <1>1, <1>2, CalmStays, ShelfRows DEF storeVars
  <2>2. QED
    BY <1>2, <2>1, EnqueueAdds, PlainUnchanged, PlainWorker
<1>3. ASSUME NEW r \in Requests, OrderTicket(w, r) PROVE StatusStep
  BY <1>2, <1>3 DEF OrderTicket
<1>4. ASSUME NEW r \in Requests, CancelTicket(w, r) PROVE StatusStep
  <2>1. PlainQueue /\ CalmBudget /\ SameRows
    BY <1>1, <1>4, CalmStays, PlainUnchanged, LaterRows DEF CancelTicket
  <2>2. QED
    BY <1>4, <2>1, PlainWorker DEF CancelTicket
<1>5. ASSUME NEW t \in Tickets, AdminAddTicket(w, t) \/ AdminDeleteTicket(w, t) PROVE StatusStep
  <2>1. SameRows
    BY <1>1, <1>5, ShelfRows DEF AdminAddTicket, AdminDeleteTicket
  <2>2. PlainQueue /\ CalmBudget /\ job' = job
    BY <1>5, CalmStays, PlainUnchanged DEF AdminAddTicket, AdminDeleteTicket, NoFault
  <2>3. QED
    BY <2>1, <2>2, PlainWorker
<1>6. ASSUME ColdRead(w) PROVE StatusStep
  <2>1. PlainQueue /\ CalmBudget /\ SameRows /\ job' = job
    BY <1>1, <1>6, CalmStays, PlainUnchanged, ShelfRows DEF ColdRead
  <2>2. QED
    BY <2>1, PlainWorker
<1>7. ASSUME ColdInit(w) PROVE StatusStep
  <2>1. PlainQueue /\ CalmBudget /\ SameRows /\ job' = job
    BY <1>1, <1>7, CalmStays, PlainInitialize, PlainUnchanged, ShelfRows DEF ColdInit
  <2>2. QED
    BY <2>1, PlainWorker
<1>8. ASSUME ColdEnqueue(w) PROVE StatusStep
  <2>1. api[w].req \in Requests
    BY <1>8, InCall DEF ColdEnqueue
  <2>2. QED
    BY <1>2, <1>8, <2>1 DEF ColdEnqueue
<1>9. ASSUME IncrCancelled(w) PROVE StatusStep
  <2>1. PlainQueue /\ CalmBudget /\ SameRows /\ job' = job
    BY <1>1, <1>9, CalmStays, PlainIncr, PlainUnchanged, ShelfRows DEF IncrCancelled, Unchecked
  <2>2. QED
    BY <2>1, PlainWorker
<1>10. ASSUME ViewTickets(w) PROVE StatusStep
  <2>1. PlainQueue /\ CalmBudget /\ SameRows /\ job' = job
    BY <1>1, <1>10, CalmStays, PlainUnchanged, ShelfRows DEF ViewTickets, NoFault
  <2>2. QED
    BY <2>1, PlainWorker
<1>11. ASSUME Refill(w) PROVE StatusStep
  <2>1. PlainQueue /\ CalmBudget /\ SameRows /\ job' = job
    BY <1>1, <1>11, CalmStays, PlainPut, PlainUnchanged, ShelfRows DEF Refill, Unchecked
  <2>2. QED
    BY <2>1, PlainWorker
<1>12. QED
  BY <1>3, <1>4, <1>5, <1>6, <1>7, <1>8, <1>9, <1>10, <1>11 DEF WorkerStep

LEMMA StatusSteps ==
    ASSUME IInv, StatusInv, [Next]_vars PROVE StatusStep
<1>1. StoreTypeOK /\ job \in [Servers -> Jobs] /\ ~Spend("ttl")
  BY Basics, NoDbFault
<1>2. ASSUME NEW s \in Servers, Crash(s) PROVE StatusStep
  <2>1. NoTimer.pc = "idle"
    BY DEF NoTimer
  <2>2. AllInformed
    BY <1>1, <1>2, <2>1 DEF Crash, AllInformed, Informed, Undone
  <2>3. PlainQueue /\ CalmBudget /\ SameRows
    BY <1>1, <1>2, CalmStays, PlainUnchanged, ShelfRows DEF Crash
  <2>4. QED
    BY <2>2, <2>3 DEF StatusStep, PlainStep, PlainQueue
<1>3. ASSUME Elapse PROVE StatusStep
  <2>1. PlainQueue /\ CalmBudget /\ job' = job
    BY <1>3, CalmStays, PlainUnchanged DEF Elapse, procVars, NoFault
  <2>2. SameRows
    BY <1>1, <1>3, LaterRows DEF Elapse
  <2>3. QED
    BY <2>1, <2>2, PlainWorker
<1>4. ASSUME UNCHANGED vars PROVE StatusStep
  <2>1. PlainQueue /\ CalmBudget /\ job' = job /\ SameRows
    BY <1>1, <1>4, CalmStays, PlainUnchanged, ShelfRows DEF vars, procVars, NoFault
  <2>2. QED
    BY <2>1, PlainWorker
<1>5. ~ForgetStatus
  BY <1>1 DEF ForgetStatus
<1>6. QED
  BY <1>2, <1>3, <1>4, <1>5, TimerStatusSteps, WorkerStatusSteps DEF Next

LEMMA SpecStatusInv == ASSUME Calm PROVE Spec => []StatusInv
<1>1. ASSUME Init PROVE StatusInv
  <2>1. /\ Entries = {} /\ budget = Faults /\ status = [r \in Requests |-> "NONE"]
        /\ resv = [r \in Requests |-> "NONE"] /\ \A s \in Servers : job[s].pc = "idle"
    BY <1>1, InitIdle DEF Init, QueueInit, StoreInit
  <2>2. QED
    BY <2>1 DEF Calm, StatusInv, Undone
<1>2. ASSUME IInv, HoldInv, StatusInv, [Next]_vars PROVE StatusInv'
  BY <1>2, StatusSteps, PlainKeepsStatus, AddsKeepsStatus, WritesKeepsStatus,
     PublishesKeepsStatus, FailsKeepsStatus DEF StatusStep
<1>3. ~SlowConsumers
  BY DEF Calm
<1>4. QED
  BY <1>1, <1>2, <1>3, SpecIInv, SpecHoldInv, PTL DEF Spec

\* A request that ORDER_QUERY reports as failed has no order, while MySQL
\* answers, no consumer is slow and no status key expires; servers may crash
\* and commands of Redis and their replies be lost at any time.
THEOREM FailedOrdersAreNone == ASSUME Calm PROVE Spec => []FailedHasNoOrder
<1>1. StatusInv => FailedHasNoOrder
  BY DEF StatusInv, FailedHasNoOrder, Silent
<1>2. QED
  BY <1>1, SpecStatusInv, PTL

-----------------------------------------------------------------------------
(* The cached stock.                                                       *)

\* Keys are written from the table only when nobody has ordered yet: no list
\* is refilled and no ticket added.
Unwarmed == Traffic \cap {"view", "add"} = {}

Released == {"CANCELLED", "EXPIRED"}

\* What a worker still has to give back to the stock.
Repays(w) == IF api[w].pc = "incr" THEN {api[w].req} ELSE {}

Owed ==
    {r \in Requests : (\E s \in Servers : r \in job[s].todo) \/ (\E w \in Workers : r \in Repays(w))}

\* The orders the database has counted off otherwise than the stock.
Claims == Prededucted \cup Owed

\* A released order is owed by one thread.
DebtInv ==
    /\ \A s, q \in Servers : s # q => job[s].todo \cap job[q].todo = {}
    /\ \A v, w \in Workers : v # w => Repays(v) \cap Repays(w) = {}
    /\ \A s \in Servers, w \in Workers : job[s].todo \cap Repays(w) = {}
    /\ \A r \in Owed : resv[r] \in Released

\* Without a key nobody ordered, and what a worker is about to write is what
\* the table says, or nothing.
KeyInv ==
    /\ \A t \in Tickets : stock[t] = NoKey => \A id \in Entries : TicketOf[stream[id]] # t
    /\ \A w \in Workers : api[w].pc = "refill" => \A v \in api[w].vals : v[2] = 0
    /\ \A w \in Workers : api[w].pc = "init" =>
          \A v \in api[w].vals : stock[v[1]] = NoKey => v[2] = avail[v[1]]

Load(t) == Cardinality(Units(Claims, t))
RoomInv == \A t \in Tickets : stock[t] # NoKey => stock[t] + Load(t) <= avail[t]

StockInv == DebtInv /\ KeyInv /\ RoomInv

-----------------------------------------------------------------------------
LEMMA UnitsJoined ==
    ASSUME NEW B \in SUBSET Requests, NEW R \in SUBSET Requests, NEW A \in SUBSET (B \cup R), NEW t,
           B \cap R = {}
    PROVE  Cardinality(Units(A, t)) <= Cardinality(Units(B, t)) + Cardinality(Units(R, t))
<1>1. Cardinality(Units(B \cup R, t)) = Cardinality(Units(B, t)) + Cardinality(Units(R, t))
  BY UnitsDisjoint
<1>2. B \cup R \in SUBSET Requests
  OBVIOUS
<1>3. Cardinality(Units(A, t)) <= Cardinality(Units(B \cup R, t))
  BY <1>2, UnitsMonotone
<1>4. QED
  BY <1>1, <1>3

LEMMA NoUnits ==
    ASSUME NEW R \in SUBSET Requests, NEW t, \A r \in R : TicketOf[r] # t
    PROVE  Cardinality(Units(R, t)) = 0
<1>1. Units(R, t) = {}
  BY DEF Units
<1>2. QED
  BY <1>1, FS_EmptySet

LEMMA ClaimsType ==
    ASSUME IInv
    PROVE  /\ Claims \in SUBSET Requests /\ \A t : Load(t) \in Nat
           /\ \A t \in Tickets : stock[t] \in Nat \cup {NoKey} /\ avail[t] \in Nat
<1>1. Claims \in SUBSET Requests
  BY EntryRows, Basics DEF Claims, Owed, Prededucted, Undecided, Entries
<1>2. QED
  BY <1>1, UnitsFinite, Basics DEF Load, QueueTypeOK, StoreTypeOK

\* Without a key a ticket has no claims, and no order.
LEMMA KeylessFree ==
    ASSUME IInv, StatusInv, DebtInv, KeyInv, NEW t \in Tickets, stock[t] = NoKey
    PROVE  /\ \A r \in Requests : TicketOf[r] = t => resv[r] = "NONE" /\ r \notin Claims
           /\ Load(t) = 0
<1>1. ASSUME NEW r \in Requests, TicketOf[r] = t PROVE resv[r] = "NONE" /\ r \notin Claims
  <2>1. \A id \in Entries : stream[id] # r
    BY <1>1 DEF KeyInv
  <2>2. resv[r] = "NONE"
    BY <2>1 DEF StatusInv
  <2>3. r \notin Undecided
    BY <2>1 DEF Undecided
  <2>4. r \notin Owed
    BY <2>2 DEF DebtInv, Released
  <2>5. QED
    BY <2>2, <2>3, <2>4 DEF Claims, Prededucted
<1>2. \A r \in Claims : TicketOf[r] # t
  BY <1>1, ClaimsType
<1>3. QED
  BY <1>1, <1>2, NoUnits, ClaimsType DEF Load

-----------------------------------------------------------------------------
(* What a step does to the stock, the table and the debts.                 *)

DebtsShrink ==
    /\ \A s \in Servers : job'[s].todo \subseteq job[s].todo
    /\ \A w \in Workers : Repays(w)' \subseteq Repays(w)

\* One thread takes the debts R, the others take none.
ServerOwes(R) ==
    \E s \in Servers :
        /\ job'[s].todo \subseteq R
        /\ \A q \in Servers \ {s} : job'[q].todo \subseteq job[q].todo
        /\ \A w \in Workers : Repays(w)' \subseteq Repays(w)
WorkerOwes(R) ==
    \E w \in Workers :
        /\ Repays(w)' \subseteq R
        /\ \A v \in Workers \ {w} : Repays(v)' \subseteq Repays(v)
        /\ \A s \in Servers : job'[s].todo \subseteq job[s].todo

Same == stock' = stock /\ avail' = avail /\ Prededucted' \subseteq Prededucted /\ DebtsShrink

Zeroes(t) ==
    /\ stock' = [stock EXCEPT ![t] = 0] /\ avail' = avail
    /\ Prededucted' \subseteq Prededucted /\ DebtsShrink

Deducts(r) ==
    /\ stock[TicketOf[r]] # NoKey /\ stock[TicketOf[r]] >= Qty[r] /\ r \notin Claims
    /\ stock' = [stock EXCEPT ![TicketOf[r]] = @ - Qty[r]] /\ avail' = avail
    /\ Prededucted' \subseteq Prededucted \cup {r} /\ DebtsShrink
    /\ stream' = Append(stream, r)

Sells(r) ==
    /\ r \in Prededucted
    /\ stock' = stock /\ avail' = [avail EXCEPT ![TicketOf[r]] = @ - Qty[r]]
    /\ Prededucted' \subseteq Prededucted \ {r} /\ DebtsShrink /\ r \notin Owed

Returns(r) ==
    /\ r \in Claims /\ stock[TicketOf[r]] # NoKey
    /\ stock' = [stock EXCEPT ![TicketOf[r]] = @ + Qty[r]] /\ avail' = avail
    /\ Prededucted' \subseteq Prededucted \ {r} /\ DebtsShrink /\ r \notin Owed'

GivesBack(R) ==
    /\ \A r \in R : resv[r] \in {"PENDING", "CONFIRMED"} /\ resv'[r] \in Released
    /\ stock' = stock /\ avail' = [t \in Tickets |-> avail[t] + Cardinality(Units(R, t))]
    /\ Prededucted' \subseteq Prededucted /\ (ServerOwes(R) \/ WorkerOwes(R))

Loads(t) ==
    /\ stock[t] = NoKey /\ stock' = [stock EXCEPT ![t] = avail[t]] /\ avail' = avail
    /\ Prededucted' \subseteq Prededucted /\ DebtsShrink

\* What a worker carries to a key of the stock.
CallsTrue ==
    \A w \in Workers :
        \/ api'[w] = api[w]
        \/ /\ api'[w].pc = "refill" => \A v \in api'[w].vals : v[2] = 0
           /\ api'[w].pc = "init" => \A v \in api'[w].vals : v[2] = avail'[v[1]]

StockMove ==
    \/ Same
    \/ \E t \in Tickets : Zeroes(t) \/ Loads(t)
    \/ \E r \in Requests : Deducts(r) \/ Sells(r) \/ Returns(r)
    \/ \E R \in SUBSET Requests : GivesBack(R)

\* The stream stays, or takes a request whose ticket has a key.
StockStep == StockMove /\ CallsTrue /\ (stream' = stream \/ \E r \in Requests : Deducts(r))

ReleasedStay == \A r \in Requests : resv[r] \in Released => resv'[r] \in Released

LEMMA RowsStayReleased == ASSUME StoreTypeOK, [StoreNext]_storeVars PROVE ReleasedStay
<1> SUFFICES ASSUME NEW r \in Requests, resv[r] \in Released PROVE resv'[r] \in Released
  BY DEF ReleasedStay
<1>1. ASSUME NEW q \in Requests, Reserve(q) PROVE resv'[r] \in Released
  <2>1. resv[q] = "NONE"
    <3>1. shelf[TicketOf[q]] \in {"absent", "onsale", "offline"}
      BY RequestData DEF StoreTypeOK
    <3>2. QED
      BY <1>1, <3>1 DEF Reserve, Outcome
  <2>2. QED
    BY <1>1, <2>1 DEF Reserve, Released, StoreTypeOK
<1>2. ASSUME NEW q \in Requests, Number(q) \/ Cancel(q) \/ Confirm(q) \/ Deadline(q)
      PROVE  resv'[r] \in Released
  BY <1>2 DEF Number, Cancel, GiveBack, Confirm, Deadline, Released, StoreTypeOK
<1>3. ASSUME NEW R \in SUBSET Requests, Expire(R) PROVE resv'[r] \in Released
  BY <1>3 DEF Expire, GiveBack, Released
<1>4. ASSUME (\E t \in Tickets : AddTicket(t)) \/ (\E T \in SUBSET Tickets : TakeOffline(T))
             \/ UNCHANGED storeVars
      PROVE  resv'[r] \in Released
  BY <1>4 DEF AddTicket, TakeOffline, storeVars
<1>5. QED
  BY <1>1, <1>2, <1>3, <1>4 DEF StoreNext

LEMMA DebtsStay ==
    ASSUME DebtInv, DebtsShrink, ReleasedStay PROVE DebtInv' /\ Owed' \subseteq Owed
<1>1. Owed' \subseteq Owed
  BY DEF DebtsShrink, Owed
<1>2. QED
  BY <1>1 DEF DebtsShrink, DebtInv, ReleasedStay, Owed

LEMMA DebtsTaken ==
    ASSUME DebtInv, ReleasedStay, NEW R \in SUBSET Requests, GivesBack(R)
    PROVE  DebtInv' /\ Owed' \subseteq Owed \cup R /\ R \cap Claims = {}
<1>1. R \cap Owed = {} /\ R \cap Prededucted = {}
  BY DEF GivesBack, DebtInv, Released, Prededucted
<1>2. ASSUME ServerOwes(R) PROVE DebtInv' /\ Owed' \subseteq Owed \cup R
  <2>1. PICK s \in Servers :
            /\ job'[s].todo \subseteq R
            /\ \A q \in Servers \ {s} : job'[q].todo \subseteq job[q].todo
            /\ \A w \in Workers : Repays(w)' \subseteq Repays(w)
    BY <1>2 DEF ServerOwes
  <2>2. Owed' \subseteq Owed \cup R
    BY <2>1 DEF Owed
  <2>3. /\ \A r \in R, q \in Servers : r \notin job[q].todo
        /\ \A r \in R, w \in Workers : r \notin Repays(w)
    BY <1>1 DEF Owed
  <2>4. \A r \in Owed' : resv'[r] \in Released
    BY <2>2 DEF DebtInv, ReleasedStay, GivesBack, Owed
  <2>5. \A p, q \in Servers : p # q => job'[p].todo \cap job'[q].todo = {}
    BY <2>1, <2>3 DEF DebtInv
  <2>6. \A v, w \in Workers : v # w => Repays(v)' \cap Repays(w)' = {}
    BY <2>1 DEF DebtInv
  <2>7. \A q \in Servers, w \in Workers : job'[q].todo \cap Repays(w)' = {}
    BY <2>1, <2>3 DEF DebtInv
  <2>8. QED
    BY <2>2, <2>4, <2>5, <2>6, <2>7 DEF DebtInv
<1>3. ASSUME WorkerOwes(R) PROVE DebtInv' /\ Owed' \subseteq Owed \cup R
  <2>1. PICK w \in Workers :
            /\ Repays(w)' \subseteq R
            /\ \A v \in Workers \ {w} : Repays(v)' \subseteq Repays(v)
            /\ \A s \in Servers : job'[s].todo \subseteq job[s].todo
    BY <1>3 DEF WorkerOwes
  <2>2. Owed' \subseteq Owed \cup R
    BY <2>1 DEF Owed
  <2>3. /\ \A r \in R, q \in Servers : r \notin job[q].todo
        /\ \A r \in R, v \in Workers : r \notin Repays(v)
    BY <1>1 DEF Owed
  <2>4. \A r \in Owed' : resv'[r] \in Released
    BY <2>2 DEF DebtInv, ReleasedStay, GivesBack, Owed
  <2>5. \A p, q \in Servers : p # q => job'[p].todo \cap job'[q].todo = {}
    BY <2>1 DEF DebtInv
  <2>6. \A v, u \in Workers : v # u => Repays(v)' \cap Repays(u)' = {}
    BY <2>1, <2>3 DEF DebtInv
  <2>7. \A q \in Servers, v \in Workers : job'[q].todo \cap Repays(v)' = {}
    BY <2>1, <2>3 DEF DebtInv
  <2>8. QED
    BY <2>2, <2>4, <2>5, <2>6, <2>7 DEF DebtInv
<1>4. QED
  BY <1>1, <1>2, <1>3 DEF GivesBack, Claims

LEMMA StepData ==
    ASSUME IInv, IInv'
    PROVE  /\ Claims \in SUBSET Requests /\ Claims' \in SUBSET Requests
           /\ \A t : Load(t) \in Nat /\ Cardinality(Units(Claims', t)) \in Nat
           /\ stock \in [Tickets -> Nat \cup {NoKey}] /\ stock' \in [Tickets -> Nat \cup {NoKey}]
           /\ avail \in [Tickets -> Nat] /\ avail' \in [Tickets -> Nat]
           /\ \A r \in Requests : TicketOf[r] \in Tickets /\ Qty[r] \in Nat
<1>1. Claims \in SUBSET Requests
  BY ClaimsType
<1>2. \A r \in Prededucted' : r \in Requests
  <2>1. QueueTypeOK'
    BY DEF IInv, TypeOK
  <2>2. stream' \in Seq(Requests)
    BY <2>1 DEF QueueTypeOK
  <2>3. QED
    BY <2>2 DEF Prededucted, Undecided, Entries
<1>3. Claims' \in SUBSET Requests
  BY <1>2 DEF Claims, Owed
<1>4. \A t : Load(t) \in Nat /\ Cardinality(Units(Claims', t)) \in Nat
  BY <1>1, <1>3, UnitsFinite DEF Load
<1>5. stock \in [Tickets -> Nat \cup {NoKey}] /\ avail \in [Tickets -> Nat]
  BY Basics DEF QueueTypeOK, StoreTypeOK
<1>6. stock' \in [Tickets -> Nat \cup {NoKey}] /\ avail' \in [Tickets -> Nat]
  BY DEF IInv, TypeOK, QueueTypeOK, StoreTypeOK
<1>7. QED
  BY <1>1, <1>3, <1>4, <1>5, <1>6, RequestData

\* A ticket without a key had none before, and its row has not changed.
LEMMA KeysStay ==
    ASSUME IInv, IInv', StatusInv, StockInv, StockMove, NEW t \in Tickets, stock'[t] = NoKey
    PROVE  stock[t] = NoKey /\ avail'[t] = avail[t]
<1>1. NoKey \notin Nat /\ 0 # NoKey
  BY DEF NoKey
<1>2. DebtInv /\ KeyInv
  BY DEF StockInv
<1>3. CASE Same
  BY <1>3 DEF Same
<1>4. ASSUME NEW u \in Tickets, Zeroes(u) \/ Loads(u) PROVE stock[t] = NoKey /\ avail'[t] = avail[t]
  BY <1>1, <1>4, StepData DEF Zeroes, Loads
<1>5. ASSUME NEW r \in Requests, Deducts(r) PROVE stock[t] = NoKey /\ avail'[t] = avail[t]
  <2>1. stock[TicketOf[r]] - Qty[r] \in Nat
    BY <1>5, StepData DEF Deducts
  <2>2. QED
    BY <1>1, <1>5, <2>1, StepData DEF Deducts
<1>6. ASSUME NEW r \in Requests, Returns(r) PROVE stock[t] = NoKey /\ avail'[t] = avail[t]
  <2>1. stock[TicketOf[r]] + Qty[r] \in Nat
    BY <1>6, StepData DEF Returns
  <2>2. QED
    BY <1>1, <1>6, <2>1, StepData DEF Returns
<1>7. ASSUME NEW r \in Requests, Sells(r) PROVE stock[t] = NoKey /\ avail'[t] = avail[t]
  <2>1. stock[t] = NoKey
    BY <1>7 DEF Sells
  <2>2. TicketOf[r] # t
    BY <1>2, <1>7, <2>1, KeylessFree DEF Sells, Claims
  <2>3. QED
    BY <1>7, <2>1, <2>2, StepData DEF Sells
<1>8. ASSUME NEW R \in SUBSET Requests, GivesBack(R) PROVE stock[t] = NoKey /\ avail'[t] = avail[t]
  <2>1. stock[t] = NoKey
    BY <1>8 DEF GivesBack
  <2>2. \A r \in R : TicketOf[r] # t
    BY <1>2, <1>8, <2>1, KeylessFree DEF GivesBack
  <2>3. Cardinality(Units(R, t)) = 0
    BY <2>2, NoUnits
  <2>4. avail[t] \in Nat
    BY StepData
  <2>5. QED
    BY <1>8, <2>1, <2>3, <2>4 DEF GivesBack
<1>9. QED
  BY <1>3, <1>4, <1>5, <1>6, <1>7, <1>8 DEF StockMove

LEMMA KeysKept ==
    ASSUME IInv, IInv', StatusInv, StockInv, StockStep PROVE KeyInv'
<1>1. \A t \in Tickets : stock'[t] = NoKey => stock[t] = NoKey /\ avail'[t] = avail[t]
  BY KeysStay DEF StockStep
<1>2. ASSUME NEW t \in Tickets, stock'[t] = NoKey, NEW id \in Entries' PROVE TicketOf[stream'[id]] # t
  <2>1. stock[t] = NoKey
    BY <1>1, <1>2
  <2>2. CASE stream' = stream
    BY <1>2, <2>1, <2>2 DEF StockInv, KeyInv, Entries
  <2>3. CASE \E r \in Requests : Deducts(r)
    <3>1. PICK r \in Requests : Deducts(r)
      BY <2>3
    <3>2. stream' = Append(stream, r) /\ TicketOf[r] # t /\ stream \in Seq(Requests)
      BY <2>1, <3>1, Basics DEF Deducts, QueueTypeOK
    <3>3. (id \in Entries /\ stream'[id] = stream[id]) \/ stream'[id] = r
      BY <3>2 DEF Entries
    <3>4. QED
      BY <2>1, <3>2, <3>3 DEF StockInv, KeyInv
  <2>4. QED
    BY <2>2, <2>3 DEF StockStep
<1>3. \A w \in Workers : api'[w].pc = "refill" => \A v \in api'[w].vals : v[2] = 0
  BY DEF StockStep, CallsTrue, StockInv, KeyInv
<1>4. ASSUME NEW w \in Workers, api'[w].pc = "init", NEW v \in api'[w].vals, stock'[v[1]] = NoKey
      PROVE  v[2] = avail'[v[1]]
  <2>1. CASE api'[w] = api[w]
    <3>1. v[1] \in Tickets
      BY <1>4, <2>1 DEF IInv, TypeOK, Calls
    <3>2. QED
      BY <1>1, <1>4, <2>1, <3>1 DEF StockInv, KeyInv
  <2>2. CASE api'[w] # api[w]
    BY <1>4, <2>2 DEF StockStep, CallsTrue
  <2>3. QED
    BY <2>1, <2>2
<1>5. QED
  BY <1>2, <1>3, <1>4 DEF KeyInv

\* The claims only grow by what the stock was lowered or the table raised.
LEMMA RoomKept ==
    ASSUME IInv, IInv', StatusInv, StockInv, ReleasedStay, StockMove
    PROVE  RoomInv' /\ DebtInv'
<1> DEFINE L(t) == Cardinality(Units(Claims', t))
<1>0. DebtInv /\ KeyInv /\ RoomInv /\ NoKey \notin Nat
  BY DEF StockInv, NoKey
<1>1. Claims \in SUBSET Requests /\ \A t : Load(t) \in Nat /\ L(t) \in Nat
  BY StepData
<1>2. ASSUME DebtsShrink, Prededucted' \subseteq Prededucted
      PROVE  DebtInv' /\ Claims' \subseteq Claims /\ \A t : L(t) <= Load(t)
  <2>1. DebtInv' /\ Claims' \subseteq Claims
    BY <1>0, <1>2, DebtsStay DEF Claims
  <2>2. QED
    BY <1>1, <2>1, UnitsMonotone DEF Load
<1>3. CASE Same
  <2>1. DebtInv' /\ \A t : L(t) <= Load(t)
    BY <1>2, <1>3 DEF Same
  <2>2. ASSUME NEW t \in Tickets, stock'[t] # NoKey PROVE stock'[t] + L(t) <= avail'[t]
    BY <1>0, <1>1, <1>3, <2>1, <2>2, StepData DEF Same, RoomInv
  <2>3. QED
    BY <2>1, <2>2 DEF RoomInv, Load
<1>4. ASSUME NEW u \in Tickets, Zeroes(u) PROVE RoomInv' /\ DebtInv'
  <2>1. DebtInv' /\ \A t : L(t) <= Load(t)
    BY <1>2, <1>4 DEF Zeroes
  <2>2. ASSUME NEW t \in Tickets, stock'[t] # NoKey PROVE stock'[t] + L(t) <= avail'[t]
    <3>1. CASE t # u
      BY <1>0, <1>1, <1>4, <2>1, <2>2, <3>1, StepData DEF Zeroes, RoomInv
    <3>2. CASE t = u
      <4>1. stock'[t] = 0 /\ avail'[t] = avail[t]
        BY <1>4, <3>2, StepData DEF Zeroes
      <4>2. Load(t) <= avail[t]
        <5>1. CASE stock[t] = NoKey
          BY <1>0, <5>1, KeylessFree, StepData
        <5>2. CASE stock[t] # NoKey
          BY <1>0, <1>1, <5>2, StepData DEF RoomInv
        <5>3. QED
          BY <5>1, <5>2
      <4>3. QED
        BY <1>1, <2>1, <4>1, <4>2, StepData
    <3>3. QED
      BY <3>1, <3>2
  <2>3. QED
    BY <2>1, <2>2 DEF RoomInv, Load
<1>5. ASSUME NEW u \in Tickets, Loads(u) PROVE RoomInv' /\ DebtInv'
  <2>1. DebtInv' /\ \A t : L(t) <= Load(t)
    BY <1>2, <1>5 DEF Loads
  <2>2. ASSUME NEW t \in Tickets, stock'[t] # NoKey PROVE stock'[t] + L(t) <= avail'[t]
    <3>1. CASE t # u
      BY <1>0, <1>1, <1>5, <2>1, <2>2, <3>1, StepData DEF Loads, RoomInv
    <3>2. CASE t = u
      <4>1. stock'[t] = avail[t] /\ avail'[t] = avail[t] /\ avail[t] \in Nat
        BY <1>5, <3>2, StepData DEF Loads
      <4>2. Load(t) = 0
        BY <1>0, <1>5, <3>2, KeylessFree DEF Loads
      <4>3. QED
        BY <1>1, <2>1, <4>1, <4>2
    <3>3. QED
      BY <3>1, <3>2
  <2>3. QED
    BY <2>1, <2>2 DEF RoomInv, Load
<1>6. ASSUME NEW r \in Requests, Deducts(r) PROVE RoomInv' /\ DebtInv'
  <2>1. DebtInv' /\ Claims' \subseteq Claims \cup {r}
    BY <1>0, <1>6, DebtsStay DEF Deducts, Claims
  <2>2. \A t : L(t) <= Load(t) + (IF TicketOf[r] = t THEN Qty[r] ELSE 0)
    <3>1. \A t : L(t) <= Load(t) + Cardinality(Units({r}, t))
      BY <1>1, <1>6, <2>1, UnitsJoined DEF Deducts, Load
    <3>2. QED
      BY <3>1, UnitsOfOne
  <2>3. ASSUME NEW t \in Tickets, stock'[t] # NoKey PROVE stock'[t] + L(t) <= avail'[t]
    <3>1. CASE t = TicketOf[r]
      <4>1. stock'[t] = stock[t] - Qty[r] /\ stock[t] \in Nat /\ avail'[t] = avail[t] /\ stock[t] # NoKey
        BY <1>6, <3>1, StepData DEF Deducts
      <4>2. L(t) <= Load(t) + Qty[r] /\ stock[t] + Load(t) <= avail[t]
        BY <1>0, <2>2, <3>1, <4>1 DEF RoomInv
      <4>3. QED
        BY <1>1, <4>1, <4>2, StepData
    <3>2. CASE t # TicketOf[r]
      <4>1. stock'[t] = stock[t] /\ avail'[t] = avail[t]
        BY <1>6, <3>2, StepData DEF Deducts
      <4>2. L(t) <= Load(t) + 0
        BY <2>2, <3>2
      <4>3. QED
        BY <1>0, <1>1, <2>3, <4>1, <4>2, StepData DEF RoomInv
    <3>3. QED
      BY <3>1, <3>2
  <2>4. QED
    BY <2>1, <2>3 DEF RoomInv, Load
<1>7. ASSUME NEW r \in Requests, Sells(r) \/ Returns(r) PROVE RoomInv' /\ DebtInv'
  <2>1. DebtInv' /\ Claims' \subseteq Claims /\ r \notin Claims' /\ r \in Claims
    BY <1>0, <1>7, DebtsStay DEF Sells, Returns, Claims
  <2>2. \A t : L(t) + (IF TicketOf[r] = t THEN Qty[r] ELSE 0) <= Load(t)
    BY <1>1, <2>1, UnitsWithout DEF Load
  <2>3. ASSUME NEW t \in Tickets, stock'[t] # NoKey PROVE stock'[t] + L(t) <= avail'[t]
    <3>1. CASE t = TicketOf[r]
      <4>1. L(t) + Qty[r] <= Load(t) /\ Qty[r] \in Nat
        BY <2>2, <3>1, StepData
      <4>2. stock[t] # NoKey
        BY <1>7, <2>3, <3>1 DEF Sells, Returns
      <4>3. stock[t] + Load(t) <= avail[t] /\ stock[t] \in Nat /\ avail[t] \in Nat
        BY <1>0, <4>2, StepData DEF RoomInv
      <4>4. \/ stock'[t] = stock[t] /\ avail'[t] = avail[t] - Qty[r]
            \/ stock'[t] = stock[t] + Qty[r] /\ avail'[t] = avail[t]
        BY <1>7, <3>1, StepData DEF Sells, Returns
      <4>5. QED
        BY <1>1, <4>1, <4>3, <4>4
    <3>2. CASE t # TicketOf[r]
      <4>1. stock'[t] = stock[t] /\ avail'[t] = avail[t]
        BY <1>7, <3>2, StepData DEF Sells, Returns
      <4>2. L(t) + 0 <= Load(t)
        BY <2>2, <3>2
      <4>3. QED
        BY <1>0, <1>1, <2>3, <4>1, <4>2, StepData DEF RoomInv
    <3>3. QED
      BY <3>1, <3>2
  <2>4. QED
    BY <2>1, <2>3 DEF RoomInv, Load
<1>8. ASSUME NEW R \in SUBSET Requests, GivesBack(R) PROVE RoomInv' /\ DebtInv'
  <2>1. DebtInv' /\ Owed' \subseteq Owed \cup R /\ R \cap Claims = {}
    BY <1>0, <1>8, DebtsTaken
  <2>2. Claims' \in SUBSET (Claims \cup R)
    BY <1>8, <2>1 DEF GivesBack, Claims
  <2>3. \A t : L(t) <= Load(t) + Cardinality(Units(R, t))
    BY <1>1, <2>1, <2>2, UnitsJoined DEF Load
  <2>4. ASSUME NEW t \in Tickets, stock'[t] # NoKey PROVE stock'[t] + L(t) <= avail'[t]
    <3>1. stock'[t] = stock[t] /\ avail'[t] = avail[t] + Cardinality(Units(R, t))
      BY <1>8 DEF GivesBack
    <3>2. stock[t] + Load(t) <= avail[t] /\ stock[t] \in Nat /\ avail[t] \in Nat
      BY <1>0, <2>4, <3>1, StepData DEF RoomInv
    <3>3. Cardinality(Units(R, t)) \in Nat
      BY UnitsFinite
    <3>4. QED
      BY <1>1, <2>3, <3>1, <3>2, <3>3
  <2>5. QED
    BY <2>1, <2>4 DEF RoomInv, Load
<1>9. QED
  BY <1>3, <1>4, <1>5, <1>6, <1>7, <1>8 DEF StockMove

LEMMA StockKept ==
    ASSUME IInv, IInv', StatusInv, StockInv, ReleasedStay, StockStep PROVE StockInv'
BY KeysKept, RoomKept DEF StockStep, StockInv

-----------------------------------------------------------------------------
(* The steps one by one.                                                   *)

QueueKept == stock' = stock /\ stream' = stream /\ Acked \subseteq Acked'
TableKept == avail' = avail /\ SameRows
Steady == DebtsShrink /\ CallsTrue

LEMMA FewerPrededucted ==
    ASSUME QueueTypeOK, QueueTypeOK', stream' = stream, Acked \subseteq Acked', SameRows
    PROVE  Prededucted' \subseteq Prededucted
<1> SUFFICES ASSUME NEW r \in Prededucted' PROVE r \in Prededucted
  OBVIOUS
<1>1. PICK id \in Entries' : r = stream'[id] /\ (id > last' \/ id \in pel')
  BY DEF Prededucted, Undecided
<1>2. last \in Nat /\ last' \in Nat /\ pel' \subseteq 1 .. last' /\ Entries' = Entries
  BY DEF QueueTypeOK, Entries
<1>3. id \in Entries /\ r = stream[id] /\ id \in Nat \ {0} /\ r \in Requests
  BY <1>1, <1>2, EntryRows DEF Entries
<1>4. id \notin Acked'
  BY <1>1, <1>2, <1>3 DEF Acked
<1>5. id > last \/ id \in pel
  BY <1>2, <1>3, <1>4 DEF Acked
<1>6. r \in Undecided
  BY <1>3, <1>5 DEF Undecided
<1>7. resv[r] = "NONE"
  BY <1>3 DEF Prededucted, SameRows
<1>8. QED
  BY <1>6, <1>7 DEF Prededucted

LEMMA KeptQueue ==
    ASSUME QueueTypeOK,
           \/ UNCHANGED queueVars
           \/ \E id \in Entries : Deliver(id) \/ Acknowledge(id)
           \/ \E r, v : SetStatus(r, v)
    PROVE  QueueKept
<1>1. CASE UNCHANGED queueVars
  BY <1>1 DEF queueVars, QueueKept, Acked
<1>2. ASSUME NEW id \in Entries, Deliver(id) \/ Acknowledge(id) PROVE QueueKept
  BY <1>2, PlainEntry DEF PlainQueue, QueueKept, Deliver, Acknowledge
<1>3. ASSUME NEW r, NEW v, SetStatus(r, v) PROVE QueueKept
  BY <1>3 DEF SetStatus, QueueKept, Acked
<1>4. QED
  BY <1>1, <1>2, <1>3

LEMMA KeptTable ==
    ASSUME StoreTypeOK,
           \/ UNCHANGED storeVars
           \/ \E r \in Requests : Number(r) \/ Confirm(r) \/ Deadline(r)
           \/ \E T : TakeOffline(T)
    PROVE  TableKept
<1>1. CASE UNCHANGED storeVars
  BY <1>1, ShelfRows DEF storeVars, TableKept
<1>2. ASSUME NEW r \in Requests, Number(r) \/ Confirm(r) \/ Deadline(r) PROVE TableKept
  BY <1>2, LaterRows DEF Number, Confirm, Deadline, TableKept
<1>3. ASSUME NEW T, TakeOffline(T) PROVE TableKept
  BY <1>3, ShelfRows DEF TakeOffline, TableKept
<1>4. QED
  BY <1>1, <1>2, <1>3

LEMMA SteadyStep ==
    ASSUME IInv, QueueTypeOK', QueueKept, TableKept, Steady PROVE StockStep
<1>1. Prededucted' \subseteq Prededucted
  BY FewerPrededucted, Basics DEF QueueKept, TableKept
<1>2. Same
  BY <1>1 DEF Same, QueueKept, TableKept, Steady
<1>3. QED
  BY <1>2 DEF StockStep, StockMove, Steady, QueueKept

LEMMA SteadySame == ASSUME job' = job, api' = api PROVE Steady
BY DEF Steady, DebtsShrink, CallsTrue, Repays

LEMMA SteadyGo ==
    ASSUME IInv, NEW s \in Servers, NEW pc, NEW val, Go(s, pc, val), api' = api PROVE Steady
<1>1. job \in [Servers -> Jobs] /\ job[s] \in Jobs
  BY Basics
<1>2. job'[s].todo \subseteq job[s].todo
  <2>1. CASE pc = "idle"
    BY <1>1, <2>1 DEF Go, NoTimer
  <2>2. CASE pc # "idle"
    <3>1. job'[s] = [job[s] EXCEPT !.pc = pc, !.val = val]
      BY <1>1, <2>2 DEF Go
    <3>2. QED
      BY <1>1, <3>1 DEF Jobs
  <2>3. QED
    BY <2>1, <2>2
<1>3. \A q \in Servers \ {s} : job'[q] = job[q]
  BY <1>1 DEF Go
<1>4. QED
  BY <1>2, <1>3 DEF Steady, DebtsShrink, CallsTrue, Repays

\* The worker w goes to pc with the request r and the values V.
LEMMA SteadyCall ==
    ASSUME IInv, NEW w \in Workers, NEW pc, NEW r, NEW V, Call(w, pc, r, V), job' = job, pc # "incr",
           pc = "refill" => \A v \in V : v[2] = 0,
           pc = "init" => \A v \in V : v[2] = avail'[v[1]]
    PROVE  Steady
<1>1. api' = [api EXCEPT ![w] = [pc |-> pc, req |-> r, vals |-> V]] /\ api \in [Workers -> Calls]
  BY DEF Call, IInv, TypeOK
<1>2. /\ \A v \in Workers \ {w} : api'[v] = api[v]
      /\ api'[w].pc = pc /\ api'[w].vals = V
  BY <1>1
<1>3. Repays(w)' = {} /\ \A v \in Workers \ {w} : Repays(v)' = Repays(v)
  BY <1>2 DEF Repays
<1>4. QED
  BY <1>2, <1>3 DEF Steady, DebtsShrink, CallsTrue

LEMMA SteadyReturn ==
    ASSUME IInv, NEW w \in Workers, Return(w), job' = job PROVE Steady /\ Repays(w)' = {}
<1>1. api' = [api EXCEPT ![w] = NoCall] /\ api \in [Workers -> Calls] /\ NoCall.pc = "idle"
  BY DEF Return, IInv, TypeOK, NoCall
<1>2. (\A v \in Workers \ {w} : api'[v] = api[v]) /\ api'[w].pc = "idle"
  BY <1>1
<1>3. Repays(w)' = {} /\ \A v \in Workers \ {w} : Repays(v)' = Repays(v)
  BY <1>2 DEF Repays
<1>4. QED
  BY <1>2, <1>3 DEF Steady, DebtsShrink, CallsTrue

\* Writing zero to a key.
LEMMA ZeroStep ==
    ASSUME IInv, QueueTypeOK', NEW t \in Tickets, PutStock(t, 0), TableKept, Steady PROVE StockStep
<1>1. stream' = stream /\ Acked' = Acked /\ stock' = [stock EXCEPT ![t] = 0]
  BY DEF PutStock, Acked
<1>2. Prededucted' \subseteq Prededucted
  BY <1>1, FewerPrededucted, Basics DEF TableKept
<1>3. Zeroes(t)
  BY <1>1, <1>2 DEF Zeroes, TableKept, Steady
<1>4. QED
  BY <1>1, <1>3 DEF StockStep, StockMove, Steady

\* The script of enqueue.
LEMMA EnqueueStock ==
    ASSUME IInv, QueueTypeOK', StatusInv, StockInv, NEW r \in Requests, Enqueue(r),
           UNCHANGED storeVars, Steady
    PROVE  StockStep
<1>1. TableKept /\ resv' = resv /\ QueueTypeOK
  BY KeptTable, Basics DEF storeVars
<1>2. CASE Admission(r) # "QUEUED"
  BY <1>1, <1>2, KeptQueue, SteadyStep DEF Enqueue
<1>3. CASE Admission(r) = "QUEUED"
  <2>1. /\ stock' = [stock EXCEPT ![TicketOf[r]] = @ - Qty[r]] /\ stream' = Append(stream, r)
        /\ last' = last /\ pel' = pel /\ avail' = avail
    BY <1>1, <1>3 DEF Enqueue, TableKept
  <2>2. status[r] = "NONE" /\ stock[TicketOf[r]] # NoKey
    BY <1>3 DEF Admission
  <2>3. stock[TicketOf[r]] >= Qty[r]
    <3>1. ~(stock[TicketOf[r]] < Qty[r])
      BY <1>3, <2>2 DEF Admission
    <3>2. stock[TicketOf[r]] \in Nat /\ Qty[r] \in Nat
      BY <2>2, RequestData, ClaimsType
    <3>3. QED
      BY <3>1, <3>2
  <2>4. \A id \in Entries : stream[id] # r
    BY <2>2 DEF StatusInv
  <2>5. resv[r] = "NONE"
    BY <2>4 DEF StatusInv
  <2>6. r \notin Claims
    BY <2>4, <2>5 DEF Claims, Prededucted, Undecided, StockInv, DebtInv, Released
  <2>7. Prededucted' \subseteq Prededucted \cup {r}
    <3>1. ASSUME NEW q \in Prededucted', q # r PROVE q \in Prededucted
      <4>1. PICK id \in Entries' : q = stream'[id] /\ (id > last' \/ id \in pel')
        BY <3>1 DEF Prededucted, Undecided
      <4>2. stream \in Seq(Requests)
        BY <1>1 DEF QueueTypeOK
      <4>3. id \in Entries /\ stream'[id] = stream[id]
        BY <2>1, <3>1, <4>1, <4>2 DEF Entries
      <4>4. QED
        BY <1>1, <2>1, <3>1, <4>1, <4>3 DEF Prededucted, Undecided
    <3>2. QED
      BY <3>1
  <2>8. Deducts(r)
    BY <2>1, <2>2, <2>3, <2>6, <2>7 DEF Deducts, Steady
  <2>9. QED
    BY <2>8 DEF StockStep, StockMove, Steady
<1>4. QED
  BY <1>2, <1>3

\* incr for a released order that the thread no longer owes.
LEMMA IncrStep ==
    ASSUME IInv, QueueTypeOK', NEW r \in Owed, IncrStock(TicketOf[r], Qty[r]),
           StatusInv, StockInv, UNCHANGED storeVars, Steady, r \notin Owed'
    PROVE  StockStep
<1>1. TableKept /\ QueueTypeOK /\ resv[r] # "NONE" /\ r \in Requests
  BY KeptTable, Basics DEF Owed, StockInv, DebtInv, Released
<1>2. CASE stock[TicketOf[r]] = NoKey
  BY <1>1, <1>2, KeptQueue, SteadyStep DEF IncrStock
<1>3. CASE stock[TicketOf[r]] # NoKey
  <2>1. /\ stock' = [stock EXCEPT ![TicketOf[r]] = @ + Qty[r]] /\ stream' = stream /\ Acked' = Acked
    BY <1>3 DEF IncrStock, PutStock, Acked
  <2>2. Prededucted' \subseteq Prededucted
    BY <1>1, <2>1, FewerPrededucted DEF TableKept
  <2>3. Prededucted' \subseteq Prededucted \ {r}
    BY <1>1, <2>2 DEF Prededucted
  <2>4. Returns(r)
    BY <1>1, <1>3, <2>1, <2>3 DEF Returns, Claims, TableKept, Steady
  <2>5. QED
    BY <1>1, <2>1, <2>4 DEF StockStep, StockMove, Steady
<1>4. QED
  BY <1>2, <1>3

\* Steps that touch neither the stock nor the table.
LEMMA EntryStockStep ==
    ASSUME IInv, QueueTypeOK', StatusInv, StockInv, NEW s \in Servers,
           \/ \E id \in Entries : Poll(s, id)
           \/ FindOrder(s) \/ Recheck(s) \/ CountTries(s) \/ NumberOrder(s)
           \/ PublishStatus(s) \/ AckOrder(s) \/ RefreshTicketStatus(s)
    PROVE  StockStep
<1>1. /\ QueueTypeOK /\ StoreTypeOK /\ job \in [Servers -> Jobs] /\ ~Spend("db")
      /\ job[s].pc \in HoldsEntry => Order(s) \in Requests /\ job[s].msg \in Entries
  BY Basics, HeldEntry, NoDbFault
<1>2. ASSUME NEW id \in Entries, Poll(s, id) PROVE StockStep
  <2>1. job' = job \/ job' = [job EXCEPT ![s].pc = "find", ![s].msg = id]
    BY <1>2 DEF Poll
  <2>2. \A q \in Servers : job'[q].todo = job[q].todo
    <3>1. CASE job' = job
      BY <3>1
    <3>2. CASE job' = [job EXCEPT ![s].pc = "find", ![s].msg = id]
      <4>1. \A q \in Servers \ {s} : job'[q] = job[q]
        BY <1>1, <3>2
      <4>2. job[s] \in Jobs /\ job'[s] = [job[s] EXCEPT !.pc = "find", !.msg = id]
        BY <1>1, <3>2
      <4>3. job'[s].todo = job[s].todo
        BY <4>2 DEF Jobs
      <4>4. QED
        BY <4>1, <4>3
    <3>3. QED
      BY <2>1, <3>1, <3>2
  <2>3. Steady
    BY <1>2, <2>2 DEF Poll, Steady, DebtsShrink, CallsTrue, Repays
  <2>4. QueueKept /\ TableKept
    BY <1>1, <1>2, KeptQueue, KeptTable DEF Poll
  <2>5. QED
    BY <2>3, <2>4, SteadyStep
<1>3. ASSUME FindOrder(s) \/ Recheck(s) \/ CountTries(s) PROVE StockStep
  <2>1. UNCHANGED queueVars /\ UNCHANGED storeVars /\ api' = api
    BY <1>3 DEF FindOrder, Recheck, CountTries
  <2>2. QueueKept /\ TableKept
    BY <1>1, <2>1, KeptQueue, KeptTable
  <2>3. \E pc, val : Go(s, pc, val)
    BY <1>1, <1>3 DEF FindOrder, Recheck, CountTries
  <2>4. QED
    BY <2>1, <2>2, <2>3, SteadyGo, SteadyStep
<1>4. ASSUME NumberOrder(s) PROVE StockStep
  <2>1. Order(s) \in Requests /\ UNCHANGED queueVars /\ Go(s, "status", "PENDING") /\ api' = api
    BY <1>1, <1>4 DEF NumberOrder, At, HoldsEntry
  <2>2. QueueKept
    BY <1>1, <2>1, KeptQueue
  <2>3. TableKept
    BY <1>1, <1>4, <2>1, KeptTable DEF NumberOrder
  <2>4. QED
    BY <2>1, <2>2, <2>3, SteadyGo, SteadyStep
<1>5. ASSUME PublishStatus(s) \/ AckOrder(s) PROVE StockStep
  <2>1. job[s].msg \in Entries /\ UNCHANGED storeVars /\ api' = api
    BY <1>1, <1>5 DEF PublishStatus, AckOrder, At, HoldsEntry
  <2>2. QueueKept
    BY <1>1, <1>5, <2>1, KeptQueue DEF PublishStatus, AckOrder, Unchecked
  <2>3. TableKept
    BY <1>1, <2>1, KeptTable
  <2>4. \E pc : Go(s, pc, "")
    BY <1>5 DEF PublishStatus, AckOrder
  <2>5. QED
    BY <2>1, <2>2, <2>3, <2>4, SteadyGo, SteadyStep
<1>6. ASSUME RefreshTicketStatus(s) PROVE StockStep
  <2>1. UNCHANGED queueVars /\ job' = job /\ api' = api
    BY <1>6 DEF RefreshTicketStatus, procVars
  <2>2. QueueKept
    BY <1>1, <2>1, KeptQueue
  <2>3. TableKept
    BY <1>1, <1>6, KeptTable DEF RefreshTicketStatus
  <2>4. QED
    BY <2>1, <2>2, <2>3, SteadySame, SteadyStep
<1>7. QED
  BY <1>2, <1>3, <1>4, <1>5, <1>6

\* The transaction takes from the table what the entry has taken from the stock.
LEMMA TransactStock ==
    ASSUME IInv, QueueTypeOK', HoldInv, StatusInv, StockInv, NEW s \in Servers, Transact(s)
    PROVE  StockStep
<1>1. /\ QueueTypeOK /\ StoreTypeOK /\ ~Spend("db") /\ job[s].pc = "txn"
      /\ UNCHANGED queueVars /\ api' = api
  BY Basics, NoDbFault DEF Transact, At
<1>2. job[s].msg \in Entries /\ Order(s) = stream[job[s].msg] /\ Order(s) \in Requests
  BY <1>1, HeldEntry DEF HoldsEntry
<1>3. PICK o \in Requests : o = Order(s)
  BY <1>2
<1>4. (\E pc, val : Go(s, pc, val)) /\ (Reserve(o) \/ UNCHANGED storeVars)
  BY <1>1, <1>3 DEF Transact
<1>5. Steady
  BY <1>1, <1>4, SteadyGo
<1>6. QueueKept
  BY <1>1, KeptQueue
<1>7. CASE UNCHANGED storeVars
  BY <1>1, <1>5, <1>6, <1>7, KeptTable, SteadyStep
<1>8. CASE Reserve(o)
  <2>1. resv[o] = "NONE" /\ job[s].msg \in pel
    BY <1>1, <1>3 DEF StatusInv, Undone, HoldInv, Holding, HoldsEntry
  <2>2. o \in Prededucted
    BY <1>2, <1>3, <2>1 DEF Prededucted, Undecided
  <2>3. o \notin Owed
    BY <2>1 DEF StockInv, DebtInv, Released
  <2>4. /\ stock' = stock /\ stream' = stream /\ last' = last /\ pel' = pel
        /\ avail' = [avail EXCEPT ![TicketOf[o]] = @ - Qty[o]]
        /\ resv' = [resv EXCEPT ![o] = "PENDING"]
    BY <1>1, <1>8 DEF queueVars, Reserve
  <2>5. Undecided' = Undecided
    BY <2>4 DEF Undecided, Entries
  <2>6. \A r \in Undecided : r \in Requests
    BY <1>1, EntryRows DEF Undecided
  <2>7. Prededucted' \subseteq Prededucted \ {o}
    BY <1>1, <2>4, <2>5, <2>6 DEF Prededucted, StoreTypeOK
  <2>8. Sells(o)
    BY <1>5, <2>2, <2>3, <2>4, <2>7 DEF Sells, Steady
  <2>9. QED
    BY <1>5, <2>4, <2>8 DEF StockStep, StockMove, Steady
<1>9. QED
  BY <1>4, <1>7, <1>8

\* terminalFailure gives back what the entry has taken from the stock.
LEMMA GiveUpStock ==
    ASSUME IInv, QueueTypeOK', HoldInv, StatusInv, StockInv, NEW s \in Servers, GiveUp(s)
    PROVE  StockStep
<1>1. /\ QueueTypeOK /\ StoreTypeOK /\ job[s].pc = "fail" /\ UNCHANGED storeVars /\ api' = api
  BY Basics DEF GiveUp, At
<1>2. job[s].msg \in Entries /\ Order(s) = stream[job[s].msg] /\ Order(s) \in Requests
  BY <1>1, HeldEntry DEF HoldsEntry
<1>3. PICK o \in Requests : o = Order(s)
  BY <1>2
<1>4. PICK m \in Entries : m = job[s].msg /\ stream[m] = o
  BY <1>2, <1>3
<1>5. Steady
  <2>1. \E pc, val : Go(s, pc, val)
    BY DEF GiveUp
  <2>2. QED
    BY <1>1, <2>1, SteadyGo
<1>6. TableKept /\ resv' = resv /\ avail' = avail
  BY <1>1, KeptTable DEF storeVars
<1>7. CASE UNCHANGED queueVars
  BY <1>1, <1>5, <1>6, <1>7, KeptQueue, SteadyStep
<1>8. CASE TerminalFailure(m, job[s].val)
  <2>1. resv[o] = "NONE" /\ m \in pel
    BY <1>1, <1>3, <1>4 DEF StatusInv, Undone, HoldInv, Holding, HoldsEntry
  <2>2. o \in Prededucted
    BY <1>4, <2>1 DEF Prededucted, Undecided
  <2>3. o \notin Owed /\ o \notin Owed'
    BY <1>5, <2>1 DEF StockInv, DebtInv, Released, Steady, DebtsShrink, Owed
  <2>4. TicketOf[o] \in Tickets /\ stock[TicketOf[o]] # NoKey
    BY <1>4, RequestData DEF StockInv, KeyInv
  <2>5. /\ stock' = [stock EXCEPT ![TicketOf[o]] = @ + Qty[o]]
        /\ stream' = stream /\ last' = last /\ pel' = pel \ {m}
    BY <1>4, <1>8, <2>4 DEF TerminalFailure
  <2>6. Prededucted' \subseteq Prededucted \ {o}
    <3>1. ASSUME NEW r \in Prededucted' PROVE r \in Prededucted /\ r # o
      <4>1. PICK i \in Entries : r = stream[i] /\ (i > last \/ (i \in pel /\ i # m))
        BY <2>5, <3>1 DEF Prededucted, Undecided, Entries
      <4>2. i # m
        <5>1. m \in 1 .. last /\ last \in Nat
          BY <1>1, <1>4, InHand DEF QueueTypeOK, HoldsEntry
        <5>2. QED
          BY <4>1, <5>1
      <4>3. r # o
        BY <1>4, <4>1, <4>2 DEF StatusInv
      <4>4. QED
        BY <1>6, <3>1, <4>1, <4>3 DEF Prededucted, Undecided
    <3>2. QED
      BY <3>1
  <2>7. Returns(o)
    BY <1>5, <1>6, <2>2, <2>3, <2>4, <2>5, <2>6 DEF Returns, Claims, Steady
  <2>8. QED
    BY <1>5, <2>5, <2>7 DEF StockStep, StockMove, Steady
<1>9. QED
  BY <1>4, <1>7, <1>8 DEF GiveUp, Unchecked

LEMMA ZeroStockStock ==
    ASSUME IInv, QueueTypeOK', StatusInv, StockInv, NEW s \in Servers, ZeroStock(s)
    PROVE  StockStep
<1>1. QueueTypeOK /\ StoreTypeOK /\ Order(s) \in Requests
  BY Basics, HeldEntry DEF ZeroStock, At, HoldsEntry
<1>2. Go(s, "idle", "") /\ api' = api /\ UNCHANGED storeVars
  BY DEF ZeroStock
<1>3. Steady /\ TableKept
  BY <1>1, <1>2, SteadyGo, KeptTable
<1>4. CASE UNCHANGED queueVars
  BY <1>1, <1>3, <1>4, KeptQueue, SteadyStep
<1>5. CASE PutStock(TicketOf[Order(s)], 0)
  <2>1. PICK t \in Tickets : t = TicketOf[Order(s)]
    BY <1>1, RequestData
  <2>2. PutStock(t, 0)
    BY <1>5, <2>1
  <2>3. QED
    BY <1>3, <2>2, ZeroStep
<1>6. QED
  BY <1>4, <1>5 DEF ZeroStock, Unchecked

\* A transaction that releases orders leaves their units to one thread.
LEMMA ReleaseStock ==
    ASSUME IInv, QueueTypeOK', NEW R \in SUBSET Requests, NEW state \in Released, GiveBack(R, state),
           \A r \in R : resv[r] \in {"PENDING", "CONFIRMED"},
           UNCHANGED queueVars, CallsTrue, ServerOwes(R) \/ WorkerOwes(R)
    PROVE  StockStep
<1>1. /\ QueueTypeOK /\ stock' = stock /\ stream' = stream /\ Acked' = Acked
      /\ avail' = [t \in Tickets |-> avail[t] + Cardinality(Units(R, t))]
      /\ resv' = [r \in Requests |-> IF r \in R THEN state ELSE resv[r]]
  BY Basics DEF queueVars, Acked, GiveBack
<1>2. SameRows
  BY <1>1 DEF SameRows, Released
<1>3. Prededucted' \subseteq Prededucted
  BY <1>1, <1>2, FewerPrededucted
<1>4. GivesBack(R)
  BY <1>1, <1>3 DEF GivesBack
<1>5. QED
  BY <1>1, <1>4 DEF StockStep, StockMove

LEMMA ExpireStock ==
    ASSUME IInv, QueueTypeOK', StatusInv, NEW s \in Servers, ExpireOrders(s)
    PROVE  StockStep
<1>1. job \in [Servers -> Jobs] /\ ~Spend("db") /\ UNCHANGED queueVars /\ api' = api
  BY Basics, NoDbFault DEF ExpireOrders
<1>2. PICK R \in SUBSET Requests : Expire(R) /\ job' = [job EXCEPT ![s] = Expiring(R)]
  BY <1>1 DEF ExpireOrders
<1>3. job'[s].todo = R /\ \A q \in Servers \ {s} : job'[q] = job[q]
  BY <1>1, <1>2 DEF Expiring
<1>4. ServerOwes(R) /\ CallsTrue
  BY <1>1, <1>3 DEF ServerOwes, CallsTrue, Repays
<1>5. GiveBack(R, "EXPIRED") /\ \A r \in R : resv[r] \in {"PENDING", "CONFIRMED"}
  BY <1>2 DEF Expire, Overdue
<1>6. QED
  BY <1>1, <1>4, <1>5, ReleaseStock DEF Released

LEMMA IncrExpiredStock ==
    ASSUME IInv, QueueTypeOK', StatusInv, StockInv, NEW s \in Servers, IncrExpired(s)
    PROVE  StockStep
<1>1. /\ job \in [Servers -> Jobs] /\ QueueTypeOK /\ StoreTypeOK /\ api' = api
      /\ UNCHANGED storeVars
  BY Basics DEF IncrExpired
<1>2. PICK r \in job[s].todo :
          /\ Unchecked(IncrStock(TicketOf[r], Qty[r]))
          /\ job' = [job EXCEPT ![s] = IF @.todo = {r} THEN NoTimer
                                       ELSE Expiring(@.todo \ {r})]
  BY DEF IncrExpired
<1>3. NoTimer.todo = {} /\ Expiring(job[s].todo \ {r}).todo = job[s].todo \ {r}
  BY DEF NoTimer, Expiring
<1>4. job'[s].todo = job[s].todo \ {r} /\ \A q \in Servers \ {s} : job'[q] = job[q]
  BY <1>1, <1>2, <1>3
<1>5. r \in Requests
  BY <1>1 DEF Jobs
<1>6. Steady
  BY <1>1, <1>4 DEF Steady, DebtsShrink, CallsTrue, Repays
<1>7. r \in Owed /\ r \notin Owed'
  <2>1. r \in Owed
    BY <1>5 DEF Owed
  <2>2. \A q \in Servers \ {s} : r \notin job[q].todo
    BY DEF StockInv, DebtInv
  <2>3. \A w \in Workers : r \notin Repays(w)
    BY DEF StockInv, DebtInv
  <2>4. \A q \in Servers : r \notin job'[q].todo
    BY <1>4, <2>2
  <2>5. \A w \in Workers : r \notin Repays(w)'
    BY <1>1, <2>3 DEF Repays
  <2>6. QED
    BY <2>1, <2>4, <2>5 DEF Owed
<1>8. CASE UNCHANGED queueVars
  BY <1>1, <1>6, <1>8, KeptTable, KeptQueue, SteadyStep
<1>9. CASE IncrStock(TicketOf[r], Qty[r])
  BY <1>1, <1>6, <1>7, <1>9, IncrStep
<1>10. QED
  BY <1>2, <1>8, <1>9 DEF Unchecked

LEMMA TimerStockSteps ==
    ASSUME IInv, QueueTypeOK', HoldInv, StatusInv, StockInv, NEW s \in Servers, TimerStep(s)
    PROVE  StockStep
BY EntryStockStep, TransactStock, GiveUpStock, ZeroStockStock, ExpireStock, IncrExpiredStock
   DEF TimerStep, Work

\* A worker step that leaves the table alone and runs the enqueue script, or not.
LEMMA EnqueueOrNot ==
    ASSUME IInv, QueueTypeOK', StatusInv, StockInv, NEW r \in Requests,
           Enqueue(r) \/ UNCHANGED queueVars, UNCHANGED storeVars, Steady
    PROVE  StockStep
BY Basics, EnqueueStock, KeptQueue, KeptTable, SteadyStep

LEMMA OrderTicketStock ==
    ASSUME IInv, QueueTypeOK', StatusInv, StockInv, NEW w \in Workers, NEW r \in Requests,
           OrderTicket(w, r)
    PROVE  StockStep
<1>1. job' = job /\ UNCHANGED storeVars /\ (Enqueue(r) \/ UNCHANGED queueVars)
  BY DEF OrderTicket
<1>2. Call(w, "cold", r, {}) \/ api' = api
  BY DEF OrderTicket
<1>3. Steady
  BY <1>1, <1>2, SteadyCall, SteadySame
<1>4. QED
  BY <1>1, <1>3, EnqueueOrNot

LEMMA ColdEnqueueStock ==
    ASSUME IInv, QueueTypeOK', StatusInv, StockInv, NEW w \in Workers, ColdEnqueue(w)
    PROVE  StockStep
<1>1. PICK r \in Requests : r = api[w].req
  BY InCall DEF ColdEnqueue
<1>2. job' = job /\ UNCHANGED storeVars /\ (Enqueue(r) \/ UNCHANGED queueVars) /\ Return(w)
  BY <1>1 DEF ColdEnqueue
<1>3. Steady
  BY <1>2, SteadyReturn
<1>4. QED
  BY <1>2, <1>3, EnqueueOrNot

LEMMA ColdReadStock ==
    ASSUME IInv, QueueTypeOK', NEW w \in Workers, ColdRead(w) PROVE StockStep
<1>1. /\ QueueTypeOK /\ StoreTypeOK /\ job' = job /\ UNCHANGED storeVars /\ UNCHANGED queueVars
  BY Basics DEF ColdRead
<1>2. PICK r \in Requests : r = api[w].req
  BY InCall DEF ColdRead
<1>3. Steady
  <2>1. CASE Call(w, "init", r, {<<TicketOf[r], avail[TicketOf[r]]>>})
    <3>1. avail' = avail
      BY <1>1 DEF storeVars
    <3>2. \A v \in {<<TicketOf[r], avail[TicketOf[r]]>>} : v[2] = avail'[v[1]]
      BY <3>1
    <3>3. QED
      BY <1>1, <2>1, <3>2, SteadyCall
  <2>2. CASE Return(w)
    BY <1>1, <2>2, SteadyReturn
  <2>3. QED
    BY <1>2, <2>1, <2>2 DEF ColdRead
<1>4. QED
  BY <1>1, <1>3, KeptQueue, KeptTable, SteadyStep

\* initializeStock writes what the row still says, or nothing.
LEMMA ColdInitStock ==
    ASSUME IInv, QueueTypeOK', StatusInv, StockInv, NEW w \in Workers, ColdInit(w) PROVE StockStep
<1>1. /\ QueueTypeOK /\ StoreTypeOK /\ job' = job /\ UNCHANGED storeVars /\ api[w].pc = "init"
      /\ api \in [Workers -> Calls]
  BY Basics DEF ColdInit, IInv, TypeOK
<1>2. PICK r \in Requests : r = api[w].req
  BY <1>1, InCall
<1>3. Call(w, "again", r, {}) \/ Return(w)
  BY <1>2 DEF ColdInit
<1>4. Steady /\ TableKept
  BY <1>1, <1>3, SteadyCall, SteadyReturn, KeptTable
<1>5. CASE UNCHANGED queueVars
  BY <1>1, <1>4, <1>5, KeptQueue, SteadyStep
<1>6. ASSUME NEW v \in api[w].vals, InitializeStock(v[1], v[2]) PROVE StockStep
  <2>1. v[1] \in Tickets
    BY <1>1, <1>6 DEF Calls
  <2>2. PICK t \in Tickets : t = v[1]
    BY <2>1
  <2>3. CASE stock[t] # NoKey
    <3>1. UNCHANGED queueVars
      BY <1>6, <2>2, <2>3 DEF InitializeStock
    <3>2. QED
      BY <1>5, <3>1
  <2>4. CASE stock[t] = NoKey
    <3>1. v[2] = avail[t]
      BY <1>1, <1>6, <2>2, <2>4 DEF StockInv, KeyInv
    <3>2. stream' = stream /\ Acked' = Acked /\ stock' = [stock EXCEPT ![t] = avail[t]]
      BY <1>6, <2>2, <2>4, <3>1 DEF InitializeStock, PutStock, Acked
    <3>3. Prededucted' \subseteq Prededucted
      BY <1>1, <1>4, <3>2, FewerPrededucted DEF TableKept
    <3>4. Loads(t)
      BY <1>4, <2>4, <3>2, <3>3 DEF Loads, TableKept, Steady
    <3>5. QED
      BY <1>4, <3>2, <3>4 DEF StockStep, StockMove, Steady
  <2>5. QED
    BY <2>3, <2>4
<1>7. QED
  BY <1>5, <1>6 DEF ColdInit

LEMMA CancelStock ==
    ASSUME IInv, QueueTypeOK', StatusInv, NEW w \in Workers, NEW r \in Requests, CancelTicket(w, r)
    PROVE  StockStep
<1>1. ~Spend("db") /\ UNCHANGED queueVars /\ job' = job /\ api \in [Workers -> Calls]
  BY NoDbFault DEF CancelTicket, IInv, TypeOK
<1>2. Cancel(r) /\ api' = [api EXCEPT ![w] = [pc |-> "incr", req |-> r, vals |-> {}]]
  BY <1>1 DEF CancelTicket, Call
<1>3. api'[w].pc = "incr" /\ api'[w].req = r /\ \A v \in Workers \ {w} : api'[v] = api[v]
  BY <1>1, <1>2
<1>4. WorkerOwes({r}) /\ CallsTrue
  BY <1>1, <1>3 DEF WorkerOwes, CallsTrue, Repays
<1>5. GiveBack({r}, "CANCELLED") /\ resv[r] \in {"PENDING", "CONFIRMED"}
  BY <1>2 DEF Cancel
<1>6. QED
  BY <1>1, <1>4, <1>5, ReleaseStock DEF Released

LEMMA IncrCancelledStock ==
    ASSUME IInv, QueueTypeOK', StatusInv, StockInv, NEW w \in Workers, IncrCancelled(w)
    PROVE  StockStep
<1>1. /\ QueueTypeOK /\ StoreTypeOK /\ UNCHANGED storeVars /\ job' = job /\ Return(w)
      /\ api[w].pc = "incr"
  BY Basics DEF IncrCancelled
<1>2. PICK r \in Requests : r = api[w].req
  BY <1>1, InCall
<1>3. Steady /\ Repays(w)' = {}
  BY <1>1, SteadyReturn
<1>4. r \in Owed /\ r \notin Owed'
  <2>1. r \in Repays(w)
    BY <1>1, <1>2 DEF Repays
  <2>2. r \in Owed
    BY <2>1 DEF Owed
  <2>3. \A s \in Servers : r \notin job'[s].todo
    BY <1>1, <2>1 DEF StockInv, DebtInv
  <2>4. \A v \in Workers \ {w} : r \notin Repays(v)
    BY <2>1 DEF StockInv, DebtInv
  <2>5. \A v \in Workers : r \notin Repays(v)'
    BY <1>3, <2>4 DEF Steady, DebtsShrink
  <2>6. QED
    BY <2>2, <2>3, <2>5 DEF Owed
<1>5. CASE UNCHANGED queueVars
  BY <1>1, <1>3, <1>5, KeptTable, KeptQueue, SteadyStep
<1>6. CASE IncrStock(TicketOf[r], Qty[r])
  BY <1>1, <1>3, <1>4, <1>6, IncrStep
<1>7. QED
  BY <1>2, <1>5, <1>6 DEF IncrCancelled, Unchecked

LEMMA DeleteStock ==
    ASSUME IInv, QueueTypeOK', NEW w \in Workers, NEW t \in Tickets, AdminDeleteTicket(w, t)
    PROVE  StockStep
<1>1. /\ QueueTypeOK /\ StoreTypeOK /\ UNCHANGED queueVars /\ job' = job /\ TakeOffline({t})
      /\ Call(w, "refill", NoRequest, {<<t, 0>>})
  BY Basics DEF AdminDeleteTicket
<1>2. \A v \in {<<t, 0>>} : v[2] = 0
  OBVIOUS
<1>3. Steady
  BY <1>1, <1>2, SteadyCall
<1>4. QED
  BY <1>1, <1>3, KeptQueue, KeptTable, SteadyStep

LEMMA RefillStock ==
    ASSUME IInv, QueueTypeOK', StockInv, NEW w \in Workers, Refill(w) PROVE StockStep
<1>1. /\ QueueTypeOK /\ StoreTypeOK /\ UNCHANGED storeVars /\ job' = job /\ api[w].pc = "refill"
      /\ api \in [Workers -> Calls]
  BY Basics DEF Refill, IInv, TypeOK
<1>2. PICK v \in api[w].vals :
          /\ Unchecked(PutStock(v[1], v[2]))
          /\ IF api[w].vals = {v} THEN Return(w)
             ELSE Call(w, "refill", NoRequest, api[w].vals \ {v})
  BY DEF Refill
<1>3. \A u \in api[w].vals : u[1] \in Tickets /\ u[2] = 0
  BY <1>1 DEF Calls, StockInv, KeyInv
<1>4. Steady /\ TableKept
  BY <1>1, <1>2, <1>3, SteadyCall, SteadyReturn, KeptTable
<1>5. CASE UNCHANGED queueVars
  BY <1>1, <1>4, <1>5, KeptQueue, SteadyStep
<1>6. CASE PutStock(v[1], v[2])
  <2>1. PICK t \in Tickets : t = v[1]
    BY <1>3
  <2>2. PutStock(t, 0)
    BY <1>3, <1>6, <2>1
  <2>3. QED
    BY <1>4, <2>2, ZeroStep
<1>7. QED
  BY <1>2, <1>5, <1>6 DEF Unchecked

LEMMA WorkerStockSteps ==
    ASSUME Unwarmed, IInv, QueueTypeOK', StatusInv, StockInv, NEW w \in Workers, WorkerStep(w)
    PROVE  StockStep
<1>1. ~ViewTickets(w) /\ \A t \in Tickets : ~AdminAddTicket(w, t)
  BY DEF Unwarmed, ViewTickets, AdminAddTicket
<1>2. QED
  BY <1>1, OrderTicketStock, ColdEnqueueStock, ColdReadStock, ColdInitStock, CancelStock,
     IncrCancelledStock, DeleteStock, RefillStock DEF WorkerStep

LEMMA StockSteps ==
    ASSUME Unwarmed, IInv, QueueTypeOK', HoldInv, StatusInv, StockInv, [Next]_vars
    PROVE  StockStep
<1>1. QueueTypeOK /\ StoreTypeOK /\ ~ForgetStatus /\ job \in [Servers -> Jobs] /\ api \in [Workers -> Calls]
  BY Basics, NoDbFault DEF ForgetStatus, IInv, TypeOK
<1>2. ASSUME NEW s \in Servers, Crash(s) PROVE StockStep
  <2>1. UNCHANGED queueVars /\ UNCHANGED storeVars
    BY <1>2 DEF Crash
  <2>2. QueueKept /\ TableKept
    BY <1>1, <2>1, KeptQueue, KeptTable
  <2>3. NoTimer.todo = {} /\ NoCall.pc = "idle"
    BY DEF NoTimer, NoCall
  <2>4. \A q \in Servers : job'[q].todo \subseteq job[q].todo
    BY <1>1, <1>2, <2>3 DEF Crash
  <2>5. \A w \in Workers : api'[w] = api[w] \/ api'[w].pc = "idle"
    BY <1>2, <2>3 DEF Crash
  <2>6. Steady
    BY <2>4, <2>5 DEF Steady, DebtsShrink, CallsTrue, Repays
  <2>7. QED
    BY <2>2, <2>6, SteadyStep
<1>3. ASSUME Elapse PROVE StockStep
  <2>1. UNCHANGED queueVars /\ job' = job /\ api' = api
    BY <1>3 DEF Elapse, procVars
  <2>2. QueueKept
    BY <1>1, <2>1, KeptQueue
  <2>3. TableKept
    BY <1>1, <1>3, KeptTable DEF Elapse
  <2>4. QED
    BY <2>1, <2>2, <2>3, SteadySame, SteadyStep
<1>4. ASSUME UNCHANGED vars PROVE StockStep
  <2>1. UNCHANGED queueVars /\ UNCHANGED storeVars /\ job' = job /\ api' = api
    BY <1>4 DEF vars, procVars
  <2>2. QED
    BY <1>1, <2>1, KeptQueue, KeptTable, SteadySame, SteadyStep
<1>5. QED
  BY <1>1, <1>2, <1>3, <1>4, TimerStockSteps, WorkerStockSteps DEF Next

LEMMA SpecStockInv == ASSUME Calm, Unwarmed PROVE Spec => []StockInv
<1>1. ASSUME Init PROVE StockInv
  <2>1. NoCall.pc = "idle"
    BY DEF NoCall
  <2>2. /\ Entries = {} /\ \A s \in Servers : job[s].todo = {}
        /\ \A w \in Workers : api[w].pc = "idle" /\ Repays(w) = {}
        /\ \A t \in Tickets : stock[t] = NoKey
    BY <1>1, <2>1, InitIdle DEF Init, QueueInit, Repays
  <2>3. DebtInv
    BY <2>2 DEF DebtInv, Owed
  <2>4. QED
    BY <2>2, <2>3 DEF StockInv, KeyInv, RoomInv
<1>2. ASSUME IInv, HoldInv, StatusInv, StockInv, [Next]_vars PROVE StockInv'
  <2>1. IInv' /\ ReleasedStay
    BY <1>2, NextIInv, RowsStayReleased, Basics
  <2>2. QueueTypeOK'
    BY <2>1 DEF IInv, TypeOK
  <2>3. QED
    BY <1>2, <2>1, <2>2, StockSteps, StockKept
<1>3. ~SlowConsumers
  BY DEF Calm
<1>4. QED
  BY <1>1, <1>2, <1>3, SpecIInv, SpecHoldInv, SpecStatusInv, PTL DEF Spec

\* The cached stock promises no more than the table will have left after the
\* orders still in the stream, while MySQL answers, no consumer is slow, no
\* status key expires and keys are warmed by the cold path alone; whatever
\* servers crash and commands of Redis fail.
THEOREM StockIsNeverTooHigh == ASSUME Calm, Unwarmed PROVE Spec => []StockRemembersQueue
<1>1. ASSUME IInv, StockInv PROVE StockRemembersQueue
  <2>1. SUFFICES ASSUME NEW t \in Tickets, stock[t] # NoKey
                 PROVE  stock[t] + Cardinality(Units(Prededucted, t)) <= avail[t]
    BY DEF StockRemembersQueue
  <2>2. Prededucted \in SUBSET Claims /\ Claims \in SUBSET Requests
    BY <1>1, ClaimsType DEF Claims
  <2>3. Cardinality(Units(Prededucted, t)) <= Load(t)
    BY <2>2, UnitsMonotone DEF Load
  <2>4. Cardinality(Units(Prededucted, t)) \in Nat
    BY <2>2, UnitsFinite
  <2>5. stock[t] + Load(t) <= avail[t]
    BY <1>1, <2>1 DEF StockInv, RoomInv
  <2>6. QED
    BY <1>1, <2>1, <2>3, <2>4, <2>5, ClaimsType
<1>2. QED
  BY <1>1, SpecIInv, SpecStockInv, PTL
=============================================================================
