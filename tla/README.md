# A verification of the HyperTicket backend

HyperTicket is a ticket shop: a C++ server (`src/backend`) behind a TCP protocol, MySQL
for the tables, Redis for stock counters, an order queue and sessions, and payment
providers. Several server processes may run beside each other. This directory holds
TLA+ modules that are translated from the source, TLC configurations that check them on
small instances, and theorems that TLAPS proves for all values of their constants.

Running it, from this directory:

    tlc -workers 2 -config PaymentsSafe.cfg MCPayments      # any run listed below
    tlapm PaymentsProofs.tla                                # any *Proofs.tla

Paths below are relative to `src/backend` unless they start with `src/` or `docs/`.
`PROJECT.json` maps every definition to the lines it stands for.

## 1. Inventory

Every server process has worker threads (one handler call each, on a pooled MySQL
connection), one timer thread (`ScheduledThreadPool`) that runs all periodic jobs one
after the other (`Server/src/ser.cpp:456-480`), and reactor threads. Processes share
nothing but MySQL and Redis.

| Part | State it keeps | Operations | Talks to | What is hard, and what must hold |
|---|---|---|---|---|
| Ticket store (`Domain/include/repository/{Ticket,Reservation,Seat}Repository.hpp`, `db/init.sql`) | `tickets.available_seats/status`, `reservations.status/expire_at/order_no`, `seats.reservation_id` | the transactions of ordering, cancelling, expiring, paying, the admin writes | called by every handler and job | transactions of all processes interleave; admissions add up, seats and live orders match, no oversell |
| Order queue and stock keys (`Server/src/RedisOrderQueue.cpp`, `RedisStockCache.cpp`) | `stock:<id>`, `order:req:<id>`, a stream with a consumer group, dead letters | enqueue, initializeStock, consume, acknowledge, terminalFailure, setStatus, incr, set | handlers produce, timer threads consume | scripts are atomic, everything else is not; redelivery, crash between COMMIT and XACK, lost replies |
| Asynchronous order path (`Domain/src/service/TicketServiceTxn.cpp`, parts of `TicketService.cpp`, `TicketServiceAdmin.cpp`) | what a thread carries between two commands | orderTicket, processQueuedOrders, cancelTicket, expirePendingOrders, refreshTicketStatus, viewTickets, adminAddTicket, adminDeleteTicket | store and queue | no accepted order lost or executed twice, stock compensated once, FAILED is never said of an order that exists, every answer arrives |
| Payments and refunds (`TicketServicePay.cpp`, `PaymentRepository.hpp`) | `payments`, `refunds`: state, `action_token`, `next_action_at`, attempts | payOrder, queryPayment, settleDuePayments, refund part of cancelTicket | store, provider | a provider call without lock between two transactions; leases, retries, late answers, crash after the charge; money and order agree |
| Payment providers (`Server/src/MockPaymentProvider.cpp`, `SimulatedPaymentProvider.cpp`) | none: a hash of the payment's number says whether it is paid | create, query, close, refund | called by the settlement | answers get lost; a close is answered CLOSED whether or not the payment was paid |
| Sessions (`Server/include/SessionManager.hpp`, `Server/src/RedisSessionManager.cpp`) | token to owner, owner to tokens (in memory: one map; in Redis: `session:<token>` and an index set per owner) | create, createAdmin, resolve, remove, removeAllForUser, removeAllForAdmin, purgeExpired | login, registration, reset, every request with a token | the two keys of a session are written, renewed and removed by separate commands, each of which may fail or lose its reply; a client never holds a session that a revocation does not find |
| Verification codes, password reset, login throttling (`Domain/src/service/TicketServiceAuth.cpp`, `AuthChallengeRepository.hpp`, `AuthSecurityRepository.hpp`) | `auth_challenges`, `auth_throttles`, password rows | send, deliver, verify, register, reset, bind a contact, login, change the administrator's password, blacklist | sessions, the mail provider | check, comparison and record are separate statements; a code is tried a limited number of times and pays for one change, a reset ends older sessions and stays; the handlers do not look at every result |
| Sale reminders, catalogue (`TicketServiceCatalog.cpp`, `CatalogRepository.hpp`) | `sale_reminders.status, attempt_count, next_attempt_at` | ask, cancel; read due rows, claim, send, mark | timer threads of all servers, mail provider | two dispatchers, a claim held while the row is renewed or cancelled, a server that stops half way, a mail whose answer is lost; otherwise one mail for each time it was asked for |
| Connection pools (`SqlConnPool/src/ConnectionPool.cpp`, `Server/src/RedisConnPool.cpp`) | idle connections, lost slots, two counters | get with timeout, ping, rebuild, return, health check | every handler and job | a slot belongs to one thread whatever fails to connect; no thread sleeps beside a slot it could have |
| Worker and scheduler threads (`FixedThreadPool`, `ScheduledThreadPool`) | bounded queue of tasks, timer set, stop flags | put, take, stop; add job, poll, run, remove, stop | loops put tasks, jobs run the periodic work | full queue, stop while a job runs, start before the flag is set |
| Network library and `main` (`Inet`, `Server/src/ser.cpp`) | connections, channels of the poller, pending functors, input and output buffers, `connCount` | accept, read, parse a line, write, close, destroy, queue functors, wake up, quit; timers; an outgoing connection with retries | workers queue functors, loops put tasks | functors of other threads, partial writes, four ways for a connection to end, shutdown in the middle of them |
| Logging (`ChronoLite`) | current and full buffers, files | append, write out, flush, stop, roll | programs that install it (`Client/src/client.cpp:407`, `Admin/src/admin.cpp:216`) | overflow by three policies while the writer and a flush are at work |
| Mail and code providers, rate limiter, metrics, health, schema, protocol, configuration, clients, WebSocket bridge, frontends, tools | no state the shop's promises depend on | | | not modelled |

The hazards of this code that a test would hardly reach are listed with their lines in
`PROJECT.json`; each names the properties that cover it, or says why none does.

## 2. Modules

| Module | Stands for |
|---|---|
| `OrderRequests` | the data of purchase requests: ticket, quantity 1..6, seats; what validation guarantees (`RequestsAssumption`) |
| `Allocation` | abstract: an order is none, held, paid or released; no ticket beyond its total, no seat twice, no way back |
| `TicketStore` | the three tables and every transaction that writes them; implements `Allocation` |
| `RedisQueue` | the Redis keys, the stream and its consumer group, one action per command or script |
| `OrderPipeline` | the threads of all servers over `TicketStore` and `RedisQueue`, one step per transaction, statement or command; implements `TicketStore` |
| `Purchase` | abstract: order and money change together; extends `Allocation` by payments that are asked, kept, owed, returned or void; a second payment for an order, and a cancellation that leaves the payment kept, take one of its `slips` each |
| `Payments` | payments, refunds, provider and settling timer threads over `TicketStore`; implements `Purchase` |
| `Sessions` | the session store behind `ISessionManager`, in memory or in Redis, one action per command |
| `Challenges` | the tables of codes and throttles, one action per statement |
| `Reminders` | the reminder rows and the dispatch by the timer threads of all servers |
| `Accounts` | the account requests, as threads over `Sessions`, `Challenges` and `Reminders`: one step per transaction, statement or command |
| `EventLoops` | a loop: poll, handlers, functors, and the wake-up by other threads |
| `WorkerPool` | the bounded queue of tasks and the workers' hands |
| `Connections` | acceptor, connections and the callbacks of `main` on `EventLoops` and `WorkerPool`, with the shutdown |
| `Pools` | the MySQL and the Redis pool, with the health check |
| `LoopTimers`, `Scheduler` | the timers of a loop with their timerfd; the scheduler's thread and its jobs |
| `Connector` | an outgoing connection: attempts, delays, reconnection |
| `AsyncLog` | appenders, buffers, the writer, flush, stop, rolling files |
| `Runtime` | the composition of `Connections`, `Pools`, `LoopTimers`, `Scheduler`, `Connector` and `AsyncLog` |
| `MCTicketStore`, `MCOrderPipeline`, `MCPayments`, `MCAccounts`, `MCRuntime` | the small instances |
| `TicketStoreProofs`, `OrderPipelineProofs`, `PaymentsProofs`, `AccountsProofs`, `ConnectionsProofs`, `PartsProofs`, `LogProofs`, `RuntimeProofs` | the theorems |

How state and actions correspond to the code:

* **TicketStore.** `avail`, `shelf`, `resv`, `due`, `numbered`, `seatOf` are the columns the
  code decides on. Each transaction locks the rows it decides on (`SELECT ... FOR UPDATE`,
  or the row its `UPDATE` changes) and keeps the locks until COMMIT, under READ-COMMITTED
  (`src/docker/mysql/my.cnf:69`); so a committed transaction is one step: `Reserve` is the
  transaction of `processQueuedOrders`, `Cancel` of `cancelTicket`, `Expire(R)` of one batch
  of `expirePendingOrders` (all overdue orders, at most `ExpireLimit`; 100 in the code),
  `Confirm` the guarded UPDATE of `ReservationRepository::pay`. `Number` is `setOrderNo`, a
  statement of its own. `Deadline` is time passing `expire_at`.
* **RedisQueue.** A command or Lua script runs alone in Redis, so each is one action:
  `Enqueue` (DECRBY, XADD and HSET in one script), `InitializeStock` (SETNX), `Deliver`
  (XAUTOCLAIM or XREADGROUP), `Acknowledge`, `TerminalFailure`, `SetStatus`, `IncrStock`,
  `PutStock`. `tries` is the delivery counter, which saturates at `MaxTries`.
* **OrderPipeline.** `job[s]` is the program counter of the timer thread of server `s` inside
  `processQueuedOrders` or the give-back loop of `expirePendingOrders`; `api[w]` that of a
  worker inside a handler with more than one step, with what it carries (the row
  `viewTickets` read before it SETs the stock, the cold path of `orderTicket`). `Poll`,
  `FindOrder`, `Transact`, `Recheck`, `CountTries`, `GiveUp`, `ZeroStock`, `NumberOrder`,
  `PublishStatus`, `AckOrder` are the stretches of the loop body between two commands.
  `Crash(s)` forgets everything a process carried; its entries stay pending. `budget`
  bounds how many faults of each kind may still happen ("db", "redis", "crash", "ttl").
* **Payments.** `pay[k]` and `refund[k]` are the rows by idempotency key; a payment is
  SUCCEEDED at most once, so one refund per key is enough. `settler[s]` is the timer thread
  of server `s` inside `settleDuePayments`: the lists it read (`todo`, `refunds`), the payment
  in its hands, the state it had when it was leased (`expected`) and the provider's `answer`.
  `TakePayment` is the first transaction, `CallProvider` the call without locks, `Settle` the
  second transaction; `TakeRefund`, `CallRefund`, `SettleRefund` the same for refunds.
  `account` is what the provider will say of a payment: `Answer` is `createPayment`,
  `queryPayment` and `closePayment` of the two providers in `Server/src`, for which a payment
  is refused, paid or failed from the start (a hash of its number decides); "open" stands for
  a channel as `docs/PAYMENT_PROVIDERS.md` describes it, which waits for its customer
  (`Decide`). `repaid` are the payments whose money was returned. An `action_token` is the name of the
  server that holds it: it is fresh for every lease, and one server has one timer thread.
  `next_action_at` is the flag `ready`: false until a delay or a lease has run out, which
  `Elapse` does at any time, for a lease in use only at the price of a "slow" fault.
* **Accounts.** `request[s]` is a request on a worker thread: operation, program counter, owner,
  token, code, and what it read (`row`, the `list` of an index, how many `failures` were on
  record when it was let through). `Resolve` and `Renew` are `resolve` (GETEX, then EXPIRE of
  the index), `SetSession`, `IndexSession`, `UndoSession`, `TimeIndex` are `create`, `ReadIndex`,
  `RemoveListed`, `RemoveIndex` are `removeAllForUser`. `Login`, `ReadRow`, `LoginFails`, `Rehash`,
  `Finish` are login: is it blocked (`Check`), read the row, record the failure or replace an
  old hash, create, clear. `Statement` is a write whose result the handler ignores (the
  failure record, the new hash, the clearing, the removal of a code; `WrongCode`, which
  counts a wrong code). A request whose revocation was broken off ends as "unrevoked": the
  client is answered OK all the same. A lost reply breaks the connection, so the remaining commands of the
  operation do nothing; a Redis that is out of memory refuses SETEX and SADD. `SetPassword`
  is what a reset or a change commits. `old`, `stale`, `changed`, `effects`, `due`, `wrong`,
  `spent`, `unlisted` are history the properties refer to.
* **Reminders.** `batch[d]` are the rows the dispatch of server `d` has read, `sending[d]` the one
  it has claimed; `Conclude` is the provider's answer with the unconditional UPDATE after it.
  `asked`, `delivered` and `unheard` count requests, mails the mail server took, and those of
  them whose answer was lost, which the dispatcher takes for not sent.
* **EventLoops, Connections.** `at[l]` says what the thread of a loop is doing, `active` which
  channels of this round are still to be handled, `pending` and `batch` are `pendingFunctors_`
  before and after the swap. `conn[c]` is a `TcpConnection` with its channel: `events` and
  `registered` are what the poller knows, `listed` is its place in the server's map, `counted`
  its share of `connCount`. `HandleAccept`, `HandleRead`, `HandleLine`, `HandleWrite` are the
  callbacks; `RunEstablished`, `RunForceClose`, `RunSend`, `RunRemove`, `RunRelease`,
  `RunDestroyed` the functors. `EmptyLine` drops a line without an answer
  (`ser.cpp:329`); `LineThrows` and `TaskThrows` are exceptions that leave the I/O thread or a
  worker (`ser.cpp:358-364`, `:404`) and end the process (`terminated`). `asked` and `took`
  count the requests parsed and the messages `sendInLoop` accepted, `out` and `got` hold pieces of messages. `aborted` records a failed
  assertion. `Signal`, `DestroyConnection`, `QuitIo`, `StopWorkers` are the end of `main`.
* **Pools.** `user[u]` is where a thread is in `GetConnection` or the return, `checker` where the
  health check is; `idle`, `lost`, `freeConn`, `curConn` are the members.
* **LoopTimers, Scheduler, Connector, AsyncLog.** One action per callback, queued functor or
  critical section; `life` of a timer and `job` of a job tell when the object is deleted.

Faults that are modelled: a failed statement, acquisition or BEGIN, also a statement that
fails in a transaction which goes on because the code takes it for an empty result; a COMMIT or Redis command
that happens although its reply is lost, and one that does not; an exception of the provider
before or after it acted; the death of a server between any two steps; a consumer slower than
`claim_idle_ms` (30 s, while a lock wait of MySQL may take 50 s) and a provider call slower
than its lease (30 s); an expired status key; a failed, unanswered or refused command of the
session store; statements and commits on codes and throttles whose results are ignored; a
mail whose answer is lost; a server that stops during a dispatch; sockets that take part of a message,
that are closed or reset; no descriptor left for accept; a signal; a connection of a pool that
breaks and cannot be rebuilt; refused and broken outgoing connections; log overflow.

Abstractions: users, prices, currencies, event and audit rows, texts and payloads are left
out; sold seats are the seats a request named; the list cache is a nondeterministic miss; in
`Payments` a failed statement whose result the code looks at (an UPDATE, an INSERT, a
`lockById`) counts as the failed transaction that follows ("db"), and one that the code takes
for an empty result is a fault of its own ("statement": `findActiveByResv`,
`lockSucceededByResv`, the two lists, `ReservationRepository::pay`); LIMIT 200 of the due lists
is not reached; at most one provider per payment. In `Accounts` throttles by
address and device and the counters per destination are left out (they only refuse to send),
the daily limit is the cooldown with a longer period, the time to live of an index key is kept
as the set of sessions renewed `late`r than it. In `Connections` a message has two pieces and a
client sends whole lines, some of them empty, invalid or too long; in `AsyncLog` buffer sizes
count messages.

## 3. Runs

All runs use two or three orders: two of them compete for the same admissions or seat, which
is what the properties need to be violated (a third actor only repeats what the second does);
bounds are constants of the modules or of the cfg.

| Run | Instance | Question |
|---|---|---|
| `MCTicketStore` | four orders, tickets of 3 and 1 admissions, two seats, one order naming a seat of the wrong ticket, ExpireLimit 1 | `StoreTypeOK`, `Conservation`, `SeatsMatch`, and that the tables implement `Allocation` |
| `PipelineFaults` | two servers, slow consumers, a database fault, an expired status key, settled payments, list refills and admin writes; an order of two seats and one of a seat among them | no accepted order lost (`AckedIsResolved`), none given up without a cause but for one per failed statement (`RefusedForCause`), what a thread carries stays true and ORDER_QUERY names no state an order never was in (`CarriedStateIsCurrent`), the threads implement `TicketStore` (`StoreSpec`) |
| `PipelineExclusive` | two servers, fast consumers, a crash and a lost Redis command or reply, cancel, expiry, payment, deletion, automatic closing of sales | `CompensatedOnce`, `FailedHasNoOrder`, `StockRemembersQueue` |
| `PipelineLive` | one server, a crash and a database fault, fair timer thread | `EntriesSettle`, `AnswerArrives`, `OverdueIsReclaimed` |
| `PaymentsSafe` | one order, two idempotency keys, two servers, one fault of each kind (`UnnoticedApart`: an unnoticed failure meets neither a crash nor a slow call), two refund attempts | type, `OnePaymentPerOrder`, `SucceededIsConfirmed`, `RefundsAreTrue`, `OneCallPerLease`, `NoChargeWrittenOff`, and that the settlement implements `Purchase` |
| `PaymentsLive` | one order, two keys, one server, a crash, a database fault, an unnoticed failure, two provider faults, no slow call | `PaymentsSettle` |
| `Accounts` | two users, one registered, an administrator, two or three requests, three tokens, two codes, two tries and two failures allowed, one fault; two servers for reminders; each seed offers the operations that meet on the same rows and keys | `SessionsIndexed`, `RevocationComplete`, `ResetsStick`, `CodeSpentOnce`, `GrantHasItsEffect`, `LockedOutAfterFailures`, `MailedOncePerRequest` and the types |
| `Runtime` | none, one or two I/O loops, one or two connections and workers, a queue of one task, a limit of one connection; two slots for three threads; two timers; two repeating jobs and a one-shot one; delays of 1 to 3; two log appenders of two messages | `OutputInOrder`, `ConnectionsCounted`, `NoLostWakeup`, `AssertionsHold`, `SlotsConserved`, `TimersKept`, `LogInOrder`, `RequestsAnswered` and the types |
| `PipelineListRefill`, `PipelineLostCommit` | smallest instance that shows it | `StockRemembersQueue`, `FailedHasNoOrder`: violated, section 5 |
| `PaymentsUnrefunded` | the instance of `PaymentsSafe` | `PaidCancelIsRefunded`: violated, section 5 |
| `AccountsUnrevoked` | the instance of `Accounts` | `ResetEndsSessions`: violated, section 5 |

Every property of a passing run has a mutant in `PROJECT.json`: a definition that a plausible
bug would change (a dropped guard, a swapped order, a limit off by one) and under which TLC
finds the property violated.

Why the bounds are enough. `MaxTries = 2`: below, at and beyond the limit all happen (the
code's limit is configurable). One fault of each kind next to two servers is enough for a
lost answer followed by a takeover by the other server and the late return of the first; the
fault budgets are a constant, and the proofs hold for any. Two keys are the least that lets
a second payment race the first one's settlement, a refund and a renewed purchase coexist; the
keys and the servers are symmetric and the run uses that (no liveness is checked there).
In `PipelineFaults` one order wants two seats and the other one of them, with admissions for
both: the shared seat alone may refuse an order, and a refusal for want of admissions has to
come from a failed statement.

`Accounts`: a race needs two requests on one row or key, and a third that profits from it; one
user to be registered, one registered and one administrator are the three kinds of owner.
Seeds choose the backend, whether hashes are of the old format, and which operations and
expiries clients may see together, so that each group of operations meets in every order
without multiplying with groups that touch other rows. `Runtime`: its parts share no variables
(what crosses a border, a task or a functor, is in `Connections`), therefore a behaviour moves
one part, and an invariant of all is violated only by one of them. The bounds (a queue of one
task, a limit of one connection, one full buffer) are reached in every instance; two
connections on two loops, three threads for two slots and a timer that cancels and adds
another are the least that make them compete.

`CHECK_DEADLOCK FALSE` everywhere: when all requests are settled and the budgets are spent the
instance has nothing left to do, as the program has when no client asks.

Fairness. `PipelineLive`: the timer thread of a server that is up keeps executing (weak
fairness of `Work`), and `ScheduledThreadPool` runs its jobs alternately, so a poll or an
expiry that is possible again and again happens (strong fairness); an entry left pending
becomes idle and is claimed. `PaymentsLive`: weak fairness of the settling thread, of time
(`Elapse`, `TimePasses`) and of the expiry job. Nothing is assumed of customers, of the
channel's decision (`Decide`) or of clients that cancel or ask again: a payment nobody pays
is closed because its order expires. Faults are finite in every run; a database that is down
for ever makes no progress. `Runtime` (`NetFairness`): every loop and every worker whose next
step is possible takes it, which is what a thread does; nothing is assumed of clients,
sockets that take nothing any more or signals, and `RequestsAnswered` ends where the
connection goes down, the shutdown begins, or an uncaught exception has ended the process.

## 4. Proofs

For every finite set of requests, tickets, seats, sessions, codes, connections, loops, slots,
timers and so on, every number of servers and workers, every limit and every number of
faults. The assumptions are the named ASSUMEs of the modules (`RequestsAssumption`,
`ExpireLimitAssumption`, `MaxTriesAssumption`, `PipelineAssumption`, `PaymentsAssumption`,
`OwnersAssumption`, `ChallengesAssumption`, `RemindersAssumption`, `AccountsAssumption`,
`SeedsAssumption`, `ConnectionsAssumption`, `NetSeedsAssumption`, `LoopsAssumption`,
`CapacityAssumption`, `SlotsAssumption`, `TimersAssumption`, `JobsAssumption`, `DelayAssumption`, `LogAssumption`,
`RuntimeAssumption`), which TLC
evaluates on the instances. Those on seeds say what the tables, stores and queues may hold at
the start: rows of the right type, and no code without a subject.

* `TicketStoreProofs`: `StoreTypeCorrect`, `AdmissionsConserved`, `SeatsMatchOrders`,
  `StoreImplementsAllocation`. An order is counted by its set `Units` of admissions, so that
  sums become cardinalities; `UnitsDisjoint` and `UnitsOfOne` carry the arithmetic. Refinement
  uses `StoreInv`, the conjunction of the other three: `Take` of the abstraction compares with
  the total, the code with `available_seats`, and only `Conservation` makes them the same.
* `OrderPipelineProofs`: the inductive invariant is `TypeOK /\ CarriedStateIsCurrent /\
  AckedIsResolved`. `AckedIsResolved` (what left the pending list is in the database or among
  the dead letters) is not inductive alone: a thread acknowledges on the strength of what it
  found several steps ago, so the invariant has to say that the entry it holds was delivered
  and that the order it found or committed is still there. The state it read of the order may be
  out of date when it is published (cancelled or paid meanwhile) but is one the order has been
  in (`Past`), and so is what `ORDER_QUERY` names (`AnswerIsPast`): orders only move forward
  (`PastStays`), whoever moves them. One lemma per action shows what
  the step keeps and that it is a transaction of `TicketStore` or a stutter; from that follow
  `PipelineImplementsStore` and, with the theorems above, `PipelineConserves`,
  `PipelineSeatsMatch` and `PipelineImplementsAllocation`.
  `OrdersRefusedForCause` is proved in three layers. `TriesInv` (`LateLetters`): who is about to
  give up for an infrastructure error has counted enough deliveries. `ShelvedInv`: the ticket
  of an entry, and of whoever holds one, exists, so that TICKET_NOT_FOUND is never founded.
  `VerdictInv` keeps the account: the orders given up without a cause (`Misjudged`), the timers
  that are about to do so, and the database faults still to come are together no more than the
  faults of the start. It rests on two facts: a cause that was there when the transaction
  refused the order is there for good (`CausesStay`: a sale that ended stays ended, and rows that
  were placed stay placed), and a transaction without a failed statement refuses for a cause
  (`OutcomeFounded`). `QueuedOrdersAreUndecided` is the safety part of
  `AnswerArrives`: as long as no Redis command is lost, a request said to be QUEUED has an
  entry that nobody is about to acknowledge (`AwaitInv`), with slow consumers, crashes and
  expired keys included. The other three are layered, each invariant on the one
  before, and hold under named premises, since the code breaks them otherwise:
  `StockIsGivenBackOnce` needs `~SlowConsumers` and `HoldInv` (an entry is in one hand, pending
  until its holder settles it, and a dead one is acknowledged). `FailedOrdersAreNone` needs
  `Calm` (and neither database faults nor expired status keys; `PipelineLostCommit` shows what
  happens with the former) and `StatusInv`: a request has one entry, so what its holder did
  not find is not there. `StockIsNeverTooHigh` needs `Unwarmed` besides (no list refill and no
  added ticket; `PipelineListRefill` shows why) and `StockInv`: stock, orders not yet in the
  table and released orders not yet given back (`Claims`) together fit into
  `available_seats`, a released order is owed by one thread, and a key that does not exist has
  no orders. These are the premises of the run `PipelineExclusive`, for every number of
  servers, workers, requests, crashes and lost Redis commands.
* `PaymentsProofs`: type correctness first (`PaymentTypeCorrect`, one lemma per action, and with
  it that each step is a step of `TicketStore`). Then each action is classified by what it does
  to orders and payments together (`OrderAndMoney`: nothing, asks, goes on, pays, repays,
  withdraws, forgets, lapses, reserves). `OnePaymentPerOrder` and `SucceededIsConfirmed` need
  each other: no order is paid twice because `Confirm` wants a PENDING one, which has no
  SUCCEEDED payment, and cancelling a paid order leaves no other SUCCEEDED payment because
  there is one per order. A second payment under way (`OneLive`) and a cancellation that keeps
  its payment (`Forgets`) cost a failed statement: each such step lowers `budget["statement"]`
  (`Slips`), which no step raises (`NextSlips`); so both are excluded as long as
  `NothingOverlooked`, and the other halves hold with any number of such failures.
  `NoDoublePayment`, `ConfirmedIsPaid` and `PaymentsImplementPurchase` (with `StoreInv`; the
  `slips` of `Purchase` are that budget) follow from the classification.
  `RefundsStayHonest` is inductive over it: debts stay debts, a server that holds a
  refund holds a debt, and a debt stays on the list of refunds to send until `MaxAttempts`
  answers were counted (the part of `PaymentsSettle` about refunds that needs no fairness).
  `NoMoneyIsLost` needs `ChargesInv`: a server about to close a payment, or that carries the
  answer CLOSED, has seen its order over (`Over`), which is for good, and one that carries
  FAILED for a PROCESSING payment has it from a provider that does not change its mind
  (`Founded`, `VerdictStays`). What the theorem allows is what both providers do: a PROCESSING
  payment that is paid while its order expires or is cancelled is closed without a refund. `LeasesExclude` needs `LeaseInv`: while no call is slow, a row in hand
  (`InHand`) is not due, so that nobody else can claim it, or a payment that was closed with
  its order meanwhile.

* `AccountsProofs`: `TypeInv` joins the types with what a request carries at each point of its
  handler (`Fits`). Steps are classified by what they do to the store (`StoreChanges`), to
  codes (`CodeChanges`), to throttles (`ThrottleChanges`) and to reminders, and each property
  has an invariant over the classes: `CodesCounted` for `CodesAreSpentOnce` and
  `GrantsHaveTheirEffect` (a code is counted when it is marked, and marked before it is used;
  the wrong answers are the attempts of the row and those whose count a fault swallowed);
  `FailuresCounted` for `LocksHoldAttemptsBack` (a row that counts as many failures as the limit
  is locked, and a request is let through by the query, or by its failure and then with 0
  failures seen: with `max_failures` 1 the first failure starts the window and does not lock,
  so the theorem asks for more than 1); `MailsAccounted` for `RemindersAreMailedOnce` (mails
  sent, being sent and still waiting together are no more than were asked for and `unheard`); `ResetInv` for
  `ResetsAreKept` (an account with a new password is not of the old format, so only a request
  that had read the row before can replace a hash). `SessionsInv` carries `SessionsAreIndexed`
  and `RevocationsAreComplete`: every told token is listed (`ToldListed`), and a request in the
  middle of its commands relies on something that the commands of all others preserve
  (`RequestHolds`: the session it creates is listed before it is answered; each session open
  when the password was written is listed, then gone or in the list that was read, then gone).
  A request whose revocation is broken off leaves this chain for the answer "unrevoked"; an
  administrator's sessions are in it only while no command failed, since `createAdmin` ignores
  the reply of SADD (`Sound`).
* `ConnectionsProofs`: `NetCore` says how a connection's state, its channel, the
  map of the server and the functors queued for it go together: "established" and "remove" are
  queued at most once, a channel is in the poller exactly between them, and the connections
  counted are those open, as a cardinality. `ConnectionsAreCounted` and `NetAssertionsHold`
  follow; `NoWakeupIsLost` is inductive over it (`AllWoken`: functors to run, or the event to
  read them by). `RequestsAreAccounted` follows each request from the parser to the client: while
  its connection is up at both ends it is in the pool's queue, with a worker that has not yet
  posted its answer, among the functors of a loop, or answered; at one of these places only, and
  there once (`Apart`, `Kept`). It is the safety part of `RequestsAnswered` for any number of
  threads, and gives `OutputKeepsOrder` its second half: what the client got followed by what
  waits is, piece by piece, what was sent, with no request answered twice or before it came.
* `LogProofs`: `LogTypeCorrect` and `LogKeepsMessages`. What is left of a sequence without some
  messages (`Without`) and buffers put together (`FlattenSeq`) are recursive functions; that
  such a function exists and is what its recursion says for every argument is shown by
  induction over sets (`NatSet`, `SeqSet`: a subset of the numbers or of the sequences that
  holds the first and the next of each member is everything, from the well-foundedness of the
  finite sets). The lemmas on members, order and repetition follow. The invariant `LogIInv`
  replaces `KeptOnce` by `KeptApart` (output, buffers and flush hold each accepted message
  once, and no two of them the same) and adds what keeps that: a new message is not yet
  anywhere, because each thread numbers its own (`Settled`); a message written without a
  buffer was never in one (`DirectApart`), so it is not missing from what went `Through`; the
  worker begins a round with nothing in hand (`RoundsInOrder`), or an older batch would come
  after a newer one; and the worker's last round is after the end (`LastRound`), or `stop`
  would leave messages of before.
* `PartsProofs`: `PoolsConserveSlots` (idle, lost, held by a thread or by the health check
  partition the slots), `TimersStayArmed`, `JobsStayKept`, `ConnectorStaysSound` (the channel is
  watched exactly while connecting; a reset is queued once per removed channel; an attempt, a
  delayed retry and a connection exclude each other).
* `RuntimeProofs`: `RuntimeRunsItsParts` shows that the composition implements each part's
  specification (a step of one leaves the variables of the others alone), and so every theorem
  on a part holds of the process: `RuntimeKeepsPromises`, `TimersStayKept`,
  `AssertionsAlwaysHold`, `LogKeepsOrder`, `RuntimeIsTyped`.

Only model-checked: the five liveness properties (`EntriesSettle`, `AnswerArrives`,
`OverdueIsReclaimed`, `PaymentsSettle`, `RequestsAnswered`), since fairness and ENABLED are
beyond the prover. Every invariant and action property of the passing runs is a theorem.

## 5. Disagreements found

* `PipelineListRefill`: `docs/ASYNC_ORDER_ARCHITECTURE.md:22` and the comment in
  `Server/src/RedisStockCache.cpp:107` forbid rebuilding a stock key from the database while
  orders are queued; `viewTickets` (`TicketService.cpp:305`) does it on every cache miss.
* `PipelineLostCommit`: a lost COMMIT reply and a failed lookup at the last delivery report
  FAILED and compensate the stock for an order that exists.
* `PaymentsUnrefunded`: the comment at `TicketServiceTxn.cpp:336` says that cancelling a paid
  order creates a refund request; when the locking read of the payment fails (`:340`) the
  order is cancelled without one.
* `AccountsUnrevoked`: `docs/AUTH_VERIFICATION.md:62-63` says that a reset revokes every session
  of the user; `confirmPasswordReset` (`TicketServiceAuth.cpp:303`) answers OK although the
  revocation may have been broken off.

In the two of the pipeline the database still protects the promise of `Allocation`
(`PipelineFaults`, and the proofs for every fault budget): they concern answers and cached
stock. `SucceededIsConfirmed` and `RevocationComplete` state what the code still guarantees next
to the cases that the other two runs show.

Four more have no run of their own, because a property that passes already states how far
the code departs from the text:

* `TicketServiceTxn.cpp:221` says that infrastructure errors stay pending; a failed
  `lockForUpdate` is classified as TICKET_NOT_FOUND and terminal at the first delivery.
  `RefusedForCause` allows one such order for each failed statement, and no more.
* `db/init.sql:81` announces an order number; a crash between the COMMIT and `setOrderNo` leaves
  an order without it, since the recovery path acknowledges without numbering
  (`TicketServiceTxn.cpp:182-186`, `:238`). `AckedIsResolved` asks for the order, not its number.
* `docs/AUTH_VERIFICATION.md:108` limits a code to five attempts; a wrong one whose count or
  COMMIT fails is not counted (`TicketServiceAuth.cpp:128-131`, `:259-262`, `:461-464`).
  `CodeSpentOnce` adds one comparison for each such failure to the limit.
* `docs/AUTH_SECURITY_PHASE1.md:42-45` says that login answers AUTH_TEMPORARILY_LOCKED after the
  threshold; a login that asked before it (`TicketService.cpp:84`) still compares its password
  after it (`:111`). `LockedOutAfterFailures` speaks of the moment a login asks.

## 6. What the code does and no property forbids

Met while modelling; nothing in the repository promises otherwise, or the case is outside the
properties as they are stated, so none is a finding. A reader of the code may care.

* Closing a payment that was paid keeps the money. A PROCESSING payment whose order expires or
  is cancelled is closed; both providers answer CLOSED without looking whether it was paid
  (`SimulatedPaymentProvider.cpp:91-101`, `MockPaymentProvider.cpp:30-37`), and a CREATED one is
  closed without asking (`TicketServicePay.cpp:223`). `NoChargeWrittenOff` therefore allows CLOSED
  for an order that is over, and FAILED never.
* A failed `findActiveByResv` counts as "no payment under way" (`TicketServicePay.cpp:115`) and
  admits a second payment for the order. Only one can confirm it; the other is closed or
  refunded like any payment that comes late. `OnePaymentPerOrder` keeps the part that survives.
* A mail whose answer is lost after the mail server took it (`VerificationProvider.cpp:285`) is
  sent again (`TicketServiceCatalog.cpp:233`). `MailedOncePerRequest` counts such mails.
* An empty line gets no answer (`ser.cpp:329`). Exceptions outside the two handlers of the task,
  of the JSON library on a value of another type in the I/O thread (`ser.cpp:358-364`) or in
  the metrics after the handler (`:404`), end the process; the comment at `:376-377` speaks of
  business exceptions only. `RequestsAnswered` ends there.
* A connection that is refused at the limit may still have lines parsed and executed before
  the close (`Server/src/ser.cpp:283-288`); the answers are dropped.
* Answers leave in the order the workers finish, while `src/frontend/src/api/client.ts:77-83`
  pairs answers and questions by position.
* At the end of `main` the locals that callbacks use are destroyed before the threads stop
  (`ser.cpp:487-502`); the pool leaves tasks in its queue (`SyncQueue.hpp:104`), and a functor
  queued after the last swap of a loop never runs.
* The scheduler's thread is started before `_is_stop` is cleared and may end at once
  (`TimerQueue.cpp:91`; `TestStop` and `ClearStop` are two steps for that reason). Cancelling a
  job, which nothing calls, would delete it under the thread that runs it.
* `RedisConnPool.cpp:154` counts a lost slot without notifying a waiter, who then sleeps out his
  timeout; `SlotsConserved` asks for the notification in the MySQL pool only.
* `Connector::restart` after `stop` connects again (`Connector.cpp:216`).
* A dropped buffer of the log counts as one dropped message; a flush may write newer messages
  before the batch the writer holds; a thread that is blocked when the log stops leaves its
  message in the buffer.
* `canSend` and the insertion of a code are separate statements (`AuthChallengeRepository.hpp:15`):
  two requests may both pass the cooldown.
* The revocation is skipped when the COMMIT of a reset loses its reply
  (`TicketServiceAuth.cpp:302`); the client is told that the reset failed. A blacklisted user
  keeps the open sessions.
* A server that dies between the claim and the mark leaves a reminder PROCESSING, which no
  query selects again.
* A stock key that is too low makes the enqueue script answer SOLD_OUT although admissions are
  left.

## 7. Not modelled

Three premises narrow what a property says. `CompensatedOnce` holds without slow consumers: the
script of `terminalFailure` does not look at the result of its XACK
(`RedisOrderQueue.cpp:206-210`), so a late one gives the stock back a second time. A client
connects once: after `stop` a socket that connects is closed with the state left kConnected
(`Inet/src/Connector.cpp:141`), on which a second `connect()` would fail the assertion at `:36`. `addTimer` reads the sequence number of a timer it has already
handed to the loop (`Inet/src/TimerQueue.cpp:230-232`), and the trace of `cancelInLoop` one it may
have deleted; neither read is a step.

* In modelled parts: cancelling a job of the scheduler, `DestroyPool`, the destructor of
  `TcpClient`, `stopRead`, the high-water mark, half-close by the server, the blocking `put` and
  `submit` of the worker pool, the session files of a build without hiredis, the periodic roll
  and the age limits of log files, throttles by address and device. Either nothing in `src/`
  calls them, or they only refuse more.
* The providers of mails and codes beyond their answers, rate limiter, metrics, health checks and schema initialisation; protocol,
  configuration and statement wrappers; command line clients, WebSocket bridge, frontends and
  tools: input and output, counters for display, or no state that the promises depend on.

## 8. What is left

The answers a client gets for orders that are refused, which would need a promise about
refusals first.
