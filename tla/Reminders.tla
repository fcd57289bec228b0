------------------------------ MODULE Reminders ------------------------------
(* Sale reminders: the rows of sale_reminders, and dispatchSaleReminders,     *)
(* which the timer thread of every server runs against the same table.        *)
EXTENDS Naturals, FiniteSets

CONSTANTS Subscribers,   \* users that may ask to be reminded of the event
          Servers,
          MaxMailAttempts,  \* max_attempts of a row
          TryBound       \* bound: attempts after which a row does not come due again

VARIABLES reminder,   \* rows: status, attempt_count, next_attempt_at reached
          saleOpen,   \* the sale the reminders are for has begun
          batch,      \* per server: rows its dispatch read and has not claimed yet
          sending,    \* per server: the row it claimed and sends the mail for
          asked,      \* history: times a subscriber's request made the row pending
          delivered,  \* history: mails that reached the mail server
          unheard     \* history: those of them whose answer was lost

reminderVars == <<reminder, saleOpen, batch, sending, asked, delivered, unheard>>

Nothing == "nothing"

ASSUME RemindersAssumption ==
    MaxMailAttempts \in Nat /\ TryBound \in Nat /\ IsFiniteSet(Servers) /\ Nothing \notin Subscribers

Statuses == {"none", "PENDING", "PROCESSING", "SENT", "FAILED", "CANCELLED"}

RemindersTypeOK ==
    /\ reminder \in [Subscribers -> [status : Statuses, attempts : Nat, ready : BOOLEAN]]
    /\ saleOpen \in BOOLEAN
    /\ batch \in [Servers -> SUBSET Subscribers]
    /\ sending \in [Servers -> Subscribers \cup {Nothing}]
    /\ asked \in [Subscribers -> Nat] /\ delivered \in [Subscribers -> Nat] /\ unheard \in [Subscribers -> Nat]

RemindersInit ==
    /\ reminder = [u \in Subscribers |-> [status |-> "none", attempts |-> 0, ready |-> FALSE]]
    /\ saleOpen = FALSE
    /\ batch = [d \in Servers |-> {}] /\ sending = [d \in Servers |-> Nothing]
    /\ asked = [u \in Subscribers |-> 0]
    /\ delivered = [u \in Subscribers |-> 0] /\ unheard = [u \in Subscribers |-> 0]

Waiting(u) == reminder[u].status \in {"PENDING", "FAILED"}

(* INSERT .. ON DUPLICATE KEY UPDATE: whatever state the row is in, it is    *)
(* pending again; a row that does not change counts as a failure.            *)
AddReminder(u) ==
    LET row == [status |-> "PENDING", attempts |-> 0, ready |-> saleOpen]
    IN /\ reminder' = [reminder EXCEPT ![u] = row]
       /\ asked' = [asked EXCEPT ![u] = @ + (IF reminder[u] = row THEN 0 ELSE 1)]
       /\ UNCHANGED <<saleOpen, batch, sending, delivered, unheard>>

CancelReminder(u) ==
    /\ reminder' = IF Waiting(u) THEN [reminder EXCEPT ![u].status = "CANCELLED"] ELSE reminder
    /\ UNCHANGED <<saleOpen, batch, sending, asked, delivered, unheard>>

ReadDue(d) ==
    /\ batch[d] = {} /\ sending[d] = Nothing
    /\ batch' = [batch EXCEPT ![d] = {u \in Subscribers : Waiting(u) /\ reminder[u].ready}]
    /\ UNCHANGED <<reminder, saleOpen, sending, asked, delivered, unheard>>

ClaimAlways(d, u) ==
    /\ sending[d] = Nothing /\ u \in batch[d]
    /\ batch' = [batch EXCEPT ![d] = @ \ {u}] /\ sending' = [sending EXCEPT ![d] = u]
    /\ reminder' = [reminder EXCEPT ![u].status = "PROCESSING", ![u].attempts = @ + 1]
    /\ UNCHANGED <<saleOpen, asked, delivered, unheard>>

(* The conditional UPDATE lets one server have the row.  When the UPDATE is  *)
(* reported as failed the row is passed over, although it may be claimed.    *)
Claim(d, u) ==
    /\ sending[d] = Nothing /\ u \in batch[d]
    /\ batch' = [batch EXCEPT ![d] = @ \ {u}]
    /\ \/ /\ Waiting(u)
          /\ reminder' = [reminder EXCEPT ![u].status = "PROCESSING", ![u].attempts = @ + 1]
          /\ sending' \in {[sending EXCEPT ![d] = u], sending}
       \/ UNCHANGED <<reminder, sending>>
    /\ UNCHANGED <<saleOpen, asked, delivered, unheard>>

Mailed(u) == delivered' = [delivered EXCEPT ![u] = @ + 1]

(* The provider's answer and the unconditional UPDATE that follows it, which *)
(* may fail.  A mail whose answer was lost is taken for one that was not     *)
(* sent, and the row is due again: the query does not ask for its attempts.  *)
Conclude(d) ==
    LET u == sending[d]
        row == reminder[u]
        again == [status |-> IF row.attempts >= MaxMailAttempts THEN "FAILED" ELSE "PENDING",
                  attempts |-> row.attempts, ready |-> FALSE]
    IN /\ u # Nothing
       /\ sending' = [sending EXCEPT ![d] = Nothing]
       /\ \/ /\ Mailed(u) /\ UNCHANGED unheard
             /\ reminder' \in {[reminder EXCEPT ![u].status = "SENT"], reminder}
          \/ /\ \/ UNCHANGED <<delivered, unheard>>
                \/ Mailed(u) /\ unheard' = [unheard EXCEPT ![u] = @ + 1]
             /\ reminder' \in {[reminder EXCEPT ![u] = again], reminder}
       /\ UNCHANGED <<saleOpen, batch, asked>>

(* The server stops during a dispatch: what it claimed stays PROCESSING,     *)
(* whether its mail was on the way or not.                                   *)
StopDispatch(d) ==
    /\ batch[d] # {} \/ sending[d] # Nothing
    /\ batch' = [batch EXCEPT ![d] = {}] /\ sending' = [sending EXCEPT ![d] = Nothing]
    /\ UNCHANGED delivered \/ (sending[d] # Nothing /\ Mailed(sending[d]))
    /\ UNCHANGED <<reminder, saleOpen, asked, unheard>>

SaleOpens ==
    /\ ~saleOpen /\ saleOpen' = TRUE
    /\ reminder' = [u \in Subscribers |-> IF reminder[u].status = "none" THEN reminder[u]
                                          ELSE [reminder[u] EXCEPT !.ready = TRUE]]
    /\ UNCHANGED <<batch, sending, asked, delivered, unheard>>

(* The delay before the next attempt ends.                                   *)
RetryDue(u) ==
    /\ saleOpen /\ Waiting(u) /\ ~reminder[u].ready /\ reminder[u].attempts < TryBound
    /\ reminder' = [reminder EXCEPT ![u].ready = TRUE]
    /\ UNCHANGED <<saleOpen, batch, sending, asked, delivered, unheard>>

RemindersNext ==
    \/ \E d \in Servers : ReadDue(d) \/ Conclude(d) \/ StopDispatch(d) \/ \E u \in Subscribers : Claim(d, u)
    \/ SaleOpens
    \/ \E u \in Subscribers : RetryDue(u)

(* A subscriber gets at most one mail for each time the reminder was asked   *)
(* for and one more for each mail whose answer was lost, with two servers    *)
(* dispatching the same rows, requests and cancellations between a claim and *)
(* its answer, failed updates and servers that stop half way.                *)
MailedOncePerRequest == \A u \in Subscribers : delivered[u] <= asked[u] + unheard[u]
=============================================================================
