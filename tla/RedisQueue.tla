----------------------------- MODULE RedisQueue -----------------------------
(***************************************************************************)
(* The Redis side of an order: the stock counters, the status of each      *)
(* request, and the stream with its consumer group.  A command or a Lua    *)
(* script is one step of Redis, so each is one action here.  Stream ids    *)
(* are positions in the stream; MAXLEN never trims an unread entry.        *)
(***************************************************************************)
EXTENDS OrderRequests, Sequences

CONSTANT MaxTries   \* where the delivery counter saturates

ASSUME MaxTriesAssumption == MaxTries \in Nat \ {0}

VARIABLES
    stock,    \* stock:<ticket>, NoKey when the key does not exist
    status,   \* state of order:req:<request>, "NONE" without the key
    stream,   \* the request of every entry ever added
    last,     \* last-delivered-id of the group
    pel,      \* the group's pending entries
    tries,    \* delivery counter of each pending entry
    dead      \* the dead letters of each entry, by reason

queueVars == <<stock, status, stream, last, pel, tries, dead>>

NoKey == -1

Entries == 1 .. Len(stream)
Acked == {id \in 1 .. last : id \notin pel}

\* Requests that were counted off the stock and have no outcome yet.
Undecided == {stream[id] : id \in {i \in Entries : i > last \/ i \in pel}}

QueueInit ==
    /\ stock = [t \in Tickets |-> NoKey]
    /\ status = [r \in Requests |-> "NONE"]
    /\ stream = <<>>
    /\ last = 0
    /\ pel = {}
    /\ tries = <<>>
    /\ dead = <<>>
-----------------------------------------------------------------------------
\* The answers of the script of enqueue.
Admission(r) ==
    CASE status[r] # "NONE" -> "DUPLICATE"
      [] status[r] = "NONE" /\ stock[TicketOf[r]] = NoKey -> "UNAVAILABLE"
      [] OTHER -> IF stock[TicketOf[r]] < Qty[r] THEN "NO_TICKET" ELSE "QUEUED"

\* The script: DECRBY, XADD, HSET in one step, or nothing.
Enqueue(r) ==
    IF Admission(r) = "QUEUED"
    THEN /\ stock' = [stock EXCEPT ![TicketOf[r]] = @ - Qty[r]]
         /\ stream' = Append(stream, r)
         /\ tries' = Append(tries, 0)
         /\ dead' = Append(dead, <<>>)
         /\ status' = [status EXCEPT ![r] = "QUEUED"]
         /\ UNCHANGED <<last, pel>>
    ELSE UNCHANGED queueVars

PutStock(t, n) ==
    /\ stock' = [stock EXCEPT ![t] = n]
    /\ UNCHANGED <<status, stream, last, pel, tries, dead>>

\* Mutant: SET without NX.
OverwriteStock(t, n) == PutStock(t, n)

\* initializeStock: SET NX.
InitializeStock(t, n) ==
    IF stock[t] = NoKey THEN PutStock(t, n) ELSE UNCHANGED queueVars

\* RedisStockCache::incr: only when the key exists.
IncrStock(t, n) ==
    IF stock[t] # NoKey THEN PutStock(t, stock[t] + n) ELSE UNCHANGED queueVars

Counted(id) == IF tries[id] < MaxTries THEN tries[id] + 1 ELSE MaxTries

\* Mutant: pending entries are never claimed.
DeliverNewOnly(id) ==
    /\ id = last + 1 /\ id \in Entries
    /\ last' = id
    /\ pel' = pel \cup {id}
    /\ tries' = [tries EXCEPT ![id] = Counted(id)]
    /\ UNCHANGED <<stock, status, stream, dead>>

\* Mutant: the group's position does not move.
DeliverInPlace(id) ==
    /\ id \in pel \/ (id = last + 1 /\ id \in Entries)
    /\ pel' = pel \cup {id}
    /\ tries' = [tries EXCEPT ![id] = Counted(id)]
    /\ UNCHANGED <<stock, status, stream, last, dead>>

\* consume: an idle pending entry (XAUTOCLAIM), else the next one (XREADGROUP).
Deliver(id) ==
    /\ id \in pel \/ (id = last + 1 /\ id \in Entries)
    /\ last' = IF id \in pel THEN last ELSE id
    /\ pel' = pel \cup {id}
    /\ tries' = [tries EXCEPT ![id] = Counted(id)]
    /\ UNCHANGED <<stock, status, stream, dead>>

Acknowledge(id) ==
    /\ pel' = pel \ {id}
    /\ UNCHANGED <<stock, status, stream, last, tries, dead>>

\* XPENDING of one entry: nothing once it is acknowledged.
DeliveryCount(id) == IF id \in pel THEN tries[id] ELSE 0

\* Mutant: the XACK is left out of the script.
TerminalFailureNoAck(id, reason) ==
    LET r == stream[id]
        t == TicketOf[r]
    IN  /\ stock' = [stock EXCEPT ![t] = IF @ = NoKey THEN @ ELSE @ + Qty[r]]
        /\ dead' = [dead EXCEPT ![id] = Append(@, reason)]
        /\ status' = [status EXCEPT ![r] = "FAILED"]
        /\ UNCHANGED <<stream, last, pel, tries>>

\* The script of terminalFailure: compensation, dead letter, status and XACK.
TerminalFailure(id, reason) ==
    LET r == stream[id]
        t == TicketOf[r]
    IN  /\ stock' = [stock EXCEPT ![t] = IF @ = NoKey THEN @ ELSE @ + Qty[r]]
        /\ dead' = [dead EXCEPT ![id] = Append(@, reason)]
        /\ status' = [status EXCEPT ![r] = "FAILED"]
        /\ pel' = pel \ {id}
        /\ UNCHANGED <<stream, last, tries>>

SetStatus(r, s) ==
    /\ status' = [status EXCEPT ![r] = s]
    /\ UNCHANGED <<stock, stream, last, pel, tries, dead>>

\* The status key reaches the end of its 24 hours.
StatusExpires(r) ==
    /\ status[r] # "NONE"
    /\ SetStatus(r, "NONE")
-----------------------------------------------------------------------------
Reasons == {"TICKET_NOT_FOUND", "TICKET_OFFLINE", "NO_TICKET", "SEAT_TAKEN",
            "DB_UPDATE", "DB_INSERT", "DB_UNAVAILABLE"}

States == {"NONE", "QUEUED", "PENDING", "CONFIRMED", "CANCELLED", "EXPIRED", "FAILED"}

\* The group's counters stay within the stream, and a stock counter never
\* goes below zero: the script refuses before it decrements.
QueueTypeOK ==
    /\ stock \in [Tickets -> Nat \cup {NoKey}]
    /\ status \in [Requests -> States]
    /\ stream \in Seq(Requests)
    /\ last \in 0 .. Len(stream)
    /\ pel \subseteq 1 .. last
    /\ tries \in Seq(0 .. MaxTries) /\ Len(tries) = Len(stream)
    /\ dead \in Seq(Seq(Reasons)) /\ Len(dead) = Len(stream)
=============================================================================
