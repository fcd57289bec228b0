------------------------------ MODULE Connector ------------------------------
(* Connector and TcpClient of Inet: a nonblocking connection attempt on one  *)
(* event loop, retried with a growing delay, given up when the user says so  *)
(* from a thread of its own, and begun again when the connection goes down.  *)
EXTENDS Naturals, Sequences

CONSTANTS InitDelay,   \* kInitRetryDelayMs
          MaxDelay,    \* kMaxRetryDelayMs
          ClientSeeds, \* instances: retry_, and what the user calls
          MaxAttempts  \* bound: connections a behaviour tries

ASSUME DelayAssumption == InitDelay \in Nat \ {0} /\ MaxDelay \in Nat /\ InitDelay <= MaxDelay

VARIABLES client,     \* the instance, a member of ClientSeeds
          attempt,    \* state_ of the connector
          wanted,     \* connect_ of the connector
          wantedTcp,  \* connect_ of the TcpClient
          channel,    \* channel_: "none", "watched", "removed" (held until a functor runs)
          retries,    \* retry timers of the loop that are running
          delay,      \* retryDelayMs_
          functors,   \* what the loop has still to run, in order
          link,       \* connection_: "none", "up", "half" (shut down by the user), "restart"
          attempts,   \* history: connect() calls of the connector
          broken      \* an assertion failed

connectorVars == <<client, attempt, wanted, wantedTcp, channel, retries, delay, functors, link, attempts, broken>>
attemptVars == <<attempt, channel, retries, delay, attempts, broken>>
userVars == <<client, wanted, wantedTcp>>

ConnectorInit(seeds) ==
    /\ client \in seeds
    /\ attempt = "Disconnected" /\ wanted = FALSE /\ wantedTcp = TRUE /\ channel = "none"
    /\ retries = 0 /\ delay = InitDelay /\ functors = <<>> /\ link = "none"
    /\ attempts = 0 /\ broken = FALSE

ConnectorTypeOK ==
    /\ attempt \in {"Disconnected", "Connecting", "Connected"}
    /\ channel \in {"none", "watched", "removed"} /\ link \in {"none", "up", "half", "restart"}
    /\ delay \in InitDelay .. MaxDelay /\ retries \in Nat

Required(condition) == broken' = (broken \/ ~condition)

(* retry: the socket is closed, and a timer set if the user still wants it.  *)
Retry(running) ==
    /\ attempt' = "Disconnected"
    /\ IF wanted
       THEN /\ retries' = running + 1
            /\ delay' = IF delay * 2 > MaxDelay THEN MaxDelay ELSE delay * 2
       ELSE retries' = running /\ UNCHANGED delay

(* startInLoop, with so many retry timers running: the attempt is under way, *)
(* or failed in a way that is tried again, or in one that is not.            *)
StartInLoop(from, running) ==
    /\ attempts' = attempts + 1
    /\ \/ /\ wanted /\ attempts < MaxAttempts
          /\ Required(from = "Disconnected" /\ channel = "none")
          /\ attempt' = "Connecting" /\ channel' = "watched" /\ retries' = running /\ UNCHANGED delay
       \/ /\ wanted /\ attempts < MaxAttempts
          /\ Required(from = "Disconnected") /\ Retry(running) /\ UNCHANGED channel
       \/ /\ Required(from = "Disconnected")
          /\ attempt' = "Disconnected" /\ retries' = running /\ UNCHANGED <<channel, delay>>

(* removeAndResetChannel: out of the poller now, destroyed by a functor.     *)
RemoveChannel(left) == channel' = "removed" /\ functors' = Append(left, "resetChannel")

RunStart ==
    /\ link # "restart" /\ functors # <<>> /\ Head(functors) = "start"
    /\ StartInLoop(attempt, retries)
    /\ functors' = Tail(functors) /\ UNCHANGED <<userVars, link>>

RunStop ==
    /\ link # "restart" /\ functors # <<>> /\ Head(functors) = "stop"
    /\ IF attempt = "Connecting"
       THEN RemoveChannel(Tail(functors)) /\ Retry(retries)
       ELSE functors' = Tail(functors) /\ UNCHANGED <<attempt, channel, retries, delay>>
    /\ UNCHANGED <<userVars, link, attempts, broken>>

RunResetChannel ==
    /\ link # "restart" /\ functors # <<>> /\ Head(functors) = "resetChannel"
    /\ channel' = "none" /\ functors' = Tail(functors)
    /\ UNCHANGED <<userVars, attempt, retries, delay, link, attempts, broken>>

(* What the loop does in a later iteration than the one that removed the     *)
(* channel: a retry, whose delay is longer, and the events of a connection.  *)
LaterIteration == \A i \in 1 .. Len(functors) : functors[i] # "resetChannel"

RetryTimer ==
    /\ link # "restart" /\ retries > 0 /\ LaterIteration
    /\ StartInLoop(attempt, retries - 1)
    /\ UNCHANGED <<userVars, functors, link>>

(* handleWrite and handleError: the attempt failed, or it succeeded and the  *)
(* socket becomes a connection unless the user gave up meanwhile.            *)
HandleAttempt ==
    /\ link # "restart" /\ channel = "watched" /\ attempt = "Connecting"
    /\ RemoveChannel(functors)
    /\ \/ Retry(retries) /\ UNCHANGED <<link, broken>>
       \/ /\ attempt' = "Connected" /\ UNCHANGED <<retries, delay>>
          /\ IF wanted THEN link' = "up" /\ Required(link = "none") ELSE UNCHANGED <<link, broken>>
    /\ UNCHANGED <<userVars, attempts>>

(* removeConnection: the connection went down; a client that retries begins  *)
(* anew if its user has not called stop or disconnect by then.               *)
ConnectionDown ==
    /\ link \in {"up", "half"} /\ LaterIteration
    /\ link' = IF client.retry /\ wantedTcp THEN "restart" ELSE "none"
    /\ UNCHANGED <<userVars, attemptVars, functors>>

(* restart of the connector, which wants to connect again whatever the user  *)
(* said since removeConnection looked.                                       *)
Restart ==
    /\ link = "restart" /\ link' = "none"
    /\ wanted' = TRUE /\ attempts' = attempts + 1
    /\ \/ /\ attempts < MaxAttempts
          /\ Required(channel = "none")
          /\ attempt' = "Connecting" /\ channel' = "watched" /\ delay' = InitDelay /\ UNCHANGED retries
       \/ /\ attempts < MaxAttempts
          /\ attempt' = "Disconnected" /\ retries' = retries + 1
          /\ delay' = (IF InitDelay * 2 > MaxDelay THEN MaxDelay ELSE InitDelay * 2)
          /\ UNCHANGED <<channel, broken>>
       \/ /\ attempt' = "Disconnected" /\ delay' = InitDelay /\ UNCHANGED <<channel, retries, broken>>
    /\ UNCHANGED <<client, wantedTcp, functors>>

-----------------------------------------------------------------------------
(* The user of the TcpClient                                                 *)

Calls(c) == c \in client.calls
Called(c) == client' = [client EXCEPT !.calls = @ \ {c}]

CallConnect ==
    /\ Calls("connect") /\ Called("connect")
    /\ wantedTcp' = TRUE /\ wanted' = TRUE /\ functors' = Append(functors, "start")
    /\ UNCHANGED <<attemptVars, link>>

(* disconnect shuts the connection down if there is one.                     *)
CallDisconnect ==
    /\ Calls("disconnect") /\ ~Calls("connect") /\ Called("disconnect")
    /\ wantedTcp' = FALSE /\ link' = (IF link = "up" THEN "half" ELSE link)
    /\ UNCHANGED <<attemptVars, wanted, functors>>

CallStop ==
    /\ Calls("stop") /\ ~Calls("connect") /\ Called("stop")
    /\ wantedTcp' = FALSE /\ wanted' = FALSE /\ functors' = Append(functors, "stop")
    /\ UNCHANGED <<attemptVars, link>>

ConnectorNext ==
    \/ RunStart \/ RunStop \/ RunResetChannel \/ RetryTimer \/ HandleAttempt
    \/ ConnectionDown \/ Restart
    \/ CallConnect \/ CallDisconnect \/ CallStop

-----------------------------------------------------------------------------
(* The assertions of startInLoop, connecting and newConnection hold, and at  *)
(* no time is more than one of these under way: an attempt, the wait for the *)
(* next one, a connection.                                                   *)
ConnectorSound ==
    /\ ~broken
    /\ retries + (IF attempt = "Connecting" THEN 1 ELSE 0) + (IF link # "none" THEN 1 ELSE 0) <= 1
    /\ attempt = "Connecting" => channel = "watched"
=============================================================================
