------------------------------ MODULE LoopTimers ------------------------------
(* TimerQueue of Inet: the timers of one event loop, kept by expiration, and *)
(* the timerfd that is set for the earliest.  Other threads reach the queue  *)
(* only through functors of the loop; a callback that runs on the loop's own *)
(* thread changes it at once, while the expired timers are out of it.        *)
EXTENDS Naturals, FiniteSets, Sequences

CONSTANTS Timers,   \* the timers a behaviour may create, each a Timer object
          Period,   \* interval of a repeating timer
          Horizon   \* bound: the last tick of the clock

ASSUME TimersAssumption == Period \in Nat /\ Horizon \in Nat

Unarmed == Horizon + Period + 1   \* no expiration is that late

VARIABLES clock,
          timers,     \* timers_ and activeTimers_: the timers in the queue
          timer,      \* per timer: its expiration, and whether it repeats
          life,       \* per timer: "none", "posted" (addTimer), "held" (inserted), "deleted"
          fd,         \* what the timerfd is set to
          expired,    \* the expired timers whose callback is still to run
          ran,        \* the expired timers whose callback has run
          calling,    \* callingExpiredTimers_
          canceling,  \* cancelingTimers_
          timerOps,   \* functors of the loop: additions and cancellations in order
          gone        \* history: timers whose cancellation was carried out

timerVars == <<clock, timers, timer, life, fd, expired, ran, calling, canceling, timerOps, gone>>

TimersInit ==
    /\ clock = 0 /\ timers = {} /\ fd = Unarmed
    /\ timer = [t \in Timers |-> [when |-> 0, repeat |-> FALSE]]
    /\ life = [t \in Timers |-> "none"]
    /\ expired = {} /\ ran = {} /\ calling = FALSE /\ canceling = {}
    /\ timerOps = <<>> /\ gone = {}

TimersTypeOK ==
    /\ timers \subseteq Timers /\ fd \in 0 .. Unarmed
    /\ life \in [Timers -> {"none", "posted", "held", "deleted"}]
    /\ (expired # {} \/ ran # {}) => calling

Earliest(set, of) == CHOOSE n \in {of[t].when : t \in set} : \A t \in set : n <= of[t].when
Deleted(set) == [t \in Timers |-> IF t \in set THEN "deleted" ELSE life[t]]

(* addTimerInLoop: the timerfd is set again if the timer is the new first.   *)
InsertAndArm(t) ==
    /\ timers' = timers \cup {t}
    /\ life' = [life EXCEPT ![t] = "held"]
    /\ fd' = IF timers = {} \/ timer'[t].when < Earliest(timers, timer) THEN timer'[t].when ELSE fd

NewTimer(t) ==
    /\ life[t] = "none"
    /\ \E n \in 0 .. Period, r \in BOOLEAN :
          timer' = [timer EXCEPT ![t] = [when |-> clock + n, repeat |-> r]]

CancelInLoop(t) ==
    /\ gone' = gone \cup {t}
    /\ IF t \in timers
       THEN /\ timers' = timers \ {t} /\ life' = Deleted({t})
            /\ UNCHANGED canceling
       ELSE /\ canceling' = IF calling THEN canceling \cup {t} ELSE canceling
            /\ UNCHANGED <<timers, life>>

(* addTimer and cancel by another thread.                                    *)
AddTimer(t) ==
    /\ NewTimer(t)
    /\ life' = [life EXCEPT ![t] = "posted"]
    /\ timerOps' = Append(timerOps, <<"add", t>>)
    /\ UNCHANGED <<clock, timers, fd, expired, ran, calling, canceling, gone>>

Cancel(t) ==
    /\ life[t] # "none" /\ t \notin gone /\ \A i \in 1 .. Len(timerOps) : timerOps[i] # <<"cancel", t>>
    /\ timerOps' = Append(timerOps, <<"cancel", t>>)
    /\ UNCHANGED <<clock, timers, timer, life, fd, expired, ran, calling, canceling, gone>>

RunRequest ==
    /\ ~calling /\ timerOps # <<>>
    /\ timerOps' = Tail(timerOps)
    /\ LET t == Head(timerOps)[2]
       IN IF Head(timerOps)[1] = "add"
          THEN UNCHANGED <<timer, canceling, gone>> /\ InsertAndArm(t)
          ELSE CancelInLoop(t) /\ UNCHANGED <<timer, fd>>
    /\ UNCHANGED <<clock, expired, ran, calling>>

(* handleRead up to the callbacks: the expired timers leave the queue.       *)
GetExpired ==
    /\ ~calling /\ fd <= clock
    /\ LET due == {t \in timers : timer[t].when <= clock}
       IN expired' = due /\ timers' = timers \ due
    /\ fd' = Unarmed /\ calling' = TRUE /\ canceling' = {}
    /\ UNCHANGED <<clock, timer, life, ran, timerOps, gone>>

(* One callback, in the order of expiration; it may add or cancel timers,    *)
(* itself and others of the same batch included.                             *)
RunTimer ==
    /\ expired # {}
    /\ \E t \in expired :
          /\ timer[t].when = Earliest(expired, timer)
          /\ expired' = expired \ {t} /\ ran' = ran \cup {t}
    /\ \/ UNCHANGED <<timers, timer, life, fd, canceling, gone>>
       \/ \E t \in Timers : NewTimer(t) /\ InsertAndArm(t) /\ UNCHANGED <<canceling, gone>>
       \/ \E t \in Timers : life[t] = "held" /\ CancelInLoop(t) /\ UNCHANGED <<timer, fd>>
    /\ UNCHANGED <<clock, calling, timerOps>>

ResetUncancelled ==
    /\ calling /\ expired = {}
    /\ LET again == {t \in ran : timer[t].repeat}
           left == timers \cup again
       IN /\ timer' = [t \in Timers |-> IF t \in again THEN [timer[t] EXCEPT !.when = clock + Period] ELSE timer[t]]
          /\ timers' = left
          /\ life' = Deleted(ran \ again)
          /\ fd' = IF left = {} THEN fd ELSE Earliest(left, timer')
    /\ ran' = {} /\ calling' = FALSE
    /\ UNCHANGED <<clock, expired, canceling, timerOps, gone>>

(* reset: repeating timers go back unless they were cancelled meanwhile, the *)
(* others are deleted, and the timerfd is set for the first.                 *)
Reset ==
    /\ calling /\ expired = {}
    /\ LET again == {t \in ran : timer[t].repeat /\ t \notin canceling}
           left == timers \cup again
       IN /\ timer' = [t \in Timers |-> IF t \in again THEN [timer[t] EXCEPT !.when = clock + Period] ELSE timer[t]]
          /\ timers' = left
          /\ life' = Deleted(ran \ again)
          /\ fd' = IF left = {} THEN fd ELSE Earliest(left, timer')
    /\ ran' = {} /\ calling' = FALSE
    /\ UNCHANGED <<clock, expired, canceling, timerOps, gone>>

Tick ==
    /\ clock < Horizon /\ clock' = clock + 1
    /\ UNCHANGED <<timers, timer, life, fd, expired, ran, calling, canceling, timerOps, gone>>

TimersNext ==
    \/ \E t \in Timers : AddTimer(t) \/ Cancel(t)
    \/ RunRequest \/ GetExpired \/ RunTimer \/ Reset \/ Tick

-----------------------------------------------------------------------------
(* The first timer of the queue will be noticed in time: the timerfd is set  *)
(* for it or earlier, or the callbacks are running and reset() will set it.  *)
FirstTimerArmed == timers # {} => calling \/ \A t \in timers : fd <= timer[t].when

(* A timer is deleted once and never while the queue or the batch holds it.  *)
NoDeletedTimerHeld == \A t \in timers \cup expired \cup ran : life[t] = "held"

(* A cancelled timer is out of the queue for good, the callback it may be in *)
(* and those of its batch excepted.                                          *)
CancelledStaysOut == gone \cap timers = {}

TimersArmed == FirstTimerArmed /\ NoDeletedTimerHeld /\ CancelledStaysOut
=============================================================================
