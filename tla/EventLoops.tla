----------------------------- MODULE EventLoops -----------------------------
(* The event loops of Inet: a thread polls its channels, handles those that  *)
(* are ready and then runs the functors other threads queued.  What the      *)
(* handlers and functors do is for the module that extends this one.         *)
EXTENDS Naturals, Sequences, FiniteSets

CONSTANTS Loops,    \* the event loops, each with a thread of its own
          Others    \* threads that queue functors and run no loop

NoLoop == "no loop"
Wakeup == <<"loop", "wakeup">>  \* the channel of the eventfd

ASSUME LoopsAssumption == NoLoop \notin Loops /\ Loops \cap Others = {}

VARIABLES at,       \* "start" (before loop()), "poll", "events", "functors", "out"
          active,   \* activeChannels_ that are still to be handled
          pending,  \* pendingFunctors_
          batch,    \* functors swapped out and still to be run
          eventfd,  \* whether the eventfd is readable
          quit,     \* quit_
          waking    \* per other thread: the loop whose eventfd it is about to write

loopVars == <<at, active, pending, batch, eventfd, quit, waking>>

LoopsInit ==
    /\ at = [l \in Loops |-> "start"] /\ active = [l \in Loops |-> {}]
    /\ pending = [l \in Loops |-> <<>>] /\ batch = [l \in Loops |-> <<>>]
    /\ eventfd = [l \in Loops |-> FALSE] /\ quit = [l \in Loops |-> FALSE]
    /\ waking = [w \in Others |-> NoLoop]

LoopsTypeOK ==
    /\ at \in [Loops -> {"start", "poll", "events", "functors", "out"}]
    /\ eventfd \in [Loops -> BOOLEAN] /\ quit \in [Loops -> BOOLEAN]
    /\ waking \in [Others -> Loops \cup {NoLoop}]
    /\ \A l \in Loops :
          /\ at[l] # "events" => active[l] = {}
          /\ at[l] # "functors" => batch[l] = <<>>

QueueInLoopSilently(l, f, own) ==
    /\ pending' = [pending EXCEPT ![l] = Append(@, f)]
    /\ eventfd' = IF own = l THEN eventfd ELSE [eventfd EXCEPT ![l] = TRUE]

(* queueInLoop by the thread of loop own.  The loop itself needs no wake-up  *)
(* while it handles events: it runs its functors before it polls again.      *)
QueueInLoop(l, f, own) ==
    /\ pending' = [pending EXCEPT ![l] = Append(@, f)]
    /\ eventfd' = IF own = l /\ at[l] # "functors" THEN eventfd ELSE [eventfd EXCEPT ![l] = TRUE]

QueueNothing == UNCHANGED <<pending, eventfd>>

(* queueInLoop by another thread: the push under the lock, then the write.   *)
Push(w, l, f) ==
    /\ waking[w] = NoLoop
    /\ pending' = [pending EXCEPT ![l] = Append(@, f)]
    /\ waking' = [waking EXCEPT ![w] = l]
    /\ UNCHANGED <<at, active, batch, eventfd, quit>>

WakeUp(w) ==
    /\ waking[w] # NoLoop
    /\ eventfd' = [eventfd EXCEPT ![waking[w]] = TRUE]
    /\ waking' = [waking EXCEPT ![w] = NoLoop]
    /\ UNCHANGED <<at, active, pending, batch, quit>>

(* quit() from another thread, its two writes taken together.                *)
Quit(l) ==
    /\ quit' = [quit EXCEPT ![l] = TRUE] /\ eventfd' = [eventfd EXCEPT ![l] = TRUE]
    /\ UNCHANGED <<at, active, pending, batch, waking>>

(* loop() clears quit_: a quit() that came before it is forgotten.           *)
StartLooping(l) ==
    /\ at[l] = "start"
    /\ at' = [at EXCEPT ![l] = "poll"] /\ quit' = [quit EXCEPT ![l] = FALSE]
    /\ UNCHANGED <<active, pending, batch, eventfd, waking>>

(* epoll_wait returns the channels that are ready, or none after its timeout *)
(* of ten seconds or a signal.                                               *)
Poll(l, ready) ==
    /\ at[l] = "poll"
    /\ at' = [at EXCEPT ![l] = "events"]
    /\ active' = [active EXCEPT ![l] = ready \cup (IF eventfd[l] THEN {Wakeup} ELSE {})]
    /\ UNCHANGED <<pending, batch, eventfd, quit, waking>>

PollTimeout(l) ==
    /\ at[l] = "poll"
    /\ at' = [at EXCEPT ![l] = "events"]
    /\ UNCHANGED <<active, pending, batch, eventfd, quit, waking>>

(* handleRead of the wake-up channel.                                        *)
HandleWakeup(l) ==
    /\ at[l] = "events" /\ Wakeup \in active[l]
    /\ active' = [active EXCEPT ![l] = @ \ {Wakeup}]
    /\ eventfd' = [eventfd EXCEPT ![l] = FALSE]
    /\ UNCHANGED <<at, pending, batch, quit, waking>>

(* The part of every handler that concerns its own loop.                     *)
Handling(l, channel) ==
    /\ at[l] = "events" /\ channel \in active[l]
    /\ active' = [active EXCEPT ![l] = @ \ {channel}]
    /\ UNCHANGED <<at, batch, quit, waking>>

(* The end of the events, and the swap of the functors under the lock.       *)
TakeFunctors(l) ==
    /\ at[l] = "events" /\ active[l] = {}
    /\ at' = [at EXCEPT ![l] = "functors"]
    /\ batch' = [batch EXCEPT ![l] = pending[l]]
    /\ pending' = [pending EXCEPT ![l] = <<>>]
    /\ UNCHANGED <<active, eventfd, quit, waking>>

(* The part of every functor that concerns its own loop.                     *)
Running(l) ==
    /\ at[l] = "functors" /\ batch[l] # <<>>
    /\ batch' = [batch EXCEPT ![l] = Tail(@)]
    /\ UNCHANGED <<at, active, quit, waking>>

FinishIteration(l) ==
    /\ at[l] = "functors" /\ batch[l] = <<>>
    /\ at' = [at EXCEPT ![l] = IF quit[l] THEN "out" ELSE "poll"]
    /\ UNCHANGED <<active, pending, batch, eventfd, quit, waking>>

-----------------------------------------------------------------------------
(* A loop that blocks in epoll_wait with functors queued for it will return  *)
(* at once: its eventfd is readable, or the thread that queued the functor   *)
(* is about to make it so.                                                   *)
NoLostWakeup ==
    \A l \in Loops :
        at[l] = "poll" /\ pending[l] # <<>> => eventfd[l] \/ \E w \in Others : waking[w] = l
=============================================================================
