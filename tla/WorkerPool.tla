----------------------------- MODULE WorkerPool -----------------------------
(* FixedThreadPool and its SyncQueue: workers that take tasks from a bounded *)
(* queue.  The waits of the queue end after a second at the latest, so a     *)
(* missed notification only delays; a worker simply may take what is there.  *)
EXTENDS Naturals, Sequences

CONSTANTS Workers,
          Capacity   \* MaxTaskCount

ASSUME CapacityAssumption == Capacity \in Nat \ {0}

NoTask == <<>>

VARIABLES tasks,     \* _task_queue
          hand,      \* per worker: the task it runs
          poolStop   \* _stop_flag

poolVars == <<tasks, hand, poolStop>>

PoolInit == tasks = <<>> /\ hand = [w \in Workers |-> NoTask] /\ poolStop = FALSE

PoolTypeOK == Len(tasks) <= Capacity /\ poolStop \in BOOLEAN

FullTooLate == Len(tasks) > Capacity

Full == Len(tasks) >= Capacity

(* try_put: the queue takes the task, or refuses it at once.                 *)
TryPut(t) ==
    /\ ~poolStop /\ ~Full
    /\ tasks' = Append(tasks, t)
    /\ UNCHANGED <<hand, poolStop>>

Refuses == poolStop \/ Full

Take(w) ==
    /\ hand[w] = NoTask /\ tasks # <<>> /\ ~poolStop
    /\ hand' = [hand EXCEPT ![w] = Head(tasks)]
    /\ tasks' = Tail(tasks)
    /\ UNCHANGED poolStop

Finish(w) == hand' = [hand EXCEPT ![w] = NoTask] /\ UNCHANGED <<tasks, poolStop>>

(* stop: what is still queued stays there.                                   *)
StopPool == ~poolStop /\ poolStop' = TRUE /\ UNCHANGED <<tasks, hand>>
=============================================================================
