------------------------------ MODULE Scheduler ------------------------------
(* The TimerQueue of ScheduledThreadPool: one thread waits on an epoll set   *)
(* of timerfds, one for each job, and runs the callbacks of those that are   *)
(* due one after the other.  The process makes jobs and, at the end, stops   *)
(* the queue; it never cancels a job.                                        *)
EXTENDS FiniteSets

CONSTANTS Repeating,  \* jobs added with an interval
          OneShot     \* jobs added without

Jobs == Repeating \cup OneShot
NoJob == "no job"

ASSUME JobsAssumption == NoJob \notin Jobs

VARIABLES isStop,      \* _is_stop
          thread,      \* the thread of the queue: "created", "polling", "handling", "ended"
          ready,       \* events of this round whose timer is still to be looked up
          jobRunning,  \* the job whose callback runs
          job,         \* per job: "none", "failed", "armed", "due", "removed", "closed"
          process      \* the process: "constructing", "up", "stopping", "stopped"

schedulerVars == <<isStop, thread, ready, jobRunning, job, process>>

(* The thread exists, and the constructor has not yet cleared _is_stop.      *)
SchedulerInit ==
    /\ isStop = TRUE /\ thread = "created" /\ ready = {} /\ jobRunning = NoJob
    /\ job = [j \in Jobs |-> "none"] /\ process = "constructing"

SchedulerTypeOK ==
    /\ job \in [Jobs -> {"none", "failed", "armed", "due", "removed", "closed"}]
    /\ jobRunning \in Jobs \cup {NoJob} /\ ready \subseteq Jobs
    /\ (ready # {} \/ jobRunning # NoJob) => thread = "handling"

InQueue == {j \in Jobs : job[j] \in {"armed", "due"}}

ClearStop ==
    /\ process = "constructing" /\ process' = "up" /\ isStop' = FALSE
    /\ UNCHANGED <<thread, ready, jobRunning, job>>

(* while (!_is_stop): the thread that is faster than the constructor ends.   *)
TestStop ==
    /\ thread = "created" \/ (thread = "handling" /\ ready = {} /\ jobRunning = NoJob)
    /\ thread' = IF isStop THEN "ended" ELSE "polling"
    /\ UNCHANGED <<isStop, ready, jobRunning, job, process>>

(* epoll_wait fails for another reason than a signal.                        *)
PollFails ==
    /\ thread = "polling" /\ thread' = "ended"
    /\ UNCHANGED <<isStop, ready, jobRunning, job, process>>

PollJobs ==
    /\ thread = "polling" /\ thread' = "handling"
    /\ ready' \in (SUBSET {j \in Jobs : job[j] = "due"})
    /\ UNCHANGED <<isStop, jobRunning, job, process>>

(* handleEvent reads the timerfd, which goes on if it repeats.               *)
StartJob(j) ==
    /\ thread = "handling" /\ jobRunning = NoJob /\ j \in ready
    /\ ready' = ready \ {j}
    /\ IF j \in InQueue
       THEN jobRunning' = j /\ job' = [job EXCEPT ![j] = "armed"]
       ELSE UNCHANGED <<jobRunning, job>>
    /\ UNCHANGED <<isStop, thread, process>>

(* A job that does not repeat is removed when its callback has run.          *)
FinishJob ==
    /\ jobRunning # NoJob /\ jobRunning' = NoJob
    /\ job' = [job EXCEPT ![jobRunning] = IF jobRunning \in Repeating THEN @ ELSE "removed"]
    /\ UNCHANGED <<isStop, thread, ready, process>>

(* addTimer, which fails when the timerfd cannot be made, set or registered. *)
AddJob(j) ==
    /\ process = "up" /\ job[j] = "none"
    /\ job' = [job EXCEPT ![j] = "armed"] \/ job' = [job EXCEPT ![j] = "failed"]
    /\ UNCHANGED <<isStop, thread, ready, jobRunning, process>>

(* The time of a job comes; for a one-shot job only once.                    *)
Expire(j) ==
    /\ job[j] = "armed" /\ (j \in OneShot => jobRunning # j)
    /\ job' = [job EXCEPT ![j] = "due"]
    /\ UNCHANGED <<isStop, thread, ready, jobRunning, process>>

(* stopQueue: the flag, the join, and only then the timers.                  *)
StopJobs ==
    /\ process = "up" /\ process' = "stopping" /\ isStop' = TRUE
    /\ UNCHANGED <<thread, ready, jobRunning, job>>

CloseJobs ==
    /\ process = "stopping" /\ thread = "ended"
    /\ process' = "stopped"
    /\ job' = [j \in Jobs |-> IF j \in InQueue THEN "closed" ELSE job[j]]
    /\ UNCHANGED <<isStop, thread, ready, jobRunning>>

SchedulerNext ==
    \/ ClearStop \/ TestStop \/ PollFails \/ PollJobs \/ FinishJob \/ StopJobs \/ CloseJobs
    \/ \E j \in Jobs : StartJob(j) \/ AddJob(j) \/ Expire(j)

-----------------------------------------------------------------------------
(* No timer is closed or removed under the thread that handles it, timers    *)
(* are closed only when the thread has ended, and a repeating job stays in   *)
(* the queue until then.                                                     *)
JobsKept ==
    /\ jobRunning # NoJob => job[jobRunning] \in {"armed", "due"}
    /\ \A j \in Jobs : job[j] = "closed" => thread = "ended" /\ process = "stopped"
    /\ \A j \in Repeating : job[j] # "removed"
=============================================================================
