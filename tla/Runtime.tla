------------------------------- MODULE Runtime -------------------------------
(* The threads of the server process and of the programs built on the same   *)
(* library: connections and workers, the database pools, the timers of a     *)
(* loop, the scheduler, an outgoing connection and the log.  They share no   *)
(* variable but through calls that are in the models of both sides, so that  *)
(* a behaviour moves one of them; an invariant of one part is violated by    *)
(* all together only if it is by that part alone.                            *)
EXTENDS Connections, Pools, LoopTimers, Scheduler, Connector, AsyncLog

ASSUME RuntimeAssumption == NetSeeds # {} /\ ClientSeeds # {} /\ LogSeeds # {}

VARIABLE part   \* the part that moves in this behaviour

Parts == {"net", "pools", "timers", "jobs", "client", "log"}
runtimeVars == <<netVars, poolsVars, timerVars, schedulerVars, connectorVars, logVars, part>>

Of(p, seeds) == IF part = p THEN seeds ELSE {CHOOSE s \in seeds : TRUE}

RuntimeInit ==
    /\ part \in Parts
    /\ NetInit(Of("net", NetSeeds))
    /\ PoolsInit(Of("pools", {"mysql", "redis"}))
    /\ TimersInit /\ SchedulerInit
    /\ ConnectorInit(Of("client", ClientSeeds))
    /\ LogInit(Of("log", LogSeeds))

Moves(p) ==
    /\ part = p /\ UNCHANGED part
    /\ p # "net" => UNCHANGED netVars
    /\ p # "pools" => UNCHANGED poolsVars
    /\ p # "timers" => UNCHANGED timerVars
    /\ p # "jobs" => UNCHANGED schedulerVars
    /\ p # "client" => UNCHANGED connectorVars
    /\ p # "log" => UNCHANGED logVars

RuntimeNext ==
    \/ NetNext /\ Moves("net")
    \/ PoolsNext /\ Moves("pools")
    \/ TimersNext /\ Moves("timers")
    \/ SchedulerNext /\ Moves("jobs")
    \/ ConnectorNext /\ Moves("client")
    \/ LogNext /\ Moves("log")

RuntimeSpec == RuntimeInit /\ [][RuntimeNext]_runtimeVars /\ NetFairness

-----------------------------------------------------------------------------
(* Every variable stays in its type; bounded queues and counters stay within *)
(* their bounds.                                                             *)
RuntimeTypeOK ==
    /\ NetTypeOK /\ PoolsTypeOK /\ TimersTypeOK /\ SchedulerTypeOK /\ ConnectorTypeOK /\ LogTypeOK

(* The assertions of the network library hold, on the side of the server and *)
(* on the side of a client.                                                  *)
AssertionsHold == NetAssertions /\ ConnectorSound

(* The timers of both libraries are noticed when they are due, and none is   *)
(* deleted under the thread that runs it.                                    *)
TimersKept == TimersArmed /\ JobsKept
=============================================================================
