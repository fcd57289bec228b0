---------------------------- MODULE RuntimeProofs ----------------------------
(***************************************************************************)
(* The runtime keeps what each of its parts promises.                      *)
(***************************************************************************)
EXTENDS Runtime, ConnectionsProofs, PartsProofs, LogProofs

-----------------------------------------------------------------------------
(* The parts together.                                                      *)

LEMMA SeedsOf == ASSUME NEW p, NEW seeds, seeds # {} PROVE Of(p, seeds) \subseteq seeds
BY DEF Of

LEMMA PartsInitially ==
    RuntimeInit => /\ NetInit(NetSeeds) /\ PoolsInit({"mysql", "redis"}) /\ TimersInit /\ SchedulerInit
                   /\ ConnectorInit(ClientSeeds) /\ LogInit(LogSeeds)
<1>1. /\ Of("net", NetSeeds) \subseteq NetSeeds /\ Of("client", ClientSeeds) \subseteq ClientSeeds
      /\ Of("log", LogSeeds) \subseteq LogSeeds
  BY SeedsOf, RuntimeAssumption
<1>2. Of("pools", {"mysql", "redis"}) \subseteq {"mysql", "redis"}
  BY SeedsOf
<1>3. RuntimeInit => NetInit(NetSeeds)
  BY <1>1 DEF RuntimeInit, NetInit
<1>4. RuntimeInit => PoolsInit({"mysql", "redis"})
  BY <1>2 DEF RuntimeInit, PoolsInit
<1>5. RuntimeInit => ConnectorInit(ClientSeeds)
  BY <1>1 DEF RuntimeInit, ConnectorInit
<1>6. RuntimeInit => LogInit(LogSeeds)
  BY <1>1 DEF RuntimeInit, LogInit
<1>7. QED
  BY <1>3, <1>4, <1>5, <1>6 DEF RuntimeInit

LEMMA PartsStep ==
    [RuntimeNext]_runtimeVars =>
        /\ [NetNext]_netVars /\ [PoolsNext]_poolsVars /\ [TimersNext]_timerVars
        /\ [SchedulerNext]_schedulerVars /\ [ConnectorNext]_connectorVars /\ [LogNext]_logVars
<1> SUFFICES ASSUME [RuntimeNext]_runtimeVars
             PROVE  /\ [NetNext]_netVars /\ [PoolsNext]_poolsVars /\ [TimersNext]_timerVars
                    /\ [SchedulerNext]_schedulerVars /\ [ConnectorNext]_connectorVars /\ [LogNext]_logVars
  OBVIOUS
<1>1. CASE UNCHANGED runtimeVars
  BY <1>1 DEF runtimeVars
<1>2. CASE NetNext /\ Moves("net")
  BY <1>2 DEF Moves
<1>3. CASE PoolsNext /\ Moves("pools")
  BY <1>3 DEF Moves
<1>4. CASE TimersNext /\ Moves("timers")
  BY <1>4 DEF Moves
<1>5. CASE SchedulerNext /\ Moves("jobs")
  BY <1>5 DEF Moves
<1>6. CASE ConnectorNext /\ Moves("client")
  BY <1>6 DEF Moves
<1>7. CASE LogNext /\ Moves("log")
  BY <1>7 DEF Moves
<1>8. QED
  BY <1>1, <1>2, <1>3, <1>4, <1>5, <1>6, <1>7 DEF RuntimeNext

\* The runtime is a behaviour of each of its parts: what was proved of the
\* event loops, the connections, the pools, the timers and the log alone holds
\* in it.
THEOREM RuntimeRunsItsParts == 
    RuntimeSpec => NetSpec /\ PoolsSpec /\ TimersSpec /\ SchedulerSpec /\ ConnectorSpec /\ LogSpec
BY PartsInitially, PartsStep, PTL
   DEF RuntimeSpec, NetSpec, PoolsSpec, TimersSpec, SchedulerSpec, ConnectorSpec, LogSpec

\* No timer is missed, none is deleted while somebody holds it, a cancelled
\* one does not come back, and the jobs of the scheduler stay until its thread
\* has ended.
THEOREM TimersStayKept == RuntimeSpec => []TimersKept
BY RuntimeRunsItsParts, TimersStayArmed, JobsStayKept, PTL DEF TimersKept

\* No assertion of the network library fails, in the server and in a client.
THEOREM AssertionsAlwaysHold == RuntimeSpec => []AssertionsHold
BY RuntimeRunsItsParts, NetAssertionsHold, ConnectorStaysSound, PTL DEF AssertionsHold

\* What the parts promise, the runtime keeps: slots, the connection counter,
\* wake-ups, the order of the output and every request that was asked.
THEOREM RuntimeKeepsPromises ==
    RuntimeSpec => [](SlotsConserved /\ ConnectionsCounted /\ NoLostWakeup /\ OutputInOrder /\ AllAccounted)
BY RuntimeRunsItsParts, PoolsConserveSlots, ConnectionsAreCounted, NoWakeupIsLost, OutputKeepsOrder,
   RequestsAreAccounted, PTL

\* Every queue, counter and state of the runtime stays in its type and within
\* its bound.
THEOREM RuntimeIsTyped == RuntimeSpec => []RuntimeTypeOK
BY RuntimeRunsItsParts, ConnectionsTypeCorrect, PoolsTypeCorrect, PartsTypeCorrect, LogTypeCorrect, PTL
   DEF RuntimeTypeOK

\* The log loses, repeats and reorders nothing, next to everything else.
THEOREM LogKeepsOrder == RuntimeSpec => []LogInOrder
BY RuntimeRunsItsParts, LogKeepsMessages, PTL
=============================================================================
