-------------------------------- MODULE Pools --------------------------------
(* ConnectionPool (MySQL) and RedisConnPool: a fixed number of slots, each   *)
(* idle in the list, lost (to be rebuilt by whoever takes it) or with a      *)
(* thread.  Pings and reconnections happen outside the mutex; a thread that  *)
(* finds nothing sleeps on the condition variable for a second.              *)
EXTENDS Naturals, FiniteSets

CONSTANTS Users,    \* worker and scheduler threads that take connections
          Slots     \* maxconn, poolSize

ASSUME SlotsAssumption == Slots \in Nat \ {0} /\ IsFiniteSet(Users)

VARIABLES kind,      \* "mysql" or "redis": which of the two pools this is
          idle,      \* size of connList, connList_
          lost,      \* m_LostConn, lostSlots_
          freeConn,  \* m_FreeConn
          curConn,   \* m_CurConn
          user,      \* per thread: where it is in getConnection
          toCheck,   \* connections the health check has still to look at
          checker    \* where the health check is

poolsVars == <<kind, idle, lost, freeConn, curConn, user, toCheck, checker>>
counts == <<idle, lost, freeConn, curConn>>

(* The constructor and init answer only when every connection was made.      *)
PoolsInit(kinds) ==
    /\ kind \in kinds
    /\ idle = Slots /\ freeConn = Slots /\ lost = 0 /\ curConn = 0
    /\ user = [u \in Users |-> "away"]
    /\ toCheck = 0 /\ checker = "away"

Places == {"away", "asleep", "notified", "pinging", "rebuilding", "made", "using", "notifying"}

PoolsTypeOK ==
    /\ {idle, lost, freeConn, curConn} \subseteq 0 .. Slots
    /\ user \in [Users -> Places]
    /\ checker \in {"away", "between", "pinging", "notifying"} /\ toCheck \in 0 .. Slots

Available == idle + lost > 0
Go(u, place) == user' = [user EXCEPT ![u] = place]

(* One waiter, whichever the system picks, is woken if there is one.         *)
Notified(f) ==
    LET asleep == {u \in Users : f[u] = "asleep"}
    IN IF asleep = {} THEN {f} ELSE {[f EXCEPT ![u] = "notified"] : u \in asleep}

TakeSlot(u) ==
    IF idle > 0
    THEN idle' = idle - 1 /\ freeConn' = freeConn - 1 /\ Go(u, "pinging") /\ UNCHANGED <<lost, curConn>>
    ELSE lost' = lost - 1 /\ Go(u, "rebuilding") /\ UNCHANGED <<idle, freeConn, curConn>>

(* GetConnection: the predicate is tried before the first sleep and after    *)
(* every wake-up.                                                            *)
GetConnection(u) ==
    /\ user[u] \in {"away", "notified"}
    /\ IF Available THEN TakeSlot(u) ELSE Go(u, "asleep") /\ UNCHANGED counts
    /\ UNCHANGED <<kind, toCheck, checker>>

(* The second is over: once more the predicate, then nullptr or an exception.*)
WaitEnds(u) ==
    /\ user[u] \in {"asleep", "notified"}
    /\ IF Available THEN TakeSlot(u) ELSE Go(u, "away") /\ UNCHANGED counts
    /\ UNCHANGED <<kind, toCheck, checker>>

(* The connection answers PING, or it was replaced.                          *)
Usable(u) ==
    /\ user[u] \in {"pinging", "rebuilding"}
    /\ Go(u, IF kind = "mysql" THEN "made" ELSE "using")
    /\ UNCHANGED <<kind, counts, toCheck, checker>>

(* ++m_CurConn comes under a lock of its own.                                *)
CountConnection(u) ==
    /\ user[u] = "made"
    /\ curConn' = curConn + 1 /\ Go(u, "using")
    /\ UNCHANGED <<kind, idle, lost, freeConn, toCheck, checker>>

UnusableForgotten(u) ==
    /\ user[u] \in {"pinging", "rebuilding"}
    /\ Go(u, "away")
    /\ UNCHANGED <<kind, counts, toCheck, checker>>

(* The server cannot be reached: the slot is lost.  RedisConnPool tells      *)
(* nobody when it gives back a slot that was lost before.                    *)
Unusable(u) ==
    /\ user[u] \in {"pinging", "rebuilding"}
    /\ lost' = lost + 1
    /\ LET gone == [user EXCEPT ![u] = "away"]
       IN IF kind = "redis" /\ user[u] = "rebuilding" THEN user' = gone ELSE user' \in Notified(gone)
    /\ UNCHANGED <<kind, idle, freeConn, curConn, toCheck, checker>>

(* releaseConnection: RedisConnPool notifies under the lock.                 *)
ReleaseConnection(u) ==
    /\ user[u] = "using"
    /\ idle' = idle + 1 /\ freeConn' = freeConn + 1
    /\ IF kind = "mysql"
       THEN curConn' = (IF curConn > 0 THEN curConn - 1 ELSE 0) /\ Go(u, "notifying")
       ELSE user' \in Notified([user EXCEPT ![u] = "away"]) /\ UNCHANGED curConn
    /\ UNCHANGED <<kind, lost, toCheck, checker>>

NotifyOne(u) ==
    /\ user[u] = "notifying"
    /\ user' \in Notified([user EXCEPT ![u] = "away"])
    /\ UNCHANGED <<kind, counts, toCheck, checker>>

-----------------------------------------------------------------------------
(* healthCheck of the MySQL pool                                             *)

StartCheck ==
    /\ kind = "mysql" /\ checker = "away" /\ idle > 0
    /\ toCheck' = idle /\ checker' = "between"
    /\ UNCHANGED <<kind, counts, user>>

TakeIdle ==
    /\ checker = "between"
    /\ IF toCheck > 0 /\ idle > 0
       THEN /\ idle' = idle - 1 /\ freeConn' = freeConn - 1 /\ curConn' = curConn + 1
            /\ checker' = "pinging" /\ toCheck' = toCheck - 1
       ELSE checker' = "away" /\ toCheck' = 0 /\ UNCHANGED <<idle, freeConn, curConn>>
    /\ UNCHANGED <<kind, lost, user>>

ReturnIdle ==
    /\ checker = "pinging"
    /\ curConn' = curConn - 1 /\ checker' = "notifying"
    /\ \/ idle' = idle + 1 /\ freeConn' = freeConn + 1 /\ UNCHANGED lost
       \/ lost' = lost + 1 /\ UNCHANGED <<idle, freeConn>>
    /\ UNCHANGED <<kind, user, toCheck>>

NotifyChecked ==
    /\ checker = "notifying"
    /\ user' \in Notified(user) /\ checker' = "between"
    /\ UNCHANGED <<kind, counts, toCheck>>

PoolsNext ==
    \/ \E u \in Users :
          \/ GetConnection(u) \/ WaitEnds(u) \/ Usable(u) \/ CountConnection(u)
          \/ Unusable(u) \/ ReleaseConnection(u) \/ NotifyOne(u)
    \/ StartCheck \/ TakeIdle \/ ReturnIdle \/ NotifyChecked

PoolsSpec == PoolsInit({"mysql", "redis"}) /\ [][PoolsNext]_poolsVars

-----------------------------------------------------------------------------
At(places) == Cardinality({u \in Users : user[u] \in places})
Checking == IF checker = "pinging" THEN 1 ELSE 0

(* No slot is ever lost for good or handed out twice, whatever fails: each   *)
(* is idle, lost, or with exactly one thread; and the two counters that the  *)
(* metrics show are what they say.                                           *)
SlotsKept ==
    /\ idle + lost + At({"pinging", "rebuilding", "made", "using"}) + Checking = Slots
    /\ freeConn = idle
    /\ kind = "mysql" => curConn = At({"using"}) + Checking

(* A thread does not sleep beside a slot it could have: as many wake-ups are *)
(* under way as there are slots to be had.                                   *)
NoMissedSlot ==
    kind = "mysql" /\ At({"asleep"}) > 0 =>
        idle + lost <= At({"notified", "notifying"}) + (IF checker = "notifying" THEN 1 ELSE 0)

SlotsConserved == SlotsKept /\ NoMissedSlot
=============================================================================
