----------------------------- MODULE PartsProofs -----------------------------
(***************************************************************************)
(* Proofs about the parts of the runtime that need no other: connection    *)
(* pools, timers of a loop, the scheduler's jobs, an outgoing connection;  *)
(* for any number of slots, threads, timers, jobs and any delays.          *)
(***************************************************************************)
EXTENDS Pools, LoopTimers, Scheduler, Connector, FiniteSetTheorems, TLAPS

-----------------------------------------------------------------------------
(* Counting threads by place.                                              *)

Holders(f, P) == {v \in Users : f[v] \in P}
Count(f, P) == Cardinality(Holders(f, P))
Bit(b) == IF b THEN 1 ELSE 0

LEMMA CountType == ASSUME NEW f, NEW P PROVE IsFiniteSet(Holders(f, P)) /\ Count(f, P) \in Nat
<1>1. IsFiniteSet(Holders(f, P))
  BY FS_Subset, SlotsAssumption DEF Holders
<1>2. QED
  BY <1>1, FS_CardinalityType DEF Count

\* One thread that goes elsewhere leaves the count of the places it was in
\* and enters the count of those it goes to.
LEMMA CountMove ==
    ASSUME NEW f \in [Users -> Places], NEW u \in Users, NEW q \in Places, NEW P
    PROVE  Count([f EXCEPT ![u] = q], P) = Count(f, P) - Bit(f[u] \in P) + Bit(q \in P)
<1> DEFINE g == [f EXCEPT ![u] = q]
           others == Holders(f, P) \ {u}
<1>1. IsFiniteSet(Holders(f, P)) /\ IsFiniteSet(others) /\ Count(f, P) \in Nat
  BY CountType, FS_Subset
<1>2. Cardinality(others) \in Nat
  BY <1>1, FS_CardinalityType
<1>3. Count(f, P) = Cardinality(others) + Bit(f[u] \in P)
  <2>1. CASE f[u] \in P
    <3>1. Holders(f, P) = others \cup {u}
      BY <2>1 DEF Holders
    <3>2. Cardinality(others \cup {u}) = Cardinality(others) + 1
      BY <1>1, FS_AddElement
    <3>3. QED
      BY <2>1, <3>1, <3>2 DEF Count, Bit
  <2>2. CASE f[u] \notin P
    <3>1. Holders(f, P) = others
      BY <2>2 DEF Holders
    <3>2. QED
      BY <2>2, <3>1, <1>2 DEF Count, Bit
  <2>3. QED
    BY <2>1, <2>2
<1>4. Count(g, P) = Cardinality(others) + Bit(q \in P)
  <2>1. CASE q \in P
    <3>1. Holders(g, P) = others \cup {u}
      BY <2>1 DEF Holders
    <3>2. Cardinality(others \cup {u}) = Cardinality(others) + 1
      BY <1>1, FS_AddElement
    <3>3. QED
      BY <2>1, <3>1, <3>2 DEF Count, Bit
  <2>2. CASE q \notin P
    <3>1. Holders(g, P) = others
      BY <2>2 DEF Holders
    <3>2. Count(g, P) = Cardinality(others) /\ Bit(q \in P) = 0
      BY <2>2, <3>1 DEF Count, Bit
    <3>3. QED
      BY <3>2, <1>2
  <2>3. QED
    BY <2>1, <2>2
<1>5. QED
  BY <1>2, <1>3, <1>4 DEF Bit

LEMMA CountEmpty == ASSUME NEW f, NEW P, \A u \in Users : f[u] \notin P PROVE Count(f, P) = 0
<1>1. Holders(f, P) = {}
  BY DEF Holders
<1>2. QED
  BY <1>1, FS_EmptySet DEF Count

-----------------------------------------------------------------------------
(* What one step does to the four counts the invariants speak of.          *)

Held == {"pinging", "rebuilding", "made", "using"}
Woken == {"notified", "notifying"}

Counts(f, held, using, asleep, woken) ==
    /\ held = Count(f, Held) /\ using = Count(f, {"using"})
    /\ asleep = Count(f, {"asleep"}) /\ woken = Count(f, Woken)
    /\ {held, using, asleep, woken} \subseteq Nat /\ using <= held

LEMMA CountsOf ==
    ASSUME NEW f
    PROVE  Counts(f, Count(f, Held), Count(f, {"using"}), Count(f, {"asleep"}), Count(f, Woken))
<1>1. Holders(f, {"using"}) \in SUBSET Holders(f, Held)
  BY DEF Holders, Held
<1>2. Count(f, {"using"}) <= Count(f, Held)
  BY <1>1, CountType, FS_Subset DEF Count
<1>3. QED
  BY <1>2, CountType DEF Counts

(* The counts i, j, m, n after h, s, a, w when one thread goes from p to q.  *)
Move(p, q, h, s, a, w, i, j, m, n) ==
    /\ i = h - Bit(p \in Held) + Bit(q \in Held)
    /\ j = s - Bit(p = "using") + Bit(q = "using")
    /\ m = a - Bit(p = "asleep") + Bit(q = "asleep")
    /\ n = w - Bit(p \in Woken) + Bit(q \in Woken)

LEMMA CountsMove ==
    ASSUME NEW f \in [Users -> Places], NEW u \in Users, NEW q \in Places,
           NEW h, NEW s, NEW a, NEW w, Counts(f, h, s, a, w),
           NEW i, NEW j, NEW m, NEW n, Move(f[u], q, h, s, a, w, i, j, m, n)
    PROVE  [f EXCEPT ![u] = q] \in [Users -> Places] /\ Counts([f EXCEPT ![u] = q], i, j, m, n)
<1> DEFINE g == [f EXCEPT ![u] = q]
<1>1. g \in [Users -> Places]
  OBVIOUS
<1>2. /\ Count(g, Held) = h - Bit(f[u] \in Held) + Bit(q \in Held)
      /\ Count(g, {"using"}) = s - Bit(f[u] \in {"using"}) + Bit(q \in {"using"})
      /\ Count(g, {"asleep"}) = a - Bit(f[u] \in {"asleep"}) + Bit(q \in {"asleep"})
      /\ Count(g, Woken) = w - Bit(f[u] \in Woken) + Bit(q \in Woken)
  BY CountMove DEF Counts
<1>3. /\ Bit(f[u] \in {"using"}) = Bit(f[u] = "using") /\ Bit(q \in {"using"}) = Bit(q = "using")
      /\ Bit(f[u] \in {"asleep"}) = Bit(f[u] = "asleep") /\ Bit(q \in {"asleep"}) = Bit(q = "asleep")
  BY DEF Bit
<1> HIDE DEF g
<1>4. Count(g, Held) = i /\ Count(g, {"using"}) = j /\ Count(g, {"asleep"}) = m /\ Count(g, Woken) = n
  BY <1>2, <1>3 DEF Move
<1>5. Counts(g, i, j, m, n)
  BY <1>4, CountsOf
<1>6. QED
  BY <1>1, <1>5 DEF g

\* notify_one: either nobody sleeps, or one sleeper becomes notified.
LEMMA CountsNotified ==
    ASSUME NEW f \in [Users -> Places], NEW g \in Notified(f),
           NEW h, NEW s, NEW a, NEW w, Counts(f, h, s, a, w)
    PROVE  /\ g \in [Users -> Places]
           /\ \/ a = 0 /\ Counts(g, h, s, a, w)
              \/ a > 0 /\ Counts(g, h, s, a - 1, w + 1)
<1> DEFINE asleep == {u \in Users : f[u] = "asleep"}
<1>1. CASE asleep = {}
  <2>1. g = f
    BY <1>1 DEF Notified
  <2>2. a = 0
    BY <1>1, CountEmpty DEF Counts
  <2>3. QED
    BY <2>1, <2>2
<1>2. CASE asleep # {}
  <2>1. PICK u \in asleep : g = [f EXCEPT ![u] = "notified"]
    BY <1>2 DEF Notified
  <2>2. h \in Nat /\ s \in Nat /\ a \in Nat /\ w \in Nat
    BY DEF Counts
  <2>3. Move(f[u], "notified", h, s, a, w, h, s, a - 1, w + 1)
    BY <2>2 DEF Move, Bit, Held, Woken
  <2>4. g \in [Users -> Places] /\ Counts(g, h, s, a - 1, w + 1)
    BY <2>1, <2>3, CountsMove DEF Places
  <2>5. a > 0
    BY <2>2, <2>4 DEF Counts
  <2>6. QED
    BY <2>4, <2>5
<1>3. QED
  BY <1>1, <1>2

-----------------------------------------------------------------------------
(* The invariant, in terms of the four counts.                             *)

\* Only the MySQL pool has a health check and counts under a lock of its own.
OnlyMySQL == kind # "mysql" => checker = "away" /\ \A u \in Users : user[u] \notin {"made", "notifying"}

PoolsInv == PoolsTypeOK /\ SlotsKept /\ NoMissedSlot /\ OnlyMySQL

Waker == IF checker = "notifying" THEN 1 ELSE 0

Balanced(h, s, a, w) ==
    /\ idle \in Nat /\ lost \in Nat /\ freeConn = idle /\ curConn \in 0 .. Slots
    /\ idle + lost + h + Checking = Slots
    /\ kind = "mysql" => curConn = s + Checking
    /\ kind = "mysql" /\ a > 0 => idle + lost <= w + Waker
    /\ checker \in {"away", "between", "pinging", "notifying"} /\ toCheck \in 0 .. Slots

LEMMA BitType ==
    Checking \in Nat /\ Waker \in Nat /\ Checking' \in Nat /\ Waker' \in Nat
BY DEF Checking, Waker

LEMMA SumBounds ==
    ASSUME NEW x \in Nat, NEW y \in Nat, NEW i \in Nat, NEW c \in Nat, NEW n \in Nat, x + y + i + c = n
    PROVE  x \in 0 .. n /\ y \in 0 .. n
OBVIOUS

LEMMA InvBalanced ==
    ASSUME NEW h, NEW s, NEW a, NEW w, Counts(user, h, s, a, w)
    PROVE  PoolsInv <=> user \in [Users -> Places] /\ Balanced(h, s, a, w) /\ OnlyMySQL
<1>1. /\ At({"pinging", "rebuilding", "made", "using"}) = h /\ At({"using"}) = s
      /\ At({"asleep"}) = a /\ At({"notified", "notifying"}) = w
  BY DEF At, Counts, Count, Holders, Held, Woken
<1>2. h \in Nat /\ s \in Nat /\ a \in Nat /\ w \in Nat
  BY DEF Counts
<1>3. Slots \in Nat
  BY SlotsAssumption
<1>4. QED
  BY <1>1, <1>2, <1>3 DEF PoolsInv, PoolsTypeOK, SlotsKept, NoMissedSlot, Balanced, Checking, Waker, Bit, Counts

LEMMA PoolsInitInv == PoolsInit({"mysql", "redis"}) => PoolsInv
<1> SUFFICES ASSUME PoolsInit({"mysql", "redis"}) PROVE PoolsInv
  OBVIOUS
<1>1. user \in [Users -> Places] /\ \A u \in Users : user[u] = "away"
  BY DEF PoolsInit, Places
<1>2. \A P : "away" \notin P => Count(user, P) = 0
  BY <1>1, CountEmpty
<1>3. Counts(user, 0, 0, 0, 0)
  BY <1>2, CountsOf DEF Counts, Held, Woken
<1>4. Balanced(0, 0, 0, 0)
  BY SlotsAssumption DEF PoolsInit, Balanced, Checking, Waker, Bit
<1>5. OnlyMySQL
  BY <1>1 DEF OnlyMySQL, PoolsInit
<1>6. QED
  BY <1>1, <1>3, <1>4, <1>5, InvBalanced

LEMMA OnlyMySQLKept == user \in [Users -> Places] /\ OnlyMySQL /\ [PoolsNext]_poolsVars => OnlyMySQL'
<1> SUFFICES ASSUME user \in [Users -> Places], OnlyMySQL, [PoolsNext]_poolsVars PROVE OnlyMySQL'
  OBVIOUS
<1>1. CASE kind = "mysql"
  BY <1>1 DEF OnlyMySQL, PoolsNext, poolsVars, GetConnection, WaitEnds, Usable, CountConnection, Unusable,
              ReleaseConnection, NotifyOne, StartCheck, TakeIdle, ReturnIdle, NotifyChecked
<1>2. CASE kind # "mysql"
  <2>1. \A f \in [Users -> Places] : \A g \in Notified(f) :
            (\A u \in Users : f[u] \notin {"made", "notifying"}) => \A u \in Users : g[u] \notin {"made", "notifying"}
    BY DEF Notified
  <2>2. \A u \in Users : [user EXCEPT ![u] = "away"] \in [Users -> Places]
    BY DEF Places
  <2>3. CASE \E u \in Users : GetConnection(u) \/ WaitEnds(u) \/ Usable(u) \/ CountConnection(u)
    BY <1>2, <2>3 DEF OnlyMySQL, GetConnection, WaitEnds, TakeSlot, Go, Usable, CountConnection
  <2>4. CASE \E u \in Users : Unusable(u) \/ ReleaseConnection(u) \/ NotifyOne(u)
    <3>1. PICK u \in Users : Unusable(u) \/ ReleaseConnection(u) \/ NotifyOne(u)
      BY <2>4
    <3>2. /\ kind' = kind /\ checker' = checker
          /\ user' = [user EXCEPT ![u] = "away"] \/ user' \in Notified([user EXCEPT ![u] = "away"])
      BY <1>2, <3>1 DEF OnlyMySQL, Unusable, ReleaseConnection, NotifyOne
    <3>3. \A v \in Users : [user EXCEPT ![u] = "away"][v] \notin {"made", "notifying"}
      BY <1>2 DEF OnlyMySQL
    <3>4. QED
      BY <1>2, <2>1, <2>2, <3>2, <3>3 DEF OnlyMySQL
  <2>5. CASE StartCheck \/ TakeIdle \/ ReturnIdle \/ NotifyChecked \/ UNCHANGED poolsVars
    BY <1>2, <2>5 DEF OnlyMySQL, StartCheck, TakeIdle, ReturnIdle, NotifyChecked, poolsVars
  <2>6. QED
    BY <2>3, <2>4, <2>5 DEF PoolsNext
<1>3. QED
  BY <1>1, <1>2

\* The proof that a step keeps the invariant says what it does to the counts.
LEMMA PoolsStepInv == PoolsInv /\ [PoolsNext]_poolsVars => PoolsInv'
<1> SUFFICES ASSUME PoolsInv, [PoolsNext]_poolsVars PROVE PoolsInv'
  OBVIOUS
<1>1. PICK h, s, a, w : Counts(user, h, s, a, w)
  BY CountsOf
<1>2. user \in [Users -> Places] /\ Balanced(h, s, a, w) /\ {h, s, a, w} \subseteq Nat /\ s <= h
  BY <1>1, InvBalanced DEF Counts
<1>m. OnlyMySQL /\ OnlyMySQL'
  BY <1>2, OnlyMySQLKept DEF PoolsInv
<1>3. ASSUME NEW i, NEW j, NEW m, NEW n, Counts(user', i, j, m, n), user' \in [Users -> Places],
             Balanced(i, j, m, n)'
      PROVE  PoolsInv'
  <2>1. /\ Cardinality({u \in Users : user'[u] \in {"pinging", "rebuilding", "made", "using"}}) = i
        /\ Cardinality({u \in Users : user'[u] \in {"using"}}) = j
        /\ Cardinality({u \in Users : user'[u] \in {"asleep"}}) = m
        /\ Cardinality({u \in Users : user'[u] \in {"notified", "notifying"}}) = n
    BY <1>3 DEF Counts, Count, Holders, Held, Woken
  <2>2. i \in Nat /\ j \in Nat /\ m \in Nat /\ n \in Nat /\ Slots \in Nat
    BY <1>3, SlotsAssumption DEF Counts
  <2>3. SlotsKept'
    BY <1>3, <2>1, <2>2 DEF SlotsKept, Balanced, Checking, Bit, At
  <2>4. NoMissedSlot'
    BY <1>3, <2>1, <2>2 DEF NoMissedSlot, Balanced, Checking, Waker, Bit, At
  <2>a. idle' \in Nat /\ lost' \in Nat /\ freeConn' = idle' /\ curConn' \in 0 .. Slots
    BY <1>3 DEF Balanced, Checking, Waker
  <2>b. idle' + lost' + i + Checking' = Slots
    BY <1>3 DEF Balanced
  <2>5. idle' \in 0 .. Slots /\ lost' \in 0 .. Slots /\ freeConn' \in 0 .. Slots /\ curConn' \in 0 .. Slots
    BY <2>2, <2>a, <2>b, BitType, SumBounds
  <2>6. PoolsTypeOK'
    BY <1>3, <2>5 DEF PoolsTypeOK, Balanced, Checking, Waker
  <2>7. QED
    BY <1>m, <2>3, <2>4, <2>6 DEF PoolsInv
<1> USE SlotsAssumption
<1>4. ASSUME NEW u \in Users, NEW q \in Places, NEW i, NEW j, NEW m, NEW n,
             Move(user[u], q, h, s, a, w, i, j, m, n)
      PROVE  /\ [user EXCEPT ![u] = q] \in [Users -> Places]
             /\ Counts([user EXCEPT ![u] = q], i, j, m, n)
             /\ i \in Nat /\ j \in Nat /\ m \in Nat /\ n \in Nat /\ j <= i
  <2>1. [user EXCEPT ![u] = q] \in [Users -> Places] /\ Counts([user EXCEPT ![u] = q], i, j, m, n)
    BY <1>1, <1>2, <1>4, CountsMove
  <2>2. QED
    BY <2>1 DEF Counts
<1>5. ASSUME NEW f \in [Users -> Places], user' \in Notified(f), NEW i, NEW j, NEW m, NEW n,
             Counts(f, i, j, m, n),
             m = 0 => Balanced(i, j, 0, n)',
             m > 0 => Balanced(i, j, m - 1, n + 1)'
      PROVE  PoolsInv'
  BY <1>3, <1>5, CountsNotified
<1>6. ASSUME NEW u \in Users, NEW q \in {"pinging", "rebuilding", "away", "asleep"},
             user[u] \in {"away", "notified", "asleep"}, user' = [user EXCEPT ![u] = q],
             q \in {"pinging", "rebuilding"} => Available /\ TakeSlot(u),
             q \in {"away", "asleep"} => ~Available /\ UNCHANGED counts,
             UNCHANGED <<kind, toCheck, checker>>
      PROVE  PoolsInv'
  <2>1. q \in Places
    BY DEF Places
  <2>2. PICK i, j, m, n : Move(user[u], q, h, s, a, w, i, j, m, n)
    BY DEF Move
  <2>c. /\ [user EXCEPT ![u] = q] \in [Users -> Places] /\ Counts([user EXCEPT ![u] = q], i, j, m, n)
        /\ i \in Nat /\ j \in Nat /\ m \in Nat /\ n \in Nat /\ j <= i
    BY <1>4, <2>1, <2>2
  <2>3. /\ i = h + Bit(q \in {"pinging", "rebuilding"}) /\ j = s
        /\ m <= a + Bit(q = "asleep") /\ n >= w - 1
    BY <1>2, <1>6, <2>2 DEF Bit, Held, Woken, Move
  <2>4. Balanced(i, j, m, n)'
    <3>1. CASE q \in {"pinging", "rebuilding"}
      <4>1. m <= a /\ i = h + 1
        BY <3>1, <2>3, <1>2 DEF Bit
      <4>2. CASE idle > 0
        <5>1. idle' = idle - 1 /\ lost' = lost /\ freeConn' = freeConn - 1 /\ curConn' = curConn
          BY <3>1, <1>2, <1>6, <4>2 DEF TakeSlot
        <5>2. QED
          BY <1>2, <1>6, <2>c, <2>3, <4>1, <4>2, <5>1 DEF Balanced, Checking, Waker
      <4>3. CASE ~(idle > 0)
        <5>1. idle' = idle /\ lost' = lost - 1 /\ freeConn' = freeConn /\ curConn' = curConn /\ lost > 0
          BY <3>1, <1>2, <1>6, <4>3 DEF TakeSlot, Available, Balanced
        <5>2. QED
          BY <1>2, <1>6, <2>c, <2>3, <4>1, <4>3, <5>1 DEF Balanced, Checking, Waker
      <4>4. QED
        BY <4>2, <4>3
    <3>2. CASE q \in {"away", "asleep"}
      <4>1. idle + lost = 0 /\ i = h
        BY <1>2, <1>6, <2>3, <3>2 DEF Available, Balanced, Checking, Waker, Bit
      <4>2. QED
        BY <1>2, <1>6, <2>c, <2>3, <3>2, <4>1 DEF Balanced, Checking, Waker, Bit, counts
    <3>3. QED
      BY <3>1, <3>2
  <2>5. QED
    BY <1>3, <1>6, <2>c, <2>4
<1>7. ASSUME NEW u \in Users, GetConnection(u) PROVE PoolsInv'
  <2>1. CASE Available /\ idle > 0
    BY <1>6, <1>7, <2>1 DEF GetConnection, TakeSlot, Go
  <2>2. CASE Available /\ ~(idle > 0)
    BY <1>6, <1>7, <2>2 DEF GetConnection, TakeSlot, Go
  <2>3. CASE ~Available
    BY <1>6, <1>7, <2>3 DEF GetConnection, TakeSlot, Go
  <2>4. QED
    BY <2>1, <2>2, <2>3
<1>8. ASSUME NEW u \in Users, WaitEnds(u) PROVE PoolsInv'
  <2>1. CASE Available /\ idle > 0
    BY <1>6, <1>8, <2>1 DEF WaitEnds, TakeSlot, Go
  <2>2. CASE Available /\ ~(idle > 0)
    BY <1>6, <1>8, <2>2 DEF WaitEnds, TakeSlot, Go
  <2>3. CASE ~Available
    BY <1>6, <1>8, <2>3 DEF WaitEnds, TakeSlot, Go
  <2>4. QED
    BY <2>1, <2>2, <2>3
<1>9. ASSUME NEW u \in Users, Usable(u) PROVE PoolsInv'
  <2>1. CASE kind = "mysql"
    <3>1. user' = [user EXCEPT ![u] = "made"] /\ user' \in [Users -> Places]
      BY <1>2, <1>9, <2>1 DEF Usable, Go, Places
    <3>m. Move(user[u], "made", h, s, a, w, h, s, a, w)
      BY <1>2, <1>9 DEF Usable, Bit, Held, Woken, Move
    <3>2. Counts(user', h, s, a, w)
      BY <1>4, <3>1, <3>m DEF Places
    <3>3. Balanced(h, s, a, w)'
      BY <1>2, <1>9 DEF Usable, Balanced, Checking, Waker, counts
    <3>4. QED
      BY <1>3, <3>1, <3>2, <3>3
  <2>2. CASE kind # "mysql"
    <3>1. user' = [user EXCEPT ![u] = "using"] /\ user' \in [Users -> Places]
      BY <1>2, <1>9, <2>2 DEF Usable, Go, Places
    <3>m. Move(user[u], "using", h, s, a, w, h, s + 1, a, w)
      BY <1>2, <1>9 DEF Usable, Bit, Held, Woken, Move
    <3>2. Counts(user', h, s + 1, a, w)
      BY <1>4, <3>1, <3>m DEF Places
    <3>3. Balanced(h, s + 1, a, w)'
      BY <1>2, <1>9, <2>2 DEF Usable, Balanced, Checking, Waker, counts
    <3>4. QED
      BY <1>3, <3>1, <3>2, <3>3
  <2>3. QED
    BY <2>1, <2>2
<1>10. ASSUME NEW u \in Users, CountConnection(u) PROVE PoolsInv'
  <2>1. user' = [user EXCEPT ![u] = "using"] /\ user' \in [Users -> Places] /\ kind = "mysql"
    BY <1>2, <1>m, <1>10 DEF CountConnection, Go, Places, OnlyMySQL
  <2>m. Move(user[u], "using", h, s, a, w, h, s + 1, a, w)
    BY <1>2, <1>10 DEF CountConnection, Bit, Held, Woken, Move
  <2>2. Counts(user', h, s + 1, a, w) /\ s + 1 <= h
    BY <1>4, <2>1, <2>m DEF Places
  <2>3. Balanced(h, s + 1, a, w)'
    BY <1>2, <1>10, <2>1, <2>2 DEF CountConnection, Balanced, Checking, Waker, Bit
  <2>4. QED
    BY <1>3, <2>1, <2>2, <2>3
<1>11. ASSUME NEW u \in Users, Unusable(u) PROVE PoolsInv'
  <2> DEFINE without == [user EXCEPT ![u] = "away"]
  <2>1. without \in [Users -> Places]
    BY <1>2 DEF Places
  <2>m. Move(user[u], "away", h, s, a, w, h - 1, s, a, w)
    BY <1>2, <1>11 DEF Unusable, Bit, Held, Woken, Move
  <2>2. Counts(without, h - 1, s, a, w) /\ h - 1 \in Nat
    BY <1>4, <2>m DEF Places
  <2> HIDE DEF without
  <2>3. CASE kind = "mysql"
    <3>1. user' \in Notified(without)
      BY <1>11, <2>3 DEF Unusable, without
    <3>2. a = 0 => Balanced(h - 1, s, 0, w)'
      BY <1>2, <1>11, <2>2, <2>3 DEF Unusable, Balanced, Checking, Waker, Bit
    <3>3. a > 0 => Balanced(h - 1, s, a - 1, w + 1)'
      BY <1>2, <1>11, <2>2, <2>3 DEF Unusable, Balanced, Checking, Waker, Bit
    <3>4. QED
      BY <1>5, <2>1, <2>2, <3>1, <3>2, <3>3
  <2>4. CASE kind # "mysql"
    <3>1. user' = without \/ user' \in Notified(without)
      BY <1>11 DEF Unusable, without
    <3>2. \A m, n : Balanced(h - 1, s, m, n)'
      BY <1>2, <1>11, <2>2, <2>4 DEF Unusable, Balanced, Checking, Waker, Bit
    <3>3. QED
      BY <1>3, <1>5, <2>1, <2>2, <3>1, <3>2
  <2>5. QED
    BY <2>3, <2>4
<1>12. ASSUME NEW u \in Users, ReleaseConnection(u) PROVE PoolsInv'
  <2>1. CASE kind = "mysql"
    <3>1. user' = [user EXCEPT ![u] = "notifying"] /\ user' \in [Users -> Places]
      BY <1>2, <1>12, <2>1 DEF ReleaseConnection, Go, Places
    <3>m. Move(user[u], "notifying", h, s, a, w, h - 1, s - 1, a, w + 1)
      BY <1>2, <1>12 DEF ReleaseConnection, Bit, Held, Woken, Move
    <3>2. Counts(user', h - 1, s - 1, a, w + 1) /\ h - 1 \in Nat /\ s - 1 \in Nat
      BY <1>4, <3>1, <3>m DEF Places
    <3>3. Balanced(h - 1, s - 1, a, w + 1)'
      BY <1>2, <1>12, <2>1, <3>2 DEF ReleaseConnection, Balanced, Checking, Waker, Bit
    <3>4. QED
      BY <1>3, <3>1, <3>2, <3>3
  <2>2. CASE kind # "mysql"
    <3> DEFINE without == [user EXCEPT ![u] = "away"]
    <3>1. without \in [Users -> Places] /\ user' \in Notified(without)
      BY <1>2, <1>12, <2>2 DEF ReleaseConnection, Places
    <3>m. Move(user[u], "away", h, s, a, w, h - 1, s - 1, a, w)
      BY <1>2, <1>12 DEF ReleaseConnection, Bit, Held, Woken, Move
    <3>2. Counts(without, h - 1, s - 1, a, w) /\ h - 1 \in Nat /\ s - 1 \in Nat
      BY <1>4, <3>m DEF Places
    <3> HIDE DEF without
    <3>3. \A m, n : Balanced(h - 1, s - 1, m, n)'
      BY <1>2, <1>12, <2>2, <3>2 DEF ReleaseConnection, Balanced, Checking, Waker, Bit
    <3>4. QED
      BY <1>5, <3>1, <3>2, <3>3
  <2>3. QED
    BY <2>1, <2>2
<1>13. ASSUME NEW u \in Users, NotifyOne(u) PROVE PoolsInv'
  <2> DEFINE without == [user EXCEPT ![u] = "away"]
  <2>1. without \in [Users -> Places] /\ user' \in Notified(without)
    BY <1>2, <1>13 DEF NotifyOne, Places
  <2>m. Move(user[u], "away", h, s, a, w, h, s, a, w - 1)
    BY <1>2, <1>13 DEF NotifyOne, Bit, Held, Woken, Move
  <2>2. Counts(without, h, s, a, w - 1) /\ w - 1 \in Nat
    BY <1>4, <2>m DEF Places
  <2> HIDE DEF without
  <2>3. a = 0 => Balanced(h, s, 0, w - 1)'
    BY <1>2, <1>13, <2>2 DEF NotifyOne, Balanced, Checking, Waker, counts
  <2>4. a > 0 => Balanced(h, s, a - 1, w - 1 + 1)'
    BY <1>2, <1>13, <2>2 DEF NotifyOne, Balanced, Checking, Waker, counts
  <2>5. QED
    BY <1>5, <2>1, <2>2, <2>3, <2>4
<1>14. ASSUME StartCheck PROVE PoolsInv'
  BY <1>1, <1>2, <1>3, <1>14 DEF StartCheck, Balanced, Checking, Waker, counts, Bit
<1>15. ASSUME TakeIdle PROVE PoolsInv'
  <2>1. kind = "mysql"
    BY <1>m, <1>15 DEF TakeIdle, OnlyMySQL
  <2>2. Balanced(h, s, a, w)'
    BY <1>2, <1>15, <2>1 DEF TakeIdle, Balanced, Checking, Waker, Bit
  <2>3. user' = user
    BY <1>15 DEF TakeIdle
  <2>4. QED
    BY <1>1, <1>2, <1>3, <2>2, <2>3
<1>16. ASSUME ReturnIdle PROVE PoolsInv'
  <2>1. kind = "mysql"
    BY <1>m, <1>16 DEF ReturnIdle, OnlyMySQL
  <2>2. Balanced(h, s, a, w)'
    BY <1>2, <1>16, <2>1 DEF ReturnIdle, Balanced, Checking, Waker, Bit
  <2>3. user' = user
    BY <1>16 DEF ReturnIdle
  <2>4. QED
    BY <1>1, <1>2, <1>3, <2>2, <2>3
<1>17. ASSUME NotifyChecked PROVE PoolsInv'
  <2>1. a = 0 => Balanced(h, s, 0, w)'
    BY <1>2, <1>17 DEF NotifyChecked, Balanced, Checking, Waker, Bit, counts
  <2>2. a > 0 => Balanced(h, s, a - 1, w + 1)'
    BY <1>2, <1>17 DEF NotifyChecked, Balanced, Checking, Waker, Bit, counts
  <2>3. user' \in Notified(user)
    BY <1>17 DEF NotifyChecked
  <2>4. QED
    BY <1>1, <1>2, <1>5, <2>1, <2>2, <2>3
<1>18. CASE UNCHANGED poolsVars
  BY <1>1, <1>2, <1>3, <1>18 DEF poolsVars, Balanced, Checking, Waker
<1>19. QED
  BY <1>7, <1>8, <1>9, <1>10, <1>11, <1>12, <1>13, <1>14, <1>15, <1>16, <1>17, <1>18 DEF PoolsNext

-----------------------------------------------------------------------------
LEMMA PoolsInvariant == PoolsSpec => []PoolsInv
<1>1. PoolsInit({"mysql", "redis"}) => PoolsInv
  BY PoolsInitInv
<1>2. PoolsInv /\ [PoolsNext]_poolsVars => PoolsInv'
  BY PoolsStepInv
<1>3. QED
  BY <1>1, <1>2, PTL DEF PoolsSpec

\* Sizes and counters of a pool stay between zero and its number of slots.
THEOREM PoolsTypeCorrect == PoolsSpec => []PoolsTypeOK
<1>1. PoolsInv => PoolsTypeOK
  BY DEF PoolsInv
<1>2. QED
  BY <1>1, PoolsInvariant, PTL

\* Every slot is idle, lost or with exactly one thread, the counters agree,
\* and no thread of the MySQL pool sleeps beside a slot nobody will wake it
\* for, however many threads and slots there are.
THEOREM PoolsConserveSlots == PoolsSpec => []SlotsConserved
<1>1. PoolsInv => SlotsConserved
  BY DEF PoolsInv, SlotsConserved
<1>2. QED
  BY <1>1, PoolsInvariant, PTL

-----------------------------------------------------------------------------
(* The timers of a loop.  A timer of the batch whose cancellation was       *)
(* carried out is among those the batch will not put back; a timer whose    *)
(* insertion is still queued was not cancelled, and its cancellation, if    *)
(* queued, comes after the insertion.                                       *)

Deadlines == 0 .. Horizon + Period
Batch == expired \cup ran
TimerRequests == {"add", "cancel"} \X Timers

TimerTypes ==
    /\ clock \in 0 .. Horizon /\ fd \in 0 .. Unarmed /\ calling \in BOOLEAN
    /\ timers \subseteq Timers /\ expired \subseteq Timers /\ ran \subseteq Timers
    /\ canceling \subseteq Timers /\ gone \subseteq Timers
    /\ timer \in [Timers -> [when : Deadlines, repeat : BOOLEAN]]
    /\ life \in [Timers -> {"none", "posted", "held", "deleted"}]
    /\ timerOps \in Seq(TimerRequests)

BatchOK ==
    /\ Batch # {} => calling
    /\ Batch \cap timers = {}
    /\ Batch \cap gone \subseteq canceling

TimerOpsOK ==
    /\ \A t \in gone : life[t] \in {"held", "deleted"}
    /\ \A i \in 1 .. Len(timerOps) : timerOps[i][1] = "add" => life[timerOps[i][2]] = "posted"
    /\ \A i \in 1 .. Len(timerOps) : timerOps[i][1] = "cancel" => life[timerOps[i][2]] # "none"
    /\ \A i, j \in 1 .. Len(timerOps) :
          timerOps[i][2] = timerOps[j][2] /\ timerOps[j][1] = "add" => j <= i
    /\ \A t \in Timers : life[t] = "posted" => \E i \in 1 .. Len(timerOps) : timerOps[i] = <<"add", t>>

TimersInv == TimerTypes /\ BatchOK /\ TimerOpsOK /\ TimersArmed

\* A set of deadlines has a first one.
LEMMA FirstDeadline ==
    ASSUME NEW S, S \subseteq Nat, S # {} PROVE \E n \in S : \A m \in S : n <= m
<1> DEFINE R == OpToRel(<, Nat)
<1>0. IsWellFoundedOn(R, Nat)
  BY NatLessThanWellFounded, Zenon
<1>1. PICK n \in S : \A m \in S : ~(<<m, n>> \in R)
  <2> HIDE DEF R
  <2>1. QED
    BY <1>0, WFMin, Zenon
<1>2. \A m \in S : ~(m < n)
  BY <1>1, Zenon DEF OpToRel
<1>3. QED
  BY <1>2

LEMMA EarliestIs ==
    ASSUME NEW set, set \subseteq Timers, set # {}, NEW of \in [Timers -> [when : Deadlines, repeat : BOOLEAN]]
    PROVE  /\ Earliest(set, of) \in {of[t].when : t \in set} /\ Earliest(set, of) \in Deadlines
           /\ \A t \in set : Earliest(set, of) <= of[t].when
<1> DEFINE S == {of[t].when : t \in set}
<1>1. S \subseteq Nat /\ S \subseteq Deadlines /\ S # {}
  BY TimersAssumption DEF Deadlines
<1>2. \A t \in set : of[t].when \in S
  OBVIOUS
<1>3. PICK n \in S : \A m \in S : n <= m
  <2> HIDE DEF S
  <2>1. QED
    BY <1>1, FirstDeadline
<1>4. \A t \in set : n <= of[t].when
  BY <1>2, <1>3
<1>5. Earliest(set, of) \in S /\ \A t \in set : Earliest(set, of) <= of[t].when
  BY <1>4 DEF Earliest
<1>6. QED
  BY <1>1, <1>5

LEMMA TimersInitially == TimersInit => TimersInv
<1> SUFFICES ASSUME TimersInit PROVE TimersInv
  OBVIOUS
<1>1. /\ [when |-> 0, repeat |-> FALSE] \in [when : Deadlines, repeat : BOOLEAN] /\ Unarmed \in 0 .. Unarmed /\ 0 \in 0 .. Horizon
      /\ <<>> \in Seq(TimerRequests)
  BY TimersAssumption DEF Deadlines, Unarmed
<1>2. TimerTypes
  BY <1>1 DEF TimersInit, TimerTypes
<1>3. BatchOK /\ TimerOpsOK /\ TimersArmed
  BY DEF TimersInit, BatchOK, Batch, TimerOpsOK, TimersArmed, FirstTimerArmed, NoDeletedTimerHeld, CancelledStaysOut
<1>4. QED
  BY <1>2, <1>3 DEF TimersInv

LEMMA KeepOps ==
    ASSUME TimerOpsOK, UNCHANGED timerOps, life' \in [Timers -> {"none", "posted", "held", "deleted"}],
           timerOps \in Seq(TimerRequests),
           \A t \in gone' : life'[t] \in {"held", "deleted"},
           \A t \in Timers : life[t] = "posted" <=> life'[t] = "posted",
           \A t \in Timers : life[t] # "none" => life'[t] # "none"
    PROVE  TimerOpsOK'
<1>1. \A i \in 1 .. Len(timerOps) : timerOps[i] \in {"add", "cancel"} \X Timers
  BY DEF TimerRequests
<1>2. \A i \in 1 .. Len(timerOps) : timerOps[i][2] \in Timers
  BY <1>1
<1>3. QED
  BY <1>2 DEF TimerOpsOK

LEMMA RequestAt ==
    ASSUME NEW q \in Seq(TimerRequests)
    PROVE  /\ Len(q) \in Nat
           /\ \A i \in 1 .. Len(q) : q[i] = <<q[i][1], q[i][2]>> /\ q[i][1] \in {"add", "cancel"} /\ q[i][2] \in Timers
BY DEF TimerRequests

LEMMA RequestAppended ==
    ASSUME NEW q \in Seq(TimerRequests), NEW r \in TimerRequests
    PROVE  /\ Len(Append(q, r)) = Len(q) + 1 /\ Len(q) \in Nat
           /\ Append(q, r)[Len(q) + 1] = r /\ \A i \in 1 .. Len(q) : Append(q, r)[i] = q[i]
OBVIOUS

\* A new timer that another thread adds.
LEMMA RequestAdded ==
    ASSUME TimerOpsOK, NEW t \in Timers, life \in [Timers -> {"none", "posted", "held", "deleted"}],
           timerOps \in Seq(TimerRequests), <<"add", t>> \in TimerRequests, t \notin gone,
           life[t] = "none", life' = [life EXCEPT ![t] = "posted"],
           timerOps' = Append(timerOps, <<"add", t>>), gone \subseteq Timers, gone' = gone
    PROVE  TimerOpsOK'
<1> DEFINE n == Len(timerOps)
<1>1. /\ Len(timerOps') = n + 1 /\ n \in Nat
      /\ timerOps'[n + 1] = <<"add", t>> /\ \A i \in 1 .. n : timerOps'[i] = timerOps[i]
  BY RequestAppended
<1>2. \A i \in 1 .. n : /\ timerOps[i] = <<timerOps[i][1], timerOps[i][2]>>
                        /\ timerOps[i][1] \in {"add", "cancel"} /\ timerOps[i][2] \in Timers
  BY RequestAt
<1>3. \A i \in 1 .. n : timerOps[i][2] # t
  BY <1>2 DEF TimerOpsOK
<1>4. \A i \in 1 .. Len(timerOps') : i \in 1 .. n \/ i = n + 1
  BY <1>1
<1>5. \A u \in Timers : u # t => life'[u] = life[u]
  OBVIOUS
<1>6. life'[t] = "posted"
  OBVIOUS
<1> HIDE DEF n
<1>7. \A u \in gone' : life'[u] \in {"held", "deleted"}
  BY <1>5 DEF TimerOpsOK
<1>8. \A i \in 1 .. Len(timerOps') : timerOps'[i][1] = "add" => life'[timerOps'[i][2]] = "posted"
  BY <1>1, <1>2, <1>3, <1>4, <1>5, <1>6 DEF TimerOpsOK, n
<1>9. \A i \in 1 .. Len(timerOps') : timerOps'[i][1] = "cancel" => life'[timerOps'[i][2]] # "none"
  BY <1>1, <1>2, <1>3, <1>4, <1>5, <1>6 DEF TimerOpsOK, n
<1>10. \A i, j \in 1 .. Len(timerOps') : timerOps'[i][2] = timerOps'[j][2] /\ timerOps'[j][1] = "add" => j <= i
  BY <1>1, <1>2, <1>3, <1>4 DEF TimerOpsOK, n
<1>11. \A u \in Timers : life'[u] = "posted" => \E i \in 1 .. Len(timerOps') : timerOps'[i] = <<"add", u>>
  <2>1. SUFFICES ASSUME NEW u \in Timers, life'[u] = "posted"
                 PROVE  \E i \in 1 .. n + 1 : timerOps'[i] = <<"add", u>>
    BY <1>1
  <2>2. CASE u = t
    BY <1>1, <2>2
  <2>3. CASE u # t
    <3>1. PICK i \in 1 .. n : timerOps[i] = <<"add", u>>
      BY <1>5, <2>1, <2>3 DEF TimerOpsOK, n
    <3>2. i \in 1 .. n + 1 /\ timerOps'[i] = <<"add", u>>
      BY <1>1, <3>1
    <3>3. QED
      BY <3>2
  <2>4. QED
    BY <2>2, <2>3
<1>12. QED
  BY <1>7, <1>8, <1>9, <1>10, <1>11 DEF TimerOpsOK

LEMMA CancellationAdded ==
    ASSUME TimerOpsOK, NEW t \in Timers, timerOps \in Seq(TimerRequests), <<"cancel", t>> \in TimerRequests,
           life[t] # "none", timerOps' = Append(timerOps, <<"cancel", t>>), UNCHANGED <<life, gone>>
    PROVE  TimerOpsOK'
<1> DEFINE n == Len(timerOps)
<1>1. /\ Len(timerOps') = n + 1 /\ n \in Nat
      /\ timerOps'[n + 1] = <<"cancel", t>> /\ \A i \in 1 .. n : timerOps'[i] = timerOps[i]
  BY RequestAppended
<1>2. \A i \in 1 .. Len(timerOps') : i \in 1 .. n \/ i = n + 1
  BY <1>1
<1> HIDE DEF n
<1>3. \A i \in 1 .. Len(timerOps') : /\ timerOps'[i][1] = "add" => life'[timerOps'[i][2]] = "posted"
                                     /\ timerOps'[i][1] = "cancel" => life'[timerOps'[i][2]] # "none"
  BY <1>1, <1>2 DEF TimerOpsOK, n
<1>4. \A i, j \in 1 .. Len(timerOps') : timerOps'[i][2] = timerOps'[j][2] /\ timerOps'[j][1] = "add" => j <= i
  BY <1>1, <1>2 DEF TimerOpsOK, n
<1>5. \A u \in Timers : life'[u] = "posted" => \E i \in 1 .. Len(timerOps') : timerOps'[i] = <<"add", u>>
  <2>1. SUFFICES ASSUME NEW u \in Timers, life[u] = "posted"
                 PROVE  \E i \in 1 .. n + 1 : timerOps'[i] = <<"add", u>>
    BY <1>1
  <2>2. PICK i \in 1 .. n : timerOps[i] = <<"add", u>>
    BY <2>1 DEF TimerOpsOK, n
  <2>3. i \in 1 .. n + 1 /\ timerOps'[i] = <<"add", u>>
    BY <1>1, <2>2
  <2>4. QED
    BY <2>3
<1>6. QED
  BY <1>3, <1>4, <1>5 DEF TimerOpsOK

LEMMA RequestDropped ==
    ASSUME NEW q \in Seq(TimerRequests), q # <<>>
    PROVE  /\ Tail(q) \in Seq(TimerRequests) /\ Len(Tail(q)) = Len(q) - 1 /\ Len(q) \in Nat \ {0} /\ Head(q) = q[1]
           /\ \A i \in 1 .. Len(q) - 1 : Tail(q)[i] = q[i + 1]
OBVIOUS

LEMMA NextIndex ==
    ASSUME NEW n \in Nat \ {0}
    PROVE  /\ 1 \in 1 .. n
           /\ \A i \in 1 .. n - 1 : i + 1 \in 1 .. n /\ i + 1 # 1
           /\ \A i \in 1 .. n : i # 1 => i - 1 \in 1 .. n - 1 /\ (i - 1) + 1 = i
           /\ \A i, j \in 1 .. n - 1 : j + 1 <= i + 1 => j <= i
           /\ \A i \in 1 .. n : i <= 1 => i = 1
OBVIOUS

\* The first request leaves the queue, and the timer it is about has the life
\* of one that was inserted; the others keep theirs.
LEMMA RequestTaken ==
    ASSUME TimerOpsOK, NEW t \in Timers, timerOps \in Seq(TimerRequests), timerOps # <<>>, timerOps' = Tail(timerOps),
           timerOps[1][2] = t, life' \in [Timers -> {"none", "posted", "held", "deleted"}], life'[t] \in {"held", "deleted"},
           life \in [Timers -> {"none", "posted", "held", "deleted"}],
           \A u \in Timers : u # t => life'[u] = life[u], gone' \subseteq gone \cup {t}, gone \subseteq Timers
    PROVE  TimerOpsOK'
<1> DEFINE n == Len(timerOps)
<1>1. /\ Len(timerOps') = n - 1 /\ n \in Nat \ {0}
      /\ \A i \in 1 .. n - 1 : timerOps'[i] = timerOps[i + 1]
  BY RequestDropped
<1>2. \A i \in 1 .. n : /\ timerOps[i] = <<timerOps[i][1], timerOps[i][2]>>
                        /\ timerOps[i][1] \in {"add", "cancel"} /\ timerOps[i][2] \in Timers
  BY RequestAt
<1> HIDE DEF n
<1>3. /\ 1 \in 1 .. n
      /\ \A i \in 1 .. n - 1 : i + 1 \in 1 .. n /\ i + 1 # 1
      /\ \A i \in 1 .. n : i # 1 => i - 1 \in 1 .. n - 1 /\ (i - 1) + 1 = i
      /\ \A i, j \in 1 .. n - 1 : j + 1 <= i + 1 => j <= i
      /\ \A i \in 1 .. n : i <= 1 => i = 1
  BY <1>1, NextIndex
<1>4. \A i \in 1 .. n - 1 : timerOps[i + 1] # <<"add", t>>
  <2>1. SUFFICES ASSUME NEW i \in 1 .. n - 1, timerOps[i + 1] = <<"add", t>> PROVE FALSE
    OBVIOUS
  <2>2. timerOps[i + 1][2] = timerOps[1][2] /\ timerOps[i + 1][1] = "add"
    BY <2>1
  <2>3. i + 1 <= 1
    BY <1>3, <2>2 DEF TimerOpsOK, n
  <2>4. QED
    BY <2>3, <2>1, <1>1
<1>5. \A u \in gone' : life'[u] \in {"held", "deleted"}
  BY DEF TimerOpsOK
<1>6. \A i \in 1 .. n - 1 : timerOps'[i][1] = "add" => life'[timerOps'[i][2]] = "posted"
  <2>1. SUFFICES ASSUME NEW i \in 1 .. n - 1, timerOps[i + 1][1] = "add" PROVE life'[timerOps[i + 1][2]] = "posted"
    BY <1>1
  <2>2. i + 1 \in 1 .. n
    BY <1>3
  <2>3. timerOps[i + 1][2] \in Timers /\ timerOps[i + 1][2] # t
    BY <1>2, <1>4, <2>1, <2>2
  <2>4. QED
    BY <2>1, <2>2, <2>3 DEF TimerOpsOK, n
<1>7. \A i \in 1 .. n - 1 : timerOps'[i][1] = "cancel" => life'[timerOps'[i][2]] # "none"
  <2>1. SUFFICES ASSUME NEW i \in 1 .. n - 1, timerOps[i + 1][1] = "cancel" PROVE life'[timerOps[i + 1][2]] # "none"
    BY <1>1
  <2>2. i + 1 \in 1 .. n /\ timerOps[i + 1][2] \in Timers
    BY <1>2, <1>3
  <2>3. life[timerOps[i + 1][2]] # "none"
    BY <2>1, <2>2 DEF TimerOpsOK, n
  <2>4. QED
    BY <2>2, <2>3
<1>8. \A i, j \in 1 .. n - 1 : timerOps'[i][2] = timerOps'[j][2] /\ timerOps'[j][1] = "add" => j <= i
  <2>1. SUFFICES ASSUME NEW i \in 1 .. n - 1, NEW j \in 1 .. n - 1,
                        timerOps[i + 1][2] = timerOps[j + 1][2], timerOps[j + 1][1] = "add"
                 PROVE  j <= i
    BY <1>1
  <2>2. j + 1 <= i + 1
    BY <1>3, <2>1 DEF TimerOpsOK, n
  <2>3. QED
    BY <1>3, <2>2
<1>9. \A u \in Timers : life'[u] = "posted" => \E i \in 1 .. n - 1 : timerOps'[i] = <<"add", u>>
  <2>1. SUFFICES ASSUME NEW u \in Timers, life'[u] = "posted"
                 PROVE  \E i \in 1 .. n - 1 : timerOps'[i] = <<"add", u>>
    OBVIOUS
  <2>2. u # t /\ life[u] = "posted"
    BY <2>1
  <2>3. PICK i \in 1 .. n : timerOps[i] = <<"add", u>>
    BY <2>2 DEF TimerOpsOK, n
  <2>4. i # 1
    BY <2>2, <2>3
  <2>5. i - 1 \in 1 .. n - 1 /\ timerOps'[i - 1] = <<"add", u>>
    BY <1>1, <1>3, <2>3, <2>4
  <2>6. QED
    BY <2>5
<1>10. QED
  BY <1>1, <1>5, <1>6, <1>7, <1>8, <1>9 DEF TimerOpsOK

\* A timer whose cancellation comes up was inserted before.
LEMMA CancelledWasInserted ==
    ASSUME TimerOpsOK, timerOps \in Seq(TimerRequests), timerOps # <<>>, timerOps[1][1] = "cancel",
           life \in [Timers -> {"none", "posted", "held", "deleted"}]
    PROVE  timerOps[1][2] \in Timers /\ life[timerOps[1][2]] \in {"held", "deleted"}
<1> DEFINE t == timerOps[1][2]
<1>1. Len(timerOps) \in Nat \ {0} /\ 1 \in 1 .. Len(timerOps)
  BY RequestDropped
<1>2. t \in Timers /\ life[t] # "none"
  BY <1>1, RequestAt DEF TimerOpsOK
<1>3. life[t] # "posted"
  <2>1. SUFFICES ASSUME life[t] = "posted" PROVE FALSE
    OBVIOUS
  <2>2. PICK i \in 1 .. Len(timerOps) : timerOps[i] = <<"add", t>>
    BY <1>2, <2>1 DEF TimerOpsOK
  <2>3. timerOps[i][1] = "add" /\ timerOps[i][2] = timerOps[1][2]
    BY <2>2
  <2>4. i <= 1
    BY <1>1, <2>3 DEF TimerOpsOK
  <2>5. i = 1
    BY <1>1, <2>4
  <2>6. QED
    BY <2>3, <2>5
<1>4. QED
  BY <1>2, <1>3

LEMMA SmallerFirst == \A a, b, c \in Nat : a < b /\ b <= c => a <= c
OBVIOUS

LEMMA NotSmaller == \A a, b, c \in Nat : a <= b /\ ~(c < b) => a <= c
OBVIOUS

\* addTimerInLoop of a timer that is nowhere yet.
LEMMA Inserted ==
    ASSUME TimerTypes, NEW t \in Timers, InsertAndArm(t), TimersArmed, Batch \cap timers = {},
           timer' \in [Timers -> [when : Deadlines, repeat : BOOLEAN]],
           \A u \in Timers : u # t => timer'[u] = timer[u],
           t \notin timers \cup Batch, t \notin gone
    PROVE  /\ timers' \subseteq Timers /\ life' \in [Timers -> {"none", "posted", "held", "deleted"}] /\ fd' \in 0 .. Unarmed
           /\ life' = [life EXCEPT ![t] = "held"] /\ timers' = timers \cup {t}
           /\ (~calling => \A u \in timers' : fd' <= timer'[u].when)
<1>1. timers' = timers \cup {t} /\ life' = [life EXCEPT ![t] = "held"] /\ timers \subseteq Timers
  BY DEF InsertAndArm, TimerTypes
<1>2. timer'[t].when \in Deadlines /\ Deadlines \subseteq 0 .. Unarmed /\ Deadlines \subseteq Nat /\ Unarmed \in Nat
  BY TimersAssumption DEF Deadlines, Unarmed
<1>3. fd' \in {fd, timer'[t].when} /\ fd \in 0 .. Unarmed
  BY DEF InsertAndArm, TimerTypes
<1>4. ASSUME ~calling, NEW u \in timers' PROVE fd' <= timer'[u].when
  <2>1. CASE timers = {}
    <3>1. fd' = timer'[t].when /\ u = t
      BY <1>1, <1>4, <2>1 DEF InsertAndArm
    <3>2. QED
      BY <1>2, <3>1
  <2>2. CASE timers # {}
    <3>1. /\ Earliest(timers, timer) \in Deadlines /\ \A v \in timers : Earliest(timers, timer) <= timer[v].when
      BY <1>1, <2>2, EarliestIs DEF TimerTypes
    <3>2. \A v \in timers : fd <= timer[v].when
      BY <1>4, <2>2 DEF TimersArmed, FirstTimerArmed
    <3>3. Earliest(timers, timer) \in {timer[v].when : v \in timers}
      BY <1>1, <2>2, EarliestIs DEF TimerTypes
    <3>4. fd <= Earliest(timers, timer)
      BY <3>2, <3>3
    <3>5. \A v \in timers : timer'[v].when = timer[v].when /\ timer[v].when \in Nat
      BY <1>1, <1>2 DEF TimerTypes
    <3>6. CASE timer'[t].when < Earliest(timers, timer)
      <4>1. fd' = timer'[t].when
        BY <3>6, <2>2 DEF InsertAndArm
      <4>2. CASE u = t
        BY <4>1, <4>2, <1>2
      <4>3. CASE u \in timers
        <5>1. Earliest(timers, timer) <= timer[u].when /\ timer'[u].when = timer[u].when /\ timer[u].when \in Nat
          BY <4>3, <3>1, <3>5
        <5>2. QED
          BY <5>1, <4>1, <3>6, <3>1, <1>2, SmallerFirst
      <4>4. QED
        BY <1>1, <1>4, <4>2, <4>3
    <3>7. CASE ~(timer'[t].when < Earliest(timers, timer))
      <4>1. fd' = fd
        BY <3>7, <2>2 DEF InsertAndArm
      <4>2. CASE u = t
        <5>1. fd \in Nat /\ Earliest(timers, timer) \in Nat /\ timer'[t].when \in Nat
          <6>1. fd \in 0 .. Unarmed /\ Unarmed \in Nat
            BY <1>2, <1>3
          <6>2. fd \in Nat
            BY <6>1
          <6>3. QED
            BY <6>2, <3>1, <1>2, Zenon
        <5>2. fd <= timer'[t].when
          BY <5>1, <3>7, <3>4, NotSmaller
        <5>3. QED
          BY <5>2, <4>1, <4>2
      <4>3. CASE u \in timers
        BY <4>1, <4>3, <3>2, <3>5
      <4>4. QED
        BY <1>1, <1>4, <4>2, <4>3
    <3>8. QED
      BY <3>6, <3>7
  <2>3. QED
    BY <2>1, <2>2
<1>5. QED
  BY <1>1, <1>2, <1>3, <1>4 DEF TimerTypes

\* cancelInLoop while no callback runs.
LEMMA Cancelled ==
    ASSUME TimerTypes, BatchOK, FirstTimerArmed, NoDeletedTimerHeld, CancelledStaysOut, calling = FALSE,
           NEW t \in Timers, life[t] \in {"held", "deleted"}, CancelInLoop(t), timerOps' \in Seq(TimerRequests),
           UNCHANGED <<timer, fd, clock, expired, ran, calling>>
    PROVE  /\ TimerTypes' /\ BatchOK' /\ FirstTimerArmed' /\ NoDeletedTimerHeld' /\ CancelledStaysOut'
           /\ life'[t] \in {"held", "deleted"} /\ \A u \in Timers : u # t => life'[u] = life[u]
<1>1. Batch = {} /\ expired = {} /\ ran = {}
  BY DEF BatchOK, Batch
<1>2. gone' = gone \cup {t} /\ canceling' = canceling /\ timers' = timers \ {t}
  BY DEF CancelInLoop
<1>3. life' = IF t \in timers THEN [life EXCEPT ![t] = "deleted"] ELSE life
  BY DEF CancelInLoop, Deleted, TimerTypes
<1>4. life'[t] \in {"held", "deleted"} /\ \A u \in Timers : u # t => life'[u] = life[u]
  BY <1>3 DEF TimerTypes
<1>5. TimerTypes'
  BY <1>2, <1>3 DEF TimerTypes
<1>6. BatchOK'
  BY <1>1 DEF BatchOK, Batch
<1>7. NoDeletedTimerHeld'
  BY <1>1, <1>2, <1>4 DEF NoDeletedTimerHeld, TimerTypes
<1>8. FirstTimerArmed' /\ CancelledStaysOut'
  BY <1>2 DEF FirstTimerArmed, CancelledStaysOut
<1>9. QED
  BY <1>4, <1>5, <1>6, <1>7, <1>8

LEMMA TimersStep == TimersInv /\ [TimersNext]_timerVars => TimersInv'
<1> SUFFICES ASSUME TimersInv, [TimersNext]_timerVars PROVE TimersInv'
  OBVIOUS
<1>0. /\ TimerTypes /\ BatchOK /\ TimerOpsOK /\ FirstTimerArmed /\ NoDeletedTimerHeld /\ CancelledStaysOut
      /\ Horizon \in Nat /\ Period \in Nat
  BY TimersAssumption DEF TimersInv, TimersArmed
<1>a. ASSUME NEW t \in Timers, NEW n \in 0 .. Period, NEW r \in BOOLEAN
      PROVE  [timer EXCEPT ![t] = [when |-> clock + n, repeat |-> r]] \in [Timers -> [when : Deadlines, repeat : BOOLEAN]]
  <2>1. clock + n \in Deadlines
    BY <1>0 DEF TimerTypes, Deadlines
  <2>2. QED
    BY <1>0, <2>1 DEF TimerTypes
<1>1. ASSUME NEW t \in Timers, AddTimer(t) PROVE TimersInv'
  <2>1. PICK n \in 0 .. Period, r \in BOOLEAN : timer' = [timer EXCEPT ![t] = [when |-> clock + n, repeat |-> r]]
    BY <1>1 DEF AddTimer, NewTimer
  <2>2. /\ life[t] = "none" /\ life' = [life EXCEPT ![t] = "posted"] /\ timerOps' = Append(timerOps, <<"add", t>>)
        /\ UNCHANGED <<clock, timers, fd, expired, ran, calling, canceling, gone>>
    BY <1>1 DEF AddTimer, NewTimer
  <2>3. <<"add", t>> \in TimerRequests /\ timerOps \in Seq(TimerRequests)
    BY <1>0 DEF TimerRequests, TimerTypes
  <2>4. timerOps' \in Seq(TimerRequests)
    BY <2>2, <2>3
  <2>5. TimerTypes'
    BY <1>0, <1>a, <2>1, <2>2, <2>4 DEF TimerTypes
  <2>6. t \notin timers \cup Batch \cup gone
    BY <1>0, <2>2 DEF NoDeletedTimerHeld, Batch, TimerOpsOK
  <2>7. BatchOK' /\ TimersArmed'
    <3>1. \A u \in timers \cup Batch : timer'[u] = timer[u] /\ life'[u] = life[u]
      BY <1>0, <2>1, <2>2, <2>6 DEF TimerTypes, Batch
    <3>2. QED
      BY <1>0, <2>2, <3>1 DEF TimersArmed, FirstTimerArmed, NoDeletedTimerHeld, CancelledStaysOut, BatchOK, Batch
  <2>8. TimerOpsOK'
    BY <1>0, <2>2, <2>3, <2>6, RequestAdded DEF TimerTypes
  <2>9. QED
    BY <2>5, <2>7, <2>8 DEF TimersInv
<1>2. ASSUME NEW t \in Timers, Cancel(t) PROVE TimersInv'
  <2>1. /\ life[t] # "none" /\ timerOps' = Append(timerOps, <<"cancel", t>>)
        /\ UNCHANGED <<clock, timers, timer, life, fd, expired, ran, calling, canceling, gone>>
    BY <1>2 DEF Cancel
  <2>2. <<"cancel", t>> \in TimerRequests /\ timerOps \in Seq(TimerRequests)
    BY <1>0 DEF TimerRequests, TimerTypes
  <2>3. timerOps' \in Seq(TimerRequests)
    BY <2>1, <2>2
  <2>4. TimerTypes' /\ BatchOK' /\ TimersArmed'
    BY <1>0, <2>1, <2>3 DEF TimerTypes, TimersArmed, FirstTimerArmed, NoDeletedTimerHeld, CancelledStaysOut, BatchOK, Batch
  <2>5. TimerOpsOK'
    BY <1>0, <2>1, <2>2, CancellationAdded
  <2>6. QED
    BY <2>4, <2>5 DEF TimersInv
<1>3. CASE RunRequest
  <2> DEFINE t == timerOps[1][2]
  <2>1. /\ timerOps # <<>> /\ timerOps \in Seq(TimerRequests) /\ Head(timerOps) = timerOps[1] /\ timerOps' = Tail(timerOps)
        /\ timerOps' \in Seq(TimerRequests) /\ 1 \in 1 .. Len(timerOps) /\ calling = FALSE
        /\ UNCHANGED <<clock, expired, ran, calling>>
    BY <1>0, <1>3, RequestDropped DEF RunRequest, TimerTypes
  <2>2. /\ timerOps[1] = <<timerOps[1][1], t>> /\ timerOps[1][1] \in {"add", "cancel"} /\ t \in Timers
        /\ life \in [Timers -> {"none", "posted", "held", "deleted"}] /\ gone \subseteq Timers
    BY <1>0, <2>1, RequestAt DEF TimerTypes
  <2>3. Batch = {} /\ Batch' = {}
    BY <1>0, <2>1 DEF BatchOK, Batch
  <2>4. CASE timerOps[1][1] = "add"
    <3>1. UNCHANGED <<timer, canceling, gone>> /\ InsertAndArm(t)
      BY <1>3, <2>1, <2>4 DEF RunRequest
    <3>2. life[t] = "posted" /\ t \notin gone /\ t \notin timers \cup Batch
      BY <1>0, <2>1, <2>2, <2>3, <2>4 DEF TimerOpsOK, NoDeletedTimerHeld
    <3>3. /\ timers' \subseteq Timers /\ life' \in [Timers -> {"none", "posted", "held", "deleted"}] /\ fd' \in 0 .. Unarmed
          /\ life' = [life EXCEPT ![t] = "held"] /\ timers' = timers \cup {t}
          /\ \A u \in timers' : fd' <= timer'[u].when
      <4>1. /\ TimersArmed /\ timer' \in [Timers -> [when : Deadlines, repeat : BOOLEAN]]
            /\ \A u \in Timers : u # t => timer'[u] = timer[u]
        BY <1>0, <3>1 DEF TimersArmed, TimerTypes
      <4>2. QED
        BY <1>0, <2>1, <2>2, <2>3, <3>1, <3>2, <4>1, Inserted
    <3>4. TimerTypes'
      BY <1>0, <2>1, <3>1, <3>3 DEF TimerTypes
    <3>5. BatchOK' /\ TimersArmed'
      BY <1>0, <2>1, <2>2, <2>3, <3>1, <3>2, <3>3 DEF BatchOK, Batch, TimersArmed, FirstTimerArmed, NoDeletedTimerHeld, CancelledStaysOut, TimerTypes
    <3>6. TimerOpsOK'
      <4>1. life'[t] = "held" /\ (\A u \in Timers : u # t => life'[u] = life[u]) /\ gone' \subseteq gone \cup {t}
        BY <2>2, <3>1, <3>3
      <4>2. QED
        BY <1>0, <2>1, <2>2, <3>3, <4>1, RequestTaken
    <3>7. QED
      BY <3>4, <3>5, <3>6 DEF TimersInv
  <2>5. CASE timerOps[1][1] = "cancel"
    <3>1. CancelInLoop(t) /\ UNCHANGED <<timer, fd>>
      BY <1>3, <2>1, <2>5 DEF RunRequest
    <3>2. life[t] \in {"held", "deleted"}
      BY <1>0, <2>1, <2>2, <2>5, CancelledWasInserted
    <3>3. /\ TimerTypes' /\ BatchOK' /\ TimersArmed' /\ life'[t] \in {"held", "deleted"}
          /\ \A u \in Timers : u # t => life'[u] = life[u]
      BY <1>0, <2>1, <2>2, <3>1, <3>2, Cancelled DEF TimersArmed
    <3>4. TimerOpsOK'
      <4>1. gone' \subseteq gone \cup {t} /\ life' \in [Timers -> {"none", "posted", "held", "deleted"}]
        BY <3>1, <3>3 DEF CancelInLoop, TimerTypes
      <4>2. QED
        BY <1>0, <2>1, <2>2, <3>3, <4>1, RequestTaken
    <3>5. QED
      BY <3>3, <3>4 DEF TimersInv
  <2>6. QED
    BY <2>2, <2>4, <2>5
<1>4. CASE GetExpired
  <2> USE <1>4 DEF GetExpired
  <2> DEFINE due == {t \in timers : timer[t].when <= clock}
  <2>1. TimerTypes'
    BY <1>0 DEF TimerTypes, Unarmed
  <2>2. due \cap gone = {} /\ due \subseteq timers /\ expired = {} /\ ran = {}
    BY <1>0 DEF CancelledStaysOut, BatchOK, Batch, TimerTypes
  <2>3. BatchOK'
    BY <1>0, <2>2 DEF BatchOK, Batch
  <2>4. TimerOpsOK'
    BY <1>0 DEF TimerOpsOK
  <2>5. TimersArmed'
    BY <1>0, <2>2 DEF TimersArmed, FirstTimerArmed, NoDeletedTimerHeld, CancelledStaysOut
  <2>6. QED
    BY <2>1, <2>3, <2>4, <2>5 DEF TimersInv
<1>5. CASE RunTimer
  <2>1. PICK e \in expired : expired' = expired \ {e} /\ ran' = ran \cup {e}
    BY <1>5 DEF RunTimer
  <2>2. /\ Batch' = Batch /\ expired' \subseteq Timers /\ ran' \subseteq Timers /\ calling = TRUE
        /\ UNCHANGED <<clock, calling, timerOps>>
    BY <1>0, <1>5, <2>1 DEF RunTimer, Batch, TimerTypes, BatchOK
  <2>3. CASE UNCHANGED <<timers, timer, life, fd, canceling, gone>>
    <3>1. TimerTypes' /\ BatchOK' /\ TimerOpsOK'
      BY <1>0, <2>2, <2>3 DEF TimerTypes, BatchOK, TimerOpsOK
    <3>2. TimersArmed'
      BY <1>0, <2>1, <2>2, <2>3 DEF TimersArmed, FirstTimerArmed, NoDeletedTimerHeld, CancelledStaysOut, Batch
    <3>3. QED
      BY <3>1, <3>2 DEF TimersInv
  <2>4. ASSUME NEW t \in Timers, NewTimer(t) /\ InsertAndArm(t) /\ UNCHANGED <<canceling, gone>>
        PROVE  TimersInv'
    <3>1. PICK n \in 0 .. Period, r \in BOOLEAN : timer' = [timer EXCEPT ![t] = [when |-> clock + n, repeat |-> r]]
      BY <2>4 DEF NewTimer
    <3>2. /\ timer' \in [Timers -> [when : Deadlines, repeat : BOOLEAN]] /\ life[t] = "none"
          /\ \A u \in Timers : u # t => timer'[u] = timer[u]
      BY <1>0, <1>a, <2>4, <3>1 DEF NewTimer, TimerTypes
    <3>3. t \notin gone /\ t \notin timers \cup Batch
      BY <1>0, <3>2 DEF TimerOpsOK, NoDeletedTimerHeld, Batch
    <3>4. /\ timers' \subseteq Timers /\ life' \in [Timers -> {"none", "posted", "held", "deleted"}] /\ fd' \in 0 .. Unarmed
          /\ life' = [life EXCEPT ![t] = "held"] /\ timers' = timers \cup {t}
      <4>1. TimersArmed /\ Batch \cap timers = {}
        BY <1>0 DEF TimersArmed, BatchOK
      <4>2. QED
        BY <1>0, <2>4, <3>2, <3>3, <4>1, Inserted
    <3>5. TimerTypes'
      BY <1>0, <2>2, <2>4, <3>2, <3>4 DEF TimerTypes
    <3>6. BatchOK'
      BY <1>0, <2>2, <2>4, <3>3, <3>4 DEF BatchOK
    <3>7. TimerOpsOK'
      <4>1. /\ \A u \in gone' : life'[u] \in {"held", "deleted"}
            /\ \A u \in Timers : life[u] = "posted" <=> life'[u] = "posted"
            /\ \A u \in Timers : life[u] # "none" => life'[u] # "none"
        BY <1>0, <2>4, <3>2, <3>3, <3>4 DEF TimerOpsOK, TimerTypes
      <4>2. QED
        BY <1>0, <2>2, <3>4, <4>1, KeepOps DEF TimerTypes
    <3>8. TimersArmed'
      <4>1. \A u \in timers' \cup Batch' : life'[u] = "held"
        BY <1>0, <2>2, <3>3, <3>4 DEF NoDeletedTimerHeld, Batch, TimerTypes
      <4>2. gone' \cap timers' = {}
        BY <1>0, <2>4, <3>3, <3>4 DEF CancelledStaysOut
      <4>3. QED
        BY <2>2, <4>1, <4>2 DEF TimersArmed, FirstTimerArmed, NoDeletedTimerHeld, CancelledStaysOut, Batch
    <3>9. QED
      BY <3>5, <3>6, <3>7, <3>8 DEF TimersInv
  <2>5. ASSUME NEW t \in Timers, life[t] = "held" /\ CancelInLoop(t) /\ UNCHANGED <<timer, fd>>
        PROVE  TimersInv'
    <3>1. /\ timers' \subseteq timers /\ canceling' \subseteq canceling \cup {t} /\ gone' = gone \cup {t}
          /\ life' \in {life, [life EXCEPT ![t] = "deleted"]}
      <4>1. Deleted({t}) = [life EXCEPT ![t] = "deleted"]
        BY <1>0 DEF Deleted, TimerTypes
      <4>2. QED
        BY <1>0, <2>5, <4>1 DEF CancelInLoop
    <3>2. CASE t \in timers
      <4>1. timers' = timers \ {t} /\ canceling' = canceling /\ life' = [life EXCEPT ![t] = "deleted"]
        BY <1>0, <2>5, <3>2 DEF CancelInLoop, Deleted, TimerTypes
      <4>2. t \notin Batch
        BY <1>0, <3>2 DEF BatchOK
      <4>3. TimerTypes'
        BY <1>0, <2>2, <2>5, <3>1, <4>1 DEF TimerTypes
      <4>4. BatchOK'
        BY <1>0, <2>2, <3>1, <4>1, <4>2 DEF BatchOK
      <4>5. \A u \in timers' \cup Batch : life'[u] = "held"
        BY <1>0, <4>1, <4>2 DEF NoDeletedTimerHeld, Batch, TimerTypes
      <4>6. TimersArmed'
        BY <1>0, <2>2, <2>5, <3>1, <4>1, <4>5 DEF TimersArmed, FirstTimerArmed, NoDeletedTimerHeld, CancelledStaysOut, Batch
      <4>7. TimerOpsOK'
        <5>1. /\ \A u \in gone' : life'[u] \in {"held", "deleted"}
              /\ \A u \in Timers : life[u] = "posted" <=> life'[u] = "posted"
              /\ \A u \in Timers : life[u] # "none" => life'[u] # "none"
          BY <1>0, <2>5, <3>1, <4>1 DEF TimerOpsOK, TimerTypes
        <5>2. QED
          BY <1>0, <2>2, <4>3, <5>1, KeepOps DEF TimerTypes
      <4>8. QED
        BY <4>3, <4>4, <4>6, <4>7 DEF TimersInv
    <3>3. CASE t \notin timers
      <4>1. timers' = timers /\ canceling' = canceling \cup {t} /\ life' = life
        BY <1>0, <2>2, <2>5, <3>3 DEF CancelInLoop
      <4>2. TimerTypes'
        BY <1>0, <2>2, <2>5, <3>1, <4>1 DEF TimerTypes
      <4>3. BatchOK'
        BY <1>0, <2>2, <3>1, <4>1 DEF BatchOK
      <4>4. TimersArmed'
        BY <1>0, <2>1, <2>2, <2>5, <3>1, <3>3, <4>1 DEF TimersArmed, FirstTimerArmed, NoDeletedTimerHeld, CancelledStaysOut, Batch
      <4>5. TimerOpsOK'
        BY <1>0, <2>2, <2>5, <3>1, <4>1 DEF TimerOpsOK
      <4>6. QED
        BY <4>2, <4>3, <4>4, <4>5 DEF TimersInv
    <3>4. QED
      BY <3>2, <3>3
  <2>6. QED
    BY <1>5, <2>3, <2>4, <2>5 DEF RunTimer
<1>6. CASE Reset
  <2> DEFINE again == {t \in ran : timer[t].repeat /\ t \notin canceling}
             left == timers \cup again
  <2>1. /\ timer' = [t \in Timers |-> IF t \in again THEN [timer[t] EXCEPT !.when = clock + Period] ELSE timer[t]]
        /\ timers' = left /\ life' = Deleted(ran \ again) /\ fd' = (IF left = {} THEN fd ELSE Earliest(left, timer'))
        /\ calling = TRUE /\ expired = {} /\ ran' = {} /\ calling' = FALSE
        /\ UNCHANGED <<clock, expired, canceling, timerOps, gone>>
    BY <1>0, <1>6 DEF Reset, TimerTypes
  <2>2. again \subseteq ran /\ ran \subseteq Timers /\ left \subseteq Timers /\ again \cap gone = {} /\ ran \cap timers = {}
    BY <1>0, <2>1 DEF TimerTypes, BatchOK, Batch
  <2>3. clock + Period \in Deadlines
    BY <1>0 DEF TimerTypes, Deadlines
  <2> HIDE DEF again, left
  <2>4. timer' \in [Timers -> [when : Deadlines, repeat : BOOLEAN]]
    <3>1. \A t \in Timers : timer[t] \in [when : Deadlines, repeat : BOOLEAN]
      BY <1>0 DEF TimerTypes
    <3>2. \A t \in Timers : [timer[t] EXCEPT !.when = clock + Period] \in [when : Deadlines, repeat : BOOLEAN]
      BY <2>3, <3>1
    <3>3. QED
      BY <2>1, <3>1, <3>2
  <2>5. fd' \in 0 .. Unarmed /\ \A t \in left : fd' <= timer'[t].when
    <3>1. CASE left = {}
      BY <1>0, <2>1, <3>1 DEF TimerTypes
    <3>2. CASE left # {}
      <4>1. fd' = Earliest(left, timer')
        BY <2>1, <3>2
      <4>2. Earliest(left, timer') \in Deadlines /\ \A t \in left : Earliest(left, timer') <= timer'[t].when
        BY <2>2, <2>4, <3>2, EarliestIs
      <4>3. Deadlines \subseteq 0 .. Unarmed
        BY <1>0 DEF Deadlines, Unarmed
      <4>4. QED
        BY <4>1, <4>2, <4>3
    <3>3. QED
      BY <3>1, <3>2
  <2>6. /\ life' \in [Timers -> {"none", "posted", "held", "deleted"}]
        /\ \A t \in Timers : life'[t] = (IF t \in ran \ again THEN "deleted" ELSE life[t])
    BY <1>0, <2>1 DEF Deleted, TimerTypes
  <2>7. \A t \in ran \cup timers : t \in Timers /\ life[t] = "held"
    BY <1>0 DEF NoDeletedTimerHeld, TimerTypes
  <2>8. TimerTypes'
    BY <1>0, <2>1, <2>2, <2>4, <2>5, <2>6 DEF TimerTypes
  <2>9. BatchOK'
    BY <2>1 DEF BatchOK, Batch
  <2>10. TimersArmed'
    <3>1. \A t \in left : life'[t] = "held"
      BY <2>2, <2>6, <2>7 DEF left
    <3>2. gone \cap left = {}
      BY <1>0, <2>2 DEF CancelledStaysOut, left
    <3>3. QED
      BY <2>1, <2>5, <3>1, <3>2 DEF TimersArmed, FirstTimerArmed, NoDeletedTimerHeld, CancelledStaysOut
  <2>11. TimerOpsOK'
    <3>1. /\ \A u \in gone' : life'[u] \in {"held", "deleted"}
          /\ \A u \in Timers : life[u] = "posted" <=> life'[u] = "posted"
          /\ \A u \in Timers : life[u] # "none" => life'[u] # "none"
      BY <1>0, <2>1, <2>6, <2>7 DEF TimerOpsOK, TimerTypes
    <3>2. QED
      BY <1>0, <2>1, <2>6, <3>1, KeepOps DEF TimerTypes
  <2>12. QED
    BY <2>8, <2>9, <2>10, <2>11 DEF TimersInv
<1>7. CASE Tick
  <2>1. clock' \in 0 .. Horizon
    BY <1>0, <1>7 DEF Tick, TimerTypes
  <2>2. UNCHANGED <<timers, timer, life, fd, expired, ran, calling, canceling, timerOps, gone>>
    BY <1>7 DEF Tick
  <2>3. TimerTypes' /\ BatchOK' /\ TimerOpsOK' /\ TimersArmed'
    BY <1>0, <2>1, <2>2 DEF TimerTypes, BatchOK, Batch, TimerOpsOK, TimersArmed, FirstTimerArmed, NoDeletedTimerHeld, CancelledStaysOut
  <2>4. QED
    BY <2>3 DEF TimersInv
<1>8. CASE UNCHANGED timerVars
  <2>1. UNCHANGED <<clock, timers, timer, life, fd, expired, ran, calling, canceling, timerOps, gone>>
    BY <1>8 DEF timerVars
  <2>2. TimerTypes' /\ BatchOK' /\ TimerOpsOK' /\ TimersArmed'
    BY <1>0, <2>1 DEF TimerTypes, BatchOK, Batch, TimerOpsOK, TimersArmed, FirstTimerArmed, NoDeletedTimerHeld, CancelledStaysOut
  <2>3. QED
    BY <2>2 DEF TimersInv
<1>9. QED
  BY <1>1, <1>2, <1>3, <1>4, <1>5, <1>6, <1>7, <1>8 DEF TimersNext

-----------------------------------------------------------------------------
(* The jobs of the scheduler.  The types carry what JobsKept needs: a job   *)
(* runs only on the thread while it handles a round of events.              *)

JobsInv == SchedulerTypeOK /\ JobsKept

LEMMA JobsInitially == SchedulerInit => JobsInv
BY JobsAssumption DEF SchedulerInit, JobsInv, SchedulerTypeOK, JobsKept, Jobs

LEMMA JobsStep == JobsInv /\ [SchedulerNext]_schedulerVars => JobsInv'
<1> SUFFICES ASSUME JobsInv, [SchedulerNext]_schedulerVars PROVE JobsInv'
  OBVIOUS
<1> USE JobsAssumption DEF JobsInv, SchedulerTypeOK, JobsKept
<1>1. CASE ClearStop
  BY <1>1 DEF ClearStop
<1>2. CASE TestStop
  BY <1>2 DEF TestStop
<1>3. CASE PollFails
  BY <1>3 DEF PollFails
<1>4. CASE PollJobs
  BY <1>4 DEF PollJobs
<1>5. CASE FinishJob
  BY <1>5 DEF FinishJob, Jobs
<1>6. CASE StopJobs
  BY <1>6 DEF StopJobs
<1>7. CASE CloseJobs
  BY <1>7 DEF CloseJobs, InQueue, Jobs
<1>8. ASSUME NEW j \in Jobs, StartJob(j) PROVE JobsInv'
  BY <1>8 DEF StartJob, InQueue, Jobs
<1>9. ASSUME NEW j \in Jobs, AddJob(j) PROVE JobsInv'
  BY <1>9 DEF AddJob, Jobs
<1>10. ASSUME NEW j \in Jobs, Expire(j) PROVE JobsInv'
  BY <1>10 DEF Expire, Jobs
<1>11. CASE UNCHANGED schedulerVars
  BY <1>11 DEF schedulerVars
<1>12. QED
  BY <1>1, <1>2, <1>3, <1>4, <1>5, <1>6, <1>7, <1>8, <1>9, <1>10, <1>11 DEF SchedulerNext

-----------------------------------------------------------------------------
(* The outgoing connection.  Until the functor of connect() has run nothing *)
(* else is under way, and that functor is the first; the channel is watched *)
(* exactly during an attempt; while a removed one waits for its destruction *)
(* a functor for it is queued, and only one; a retry timer means that there *)
(* is neither an attempt nor a connection.                                  *)

Untouched == attempt = "Disconnected" /\ channel = "none" /\ retries = 0 /\ link = "none"
LoopFunctors == {"start", "stop", "resetChannel"}
Queued(f) == \E i \in 1 .. Len(functors) : functors[i] = f

QueueOK ==
    /\ functors \in Seq(LoopFunctors)
    /\ \A i \in 1 .. Len(functors) : functors[i] = "start" => i = 1
    /\ \A i, j \in 1 .. Len(functors) : functors[i] = "resetChannel" /\ functors[j] = "resetChannel" => i = j

ConnectorInv ==
    /\ ConnectorTypeOK /\ QueueOK
    /\ Calls("connect") => Untouched /\ functors = <<>>
    /\ Queued("start") => Untouched
    /\ Queued("resetChannel") <=> channel = "removed"
    /\ channel = "watched" <=> attempt = "Connecting"
    /\ retries \in {0, 1}
    /\ attempt = "Connecting" => retries = 0 /\ link = "none"
    /\ retries = 1 => attempt = "Disconnected" /\ link = "none"
    /\ link = "restart" => channel = "none"
    /\ ~broken

LEMMA ConnectorInvSound == ConnectorInv => ConnectorSound
BY DEF ConnectorInv, ConnectorSound

LEMMA AppendedFunctor ==
    ASSUME NEW q \in Seq(LoopFunctors), NEW f \in LoopFunctors
    PROVE  /\ Append(q, f) \in Seq(LoopFunctors) /\ Len(Append(q, f)) = Len(q) + 1 /\ Len(q) \in Nat
           /\ Append(q, f)[Len(q) + 1] = f /\ \A i \in 1 .. Len(q) : Append(q, f)[i] = q[i]
OBVIOUS

LEMMA DroppedFunctor ==
    ASSUME NEW q \in Seq(LoopFunctors), q # <<>>
    PROVE  /\ Tail(q) \in Seq(LoopFunctors) /\ Len(Tail(q)) = Len(q) - 1 /\ Len(q) \in Nat \ {0}
           /\ \A i \in 1 .. Len(Tail(q)) : Tail(q)[i] = q[i + 1]
           /\ Head(q) = q[1]
OBVIOUS

\* What the functors of the loop look like when their first one has run.
LEMMA HeadLeaves ==
    ASSUME QueueOK, functors # <<>>, functors[1] = "start", ~Queued("resetChannel"), functors' = Tail(functors)
    PROVE  QueueOK' /\ ~Queued("start")' /\ ~Queued("resetChannel")'
<1>1. /\ functors' \in Seq(LoopFunctors) /\ Len(functors') = Len(functors) - 1 /\ Len(functors) \in Nat \ {0}
      /\ \A i \in 1 .. Len(functors') : functors'[i] = functors[i + 1]
  BY DroppedFunctor DEF QueueOK
<1>2. \A i \in 1 .. Len(functors') : functors'[i] # "start" /\ functors'[i] # "resetChannel"
  BY <1>1 DEF Queued, QueueOK
<1>3. QED
  BY <1>1, <1>2 DEF Queued, QueueOK

LEMMA ResetLeaves ==
    ASSUME QueueOK, functors # <<>>, functors[1] = "resetChannel", functors' = Tail(functors)
    PROVE  QueueOK' /\ ~Queued("start")' /\ ~Queued("resetChannel")'
<1>1. /\ functors' \in Seq(LoopFunctors) /\ Len(functors') = Len(functors) - 1 /\ Len(functors) \in Nat \ {0}
      /\ \A i \in 1 .. Len(functors') : functors'[i] = functors[i + 1]
  BY DroppedFunctor DEF QueueOK
<1>2. \A i \in 1 .. Len(functors') : functors'[i] # "start" /\ functors'[i] # "resetChannel"
  BY <1>1 DEF QueueOK
<1>3. QED
  BY <1>1, <1>2 DEF Queued, QueueOK

LEMMA StopLeaves ==
    ASSUME QueueOK, functors # <<>>, functors[1] = "stop", functors' = Tail(functors)
    PROVE  QueueOK' /\ ~Queued("start")' /\ (Queued("resetChannel")' <=> Queued("resetChannel"))
<1>1. /\ functors' \in Seq(LoopFunctors) /\ Len(functors') = Len(functors) - 1 /\ Len(functors) \in Nat \ {0}
      /\ \A i \in 1 .. Len(functors') : functors'[i] = functors[i + 1]
  BY DroppedFunctor DEF QueueOK
<1>2. \A i \in 1 .. Len(functors') : functors'[i] # "start"
  BY <1>1 DEF QueueOK
<1>3. \A i, j \in 1 .. Len(functors') : functors'[i] = "resetChannel" /\ functors'[j] = "resetChannel" => i = j
  <2>1. SUFFICES ASSUME NEW i \in 1 .. Len(functors'), NEW j \in 1 .. Len(functors'),
                        functors'[i] = "resetChannel", functors'[j] = "resetChannel"
                 PROVE  i = j
    OBVIOUS
  <2>2. i + 1 \in 1 .. Len(functors) /\ j + 1 \in 1 .. Len(functors)
    BY <1>1
  <2>3. i + 1 = j + 1
    BY <1>1, <2>1, <2>2 DEF QueueOK
  <2>4. QED
    BY <2>3
<1>4. ASSUME NEW i \in 1 .. Len(functors), functors[i] = "resetChannel"
      PROVE  i - 1 \in 1 .. Len(functors') /\ functors'[i - 1] = "resetChannel"
  <2>1. i # 1
    BY <1>4
  <2>2. i - 1 \in 1 .. Len(functors') /\ (i - 1) + 1 = i
    BY <1>1, <2>1
  <2>3. QED
    BY <1>1, <1>4, <2>2
<1>5. QED
  BY <1>1, <1>2, <1>3, <1>4 DEF Queued, QueueOK

LEMMA ResetQueued ==
    ASSUME QueueOK, ~Queued("start"), ~Queued("resetChannel"), functors' = Append(functors, "resetChannel")
    PROVE  QueueOK' /\ ~Queued("start")' /\ Queued("resetChannel")'
<1>1. /\ functors' \in Seq(LoopFunctors) /\ Len(functors') = Len(functors) + 1 /\ Len(functors) \in Nat
      /\ functors'[Len(functors) + 1] = "resetChannel" /\ \A i \in 1 .. Len(functors) : functors'[i] = functors[i]
  BY AppendedFunctor DEF LoopFunctors, QueueOK
<1>2. \A i \in 1 .. Len(functors') : functors'[i] # "start" /\ (functors'[i] = "resetChannel" => i = Len(functors) + 1)
  <2>1. ASSUME NEW i \in 1 .. Len(functors') PROVE i \in 1 .. Len(functors) \/ i = Len(functors) + 1
    BY <1>1
  <2>2. QED
    BY <1>1, <2>1 DEF Queued
<1>3. Len(functors) + 1 \in 1 .. Len(functors')
  BY <1>1
<1>4. QED
  BY <1>1, <1>2, <1>3 DEF Queued, QueueOK

LEMMA HeadReplaced ==
    ASSUME QueueOK, functors # <<>>, functors[1] = "stop", ~Queued("start"), ~Queued("resetChannel"),
           functors' = Append(Tail(functors), "resetChannel")
    PROVE  QueueOK' /\ ~Queued("start")' /\ Queued("resetChannel")'
<1> DEFINE n == Len(functors)
<1>1. /\ Tail(functors) \in Seq(LoopFunctors) /\ Len(Tail(functors)) = n - 1 /\ n \in Nat \ {0}
      /\ \A i \in 1 .. n - 1 : Tail(functors)[i] = functors[i + 1]
  BY DroppedFunctor DEF QueueOK
<1>2. /\ functors' \in Seq(LoopFunctors) /\ Len(functors') = n
      /\ functors'[n] = "resetChannel" /\ \A i \in 1 .. n - 1 : functors'[i] = Tail(functors)[i]
  BY <1>1, AppendedFunctor DEF LoopFunctors
<1>3. \A i \in 1 .. n : functors'[i] # "start" /\ (functors'[i] = "resetChannel" => i = n)
  <2>1. \A m \in Nat \ {0} : \A i \in 1 .. m : i = m \/ (i \in 1 .. m - 1 /\ i + 1 \in 1 .. m)
    OBVIOUS
  <2>2. QED
    BY <1>1, <1>2, <2>1 DEF Queued
<1>4. n \in 1 .. n
  BY <1>1
<1>5. QED
  BY <1>2, <1>3, <1>4 DEF Queued, QueueOK

LEMMA StopQueued ==
    ASSUME QueueOK, functors' = Append(functors, "stop")
    PROVE  /\ QueueOK' /\ (Queued("start")' <=> Queued("start"))
           /\ (Queued("resetChannel")' <=> Queued("resetChannel"))
<1>1. /\ functors' \in Seq(LoopFunctors) /\ Len(functors') = Len(functors) + 1 /\ Len(functors) \in Nat
      /\ functors'[Len(functors) + 1] = "stop" /\ \A i \in 1 .. Len(functors) : functors'[i] = functors[i]
  BY AppendedFunctor DEF LoopFunctors, QueueOK
<1>2. \A i \in 1 .. Len(functors') : functors'[i] # "stop" => i \in 1 .. Len(functors) /\ functors[i] = functors'[i]
  BY <1>1
<1>3. \A i \in 1 .. Len(functors) : i \in 1 .. Len(functors')
  BY <1>1
<1>4. QED
  BY <1>1, <1>2, <1>3 DEF Queued, QueueOK

\* startInLoop, begun with nothing else under way.
LEMMA Started ==
    ASSUME ConnectorInv, StartInLoop("Disconnected", 0), channel = "none", link' = "none",
           ~Calls("connect")', QueueOK', ~Queued("start")', ~Queued("resetChannel")',
           retries \in {0, 1}
    PROVE  ConnectorInv'
<1>1. (IF delay * 2 > MaxDelay THEN MaxDelay ELSE delay * 2) \in InitDelay .. MaxDelay
  BY DelayAssumption DEF ConnectorInv, ConnectorTypeOK
<1>2. Required("Disconnected" = "Disconnected" /\ channel = "none") \/ Required("Disconnected" = "Disconnected")
  BY DEF StartInLoop
<1>3. ~broken'
  BY <1>2, Zenon DEF Required, ConnectorInv
<1>4. \/ attempt' = "Connecting" /\ channel' = "watched" /\ retries' = 0 /\ delay' = delay
      \/ /\ attempt' = "Disconnected" /\ channel' = channel /\ retries' \in {0, 0 + 1}
         /\ delay' \in {delay, IF delay * 2 > MaxDelay THEN MaxDelay ELSE delay * 2}
  BY Zenon DEF StartInLoop, Retry
<1>5. delay' \in InitDelay .. MaxDelay /\ retries' \in {0, 1}
  BY <1>1, <1>4 DEF ConnectorInv, ConnectorTypeOK
<1>6. QED
  BY <1>3, <1>4, <1>5 DEF ConnectorInv, ConnectorTypeOK

LEMMA ConnectorInitially == ASSUME NEW seeds, ConnectorInit(seeds) PROVE ConnectorInv
BY DelayAssumption DEF ConnectorInit, ConnectorInv, ConnectorTypeOK, Untouched, Queued, LoopFunctors, QueueOK

LEMMA ConnectorStep == ConnectorInv /\ [ConnectorNext]_connectorVars => ConnectorInv'
<1> SUFFICES ASSUME ConnectorInv, [ConnectorNext]_connectorVars PROVE ConnectorInv'
  OBVIOUS
<1> USE DelayAssumption DEF ConnectorInv, ConnectorTypeOK, userVars, attemptVars
<1>1. CASE RunStart
  <2>1. Len(functors) \in Nat \ {0} /\ functors[1] = "start"
    BY <1>1, DroppedFunctor DEF RunStart, QueueOK
  <2>2. Untouched /\ ~Queued("resetChannel") /\ ~Calls("connect")
    BY <1>1, <2>1 DEF RunStart, Queued, Untouched
  <2>3. QueueOK' /\ ~Queued("start")' /\ ~Queued("resetChannel")'
    BY <1>1, <2>1, <2>2, HeadLeaves DEF RunStart
  <2>4. retries = 0 /\ StartInLoop("Disconnected", 0) /\ Calls("connect")' = Calls("connect") /\ link' = "none"
    BY <1>1, <2>2 DEF RunStart, Untouched, Calls
  <2>5. channel = "none" /\ ~Calls("connect")'
    BY <2>2, <2>4 DEF Untouched
  <2>6. QED
    BY <2>3, <2>4, <2>5, Started
<1>2. CASE RunStop
  <2>1. Len(functors) \in Nat \ {0} /\ functors[1] = "stop"
    BY <1>2, DroppedFunctor DEF RunStop, QueueOK
  <2>2. ~Queued("start") /\ ~Calls("connect")
    BY <2>1 DEF Queued, QueueOK
  <2>3. CASE attempt = "Connecting"
    <3>1. functors' = Append(Tail(functors), "resetChannel") /\ ~Queued("resetChannel")
      BY <1>2, <2>3 DEF RunStop, RemoveChannel
    <3>2. QueueOK' /\ ~Queued("start")' /\ Queued("resetChannel")'
      BY <2>1, <2>2, <3>1, HeadReplaced
    <3>3. QED
      BY <1>2, <2>2, <2>3, <3>2 DEF RunStop, RemoveChannel, Retry, Calls
  <2>4. CASE attempt # "Connecting"
    <3>1. functors' = Tail(functors) /\ UNCHANGED <<attempt, channel, retries, delay, userVars, link, attempts, broken>>
      BY <1>2, <2>4 DEF RunStop
    <3>2. QueueOK' /\ ~Queued("start")' /\ (Queued("resetChannel")' <=> Queued("resetChannel"))
      BY <2>1, <2>2, <3>1, StopLeaves
    <3>3. QED
      BY <2>2, <3>1, <3>2 DEF Calls
  <2>5. QED
    BY <2>3, <2>4
<1>3. CASE RunResetChannel
  <2>1. Len(functors) \in Nat \ {0} /\ functors[1] = "resetChannel"
    BY <1>3, DroppedFunctor DEF RunResetChannel, QueueOK
  <2>2. channel = "removed" /\ ~Queued("start") /\ ~Calls("connect")
    BY <1>3, <2>1 DEF RunResetChannel, Queued, Untouched
  <2>3. QueueOK' /\ ~Queued("start")' /\ ~Queued("resetChannel")'
    BY <1>3, <2>1, <2>2, ResetLeaves DEF RunResetChannel
  <2>4. QED
    BY <1>3, <2>2, <2>3 DEF RunResetChannel, Calls
<1>4. CASE RetryTimer
  <2>1. retries = 1 /\ ~Queued("resetChannel") /\ channel = "none" /\ ~Calls("connect") /\ ~Queued("start")
    BY <1>4 DEF RetryTimer, LaterIteration, Queued, Untouched
  <2>2. /\ QueueOK' /\ Queued("resetChannel")' = Queued("resetChannel") /\ Queued("start")' = Queued("start")
        /\ Calls("connect")' = Calls("connect")
    BY <1>4 DEF RetryTimer, QueueOK, Queued, Calls
  <2>3. attempt = "Disconnected" /\ link = "none" /\ link' = "none" /\ StartInLoop("Disconnected", 0)
    BY <1>4, <2>1 DEF RetryTimer
  <2>4. QED
    BY <2>1, <2>2, <2>3, Started
<1>5. CASE HandleAttempt
  <2>1. functors' = Append(functors, "resetChannel") /\ retries = 0 /\ link = "none" /\ ~Calls("connect")
        /\ ~Queued("start") /\ ~Queued("resetChannel")
    BY <1>5 DEF HandleAttempt, RemoveChannel, Untouched
  <2>2. QueueOK' /\ ~Queued("start")' /\ Queued("resetChannel")'
    BY <2>1, ResetQueued
  <2>3. ~Calls("connect")' /\ channel' = "removed"
    BY <1>5, <2>1 DEF HandleAttempt, RemoveChannel, Calls
  <2>4. CASE Retry(retries) /\ UNCHANGED <<link, broken>>
    BY <1>5, <2>1, <2>2, <2>3, <2>4 DEF HandleAttempt, Retry
  <2>5. CASE attempt' = "Connected" /\ UNCHANGED <<retries, delay>>
    BY <1>5, <2>1, <2>2, <2>3, <2>5 DEF HandleAttempt, Retry, Required
  <2>6. QED
    BY <1>5, <2>4, <2>5 DEF HandleAttempt
<1>6. CASE ConnectionDown
  <2>1. ~Queued("resetChannel") /\ ~Calls("connect") /\ ~Queued("start") /\ channel = "none" /\ attempt # "Connecting" /\ retries = 0
    BY <1>6 DEF ConnectionDown, LaterIteration, Queued, Untouched
  <2>2. QED
    BY <1>6, <2>1 DEF ConnectionDown, Queued, Calls, QueueOK
<1>7. CASE Restart
  <2>1. ~Calls("connect") /\ ~Queued("start") /\ ~Queued("resetChannel") /\ retries = 0 /\ channel = "none"
    BY <1>7 DEF Restart, Untouched
  <2>2. /\ QueueOK' /\ Queued("resetChannel")' = Queued("resetChannel") /\ Queued("start")' = Queued("start")
        /\ Calls("connect")' = Calls("connect") /\ link' = "none"
    BY <1>7 DEF Restart, QueueOK, Queued, Calls
  <2>3. InitDelay \in InitDelay .. MaxDelay /\ (IF InitDelay * 2 > MaxDelay THEN MaxDelay ELSE InitDelay * 2) \in InitDelay .. MaxDelay
    OBVIOUS
  <2>4. attempt' \in {"Connecting", "Disconnected"}
    BY <1>7 DEF Restart
  <2>5. CASE attempt' = "Connecting"
    <3>1. channel' = "watched" /\ delay' = InitDelay /\ retries' = retries /\ Required(channel = "none")
      BY <1>7, <2>5 DEF Restart
    <3>2. ~broken'
      BY <2>1, <3>1, Zenon DEF Required
    <3>3. QED
      BY <2>1, <2>2, <2>3, <2>5, <3>1, <3>2
  <2>6. CASE attempt' = "Disconnected"
    <3>1. /\ retries' \in {retries, retries + 1} /\ channel' = channel /\ broken' = broken
          /\ delay' \in {InitDelay, IF InitDelay * 2 > MaxDelay THEN MaxDelay ELSE InitDelay * 2}
      BY <1>7, <2>6 DEF Restart
    <3>2. delay' \in InitDelay .. MaxDelay /\ retries' \in {0, 1}
      BY <2>1, <2>3, <3>1
    <3>3. QED
      BY <2>1, <2>2, <2>6, <3>1, <3>2
  <2>7. QED
    BY <2>4, <2>5, <2>6
<1>8. CASE CallConnect
  <2>1. functors = <<>> /\ Untouched /\ functors' = <<"start">>
    BY <1>8 DEF CallConnect
  <2>2. ~Calls("connect")'
    BY <1>8 DEF CallConnect, Called, Calls
  <2>3. QED
    BY <1>8, <2>1, <2>2 DEF CallConnect, Untouched, Queued, LoopFunctors, QueueOK
<1>9. CASE CallDisconnect
  BY <1>9 DEF CallDisconnect, Called, Calls, Untouched, Queued, QueueOK
<1>10. CASE CallStop
  <2>1. functors' = Append(functors, "stop") /\ ~Calls("connect") /\ ~Calls("connect")'
    BY <1>10 DEF CallStop, Called, Calls
  <2>2. /\ QueueOK' /\ (Queued("start")' <=> Queued("start"))
        /\ (Queued("resetChannel")' <=> Queued("resetChannel"))
    BY <2>1, StopQueued
  <2>3. UNCHANGED <<attempt, channel, retries, delay, broken, link>>
    BY <1>10 DEF CallStop
  <2>4. Queued("start")' => Untouched'
    BY <2>2, <2>3 DEF Untouched
  <2>5. QED
    BY <2>1, <2>2, <2>3, <2>4
<1>11. CASE UNCHANGED connectorVars
  BY <1>11 DEF connectorVars, Calls, Untouched, Queued, QueueOK
<1>12. QED
  BY <1>1, <1>2, <1>3, <1>4, <1>5, <1>6, <1>7, <1>8, <1>9, <1>10, <1>11 DEF ConnectorNext

-----------------------------------------------------------------------------
TimersSpec == TimersInit /\ [][TimersNext]_timerVars
SchedulerSpec == SchedulerInit /\ [][SchedulerNext]_schedulerVars
ConnectorSpec == ConnectorInit(ClientSeeds) /\ [][ConnectorNext]_connectorVars

LEMMA TimersInvariant == TimersSpec => []TimersInv
BY TimersInitially, TimersStep, PTL DEF TimersSpec

LEMMA JobsInvariant == SchedulerSpec => []JobsInv
BY JobsInitially, JobsStep, PTL DEF SchedulerSpec

LEMMA ConnectorInvariant == ConnectorSpec => []ConnectorInv
<1>1. ConnectorInit(ClientSeeds) => ConnectorInv
  BY ConnectorInitially
<1>2. QED
  BY <1>1, ConnectorStep, PTL DEF ConnectorSpec

LEMMA PartsTypeCorrect ==
    /\ TimersSpec => []TimersTypeOK
    /\ SchedulerSpec => []SchedulerTypeOK
    /\ ConnectorSpec => []ConnectorTypeOK
<1>1. TimersInv => TimersTypeOK
  BY DEF TimersInv, TimerTypes, BatchOK, Batch, TimersTypeOK
<1>2. JobsInv => SchedulerTypeOK
  BY DEF JobsInv
<1>3. ConnectorInv => ConnectorTypeOK
  BY DEF ConnectorInv
<1>4. QED
  BY <1>1, <1>2, <1>3, TimersInvariant, JobsInvariant, ConnectorInvariant, PTL

\* TimerQueue of Inet: no timer is missed, none is deleted while the queue or
\* the running batch holds it, and a cancelled one does not come back, for any
\* timers and intervals and with callbacks that add and cancel.
THEOREM TimersStayArmed == TimersSpec => []TimersArmed
<1>1. TimersInv => TimersArmed
  BY DEF TimersInv
<1>2. QED
  BY <1>1, TimersInvariant, PTL

\* TimerQueue of ScheduledThreadPool: no job is closed or removed under the
\* thread that runs it, and repeating ones stay, also when the thread ends
\* before its time.
THEOREM JobsStayKept == SchedulerSpec => []JobsKept
<1>1. JobsInv => JobsKept
  BY DEF JobsInv
<1>2. QED
  BY <1>1, JobsInvariant, PTL

\* A client has one attempt, one retry or one connection at a time, and no
\* assertion of its connector fails, whenever its user calls stop, disconnect
\* and connect.
THEOREM ConnectorStaysSound == ConnectorSpec => []ConnectorSound
BY ConnectorInvariant, ConnectorInvSound, PTL
=============================================================================
