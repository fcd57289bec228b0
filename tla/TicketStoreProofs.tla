------------------------- MODULE TicketStoreProofs -------------------------
(***************************************************************************)
(* Proofs about the database side of an order, for every set of requests,  *)
(* tickets and seats and every expiry limit.                               *)
(***************************************************************************)
EXTENDS TicketStore, FiniteSetTheorems, TLAPS

-----------------------------------------------------------------------------
(* What an order counts for.                                               *)

LEMMA UnitsFinite ==
    ASSUME NEW R \in SUBSET Requests, NEW t
    PROVE  IsFiniteSet(Units(R, t)) /\ Cardinality(Units(R, t)) \in Nat
<1>1. IsFiniteSet(R)
  BY FS_Subset, RequestsAssumption
<1>2. IsFiniteSet(1 .. MaxPerOrder)
  <2>1. 1 \in Int /\ MaxPerOrder \in Int
    BY DEF MaxPerOrder
  <2>2. QED
    BY <2>1, FS_Interval
<1>3. IsFiniteSet(R \X (1 .. MaxPerOrder))
  BY <1>1, <1>2, FS_Product
<1>4. Units(R, t) \in SUBSET (R \X (1 .. MaxPerOrder))
  BY DEF Units
<1>5. IsFiniteSet(Units(R, t))
  BY <1>3, <1>4, FS_Subset
<1>6. QED
  BY <1>5, FS_CardinalityType

\* Units of orders without a common member add up.
LEMMA UnitsDisjoint ==
    ASSUME NEW A \in SUBSET Requests, NEW B \in SUBSET Requests, A \cap B = {}, NEW t
    PROVE  Cardinality(Units(A \cup B, t)) =
               Cardinality(Units(A, t)) + Cardinality(Units(B, t))
<1>1. Units(A \cup B, t) = Units(A, t) \cup Units(B, t)
  BY DEF Units
<1>2. Units(A, t) \cap Units(B, t) = {}
  BY DEF Units
<1>3. /\ IsFiniteSet(Units(A, t)) /\ Cardinality(Units(A, t)) \in Nat
      /\ IsFiniteSet(Units(B, t)) /\ Cardinality(Units(B, t)) \in Nat
  BY UnitsFinite
<1>4. Cardinality(Units(A, t) \cup Units(B, t)) =
          Cardinality(Units(A, t)) + Cardinality(Units(B, t))
              - Cardinality(Units(A, t) \cap Units(B, t))
  BY <1>3, FS_Union
<1>5. Cardinality(Units(A, t) \cap Units(B, t)) = 0
  BY <1>2, FS_EmptySet
<1>6. Cardinality(Units(A \cup B, t)) = Cardinality(Units(A, t) \cup Units(B, t))
  BY <1>1
<1>7. QED
  BY <1>3, <1>4, <1>5, <1>6

\* One order counts for its quantity on its ticket, for nothing elsewhere.
LEMMA UnitsOfOne ==
    ASSUME NEW r \in Requests, NEW t
    PROVE  Cardinality(Units({r}, t)) = IF TicketOf[r] = t THEN Qty[r] ELSE 0
<1>1. Qty[r] \in 1 .. MaxPerOrder
  BY RequestsAssumption
<1>2. CASE TicketOf[r] = t
  <2>1. Units({r}, t) = {r} \X (1 .. Qty[r])
    BY <1>1, <1>2 DEF Units, MaxPerOrder
  <2>2. IsFiniteSet({r}) /\ Cardinality({r}) = 1
    BY FS_Singleton
  <2>3. IsFiniteSet(1 .. Qty[r]) /\ Cardinality(1 .. Qty[r]) = Qty[r]
    BY <1>1, FS_Interval DEF MaxPerOrder
  <2>4. Cardinality({r} \X (1 .. Qty[r])) = Cardinality({r}) * Cardinality(1 .. Qty[r])
    BY <2>2, <2>3, FS_Product
  <2>5. 1 * Qty[r] = Qty[r]
    BY <1>1 DEF MaxPerOrder
  <2>6. QED
    BY <2>1, <2>2, <2>3, <2>4, <2>5, <1>2
<1>3. CASE TicketOf[r] # t
  <2>1. Units({r}, t) = {}
    BY <1>3 DEF Units
  <2>2. QED
    BY <2>1, <1>3, FS_EmptySet
<1>4. QED
  BY <1>2, <1>3

LEMMA UnitsOfNone == \A t : Cardinality(Units({}, t)) = 0
<1>1. \A t : Units({}, t) = {}
  BY DEF Units
<1>2. QED
  BY <1>1, FS_EmptySet

-----------------------------------------------------------------------------
(* Type correctness.                                                       *)

LEMMA StoreInitTypeOK == StoreInit => StoreTypeOK
BY RequestsAssumption DEF StoreInit, StoreTypeOK

LEMMA GiveBackTypeOK ==
    ASSUME StoreTypeOK, NEW R \in SUBSET Requests,
           NEW state \in {"CANCELLED", "EXPIRED"}, GiveBack(R, state)
    PROVE  StoreTypeOK'
<1>1. \A t \in Tickets : Cardinality(Units(R, t)) \in Nat
  BY UnitsFinite
<1>2. avail' \in [Tickets -> Nat]
  BY <1>1 DEF GiveBack, StoreTypeOK
<1>3. QED
  BY <1>2 DEF GiveBack, StoreTypeOK

LEMMA StoreStepTypeOK == StoreTypeOK /\ [StoreNext]_storeVars => StoreTypeOK'
<1> SUFFICES ASSUME StoreTypeOK, [StoreNext]_storeVars PROVE StoreTypeOK'
  OBVIOUS
<1>1. ASSUME NEW r \in Requests, Reserve(r) PROVE StoreTypeOK'
  <2>1. avail[TicketOf[r]] \in Nat /\ Qty[r] \in Nat /\ TicketOf[r] \in Tickets
    BY RequestsAssumption DEF StoreTypeOK, MaxPerOrder
  <2>2. shelf[TicketOf[r]] \in {"absent", "onsale", "offline"}
    BY <2>1 DEF StoreTypeOK
  <2>3. avail[TicketOf[r]] >= Qty[r]
    BY <1>1, <2>1, <2>2 DEF Reserve, Outcome
  <2>4. avail' \in [Tickets -> Nat]
    BY <1>1, <2>1, <2>3 DEF Reserve, StoreTypeOK
  <2>5. QED
    BY <1>1, <2>4 DEF Reserve, StoreTypeOK
<1>2. ASSUME NEW r \in Requests, Number(r) PROVE StoreTypeOK'
  BY <1>2 DEF Number, StoreTypeOK
<1>3. ASSUME NEW r \in Requests, Cancel(r) PROVE StoreTypeOK'
  BY <1>3, GiveBackTypeOK DEF Cancel
<1>4. ASSUME NEW r \in Requests, Confirm(r) PROVE StoreTypeOK'
  BY <1>4 DEF Confirm, StoreTypeOK
<1>5. ASSUME NEW r \in Requests, Deadline(r) PROVE StoreTypeOK'
  BY <1>5 DEF Deadline, StoreTypeOK
<1>6. ASSUME NEW R \in SUBSET Requests, Expire(R) PROVE StoreTypeOK'
  BY <1>6, GiveBackTypeOK DEF Expire
<1>7. ASSUME NEW t \in Tickets, AddTicket(t) PROVE StoreTypeOK'
  BY <1>7 DEF AddTicket, StoreTypeOK
<1>8. ASSUME NEW T \in SUBSET Tickets, TakeOffline(T) PROVE StoreTypeOK'
  BY <1>8 DEF TakeOffline, StoreTypeOK
<1>9. ASSUME UNCHANGED storeVars PROVE StoreTypeOK'
  BY <1>9 DEF storeVars, StoreTypeOK
<1>10. QED
  BY <1>1, <1>2, <1>3, <1>4, <1>5, <1>6, <1>7, <1>8, <1>9 DEF StoreNext

\* The columns keep their types; available_seats never becomes negative.
THEOREM StoreTypeCorrect == StoreSpec => []StoreTypeOK
<1>1. StoreInit => StoreTypeOK
  BY StoreInitTypeOK
<1>2. StoreTypeOK /\ [StoreNext]_storeVars => StoreTypeOK'
  BY StoreStepTypeOK
<1>3. QED
  BY <1>1, <1>2, PTL DEF StoreSpec

-----------------------------------------------------------------------------
(* Conservation of the admissions.                                         *)

\* Orders that leave Active give back exactly what they held.
LEMMA GiveBackConserves ==
    ASSUME StoreTypeOK, Conservation, NEW R \in SUBSET Active,
           NEW state \in {"CANCELLED", "EXPIRED"}, GiveBack(R, state)
    PROVE  Conservation'
<1>1. Active' = Active \ R
  BY DEF Active, GiveBack
<1>2. SUFFICES ASSUME NEW t \in Tickets
               PROVE  avail'[t] + Cardinality(Units(Active', t)) = Total[t]
  BY DEF Conservation, Units
<1>3. /\ Active \ R \in SUBSET Requests /\ R \in SUBSET Requests
      /\ (Active \ R) \cap R = {} /\ Active = (Active \ R) \cup R
  BY DEF Active
<1>4. Cardinality(Units(Active, t)) =
          Cardinality(Units(Active \ R, t)) + Cardinality(Units(R, t))
  BY <1>3, UnitsDisjoint
<1>5. avail'[t] = avail[t] + Cardinality(Units(R, t))
  BY DEF GiveBack
<1>6. /\ Cardinality(Units(Active \ R, t)) \in Nat
      /\ Cardinality(Units(R, t)) \in Nat /\ avail[t] \in Nat
  BY <1>3, UnitsFinite DEF StoreTypeOK
<1>7. avail[t] + Cardinality(Units(Active, t)) = Total[t]
  BY DEF Conservation
<1>8. QED
  BY <1>1, <1>4, <1>5, <1>6, <1>7

LEMMA ReserveConserves ==
    ASSUME StoreTypeOK, Conservation, NEW r \in Requests, Reserve(r)
    PROVE  Conservation'
<1>1. resv[r] = "NONE"
  <2>1. shelf[TicketOf[r]] \in {"absent", "onsale", "offline"} /\ TicketOf[r] \in Tickets
    BY RequestsAssumption DEF StoreTypeOK
  <2>2. avail[TicketOf[r]] \in Nat /\ Qty[r] \in Nat
    BY <2>1, RequestsAssumption DEF StoreTypeOK, MaxPerOrder
  <2>3. QED
    BY <2>1, <2>2 DEF Reserve, Outcome
<1>2. Active' = Active \cup {r} /\ r \notin Active
  BY <1>1 DEF Active, Reserve, StoreTypeOK
<1>3. SUFFICES ASSUME NEW t \in Tickets
               PROVE  avail'[t] + Cardinality(Units(Active', t)) = Total[t]
  BY DEF Conservation, Units
<1>4. Active \in SUBSET Requests /\ {r} \in SUBSET Requests /\ Active \cap {r} = {}
  BY <1>2 DEF Active
<1>5. Cardinality(Units(Active \cup {r}, t)) =
          Cardinality(Units(Active, t)) + Cardinality(Units({r}, t))
  BY <1>4, UnitsDisjoint
<1>6. Cardinality(Units({r}, t)) = IF TicketOf[r] = t THEN Qty[r] ELSE 0
  BY UnitsOfOne
<1>7. avail'[t] = IF TicketOf[r] = t THEN avail[t] - Qty[r] ELSE avail[t]
  BY DEF Reserve, StoreTypeOK
<1>8. avail[t] \in Nat /\ Qty[r] \in Nat /\ Cardinality(Units(Active, t)) \in Nat
  BY <1>4, UnitsFinite, RequestsAssumption DEF StoreTypeOK, MaxPerOrder
<1>9. avail[t] + Cardinality(Units(Active, t)) = Total[t]
  BY DEF Conservation
<1>10. QED
  BY <1>2, <1>5, <1>6, <1>7, <1>8, <1>9

\* A step that leaves both the counters and the live orders alone.
LEMMA SameActiveConserves ==
    ASSUME Conservation, avail' = avail, Active' = Active
    PROVE  Conservation'
BY DEF Conservation, Units

LEMMA StoreStepConserves ==
    StoreTypeOK /\ Conservation /\ [StoreNext]_storeVars => Conservation'
<1> SUFFICES ASSUME StoreTypeOK, Conservation, [StoreNext]_storeVars PROVE Conservation'
  OBVIOUS
<1>1. ASSUME NEW r \in Requests, Reserve(r) PROVE Conservation'
  BY <1>1, ReserveConserves
<1>2. ASSUME NEW r \in Requests, Number(r) PROVE Conservation'
  BY <1>2, SameActiveConserves DEF Number, Active
<1>3. ASSUME NEW r \in Requests, Cancel(r) PROVE Conservation'
  <2>1. {r} \in SUBSET Active
    BY <1>3 DEF Cancel, Active
  <2>2. QED
    BY <1>3, <2>1, GiveBackConserves DEF Cancel
<1>4. ASSUME NEW r \in Requests, Confirm(r) PROVE Conservation'
  <2>1. Active' = Active
    BY <1>4 DEF Confirm, Active, StoreTypeOK
  <2>2. QED
    BY <1>4, <2>1, SameActiveConserves DEF Confirm
<1>5. ASSUME NEW r \in Requests, Deadline(r) PROVE Conservation'
  BY <1>5, SameActiveConserves DEF Deadline, Active
<1>6. ASSUME NEW R \in SUBSET Requests, Expire(R) PROVE Conservation'
  <2>1. R \in SUBSET Active
    BY <1>6 DEF Expire, Overdue, Active
  <2>2. QED
    BY <1>6, <2>1, GiveBackConserves DEF Expire
<1>7. ASSUME NEW t \in Tickets, AddTicket(t) PROVE Conservation'
  BY <1>7, SameActiveConserves DEF AddTicket, Active
<1>8. ASSUME NEW T \in SUBSET Tickets, TakeOffline(T) PROVE Conservation'
  BY <1>8, SameActiveConserves DEF TakeOffline, Active
<1>9. ASSUME UNCHANGED storeVars PROVE Conservation'
  BY <1>9, SameActiveConserves DEF storeVars, Active
<1>10. QED
  BY <1>1, <1>2, <1>3, <1>4, <1>5, <1>6, <1>7, <1>8, <1>9 DEF StoreNext

LEMMA StoreInitConserves == StoreInit => Conservation
<1> SUFFICES ASSUME StoreInit, NEW t \in Tickets
             PROVE  avail[t] + Cardinality(Units(Active, t)) = Total[t]
  BY DEF Conservation
<1>1. Active = {}
  BY DEF StoreInit, Active
<1>2. QED
  BY <1>1, UnitsOfNone, RequestsAssumption DEF StoreInit

\* No admission is lost or sold twice, whatever the order of the transactions.
THEOREM AdmissionsConserved == StoreSpec => []Conservation
<1>1. StoreInit => StoreTypeOK /\ Conservation
  BY StoreInitTypeOK, StoreInitConserves
<1>2. StoreTypeOK /\ Conservation /\ [StoreNext]_storeVars => (StoreTypeOK /\ Conservation)'
  BY StoreStepTypeOK, StoreStepConserves
<1>3. QED
  BY <1>1, <1>2, PTL DEF StoreSpec

-----------------------------------------------------------------------------
(* Seats.                                                                  *)

LEMMA GiveBackSeats ==
    ASSUME StoreTypeOK, SeatsMatch, NEW R \in SUBSET Active,
           NEW state \in {"CANCELLED", "EXPIRED"}, GiveBack(R, state)
    PROVE  SeatsMatch'
<1>1. Active' = Active \ R
  BY DEF Active, GiveBack
<1>2. ASSUME NEW r \in Requests, r \in Active', NEW x \in SeatsOf[r]
      PROVE  seatOf'[x] = r
  <2>1. x \in Seats
    BY RequestsAssumption
  <2>2. seatOf[x] = r
    BY <1>1, <1>2 DEF SeatsMatch
  <2>3. QED
    BY <1>1, <1>2, <2>1, <2>2 DEF GiveBack
<1>3. ASSUME NEW x \in Seats, seatOf'[x] # NoRequest
      PROVE  seatOf'[x] \in Active' /\ x \in SeatsOf[seatOf'[x]]
  <2>1. seatOf'[x] = seatOf[x] /\ seatOf[x] \notin R
    BY <1>3 DEF GiveBack
  <2>2. QED
    BY <1>1, <1>3, <2>1 DEF SeatsMatch
<1>4. QED
  BY <1>2, <1>3 DEF SeatsMatch

\* What the order transaction has checked when it commits.
LEMMA ReserveChecks ==
    ASSUME StoreTypeOK, NEW r \in Requests, Reserve(r)
    PROVE  /\ resv[r] = "NONE"
           /\ avail[TicketOf[r]] >= Qty[r]
           /\ \A x \in SeatsOf[r] : seatOf[x] = NoRequest
<1>1. shelf[TicketOf[r]] \in {"absent", "onsale", "offline"} /\ TicketOf[r] \in Tickets
  BY RequestsAssumption DEF StoreTypeOK
<1>2. avail[TicketOf[r]] \in Nat /\ Qty[r] \in Nat
  BY <1>1, RequestsAssumption DEF StoreTypeOK, MaxPerOrder
<1>3. resv[r] = "NONE" /\ avail[TicketOf[r]] >= Qty[r] /\ SeatsFree(r)
  BY <1>1, <1>2 DEF Reserve, Outcome
<1>4. QED
  BY <1>3 DEF SeatsFree

LEMMA ReserveSeats ==
    ASSUME StoreTypeOK, SeatsMatch, NEW r \in Requests, Reserve(r)
    PROVE  SeatsMatch'
<1>1. Active' = Active \cup {r} /\ r \notin Active
  BY ReserveChecks DEF Active, Reserve, StoreTypeOK
<1>2. ASSUME NEW q \in Requests, q \in Active', NEW x \in SeatsOf[q]
      PROVE  seatOf'[x] = q
  <2>1. x \in Seats
    BY RequestsAssumption
  <2>2. CASE q = r
    BY <2>1, <2>2 DEF Reserve
  <2>3. CASE q # r
    <3>1. seatOf[x] = q /\ q # NoRequest
      BY <1>1, <1>2, <2>3, RequestsAssumption DEF SeatsMatch
    <3>2. x \notin SeatsOf[r]
      BY <3>1, ReserveChecks
    <3>3. QED
      BY <2>1, <3>1, <3>2 DEF Reserve
  <2>4. QED
    BY <2>2, <2>3
<1>3. ASSUME NEW x \in Seats, seatOf'[x] # NoRequest
      PROVE  seatOf'[x] \in Active' /\ x \in SeatsOf[seatOf'[x]]
  <2>1. CASE x \in SeatsOf[r]
    BY <1>1, <2>1 DEF Reserve
  <2>2. CASE x \notin SeatsOf[r]
    <3>1. seatOf'[x] = seatOf[x]
      BY <2>2 DEF Reserve
    <3>2. QED
      BY <1>1, <1>3, <3>1 DEF SeatsMatch
  <2>3. QED
    BY <2>1, <2>2
<1>4. QED
  BY <1>2, <1>3 DEF SeatsMatch

LEMMA SameActiveSeats ==
    ASSUME SeatsMatch, seatOf' = seatOf, Active' = Active
    PROVE  SeatsMatch'
BY DEF SeatsMatch

LEMMA StoreStepSeats ==
    StoreTypeOK /\ SeatsMatch /\ [StoreNext]_storeVars => SeatsMatch'
<1> SUFFICES ASSUME StoreTypeOK, SeatsMatch, [StoreNext]_storeVars PROVE SeatsMatch'
  OBVIOUS
<1>1. ASSUME NEW r \in Requests, Reserve(r) PROVE SeatsMatch'
  BY <1>1, ReserveSeats
<1>2. ASSUME NEW r \in Requests, Number(r) PROVE SeatsMatch'
  BY <1>2, SameActiveSeats DEF Number, Active
<1>3. ASSUME NEW r \in Requests, Cancel(r) PROVE SeatsMatch'
  <2>1. {r} \in SUBSET Active
    BY <1>3 DEF Cancel, Active
  <2>2. QED
    BY <1>3, <2>1, GiveBackSeats DEF Cancel
<1>4. ASSUME NEW r \in Requests, Confirm(r) PROVE SeatsMatch'
  <2>1. Active' = Active
    BY <1>4 DEF Confirm, Active, StoreTypeOK
  <2>2. QED
    BY <1>4, <2>1, SameActiveSeats DEF Confirm
<1>5. ASSUME NEW r \in Requests, Deadline(r) PROVE SeatsMatch'
  BY <1>5, SameActiveSeats DEF Deadline, Active
<1>6. ASSUME NEW R \in SUBSET Requests, Expire(R) PROVE SeatsMatch'
  <2>1. R \in SUBSET Active
    BY <1>6 DEF Expire, Overdue, Active
  <2>2. QED
    BY <1>6, <2>1, GiveBackSeats DEF Expire
<1>7. ASSUME NEW t \in Tickets, AddTicket(t) PROVE SeatsMatch'
  BY <1>7, SameActiveSeats DEF AddTicket, Active
<1>8. ASSUME NEW T \in SUBSET Tickets, TakeOffline(T) PROVE SeatsMatch'
  BY <1>8, SameActiveSeats DEF TakeOffline, Active
<1>9. ASSUME UNCHANGED storeVars PROVE SeatsMatch'
  BY <1>9, SameActiveSeats DEF storeVars, Active
<1>10. QED
  BY <1>1, <1>2, <1>3, <1>4, <1>5, <1>6, <1>7, <1>8, <1>9 DEF StoreNext

LEMMA StoreInitSeats == StoreInit => SeatsMatch
BY DEF StoreInit, SeatsMatch, Active

\* A seat row is sold exactly for the live order that asked for it.
THEOREM SeatsMatchOrders == StoreSpec => []SeatsMatch
<1>1. StoreInit => StoreTypeOK /\ SeatsMatch
  BY StoreInitTypeOK, StoreInitSeats
<1>2. StoreTypeOK /\ SeatsMatch /\ [StoreNext]_storeVars => (StoreTypeOK /\ SeatsMatch)'
  BY StoreStepTypeOK, StoreStepSeats
<1>3. QED
  BY <1>1, <1>2, PTL DEF StoreSpec

-----------------------------------------------------------------------------
(* The tables implement the abstract allocation.                           *)

StoreInv == StoreTypeOK /\ Conservation /\ SeatsMatch

LEMMA OfficeHolding ==
    ASSUME StoreTypeOK
    PROVE  Office!Holding = Active
BY DEF Office!Holding, Active, OrderState, StoreTypeOK

LEMMA OfficeUnits == \A R, t : Office!Units(R, t) = Units(R, t)
BY DEF Office!Units, Units, Office!MaxPerOrder, MaxPerOrder

LEMMA OfficeCardinality == \A S : Office!Cardinality(S) = Cardinality(S)
BY DEF Office!Cardinality, Cardinality

LEMMA ReserveTakes ==
    ASSUME StoreInv, NEW r \in Requests, Reserve(r)
    PROVE  Office!Take(r)
<1> USE DEF StoreInv
<1>1. resv[r] = "NONE" /\ avail[TicketOf[r]] >= Qty[r]
  BY ReserveChecks
<1>2. Office!Cardinality(Office!Units(Office!Holding, TicketOf[r])) + Qty[r] <= Total[TicketOf[r]]
  <2>1. TicketOf[r] \in Tickets /\ Qty[r] \in Nat
    BY RequestsAssumption DEF MaxPerOrder
  <2>2. avail[TicketOf[r]] + Cardinality(Units(Active, TicketOf[r])) = Total[TicketOf[r]]
    BY <2>1 DEF Conservation
  <2>3. avail[TicketOf[r]] \in Nat /\ Cardinality(Units(Active, TicketOf[r])) \in Nat
    BY <2>1, UnitsFinite DEF StoreTypeOK, Active
  <2>4. Office!Units(Office!Holding, TicketOf[r]) = Units(Active, TicketOf[r])
    BY OfficeHolding, OfficeUnits
  <2>5. QED
    BY <1>1, <2>1, <2>2, <2>3, <2>4, OfficeCardinality
<1>3. \A q \in Office!Holding : SeatsOf[q] \cap SeatsOf[r] = {}
  <2> SUFFICES ASSUME NEW q \in Active, NEW x \in SeatsOf[q], x \in SeatsOf[r]
               PROVE  FALSE
    BY OfficeHolding
  <2>1. q \in Requests
    BY DEF Active
  <2>2. seatOf[x] = q /\ seatOf[x] = NoRequest
    BY <2>1, ReserveChecks DEF SeatsMatch
  <2>3. QED
    BY <2>1, <2>2, RequestsAssumption
<1>4. resv' = [resv EXCEPT ![r] = "PENDING"]
  BY DEF Reserve
<1>5. [q \in Requests |-> OrderState(resv'[q])] =
          [[q \in Requests |-> OrderState(resv[q])] EXCEPT ![r] = "held"]
  <2>1. OrderState("PENDING") = "held"
    BY DEF OrderState
  <2>2. \A q \in Requests : resv'[q] = IF q = r THEN "PENDING" ELSE resv[q]
    BY <1>4 DEF StoreTypeOK
  <2>3. QED
    BY <2>1, <2>2
<1>6. [q \in Requests |-> OrderState(resv[q])][r] = "none"
  BY <1>1 DEF OrderState
<1>7. QED
  BY <1>2, <1>3, <1>5, <1>6 DEF Office!Take

LEMMA GiveBackReleases ==
    ASSUME StoreInv, NEW R \in SUBSET Active, R # {},
           NEW state \in {"CANCELLED", "EXPIRED"}, GiveBack(R, state)
    PROVE  Office!Release(R)
<1>1. R \subseteq Office!Holding
  BY OfficeHolding DEF StoreInv
<1>2. resv' = [r \in Requests |-> IF r \in R THEN state ELSE resv[r]]
  BY DEF GiveBack
<1>3. QED
  BY <1>1, <1>2 DEF Office!Release, OrderState

LEMMA SameOrdersStutter ==
    ASSUME resv' = resv
    PROVE  [r \in Requests |-> OrderState(resv[r])]' = [r \in Requests |-> OrderState(resv[r])]
BY DEF OrderState

LEMMA StoreStepRefines ==
    StoreInv /\ [StoreNext]_storeVars =>
        [Office!AllocationNext]_([r \in Requests |-> OrderState(resv[r])])
<1> SUFFICES ASSUME StoreInv, [StoreNext]_storeVars
             PROVE  [Office!AllocationNext]_([r \in Requests |-> OrderState(resv[r])])
  OBVIOUS
<1>1. ASSUME NEW r \in Requests, Reserve(r) PROVE Office!AllocationNext
  BY <1>1, ReserveTakes DEF Office!AllocationNext
<1>2. ASSUME NEW r \in Requests, Confirm(r) PROVE Office!AllocationNext
  <2>1. Office!Pay(r)
    BY <1>2 DEF Confirm, Office!Pay, OrderState, StoreInv, StoreTypeOK
  <2>2. QED
    BY <2>1 DEF Office!AllocationNext
<1>3. ASSUME NEW r \in Requests, Cancel(r) PROVE Office!AllocationNext
  <2>1. {r} \in SUBSET Active /\ {r} \in SUBSET Requests /\ {r} # {}
    BY <1>3 DEF Cancel, Active
  <2>2. Office!Release({r})
    BY <1>3, <2>1, GiveBackReleases DEF Cancel
  <2>3. QED
    BY <2>1, <2>2 DEF Office!AllocationNext
<1>4. ASSUME NEW R \in SUBSET Requests, Expire(R) PROVE Office!AllocationNext
  <2>1. R \in SUBSET Active /\ R # {}
    BY <1>4 DEF Expire, Overdue, Active
  <2>2. Office!Release(R)
    BY <1>4, <2>1, GiveBackReleases DEF Expire
  <2>3. QED
    BY <2>2 DEF Office!AllocationNext
<1>5. ASSUME NEW r \in Requests, Number(r) \/ Deadline(r) PROVE resv' = resv
  BY <1>5 DEF Number, Deadline
<1>6. ASSUME NEW t \in Tickets, AddTicket(t) PROVE resv' = resv
  BY <1>6 DEF AddTicket
<1>7. ASSUME NEW T \in SUBSET Tickets, TakeOffline(T) PROVE resv' = resv
  BY <1>7 DEF TakeOffline
<1>8. ASSUME UNCHANGED storeVars PROVE resv' = resv
  BY <1>8 DEF storeVars
<1>9. Office!AllocationNext \/ resv' = resv
  BY <1>1, <1>2, <1>3, <1>4, <1>5, <1>6, <1>7, <1>8 DEF StoreNext
<1>10. QED
  BY <1>9, SameOrdersStutter

\* Nothing is oversold, no seat is held by two orders, a released order never
\* comes back: the tables implement Allocation.
THEOREM StoreImplementsAllocation == StoreSpec => ImplementsAllocation
<1>1. StoreInit => StoreInv
  BY StoreInitTypeOK, StoreInitConserves, StoreInitSeats DEF StoreInv
<1>2. StoreInv /\ [StoreNext]_storeVars => StoreInv'
  BY StoreStepTypeOK, StoreStepConserves, StoreStepSeats DEF StoreInv
<1>3. StoreInit => Office!AllocationInit
  BY DEF StoreInit, Office!AllocationInit, OrderState
<1>4. StoreInv /\ [StoreNext]_storeVars =>
          [Office!AllocationNext]_([r \in Requests |-> OrderState(resv[r])])
  BY StoreStepRefines
<1>5. QED
  BY <1>1, <1>2, <1>3, <1>4, PTL DEF StoreSpec, ImplementsAllocation, Office!AllocationSpec
=============================================================================
