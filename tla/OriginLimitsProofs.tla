------------------------- MODULE OriginLimitsProofs -------------------------
(***************************************************************************)
(* The origin limits for any number of fetches, permits and sizes: both    *)
(* counters are exact, every reservation is admitted within the limit, and *)
(* bodies of declared length keep concurrent fetches within it.            *)
(***************************************************************************)
EXTENDS OriginLimits, SumsProofs

\* The counter after one guard's reservation changed from reserved[f] to n.
LEMMA ReservationMoves ==
  ASSUME TypeOK, BytesExact, NEW f \in Fetches, NEW n \in Nat,
         reserved' = [reserved EXCEPT ![f] = n]
  PROVE  /\ SumOf(reserved', Fetches) = SumOf(reserved, Fetches) - reserved[f] + n
         /\ SumOf(reserved, Fetches) >= reserved[f]
         /\ SumOf(reserved, Fetches) \in Nat
         /\ SumOf(reserved', Fetches) \in Nat
<1> DEFINE a == reserved
           b == reserved'
<1>1. /\ \A j \in Fetches : a[j] \in Nat /\ b[j] \in Nat
      /\ \A j \in Fetches \ {f} : a[j] = b[j]
      /\ b[f] = n
  BY DEF TypeOK
<1> HIDE DEF a, b
<1>2. IsFiniteSet(Fetches)
  BY LimitsAssumption
<1>3. SumOf(b, Fetches) = SumOf(a, Fetches) - a[f] + b[f] /\ SumOf(a, Fetches) >= a[f]
  BY <1>1, <1>2, SumUpdate
<1>4. SumOf(b, Fetches) \in Nat /\ SumOf(a, Fetches) \in Nat
  BY <1>1, <1>2, SumType
<1> QED
  BY <1>1, <1>3, <1>4 DEF a, b

\* Holders gains a fetch, loses one, or stays.
LEMMA HoldersFinite ==
  IsFiniteSet(Holders) /\ Cardinality(Holders) \in Nat
<1>1. IsFiniteSet(Fetches)
  BY LimitsAssumption
<1> QED
  BY <1>1, FS_Subset, FS_CardinalityType DEF Holders

LEMMA HoldersGain ==
  ASSUME NEW f \in Fetches, f \notin Holders, Holders' = Holders \cup {f}
  PROVE  Cardinality(Holders') = Cardinality(Holders) + 1
BY HoldersFinite, FS_AddElement

LEMMA HoldersLose ==
  ASSUME NEW f \in Holders, Holders' = Holders \ {f}
  PROVE  Cardinality(Holders') = Cardinality(Holders) - 1
BY HoldersFinite, FS_RemoveElement

\* What a single action does to the permits.
LEMMA HoldersMove ==
  ASSUME TypeOK, NEW f \in Fetches, NEW s \in States, Goto(f, s)
  PROVE  Holders' = IF s \in Holding THEN Holders \cup {f} ELSE Holders \ {f}
BY DEF TypeOK, Goto, Holders

LEMMA InvStep ==
  ASSUME LimitsInv, Next
  PROVE  LimitsInv'
<1> USE LimitsAssumption DEF LimitsInv
<1> DEFINE Same == UNCHANGED <<in_flight, reserved>>
<1>b. ASSUME Same PROVE BytesExact'
  BY <1>b DEF BytesExact
<1>p. ASSUME NEW f \in Holders, NEW s \in States \cap Holding, Goto(f, s),
             UNCHANGED permits
      PROVE  PermitsExact'
  <2>1. Holders' = Holders
    BY <1>p, HoldersMove DEF Holders
  <2> QED
    BY <1>p, <2>1 DEF PermitsExact
<1>1. ASSUME NEW f \in Fetches, NEW m \in {"get", "other"}, Start(f, m)
      PROVE  LimitsInv'
  <2>1. TypeOK'
    BY <1>1 DEF Start, TypeOK, Goto, States, Modes
  <2>2. Holders' = Holders
    BY <1>1 DEF Start, TypeOK, Goto, Holders, Holding
  <2>3. PermitsExact'
    BY <1>1, <2>2 DEF PermitsExact, Start
  <2>4. Reserving'
    BY <1>1 DEF Start, TypeOK, Goto, Reserving, Want
  <2> QED
    BY <1>1, <1>b, <2>1, <2>3, <2>4 DEF Start
<1>2. ASSUME NEW f \in Fetches, Acquire(f) PROVE LimitsInv'
  <2>1. TypeOK'
    BY <1>2 DEF Acquire, TypeOK, Goto, States, Holding
  <2>2. Holders' = Holders \cup {f} /\ f \notin Holders
    BY <1>2 DEF Acquire, TypeOK, Goto, Holders, Holding
  <2>3. PermitsExact'
    <3>1. Cardinality(Holders') = Cardinality(Holders) + 1
      BY <2>2, HoldersGain
    <3>2. permits \in Int /\ permits > 0 /\ permits' = permits - 1
      BY <1>2 DEF Acquire, TypeOK
    <3> QED
      BY <3>1, <3>2, HoldersFinite DEF PermitsExact
  <2>4. Reserving'
    BY <1>2 DEF Acquire, TypeOK, Goto, Reserving, Want
  <2> QED
    BY <1>2, <1>b, <2>1, <2>3, <2>4 DEF Acquire
<1>3. ASSUME NEW f \in Fetches, PermitTimeout(f) PROVE LimitsInv'
  <2>1. TypeOK'
    BY <1>3 DEF PermitTimeout, TypeOK, Goto, States
  <2>2. Holders' = Holders
    BY <1>3 DEF PermitTimeout, TypeOK, Goto, Holders, Holding
  <2>3. PermitsExact'
    BY <1>3, <2>2 DEF PermitsExact, PermitTimeout
  <2>4. Reserving'
    BY <1>3 DEF PermitTimeout, TypeOK, Goto, Reserving, Want
  <2> QED
    BY <1>3, <1>b, <2>1, <2>3, <2>4 DEF PermitTimeout
<1>4. ASSUME NEW f \in Fetches, NEW n \in Lengths \ {Unknown}, TooLarge(f, n)
      PROVE  LimitsInv'
  <2>1. TypeOK'
    BY <1>4 DEF TooLarge, TypeOK, Goto, States, Holding, Modes
  <2>2. f \in Holders /\ Goto(f, "again") /\ UNCHANGED permits
    BY <1>4 DEF TooLarge, Holders, Holding
  <2>3. PermitsExact'
    BY <2>2, <1>p DEF States, Holding
  <2>4. Reserving'
    BY <1>4 DEF TooLarge, TypeOK, Goto, Reserving, Want
  <2> QED
    BY <1>4, <1>b, <2>1, <2>3, <2>4 DEF TooLarge
<1>5. ASSUME NEW f \in Fetches, NEW n \in Lengths, Respond(f, n) PROVE LimitsInv'
  <2>1. TypeOK'
    BY <1>5 DEF Respond, TypeOK, Goto, States, Holding
  <2>2. f \in Holders /\ Goto(f, "load") /\ UNCHANGED permits
    BY <1>5 DEF Respond, Holders, Holding
  <2>3. PermitsExact'
    BY <2>2, <1>p DEF States, Holding
  <2>4. Reserving'
    BY <1>5 DEF Respond, TypeOK, Goto, Reserving, Want
  <2> QED
    BY <1>5, <1>b, <2>1, <2>3, <2>4 DEF Respond
<1>6. ASSUME NEW f \in Fetches, RespondUnreserved(f) PROVE LimitsInv'
  <2>1. TypeOK'
    BY <1>6 DEF RespondUnreserved, TypeOK, Goto, States, Holding
  <2>2. f \in Holders /\ Goto(f, "read") /\ UNCHANGED permits
    BY <1>6 DEF RespondUnreserved, Holders, Holding
  <2>3. PermitsExact'
    BY <2>2, <1>p DEF States, Holding
  <2>4. Reserving'
    BY <1>6 DEF RespondUnreserved, TypeOK, Goto, Reserving, Want
  <2> QED
    BY <1>6, <1>b, <2>1, <2>3, <2>4 DEF RespondUnreserved
<1>7. ASSUME NEW f \in Fetches, ReserveLoad(f) PROVE LimitsInv'
  <2>1. TypeOK'
    BY <1>7 DEF ReserveLoad, TypeOK, Goto, States, Holding
  <2>2. f \in Holders /\ (Goto(f, "release") \/ Goto(f, "cas")) /\ UNCHANGED permits
    BY <1>7 DEF ReserveLoad, Holders, Holding
  <2>3. PermitsExact'
    BY <2>2, <1>p DEF States, Holding
  <2>4. in_flight \in Nat
    <3>1. IsFiniteSet(Fetches) /\ \A g \in Fetches : reserved[g] \in Nat
      BY DEF TypeOK
    <3> QED
      BY <3>1, SumType DEF BytesExact
  <2>5. Reserving'
    BY <1>7, <2>4 DEF ReserveLoad, TypeOK, Goto, Reserving, Want
  <2> QED
    BY <1>7, <1>b, <2>1, <2>3, <2>5 DEF ReserveLoad
<1>8. ASSUME NEW f \in Fetches, ReserveCas(f) PROVE LimitsInv'
  <2>0. Want(f) \in Nat /\ reserved[f] = 0
    BY <1>8 DEF TypeOK, Want, ReserveCas, Reserving
  <2>1. TypeOK'
    BY <1>8, <2>0 DEF ReserveCas, TypeOK, Goto, States, Holding
  <2>2. f \in Holders /\ (Goto(f, "read") \/ Goto(f, "load")) /\ UNCHANGED permits
    BY <1>8 DEF ReserveCas, Holders, Holding
  <2>3. PermitsExact'
    BY <2>2, <1>p DEF States, Holding
  <2>4. BytesExact'
    <3>1. CASE Same
      BY <3>1, <1>b
    <3>2. CASE /\ in_flight' = in_flight + Want(f)
               /\ reserved' = [reserved EXCEPT ![f] = Want(f)]
      <4>1. SumOf(reserved', Fetches) = SumOf(reserved, Fetches) - reserved[f] + Want(f)
            /\ SumOf(reserved, Fetches) \in Nat
        BY <3>2, <2>0, ReservationMoves
      <4> QED
        BY <3>2, <2>0, <4>1 DEF BytesExact
    <3> QED
      BY <1>8, <3>1, <3>2 DEF ReserveCas
  <2>5. Reserving'
    BY <1>8, <2>0 DEF ReserveCas, TypeOK, Goto, Reserving, Want
  <2> QED
    BY <2>1, <2>3, <2>4, <2>5
<1>9. ASSUME NEW f \in Fetches, NEW n \in Outcomes(f), Read(f, n) PROVE LimitsInv'
  <2>0. n \in Nat
    BY DEF TypeOK, Outcomes
  <2>1. TypeOK'
    BY <1>9, <2>0 DEF Read, TypeOK, Goto, States, Holding
  <2>2. f \in Holders /\ Goto(f, "held") /\ UNCHANGED permits
    BY <1>9 DEF Read, Holders, Holding
  <2>3. PermitsExact'
    BY <2>2, <1>p DEF States, Holding
  <2>4. BytesExact'
    BY <1>9, <2>0, ReservationMoves DEF Read, BytesExact
  <2>5. Reserving'
    BY <1>9, <2>0 DEF Read, TypeOK, Goto, Reserving, Want
  <2> QED
    BY <2>1, <2>3, <2>4, <2>5
<1>10. ASSUME NEW f \in Fetches, DropGuard(f) PROVE LimitsInv'
  <2>1. TypeOK'
    BY <1>10 DEF DropGuard, TypeOK, Goto, States, Holding
  <2>2. f \in Holders /\ Goto(f, "release") /\ UNCHANGED permits
    BY <1>10 DEF DropGuard, Holders, Holding
  <2>3. PermitsExact'
    BY <2>2, <1>p DEF States, Holding
  <2>4. BytesExact'
    <3>1. reserved' = [reserved EXCEPT ![f] = 0] /\ in_flight' = in_flight - reserved[f]
      BY <1>10 DEF DropGuard
    <3>2. SumOf(reserved', Fetches) = SumOf(reserved, Fetches) - reserved[f] + 0
          /\ SumOf(reserved, Fetches) \in Nat /\ reserved[f] \in Nat
      BY <3>1, ReservationMoves DEF TypeOK
    <3> QED
      BY <3>1, <3>2 DEF BytesExact
  <2>5. Reserving'
    BY <1>10 DEF DropGuard, TypeOK, Goto, Reserving, Want
  <2> QED
    BY <2>1, <2>3, <2>4, <2>5
<1>11. ASSUME NEW f \in Fetches, DropPermit(f) PROVE LimitsInv'
  <2>1. TypeOK'
    BY <1>11 DEF DropPermit, TypeOK, Goto, States
  <2>2. Holders' = Holders \ {f} /\ f \in Holders
    BY <1>11 DEF DropPermit, TypeOK, Goto, Holders, Holding
  <2>3. PermitsExact'
    <3>1. Cardinality(Holders') = Cardinality(Holders) - 1
      BY <2>2, HoldersLose
    <3>2. permits \in Int /\ permits' = permits + 1
      BY <1>11 DEF DropPermit, TypeOK
    <3> QED
      BY <3>1, <3>2, HoldersFinite DEF PermitsExact
  <2>4. Reserving'
    BY <1>11 DEF DropPermit, TypeOK, Goto, Reserving, Want
  <2> QED
    BY <1>11, <1>b, <2>1, <2>3, <2>4 DEF DropPermit
<1> QED
  BY <1>1, <1>2, <1>3, <1>4, <1>5, <1>6, <1>7, <1>8, <1>9, <1>10, <1>11
     DEF Next, Step

LEMMA InvHolds == Spec => []LimitsInv
<1>1. Init => LimitsInv
  <2> SUFFICES ASSUME Init PROVE LimitsInv
    OBVIOUS
  <2>1. TypeOK /\ Reserving
    BY LimitsAssumption DEF Init, TypeOK, Reserving, States, Modes
  <2>2. BytesExact
    <3>1. IsFiniteSet(Fetches) /\ \A f \in Fetches : reserved[f] = 0
      BY LimitsAssumption DEF Init
    <3> QED
      BY <3>1, SumZero DEF Init, BytesExact
  <2>3. Holders = {}
    BY DEF Init, Holders, Holding
  <2>4. PermitsExact
    BY <2>3, FS_EmptySet, LimitsAssumption DEF Init, PermitsExact
  <2> QED
    BY <2>1, <2>2, <2>4 DEF LimitsInv
<1>2. LimitsInv /\ [Next]_vars => LimitsInv'
  <2> SUFFICES ASSUME LimitsInv, [Next]_vars PROVE LimitsInv'
    OBVIOUS
  <2>1. CASE UNCHANGED vars
    <3>1. Holders' = Holders
      BY <2>1 DEF vars, Holders
    <3> QED
      BY <2>1, <3>1 DEF vars, LimitsInv, TypeOK, BytesExact, PermitsExact, Reserving, Want
  <2> QED
    BY <2>1, InvStep
<1> QED
  BY <1>1, <1>2, PTL DEF Spec

\* Types of the limits' state.
THEOREM TypeCorrect == Spec => []TypeOK
<1>1. LimitsInv => TypeOK
  BY DEF LimitsInv
<1> QED
  BY <1>1, InvHolds, PTL

\* The in-flight byte counter is the sum of the live reservations, in every
\* interleaving of reserve's loop, reconcile and drop.
THEOREM CounterIsExact == Spec => []BytesExact
<1>1. LimitsInv => BytesExact
  BY DEF LimitsInv
<1> QED
  BY <1>1, InvHolds, PTL

\* Permits are conserved.
THEOREM PermitsConserved == Spec => []PermitsExact
<1>1. LimitsInv => PermitsExact
  BY DEF LimitsInv
<1> QED
  BY <1>1, InvHolds, PTL

\* reserve admits into an empty counter or within the limit: the exchange
\* succeeds only on the value that was checked.
THEOREM AdmissionWithinLimit == Spec => AdmitsWithinLimit
<1>1. LimitsInv /\ Next => Admission
  <2> SUFFICES ASSUME LimitsInv, Next,
                      NEW f \in Fetches, pc[f] = "cas", pc'[f] = "read"
               PROVE  SumOf(reserved, Fetches) = 0 \/ SumOf(reserved', Fetches) <= Limit
    BY DEF Admission
  <2>0. LimitsInv'
    BY InvStep
  <2>1. ReserveCas(f)
    <3>1. PICK g \in Fetches : Step(g) \/ \E m \in {"get", "other"} : Start(g, m)
      BY DEF Next
    <3>2. \E s \in States : Goto(g, s)
      BY <3>1 DEF Step, Start, Acquire, PermitTimeout, TooLarge, Respond,
         RespondUnreserved, ReserveLoad, ReserveCas, Read, DropGuard, DropPermit,
         States, Holding
    <3>3. g = f
      BY <3>2 DEF Goto, LimitsInv, TypeOK
    <3>4. ~(\E m \in {"get", "other"} : Start(f, m)) /\ Step(f)
      BY <3>1, <3>3 DEF Start
    <3> QED
      BY <3>4 DEF Step, Acquire, PermitTimeout, TooLarge, Respond,
         RespondUnreserved, ReserveLoad, Read, DropGuard, DropPermit
  <2>2. in_flight = cur[f] /\ in_flight' = in_flight + Want(f)
    BY <2>1 DEF ReserveCas, LimitsInv, TypeOK, Goto
  <2>3. in_flight = 0 \/ in_flight' <= Limit
    BY <2>2 DEF LimitsInv, Reserving
  <2>4. in_flight = SumOf(reserved, Fetches) /\ in_flight' = SumOf(reserved', Fetches)
    BY <2>0 DEF LimitsInv, BytesExact
  <2> QED
    BY <2>3, <2>4
<1>2. LimitsInv /\ [Next]_vars => [Admission]_vars
  BY <1>1
<1> QED
  BY <1>2, InvHolds, PTL DEF Spec, AdmitsWithinLimit

\* What is held for declared lengths is part of what is held.
LEMMA DeclaredIsPart ==
  ASSUME LimitsInv
  PROVE  /\ \A f \in Fetches : Declared[f] \in Nat /\ Declared[f] <= reserved[f]
         /\ SumOf(Declared, Fetches) \in Nat
         /\ SumOf(Declared, Fetches) <= in_flight
<1>1. \A f \in Fetches : /\ Declared[f] \in Nat /\ Declared[f] <= reserved[f]
                         /\ reserved[f] \in Nat
  BY DEF LimitsInv, TypeOK, Declared
<1>2. IsFiniteSet(Fetches)
  BY LimitsAssumption
<1>3. SumOf(Declared, Fetches) <= SumOf(reserved, Fetches)
  BY <1>1, <1>2, SumMonotone
<1>4. SumOf(Declared, Fetches) \in Nat
  BY <1>1, <1>2, SumType
<1> QED
  BY <1>1, <1>3, <1>4 DEF LimitsInv, BytesExact

\* The sum after one fetch's declared share changed to n.
LEMMA DeclaredMoves ==
  ASSUME LimitsInv, LimitsInv', NEW f \in Fetches,
         \A g \in Fetches \ {f} : Declared'[g] = Declared[g]
  PROVE  SumOf(Declared', Fetches) = SumOf(Declared, Fetches) - Declared[f] + Declared'[f]
<1> DEFINE a == Declared
           b == Declared'
<1>1. IsFiniteSet(Fetches)
  BY LimitsAssumption
<1>2. \A g \in Fetches : a[g] \in Nat
  BY DeclaredIsPart
<1>3. \A g \in Fetches : b[g] \in Nat
  BY DEF LimitsInv, TypeOK, Declared
<1>4. \A g \in Fetches \ {f} : a[g] = b[g]
  OBVIOUS
<1> HIDE DEF a, b
<1>5. SumOf(b, Fetches) = SumOf(a, Fetches) - a[f] + b[f]
  BY <1>1, <1>2, <1>3, <1>4, SumUpdate
<1> QED
  BY <1>5 DEF a, b

\* A fetch that gives up some of its declared share keeps the others within the limit.
LEMMA DeclaredShrinks ==
  ASSUME LimitsInv, LimitsInv', DeclaredWithinLimit, NEW f \in Fetches,
         \A g \in Fetches \ {f} : Declared'[g] = Declared[g],
         Declared'[f] <= Declared[f]
  PROVE  DeclaredWithinLimit'
<1>1. \A g \in Fetches : Declared[g] \in Nat
  BY DeclaredIsPart
<1>2. \A g \in Fetches : Declared'[g] \in Nat
  BY DEF LimitsInv, TypeOK, Declared
<1>3. \A g \in Fetches : Declared'[g] > 0 => Declared[g] > 0
  BY <1>1, <1>2
<1>4. SumOf(Declared', Fetches) = SumOf(Declared, Fetches) - Declared[f] + Declared'[f]
  BY DeclaredMoves
<1>5. SumOf(Declared, Fetches) \in Nat
  BY DeclaredIsPart
<1>6. SumOf(Declared', Fetches) <= SumOf(Declared, Fetches)
  BY <1>1, <1>2, <1>4, <1>5
<1>7. ASSUME NEW g \in Fetches, NEW h \in Fetches, g # h, Declared'[g] > 0, Declared'[h] > 0
      PROVE  SumOf(Declared', Fetches) <= Limit
  <2>1. SumOf(Declared, Fetches) <= Limit
    BY <1>3, <1>7 DEF DeclaredWithinLimit
  <2> QED
    BY <1>1, <1>2, <1>4, <1>5, <1>6, <2>1, LimitsAssumption
<1> QED
  BY <1>7 DEF DeclaredWithinLimit

\* An admitted reservation of declared length keeps the limit, or is alone.
LEMMA DeclaredAdmitted ==
  ASSUME LimitsInv, LimitsInv', NEW f \in Fetches, ReserveCas(f),
         in_flight = cur[f], in_flight' = in_flight + Want(f),
         reserved' = [reserved EXCEPT ![f] = Want(f)]
  PROVE  DeclaredWithinLimit'
<1>1. \A g \in Fetches \ {f} : Declared'[g] = Declared[g]
  BY DEF ReserveCas, LimitsInv, TypeOK, Declared
<1>2. in_flight = 0 \/ in_flight' <= Limit
  BY DEF ReserveCas, LimitsInv, Reserving
<1>3. CASE in_flight' <= Limit
  <2>1. SumOf(Declared', Fetches) \in Nat /\ SumOf(Declared', Fetches) <= in_flight'
    <3>1. SumOf(Declared, Fetches) \in Nat /\ SumOf(Declared, Fetches) <= in_flight
      BY DeclaredIsPart
    <3>2. SumOf(Declared', Fetches) = SumOf(Declared, Fetches) - Declared[f] + Declared'[f]
      BY <1>1, DeclaredMoves
    <3>3. /\ Declared[f] = 0 /\ Declared'[f] \in Nat /\ Declared'[f] <= Want(f)
          /\ Want(f) \in Nat
      BY LimitsAssumption DEF ReserveCas, LimitsInv, TypeOK, Reserving, Declared, Want
    <3>4. in_flight \in Int
      BY DEF LimitsInv, TypeOK
    <3> QED
      BY <3>1, <3>2, <3>3, <3>4
  <2>2. in_flight' \in Int
    BY DEF LimitsInv, TypeOK
  <2> QED
    BY <1>3, <2>1, <2>2, LimitsAssumption DEF DeclaredWithinLimit
<1>4. CASE in_flight = 0
  <2>1. ASSUME NEW g \in Fetches PROVE reserved[g] = 0
    <3>1. IsFiniteSet(Fetches) /\ \A j \in Fetches : reserved[j] \in Nat
      BY LimitsAssumption DEF LimitsInv, TypeOK
    <3>2. SumOf(reserved, Fetches) >= reserved[g]
      BY <3>1, SumUpdate
    <3>3. SumOf(reserved, Fetches) = 0
      BY <1>4 DEF LimitsInv, BytesExact
    <3> QED
      BY <3>1, <3>2, <3>3
  <2>2. \A g \in Fetches \ {f} : Declared'[g] = 0
    BY <1>1, <2>1 DEF Declared
  <2> QED
    BY <2>2 DEF DeclaredWithinLimit
<1> QED
  BY <1>2, <1>3, <1>4

\* Every step keeps the declared shares within the limit.
LEMMA DeclaredStep ==
  ASSUME LimitsInv, LimitsInv', DeclaredWithinLimit, Next
  PROVE  DeclaredWithinLimit'
<1>1. CASE UNCHANGED <<reserved, length>>
  BY <1>1 DEF DeclaredWithinLimit, Declared
<1>2. ASSUME NEW f \in Fetches, NEW n \in Lengths, Respond(f, n)
      PROVE  DeclaredWithinLimit'
  <2>1. reserved[f] = 0
    BY <1>2 DEF Respond, LimitsInv, TypeOK, Reserving
  <2>2. \A g \in Fetches \ {f} : Declared'[g] = Declared[g]
    BY <1>2 DEF Respond, Declared, LimitsInv, TypeOK
  <2>3. Declared[f] = 0 /\ Declared'[f] = 0
    BY <1>2, <2>1 DEF Respond, Declared
  <2> QED
    BY <2>2, <2>3, DeclaredShrinks
<1>3. ASSUME NEW f \in Fetches, ReserveCas(f), ~UNCHANGED reserved
      PROVE  DeclaredWithinLimit'
  BY <1>3, DeclaredAdmitted DEF ReserveCas
<1>4. ASSUME NEW f \in Fetches, NEW n \in Outcomes(f), Read(f, n)
      PROVE  DeclaredWithinLimit'
  <2>1. \A g \in Fetches \ {f} : Declared'[g] = Declared[g]
    BY <1>4 DEF Read, Declared, LimitsInv, TypeOK
  <2>2. CASE length[f] = Unknown
    <3>1. Declared[f] = 0 /\ Declared'[f] = 0
      BY <1>4, <2>2 DEF Read, Declared
    <3> QED
      BY <2>1, <3>1, DeclaredShrinks
  <2>3. CASE length[f] # Unknown
    <3>1. reserved[f] = length[f] /\ n \in {length[f], 0} /\ length[f] \in Nat
      BY <1>4, <2>3 DEF Read, LimitsInv, TypeOK, Reserving, Want, Outcomes
    <3>2. Declared[f] = length[f] /\ Declared'[f] = n
      BY <1>4, <2>3, <3>1 DEF Read, Declared, LimitsInv, TypeOK
    <3>3. Declared'[f] <= Declared[f]
      BY <3>1, <3>2
    <3> QED
      BY <2>1, <3>3, DeclaredShrinks
  <2> QED
    BY <2>2, <2>3
<1>5. ASSUME NEW f \in Fetches, DropGuard(f) PROVE DeclaredWithinLimit'
  <2>1. \A g \in Fetches \ {f} : Declared'[g] = Declared[g]
    BY <1>5 DEF DropGuard, Declared, LimitsInv, TypeOK
  <2>2. Declared'[f] = 0 /\ Declared[f] \in Nat
    BY <1>5 DEF DropGuard, Declared, LimitsInv, TypeOK
  <2> QED
    BY <2>1, <2>2, DeclaredShrinks
<1> QED
  BY <1>1, <1>2, <1>3, <1>4, <1>5
     DEF Next, Step, Start, Acquire, PermitTimeout, TooLarge, RespondUnreserved,
         ReserveLoad, ReserveCas, DropPermit

\* Concurrent fetches of declared length stay within the limit together, whatever bodies
\* of unknown length come and go beside them.
THEOREM DeclaredStaysWithinLimit == Spec => []DeclaredWithinLimit
<1>1. Init => DeclaredWithinLimit
  BY DEF Init, DeclaredWithinLimit, Declared
<1>2. LimitsInv /\ LimitsInv' /\ DeclaredWithinLimit /\ [Next]_vars => DeclaredWithinLimit'
  <2>1. UNCHANGED vars /\ DeclaredWithinLimit => DeclaredWithinLimit'
    BY DEF vars, DeclaredWithinLimit, Declared
  <2> QED
    BY <2>1, DeclaredStep
<1> QED
  BY <1>1, <1>2, InvHolds, PTL DEF Spec

=============================================================================
