---------------------------- MODULE ServicesProofs ----------------------------
(***************************************************************************)
(* Of the services that run beside each other: the meter alone, then each  *)
(* of them as it runs in MCServices.  Each keeps what it promises for any  *)
(* catalogue of plans, accounts, facts, moments, texts, share requests and *)
(* requests at a time.                                                     *)
(***************************************************************************)
EXTENDS MCServices, FiniteSetTheorems, SequenceTheorems, TLAPS

-----------------------------------------------------------------------------
(* The meter.  What a request compares the count with is covered by the    *)
(* month's ceiling, and a month whose ceiling is still 0 has admitted      *)
(* nobody.                                                                 *)
GetCapped ==
    \A r \in Request : At(r, "get") =>
        LET m == request[r].month IN
        ceiling[m] = NoCeiling \/ request[r].cap <= ceiling[m]

FreshMonth ==
    \A m \in 1..Months : ceiling[m] = 0 =>
        count[m] = 0 /\ \A r \in Request :
            At(r, "get") \/ At(r, "count") => request[r].month # m

MeterInv == TypeOK /\ GetCapped /\ FreshMonth /\ BoundedOvershoot

-----------------------------------------------------------------------------
(* The requests past the check are some of the requests being served.      *)
LEMMA AdmittedFacts ==
    ASSUME NEW m
    PROVE  /\ IsFiniteSet(Admitted(m))
           /\ Cardinality(Admitted(m)) \in Nat
           /\ Cardinality(Request) \in Nat
           /\ Cardinality(Admitted(m)) <= Cardinality(Request)
<1>1. Admitted(m) \subseteq Request
  BY DEF Admitted
<1>2. QED BY <1>1, RequestAssumption, FS_Subset, FS_CardinalityType

(* A ceiling covers the cap it is lifted by, and never comes down.         *)
LEMMA LiftFacts ==
    ASSUME NEW c \in Nat \cup {NoCeiling}, NEW cap \in Int
    PROVE  /\ Lift(c, cap) \in Nat \cup {NoCeiling}
           /\ Lift(c, cap) = NoCeiling \/ cap <= Lift(c, cap)
           /\ Lift(c, cap) # NoCeiling => /\ c # NoCeiling /\ c <= Lift(c, cap)
                                          /\ 0 < Lift(c, cap)
  BY DEF Lift, Unlimited, NoCeiling

-----------------------------------------------------------------------------
(* Type correctness, the base case.                                        *)
LEMMA TypeInit == Init => TypeOK
  BY BoundsAssumption DEF Init, TypeOK, Idle

(* Type correctness, the step: one step per action.                        *)
LEMMA TypeStep == TypeOK /\ [Next]_vars => TypeOK'
<1> SUFFICES ASSUME TypeOK, [Next]_vars PROVE TypeOK'
  OBVIOUS
<1> USE BoundsAssumption DEF TypeOK
<1>1. CASE NextMonth
  <2>1. month + 1 \in 1..Months
    BY <1>1 DEF NextMonth
  <2>2. \A r \in Request : request[r] # Idle => request[r].month <= month + 1
    <3> SUFFICES ASSUME NEW r \in Request, request[r] # Idle
                 PROVE  request[r].month <= month + 1
      OBVIOUS
    <3>1. request[r].month \in 1..Months /\ request[r].month <= month
      BY DEF Allowing
    <3>2. QED BY <3>1
  <2>3. QED BY <1>1, <2>1, <2>2 DEF NextMonth
<1>2. ASSUME NEW p \in Plans, SetTeamPlan(p) PROVE TypeOK'
  BY <1>2 DEF SetTeamPlan
<1>3. ASSUME NEW r \in Request, Begin(r) PROVE TypeOK'
  BY <1>3 DEF Begin, Allowing
<1>4. ASSUME NEW r \in Request, ReadCap(r) PROVE TypeOK'
  <2>1. request[r] \in Allowing /\ Cap[plan] \in Int
    BY <1>4, CapAssumption DEF ReadCap, At
  <2>2. ceiling' \in [1..Months -> Nat \cup {NoCeiling}]
    BY <1>4, <2>1, LiftFacts DEF ReadCap, Allowing
  <2>3. request' = [request EXCEPT ![r] = request'[r]] /\ request'[r] \in Allowing
    BY <1>4, <2>1 DEF ReadCap, Allowing
  <2>4. request'[r].month = request[r].month
    BY <1>4, <2>1 DEF ReadCap, Allowing
  <2>5. request'[r].step = "get" => ~ Unlimited(request'[r].cap)
    BY <1>4, <2>1 DEF ReadCap, Allowing
  <2>6. request[r].month <= month
    BY <1>4 DEF ReadCap, At
  <2>7. UNCHANGED <<plan, month, count, errors>>
    BY <1>4 DEF ReadCap
  <2>8. QED BY <2>2, <2>3, <2>4, <2>5, <2>6, <2>7
<1>5. ASSUME NEW r \in Request, Get(r) PROVE TypeOK'
  <2>1. request[r] \in Allowing
    BY <1>5 DEF Get, At
  <2>2. request' = [request EXCEPT ![r] = request'[r]]
    BY <1>5 DEF Get
  <2>3. request'[r] = Idle \/ request'[r] = [request[r] EXCEPT !.step = "count"]
    BY <1>5 DEF Get
  <2>4. request'[r] # Idle =>
           /\ request'[r] \in Allowing /\ request'[r].step # "get"
           /\ request'[r].month = request[r].month
    BY <2>1, <2>3 DEF Allowing
  <2>5. request[r].month <= month
    BY <1>5 DEF Get, At
  <2>6. UNCHANGED <<plan, month, count, errors, ceiling>>
    BY <1>5 DEF Get
  <2>7. QED BY <2>2, <2>4, <2>5, <2>6
<1>6. ASSUME NEW r \in Request, Count(r) PROVE TypeOK'
  <2>1. request[r] \in Allowing
    BY <1>6 DEF Count, At
  <2>2. QED BY <1>6, <2>1 DEF Count, Allowing
<1>7. ASSUME NEW r \in Request, Error(r) PROVE TypeOK'
  BY <1>7 DEF Error
<1>8. CASE UNCHANGED vars
  BY <1>8 DEF vars
<1>9. QED BY <1>1, <1>2, <1>3, <1>4, <1>5, <1>6, <1>7, <1>8 DEF Next

(* Type correctness: only a request that has a cap is measured.            *)
THEOREM MeteringTypeCorrect == Spec => []TypeOK
  BY TypeInit, TypeStep, PTL DEF Spec

-----------------------------------------------------------------------------
(* The base case: nothing is counted and nobody is admitted.               *)
LEMMA MeterInit == Init => MeterInv
  BY TypeInit DEF Init, MeterInv, GetCapped, FreshMonth, BoundedOvershoot, At, Idle

(* A step that leaves the count and the ceiling alone and admits nobody    *)
(* keeps the bound.                                                        *)
LEMMA NobodyAdmitted ==
    ASSUME MeterInv, UNCHANGED <<count, ceiling>>,
           \A m \in 1..Months : Admitted(m)' \subseteq Admitted(m)
    PROVE  BoundedOvershoot'
<1> SUFFICES ASSUME NEW m \in 1..Months, ceiling[m] > 0
             PROVE  count[m] + Cardinality(Admitted(m)')
                      <= ceiling[m] - 1 + Cardinality(Request)
  BY DEF BoundedOvershoot
<1>1. count[m] + Cardinality(Admitted(m)) <= ceiling[m] - 1 + Cardinality(Request)
  BY DEF MeterInv, BoundedOvershoot
<1>2. /\ Cardinality(Admitted(m)') \in Nat
      /\ Cardinality(Admitted(m)') <= Cardinality(Admitted(m))
  BY AdmittedFacts, FS_Subset, FS_CardinalityType
<1>3. count[m] \in Nat /\ ceiling[m] \in Int
  BY BoundsAssumption DEF MeterInv, TypeOK, NoCeiling
<1>4. QED BY <1>1, <1>2, <1>3, AdmittedFacts

(* The step.  An admitted request saw a count below its cap, and so below  *)
(* the ceiling; those admitted with it are at most all the others.         *)
LEMMA MeterStep == MeterInv /\ [Next]_vars => MeterInv'
<1> SUFFICES ASSUME MeterInv, [Next]_vars PROVE MeterInv'
  OBVIOUS
<1>t. TypeOK /\ TypeOK'
  BY TypeStep DEF MeterInv
<1> DEFINE Rest == GetCapped' /\ FreshMonth' /\ BoundedOvershoot'
<1>1. ASSUME UNCHANGED <<count, request, ceiling>> PROVE Rest
  BY <1>1 DEF MeterInv, GetCapped, FreshMonth, BoundedOvershoot, Admitted, At
<1>2. ASSUME NEW r \in Request, UNCHANGED <<count, ceiling>>,
             request[r] # Idle => request'[r] = Idle,
             request' = [request EXCEPT ![r] = request'[r]],
             ~ At(r, "get")', ~ At(r, "count")'
      PROVE  Rest
  <2>1. \A m \in 1..Months : Admitted(m)' \subseteq Admitted(m)
    BY <1>2, <1>t DEF Admitted, At, TypeOK
  <2>2. BoundedOvershoot'
    BY <1>2, <2>1, NobodyAdmitted
  <2>3. GetCapped' /\ FreshMonth'
    BY <1>2, <1>t DEF MeterInv, GetCapped, FreshMonth, At, TypeOK
  <2>4. QED BY <2>2, <2>3
<1>3. ASSUME NEW r \in Request, Begin(r) PROVE Rest
  BY <1>3, <1>2, <1>t DEF Begin, At, Idle, TypeOK
<1>4. ASSUME NEW r \in Request, Error(r) PROVE Rest
  BY <1>4, <1>2, <1>t DEF Error, At, Idle, TypeOK
<1>5. ASSUME NEW r \in Request, ReadCap(r) PROVE Rest
  <2> DEFINE m0 == request[r].month
             cap == Cap[plan]
  <2>1. request[r] \in Allowing /\ m0 \in 1..Months /\ cap \in Int
    BY <1>5, <1>t, CapAssumption DEF ReadCap, At, TypeOK, Allowing
  <2>2. /\ ceiling' = [ceiling EXCEPT ![m0] = Lift(ceiling[m0], cap)]
        /\ ceiling'[m0] = Lift(ceiling[m0], cap)
        /\ UNCHANGED count
    BY <1>5, <1>t, <2>1 DEF ReadCap, TypeOK
  <2>3. /\ request' = [request EXCEPT ![r] = request'[r]]
        /\ request'[r] # Idle /\ request'[r].month = m0 /\ request'[r].cap = cap
        /\ Unlimited(cap) => request'[r].step = "count"
        /\ ~ Unlimited(cap) => request'[r].step = "get"
    <3>1. request' = [request EXCEPT ![r] = [request[r] EXCEPT !.cap = cap,
                        !.step = IF Unlimited(cap) THEN "count" ELSE "get"]]
      BY <1>5 DEF ReadCap
    <3>2. request'[r] = [request[r] EXCEPT !.cap = cap,
                        !.step = IF Unlimited(cap) THEN "count" ELSE "get"]
      BY <3>1, <1>t DEF TypeOK
    <3>3. request'[r] = [step |-> IF Unlimited(cap) THEN "count" ELSE "get",
                         month |-> m0, cap |-> cap]
      BY <3>2, <2>1 DEF Allowing
    <3>4. request'[r] # Idle /\ request'[r].month = m0 /\ request'[r].cap = cap
      BY <3>3, <1>t, <2>1 DEF Idle, Unlimited
    <3>5. request' = [request EXCEPT ![r] = request'[r]]
      BY <3>1, <3>2
    <3>6. QED BY <3>3, <3>4, <3>5
  <2>4. ceiling[m0] \in Nat \cup {NoCeiling}
    BY <1>t, <2>1 DEF TypeOK
  <2>5. /\ ceiling'[m0] = NoCeiling \/ cap <= ceiling'[m0]
        /\ ceiling'[m0] # NoCeiling =>
              /\ ceiling[m0] # NoCeiling /\ ceiling[m0] <= ceiling'[m0]
              /\ 0 < ceiling'[m0] /\ ~ Unlimited(cap)
    BY <2>1, <2>2, <2>4, LiftFacts DEF Lift
  <2>6. GetCapped'
    <3> SUFFICES ASSUME NEW q \in Request, At(q, "get")', ceiling'[request'[q].month] # NoCeiling
                 PROVE  request'[q].cap <= ceiling'[request'[q].month]
      BY DEF GetCapped
    <3>1. CASE q = r
      BY <3>1, <2>3, <2>5
    <3>2. CASE q # r
      <4>1. request'[q] = request[q] /\ At(q, "get") /\ request[q] \in Allowing
        BY <3>2, <2>3, <1>t DEF At, TypeOK
      <4>2. request[q].month \in 1..Months /\ request[q].cap \in Int
        BY <4>1 DEF Allowing
      <4>3. ceiling[request[q].month] \in Nat \cup {NoCeiling}
        BY <4>2, <1>t DEF TypeOK
      <4>4. /\ ceiling[request[q].month] # NoCeiling
            /\ ceiling[request[q].month] <= ceiling'[request[q].month]
        BY <4>1, <4>2, <4>3, <2>2, <2>5, <1>t DEF TypeOK, NoCeiling
      <4>5. request[q].cap <= ceiling[request[q].month]
        BY <4>1, <4>4 DEF MeterInv, GetCapped
      <4>6. ceiling'[request[q].month] \in Int
        BY <4>2, <1>t DEF TypeOK, NoCeiling
      <4>7. QED BY <4>1, <4>2, <4>3, <4>4, <4>5, <4>6 DEF NoCeiling
    <3>3. QED BY <3>1, <3>2
  <2>7. ASSUME NEW m \in 1..Months, ~ (m = m0 /\ Unlimited(cap))
        PROVE  Admitted(m)' \subseteq Admitted(m)
    BY <2>3, <2>7, <1>t DEF Admitted, At, TypeOK
  <2>8. ASSUME NEW m \in 1..Months, ceiling'[m] = 0
        PROVE  m # m0 /\ ceiling[m] = 0
    BY <2>8, <2>2, <2>5, <1>t DEF TypeOK, NoCeiling
  <2>9. FreshMonth'
    <3> SUFFICES ASSUME NEW m \in 1..Months, ceiling'[m] = 0
                 PROVE  count'[m] = 0 /\ \A q \in Request :
                           (At(q, "get") \/ At(q, "count"))' => request'[q].month # m
      BY DEF FreshMonth
    <3>1. QED BY <2>2, <2>3, <2>8, <1>t DEF MeterInv, FreshMonth, At, TypeOK
  <2>10. BoundedOvershoot'
    <3> SUFFICES ASSUME NEW m \in 1..Months, ceiling'[m] > 0
                 PROVE  count[m] + Cardinality(Admitted(m)')
                          <= ceiling'[m] - 1 + Cardinality(Request)
      BY <2>2 DEF BoundedOvershoot
    <3>1. Admitted(m)' \subseteq Admitted(m)
      BY <2>5, <2>7 DEF NoCeiling
    <3>2. /\ Cardinality(Admitted(m)') \in Nat
          /\ Cardinality(Admitted(m)') <= Cardinality(Admitted(m))
      BY <3>1, AdmittedFacts, FS_Subset, FS_CardinalityType
    <3>3. count[m] \in Nat /\ ceiling[m] \in Nat \cup {NoCeiling} /\ ceiling'[m] \in Int
      BY <1>t, BoundsAssumption DEF TypeOK, NoCeiling
    <3>4. ceiling[m] # NoCeiling /\ ceiling[m] <= ceiling'[m]
      BY <3>3, <2>2, <2>5, <1>t DEF TypeOK, NoCeiling
    <3>5. CASE ceiling[m] = 0
      <4>1. count[m] = 0 /\ Admitted(m) = {}
        BY <3>5 DEF MeterInv, FreshMonth, Admitted
      <4>2. Cardinality(Admitted(m)) = 0
        BY <4>1, FS_EmptySet
      <4>3. QED BY <3>2, <3>3, <4>1, <4>2, AdmittedFacts
    <3>6. CASE ceiling[m] > 0
      <4>1. count[m] + Cardinality(Admitted(m)) <= ceiling[m] - 1 + Cardinality(Request)
        BY <3>6 DEF MeterInv, BoundedOvershoot
      <4>2. QED BY <3>2, <3>3, <3>4, <3>6, <4>1, AdmittedFacts
    <3>7. QED BY <3>3, <3>4, <3>5, <3>6 DEF NoCeiling
  <2>11. QED BY <2>6, <2>9, <2>10
<1>6. ASSUME NEW r \in Request, Get(r) PROVE Rest
  <2> DEFINE m0 == request[r].month
  <2>1. /\ request[r] \in Allowing /\ At(r, "get") /\ m0 \in 1..Months
        /\ request[r].cap \in Int /\ UNCHANGED <<count, ceiling>>
    BY <1>6, <1>t DEF Get, At, TypeOK, Allowing
  <2>2. CASE count[m0] >= request[r].cap
    BY <1>6, <2>1, <2>2, <1>2, <1>t DEF Get, At, Idle, TypeOK
  <2>3. CASE ~ (count[m0] >= request[r].cap)
    <3>1. /\ request' = [request EXCEPT ![r] = request'[r]]
          /\ request'[r] # Idle /\ request'[r].month = m0
          /\ request'[r].step = "count"
      BY <1>6, <2>1, <2>3, <1>t DEF Get, TypeOK, Allowing, Idle
    <3>2. GetCapped' /\ FreshMonth'
      BY <2>1, <3>1, <1>t DEF MeterInv, GetCapped, FreshMonth, At, TypeOK
    <3>3. BoundedOvershoot'
      <4> SUFFICES ASSUME NEW m \in 1..Months, ceiling[m] > 0
                   PROVE  count[m] + Cardinality(Admitted(m)')
                            <= ceiling[m] - 1 + Cardinality(Request)
        BY <2>1 DEF BoundedOvershoot
      <4>1. count[m] \in Nat /\ ceiling[m] \in Int
        BY <1>t, BoundsAssumption DEF TypeOK, NoCeiling
      <4>2. CASE m = m0
        <5>1. request[r].cap <= ceiling[m]
          BY <4>2, <2>1 DEF MeterInv, GetCapped, NoCeiling
        <5>2. Admitted(m)' \subseteq Request
          BY DEF Admitted
        <5>3. /\ Cardinality(Admitted(m)') \in Nat
              /\ Cardinality(Admitted(m)') <= Cardinality(Request)
          BY <5>2, RequestAssumption, FS_Subset, FS_CardinalityType
        <5>4. QED BY <4>1, <4>2, <5>1, <5>3, <2>1, <2>3, AdmittedFacts
      <4>3. CASE m # m0
        <5>1. Admitted(m)' = Admitted(m)
          BY <4>3, <3>1, <2>1, <1>t DEF Admitted, At, TypeOK
        <5>2. QED BY <5>1 DEF MeterInv, BoundedOvershoot
      <4>4. QED BY <4>2, <4>3
    <3>4. QED BY <3>2, <3>3
  <2>4. QED BY <2>2, <2>3
<1>7. ASSUME NEW r \in Request, Count(r) PROVE Rest
  <2> DEFINE m0 == request[r].month
  <2>1. /\ At(r, "count") /\ m0 \in 1..Months /\ UNCHANGED ceiling
        /\ count' = [count EXCEPT ![m0] = count[m0] + 1]
        /\ request' = [request EXCEPT ![r] = Idle] /\ request'[r] = Idle
    BY <1>7, <1>t DEF Count, At, TypeOK, Allowing
  <2>2. GetCapped'
    BY <2>1, <1>t DEF MeterInv, GetCapped, At, Idle, TypeOK
  <2>3. FreshMonth'
    <3> SUFFICES ASSUME NEW m \in 1..Months, ceiling[m] = 0
                 PROVE  count'[m] = 0 /\ \A q \in Request :
                           (At(q, "get") \/ At(q, "count"))' => request'[q].month # m
      BY <2>1 DEF FreshMonth
    <3>1. m # m0
      BY <2>1 DEF MeterInv, FreshMonth
    <3>2. QED BY <2>1, <3>1, <1>t DEF MeterInv, FreshMonth, At, TypeOK
  <2>4. BoundedOvershoot'
    <3> SUFFICES ASSUME NEW m \in 1..Months, ceiling[m] > 0
                 PROVE  count'[m] + Cardinality(Admitted(m)')
                          <= ceiling[m] - 1 + Cardinality(Request)
      BY <2>1 DEF BoundedOvershoot
    <3>1. count[m] + Cardinality(Admitted(m)) <= ceiling[m] - 1 + Cardinality(Request)
      BY DEF MeterInv, BoundedOvershoot
    <3>2. count[m] \in Nat /\ ceiling[m] \in Int
      BY <1>t, BoundsAssumption DEF TypeOK, NoCeiling
    <3>3. CASE m = m0
      <4>1. Admitted(m)' = Admitted(m) \ {r} /\ r \in Admitted(m)
        BY <3>3, <2>1, <1>t DEF Admitted, At, TypeOK
      <4>2. Cardinality(Admitted(m)') = Cardinality(Admitted(m)) - 1
        BY <4>1, AdmittedFacts, FS_RemoveElement
      <4>3. count'[m] = count[m] + 1
        BY <3>3, <2>1, <1>t DEF TypeOK
      <4>4. QED BY <3>1, <3>2, <4>2, <4>3, AdmittedFacts
    <3>4. CASE m # m0
      <4>1. Admitted(m)' = Admitted(m) /\ count'[m] = count[m]
        BY <3>4, <2>1, <1>t DEF Admitted, At, TypeOK
      <4>2. QED BY <3>1, <4>1
    <3>5. QED BY <3>3, <3>4
  <2>5. QED BY <2>2, <2>3, <2>4
<1>8. QED
  BY <1>1, <1>3, <1>4, <1>5, <1>6, <1>7, <1>t
     DEF Next, vars, NextMonth, SetTeamPlan, MeterInv

(* The overshoot is bounded in every reachable state.                      *)
THEOREM OvershootBounded == Spec => []BoundedOvershoot
<1>1. MeterInv => BoundedOvershoot
  BY DEF MeterInv
<1>2. QED BY <1>1, MeterInit, MeterStep, PTL DEF Spec

-----------------------------------------------------------------------------
(* The second factor.  A code that was accepted is of a set that has been  *)
(* minted, so a new set is fresh; setting up begins with the factor off,   *)
(* and a code is confirmed for a secret there has been.                    *)
SpentWereMinted == \A c \in SecondFactor!Code : spent[c] > 0 => c[1] <= sets
SetsUpWhenOff == \A r \in Request : form[r].kind = "setup" => ~ form[r].saw.enabled
ConfirmsMinted == \A r \in Request : form[r].kind = "enable" => form[r].saw.secret \in 1..minted

InHand ==
    /\ form \in [Request -> {SecondFactor!Idle} \cup SecondFactor!Requests]
    /\ SetsUpWhenOff /\ ConfirmsMinted
Account ==
    /\ secret \in 0..minted /\ enabled \in BOOLEAN /\ codes \subseteq SecondFactor!Code
    /\ minted \in 0..MaxSecrets /\ sets \in 0..MaxSets
    /\ confirmed \subseteq 1..minted
    /\ spent \in [SecondFactor!Code -> Nat] /\ raced \in BOOLEAN
    /\ (enabled => sets # 0) /\ SpentWereMinted
    /\ SecondFactor!SpentOnce /\ SecondFactor!CodesAccounted /\ SecondFactor!SeededUnlessRaced
AccountInv == Account /\ InHand

LEMMA AccountInit == SecondFactor!Init => AccountInv
<1> SUFFICES ASSUME SecondFactor!Init PROVE AccountInv
  OBVIOUS
<1> USE DEF SecondFactor!Init
<1>1. MaxSecrets \in Nat /\ MaxSets \in Nat
  BY AccountAssumption DEF SecondFactor!Assumptions
<1>2. SpentWereMinted /\ SecondFactor!SpentOnce
  BY DEF SpentWereMinted, SecondFactor!SpentOnce
<1>3. InHand
  BY DEF InHand, SetsUpWhenOff, ConfirmsMinted, SecondFactor!Idle
<1>4. SecondFactor!CodesAccounted /\ SecondFactor!SeededUnlessRaced
  BY DEF SecondFactor!CodesAccounted, SecondFactor!SeededUnlessRaced
<1>5. enabled \in BOOLEAN /\ raced \in BOOLEAN /\ ~ enabled
  OBVIOUS
<1>6. secret \in 0..minted /\ minted \in 0..MaxSecrets /\ sets \in 0..MaxSets
  BY <1>1 DEF SecondFactor!NoSecret
<1>7. QED
  BY <1>2, <1>3, <1>4, <1>5, <1>6 DEF AccountInv, Account

(* What a request has in hand.                                             *)
LEMMA FormFacts ==
    ASSUME InHand, NEW r \in Request
    PROVE  /\ form[r].kind \in {"setup", "enable"} =>
                 form[r].saw.secret \in 0..MaxSecrets /\ form[r].saw.enabled \in BOOLEAN
           /\ form[r].kind = "spend" =>
                 form[r].code \in SecondFactor!Code /\ form[r].for \in {"login", "disable"}
<1>1. form[r] \in {SecondFactor!Idle} \cup SecondFactor!Requests
  BY DEF InHand
<1>2. CASE form[r] = SecondFactor!Idle \/ form[r] = [kind |-> "disable"]
  BY <1>2 DEF SecondFactor!Idle
<1>3. CASE form[r] \in [kind : {"setup", "enable"}, saw : SecondFactor!Account]
  BY <1>3 DEF SecondFactor!Account
<1>4. CASE form[r] \in [kind : {"spend"}, code : SecondFactor!Code, for : {"login", "disable"}]
  BY <1>4
<1>5. QED
  BY <1>1, <1>2, <1>3, <1>4 DEF SecondFactor!Requests

(* A request becomes another; what the others have in hand stays.          *)
LEMMA FormBecomes ==
    ASSUME AccountInv, NEW r \in Request, NEW e \in {SecondFactor!Idle} \cup SecondFactor!Requests,
           SecondFactor!Become(r, e), minted <= minted', minted' \in Nat,
           e.kind = "setup" => ~ e.saw.enabled,
           e.kind = "enable" => e.saw.secret \in 1..minted'
    PROVE  InHand'
<1> USE DEF AccountInv, InHand, SecondFactor!Become
<1>1. form' \in [Request -> {SecondFactor!Idle} \cup SecondFactor!Requests]
  OBVIOUS
<1>2. form'[r] = e /\ \A q \in Request : q # r => form'[q] = form[q]
  OBVIOUS
<1>3. minted \in Nat
  BY AccountAssumption DEF SecondFactor!Assumptions, Account
<1>4. SetsUpWhenOff'
  BY <1>2 DEF SetsUpWhenOff
<1>5. ConfirmsMinted'
  BY <1>2, <1>3 DEF ConfirmsMinted
<1>6. QED
  BY <1>1, <1>4, <1>5

LEMMA IdleForm ==
    /\ SecondFactor!Idle \in {SecondFactor!Idle} \cup SecondFactor!Requests
    /\ SecondFactor!Idle.kind = "none"
    /\ [kind |-> "disable"] \in SecondFactor!Requests
BY DEF SecondFactor!Idle, SecondFactor!Requests

(* A request that only reads, or fails.                                    *)
LEMMA ReadOnly ==
    ASSUME AccountInv, NEW r \in Request,
           \/ SecondFactor!BeginSetup(r) \/ SecondFactor!BeginConfirm(r)
           \/ \E c \in SecondFactor!Code, for \in {"login", "disable"} : SecondFactor!BeginSpend(r, c, for)
           \/ SecondFactor!BeginDisable(r) \/ SecondFactor!Fail(r)
    PROVE  AccountInv'
<1>1. UNCHANGED <<secret, enabled, codes, minted, sets, confirmed, spent, raced>>
  BY DEF SecondFactor!BeginSetup, SecondFactor!BeginConfirm, SecondFactor!BeginSpend,
         SecondFactor!BeginDisable, SecondFactor!Fail
<1>2. Account'
  BY <1>1 DEF AccountInv, Account, SpentWereMinted, SecondFactor!SpentOnce,
              SecondFactor!CodesAccounted, SecondFactor!SeededUnlessRaced, SecondFactor!NewestSet
<1>3. minted \in Nat /\ minted <= minted /\ secret \in 0..minted /\ secret \in 0..MaxSecrets
  BY AccountAssumption DEF AccountInv, Account, SecondFactor!Assumptions
<1>4. \E e \in {SecondFactor!Idle} \cup SecondFactor!Requests :
         /\ SecondFactor!Become(r, e)
         /\ e.kind = "setup" => ~ e.saw.enabled
         /\ e.kind = "enable" => e.saw.secret \in 1..minted
  <2> DEFINE read(k) == [kind |-> k, saw |-> SecondFactor!Row]
  <2>0. SecondFactor!Row \in SecondFactor!Account
    BY <1>3 DEF SecondFactor!Row, SecondFactor!Account, AccountInv, Account
  <2>1. CASE SecondFactor!BeginSetup(r)
    <3>1. read("setup") \in SecondFactor!Requests
      BY <2>0 DEF SecondFactor!Requests
    <3>2. QED BY <2>1, <3>1 DEF SecondFactor!BeginSetup, SecondFactor!Row
  <2>2. CASE SecondFactor!BeginConfirm(r)
    <3>1. read("enable") \in SecondFactor!Requests
      BY <2>0 DEF SecondFactor!Requests
    <3>2. secret \in 1..minted
      BY <1>3, <2>2 DEF SecondFactor!BeginConfirm, SecondFactor!NoSecret
    <3>3. QED BY <2>2, <3>1, <3>2 DEF SecondFactor!BeginConfirm, SecondFactor!Row
  <2>3. ASSUME NEW c \in SecondFactor!Code, NEW for \in {"login", "disable"},
               SecondFactor!BeginSpend(r, c, for)
        PROVE  \E e \in SecondFactor!Requests : SecondFactor!Become(r, e) /\ e.kind = "spend"
    <3>1. [kind |-> "spend", code |-> c, for |-> for] \in SecondFactor!Requests
      BY DEF SecondFactor!Requests
    <3>2. QED BY <2>3, <3>1 DEF SecondFactor!BeginSpend
  <2>4. CASE SecondFactor!BeginDisable(r)
    BY <2>4, IdleForm DEF SecondFactor!BeginDisable
  <2>5. CASE SecondFactor!Fail(r)
    BY <2>5, IdleForm DEF SecondFactor!Fail
  <2>6. QED BY <2>1, <2>2, <2>3, <2>4, <2>5
<1>5. QED
  BY <1>1, <1>2, <1>3, <1>4, FormBecomes DEF AccountInv

(* The writes.  A secret is written by a request that has seen the factor  *)
(* off; unless it is on by now, nothing is demanded.                       *)
LEMMA SecretWritten ==
    ASSUME AccountInv, NEW r \in Request, SecondFactor!WriteSecret(r)
    PROVE  AccountInv'
<1> USE DEF SecondFactor!WriteSecret
<1>1. /\ minted \in 0..MaxSecrets /\ MaxSecrets \in Nat /\ minted' = minted + 1
      /\ minted' \in 0..MaxSecrets /\ secret' = minted'
  BY AccountAssumption DEF AccountInv, Account, SecondFactor!Assumptions
<1>2. ~ raced' => ~ raced /\ form[r].saw = SecondFactor!Row
  OBVIOUS
<1>3. ~ raced' => ~ enabled
  BY <1>2 DEF AccountInv, InHand, SetsUpWhenOff, SecondFactor!Row, SecondFactor!Doing
<1>4. /\ SpentWereMinted' /\ SecondFactor!SpentOnce' /\ SecondFactor!CodesAccounted'
      /\ codes' = codes /\ enabled' = enabled /\ sets' = sets /\ spent' = spent
  BY DEF AccountInv, Account, SpentWereMinted, SecondFactor!SpentOnce,
         SecondFactor!CodesAccounted, SecondFactor!NewestSet
<1>5. SecondFactor!SeededUnlessRaced'
  BY <1>3, <1>4 DEF SecondFactor!SeededUnlessRaced
<1>6. raced' \in BOOLEAN
  BY DEF AccountInv, Account
<1>7. confirmed' \subseteq 1..minted'
  BY <1>1 DEF AccountInv, Account
<1>8. Account'
  BY <1>1, <1>4, <1>5, <1>6, <1>7 DEF AccountInv, Account
<1>9. InHand'
  BY <1>1, IdleForm, FormBecomes
<1>10. QED
  BY <1>8, <1>9 DEF AccountInv

(* Confirming turns the factor on with a set nobody has spent from.        *)
LEMMA Enabled ==
    ASSUME AccountInv, NEW r \in Request, SecondFactor!Enable(r)
    PROVE  AccountInv'
<1> USE DEF SecondFactor!Enable
<1>1. /\ sets \in 0..MaxSets /\ MaxSets \in Nat /\ sets' = sets + 1 /\ sets' \in 1..MaxSets
      /\ minted \in Nat /\ minted' = minted /\ spent' = spent /\ enabled'
  BY AccountAssumption DEF AccountInv, Account, SecondFactor!Assumptions
<1>2. form[r].saw.secret \in 1..minted
  BY DEF AccountInv, InHand, ConfirmsMinted, SecondFactor!Doing
<1>3. SpentWereMinted'
  BY <1>1 DEF AccountInv, Account, SpentWereMinted, SecondFactor!Code
<1>4. codes' \subseteq SecondFactor!Code
  BY <1>1 DEF SecondFactor!Code
<1>5. SecondFactor!CodesAccounted'
  <2>1. ASSUME NEW c \in {sets + 1} \X (1..SetSize) PROVE spent[c] = 0
    <3>1. c \in SecondFactor!Code /\ c[1] = sets + 1
      BY <1>1 DEF SecondFactor!Code
    <3>2. spent[c] \in Nat /\ ~ (spent[c] > 0)
      BY <1>1, <3>1 DEF AccountInv, Account, SpentWereMinted
    <3>3. QED BY <3>2
  <2>2. codes' = {c \in {sets + 1} \X (1..SetSize) : spent[c] = 0}
    BY <2>1
  <2>3. QED
    BY <1>1, <2>2 DEF SecondFactor!CodesAccounted, SecondFactor!NewestSet
<1>6. SecondFactor!SeededUnlessRaced'
  <2>0. ~ raced' => form[r].saw = SecondFactor!Row
    OBVIOUS
  <2>1. ~ raced' => form[r].saw.secret = secret
    BY <2>0 DEF SecondFactor!Row
  <2>2. secret' = secret /\ form[r].saw.secret \in confirmed'
    OBVIOUS
  <2>3. QED BY <2>1, <2>2 DEF SecondFactor!SeededUnlessRaced
<1>7. SecondFactor!SpentOnce'
  BY <1>1 DEF AccountInv, Account, SecondFactor!SpentOnce
<1>8. raced' \in BOOLEAN /\ enabled' \in BOOLEAN
  BY DEF AccountInv, Account
<1>9. confirmed' \subseteq 1..minted' /\ secret' \in 0..minted'
  BY <1>1, <1>2 DEF AccountInv, Account
<1>10. Account'
  <2>1. sets' \in 0..MaxSets /\ sets' # 0
    BY <1>1
  <2>2. minted' \in 0..MaxSecrets /\ spent' \in [SecondFactor!Code -> Nat]
    BY <1>1 DEF AccountInv, Account
  <2>3. QED
    BY <1>3, <1>4, <1>5, <1>6, <1>7, <1>8, <1>9, <2>1, <2>2 DEF Account
<1>11. InHand'
  BY <1>1, IdleForm, FormBecomes
<1>12. QED
  BY <1>10, <1>11 DEF AccountInv

(* A code is burnt by whoever finds it among those that work.              *)
LEMMA Spent ==
    ASSUME AccountInv, NEW r \in Request, SecondFactor!Spend(r)
    PROVE  AccountInv'
<1> DEFINE c == form[r].code
<1>1. /\ c \in SecondFactor!Code /\ minted \in Nat /\ minted' = minted
      /\ spent \in [SecondFactor!Code -> Nat]
      /\ UNCHANGED <<secret, enabled, minted, sets, confirmed, raced>>
  BY FormFacts, AccountAssumption
     DEF AccountInv, Account, SecondFactor!Spend, SecondFactor!Doing, SecondFactor!Assumptions
<1>2. InHand'
  <2>1. \E e \in {SecondFactor!Idle} \cup SecondFactor!Requests :
           SecondFactor!Become(r, e) /\ e.kind \in {"none", "disable"}
    BY IdleForm DEF SecondFactor!Spend, SecondFactor!Accept
  <2>2. QED BY <1>1, <2>1, FormBecomes
<1>3. CASE c \notin codes
  <2>1. codes' = codes /\ spent' = spent
    BY <1>3 DEF SecondFactor!Spend
  <2>2. Account'
    BY <1>1, <2>1 DEF AccountInv, Account, SpentWereMinted, SecondFactor!SpentOnce,
       SecondFactor!CodesAccounted, SecondFactor!SeededUnlessRaced, SecondFactor!NewestSet
  <2>3. QED BY <1>2, <2>2 DEF AccountInv
<1>4. CASE c \in codes
  <2>1. codes' = codes \ {c} /\ spent' = [spent EXCEPT ![c] = @ + 1]
    BY <1>4 DEF SecondFactor!Spend, SecondFactor!Accept
  <2>2. enabled /\ c \in SecondFactor!NewestSet /\ spent[c] = 0
    BY <1>4 DEF AccountInv, Account, SecondFactor!CodesAccounted
  <2>3. /\ spent' \in [SecondFactor!Code -> Nat] /\ spent'[c] = 1
        /\ \A d \in SecondFactor!Code : d # c => spent'[d] = spent[d]
    BY <1>1, <2>1, <2>2
  <2>4. SecondFactor!SpentOnce' /\ SpentWereMinted'
    <3>1. c[1] = sets /\ sets \in Nat
      BY <2>2, AccountAssumption
         DEF SecondFactor!NewestSet, AccountInv, Account, SecondFactor!Assumptions
    <3>2. QED
      BY <1>1, <2>3, <3>1 DEF AccountInv, Account, SecondFactor!SpentOnce, SpentWereMinted
  <2>5. SecondFactor!CodesAccounted'
    <3>1. SecondFactor!NewestSet \subseteq SecondFactor!Code /\ SecondFactor!NewestSet' = SecondFactor!NewestSet
      <4>1. sets \in 1..MaxSets
        BY <2>2, AccountAssumption DEF AccountInv, Account, SecondFactor!Assumptions
      <4>2. QED BY <1>1, <4>1 DEF SecondFactor!NewestSet, SecondFactor!Code
    <3>2. codes = {d \in SecondFactor!NewestSet : spent[d] = 0}
      BY <2>2 DEF AccountInv, Account, SecondFactor!CodesAccounted
    <3>3. codes' = {d \in SecondFactor!NewestSet : spent'[d] = 0}
      BY <2>1, <2>3, <3>1, <3>2
    <3>4. QED BY <1>1, <2>2, <3>1, <3>3 DEF SecondFactor!CodesAccounted
  <2>6. SecondFactor!SeededUnlessRaced' /\ codes' \subseteq SecondFactor!Code
    BY <1>1, <2>1 DEF AccountInv, Account, SecondFactor!SeededUnlessRaced
  <2>7. Account'
    BY <1>1, <2>3, <2>4, <2>5, <2>6 DEF AccountInv, Account
  <2>8. QED BY <1>2, <2>7 DEF AccountInv
<1>5. QED
  BY <1>3, <1>4

LEMMA Disabled ==
    ASSUME AccountInv, NEW r \in Request, SecondFactor!Disable(r)
    PROVE  AccountInv'
<1> USE DEF SecondFactor!Disable
<1>1. /\ minted \in Nat /\ codes' = {} /\ secret' = 0
      /\ UNCHANGED <<minted, sets, confirmed, spent, raced>>
  BY AccountAssumption DEF AccountInv, Account, SecondFactor!NoSecret, SecondFactor!Assumptions
<1>0. ~ enabled' /\ enabled' \in BOOLEAN
  OBVIOUS
<1>2. SpentWereMinted' /\ SecondFactor!SpentOnce'
  BY <1>1 DEF AccountInv, Account, SpentWereMinted, SecondFactor!SpentOnce
<1>3. SecondFactor!CodesAccounted' /\ SecondFactor!SeededUnlessRaced'
  BY <1>1, <1>0 DEF SecondFactor!CodesAccounted, SecondFactor!SeededUnlessRaced
<1>4. Account'
  BY <1>1, <1>0, <1>2, <1>3 DEF AccountInv, Account
<1>5. InHand'
  BY <1>1, IdleForm, FormBecomes
<1>6. QED
  BY <1>4, <1>5 DEF AccountInv

LEMMA AccountStep == AccountInv /\ [SecondFactor!Next]_account => AccountInv'
<1> SUFFICES ASSUME AccountInv, [SecondFactor!Next]_account PROVE AccountInv'
  OBVIOUS
<1>1. CASE UNCHANGED account
  BY <1>1 DEF account, AccountInv, Account, InHand, SpentWereMinted, SetsUpWhenOff, ConfirmsMinted,
     SecondFactor!SpentOnce, SecondFactor!CodesAccounted, SecondFactor!SeededUnlessRaced,
     SecondFactor!NewestSet
<1>2. CASE SecondFactor!Next
  BY <1>2, ReadOnly, SecretWritten, Enabled, Spent, Disabled DEF SecondFactor!Next
<1>3. QED
  BY <1>1, <1>2
-----------------------------------------------------------------------------
(* Documents.  No version is ahead of the edits that have ended: each edit *)
(* brings the row one version on, and one that is under way has read a row *)
(* that was there when it began.  Until an edit overwrites one it has not  *)
(* read, the row has the newest version there is.                          *)
Editors == {r \in Request : edit[r] # Revisions!Idle}
Version == [version : Nat, text : Nat]
Document ==
    /\ row \in Version /\ published \subseteq Version /\ overwritten \in BOOLEAN
    /\ edit \in [Request -> {Revisions!Idle} \cup [read : Nat, text : Nat]]
    /\ \A p \in published : p.version >= 1
    /\ row = Revisions!NoRow <=> published = {}
    /\ row # Revisions!NoRow => row \in published
Ahead ==
    /\ edits \in 0..MaxEdits /\ IsFiniteSet(Editors)
    /\ row.version <= edits - Cardinality(Editors)
    /\ \A p \in published : p.version <= edits /\ p.text \in 1..edits
    /\ \A r \in Editors : edit[r].read <= edits - Cardinality(Editors) /\ edit[r].text \in 1..edits
Newest == ~ overwritten => \A p \in published : p.version <= row.version
DocumentInv == Document /\ Ahead /\ Newest /\ Revisions!VersionTellsTextUnlessRaced

LEMMA DocumentInit == Revisions!Init => DocumentInv
<1> SUFFICES ASSUME Revisions!Init PROVE DocumentInv
  OBVIOUS
<1> USE DEF Revisions!Init, Revisions!NoRow
<1>1. Document
  BY DEF Document, Version
<1>2. Ahead
  <2>1. Editors = {}
    BY DEF Editors
  <2>2. QED
    BY <2>1, FS_EmptySet, DocumentAssumption DEF Ahead, Revisions!Assumptions
<1>3. Newest /\ Revisions!VersionTellsTextUnlessRaced
  BY DEF Newest, Revisions!VersionTellsTextUnlessRaced, Revisions!VersionTellsText
<1>4. QED
  BY <1>1, <1>2, <1>3 DEF DocumentInv

LEMMA DocumentTypes == DocumentInv => Revisions!TypeOK
<1> SUFFICES ASSUME DocumentInv PROVE Revisions!TypeOK
  OBVIOUS
<1>1. edits \in 0..MaxEdits /\ MaxEdits \in Nat
  BY DocumentAssumption DEF DocumentInv, Ahead, Revisions!Assumptions
<1>2. published \subseteq Revisions!Row
  BY <1>1 DEF DocumentInv, Document, Ahead, Version, Revisions!Row
<1>3. row \in {Revisions!NoRow} \cup Revisions!Row /\ (row # Revisions!NoRow <=> row \in published)
  BY <1>2 DEF DocumentInv, Document
<1>4. edit \in [Request -> {Revisions!Idle} \cup Revisions!Editing]
  <2> SUFFICES ASSUME NEW r \in Request PROVE edit[r] \in {Revisions!Idle} \cup Revisions!Editing
    BY DEF DocumentInv, Document
  <2>1. CASE r \notin Editors
    BY <2>1 DEF Editors
  <2>2. CASE r \in Editors
    <3>1. edit[r] \in [read : Nat, text : Nat]
      BY <2>2 DEF DocumentInv, Document, Editors
    <3>2. Cardinality(Editors) \in Nat /\ edit[r].read <= edits - Cardinality(Editors)
          /\ edit[r].text \in 1..edits
      BY <2>2, FS_CardinalityType DEF DocumentInv, Ahead
    <3>3. QED BY <1>1, <3>1, <3>2 DEF Revisions!Editing
  <2>3. QED BY <2>1, <2>2
<1>5. QED
  BY <1>1, <1>2, <1>3, <1>4 DEF Revisions!TypeOK, DocumentInv, Document

(* An edit ends: there is one editor less.                                 *)
LEMMA EditEnds ==
    ASSUME DocumentInv, NEW r \in Request, edit[r] # Revisions!Idle,
           Revisions!Done(r), edits' = edits
    PROVE  /\ edit' \in [Request -> {Revisions!Idle} \cup [read : Nat, text : Nat]]
           /\ IsFiniteSet(Editors') /\ Cardinality(Editors') = Cardinality(Editors) - 1
           /\ Cardinality(Editors) \in Nat \ {0}
           /\ \A q \in Editors' : q \in Editors /\ edit'[q] = edit[q]
           /\ edit[r] \in [read : Nat, text : Nat]
           /\ edit[r].read <= edits - Cardinality(Editors) /\ edit[r].text \in 1..edits
<1> USE DEF Revisions!Done
<1>1. edit \in [Request -> {Revisions!Idle} \cup [read : Nat, text : Nat]]
  BY DEF DocumentInv, Document
<1>2. Editors' = Editors \ {r} /\ r \in Editors
  BY <1>1 DEF Editors
<1>3. IsFiniteSet(Editors)
  BY DEF DocumentInv, Ahead
<1>4. IsFiniteSet(Editors') /\ Cardinality(Editors') = Cardinality(Editors) - 1
  BY <1>2, <1>3, FS_RemoveElement
<1>5. Cardinality(Editors) \in Nat /\ Cardinality(Editors') \in Nat
  BY <1>3, <1>4, FS_CardinalityType
<1>6. \A q \in Editors' : q \in Editors /\ edit'[q] = edit[q]
  BY <1>1, <1>2 DEF Editors
<1>7. edit[r].read <= edits - Cardinality(Editors) /\ edit[r].text \in 1..edits
  BY <1>2 DEF DocumentInv, Ahead
<1>8. QED
  BY <1>1, <1>4, <1>5, <1>6, <1>7

LEMMA EditBegins ==
    ASSUME DocumentInv, NEW r \in Request, Revisions!BeginEdit(r)
    PROVE  DocumentInv'
<1> USE DEF Revisions!BeginEdit
<1>1. UNCHANGED <<row, published, overwritten>> /\ edits' = edits + 1 /\ edits' \in 0..MaxEdits
      /\ edits \in Nat /\ row.version \in Nat
  BY DocumentAssumption DEF DocumentInv, Document, Version, Ahead, Revisions!Assumptions
<1>2. edit \in [Request -> {Revisions!Idle} \cup [read : Nat, text : Nat]]
  BY DEF DocumentInv, Document
<1>3. edit' \in [Request -> {Revisions!Idle} \cup [read : Nat, text : Nat]]
  BY <1>1, <1>2
<1>4. edit'[r] = [read |-> row.version, text |-> edits + 1] /\ edit'[r] # Revisions!Idle
      /\ \A q \in Request : q # r => edit'[q] = edit[q]
  BY <1>1, <1>2 DEF Revisions!Idle
<1>5. Editors' = Editors \cup {r} /\ r \notin Editors
  BY <1>2, <1>4 DEF Editors
<1>6. IsFiniteSet(Editors') /\ Cardinality(Editors') = Cardinality(Editors) + 1
      /\ Cardinality(Editors) \in Nat
  BY <1>5, FS_AddElement, FS_CardinalityType DEF DocumentInv, Ahead
<1>7. edits' - Cardinality(Editors') = edits - Cardinality(Editors)
  BY <1>1, <1>6
<1>8. Ahead'
  <2>1. \A p \in published : p.version <= edits' /\ p.text \in 1..edits'
    BY <1>1 DEF DocumentInv, Document, Version, Ahead
  <2>2. ASSUME NEW q \in Editors'
        PROVE  edit'[q].read <= edits' - Cardinality(Editors') /\ edit'[q].text \in 1..edits'
    <3>1. CASE q = r
      BY <1>1, <1>4, <1>7, <3>1 DEF DocumentInv, Ahead
    <3>2. CASE q # r
      <4>1. q \in Editors /\ q \in Request /\ edit'[q] = edit[q]
        BY <1>4, <1>5, <3>2 DEF Editors
      <4>2. QED BY <1>1, <1>7, <4>1 DEF DocumentInv, Ahead
    <3>3. QED BY <3>1, <3>2
  <2>3. row'.version <= edits' - Cardinality(Editors')
    BY <1>1, <1>7 DEF DocumentInv, Ahead
  <2>4. QED BY <1>1, <1>6, <2>1, <2>2, <2>3 DEF Ahead
<1>9. Document'
  BY <1>1, <1>3 DEF DocumentInv, Document
<1>10. Newest' /\ Revisions!VersionTellsTextUnlessRaced'
  BY <1>1 DEF DocumentInv, Newest, Revisions!VersionTellsTextUnlessRaced, Revisions!VersionTellsText
<1>11. QED
  BY <1>8, <1>9, <1>10 DEF DocumentInv

(* An edit that leaves the row alone: a failed one, or a refused insert.   *)
LEMMA EditLeaves ==
    ASSUME DocumentInv, NEW r \in Request, edit[r] # Revisions!Idle, Revisions!Done(r),
           UNCHANGED <<row, edits, published, overwritten>>
    PROVE  DocumentInv'
<1>1. edits' = edits
  OBVIOUS
<1>2. Ahead'
  <2>1. edits \in Nat /\ row.version \in Nat
    BY DocumentAssumption DEF DocumentInv, Document, Version, Ahead, Revisions!Assumptions
  <2>2. ASSUME NEW q \in Editors'
        PROVE  edit'[q].read <= edits' - Cardinality(Editors') /\ edit'[q].text \in 1..edits'
    <3>1. q \in Editors /\ edit'[q] = edit[q]
      BY <1>1, EditEnds
    <3>2. edit[q].read \in Nat
      BY <3>1 DEF DocumentInv, Document, Editors
    <3>3. QED BY <1>1, <2>1, <3>1, <3>2, EditEnds DEF DocumentInv, Ahead
  <2>3. QED BY <1>1, <2>1, <2>2, EditEnds DEF DocumentInv, Ahead
<1>3. Document'
  BY <1>1, EditEnds DEF DocumentInv, Document
<1>4. Newest' /\ Revisions!VersionTellsTextUnlessRaced'
  BY DEF DocumentInv, Newest, Revisions!VersionTellsTextUnlessRaced, Revisions!VersionTellsText
<1>5. QED
  BY <1>2, <1>3, <1>4 DEF DocumentInv

(* An edit that publishes: a version more than it has read.                *)
LEMMA EditPublishes ==
    ASSUME DocumentInv, NEW r \in Request, edit[r] # Revisions!Idle, Revisions!Done(r),
           Revisions!Publish(r, edit[r].read + 1), edits' = edits, overwritten' \in BOOLEAN,
           ~ overwritten' => ~ overwritten /\ row.version = edit[r].read
    PROVE  DocumentInv'
<1> DEFINE version == edit[r].read + 1
<1>1. /\ row' = [version |-> version, text |-> edit[r].text]
      /\ published' = published \cup {row'}
  BY DEF Revisions!Publish
<1>2. edits \in Nat /\ edits \in 0..MaxEdits /\ Cardinality(Editors) \in Nat \ {0}
      /\ edit[r] \in [read : Nat, text : Nat] /\ edit[r].read <= edits - Cardinality(Editors)
      /\ edit[r].text \in 1..edits /\ Cardinality(Editors') = Cardinality(Editors) - 1
      /\ IsFiniteSet(Editors')
  BY EditEnds, DocumentAssumption DEF DocumentInv, Ahead, Revisions!Assumptions
<1>3. version \in Nat /\ version >= 1 /\ version <= edits /\ version <= edits - Cardinality(Editors')
  BY <1>2
<1>4. row' \in Version /\ row'.version = version /\ row'.text = edit[r].text
  BY <1>1, <1>2, <1>3 DEF Version
<1> HIDE DEF version
<1>5. published' \subseteq Version /\ \A p \in published' : p.version >= 1
  BY <1>1, <1>3, <1>4 DEF DocumentInv, Document
<1>6. Document'
  <2>1. row' # Revisions!NoRow
    BY <1>3, <1>4 DEF Revisions!NoRow
  <2>2. edit' \in [Request -> {Revisions!Idle} \cup [read : Nat, text : Nat]]
    BY EditEnds
  <2>3. QED BY <1>1, <1>4, <1>5, <2>1, <2>2 DEF Document
<1>7. Ahead'
  <2>1. \A p \in published' : p.version <= edits' /\ p.text \in 1..edits'
    BY <1>1, <1>2, <1>3, <1>4 DEF DocumentInv, Ahead
  <2>2. ASSUME NEW q \in Editors'
        PROVE  edit'[q].read <= edits' - Cardinality(Editors') /\ edit'[q].text \in 1..edits'
    <3>1. q \in Editors /\ edit'[q] = edit[q]
      BY EditEnds
    <3>2. edit[q].read \in Nat
      BY <3>1 DEF DocumentInv, Document, Editors
    <3>3. QED BY <1>2, <3>1, <3>2 DEF DocumentInv, Ahead
  <2>3. QED BY <1>2, <1>3, <1>4, <2>1, <2>2 DEF Ahead
<1>8. ASSUME ~ overwritten', NEW p \in published PROVE p.version < version /\ p.version \in Nat
  <2>1. p.version <= row.version /\ p.version \in Nat /\ row.version \in Nat
    BY <1>8 DEF DocumentInv, Document, Version, Newest
  <2>2. QED BY <1>2, <1>8, <2>1 DEF version
<1>9. Newest'
  BY <1>1, <1>3, <1>4, <1>8 DEF Newest
<1>10. Revisions!VersionTellsTextUnlessRaced'
  BY <1>1, <1>3, <1>4, <1>8
     DEF DocumentInv, Revisions!VersionTellsTextUnlessRaced, Revisions!VersionTellsText
<1>11. QED
  BY <1>6, <1>7, <1>9, <1>10 DEF DocumentInv

LEMMA DocumentStep == DocumentInv /\ [Revisions!Next]_document => DocumentInv'
<1> SUFFICES ASSUME DocumentInv, [Revisions!Next]_document PROVE DocumentInv'
  OBVIOUS
<1>1. CASE UNCHANGED document
  BY <1>1 DEF document, DocumentInv, Document, Ahead, Newest, Editors,
     Revisions!VersionTellsTextUnlessRaced, Revisions!VersionTellsText
<1>2. ASSUME NEW r \in Request, Revisions!Create(r) PROVE DocumentInv'
  <2>1. edit[r] # Revisions!Idle /\ edit[r].read = 0 /\ Revisions!Done(r)
        /\ edits' = edits /\ overwritten' = overwritten
    BY <1>2 DEF Revisions!Create
  <2>2. CASE row = Revisions!NoRow
    <3>1. Revisions!Publish(r, edit[r].read + 1) /\ row.version = edit[r].read
      BY <1>2, <2>1, <2>2 DEF Revisions!Create, Revisions!NoRow
    <3>2. overwritten' \in BOOLEAN
      BY <2>1 DEF DocumentInv, Document
    <3>3. QED BY <2>1, <3>1, <3>2, EditPublishes
  <2>3. CASE row # Revisions!NoRow
    BY <1>2, <2>1, <2>3, EditLeaves DEF Revisions!Create
  <2>4. QED BY <2>2, <2>3
<1>3. ASSUME NEW r \in Request, Revisions!Save(r) PROVE DocumentInv'
  <2>1. overwritten' \in BOOLEAN /\ (~ overwritten' => ~ overwritten /\ row.version = edit[r].read)
    BY <1>3 DEF Revisions!Save
  <2>2. QED BY <1>3, <2>1, EditPublishes DEF Revisions!Save
<1>4. ASSUME NEW r \in Request, Revisions!Fail(r) PROVE DocumentInv'
  BY <1>4, EditLeaves DEF Revisions!Fail
<1>5. QED
  BY <1>1, <1>2, <1>3, <1>4, EditBegins DEF Revisions!Next
-----------------------------------------------------------------------------
(* Facts.  An addition in hand is upright and has named its endpoints; an  *)
(* end in hand suits the current triples it has seen; and a fact's current *)
(* triples and the additions of it in hand are together no more than the   *)
(* calls, because an addition is only begun where there is no triple.      *)
Triple == [fact : Fact, from : Facts!Bounds, to : Facts!Bounds]
Adders(f) == {r \in Request : Facts!Doing(r, "add") /\ call[r].fact = f}

AddsUpright == \A r \in Request : Facts!Doing(r, "add") =>
    /\ ~ Facts!Inverted(call[r].from, call[r].to)
    /\ Endpoints[call[r].fact] \subseteq entities
EndsChecked == \A r \in Request : Facts!Doing(r, "end") =>
    /\ call[r].seen <= Len(rows)
    /\ \A i \in Facts!Current(call[r].fact) :
          i <= call[r].seen => ~ Facts!Inverted(rows[i].from, call[r].to)
RoomForAll == \A f \in Fact :
    Cardinality(Facts!Current(f)) + Cardinality(Adders(f)) <= Cardinality(Request)
FactsInv == /\ Facts!TypeOK /\ AddsUpright /\ EndsChecked /\ RoomForAll
            /\ Facts!UprightUnlessUnseen

LEMMA TemporalFacts ==
    ASSUME NEW t \in Temporal
    PROVE  t # Facts!Open /\ t.start \in Nat /\ t.end \in Nat /\ t \in Facts!Bounds
<1>1. t.start \in Nat /\ t.end \in Nat
  BY FactsAssumption DEF Facts!Assumptions
<1>2. Facts!Open.start = -1
  BY DEF Facts!Open
<1>3. QED
  BY <1>1, <1>2 DEF Facts!Bounds

(* What the call in hand is made of.                                       *)
LEMMA CallFacts ==
    ASSUME Facts!TypeOK, NEW r \in Request
    PROVE  /\ Facts!Doing(r, "add") =>
                /\ call[r].fact \in Fact /\ call[r].from \in Facts!Bounds /\ call[r].to \in Facts!Bounds
                /\ ~ Facts!Doing(r, "end")
           /\ Facts!Doing(r, "end") =>
                /\ call[r].fact \in Fact /\ call[r].to \in Temporal /\ call[r].seen \in 0..MaxRows
                /\ ~ Facts!Doing(r, "add")
<1> USE DEF Facts!Doing
<1>1. call[r] \in {Facts!Idle} \cup Facts!Writing
  BY DEF Facts!TypeOK
<1>2. CASE call[r] = Facts!Idle
  BY <1>2
<1>3. CASE call[r] \in [kind : {"add"}, fact : Fact, from : Facts!Bounds, to : Facts!Bounds]
  BY <1>3
<1>4. CASE call[r] \in [kind : {"end"}, fact : Fact, to : Temporal, seen : 0..MaxRows]
  BY <1>4
<1>5. QED
  BY <1>1, <1>2, <1>3, <1>4 DEF Facts!Writing

LEMMA RowFacts ==
    ASSUME Facts!TypeOK
    PROVE  /\ Len(rows) \in Nat /\ DOMAIN rows = 1..Len(rows)
           /\ \A i \in DOMAIN rows : rows[i] \in Triple
           /\ \A f : Facts!Current(f) \subseteq 1..Len(rows)
           /\ \A f : IsFiniteSet(Facts!Current(f)) /\ Cardinality(Facts!Current(f)) \in Nat
           /\ \A f : IsFiniteSet(Adders(f)) /\ Cardinality(Adders(f)) \in Nat
                     /\ Cardinality(Adders(f)) <= Cardinality(Request)
           /\ IsFiniteSet(Request) /\ Cardinality(Request) \in Nat
<1>1. rows \in Seq(Triple)
  BY DEF Facts!TypeOK, Triple
<1>2. Len(rows) \in Nat /\ DOMAIN rows = 1..Len(rows) /\ \A i \in DOMAIN rows : rows[i] \in Triple
  BY <1>1, LenProperties
<1>3. \A f : Facts!Current(f) \subseteq 1..Len(rows)
  BY <1>2 DEF Facts!Current
<1>4. IsFiniteSet(1..Len(rows))
  BY <1>2, FS_Interval
<1>5. IsFiniteSet(Request)
  BY RequestAssumption
<1>6. \A f : IsFiniteSet(Facts!Current(f)) /\ Cardinality(Facts!Current(f)) \in Nat
  BY <1>3, <1>4, FS_Subset, FS_CardinalityType
<1>7. \A f : Adders(f) \subseteq Request
  BY DEF Adders
<1>8. \A f : IsFiniteSet(Adders(f)) /\ Cardinality(Adders(f)) <= Cardinality(Request)
  BY <1>5, <1>7, FS_Subset
<1>9. QED
  BY <1>2, <1>3, <1>5, <1>6, <1>8, FS_CardinalityType

(* One call changes hands, the others go on.                               *)
LEMMA CallBecomes ==
    ASSUME Facts!TypeOK, NEW r \in Request, NEW e \in {Facts!Idle} \cup Facts!Writing,
           call' = [call EXCEPT ![r] = e]
    PROVE  /\ call' \in [Request -> {Facts!Idle} \cup Facts!Writing]
           /\ call'[r] = e
           /\ \A q \in Request \ {r} : call'[q] = call[q]
           /\ \A q \in Request \ {r}, k \in {"add", "end"} :
                 Facts!Doing(q, k)' <=> Facts!Doing(q, k)
           /\ e = Facts!Idle => \A k \in {"add", "end"} : ~ Facts!Doing(r, k)'
<1>1. call \in [Request -> {Facts!Idle} \cup Facts!Writing]
  BY DEF Facts!TypeOK
<1>2. QED
  BY <1>1 DEF Facts!Doing

LEMMA CallEnds ==
    ASSUME Facts!TypeOK, NEW r \in Request, Facts!Done(r)
    PROVE  /\ call' \in [Request -> {Facts!Idle} \cup Facts!Writing]
           /\ \A q \in Request, k \in {"add", "end"} : Facts!Doing(q, k)' =>
                 q # r /\ Facts!Doing(q, k) /\ call'[q] = call[q]
           /\ \A f : Adders(f)' = Adders(f) \ {r}
<1>1. /\ call'[r] = Facts!Idle
      /\ \A q \in Request \ {r} : call'[q] = call[q]
      /\ call' \in [Request -> {Facts!Idle} \cup Facts!Writing]
  BY CallBecomes DEF Facts!Done
<1>2. QED
  BY <1>1 DEF Facts!Doing, Adders

LEMMA FewerAdders ==
    ASSUME Facts!TypeOK, NEW r \in Request, Facts!Done(r)
    PROVE  \A f : /\ Cardinality(Adders(f)') <= Cardinality(Adders(f))
                  /\ Cardinality(Adders(f)') \in Nat
<1> SUFFICES ASSUME NEW f
             PROVE Cardinality(Adders(f)') <= Cardinality(Adders(f)) /\ Cardinality(Adders(f)') \in Nat
  OBVIOUS
<1>1. Adders(f)' = Adders(f) \ {r}
  BY CallEnds
<1>2. IsFiniteSet(Adders(f))
  BY RowFacts
<1>3. QED
  BY <1>1, <1>2, FS_Subset, FS_CardinalityType

LEMMA FactsInit == Facts!Init => FactsInv
<1> SUFFICES ASSUME Facts!Init PROVE FactsInv
  OBVIOUS
<1> USE DEF Facts!Init
<1>1. rows \in Seq(Triple) /\ Len(rows) = 0 /\ DOMAIN rows = {}
  OBVIOUS
<1>2. Facts!TypeOK
  BY <1>1, FactsAssumption DEF Facts!TypeOK, Triple, Facts!Assumptions
<1>3. \A r \in Request : \A k : ~ Facts!Doing(r, k)
  BY DEF Facts!Doing
<1>4. AddsUpright /\ EndsChecked
  BY <1>3 DEF AddsUpright, EndsChecked
<1>5. \A f : Facts!Current(f) = {} /\ Adders(f) = {}
  BY <1>1, <1>3 DEF Facts!Current, Adders
<1>6. RoomForAll
  BY <1>2, <1>5, FS_EmptySet, RowFacts DEF RoomForAll
<1>7. Facts!UprightUnlessUnseen
  BY <1>1 DEF Facts!UprightUnlessUnseen
<1>8. QED
  BY <1>2, <1>4, <1>6, <1>7 DEF FactsInv

LEMMA RowsSame ==
    ASSUME FactsInv, UNCHANGED <<rows, unseen>>
    PROVE  /\ \A f : Facts!Current(f)' = Facts!Current(f)
           /\ Facts!UprightUnlessUnseen'
BY DEF FactsInv, Facts!Current, Facts!UprightUnlessUnseen

LEMMA AddBegins ==
    ASSUME FactsInv, NEW r \in Request, NEW f \in Fact,
           NEW from \in Facts!Bounds, NEW to \in Facts!Bounds, Facts!BeginAdd(r, f, from, to)
    PROVE  FactsInv'
<1> USE DEF Facts!BeginAdd
<1>1. /\ UNCHANGED <<rows, unseen>> /\ entities \subseteq entities'
      /\ Endpoints[f] \subseteq entities' /\ Facts!TypeOK
  BY DEF FactsInv
<1>2. CASE Facts!Current(f) # {}
  <2>1. call' = call
    BY <1>2
  <2>2. Facts!TypeOK'
    BY <1>1, <2>1 DEF Facts!TypeOK
  <2>3. AddsUpright' /\ EndsChecked' /\ RoomForAll'
    BY <1>1, <2>1, RowsSame
       DEF FactsInv, AddsUpright, EndsChecked, RoomForAll, Facts!Doing, Adders
  <2>4. QED
    BY <1>1, <2>2, <2>3, RowsSame DEF FactsInv
<1>3. CASE Facts!Current(f) = {}
  <2> DEFINE e == [kind |-> "add", fact |-> f, from |-> from, to |-> to]
  <2>1. call' = [call EXCEPT ![r] = e]
    BY <1>3
  <2>2. e \in Facts!Writing
    BY DEF Facts!Writing
  <2>3. /\ call'[r] = e /\ call' \in [Request -> {Facts!Idle} \cup Facts!Writing]
        /\ \A q \in Request \ {r} : call'[q] = call[q]
        /\ \A q \in Request \ {r}, k \in {"add", "end"} : Facts!Doing(q, k)' <=> Facts!Doing(q, k)
    BY <1>1, <2>1, <2>2, CallBecomes
  <2>4. call'[r].kind = "add" /\ call'[r].fact = f /\ call'[r].from = from /\ call'[r].to = to
        /\ ~ Facts!Doing(r, "end")'
    BY <2>3 DEF Facts!Doing
  <2> HIDE DEF e
  <2>5. Facts!TypeOK'
    BY <1>1, <2>3 DEF Facts!TypeOK
  <2>6. AddsUpright'
    BY <1>1, <2>3, <2>4 DEF FactsInv, AddsUpright
  <2>7. EndsChecked'
    BY <1>1, <2>3, <2>4, RowsSame DEF FactsInv, EndsChecked
  <2>8. ASSUME NEW g \in Fact
        PROVE  Cardinality(Facts!Current(g)') + Cardinality(Adders(g)') <= Cardinality(Request)
    <3>1. Facts!Current(g)' = Facts!Current(g)
      BY <1>1, RowsSame
    <3>2. CASE g = f
      <4>1. Cardinality(Facts!Current(g)') = 0
        BY <1>3, <3>1, <3>2, FS_EmptySet
      <4>2. Adders(g)' \subseteq Request
        BY DEF Adders
      <4>3. Cardinality(Adders(g)') <= Cardinality(Request) /\ Cardinality(Adders(g)') \in Nat
        BY <4>2, RequestAssumption, FS_Subset, FS_CardinalityType
      <4>4. QED BY <4>1, <4>3
    <3>3. CASE g # f
      <4>1. ~ Facts!Doing(r, "add")
        BY DEF Facts!Doing
      <4>2. Adders(g)' = Adders(g)
        BY <2>3, <2>4, <3>3, <4>1 DEF Adders
      <4>3. QED BY <3>1, <4>2 DEF FactsInv, RoomForAll
    <3>4. QED BY <3>2, <3>3
  <2>9. QED
    BY <1>1, <2>5, <2>6, <2>7, <2>8, RowsSame DEF FactsInv, RoomForAll
<1>4. QED
  BY <1>2, <1>3

LEMMA EndBegins ==
    ASSUME FactsInv, NEW r \in Request, NEW f \in Fact, NEW ended \in Temporal,
           Facts!BeginInvalidate(r, f, ended)
    PROVE  FactsInv'
<1> USE DEF Facts!BeginInvalidate
<1> DEFINE e == [kind |-> "end", fact |-> f, to |-> ended, seen |-> Len(rows)]
<1>1. UNCHANGED <<rows, unseen, entities>> /\ Facts!TypeOK /\ call' = [call EXCEPT ![r] = e]
  BY DEF FactsInv
<1>2. e \in Facts!Writing
  <2>1. Len(rows) \in 0..MaxRows
    BY <1>1, RowFacts, FactsAssumption DEF Facts!TypeOK, Facts!Assumptions
  <2>2. QED BY <2>1 DEF Facts!Writing
<1>3. /\ call'[r] = e /\ call' \in [Request -> {Facts!Idle} \cup Facts!Writing]
      /\ \A q \in Request \ {r} : call'[q] = call[q]
      /\ \A q \in Request \ {r}, k \in {"add", "end"} : Facts!Doing(q, k)' <=> Facts!Doing(q, k)
  BY <1>1, <1>2, CallBecomes
<1>4. call'[r].kind = "end" /\ call'[r].fact = f /\ call'[r].to = ended
      /\ call'[r].seen <= Len(rows) /\ ~ Facts!Doing(r, "add")' /\ ~ Facts!Doing(r, "add")
  BY <1>1, <1>3, RowFacts DEF Facts!Doing
<1> HIDE DEF e
<1>5. Facts!TypeOK'
  BY <1>1, <1>3 DEF Facts!TypeOK
<1>6. AddsUpright'
  BY <1>1, <1>3, <1>4 DEF FactsInv, AddsUpright
<1>7. EndsChecked'
  BY <1>1, <1>3, <1>4, RowsSame DEF FactsInv, EndsChecked
<1>8. \A g : Adders(g)' = Adders(g)
  BY <1>3, <1>4 DEF Adders
<1>9. RoomForAll'
  BY <1>1, <1>8, RowsSame DEF FactsInv, RoomForAll
<1>10. QED
  BY <1>1, <1>5, <1>6, <1>7, <1>9, RowsSame DEF FactsInv

(* A call fails, or the service rests.                                     *)
LEMMA CallFails ==
    ASSUME FactsInv, NEW r \in Request, Facts!Fail(r)
    PROVE  FactsInv'
<1>1. UNCHANGED <<rows, entities, unseen>> /\ Facts!Done(r) /\ Facts!TypeOK
  BY DEF Facts!Fail, FactsInv
<1>2. Facts!TypeOK'
  BY <1>1, CallEnds DEF Facts!TypeOK
<1>3. AddsUpright' /\ EndsChecked'
  BY <1>1, CallEnds, RowsSame DEF FactsInv, AddsUpright, EndsChecked
<1>4. \A f : Cardinality(Adders(f)') <= Cardinality(Adders(f)) /\ Cardinality(Adders(f)') \in Nat
  BY <1>1, FewerAdders
<1>5. RoomForAll'
  <2> SUFFICES ASSUME NEW f \in Fact
               PROVE Cardinality(Facts!Current(f)') + Cardinality(Adders(f)') <= Cardinality(Request)
    BY DEF RoomForAll
  <2>1. Facts!Current(f)' = Facts!Current(f)
    BY <1>1, RowsSame
  <2>2. Cardinality(Facts!Current(f)) + Cardinality(Adders(f)) <= Cardinality(Request)
    BY DEF FactsInv, RoomForAll
  <2>3. /\ Cardinality(Facts!Current(f)) \in Nat /\ Cardinality(Adders(f)) \in Nat
        /\ Cardinality(Request) \in Nat
    BY <1>1, RowFacts
  <2>4. QED BY <1>4, <2>1, <2>2, <2>3
<1>6. QED
  BY <1>1, <1>2, <1>3, <1>5, RowsSame DEF FactsInv
(* What the two writes make of the rows.                                   *)
LEMMA RowAppended ==
    ASSUME Facts!TypeOK, NEW new \in Triple
    PROVE  /\ Append(rows, new) \in Seq(Triple) /\ Len(Append(rows, new)) = Len(rows) + 1
           /\ DOMAIN Append(rows, new) = DOMAIN rows \cup {Len(rows) + 1}
           /\ Len(rows) + 1 \notin DOMAIN rows
           /\ \A i \in DOMAIN rows : Append(rows, new)[i] = rows[i]
           /\ Append(rows, new)[Len(rows) + 1] = new
<1>1. rows \in Seq(Triple)
  BY DEF Facts!TypeOK, Triple
<1>2. Len(rows) \in Nat /\ DOMAIN rows = 1..Len(rows)
  BY RowFacts
<1>3. /\ Append(rows, new) \in Seq(Triple) /\ Len(Append(rows, new)) = Len(rows) + 1
      /\ \A i \in 1..Len(rows) : Append(rows, new)[i] = rows[i]
      /\ Append(rows, new)[Len(rows) + 1] = new
  BY <1>1, AppendProperties
<1>4. DOMAIN Append(rows, new) = 1..(Len(rows) + 1)
  BY <1>3, LenProperties
<1>5. QED
  BY <1>2, <1>3, <1>4

LEMMA RowsEnded ==
    ASSUME Facts!TypeOK, NEW ids, NEW to \in Temporal
    PROVE  LET ended == Facts!Ended(ids, to) IN
           /\ ended \in Seq(Triple) /\ Len(ended) = Len(rows) /\ DOMAIN ended = DOMAIN rows
           /\ \A i \in DOMAIN rows \ ids : ended[i] = rows[i]
           /\ \A i \in DOMAIN rows \cap ids :
                 ended[i].fact = rows[i].fact /\ ended[i].from = rows[i].from /\ ended[i].to = to
<1> DEFINE e(i) == IF i \in ids THEN [rows[i] EXCEPT !.to = to] ELSE rows[i]
<1>1. Len(rows) \in Nat /\ DOMAIN rows = 1..Len(rows) /\ \A i \in 1..Len(rows) : rows[i] \in Triple
  BY RowFacts
<1>2. \A i \in 1..Len(rows) : e(i) \in Triple
  BY <1>1, TemporalFacts DEF Triple
<1>3. Facts!Ended(ids, to) = [i \in 1..Len(rows) |-> e(i)]
  BY <1>1 DEF Facts!Ended
<1>4. Facts!Ended(ids, to) \in Seq(Triple)
  BY <1>1, <1>2, <1>3
<1>5. Len(Facts!Ended(ids, to)) = Len(rows) /\ DOMAIN Facts!Ended(ids, to) = DOMAIN rows
  BY <1>1, <1>3, <1>4, LenProperties
<1>6. ASSUME NEW i \in DOMAIN rows \cap ids
      PROVE  LET t == Facts!Ended(ids, to)[i] IN
             t.fact = rows[i].fact /\ t.from = rows[i].from /\ t.to = to
  BY <1>1, <1>3, <1>6 DEF Triple
<1>7. QED
  BY <1>1, <1>3, <1>4, <1>5, <1>6

LEMMA TripleInserted ==
    ASSUME FactsInv, NEW r \in Request, Facts!InsertTriple(r)
    PROVE  FactsInv'
<1> DEFINE new == [fact |-> call[r].fact, from |-> call[r].from, to |-> call[r].to]
           n == Len(rows) + 1
<1>1. /\ Facts!Doing(r, "add") /\ Facts!Done(r) /\ rows' = Append(rows, new)
      /\ Len(rows) < MaxRows /\ UNCHANGED <<entities, unseen>> /\ Facts!TypeOK
  BY DEF Facts!InsertTriple, FactsInv
<1>2. /\ call[r].fact \in Fact /\ call[r].from \in Facts!Bounds /\ call[r].to \in Facts!Bounds
  BY <1>1, CallFacts
<1>3. new \in Triple
  BY <1>2 DEF Triple
<1>4. /\ rows' \in Seq(Triple) /\ Len(rows') = n /\ DOMAIN rows' = DOMAIN rows \cup {n}
      /\ n \notin DOMAIN rows /\ \A i \in DOMAIN rows : rows'[i] = rows[i]
      /\ rows'[n] = new
  BY <1>1, <1>3, RowAppended
<1>5. new.fact = call[r].fact /\ new.from = call[r].from /\ new.to = call[r].to
  OBVIOUS
<1>6. ~ Facts!Inverted(new.from, new.to) /\ Endpoints[new.fact] \subseteq entities
  BY <1>1, <1>5 DEF FactsInv, AddsUpright
<1> HIDE DEF new
<1>7. Facts!TypeOK'
  <2>1. Len(rows') <= MaxRows
    BY <1>1, <1>4, RowFacts, FactsAssumption DEF Facts!Assumptions
  <2>2. \A i \in DOMAIN rows' : Endpoints[rows'[i].fact] \subseteq entities
    BY <1>1, <1>4, <1>6 DEF Facts!TypeOK
  <2>3. unseen \subseteq DOMAIN rows'
    BY <1>1, <1>4 DEF Facts!TypeOK
  <2>4. call' \in [Request -> {Facts!Idle} \cup Facts!Writing]
    BY <1>1, CallEnds
  <2>5. QED BY <1>1, <1>4, <2>1, <2>2, <2>3, <2>4 DEF Facts!TypeOK, Triple
<1>8. Facts!UprightUnlessUnseen'
  BY <1>1, <1>4, <1>6 DEF FactsInv, Facts!UprightUnlessUnseen
<1>9. \A g : Facts!Current(g)' = Facts!Current(g)
                 \cup (IF new.to = Facts!Open /\ new.fact = g THEN {n} ELSE {})
  BY <1>4 DEF Facts!Current
<1>10. AddsUpright'
  BY <1>1, CallEnds DEF FactsInv, AddsUpright
<1>11. EndsChecked'
  <2> SUFFICES ASSUME NEW q \in Request, Facts!Doing(q, "end")'
               PROVE /\ call'[q].seen <= Len(rows')
                     /\ (\A i \in Facts!Current(call[q].fact) :
                           i <= call[q].seen => ~ Facts!Inverted(rows[i].from, call[q].to))'
    BY DEF EndsChecked
  <2>1. Facts!Doing(q, "end") /\ call'[q] = call[q]
    BY <1>1, CallEnds
  <2>2. /\ call[q].seen <= Len(rows) /\ call[q].seen \in Nat /\ Len(rows) \in Nat
        /\ \A i \in Facts!Current(call[q].fact) :
              i <= call[q].seen => ~ Facts!Inverted(rows[i].from, call[q].to)
    BY <1>1, <2>1, CallFacts, RowFacts DEF FactsInv, EndsChecked
  <2>3. \A i \in Facts!Current(call[q].fact) : rows'[i] = rows[i]
    BY <1>4 DEF Facts!Current
  <2>4. QED
    BY <1>4, <1>9, <2>1, <2>2, <2>3
<1>12. ASSUME NEW g \in Fact
       PROVE  Cardinality(Facts!Current(g)') + Cardinality(Adders(g)') <= Cardinality(Request)
  <2>1. Cardinality(Facts!Current(g)) + Cardinality(Adders(g)) <= Cardinality(Request)
    BY DEF FactsInv, RoomForAll
  <2>2. /\ Cardinality(Facts!Current(g)) \in Nat /\ Cardinality(Adders(g)) \in Nat
        /\ Cardinality(Request) \in Nat /\ IsFiniteSet(Facts!Current(g)) /\ IsFiniteSet(Adders(g))
    BY <1>1, RowFacts
  <2>3. CASE new.to = Facts!Open /\ new.fact = g
    <3>1. Cardinality(Facts!Current(g)') = Cardinality(Facts!Current(g)) + 1
      <4>1. Facts!Current(g)' = Facts!Current(g) \cup {n} /\ n \notin Facts!Current(g)
        BY <1>4, <1>9, <2>3 DEF Facts!Current
      <4>2. QED BY <2>2, <4>1, FS_AddElement
    <3>2. Cardinality(Adders(g)') = Cardinality(Adders(g)) - 1
      <4>1. Adders(g)' = Adders(g) \ {r}
        BY <1>1, CallEnds
      <4>2. r \in Adders(g)
        BY <1>1, <1>5, <2>3 DEF Adders
      <4>3. QED BY <2>2, <4>1, <4>2, FS_RemoveElement
    <3>3. QED BY <2>1, <2>2, <3>1, <3>2
  <2>4. CASE ~ (new.to = Facts!Open /\ new.fact = g)
    <3>1. Facts!Current(g)' = Facts!Current(g)
      BY <1>9, <2>4
    <3>2. Cardinality(Adders(g)') <= Cardinality(Adders(g)) /\ Cardinality(Adders(g)') \in Nat
      BY <1>1, FewerAdders
    <3>3. QED BY <2>1, <2>2, <3>1, <3>2
  <2>5. QED BY <2>3, <2>4
<1>13. QED
  BY <1>7, <1>8, <1>10, <1>11, <1>12 DEF FactsInv, RoomForAll

LEMMA TriplesEnded ==
    ASSUME FactsInv, NEW r \in Request, Facts!EndTriples(r)
    PROVE  FactsInv'
<1> DEFINE ids == Facts!Current(call[r].fact)
           to == call[r].to
<1>1. /\ Facts!Doing(r, "end") /\ Facts!Done(r) /\ rows' = Facts!Ended(ids, to)
      /\ unseen' = unseen \cup {i \in ids : i > call[r].seen}
      /\ UNCHANGED entities /\ Facts!TypeOK
  BY DEF Facts!EndTriples, FactsInv
<1>2. to \in Temporal /\ to # Facts!Open /\ call[r].seen \in Nat
  BY <1>1, CallFacts, TemporalFacts
<1>3. /\ rows' \in Seq(Triple) /\ Len(rows') = Len(rows) /\ DOMAIN rows' = DOMAIN rows
      /\ \A i \in DOMAIN rows \ ids : rows'[i] = rows[i]
      /\ \A i \in DOMAIN rows \cap ids :
            rows'[i].fact = rows[i].fact /\ rows'[i].from = rows[i].from /\ rows'[i].to = to
  BY <1>1, <1>2, RowsEnded
<1>4. ids \subseteq DOMAIN rows /\ DOMAIN rows \subseteq Nat
  BY <1>1, RowFacts DEF Facts!Current
<1>5. \A i \in ids : i <= call[r].seen => ~ Facts!Inverted(rows[i].from, to)
  BY <1>1 DEF FactsInv, EndsChecked
<1> HIDE DEF ids, to
<1>6. \A g : Facts!Current(g)' \subseteq Facts!Current(g)
             /\ \A i \in Facts!Current(g)' : rows'[i] = rows[i]
  BY <1>2, <1>3 DEF Facts!Current
<1>7. Facts!TypeOK'
  <2>1. \A i \in DOMAIN rows' : Endpoints[rows'[i].fact] \subseteq entities
    BY <1>1, <1>3 DEF Facts!TypeOK
  <2>2. unseen' \subseteq DOMAIN rows'
    BY <1>1, <1>3, <1>4 DEF Facts!TypeOK
  <2>3. call' \in [Request -> {Facts!Idle} \cup Facts!Writing]
    BY <1>1, CallEnds
  <2>4. QED BY <1>1, <1>3, <2>1, <2>2, <2>3 DEF Facts!TypeOK, Triple
<1>8. Facts!UprightUnlessUnseen'
  <2> SUFFICES ASSUME NEW i \in DOMAIN rows', Facts!Inverted(rows'[i].from, rows'[i].to)
               PROVE i \in unseen'
    BY DEF Facts!UprightUnlessUnseen
  <2>1. CASE i \in ids
    <3>1. Facts!Inverted(rows[i].from, to)
      BY <1>3, <1>4, <2>1
    <3>2. ~ (i <= call[r].seen)
      BY <1>5, <2>1, <3>1
    <3>3. i > call[r].seen
      BY <1>2, <1>4, <2>1, <3>2
    <3>4. QED BY <1>1, <2>1, <3>3
  <2>2. CASE i \notin ids
    <3>1. i \in DOMAIN rows /\ rows'[i] = rows[i]
      BY <1>3, <2>2
    <3>2. QED BY <1>1, <3>1 DEF FactsInv, Facts!UprightUnlessUnseen
  <2>3. QED BY <2>1, <2>2
<1>9. AddsUpright'
  BY <1>1, CallEnds DEF FactsInv, AddsUpright
<1>10. EndsChecked'
  BY <1>1, <1>3, <1>6, CallEnds DEF FactsInv, EndsChecked
<1>11. ASSUME NEW g \in Fact
       PROVE  Cardinality(Facts!Current(g)') + Cardinality(Adders(g)') <= Cardinality(Request)
  <2>1. Cardinality(Facts!Current(g)) + Cardinality(Adders(g)) <= Cardinality(Request)
    BY DEF FactsInv, RoomForAll
  <2>2. /\ Cardinality(Facts!Current(g)) \in Nat /\ Cardinality(Adders(g)) \in Nat
        /\ Cardinality(Request) \in Nat /\ IsFiniteSet(Facts!Current(g))
    BY <1>1, RowFacts
  <2>3. /\ Cardinality(Facts!Current(g)') <= Cardinality(Facts!Current(g))
        /\ Cardinality(Facts!Current(g)') \in Nat
    BY <1>6, <2>2, FS_Subset, FS_CardinalityType
  <2>4. Cardinality(Adders(g)') <= Cardinality(Adders(g)) /\ Cardinality(Adders(g)') \in Nat
    BY <1>1, FewerAdders
  <2>5. QED BY <2>1, <2>2, <2>3, <2>4
<1>12. QED
  BY <1>7, <1>8, <1>9, <1>10, <1>11 DEF FactsInv, RoomForAll

LEMMA FactsStep == FactsInv /\ [Facts!Next]_graph => FactsInv'
<1> SUFFICES ASSUME FactsInv, [Facts!Next]_graph PROVE FactsInv'
  OBVIOUS
<1>1. CASE UNCHANGED graph
  <2>1. UNCHANGED <<rows, entities, call, unseen>>
    BY <1>1 DEF graph
  <2>2. Facts!TypeOK' /\ AddsUpright' /\ EndsChecked' /\ RoomForAll'
    BY <2>1, RowsSame
       DEF FactsInv, Facts!TypeOK, AddsUpright, EndsChecked, RoomForAll, Facts!Doing, Adders
  <2>3. QED BY <2>1, <2>2, RowsSame DEF FactsInv
<1>2. CASE Facts!Next
  BY <1>2, AddBegins, EndBegins, TripleInserted, TriplesEnded, CallFails DEF Facts!Next
<1>3. QED
  BY <1>1, <1>2

(* The triples of each fact fit among the calls.                           *)
LEMMA DuplicatesFit == FactsInv => Facts!BoundedDuplicates
<1> SUFFICES ASSUME FactsInv, NEW f \in Fact
             PROVE Facts!Cardinality(Facts!Current(f)) <= Facts!Cardinality(Request)
  BY DEF Facts!BoundedDuplicates
<1>1. Facts!Cardinality(Facts!Current(f)) = Cardinality(Facts!Current(f))
  BY DEF Facts!Cardinality, Cardinality
<1>2. Facts!Cardinality(Request) = Cardinality(Request)
  BY DEF Facts!Cardinality, Cardinality
<1>3. /\ Cardinality(Facts!Current(f)) \in Nat /\ Cardinality(Adders(f)) \in Nat
      /\ Cardinality(Request) \in Nat
  BY RowFacts DEF FactsInv
<1>4. Cardinality(Facts!Current(f)) + Cardinality(Adders(f)) <= Cardinality(Request)
  BY DEF FactsInv, RoomForAll
<1>5. QED
  BY <1>1, <1>2, <1>3, <1>4

(* What a step does to a triple that is there.                             *)
StandsInHistory == \A i \in DOMAIN rows :
    /\ i \in DOMAIN rows'
    /\ rows[i].to # Facts!Open => rows'[i] = rows[i]
    /\ \A t \in Facts!Moments :
         Facts!InEffectAt(rows[i], t) /\ ~ Facts!InEffectAt(rows'[i], t) =>
           \E r \in Request : Facts!Doing(r, "end") /\ call[r].to.end < t

LEMMA HistoryStep == FactsInv /\ Facts!Next => StandsInHistory
<1> SUFFICES ASSUME FactsInv, Facts!Next PROVE StandsInHistory
  OBVIOUS
<1>0. Facts!TypeOK
  BY DEF FactsInv
<1>1. CASE rows' = rows
  BY <1>1 DEF StandsInHistory
<1>2. ASSUME NEW r \in Request, Facts!InsertTriple(r) PROVE StandsInHistory
  <2> DEFINE new == [fact |-> call[r].fact, from |-> call[r].from, to |-> call[r].to]
  <2>1. rows' = Append(rows, new) /\ Facts!Doing(r, "add")
    BY <1>2 DEF Facts!InsertTriple
  <2>2. new \in Triple
    BY <1>0, <2>1, CallFacts DEF Triple
  <2>3. DOMAIN rows \subseteq DOMAIN rows' /\ \A i \in DOMAIN rows : rows'[i] = rows[i]
    BY <1>0, <2>1, <2>2, RowAppended
  <2>4. QED BY <2>3 DEF StandsInHistory
<1>3. ASSUME NEW r \in Request, Facts!EndTriples(r) PROVE StandsInHistory
  <2> DEFINE ids == Facts!Current(call[r].fact)
             to == call[r].to
  <2>1. Facts!Doing(r, "end") /\ rows' = Facts!Ended(ids, to)
    BY <1>3 DEF Facts!EndTriples
  <2>2. to \in Temporal
    BY <1>0, <2>1, CallFacts
  <2>3. /\ DOMAIN rows' = DOMAIN rows /\ \A i \in DOMAIN rows \ ids : rows'[i] = rows[i]
        /\ \A i \in DOMAIN rows \cap ids : rows'[i].from = rows[i].from /\ rows'[i].to = to
    BY <1>0, <2>1, <2>2, RowsEnded
  <2>4. \A i \in ids : rows[i].to = Facts!Open
    BY DEF Facts!Current
  <2>5. ASSUME NEW i \in DOMAIN rows \cap ids, NEW t \in Facts!Moments,
               Facts!InEffectAt(rows[i], t), ~ Facts!InEffectAt(rows'[i], t)
        PROVE  call[r].to.end < t
    <3>1. ~ (t <= to.end)
      BY <2>3, <2>5 DEF Facts!InEffectAt
    <3>2. t \in Nat /\ to.end \in Nat
      BY <2>2, TemporalFacts DEF Facts!Moments
    <3>3. QED BY <3>1, <3>2
  <2>6. QED
    BY <2>1, <2>3, <2>4, <2>5 DEF StandsInHistory
<1>4. QED
  BY <1>1, <1>2, <1>3 DEF Facts!Next, Facts!BeginAdd, Facts!BeginInvalidate, Facts!Fail
-----------------------------------------------------------------------------
(* Sharing.  Whoever copies for a request, or undoes its claim, is the     *)
(* only one to do so, and the request is accepted and has been consented   *)
(* to; a request about to be filed has no row and one who files it; and    *)
(* the pages behind a copier hold what was searchable when it claimed.     *)
ShareTypes ==
    /\ status \in [ShareRequest -> {"none", "pending", "accepted", "declined"}]
    /\ indexed \subseteq DOMAIN PageOf /\ copied \subseteq DOMAIN PageOf
    /\ actor \in [Actor -> {Sharing!Idle} \cup Sharing!Serving]
    /\ consent \subseteq ShareRequest
    /\ shareFaults \in 0..MaxShareFaults
Copying(a) == Sharing!At(a, "copy") \/ Sharing!At(a, "graph") \/ Sharing!At(a, "reopen")
Handling(a) ==
    /\ Sharing!At(a, "create") => status[actor[a].req] = "none"
    /\ Copying(a) => status[actor[a].req] = "accepted" /\ actor[a].req \in consent
    /\ Sharing!At(a, "copy") =>
          /\ actor[a].due \subseteq indexed
          /\ \A d \in actor[a].due : PageOf[d] < actor[a].page => d \in copied
    /\ Sharing!At(a, "graph") => actor[a].due \subseteq copied
Apart(a, b) == a # b =>
    /\ Sharing!At(a, "create") /\ Sharing!At(b, "create") => actor[a].req # actor[b].req
    /\ Copying(a) /\ Copying(b) => actor[a].req # actor[b].req
OneOpen == \A p, q \in Sharing!Pending : p = q
SharingInv == /\ ShareTypes /\ OneOpen
              /\ \A a \in Actor : Handling(a) /\ \A b \in Actor : Apart(a, b)

LEMMA ServingFacts ==
    ASSUME ShareTypes, NEW a \in Actor, NEW s, Sharing!At(a, s)
    PROVE  /\ actor[a] \in Sharing!Serving /\ actor[a].req \in ShareRequest
           /\ actor[a].verdict \in {"accepted", "declined"}
           /\ actor[a].page \in 1..Pages /\ actor[a].due \subseteq DOMAIN PageOf
           /\ actor[a].step = s
BY DEF ShareTypes, Sharing!At, Sharing!Serving

LEMMA SharingInit == Sharing!Init => SharingInv
<1> SUFFICES ASSUME Sharing!Init PROVE SharingInv
  OBVIOUS
<1> USE DEF Sharing!Init
<1>1. ShareTypes
  BY SharingAssumption DEF ShareTypes, Sharing!Assumptions
<1>2. \A a \in Actor : \A s : ~ Sharing!At(a, s)
  BY DEF Sharing!At
<1>3. Sharing!Pending = {}
  BY DEF Sharing!Pending
<1>4. QED
  BY <1>1, <1>2, <1>3 DEF SharingInv, OneOpen, Handling, Apart, Copying

LEMMA SharingTypes == SharingInv => Sharing!TypeOK
<1> SUFFICES ASSUME SharingInv PROVE Sharing!TypeOK
  OBVIOUS
<1>1. Cardinality(Sharing!Pending) <= 1
  <2>1. CASE Sharing!Pending = {}
    BY <2>1, FS_EmptySet
  <2>2. ASSUME NEW p \in Sharing!Pending PROVE Cardinality(Sharing!Pending) <= 1
    <3>1. Sharing!Pending = {p}
      BY DEF SharingInv, OneOpen
    <3>2. Cardinality({p}) = 1
      BY FS_Singleton
    <3>3. QED BY <3>1, <3>2
  <2>3. QED BY <2>1, <2>2
<1>2. Sharing!Cardinality(Sharing!Pending) = Cardinality(Sharing!Pending)
  BY DEF Sharing!Cardinality, Cardinality
<1>3. QED
  BY <1>1, <1>2 DEF Sharing!TypeOK, SharingInv, ShareTypes

(* Only an accepted request is copied for, by one.                         *)
LEMMA OneCopies == SharingInv => Sharing!CopyOnlyWhileAccepted
BY DEF SharingInv, Sharing!CopyOnlyWhileAccepted, Sharing!Resolving, Handling, Apart, Copying

(* One actor goes on to e, the others stay.                                *)
LEMMA ActorBecomes ==
    ASSUME ShareTypes, NEW a \in Actor, NEW e \in {Sharing!Idle} \cup Sharing!Serving,
           actor' = [actor EXCEPT ![a] = e]
    PROVE  /\ actor' \in [Actor -> {Sharing!Idle} \cup Sharing!Serving]
           /\ actor'[a] = e
           /\ \A b \in Actor \ {a} : actor'[b] = actor[b]
           /\ \A b \in Actor \ {a} : \A s : Sharing!At(b, s)' <=> Sharing!At(b, s)
           /\ \A b \in Actor \ {a} : Copying(b)' <=> Copying(b)
<1>1. /\ actor' \in [Actor -> {Sharing!Idle} \cup Sharing!Serving]
      /\ actor'[a] = e /\ \A b \in Actor \ {a} : actor'[b] = actor[b]
  BY DEF ShareTypes
<1>2. \A b \in Actor \ {a} : \A s : Sharing!At(b, s)' <=> Sharing!At(b, s)
  BY <1>1 DEF Sharing!At
<1>3. QED
  BY <1>1, <1>2 DEF Copying

(* The steps preserve what the others are about as long as the request a   *)
(* step changes is none of theirs.                                         *)
LEMMA OthersHandle ==
    ASSUME SharingInv, ShareTypes', NEW a \in Actor, NEW b \in Actor \ {a},
           actor'[b] = actor[b], \A s : Sharing!At(b, s)' <=> Sharing!At(b, s),
           indexed \subseteq indexed', copied \subseteq copied', consent \subseteq consent',
           Sharing!At(b, "create") \/ Copying(b) =>
              status'[actor[b].req] = status[actor[b].req]
    PROVE  Handling(b)'
<1>1. Handling(b)
  BY DEF SharingInv
<1>2. Copying(b)' <=> Copying(b)
  BY DEF Copying
<1>3. (Sharing!At(b, "create") => status[actor[b].req] = "none")'
  BY <1>1 DEF Handling
<1>4. (Copying(b) => status[actor[b].req] = "accepted" /\ actor[b].req \in consent)'
  BY <1>1, <1>2 DEF Handling
<1>5. (Sharing!At(b, "copy") =>
          /\ actor[b].due \subseteq indexed
          /\ \A d \in actor[b].due : PageOf[d] < actor[b].page => d \in copied)'
  BY <1>1 DEF Handling
<1>6. (Sharing!At(b, "graph") => actor[b].due \subseteq copied)'
  BY <1>1 DEF Handling
<1>7. QED
  BY <1>3, <1>4, <1>5, <1>6 DEF Handling

(* An actor that goes on with the request it has is apart from the others; *)
(* so is one that has returned.                                            *)
LEMMA StayApart ==
    ASSUME SharingInv, NEW a \in Actor, NEW e \in {Sharing!Idle} \cup Sharing!Serving,
           actor' = [actor EXCEPT ![a] = e],
           Sharing!At(a, "create")' => \A b \in Actor \ {a} :
                                          Sharing!At(b, "create") => actor[b].req # e.req,
           Copying(a)' => \A b \in Actor \ {a} : Copying(b) => actor[b].req # e.req
    PROVE  \A b, c \in Actor : Apart(b, c)'
<1> SUFFICES ASSUME NEW b \in Actor, NEW c \in Actor, b # c PROVE Apart(b, c)'
  BY DEF Apart
<1>1. /\ actor'[a] = e
      /\ \A d \in Actor \ {a} : actor'[d] = actor[d]
      /\ \A d \in Actor \ {a} : \A s : Sharing!At(d, s)' <=> Sharing!At(d, s)
      /\ \A d \in Actor \ {a} : Copying(d)' <=> Copying(d)
  BY ActorBecomes DEF SharingInv
<1>2. CASE b = a
  BY <1>1, <1>2 DEF Apart
<1>3. CASE c = a
  BY <1>1, <1>3 DEF Apart
<1>4. CASE b # a /\ c # a
  <2>1. Apart(b, c)
    BY DEF SharingInv
  <2>2. QED BY <1>1, <1>4, <2>1 DEF Apart
<1>5. QED
  BY <1>2, <1>3, <1>4

LEMMA Returned ==
    ASSUME ShareTypes, NEW a \in Actor, Sharing!Return(a)
    PROVE  /\ actor' = [actor EXCEPT ![a] = Sharing!Idle]
           /\ \A s : ~ Sharing!At(a, s)' /\ ~ Copying(a)'
           /\ actor' \in [Actor -> {Sharing!Idle} \cup Sharing!Serving]
<1>1. actor' = [actor EXCEPT ![a] = Sharing!Idle]
  BY DEF Sharing!Return
<1>2. actor'[a] = Sharing!Idle /\ actor' \in [Actor -> {Sharing!Idle} \cup Sharing!Serving]
  BY <1>1, ActorBecomes
<1>3. QED
  BY <1>1, <1>2 DEF Sharing!At, Copying

(* An actor returns; if a request changed its status, nobody else is about *)
(* it, and no second one is open.                                          *)
LEMMA Returns ==
    ASSUME SharingInv, NEW a \in Actor, Sharing!Return(a), ShareTypes', OneOpen',
           UNCHANGED <<indexed, copied>>, consent \subseteq consent',
           \A b \in Actor \ {a} : Sharing!At(b, "create") \/ Copying(b) =>
              status'[actor[b].req] = status[actor[b].req]
    PROVE  SharingInv'
<1>0. ShareTypes
  BY DEF SharingInv
<1>1. /\ actor' = [actor EXCEPT ![a] = Sharing!Idle]
      /\ \A s : ~ Sharing!At(a, s)' /\ ~ Copying(a)'
  BY <1>0, Returned
<1>2. /\ \A b \in Actor \ {a} : actor'[b] = actor[b]
      /\ \A b \in Actor \ {a} : \A s : Sharing!At(b, s)' <=> Sharing!At(b, s)
  BY <1>0, <1>1, ActorBecomes
<1>3. Handling(a)'
  BY <1>1 DEF Handling
<1>4. ASSUME NEW b \in Actor \ {a} PROVE Handling(b)'
  BY <1>2, OthersHandle
<1>5. \A b, c \in Actor : Apart(b, c)'
  BY <1>1, StayApart
<1>6. QED
  BY <1>3, <1>4, <1>5 DEF SharingInv

LEMMA ServedRecord ==
    ASSUME ShareTypes, NEW s \in {"create", "claim", "copy", "graph", "reopen"},
           NEW r \in ShareRequest, NEW v \in {"accepted", "declined"}
    PROVE  [step |-> s, req |-> r, verdict |-> v, page |-> 1, due |-> indexed] \in Sharing!Serving
<1>1. 1 \in 1..Pages
  BY SharingAssumption DEF Sharing!Assumptions
<1>2. QED
  BY <1>1 DEF ShareTypes, Sharing!Serving
LEMMA RequestBegins ==
    ASSUME SharingInv, NEW a \in Actor, NEW r \in ShareRequest,
           \/ Sharing!BeginRequest(a, r)
           \/ \E v \in {"accepted", "declined"} : Sharing!BeginResolve(a, r, v)
    PROVE  SharingInv'
<1>0. ShareTypes
  BY DEF SharingInv
<1>1. UNCHANGED <<status, indexed, copied, consent, shareFaults>>
  BY DEF Sharing!BeginRequest, Sharing!BeginResolve
<1>2. PICK s \in {"create", "claim"}, v \in {"accepted", "declined"} :
        /\ Sharing!Serve(a, s, r, v)
        /\ s = "create" => status[r] = "none" /\ \A b \in Actor : Sharing!At(b, "create") => actor[b].req # r
  BY DEF Sharing!BeginRequest, Sharing!BeginResolve
<1> DEFINE e == [step |-> s, req |-> r, verdict |-> v, page |-> 1, due |-> indexed]
<1>3. e \in Sharing!Serving /\ e.step = s /\ e.req = r /\ e # Sharing!Idle
  BY <1>0, ServedRecord DEF Sharing!Idle
<1>4. actor' = [actor EXCEPT ![a] = e]
  BY <1>2 DEF Sharing!Serve
<1> HIDE DEF e
<1>5. /\ actor' \in [Actor -> {Sharing!Idle} \cup Sharing!Serving] /\ actor'[a] = e
      /\ \A b \in Actor \ {a} : actor'[b] = actor[b]
      /\ \A b \in Actor \ {a} : \A t : Sharing!At(b, t)' <=> Sharing!At(b, t)
  BY <1>0, <1>3, <1>4, ActorBecomes
<1>6. ShareTypes'
  BY <1>0, <1>1, <1>5 DEF ShareTypes
<1>7. \A t : Sharing!At(a, t)' => t = s
  BY <1>3, <1>5 DEF Sharing!At
<1>8. Handling(a)' /\ ~ Copying(a)'
  BY <1>1, <1>2, <1>3, <1>5, <1>7 DEF Handling, Copying
<1>9. \A b \in Actor \ {a} : Handling(b)'
  BY <1>1, <1>5, <1>6, OthersHandle
<1>10. \A b, c \in Actor : Apart(b, c)'
  <2>1. Sharing!At(a, "create")' => \A b \in Actor \ {a} : Sharing!At(b, "create") => actor[b].req # e.req
    BY <1>2, <1>3, <1>7
  <2>2. QED BY <1>3, <1>4, <1>8, <2>1, StayApart
<1>11. OneOpen'
  BY <1>1 DEF SharingInv, OneOpen, Sharing!Pending
<1>12. QED
  BY <1>6, <1>8, <1>9, <1>10, <1>11 DEF SharingInv

LEMMA SourceIndexed ==
    ASSUME SharingInv, NEW d \in DOMAIN PageOf, Sharing!Index(d)
    PROVE  SharingInv'
<1> USE DEF Sharing!Index
<1>1. /\ UNCHANGED <<status, copied, actor, consent, shareFaults>>
      /\ indexed \subseteq indexed' /\ indexed' \subseteq DOMAIN PageOf
  BY DEF SharingInv, ShareTypes
<1>2. ShareTypes' /\ OneOpen'
  BY <1>1 DEF SharingInv, ShareTypes, OneOpen, Sharing!Pending
<1>3. \A a \in Actor : Handling(a)' /\ \A b \in Actor : Apart(a, b)'
  BY <1>1 DEF SharingInv, Handling, Apart, Copying, Sharing!At
<1>4. QED
  BY <1>2, <1>3 DEF SharingInv

LEMMA RequestFiled ==
    ASSUME SharingInv, NEW a \in Actor, Sharing!Create(a)
    PROVE  SharingInv'
<1> DEFINE r == actor[a].req
<1>1. /\ ShareTypes /\ Sharing!At(a, "create") /\ Sharing!Return(a)
      /\ UNCHANGED <<indexed, copied, consent, shareFaults>>
      /\ status' = IF Sharing!Pending = {} THEN [status EXCEPT ![r] = "pending"] ELSE status
  BY DEF SharingInv, Sharing!Create
<1>2. r \in ShareRequest /\ status[r] = "none"
  BY <1>1, ServingFacts DEF SharingInv, Handling
<1>3. ShareTypes'
  BY <1>1, <1>2, Returned DEF ShareTypes
<1>4. OneOpen'
  BY <1>1, <1>2 DEF ShareTypes, SharingInv, OneOpen, Sharing!Pending
<1>5. ASSUME NEW b \in Actor \ {a}, Sharing!At(b, "create") \/ Copying(b)
      PROVE  status'[actor[b].req] = status[actor[b].req]
  <2>1. actor[b].req # r /\ actor[b].req \in ShareRequest
    BY <1>1, <1>2, <1>5, ServingFacts DEF SharingInv, Handling, Apart, Copying
  <2>2. QED BY <1>1, <2>1 DEF ShareTypes
<1>6. QED
  BY <1>1, <1>3, <1>4, <1>5, Returns

LEMMA RequestClaimed ==
    ASSUME SharingInv, NEW a \in Actor, Sharing!Claim(a)
    PROVE  SharingInv'
<1> DEFINE r == actor[a].req
           v == actor[a].verdict
           won == r \in Sharing!Pending
<1>1. /\ ShareTypes /\ Sharing!At(a, "claim")
      /\ UNCHANGED <<indexed, copied, shareFaults>>
      /\ status' = IF won THEN [status EXCEPT ![r] = v] ELSE status
      /\ consent' = IF won /\ v = "accepted" THEN consent \cup {r} ELSE consent
      /\ IF won /\ v = "accepted" THEN Sharing!Serve(a, "copy", r, v) ELSE Sharing!Return(a)
  BY DEF SharingInv, Sharing!Claim
<1>2. r \in ShareRequest /\ v \in {"accepted", "declined"}
  BY <1>1, ServingFacts
<1>3. /\ status' \in [ShareRequest -> {"none", "pending", "accepted", "declined"}]
      /\ consent \subseteq consent' /\ consent' \subseteq ShareRequest
  BY <1>1, <1>2 DEF ShareTypes
<1>4. OneOpen'
  <2>1. Sharing!Pending' \subseteq Sharing!Pending
    BY <1>1, <1>2 DEF ShareTypes, Sharing!Pending
  <2>2. QED BY <2>1 DEF SharingInv, OneOpen
<1>5. ASSUME NEW b \in Actor \ {a}, Sharing!At(b, "create") \/ Copying(b)
      PROVE  /\ status'[actor[b].req] = status[actor[b].req]
             /\ won => actor[b].req # r
  <2>1. actor[b].req \in ShareRequest /\ status[actor[b].req] # "pending"
    BY <1>1, <1>5, ServingFacts DEF SharingInv, Handling, Copying
  <2>2. QED BY <1>1, <2>1 DEF ShareTypes, Sharing!Pending
<1>6. CASE ~ (won /\ v = "accepted")
  <2>1. Sharing!Return(a) /\ consent' = consent
    BY <1>1, <1>6
  <2>2. ShareTypes'
    BY <1>1, <1>3, <2>1, Returned DEF ShareTypes
  <2>3. QED BY <1>1, <1>3, <1>4, <1>5, <2>1, <2>2, Returns
<1>7. CASE won /\ v = "accepted"
  <2> DEFINE e == [step |-> "copy", req |-> r, verdict |-> v, page |-> 1, due |-> indexed]
  <2>1. e \in Sharing!Serving /\ actor' = [actor EXCEPT ![a] = e]
    BY <1>1, <1>2, <1>7, ServedRecord DEF Sharing!Serve
  <2>2. e.step = "copy" /\ e.req = r /\ e.page = 1 /\ e.due = indexed
    OBVIOUS
  <2> HIDE DEF e
  <2>3. /\ actor' \in [Actor -> {Sharing!Idle} \cup Sharing!Serving] /\ actor'[a] = e
        /\ \A b \in Actor \ {a} : actor'[b] = actor[b]
        /\ \A b \in Actor \ {a} : \A t : Sharing!At(b, t)' <=> Sharing!At(b, t)
    BY <1>1, <2>1, ActorBecomes
  <2>4. ShareTypes'
    BY <1>1, <1>3, <2>3 DEF ShareTypes
  <2>5. \A t : Sharing!At(a, t)' => t = "copy"
    BY <2>2, <2>3 DEF Sharing!At
  <2>6. status'[r] = "accepted" /\ r \in consent' /\ indexed' = indexed
    BY <1>1, <1>2, <1>7 DEF ShareTypes
  <2>7. \A d \in indexed : ~ (PageOf[d] < 1)
    BY <1>1, SharingAssumption DEF ShareTypes, Sharing!Assumptions
  <2>8. Handling(a)'
    BY <2>2, <2>3, <2>5, <2>6, <2>7 DEF Handling
  <2>9. \A b \in Actor \ {a} : Handling(b)'
    BY <1>1, <1>3, <1>5, <2>3, <2>4, OthersHandle
  <2>10. \A b, c \in Actor : Apart(b, c)'
    BY <1>5, <1>7, <2>1, <2>2, <2>5, StayApart
  <2>11. QED BY <1>4, <2>4, <2>8, <2>9, <2>10 DEF SharingInv
<1>8. QED
  BY <1>6, <1>7

(* A copier goes on with its request.                                      *)
LEMMA CopierMoves ==
    ASSUME SharingInv, NEW a \in Actor, Copying(a), NEW e \in Sharing!Serving,
           actor' = [actor EXCEPT ![a] = e], e.step \in {"copy", "graph", "reopen"},
           e.req = actor[a].req, UNCHANGED <<status, indexed, consent>>,
           copied \subseteq copied', copied' \subseteq DOMAIN PageOf,
           shareFaults' \in 0..MaxShareFaults,
           e.step = "copy" => /\ e.due \subseteq indexed
                              /\ \A d \in e.due : PageOf[d] < e.page => d \in copied',
           e.step = "graph" => e.due \subseteq copied'
    PROVE  SharingInv'
<1>0. ShareTypes /\ Handling(a)
  BY DEF SharingInv
<1>1. /\ actor' \in [Actor -> {Sharing!Idle} \cup Sharing!Serving] /\ actor'[a] = e
      /\ \A b \in Actor \ {a} : actor'[b] = actor[b]
      /\ \A b \in Actor \ {a} : \A t : Sharing!At(b, t)' <=> Sharing!At(b, t)
  BY <1>0, ActorBecomes
<1>2. ShareTypes'
  BY <1>0, <1>1 DEF ShareTypes
<1>3. \A t : Sharing!At(a, t)' => t = e.step
  BY <1>1 DEF Sharing!At
<1>4. Handling(a)'
  BY <1>0, <1>1, <1>3 DEF Handling
<1>5. \A b \in Actor \ {a} : Handling(b)'
  BY <1>1, <1>2, OthersHandle
<1>6. \A b, c \in Actor : Apart(b, c)'
  <2>1. \A b \in Actor \ {a} : Copying(b) => actor[b].req # e.req
    BY DEF SharingInv, Apart
  <2>2. QED BY <1>3, <2>1, StayApart
<1>7. OneOpen'
  BY DEF SharingInv, OneOpen, Sharing!Pending
<1>8. QED
  BY <1>2, <1>4, <1>5, <1>6, <1>7 DEF SharingInv
LEMMA PageCopied ==
    ASSUME SharingInv, NEW a \in Actor, Sharing!CopyPage(a)
    PROVE  SharingInv'
<1>1. /\ ShareTypes /\ Sharing!At(a, "copy") /\ Sharing!NextPage(a) /\ Copying(a)
      /\ copied' = copied \cup (Sharing!Page(a) \cap indexed)
      /\ UNCHANGED <<status, indexed, consent, shareFaults>>
  BY DEF SharingInv, Sharing!CopyPage, Copying
<1>2. /\ actor[a] \in Sharing!Serving /\ actor[a].page \in 1..Pages /\ actor[a].step = "copy"
      /\ actor[a].due \subseteq DOMAIN PageOf
  BY <1>1, ServingFacts
<1>3. /\ actor[a].due \subseteq indexed
      /\ \A d \in actor[a].due : PageOf[d] < actor[a].page => d \in copied
  BY <1>1 DEF SharingInv, Handling
<1>4. Pages \in Nat \ {0} /\ \A d \in DOMAIN PageOf : PageOf[d] \in 1..Pages
  BY SharingAssumption DEF Sharing!Assumptions
<1>5. /\ copied \subseteq copied' /\ copied' \subseteq DOMAIN PageOf
      /\ shareFaults' \in 0..MaxShareFaults
  BY <1>1 DEF ShareTypes, Sharing!Page
<1>6. \A d \in actor[a].due : PageOf[d] < actor[a].page + 1 => d \in copied'
  <2> SUFFICES ASSUME NEW d \in actor[a].due, PageOf[d] < actor[a].page + 1 PROVE d \in copied'
    OBVIOUS
  <2>1. CASE PageOf[d] < actor[a].page
    BY <1>3, <1>5, <2>1
  <2>2. CASE PageOf[d] = actor[a].page
    BY <1>1, <1>2, <1>3, <2>2 DEF Sharing!Page
  <2>3. QED BY <1>2, <1>4, <2>1, <2>2
<1>7. CASE actor[a].page = Pages
  <2> DEFINE e == [actor[a] EXCEPT !.step = "graph"]
  <2>1. actor' = [actor EXCEPT ![a] = e]
    BY <1>1, <1>7 DEF Sharing!NextPage
  <2>2. e \in Sharing!Serving /\ e.step = "graph" /\ e.req = actor[a].req /\ e.due = actor[a].due
    BY <1>2 DEF Sharing!Serving
  <2> HIDE DEF e
  <2>3. e.due \subseteq copied'
    BY <1>2, <1>4, <1>6, <1>7, <2>2
  <2>4. QED BY <1>1, <1>5, <2>1, <2>2, <2>3, CopierMoves
<1>8. CASE actor[a].page # Pages
  <2> DEFINE e == [actor[a] EXCEPT !.page = @ + 1]
  <2>1. actor' = [actor EXCEPT ![a] = e]
    BY <1>1, <1>8 DEF Sharing!NextPage
  <2>2. /\ e \in Sharing!Serving /\ e.step = "copy" /\ e.req = actor[a].req
        /\ e.due = actor[a].due /\ e.page = actor[a].page + 1
    <3>1. actor[a].page + 1 \in 1..Pages
      BY <1>2, <1>4, <1>8
    <3>2. QED BY <1>2, <3>1 DEF Sharing!Serving
  <2> HIDE DEF e
  <2>3. QED BY <1>1, <1>3, <1>5, <1>6, <2>1, <2>2, CopierMoves
<1>9. QED
  BY <1>7, <1>8

LEMMA CopyFailed ==
    ASSUME SharingInv, NEW a \in Actor, Sharing!CopyFails(a)
    PROVE  SharingInv'
<1> DEFINE e == [actor[a] EXCEPT !.step = "reopen"]
<1>1. /\ ShareTypes /\ Copying(a) /\ actor' = [actor EXCEPT ![a] = e]
      /\ UNCHANGED <<status, indexed, copied, consent>>
      /\ shareFaults < MaxShareFaults /\ shareFaults' = shareFaults + 1
  BY DEF SharingInv, Sharing!CopyFails, Sharing!Fault, Copying
<1>2. actor[a] \in Sharing!Serving
  BY <1>1, ServingFacts DEF Copying
<1>3. e \in Sharing!Serving /\ e.step = "reopen" /\ e.req = actor[a].req
  BY <1>2 DEF Sharing!Serving
<1>4. shareFaults' \in 0..MaxShareFaults /\ copied' \subseteq DOMAIN PageOf
  BY <1>1, SharingAssumption DEF ShareTypes, Sharing!Assumptions
<1> HIDE DEF e
<1>5. QED
  BY <1>1, <1>3, <1>4, CopierMoves

LEMMA RequestReopened ==
    ASSUME SharingInv, NEW a \in Actor, Sharing!Reopen(a)
    PROVE  SharingInv'
<1> DEFINE r == actor[a].req
<1>1. /\ ShareTypes /\ Sharing!At(a, "reopen") /\ Copying(a) /\ Sharing!Return(a)
      /\ UNCHANGED <<indexed, copied, consent, shareFaults>>
      /\ status' = IF Sharing!Pending \subseteq {r} THEN [status EXCEPT ![r] = "pending"] ELSE status
  BY DEF SharingInv, Sharing!Reopen, Copying
<1>2. r \in ShareRequest /\ status[r] = "accepted"
  BY <1>1, ServingFacts DEF SharingInv, Handling
<1>3. ShareTypes'
  BY <1>1, <1>2, Returned DEF ShareTypes
<1>4. OneOpen'
  BY <1>1, <1>2 DEF ShareTypes, SharingInv, OneOpen, Sharing!Pending
<1>5. ASSUME NEW b \in Actor \ {a}, Sharing!At(b, "create") \/ Copying(b)
      PROVE  status'[actor[b].req] = status[actor[b].req]
  <2>1. actor[b].req # r /\ actor[b].req \in ShareRequest
    BY <1>1, <1>2, <1>5, ServingFacts DEF SharingInv, Handling, Apart, Copying
  <2>2. QED BY <1>1, <2>1 DEF ShareTypes
<1>6. QED
  BY <1>1, <1>3, <1>4, <1>5, Returns

(* An accept returns, reopens in vain, or is cut off.                      *)
LEMMA AcceptReturns ==
    ASSUME SharingInv, NEW a \in Actor,
           Sharing!RebuildGraph(a) \/ Sharing!ReopenFails(a) \/ Sharing!Disconnect(a)
    PROVE  SharingInv'
<1>1. /\ ShareTypes /\ Sharing!Return(a) /\ UNCHANGED <<status, indexed, copied, consent>>
      /\ \/ shareFaults' = shareFaults
         \/ shareFaults < MaxShareFaults /\ shareFaults' = shareFaults + 1
  BY DEF SharingInv, Sharing!RebuildGraph, Sharing!ReopenFails, Sharing!Disconnect, Sharing!Fault
<1>2. shareFaults' \in 0..MaxShareFaults
  BY <1>1, SharingAssumption DEF ShareTypes, Sharing!Assumptions
<1>3. ShareTypes'
  BY <1>1, <1>2, Returned DEF ShareTypes
<1>4. OneOpen'
  BY <1>1 DEF SharingInv, OneOpen, Sharing!Pending
<1>5. QED
  BY <1>1, <1>3, <1>4, Returns

LEMMA ServerCrashes ==
    ASSUME SharingInv, Sharing!Crash
    PROVE  SharingInv'
<1>1. /\ UNCHANGED <<status, indexed, copied, consent>>
      /\ actor' = [a \in Actor |-> Sharing!Idle]
      /\ shareFaults' \in 0..MaxShareFaults
  BY SharingAssumption
     DEF SharingInv, ShareTypes, Sharing!Crash, Sharing!Fault, Sharing!Assumptions
<1>2. ShareTypes' /\ OneOpen'
  BY <1>1 DEF SharingInv, ShareTypes, OneOpen, Sharing!Pending
<1>3. \A a \in Actor : \A s : ~ Sharing!At(a, s)'
  BY <1>1 DEF Sharing!At
<1>4. QED
  BY <1>2, <1>3 DEF SharingInv, Handling, Apart, Copying

LEMMA SharingStep == SharingInv /\ [Sharing!Next]_sharing => SharingInv'
<1> SUFFICES ASSUME SharingInv, [Sharing!Next]_sharing PROVE SharingInv'
  OBVIOUS
<1>1. CASE UNCHANGED sharing
  BY <1>1 DEF sharing, SharingInv, ShareTypes, OneOpen, Sharing!Pending, Handling, Apart,
              Copying, Sharing!At
<1>2. CASE \E a \in Actor, r \in ShareRequest :
             \/ Sharing!BeginRequest(a, r)
             \/ \E v \in {"accepted", "declined"} : Sharing!BeginResolve(a, r, v)
  BY <1>2, RequestBegins
<1>3. ASSUME NEW a \in Actor,
             \/ Sharing!Step(a) \/ Sharing!CopyFails(a)
             \/ Sharing!ReopenFails(a) \/ Sharing!Disconnect(a)
      PROVE  SharingInv'
  BY <1>3, RequestFiled, RequestClaimed, PageCopied, CopyFailed, RequestReopened, AcceptReturns
     DEF Sharing!Step
<1>4. QED
  BY <1>1, <1>2, <1>3, SourceIndexed, ServerCrashes DEF Sharing!Next

(* What a step of the sharing does to requests and to the destination.     *)
DeclinesStand == \A r \in ShareRequest : status[r] = "declined" => status'[r] = "declined"
CopiesByConsent ==
    /\ copied' # copied => consent # {}
    /\ \A a \in Actor : Sharing!RebuildGraph(a) => actor[a].due \subseteq copied

LEMMA DeclineStep == SharingInv /\ Sharing!Next => DeclinesStand
<1> SUFFICES ASSUME SharingInv, Sharing!Next, NEW r \in ShareRequest, status[r] = "declined"
             PROVE  status'[r] = "declined"
  BY DEF DeclinesStand
<1>0. ShareTypes
  BY DEF SharingInv
<1>1. CASE status' = status
  BY <1>1
<1>2. ASSUME NEW a \in Actor, Sharing!Create(a) PROVE status'[r] = "declined"
  <2>1. status[actor[a].req] = "none"
    BY <1>2 DEF SharingInv, Handling, Sharing!Create
  <2>2. QED BY <1>0, <1>2, <2>1 DEF Sharing!Create, ShareTypes
<1>3. ASSUME NEW a \in Actor, Sharing!Claim(a) PROVE status'[r] = "declined"
  BY <1>0, <1>3 DEF Sharing!Claim, Sharing!Pending, ShareTypes
<1>4. ASSUME NEW a \in Actor, Sharing!Reopen(a) PROVE status'[r] = "declined"
  <2>1. status[actor[a].req] = "accepted"
    BY <1>4 DEF SharingInv, Handling, Copying, Sharing!Reopen
  <2>2. QED BY <1>0, <1>4, <2>1 DEF Sharing!Reopen, ShareTypes
<1>5. QED
  BY <1>1, <1>2, <1>3, <1>4
     DEF Sharing!Next, Sharing!Step, Sharing!BeginRequest, Sharing!BeginResolve, Sharing!CopyPage,
         Sharing!RebuildGraph, Sharing!CopyFails, Sharing!ReopenFails, Sharing!Disconnect,
         Sharing!Index, Sharing!Crash

LEMMA ConsentStep == SharingInv /\ Sharing!Next => CopiesByConsent
<1> SUFFICES ASSUME SharingInv, Sharing!Next PROVE CopiesByConsent
  OBVIOUS
<1>1. ASSUME NEW a \in Actor, Sharing!CopyPage(a) PROVE consent # {}
  BY <1>1 DEF SharingInv, Handling, Copying, Sharing!CopyPage
<1>2. copied' # copied => \E a \in Actor : Sharing!CopyPage(a)
  BY DEF Sharing!Next, Sharing!Step, Sharing!BeginRequest, Sharing!BeginResolve, Sharing!Create,
         Sharing!Claim, Sharing!RebuildGraph, Sharing!Reopen, Sharing!CopyFails,
         Sharing!ReopenFails, Sharing!Disconnect, Sharing!Index, Sharing!Crash
<1>3. \A a \in Actor : Sharing!RebuildGraph(a) => actor[a].due \subseteq copied
  BY DEF SharingInv, Handling, Sharing!RebuildGraph
<1>4. QED
  BY <1>1, <1>2, <1>3 DEF CopiesByConsent
-----------------------------------------------------------------------------
(* The workspace and the drawers have their theorems in modules of their   *)
(* own; here they are taken over for the ones that run beside the others.  *)
(* No token server runs here: nothing of it is cited.                      *)
WP == INSTANCE AccessProofs WITH
    request <- act,
    Exchange <- {}, CodeTTL <- 0, AccessTTL <- 0, RefreshTTL <- 0,
    MaxTime <- 1, MaxCodes <- 0, MaxRestarts <- 0,
    time <- 1, codes <- <<>>, seen <- {}, tokens <- {}, exchange <- <<>>,
    gate <- [step |-> "idle"], restarts <- 0, redeemed <- <<>>
DP == INSTANCE DrawerStoreProofs WITH
    Id <- DOMAIN FiledInOrder, FiledAt <- FiledInOrder, Handler <- {"request"},
    Ops <- {"file", "update", "move", "delete"}, Batch <- 1,
    MaxEdits <- DrawerEdits, MaxFaults <- DrawerFaults,
    row <- drawer, edits <- drawerEdits, faults <- drawerFaults

LEMMA WorkspaceInit == Workspace!Init => WP!IndInv
<1>1. Workspace!Init => WP!Init
  BY DEF Workspace!Init, WP!Init, Workspace!NotMember, WP!NotMember, Workspace!Idle, WP!Idle,
         Workspace!NewKey, WP!NewKey
<1>2. QED
  BY <1>1, WP!InitInv, WorkspaceAssumption

LEMMA WorkspaceStep == WP!IndInv /\ [Workspace!Next]_workspace => WP!IndInv'
<1>1. Workspace!Next => WP!Next
  BY DEF Workspace!Next, WP!Next, Workspace!Authorize, WP!Authorize, Workspace!Act, WP!Act,
     Workspace!AddMember, WP!AddMember, Workspace!SetMemberRole, WP!SetMemberRole,
     Workspace!RemoveMember, WP!RemoveMember, Workspace!RotateKey, WP!RotateKey,
     Workspace!Abandon, WP!Abandon, Workspace!Doing, WP!Doing, Workspace!Done, WP!Done,
     Workspace!Target, WP!Target, Workspace!KeysOf, WP!KeysOf, Workspace!NewKey, WP!NewKey,
     Workspace!LastAdmin, WP!LastAdmin, Workspace!Admins, WP!Admins,
     Workspace!Revoke, WP!Revoke, Workspace!NotMember, WP!NotMember, Workspace!Idle, WP!Idle,
     Workspace!AdminKinds, WP!AdminKinds
<1>2. [Workspace!Next]_workspace => [WP!Next]_(WP!vars)
  BY <1>1 DEF workspace, WP!vars
<1>3. WP!IndInv /\ [WP!Next]_(WP!vars) => WP!IndInv'
  BY WP!IndInvStep, WorkspaceAssumption
<1>4. QED
  BY <1>2, <1>3

LEMMA WorkspaceFacts ==
    WP!IndInv => /\ Workspace!TypeOK /\ Workspace!SomeAdmin
                 /\ Workspace!MembersCanConnect /\ Workspace!RemovalRevokes
<1>1. WP!TypeOK => Workspace!TypeOK
  BY DEF Workspace!TypeOK, WP!TypeOK, Workspace!NotMember, WP!NotMember, Workspace!Idle, WP!Idle,
         Workspace!Acting, WP!Acting, Workspace!AdminKinds, WP!AdminKinds
<1>2. WP!SomeAdmin => Workspace!SomeAdmin
  BY DEF Workspace!SomeAdmin, WP!SomeAdmin, Workspace!Admins, WP!Admins
<1>3. WP!MembersCanConnect => Workspace!MembersCanConnect
  BY DEF Workspace!MembersCanConnect, WP!MembersCanConnect, Workspace!NotMember, WP!NotMember,
         Workspace!KeysOf, WP!KeysOf, Workspace!Active, WP!Active
<1>4. WP!RemovalRevokes => Workspace!RemovalRevokes
  BY DEF Workspace!RemovalRevokes, WP!RemovalRevokes, Workspace!Active, WP!Active
<1>5. QED
  BY <1>1, <1>2, <1>3, <1>4 DEF WP!IndInv

LEMMA DrawerConstants ==
    /\ {"file", "update", "move", "delete"} \subseteq DP!AllOps
    /\ 1 \in Nat \ {0} /\ DrawerEdits \in Nat /\ DrawerFaults \in Nat
    /\ FiledInOrder \in [DOMAIN FiledInOrder -> Nat]
    /\ DP!OneAtATime
BY DrawersAssumption DEF DP!AllOps, FiledInOrder, DP!OneAtATime

LEMMA DrawersInit == Drawers!Init => DP!RepairInv
<1>1. Drawers!Init => DP!Init
  BY DEF Drawers!Init, DP!Init, Drawers!None, DP!None, Drawers!Idle, DP!Idle,
         Drawers!WorkerIdle, DP!WorkerIdle, Drawers!NoBatch, DP!NoBatch
<1>2. QED
  BY <1>1, DP!RepairInit, DrawerConstants

LEMMA DrawersNext == Drawers!Next => DP!Next
BY DEF Drawers!Next, DP!Next, Drawers!BeginFile, DP!BeginFile, Drawers!BeginUpdate, DP!BeginUpdate,
   Drawers!BeginMove, DP!BeginMove, Drawers!BeginDelete, DP!BeginDelete, Drawers!Begin, DP!Begin,
   Drawers!HandlerStep, DP!HandlerStep, Drawers!HandlerFails, DP!HandlerFails,
   Drawers!WriteSoT, DP!WriteSoT, Drawers!WriteIndex, DP!WriteIndex,
   Drawers!SaveRow, DP!SaveRow, Drawers!UpdateRow, DP!UpdateRow, Drawers!Absorb, DP!Absorb,
   Drawers!WorkerStep, DP!WorkerStep, Drawers!WorkerFails, DP!WorkerFails, Drawers!Crash, DP!Crash,
   Drawers!ReadPending, DP!ReadPending, Drawers!OldestPending, DP!OldestPending,
   Drawers!IndexSoT, DP!IndexSoT, Drawers!IndexSearch, DP!IndexSearch,
   Drawers!MarkEmbedded, DP!MarkEmbedded, Drawers!WithBatch, DP!WithBatch,
   Drawers!InBatch, DP!InBatch, Drawers!Pending, DP!Pending, Drawers!Rows, DP!Rows,
   Drawers!VectorAfter, DP!VectorAfter, Drawers!WorkerIdle, DP!WorkerIdle,
   Drawers!NoBatch, DP!NoBatch, Drawers!Idle, DP!Idle, Drawers!None, DP!None,
   Drawers!Original, DP!Original, Drawers!Cardinality, DP!Cardinality

LEMMA DrawersStep == DP!RepairInv /\ [Drawers!Next]_drawers => DP!RepairInv'
<1>1. [Drawers!Next]_drawers => [DP!Next]_(DP!vars)
  BY DrawersNext DEF drawers, DP!vars
<1>2. DP!RepairInv /\ [DP!Next]_(DP!vars) => DP!RepairInv'
  BY DP!RepairStep, DrawerConstants
<1>3. QED
  BY <1>1, <1>2

LEMMA DrawersTypes == DP!RepairInv => Drawers!TypeOK
BY DEF DP!RepairInv, Drawers!TypeOK, DP!TypeOK, Drawers!Text, DP!Text, Drawers!None, DP!None,
   Drawers!Rows, DP!Rows, Drawers!Idle, DP!Idle, Drawers!Busy, DP!Busy,
   Drawers!Writes, DP!Writes

-----------------------------------------------------------------------------
(* All of them, whichever runs.                                            *)
ServicesInv ==
    /\ service \in {"metering", "workspace", "facts", "second factor", "revisions",
                    "sharing", "drawers"}
    /\ MeterInv /\ WP!IndInv /\ FactsInv /\ AccountInv /\ DocumentInv /\ SharingInv
    /\ DP!RepairInv

parts == <<service, vars, workspace, graph, account, document, sharing, drawers>>

LEMMA ServicesInit == MCInit => ServicesInv
BY MeterInit, WorkspaceInit, FactsInit, AccountInit, DocumentInit, SharingInit, DrawersInit
   DEF MCInit, ServicesInv

(* A step is a step of one of them; the others rest.                       *)
LEMMA OneSteps ==
    [MCNext]_parts =>
        /\ service' = service
        /\ [Next]_vars /\ [Workspace!Next]_workspace /\ [Facts!Next]_graph
        /\ [SecondFactor!Next]_account /\ [Revisions!Next]_document
        /\ [Sharing!Next]_sharing /\ [Drawers!Next]_drawers
BY DEF MCNext, parts

LEMMA ServicesStep == ServicesInv /\ [MCNext]_parts => ServicesInv'
BY OneSteps, MeterStep, WorkspaceStep, FactsStep, AccountStep, DocumentStep, SharingStep, DrawersStep
   DEF ServicesInv

LEMMA ServicesKept == MCSpec => []ServicesInv
BY ServicesInit, ServicesStep, PTL DEF MCSpec, parts

(* Services keep to their types, whichever runs: keys are rows for ever, a *)
(* triple's endpoints are named, a confirmed secret was minted, no version *)
(* is ahead of the edits, one share request of a wing is open at a time.   *)
THEOREM ServicesTypeCorrect == MCSpec => []ServicesTypeOK
<1>1. ServicesInv => ServicesTypeOK
  <2> SUFFICES ASSUME ServicesInv PROVE ServicesTypeOK
    OBVIOUS
  <2>1. /\ TypeOK /\ Workspace!TypeOK /\ Facts!TypeOK /\ Revisions!TypeOK
        /\ Sharing!TypeOK /\ Drawers!TypeOK
    BY WorkspaceFacts, DocumentTypes, SharingTypes, DrawersTypes
       DEF ServicesInv, MeterInv, FactsInv
  <2>2. SecondFactor!TypeOK
    BY DEF ServicesInv, AccountInv, Account, InHand, SecondFactor!TypeOK
  <2>3. QED
    BY <2>1, <2>2 DEF ServicesInv, ServicesTypeOK
<1>2. QED
  BY <1>1, ServicesKept, PTL

(* A metered workspace beside the other services stays within its cap and  *)
(* the requests being served (metering.Service.CheckWrite, CountWrite).    *)
THEOREM OvershootBoundedBeside == MCSpec => []BoundedOvershoot
<1>1. ServicesInv => BoundedOvershoot
  BY DEF ServicesInv, MeterInv
<1>2. QED
  BY <1>1, ServicesKept, PTL

(* A workspace keeps an admin, its members a key that works, and keys held *)
(* at a removal stay dead, whatever requests its admins make side by side, *)
(* for any members, roles and requests at a time (tenant.Repo).            *)
THEOREM WorkspaceStands == MCSpec => []WorkspaceHolds
<1>1. ServicesInv => WorkspaceHolds
  BY WorkspaceFacts DEF ServicesInv, WorkspaceHolds
<1>2. QED
  BY <1>1, ServicesKept, PTL

(* A recovery code is accepted once, those that work are what is left of   *)
(* the newest set, and the login demands codes of a confirmed secret only, *)
(* unless requests crossed (tenant/totp.go).                               *)
THEOREM CodesWorkOnce == MCSpec => []CodesWork
<1>1. ServicesInv => CodesWork
  BY DEF ServicesInv, AccountInv, Account, CodesWork
<1>2. QED
  BY <1>1, ServicesKept, PTL

(* A version of a skill or of the playbook stands for one text unless an   *)
(* edit overwrote one it had not read (skill.Repo.Upsert, skillset.Repo).  *)
THEOREM VersionsTell == MCSpec => []VersionTellsTextUnlessRaced
<1>1. ServicesInv => VersionTellsTextUnlessRaced
  BY DEF ServicesInv, DocumentInv, VersionTellsTextUnlessRaced
<1>2. QED
  BY <1>1, ServicesKept, PTL

(* A fact has no more current triples than there are calls at a time, no   *)
(* window is inverted but those a call ended unseen, and what was in       *)
(* effect at a moment stays so unless a call ends it before that moment    *)
(* (palace/kg.go, KGAdd and KGInvalidate).                                 *)
THEOREM HistoryIsKept == MCSpec => FactsStand
<1>1. ServicesInv => (service = "facts" => Facts!BoundedDuplicates /\ Facts!UprightUnlessUnseen)
  BY DuplicatesFit DEF ServicesInv, FactsInv
<1>2. ServicesInv /\ [MCNext]_parts => [StandsInHistory]_(Facts!vars)
  BY OneSteps, HistoryStep DEF ServicesInv, graph, Facts!vars
<1>3. QED
  BY <1>1, <1>2, ServicesKept, PTL
     DEF MCSpec, parts, FactsStand, Facts!HistoryStands, StandsInHistory

(* While somebody copies a wing the request is accepted and nobody else    *)
(* copies for it, a decline is final, and an accept that succeeds has      *)
(* copied all that was searchable when it claimed (share.Service).         *)
THEOREM ConsentIsKept == MCSpec => ConsentDecides
<1>1. ServicesInv => (service = "sharing" => Sharing!CopyOnlyWhileAccepted)
  BY OneCopies DEF ServicesInv
<1>2. ServicesInv /\ [MCNext]_parts => [DeclinesStand]_(Sharing!vars) /\ [CopiesByConsent]_(Sharing!vars)
  BY OneSteps, DeclineStep, ConsentStep DEF ServicesInv, sharing, Sharing!vars
<1>3. QED
  BY <1>1, <1>2, ServicesKept, PTL
     DEF MCSpec, parts, ConsentDecides, Sharing!DeclineIsFinal, Sharing!AcceptCopiesWing,
         DeclinesStand, CopiesByConsent

(* A call on a drawer that completes leaves row and both vectors agreeing, *)
(* whatever failed calls and crashes left (palace.Service).                *)
THEOREM CallsRepair == MCSpec => CompletionAgrees
<1> DEFINE Agreeing == \A h \in {"request"} :
       (op[h] # Drawers!Idle /\ op'[h] = Drawers!Idle /\ drawerFaults' = drawerFaults) =>
          LET i == op[h].id IN drawer'[i] = sot'[i] /\ sot'[i] = index'[i]
<1>1. DP!RepairInv /\ DP!Next => Agreeing
  BY DP!EndStep, DrawerConstants DEF DP!EndsAgreeing, Drawers!Idle, DP!Idle, Drawers!None, DP!None
<1>2. ServicesInv /\ [MCNext]_parts => [Agreeing]_(Drawers!vars)
  <2> HIDE DEF Agreeing
  <2> QED BY <1>1, OneSteps, DrawersNext DEF ServicesInv, drawers, Drawers!vars
<1>3. QED
  BY <1>2, ServicesKept, PTL DEF MCSpec, parts, CompletionAgrees, Drawers!CompletionAgrees
=============================================================================
