------------------------- MODULE RelayPipeline_proof --------------------------
(***************************************************************************)
(* Daily spending, for any relayers, policies, batches and length of a day. *)
(***************************************************************************)
EXTENDS RelayPipeline, Integers, FiniteSetTheorems, FunctionTheorems, TLAPS

Cap == SessionPolicy.daily

Total(r) == UsdOf(batch[r], orders[r])

Left(r) == UsdOf(batch[r], pending[r])

-----------------------------------------------------------------------------
(* Numbers.                                                                 *)

(* The greatest of a finite set of naturals.                                *)
LEMMA Greatest ==
  ASSUME NEW C \in SUBSET Nat, IsFiniteSet(C), C # {}
  PROVE  \E m \in C : \A j \in C : j <= m
<1> DEFINE From(i) == {j \in C : i <= j}
           T == {From(i) : i \in C}
<1>1. IsWellFoundedOn(StrictSubsetOrdering(C), FiniteSubsetsOf(C))
  BY FS_StrictSubsetOrderingWellFounded
<1>2. T \subseteq FiniteSubsetsOf(C)
  <2> SUFFICES ASSUME NEW i \in C PROVE From(i) \in FiniteSubsetsOf(C)
    OBVIOUS
  <2>1. From(i) \subseteq C
    OBVIOUS
  <2>2. IsFiniteSet(From(i))
    BY <2>1, FS_Subset
  <2> QED
    BY <2>1, <2>2 DEF FiniteSubsetsOf
<1>3. T # {}
  OBVIOUS
<1>4. \E t \in T : \A u \in T : <<u, t>> \notin StrictSubsetOrdering(C)
  <2> HIDE DEF T
  <2> QED
    BY <1>1, <1>2, <1>3, WFMin
<1>5. PICK m \in C : \A u \in T : <<u, From(m)>> \notin StrictSubsetOrdering(C)
  BY <1>4
<1>6. ASSUME NEW j \in C, ~(j <= m) PROVE FALSE
  <2>1. m < j /\ m \in Nat /\ j \in Nat
    BY <1>6
  <2>2. From(j) \subseteq From(m)
    <3>1. ASSUME NEW k \in C, j <= k PROVE m <= k
      <4>1. k \in Nat
        OBVIOUS
      <4> QED
        BY <2>1, <3>1, <4>1
    <3> QED
      BY <3>1
  <2>3. m \in From(m) /\ m \notin From(j)
    BY <2>1
  <2>4. <<From(j), From(m)>> \in StrictSubsetOrdering(C)
    BY <2>2, <2>3 DEF StrictSubsetOrdering
  <2> QED
    BY <1>5, <2>4
<1> QED
  BY <1>6

LEMMA DayIsNat ==
  ASSUME NEW t \in Nat
  PROVE  DayOf(t) \in Nat
BY RelayAssumption DEF DayOf

LEMMA DaysGoForward ==
  ASSUME NEW t \in Nat, NEW u \in Nat, t <= u
  PROVE  DayOf(t) <= DayOf(u)
<1> DEFINE K == TicksPerDay
           x == t \div K
           y == u \div K
<1>1. K \in Nat \ {0} /\ x \in Nat /\ y \in Nat
  BY RelayAssumption, DayIsNat DEF DayOf
<1>2. K * x <= t /\ u < K * (y + 1)
  BY <1>1
<1> QED
  BY <1>1, <1>2 DEF DayOf

LEMMA OneMore ==
  ASSUME NEW c \in Nat, NEW n \in Nat
  PROVE  c * (1 + n) = c + c * n /\ c * n \in Nat
OBVIOUS

-----------------------------------------------------------------------------
(* Sizes.                                                                   *)
LEMMA UsdIsNat ==
  ASSUME NEW b \in Seq(IntentType)
  PROVE  /\ \A some \in SUBSET DOMAIN b :
              IsFiniteSet(some) /\ [i \in some |-> b[i].usd] \in [some -> Nat]
         /\ DOMAIN b \subseteq Nat
<1>1. DOMAIN b = 1 .. Len(b) /\ Len(b) \in Nat /\ \A i \in 1 .. Len(b) : b[i] \in IntentType
  OBVIOUS
<1>2. IsFiniteSet(DOMAIN b)
  BY <1>1, FS_Interval
<1>3. \A i \in DOMAIN b : b[i].usd \in Nat
  BY <1>1 DEF IntentType
<1> QED
  BY <1>1, <1>2, <1>3, FS_Subset

LEMMA UsdOfNone ==
  ASSUME NEW b
  PROVE  UsdOf(b, {}) = 0
<1>1. Units([i \in {} |-> b[i].usd]) = {}
  BY DEF Units
<1> QED
  BY <1>1, FS_EmptySet DEF UsdOf, TotalOf

LEMMA LabelsCounted ==
  ASSUME NEW i, NEW units, IsFiniteSet(units)
  PROVE  IsFiniteSet({i} \X units) /\ Cardinality({i} \X units) = Cardinality(units)
<1>1. IsFiniteSet({i}) /\ Cardinality({i}) = 1
  BY FS_Singleton
<1>2. IsFiniteSet({i} \X units) /\ Cardinality({i} \X units) = Cardinality({i}) * Cardinality(units)
  BY <1>1, FS_Product
<1>3. Cardinality(units) \in Nat
  BY FS_CardinalityType
<1> QED
  BY <1>1, <1>2, <1>3

(* An amount is as many units, so a finite number of amounts has finitely   *)
(* many.                                                                    *)
LEMMA UsdIsCounted ==
  ASSUME NEW some, IsFiniteSet(some), NEW f \in [some -> Nat]
  PROVE  /\ \A i \in some : IsFiniteSet(UnitsOf(f, i)) /\ Cardinality(UnitsOf(f, i)) = f[i]
         /\ IsFiniteSet(Units(f)) /\ TotalOf(f) \in Nat
<1>1. ASSUME NEW i \in some
      PROVE  IsFiniteSet(UnitsOf(f, i)) /\ Cardinality(UnitsOf(f, i)) = f[i]
  <2>1. f[i] \in Nat /\ IsFiniteSet(1 .. f[i]) /\ Cardinality(1 .. f[i]) = f[i]
    BY FS_Interval
  <2> QED
    BY <2>1, LabelsCounted DEF UnitsOf
<1>2. IsFiniteSet({UnitsOf(f, i) : i \in some})
  <2>1. [i \in some |-> UnitsOf(f, i)] \in Surjection(some, {UnitsOf(f, i) : i \in some})
    BY Fun_IsSurj
  <2> QED
    BY <2>1, FS_Surjection
<1>3. IsFiniteSet(Units(f))
  BY <1>1, <1>2, FS_UNION DEF Units
<1> QED
  BY <1>1, <1>3, FS_CardinalityType DEF TotalOf

LEMMA UsdOfMore ==
  ASSUME NEW b \in Seq(IntentType), NEW some \in SUBSET DOMAIN b, NEW more \in SUBSET DOMAIN b,
         some \subseteq more
  PROVE  UsdOf(b, some) \in Nat /\ UsdOf(b, more) \in Nat /\ UsdOf(b, some) <= UsdOf(b, more)
<1> DEFINE f == [i \in some |-> b[i].usd]
           g == [i \in more |-> b[i].usd]
<1>1. /\ f \in [some -> Nat] /\ IsFiniteSet(some)
      /\ g \in [more -> Nat] /\ IsFiniteSet(more)
  BY UsdIsNat
<1>2. Units(f) \subseteq Units(g)
  BY DEF Units, UnitsOf
<1>3. IsFiniteSet(Units(g)) /\ TotalOf(g) \in Nat /\ TotalOf(f) \in Nat
  BY <1>1, UsdIsCounted
<1>4. Cardinality(Units(f)) <= Cardinality(Units(g))
  BY <1>2, <1>3, FS_Subset
<1> QED
  BY <1>3, <1>4 DEF UsdOf, TotalOf

LEMMA UsdOfOneLess ==
  ASSUME NEW b \in Seq(IntentType), NEW some \in SUBSET DOMAIN b, NEW a \in some
  PROVE  /\ b[a].usd \in Nat
         /\ UsdOf(b, some \ {a}) \in Nat
         /\ UsdOf(b, some) = UsdOf(b, some \ {a}) + b[a].usd
<1> DEFINE f == [i \in some |-> b[i].usd]
           g == [i \in some \ {a} |-> b[i].usd]
<1>1. /\ f \in [some -> Nat] /\ IsFiniteSet(some)
      /\ g \in [some \ {a} -> Nat] /\ IsFiniteSet(some \ {a})
      /\ f[a] = b[a].usd /\ f[a] \in Nat
  BY UsdIsNat
<1>2. Units(f) = Units(g) \cup UnitsOf(f, a) /\ Units(g) \cap UnitsOf(f, a) = {}
  BY DEF Units, UnitsOf
<1>3. /\ IsFiniteSet(Units(g)) /\ TotalOf(g) \in Nat
      /\ IsFiniteSet(UnitsOf(f, a)) /\ Cardinality(UnitsOf(f, a)) = f[a]
  BY <1>1, UsdIsCounted
<1> HIDE DEF f, g
<1>4. Cardinality(Units(g) \cup UnitsOf(f, a)) =
        Cardinality(Units(g)) + Cardinality(UnitsOf(f, a)) - Cardinality({})
  BY <1>2, <1>3, FS_Union
<1>5. TotalOf(f) = TotalOf(g) + f[a]
  BY <1>1, <1>2, <1>3, <1>4, FS_EmptySet DEF TotalOf
<1> QED
  BY <1>1, <1>3, <1>5 DEF UsdOf, f, g

(* What validateIntents approves fits the limit it started from.            *)
LEMMA ApprovedFits ==
  ASSUME NEW b \in Seq(IntentType), NEW p \in PolicyType, NEW s \in Nat,
         NEW chosen \in SUBSET DOMAIN b, chosen # {}, Approves(chosen, b, p, s)
  PROVE  s + UsdOf(b, chosen) <= p.daily
<1>1. chosen \subseteq Nat /\ IsFiniteSet(chosen)
  BY UsdIsNat
<1>2. PICK m \in chosen : \A j \in chosen : j <= m
  BY <1>1, Greatest
<1>3. {j \in chosen : j < m} = chosen \ {m}
  BY <1>1, <1>2
<1>4. s + UsdOf(b, chosen \ {m}) + b[m].usd <= p.daily
  BY <1>3 DEF Approves
<1>5. /\ UsdOf(b, chosen) = UsdOf(b, chosen \ {m}) + b[m].usd
      /\ b[m].usd \in Nat /\ UsdOf(b, chosen \ {m}) \in Nat
  BY UsdOfOneLess
<1>6. p.daily \in Nat
  BY DEF PolicyType
<1> QED
  BY <1>4, <1>5, <1>6

-----------------------------------------------------------------------------
(* Types.                                                                   *)
WorldType ==
  /\ now \in 0 .. MaxTime
  /\ offPolicy \in PolicyType /\ offPolicy.daily = Cap
  /\ onChain \in OnChainPolicies \cup {NoContract}
  /\ ledger \in [date : Days, spentUsdc : Nat, readable : BOOLEAN]
  /\ placed \in [Days -> Nat]
  /\ faults \in Nat

LocalType ==
  /\ session \in [Relayers -> PolicyType]
  /\ at \in [Relayers -> States]
  /\ batch \in [Relayers -> Seq(IntentType)]
  /\ policy \in [Relayers -> PolicyType]
  /\ spent \in [Relayers -> Nat]
  /\ orders \in [Relayers -> SUBSET Nat]
  /\ pending \in [Relayers -> SUBSET Nat]
  /\ accepted \in [Relayers -> BOOLEAN]
  /\ base \in [Relayers -> [date : Days, spentUsdc : Nat]]

(* A relayer under a policy no laxer than the session's has approved no     *)
(* more than that leaves over what it read.                                 *)
Cycle(r) ==
  /\ pending[r] \subseteq orders[r] /\ orders[r] \subseteq DOMAIN batch[r]
  /\ policy[r].daily <= Cap /\ session[r].daily = Cap
  /\ at[r] \in {"idle", "started", "thinking", "fetching"} => orders[r] = {}
  /\ at[r] \in {"posting", "writing", "filling"} =>
       spent[r] + Total(r) <= policy[r].daily

RelayInv == WorldType /\ LocalType /\ \A r \in Relayers : Cycle(r)

Same(r) ==
  /\ session'[r] = session[r]
  /\ at'[r] = at[r] /\ batch'[r] = batch[r] /\ policy'[r] = policy[r] /\ spent'[r] = spent[r]
  /\ orders'[r] = orders[r] /\ pending'[r] = pending[r]

OthersSame(r) == \A q \in Relayers \ {r} : Same(q)

LEMMA CapIsNat == Cap \in Nat /\ SessionPolicy \in PolicyType
BY RelayAssumption DEF Cap, PolicyType

LEMMA SameKeeps ==
  ASSUME NEW r, Cycle(r), Same(r)
  PROVE  Cycle(r)'
BY DEF Cycle, Same, Total

LEMMA TodayIsDay ==
  ASSUME WorldType
  PROVE  Today \in Days /\ Today \in Nat /\ Days \subseteq Nat
<1>1. now \in Nat /\ now <= MaxTime /\ MaxTime \in Nat
  BY RelayAssumption DEF WorldType
<1>2. DayOf(now) \in Nat /\ DayOf(MaxTime) \in Nat /\ DayOf(now) <= DayOf(MaxTime)
  BY <1>1, DayIsNat, DaysGoForward
<1> QED
  BY <1>2 DEF Today, Days

LEMMA LoadIsNat ==
  ASSUME WorldType
  PROVE  LoadDailySpend \in Nat
BY DEF WorldType, LoadDailySpend

LEMMA MergeIsStricter ==
  ASSUME NEW off \in PolicyType, NEW on \in OnChainPolicies \cup {NoContract}
  PROVE  Merge(off, on) \in PolicyType /\ Merge(off, on).daily <= off.daily
<1>1. off.validUntil \in Nat /\ off.daily \in Nat /\ off.perTx \in Nat /\ off.maxNav \in Nat
  BY DEF PolicyType
<1>2. CASE on = NoContract \/ on.paused
  BY <1>1, <1>2 DEF Merge
<1>3. CASE ~(on = NoContract \/ on.paused)
  <2>1. [validUntil |-> on.validUntil, daily |-> on.daily,
         perTx |-> on.perTx, maxNav |-> on.maxNav] \in PolicyType
    BY <1>3, RelayAssumption
  <2>2. on.validUntil \in Nat /\ on.daily \in Nat /\ on.perTx \in Nat /\ on.maxNav \in Nat
    BY <2>1 DEF PolicyType
  <2>3. Merge(off, on) =
          [validUntil |-> LesserOf(off.validUntil, on.validUntil),
           daily |-> LesserOf(off.daily, on.daily),
           perTx |-> LesserOf(off.perTx, on.perTx),
           maxNav |-> LesserOf(off.maxNav, on.maxNav)]
    BY <1>3 DEF Merge
  <2> QED
    BY <1>1, <2>2, <2>3 DEF LesserOf, PolicyType
<1> QED
  BY <1>2, <1>3

LEMMA Forgotten ==
  ASSUME RelayInv, NEW r \in Relayers, Forget(r)
  PROVE  /\ LocalType' /\ OthersSame(r) /\ Cycle(r)'
         /\ at'[r] = "idle"
<1>1. 0 \in Days
  <2>1. DayOf(MaxTime) \in Nat
    BY RelayAssumption, DayIsNat
  <2> QED
    BY <2>1 DEF Days
<1>2. NoEntry \in [date : Days, spentUsdc : Nat]
  BY <1>1 DEF NoEntry
<1>3. LocalType'
  BY <1>2, CapIsNat DEF RelayInv, LocalType, Forget, States
<1>4. OthersSame(r)
  BY DEF RelayInv, LocalType, Forget, OthersSame, Same
<1>5. /\ at'[r] = "idle" /\ orders'[r] = {} /\ pending'[r] = {}
      /\ policy'[r] = SessionPolicy /\ session' = session
  BY DEF RelayInv, LocalType, Forget
<1>6. Cycle(r)'
  BY <1>5, CapIsNat DEF RelayInv, Cycle, Cap
<1> QED
  BY <1>3, <1>4, <1>5, <1>6

-----------------------------------------------------------------------------
(* What each action does to the relayer that takes it.                      *)
LEMMA CycleReadEarly ==
  ASSUME RelayInv, NEW r \in Relayers, ReadEarly(r)
  PROVE  WorldType' /\ LocalType' /\ OthersSame(r) /\ Cycle(r)'
<1>1. WorldType'
  BY DEF RelayInv, WorldType, ReadEarly, world
<1>2. LocalType'
  BY LoadIsNat DEF RelayInv, LocalType, ReadEarly, States
<1>3. OthersSame(r)
  BY DEF RelayInv, LocalType, ReadEarly, OthersSame, Same
<1>4. /\ at'[r] = "thinking" /\ orders'[r] = {} /\ pending'[r] = {}
      /\ policy'[r] = policy[r] /\ session' = session
  BY DEF RelayInv, LocalType, Cycle, ReadEarly
<1>5. Cycle(r)'
  BY <1>4 DEF RelayInv, Cycle
<1> QED
  BY <1>1, <1>2, <1>3, <1>5

LEMMA CycleStart ==
  ASSUME RelayInv, NEW r \in Relayers, Start(r)
  PROVE  WorldType' /\ LocalType' /\ OthersSame(r) /\ Cycle(r)'
<1>1. WorldType'
  BY DEF RelayInv, WorldType, Start, world
<1>2. LocalType'
  BY DEF RelayInv, WorldType, LocalType, Start, States
<1>3. OthersSame(r)
  BY DEF RelayInv, LocalType, Start, OthersSame, Same
<1>4. /\ at[r] = "idle" /\ at'[r] \in {"idle", "started"} /\ session'[r] = offPolicy
      /\ UNCHANGED <<batch, policy, spent, orders, pending>>
  BY DEF RelayInv, LocalType, Start
<1>5. Cycle(r)'
  BY <1>4 DEF RelayInv, WorldType, Cycle, Total
<1> QED
  BY <1>1, <1>2, <1>3, <1>5

LEMMA CycleBegin ==
  ASSUME RelayInv, NEW r \in Relayers, Begin(r)
  PROVE  WorldType' /\ LocalType' /\ OthersSame(r) /\ Cycle(r)'
<1>1. WorldType'
  BY DEF RelayInv, WorldType, Begin, world
<1>2. LocalType'
  <2>1. PICK b \in Batches : batch' = [batch EXCEPT ![r] = b]
    BY DEF Begin
  <2>2. b \in Seq(IntentType)
    BY RelayAssumption
  <2> QED
    BY <2>1, <2>2 DEF RelayInv, WorldType, LocalType, Begin, States
<1>3. OthersSame(r)
  BY DEF RelayInv, LocalType, Begin, OthersSame, Same
<1>4. /\ at'[r] = "fetching" /\ orders'[r] = {} /\ pending'[r] = {}
      /\ policy'[r] = session[r] /\ session' = session
  BY DEF RelayInv, LocalType, Cycle, Begin
<1>5. Cycle(r)'
  BY <1>4, CapIsNat DEF RelayInv, Cycle
<1> QED
  BY <1>1, <1>2, <1>3, <1>5

(* Validate either gives up or goes on to post.                             *)
LEMMA Validated ==
  ASSUME RelayInv, NEW r \in Relayers, Validate(r)
  PROVE  \/ Forget(r)
         \/ \E s \in Nat, p \in PolicyType, built \in SUBSET Nat :
              /\ s = IF r \in EarlyReaders THEN spent[r] ELSE LoadDailySpend
              /\ p.daily <= Cap
              /\ built \subseteq DOMAIN batch[r]
              /\ s + UsdOf(batch[r], built) <= p.daily
              /\ at' = [at EXCEPT ![r] = "posting"]
              /\ policy' = [policy EXCEPT ![r] = p]
              /\ spent' = [spent EXCEPT ![r] = s]
              /\ orders' = [orders EXCEPT ![r] = built]
              /\ pending' = [pending EXCEPT ![r] = built]
              /\ UNCHANGED <<session, batch, accepted, base>>
<1> DEFINE s == IF r \in EarlyReaders THEN spent[r] ELSE LoadDailySpend
           b == batch[r]
           BuiltOf(c) == {i \in c : b[i].buildable}
<1>1. PICK p \in FetchedPolicies(r), chosen \in SUBSET DOMAIN b :
        /\ Approves(chosen, b, p, s)
        /\ IF BuiltOf(chosen) = {}
           THEN Forget(r)
           ELSE /\ at' = [at EXCEPT ![r] = "posting"]
                /\ policy' = [policy EXCEPT ![r] = p]
                /\ spent' = [spent EXCEPT ![r] = s]
                /\ orders' = [orders EXCEPT ![r] = BuiltOf(chosen)]
                /\ pending' = [pending EXCEPT ![r] = BuiltOf(chosen)]
                /\ UNCHANGED <<session, batch, accepted, base>>
  BY DEF Validate
<1>2. CASE BuiltOf(chosen) = {}
  BY <1>1, <1>2
<1>3. CASE BuiltOf(chosen) # {}
  <2> DEFINE built == BuiltOf(chosen)
  <2>1. b \in Seq(IntentType)
    BY DEF RelayInv, LocalType
  <2>2. s \in Nat
    BY LoadIsNat DEF RelayInv, LocalType
  <2>3. policy[r] \in PolicyType /\ onChain \in OnChainPolicies \cup {NoContract}
        /\ policy[r].daily <= Cap
    BY DEF RelayInv, LocalType, WorldType, Cycle
  <2>4. p \in {Merge(policy[r], onChain), policy[r]}
    BY DEF FetchedPolicies
  <2>5. p \in PolicyType /\ p.daily <= policy[r].daily
    <3>1. policy[r].daily \in Nat
      BY <2>3 DEF PolicyType
    <3> QED
      BY <2>3, <2>4, <3>1, MergeIsStricter
  <2>6. p.daily \in Nat /\ policy[r].daily \in Nat
    BY <2>3, <2>5 DEF PolicyType
  <2>7. built \subseteq chosen /\ chosen # {} /\ chosen \subseteq DOMAIN b
    BY <1>3
  <2>8. s + UsdOf(b, chosen) <= p.daily
    <3> HIDE DEF s, b
    <3> QED
      BY <1>1, <2>1, <2>2, <2>5, <2>7, ApprovedFits
  <2>9. UsdOf(b, built) \in Nat /\ UsdOf(b, chosen) \in Nat /\ UsdOf(b, built) <= UsdOf(b, chosen)
    <3> HIDE DEF built, b
    <3> QED
      BY <2>1, <2>7, UsdOfMore
  <2>10. s + UsdOf(b, built) <= p.daily
    <3> HIDE DEF built, b, s
    <3> QED
      BY <2>2, <2>6, <2>8, <2>9
  <2>11. p.daily <= Cap
    BY <2>3, <2>5, <2>6, CapIsNat
  <2>12. built \in SUBSET Nat /\ built \subseteq DOMAIN b
    BY <2>1, <2>7, UsdIsNat
  <2> QED
    BY <1>1, <1>3, <2>2, <2>5, <2>10, <2>11, <2>12
<1> QED
  BY <1>2, <1>3

LEMMA CycleValidate ==
  ASSUME RelayInv, NEW r \in Relayers, Validate(r)
  PROVE  WorldType' /\ LocalType' /\ OthersSame(r) /\ Cycle(r)'
<1>1. WorldType'
  BY DEF RelayInv, WorldType, Validate, world
<1>2. CASE Forget(r)
  BY <1>1, <1>2, Forgotten
<1>3. CASE ~Forget(r)
  <2>1. PICK s \in Nat, p \in PolicyType, built \in SUBSET Nat :
              /\ p.daily <= Cap
              /\ built \subseteq DOMAIN batch[r]
              /\ s + UsdOf(batch[r], built) <= p.daily
              /\ at' = [at EXCEPT ![r] = "posting"]
              /\ policy' = [policy EXCEPT ![r] = p]
              /\ spent' = [spent EXCEPT ![r] = s]
              /\ orders' = [orders EXCEPT ![r] = built]
              /\ pending' = [pending EXCEPT ![r] = built]
              /\ UNCHANGED <<session, batch, accepted, base>>
    BY <1>3, Validated
  <2>2. LocalType'
    BY <2>1 DEF RelayInv, LocalType, States
  <2>3. OthersSame(r)
    BY <2>1 DEF RelayInv, LocalType, OthersSame, Same
  <2>4. /\ at'[r] = "posting" /\ batch'[r] = batch[r] /\ policy'[r] = p /\ spent'[r] = s
        /\ orders'[r] = built /\ pending'[r] = built /\ session' = session
    BY <2>1 DEF RelayInv, LocalType
  <2>5. Cycle(r)'
    BY <2>1, <2>4 DEF RelayInv, Cycle, Total
  <2> QED
    BY <1>1, <2>2, <2>3, <2>5
<1> QED
  BY <1>2, <1>3

(* An order is posted, whatever becomes of it.                              *)
LEMMA CyclePosting ==
  ASSUME RelayInv, NEW r \in Relayers, NEW i, Posting(r, i), accepted' \in [Relayers -> BOOLEAN]
  PROVE  LocalType' /\ OthersSame(r) /\ Cycle(r)'
<1>1. LocalType'
  BY DEF RelayInv, LocalType, Posting
<1>2. OthersSame(r)
  BY DEF RelayInv, LocalType, Posting, OthersSame, Same
<1>3. /\ at'[r] = at[r] /\ batch'[r] = batch[r] /\ policy'[r] = policy[r] /\ spent'[r] = spent[r]
      /\ orders'[r] = orders[r] /\ pending'[r] = pending[r] \ {i} /\ session' = session
  BY DEF RelayInv, LocalType, Posting
<1>4. Cycle(r)'
  BY <1>3 DEF RelayInv, Cycle, Total
<1> QED
  BY <1>1, <1>2, <1>4

LEMMA SizeIsNat ==
  ASSUME RelayInv, NEW r \in Relayers, NEW i \in pending[r]
  PROVE  batch[r][i].usd \in Nat /\ batch[r] \in Seq(IntentType)
         /\ pending[r] \subseteq DOMAIN batch[r] /\ orders[r] \subseteq DOMAIN batch[r]
<1>1. /\ batch[r] \in Seq(IntentType)
      /\ pending[r] \subseteq DOMAIN batch[r] /\ orders[r] \subseteq DOMAIN batch[r]
  BY DEF RelayInv, LocalType, Cycle
<1> QED
  BY <1>1, UsdOfOneLess

LEMMA PlacedType ==
  ASSUME RelayInv, NEW r \in Relayers, NEW i \in pending[r], Place(r, i)
  PROVE  /\ placed' \in [Days -> Nat]
         /\ placed'[Today] = placed[Today] + batch[r][i].usd
         /\ \A d \in Days : d # Today => placed'[d] = placed[d]
<1>1. Today \in Days /\ placed \in [Days -> Nat]
  BY TodayIsDay DEF RelayInv, WorldType
<1> QED
  BY <1>1, SizeIsNat DEF Place

LEMMA CyclePostOutcome ==
  ASSUME RelayInv, NEW r \in Relayers, PostOutcome(r)
  PROVE  WorldType' /\ LocalType' /\ OthersSame(r) /\ Cycle(r)'
<1>1. PICK i : PostAccepted(r, i) \/ PostRejected(r, i) \/ PostUnnumbered(r, i) \/ PostUnanswered(r, i)
  BY DEF PostOutcome
<1>2. Posting(r, i) /\ i \in pending[r]
  BY <1>1 DEF PostAccepted, PostRejected, PostUnnumbered, PostUnanswered, Posting
<1>3. accepted' \in [Relayers -> BOOLEAN]
  BY <1>1 DEF PostAccepted, PostRejected, PostUnnumbered, PostUnanswered, RelayInv, LocalType
<1>4. (Place(r, i) \/ placed' = placed) /\ faults' \in Nat
  BY <1>1 DEF PostAccepted, PostRejected, PostUnnumbered, PostUnanswered, RelayInv, WorldType
<1>5. placed' \in [Days -> Nat]
  BY <1>2, <1>4, PlacedType DEF RelayInv, WorldType
<1>6. WorldType'
  BY <1>2, <1>4, <1>5 DEF RelayInv, WorldType, Posting, world
<1> QED
  BY <1>2, <1>3, <1>6, CyclePosting

LEMMA CycleRecordRead ==
  ASSUME RelayInv, NEW r \in Relayers, RecordRead(r)
  PROVE  WorldType' /\ LocalType' /\ OthersSame(r) /\ Cycle(r)'
<1>1. WorldType'
  BY DEF RelayInv, WorldType, RecordRead, world
<1>2. LocalType'
  <2>1. [date |-> Today, spentUsdc |-> LoadDailySpend] \in [date : Days, spentUsdc : Nat]
    BY LoadIsNat, TodayIsDay DEF RelayInv
  <2> QED
    BY <2>1 DEF RelayInv, LocalType, RecordRead, States
<1>3. OthersSame(r)
  BY DEF RelayInv, LocalType, RecordRead, OthersSame, Same
<1>4. at[r] = "posting" /\ at'[r] = "writing"
  BY DEF RelayInv, LocalType, RecordRead
<1>5. Cycle(r)'
  BY <1>4 DEF RelayInv, LocalType, Cycle, Total, RecordRead
<1> QED
  BY <1>1, <1>2, <1>3, <1>5

LEMMA CycleRecordTruncate ==
  ASSUME RelayInv, NEW r \in Relayers, RecordTruncate(r)
  PROVE  WorldType' /\ LocalType' /\ OthersSame(r) /\ Cycle(r)'
<1>1. WorldType'
  BY DEF RelayInv, WorldType, RecordTruncate, world
<1>2. LocalType'
  BY DEF RelayInv, LocalType, RecordTruncate, States
<1>3. OthersSame(r)
  BY DEF RelayInv, LocalType, RecordTruncate, OthersSame, Same
<1>4. at[r] = "writing" /\ at'[r] = "filling"
  BY DEF RelayInv, LocalType, RecordTruncate
<1>5. Cycle(r)'
  BY <1>4 DEF RelayInv, LocalType, Cycle, Total, RecordTruncate
<1> QED
  BY <1>1, <1>2, <1>3, <1>5

LEMMA RecordedIsNat ==
  ASSUME RelayInv, NEW r \in Relayers
  PROVE  Total(r) \in Nat /\ Left(r) \in Nat /\ Left(r) <= Total(r)
<1>1. /\ batch[r] \in Seq(IntentType) /\ pending[r] \subseteq orders[r]
      /\ pending[r] \subseteq DOMAIN batch[r] /\ orders[r] \subseteq DOMAIN batch[r]
  BY DEF RelayInv, LocalType, Cycle
<1> QED
  BY <1>1, UsdOfMore DEF Total, Left

LEMMA CycleRecordFill ==
  ASSUME RelayInv, NEW r \in Relayers, RecordFill(r)
  PROVE  WorldType' /\ LocalType' /\ OthersSame(r) /\ Cycle(r)'
<1>1. base[r].date \in Days /\ base[r].spentUsdc \in Nat /\ Recorded(r) \in Nat
  BY RecordedIsNat DEF RelayInv, LocalType, Recorded, Total
<1>2. WorldType'
  BY <1>1 DEF RelayInv, WorldType, RecordFill, world
<1> QED
  BY <1>2, Forgotten DEF RecordFill

LEMMA CycleForgets ==
  ASSUME RelayInv, NEW r \in Relayers,
         Abort(r) \/ ClientUnavailable(r) \/ NothingSubmitted(r) \/ Crash(r)
  PROVE  WorldType' /\ LocalType' /\ OthersSame(r) /\ Cycle(r)'
<1>1. Forget(r) /\ UNCHANGED <<now, offPolicy, onChain, ledger, placed>> /\ faults' \in Nat
  BY DEF Abort, ClientUnavailable, NothingSubmitted, Crash, world, RelayInv, WorldType
<1>2. WorldType'
  BY <1>1 DEF RelayInv, WorldType
<1> QED
  BY <1>1, <1>2, Forgotten

LEMMA RelayKeeps ==
  ASSUME RelayInv, NEW r \in Relayers, Relay(r)
  PROVE  RelayInv' /\ OthersSame(r)
<1>1. WorldType' /\ LocalType' /\ OthersSame(r) /\ Cycle(r)'
  <2>1. CASE ReadEarly(r)
    BY <2>1, CycleReadEarly
  <2>2. CASE Begin(r)
    BY <2>2, CycleBegin
  <2>3. CASE Validate(r)
    BY <2>3, CycleValidate
  <2>4. CASE PostOutcome(r)
    BY <2>4, CyclePostOutcome
  <2>5. CASE RecordRead(r)
    BY <2>5, CycleRecordRead
  <2>6. CASE RecordTruncate(r)
    BY <2>6, CycleRecordTruncate
  <2>7. CASE RecordFill(r)
    BY <2>7, CycleRecordFill
  <2>8. CASE Abort(r) \/ ClientUnavailable(r) \/ NothingSubmitted(r) \/ Crash(r)
    BY <2>8, CycleForgets
  <2>9. CASE Start(r)
    BY <2>9, CycleStart
  <2> QED
    BY <2>1, <2>2, <2>3, <2>4, <2>5, <2>6, <2>7, <2>8, <2>9 DEF Relay
<1>2. \A q \in Relayers \ {r} : Cycle(q)'
  BY <1>1, SameKeeps DEF RelayInv, OthersSame
<1> QED
  BY <1>1, <1>2 DEF RelayInv

(* The world moves, or nothing does.                                        *)
LEMMA WorldKeeps ==
  ASSUME RelayInv, Tick \/ RenewSession \/ SetOnChain \/ UNCHANGED vars
  PROVE  RelayInv'
<1>1. WorldType'
  <2>1. CASE Tick
    BY <2>1, RelayAssumption DEF Tick, Elsewhere, local, RelayInv, WorldType
  <2>2. CASE RenewSession
    <3>1. PICK ttl \in SessionTTLs : offPolicy' = [offPolicy EXCEPT !.validUntil = now + ttl]
      BY <2>2 DEF RenewSession
    <3>2. now + ttl \in Nat
      BY RelayAssumption DEF RelayInv, WorldType
    <3>3. offPolicy' \in PolicyType /\ offPolicy'.daily = offPolicy.daily
      BY <3>1, <3>2 DEF RelayInv, WorldType, PolicyType
    <3> QED
      BY <2>2, <3>3 DEF RenewSession, Elsewhere, local, RelayInv, WorldType
  <2>3. CASE SetOnChain
    BY <2>3 DEF SetOnChain, Elsewhere, local, RelayInv, WorldType
  <2>4. CASE UNCHANGED vars
    BY <2>4 DEF vars, world, RelayInv, WorldType
  <2> QED
    BY <2>1, <2>2, <2>3, <2>4
<1>2. UNCHANGED local
  BY DEF Tick, RenewSession, SetOnChain, Elsewhere, vars
<1>3. LocalType' /\ \A r \in Relayers : Cycle(r)'
  BY <1>2 DEF RelayInv, LocalType, local, Cycle, Total
<1> QED
  BY <1>1, <1>3 DEF RelayInv

LEMMA RelayStarts == Init => RelayInv
<1> SUFFICES ASSUME Init PROVE RelayInv
  OBVIOUS
<1>0. DayOf(MaxTime) \in Nat /\ 0 \in Days /\ MaxTime \in Nat
  <2>1. DayOf(MaxTime) \in Nat /\ MaxTime \in Nat
    BY RelayAssumption, DayIsNat
  <2> QED
    BY <2>1 DEF Days
<1>1. WorldType
  BY <1>0, CapIsNat DEF Init, WorldType, Cap
<1>2. LocalType
  BY <1>0, CapIsNat DEF Init, LocalType, NoEntry, States
<1>3. \A r \in Relayers : Cycle(r)
  BY CapIsNat DEF Init, Cycle, Cap
<1> QED
  BY <1>1, <1>2, <1>3 DEF RelayInv

LEMMA RelayStep == RelayInv /\ [Next]_vars => RelayInv'
BY RelayKeeps, WorldKeeps DEF Next

LEMMA RelayAlways == Spec => []RelayInv
BY RelayStarts, RelayStep, PTL DEF Spec

(* A cycle never approves more than its daily limit leaves over the         *)
(* spending it read, however many relayers there are.                       *)
THEOREM RelayCycleFits == Spec => []CycleFitsItsReading
<1>1. RelayInv => CycleFitsItsReading
  BY DEF RelayInv, Cycle, Total, CycleFitsItsReading
<1> QED
  BY RelayAlways, <1>1, PTL

-----------------------------------------------------------------------------
(* A sole relayer.                                                          *)

Lost == Cap * faults

Between(r) == at[r] \in {"idle", "started", "thinking", "fetching"}

Recording(r) == at[r] \in {"writing", "filling"}

(* The file speaks of no day to come, and nothing was placed on one.        *)
PastOnly ==
  /\ ledger.date <= Today
  /\ \A d \in Days : d > Today => placed[d] = 0

(* The reading in hand is no less than what the file says now.              *)
ReadEnough(r) ==
  at[r] \in {"thinking", "posting"} \/ (at[r] = "fetching" /\ r \in EarlyReaders)
    => LoadDailySpend <= spent[r]

(* What is placed, or about to be, today is in the file, or is recorded at  *)
(* the end of the cycle, or was lost.                                       *)
Accounted(r) ==
  /\ Between(r) => placed[Today] <= LoadDailySpend + Lost
  /\ at[r] = "posting" =>
       /\ placed[Today] + Left(r) <= LoadDailySpend + Total(r) + Lost
       /\ ~accepted[r] => placed[Today] <= LoadDailySpend + Lost
  /\ Recording(r) =>
       /\ base[r].date <= Today /\ base[r].spentUsdc <= spent[r]
       /\ placed[base[r].date] <= base[r].spentUsdc + Total(r) + Lost
       /\ \A d \in Days : d > base[r].date => placed[d] = 0

SoleInv(r) ==
  /\ RelayInv /\ Relayers = {r}
  /\ BudgetPerFault /\ PastOnly /\ ReadEnough(r) /\ Accounted(r)

(* The quantities of an inductive step.                                     *)
LEMMA Quantities ==
  ASSUME NEW r \in Relayers, RelayInv
  PROVE  /\ Cap \in Nat /\ faults \in Nat /\ Lost \in Nat /\ Cap * (1 + faults) = Cap + Lost
         /\ Today \in Days /\ Today \in Nat /\ Days \subseteq Nat
         /\ ledger.date \in Days /\ ledger.spentUsdc \in Nat /\ ledger.readable \in BOOLEAN
         /\ placed \in [Days -> Nat] /\ \A d \in Days : placed[d] \in Nat
         /\ LoadDailySpend \in Nat /\ spent[r] \in Nat /\ Total(r) \in Nat /\ Left(r) \in Nat
         /\ Left(r) <= Total(r)
         /\ base[r].date \in Days /\ base[r].spentUsdc \in Nat
         /\ at[r] \in {"posting", "writing", "filling"} => spent[r] + Total(r) <= Cap
<1>1. Cap \in Nat /\ faults \in Nat
  BY CapIsNat DEF RelayInv, WorldType
<1>2. Lost \in Nat /\ Cap * (1 + faults) = Cap + Lost
  BY <1>1, OneMore DEF Lost
<1>3. /\ Today \in Days /\ Today \in Nat /\ Days \subseteq Nat /\ LoadDailySpend \in Nat
      /\ ledger \in [date : Days, spentUsdc : Nat, readable : BOOLEAN]
      /\ placed \in [Days -> Nat]
  BY TodayIsDay, LoadIsNat DEF RelayInv, WorldType
<1>4. /\ spent[r] \in Nat /\ base[r] \in [date : Days, spentUsdc : Nat]
      /\ policy[r] \in PolicyType
  BY DEF RelayInv, LocalType
<1>5. Total(r) \in Nat /\ Left(r) \in Nat /\ Left(r) <= Total(r)
  BY RecordedIsNat
<1>6. at[r] \in {"posting", "writing", "filling"} => spent[r] + Total(r) <= Cap
  <2>1. policy[r].daily \in Nat /\ policy[r].daily <= Cap
    BY <1>4 DEF PolicyType, RelayInv, Cycle
  <2>2. at[r] \in {"posting", "writing", "filling"} => spent[r] + Total(r) <= policy[r].daily
    BY DEF RelayInv, Cycle
  <2> QED
    BY <1>1, <1>4, <1>5, <2>1, <2>2
<1> QED
  BY <1>1, <1>2, <1>3, <1>4, <1>5, <1>6

(* Nothing is placed and nothing is lost: the days keep to their budget.    *)
LEMMA BudgetStays ==
  ASSUME BudgetPerFault, UNCHANGED <<placed, faults>>
  PROVE  BudgetPerFault'
BY DEF BudgetPerFault

(* Nothing is placed: if more is lost, the days keep to their budget.       *)
LEMMA BudgetGrows ==
  ASSUME NEW r \in Relayers, RelayInv, BudgetPerFault, placed' = placed, faults' = faults + 1
  PROVE  /\ BudgetPerFault' /\ Lost' = Cap + Lost
         /\ \A d \in Days : placed[d] <= Lost'
<1>1. /\ Cap \in Nat /\ faults \in Nat /\ Lost \in Nat /\ Cap * (1 + faults) = Cap + Lost
      /\ \A d \in Days : placed[d] \in Nat
  BY Quantities
<1>2. Lost' = Cap + Lost
  <2>1. Lost' = Cap * (faults + 1)
    BY DEF Lost, Cap
  <2>2. faults + 1 = 1 + faults
    BY <1>1
  <2> QED
    BY <1>1, <2>1, <2>2
<1>3. \A d \in Days : placed[d] <= Lost'
  BY <1>1, <1>2 DEF BudgetPerFault, Cap
<1>4. Cap * (1 + faults') = Cap + Lost'
  <2>1. faults' \in Nat
    BY <1>1
  <2> QED
    BY <1>1, <2>1, OneMore DEF Lost, Cap
<1>5. BudgetPerFault'
  <2> SUFFICES ASSUME NEW d \in Days PROVE placed[d] <= Cap * (1 + faults')
    BY DEF BudgetPerFault, Cap, Days
  <2> QED
    BY <1>1, <1>2, <1>3, <1>4
<1> QED
  BY <1>2, <1>3, <1>5

(* The cycle ends, the file unchanged: what is placed is covered by it.     *)
LEMMA Ended ==
  ASSUME NEW r \in Relayers, SoleInv(r), RelayInv', UNCHANGED <<now, ledger, placed>>,
         at'[r] = "idle", BudgetPerFault', placed[Today] <= LoadDailySpend + Lost'
  PROVE  SoleInv(r)'
<1>1. Today' = Today /\ LoadDailySpend' = LoadDailySpend
  BY DEF Today, DayOf, LoadDailySpend
<1>2. PastOnly'
  BY <1>1 DEF SoleInv, PastOnly, Days
<1>3. ReadEnough(r)' /\ Accounted(r)'
  BY <1>1 DEF ReadEnough, Accounted, Between, Recording
<1> QED
  BY <1>2, <1>3 DEF SoleInv

LEMMA SoleGivesUp ==
  ASSUME NEW r \in Relayers, SoleInv(r), RelayInv', Forget(r), UNCHANGED <<now, ledger, placed>>,
         faults' = faults, Between(r)
  PROVE  SoleInv(r)'
<1>1. at'[r] = "idle"
  BY DEF Forget, SoleInv, RelayInv, LocalType
<1>2. placed[Today] <= LoadDailySpend + Lost'
  BY DEF SoleInv, Accounted, Lost, Cap
<1> QED
  BY <1>1, <1>2, BudgetStays, Ended DEF SoleInv

LEMMA SoleCrash ==
  ASSUME NEW r \in Relayers, SoleInv(r), RelayInv', Crash(r)
  PROVE  SoleInv(r)'
<1>0. Forget(r) /\ UNCHANGED <<now, ledger, placed>> /\ at'[r] = "idle"
  BY DEF Crash, world, Forget, SoleInv, RelayInv, LocalType
<1>1. CASE at[r] \in {"posting", "writing", "filling"}
  <2>1. faults' = faults + 1
    BY <1>1 DEF Crash
  <2>2. BudgetPerFault' /\ placed[Today] <= Lost' /\ Lost' = Cap + Lost
    BY <1>0, <2>1, BudgetGrows, Quantities DEF SoleInv
  <2>3. placed[Today] <= LoadDailySpend + Lost'
    BY <2>2, Quantities DEF SoleInv
  <2> QED
    BY <1>0, <2>2, <2>3, Ended
<1>2. CASE at[r] \notin {"posting", "writing", "filling"}
  <2>1. Between(r) /\ faults' = faults
    BY <1>2 DEF Crash, Between, SoleInv, RelayInv, LocalType, States
  <2> QED
    BY <1>0, <2>1, SoleGivesUp
<1> QED
  BY <1>1, <1>2

LEMMA SoleStart ==
  ASSUME NEW r \in Relayers, SoleInv(r), RelayInv', Start(r)
  PROVE  SoleInv(r)'
<1>1. UNCHANGED <<now, ledger, placed, faults>> /\ at[r] = "idle"
      /\ at'[r] \in {"idle", "started"}
  BY DEF Start, world, SoleInv, RelayInv, LocalType
<1>2. Today' = Today /\ LoadDailySpend' = LoadDailySpend /\ Lost' = Lost
  BY <1>1 DEF Today, DayOf, LoadDailySpend, Lost, Cap
<1>3. PastOnly' /\ BudgetPerFault'
  BY <1>1, <1>2, BudgetStays DEF SoleInv, PastOnly, Days
<1>4. ReadEnough(r)' /\ Accounted(r)'
  BY <1>1, <1>2 DEF SoleInv, ReadEnough, Accounted, Between, Recording
<1> QED
  BY <1>3, <1>4 DEF SoleInv

LEMMA SoleReadEarly ==
  ASSUME NEW r \in Relayers, SoleInv(r), RelayInv', ReadEarly(r)
  PROVE  SoleInv(r)'
<1>1. UNCHANGED <<now, ledger, placed, faults>> /\ at[r] = "started"
      /\ at'[r] = "thinking" /\ spent'[r] = LoadDailySpend
  BY DEF ReadEarly, world, SoleInv, RelayInv, LocalType
<1>2. Today' = Today /\ LoadDailySpend' = LoadDailySpend /\ Lost' = Lost
  BY <1>1 DEF Today, DayOf, LoadDailySpend, Lost, Cap
<1>3. PastOnly' /\ BudgetPerFault'
  BY <1>1, <1>2, BudgetStays DEF SoleInv, PastOnly, Days
<1>4. ReadEnough(r)' /\ Accounted(r)'
  BY <1>1, <1>2, Quantities DEF SoleInv, ReadEnough, Accounted, Between, Recording
<1> QED
  BY <1>3, <1>4 DEF SoleInv

LEMMA SoleBegin ==
  ASSUME NEW r \in Relayers, SoleInv(r), RelayInv', Begin(r)
  PROVE  SoleInv(r)'
<1>1. UNCHANGED <<now, ledger, placed, faults, spent>>
      /\ at[r] = (IF r \in EarlyReaders THEN "thinking" ELSE "idle")
      /\ at'[r] = "fetching"
  BY DEF Begin, world, SoleInv, RelayInv, LocalType
<1>2. Today' = Today /\ LoadDailySpend' = LoadDailySpend /\ Lost' = Lost
  BY <1>1 DEF Today, DayOf, LoadDailySpend, Lost, Cap
<1>3. PastOnly' /\ BudgetPerFault'
  BY <1>1, <1>2, BudgetStays DEF SoleInv, PastOnly, Days
<1>4. ReadEnough(r)'
  BY <1>1, <1>2 DEF SoleInv, ReadEnough
<1>5. Accounted(r)'
  BY <1>1, <1>2 DEF SoleInv, Accounted, Between, Recording
<1> QED
  BY <1>3, <1>4, <1>5 DEF SoleInv

LEMMA SoleValidate ==
  ASSUME NEW r \in Relayers, SoleInv(r), RelayInv', Validate(r)
  PROVE  SoleInv(r)'
<1>0. UNCHANGED <<now, ledger, placed, faults>> /\ at[r] = "fetching"
  BY DEF Validate, world
<1>1. CASE Forget(r)
  BY <1>0, <1>1, SoleGivesUp DEF Between
<1>2. CASE ~Forget(r)
  <2>1. PICK s \in Nat, built \in SUBSET Nat :
              /\ s = IF r \in EarlyReaders THEN spent[r] ELSE LoadDailySpend
              /\ at' = [at EXCEPT ![r] = "posting"]
              /\ spent' = [spent EXCEPT ![r] = s]
              /\ orders' = [orders EXCEPT ![r] = built]
              /\ pending' = [pending EXCEPT ![r] = built]
              /\ UNCHANGED <<session, batch, accepted, base>>
    BY <1>2, Validated DEF SoleInv
  <2>2. /\ at'[r] = "posting" /\ spent'[r] = s
        /\ orders'[r] = pending'[r]
    BY <2>1 DEF SoleInv, RelayInv, LocalType
  <2>3. Left(r)' = Total(r)'
    BY <2>2 DEF Left, Total
  <2>4. Today' = Today /\ LoadDailySpend' = LoadDailySpend /\ Lost' = Lost
    BY <1>0 DEF Today, DayOf, LoadDailySpend, Lost, Cap
  <2>5. PastOnly' /\ BudgetPerFault'
    BY <1>0, <2>4, BudgetStays DEF SoleInv, PastOnly, Days
  <2>6. LoadDailySpend <= s
    BY <1>0, <2>1, Quantities DEF SoleInv, ReadEnough
  <2>7. ReadEnough(r)'
    BY <2>2, <2>4, <2>6 DEF ReadEnough
  <2>8. placed[Today] <= LoadDailySpend + Lost
    BY <1>0 DEF SoleInv, Accounted, Between
  <2>9. placed[Today] + Total(r)' <= LoadDailySpend + Total(r)' + Lost
    <3>1. Total(r)' \in Nat
      <4>1. batch'[r] \in Seq(IntentType) /\ orders'[r] \subseteq DOMAIN batch'[r]
        BY DEF RelayInv, LocalType, Cycle
      <4> QED
        BY <4>1, UsdOfMore DEF Total, UsdOf
    <3>2. placed[Today] \in Nat /\ LoadDailySpend \in Nat /\ Lost \in Nat
      BY Quantities DEF SoleInv
    <3> QED
      BY <2>8, <3>1, <3>2
  <2>10. Accounted(r)'
    BY <1>0, <2>2, <2>3, <2>4, <2>8, <2>9 DEF Accounted, Between, Recording
  <2> QED
    BY <2>5, <2>7, <2>10 DEF SoleInv
<1> QED
  BY <1>1, <1>2

LEMMA SoleNoClient ==
  ASSUME NEW r \in Relayers, SoleInv(r), RelayInv', ClientUnavailable(r)
  PROVE  SoleInv(r)'
<1>1. /\ Forget(r) /\ UNCHANGED <<now, ledger, placed, faults>>
      /\ at[r] = "posting" /\ pending[r] = orders[r] /\ at'[r] = "idle"
  BY DEF ClientUnavailable, world, Forget, SoleInv, RelayInv, LocalType
<1>2. Left(r) = Total(r)
  BY <1>1 DEF Left, Total
<1>3. placed[Today] + Left(r) <= LoadDailySpend + Total(r) + Lost
  BY <1>1 DEF SoleInv, Accounted
<1>4. placed[Today] <= LoadDailySpend + Lost
  BY <1>2, <1>3, Quantities DEF SoleInv
<1>5. Lost' = Lost
  BY <1>1 DEF Lost, Cap
<1> QED
  BY <1>1, <1>4, <1>5, BudgetStays, Ended DEF SoleInv

LEMMA SoleNothing ==
  ASSUME NEW r \in Relayers, SoleInv(r), RelayInv', NothingSubmitted(r)
  PROVE  SoleInv(r)'
<1>1. /\ Forget(r) /\ UNCHANGED <<now, ledger, placed, faults>>
      /\ at[r] = "posting" /\ ~accepted[r] /\ at'[r] = "idle"
  BY DEF NothingSubmitted, world, Forget, SoleInv, RelayInv, LocalType
<1>2. placed[Today] <= LoadDailySpend + Lost
  BY <1>1 DEF SoleInv, Accounted
<1>3. Lost' = Lost
  BY <1>1 DEF Lost, Cap
<1> QED
  BY <1>1, <1>2, <1>3, BudgetStays, Ended DEF SoleInv

(* An order leaves the pending ones; what it says of the file stays.        *)
LEMMA OneLeaves ==
  ASSUME NEW r \in Relayers, SoleInv(r), NEW i, Posting(r, i)
  PROVE  /\ i \in pending[r] /\ batch[r][i].usd \in Nat
         /\ Left(r)' \in Nat /\ Left(r) = Left(r)' + batch[r][i].usd
         /\ Total(r)' = Total(r) /\ spent'[r] = spent[r]
         /\ Today' = Today /\ LoadDailySpend' = LoadDailySpend /\ ledger' = ledger
         /\ at[r] = "posting" /\ at'[r] = "posting"
<1>1. /\ i \in pending[r] /\ pending'[r] = pending[r] \ {i}
      /\ UNCHANGED <<now, ledger, at, batch, spent, orders>> /\ at[r] = "posting"
  BY DEF Posting, world, SoleInv, RelayInv, LocalType
<1>2. batch[r] \in Seq(IntentType) /\ pending[r] \subseteq DOMAIN batch[r]
  BY <1>1, SizeIsNat DEF SoleInv
<1>3. /\ batch[r][i].usd \in Nat /\ UsdOf(batch[r], pending[r] \ {i}) \in Nat
      /\ UsdOf(batch[r], pending[r]) = UsdOf(batch[r], pending[r] \ {i}) + batch[r][i].usd
  BY <1>1, <1>2, UsdOfOneLess
<1>4. Left(r)' = UsdOf(batch[r], pending[r] \ {i})
  BY <1>1 DEF Left
<1>5. Today' = Today /\ LoadDailySpend' = LoadDailySpend
  BY <1>1 DEF Today, DayOf, LoadDailySpend
<1>6. Total(r)' = Total(r)
  BY <1>1 DEF Total
<1> QED
  BY <1>1, <1>3, <1>4, <1>5, <1>6 DEF Left

(* The order is not placed.                                                 *)
LEMMA SoleNotPlaced ==
  ASSUME NEW r \in Relayers, SoleInv(r), RelayInv', NEW i, Posting(r, i),
         UNCHANGED <<placed, faults>>, ~accepted'[r] => ~accepted[r]
  PROVE  SoleInv(r)'
<1>1. Lost' = Lost
  BY DEF Lost, Cap
<1>2. PastOnly' /\ BudgetPerFault' /\ ReadEnough(r)'
  BY BudgetStays, OneLeaves DEF SoleInv, PastOnly, ReadEnough, Days
<1>3. /\ placed[Today] + Left(r) <= LoadDailySpend + Total(r) + Lost
      /\ ~accepted[r] => placed[Today] <= LoadDailySpend + Lost
  BY OneLeaves DEF SoleInv, Accounted
<1>4. placed[Today] + Left(r)' <= LoadDailySpend + Total(r) + Lost
  BY <1>3, OneLeaves, Quantities DEF SoleInv
<1>5. Accounted(r)'
  BY <1>1, <1>3, <1>4, OneLeaves DEF Accounted, Between, Recording
<1> QED
  BY <1>2, <1>5 DEF SoleInv

(* The order is placed, its answer may be lost.                             *)
LEMMA SolePlaced ==
  ASSUME NEW r \in Relayers, SoleInv(r), RelayInv', NEW i, Posting(r, i), Place(r, i),
         \/ faults' = faults /\ accepted'[r]
         \/ faults' = faults + 1
  PROVE  SoleInv(r)'
<1> DEFINE p == placed[Today]
           q == placed'[Today]
           u == batch[r][i].usd
           L == LoadDailySpend
           T == Total(r)
           W == Left(r)
           V == Left(r)'
           S == spent[r]
<1>1. /\ q = p + u /\ \A d \in Days : d # Today => placed'[d] = placed[d]
  BY PlacedType, OneLeaves DEF SoleInv
<1>2. /\ {Cap, faults, Lost, p, u, L, T, W, V, S} \subseteq Nat
      /\ W = V + u /\ S + T <= Cap /\ L <= S
      /\ p + W <= L + T + Lost
  <2>1. u \in Nat /\ V \in Nat /\ W = V + u /\ at[r] = "posting"
    BY OneLeaves
  <2>2. p \in Nat
    BY Quantities DEF SoleInv
  <2>3. L <= S /\ p + W <= L + T + Lost
    BY <2>1 DEF SoleInv, ReadEnough, Accounted
  <2> QED
    BY <2>1, <2>2, <2>3, Quantities DEF SoleInv
<1> HIDE DEF p, q, u, L, T, W, V, S
<1>3. PICK M \in Nat : /\ M = Lost' /\ Lost <= M /\ Cap * (1 + faults') = Cap + M
                       /\ faults' = faults + 1 => M = Cap + Lost
  <2>1. CASE faults' = faults
    <3>1. Lost' = Lost /\ Cap * (1 + faults) = Cap + Lost
      BY <2>1, Quantities DEF SoleInv, Lost, Cap
    <3>2. faults' # faults + 1
      BY <1>2, <2>1
    <3>3. Lost \in Nat /\ Lost <= Lost
      BY <1>2
    <3> QED
      BY <2>1, <3>1, <3>2, <3>3
  <2>2. CASE faults' = faults + 1
    <3>1. Lost' = Cap * (1 + faults) /\ Cap * (1 + faults) = Cap + Lost
      <4>1. faults + 1 = 1 + faults
        BY <1>2
      <4>2. Lost' = Cap * (1 + faults)
        BY <2>2, <4>1 DEF Lost, Cap
      <4> QED
        BY <4>2, Quantities DEF SoleInv
    <3>2. faults' \in Nat
      BY <1>2, <2>2
    <3>3. Cap * (1 + faults') = Cap + Lost'
      BY <1>2, <3>2, OneMore DEF Lost, Cap
    <3>4. Cap + Lost \in Nat /\ Lost <= Cap + Lost
      BY <1>2
    <3> QED
      BY <3>1, <3>3, <3>4
  <2> QED
    BY <2>1, <2>2
<1>4. q + V <= L + T + Lost /\ q <= Cap + Lost /\ q \in Nat
  BY <1>1, <1>2
<1>d. ASSUME NEW d \in Days PROVE placed'[d] <= Cap + M
  <2>1. CASE d = Today
    <3>1. q <= Cap + M
      BY <1>2, <1>3, <1>4
    <3> QED
      BY <2>1, <3>1 DEF q
  <2>2. CASE d # Today
    <3>1. placed[d] <= Cap + Lost /\ placed[d] \in Nat
      BY Quantities DEF SoleInv, BudgetPerFault, Cap
    <3>2. placed[d] <= Cap + M
      BY <1>2, <1>3, <1>4, <3>1
    <3> QED
      BY <1>1, <2>2, <3>2
  <2> QED
    BY <2>1, <2>2
<1>5. BudgetPerFault'
  <2>1. \A d \in Days : placed'[d] <= Cap * (1 + faults')
    BY <1>3, <1>d
  <2> QED
    BY <2>1 DEF BudgetPerFault, Cap
<1>6. PastOnly'
  <2>1. Today \in Nat /\ Days \subseteq Nat
    BY Quantities DEF SoleInv
  <2> QED
    BY <1>1, <2>1, OneLeaves DEF SoleInv, PastOnly, Days
<1>7. ReadEnough(r)'
  BY OneLeaves DEF SoleInv, ReadEnough
<1>8. q + V <= L + T + M
  BY <1>2, <1>3, <1>4
<1>9. ~accepted'[r] => q <= L + M
  <2>1. CASE accepted'[r]
    BY <2>1
  <2>2. CASE faults' = faults + 1
    BY <1>2, <1>3, <1>4, <2>2
  <2> QED
    BY <2>1, <2>2
<1>10. Accounted(r)'
  BY <1>3, <1>8, <1>9, OneLeaves DEF Accounted, Between, Recording, q, V, L, T
<1> QED
  BY <1>5, <1>6, <1>7, <1>10 DEF SoleInv

LEMMA SolePosts ==
  ASSUME NEW r \in Relayers, SoleInv(r), RelayInv', PostOutcome(r)
  PROVE  SoleInv(r)'
<1>1. PICK i : PostAccepted(r, i) \/ PostRejected(r, i) \/ PostUnnumbered(r, i) \/ PostUnanswered(r, i)
  BY DEF PostOutcome
<1>2. CASE PostAccepted(r, i)
  <2>1. accepted'[r]
    BY <1>2 DEF PostAccepted, SoleInv, RelayInv, LocalType
  <2> QED
    BY <1>2, <2>1, SolePlaced DEF PostAccepted
<1>3. CASE PostRejected(r, i)
  BY <1>3, SoleNotPlaced DEF PostRejected
<1>4. CASE PostUnnumbered(r, i)
  <2>1. accepted'[r]
    BY <1>4 DEF PostUnnumbered, SoleInv, RelayInv, LocalType
  <2> QED
    BY <1>4, <2>1, SoleNotPlaced DEF PostUnnumbered
<1>5. CASE PostUnanswered(r, i)
  BY <1>5, SolePlaced DEF PostUnanswered
<1> QED
  BY <1>1, <1>2, <1>3, <1>4, <1>5

LEMMA SoleRecordRead ==
  ASSUME NEW r \in Relayers, SoleInv(r), RelayInv', RecordRead(r)
  PROVE  SoleInv(r)'
<1>1. /\ UNCHANGED <<now, ledger, placed, faults, batch, spent, orders>>
      /\ at[r] = "posting" /\ pending[r] = {} /\ at'[r] = "writing"
      /\ base'[r] = [date |-> Today, spentUsdc |-> LoadDailySpend]
  BY DEF RecordRead, world, SoleInv, RelayInv, LocalType
<1>2. /\ Today' = Today /\ Lost' = Lost /\ Total(r)' = Total(r)
      /\ base'[r].date = Today /\ base'[r].spentUsdc = LoadDailySpend
  BY <1>1 DEF Today, DayOf, Lost, Cap, Total
<1>3. PastOnly' /\ BudgetPerFault' /\ ReadEnough(r)'
  BY <1>1, <1>2, BudgetStays DEF SoleInv, PastOnly, ReadEnough, Days
<1>4. Left(r) = 0
  BY <1>1, UsdOfNone DEF Left
<1>5. LoadDailySpend <= spent[r] /\ placed[Today] + Left(r) <= LoadDailySpend + Total(r) + Lost
  BY <1>1 DEF SoleInv, ReadEnough, Accounted
<1>6. placed[Today] <= LoadDailySpend + Total(r) + Lost /\ Today <= Today
  BY <1>4, <1>5, Quantities DEF SoleInv
<1>7. Accounted(r)'
  <2>1. \A d \in Days : d > Today => placed[d] = 0
    BY DEF SoleInv, PastOnly
  <2> QED
    BY <1>1, <1>2, <1>5, <1>6, <2>1 DEF Accounted, Between, Recording, Days
<1> QED
  BY <1>3, <1>7 DEF SoleInv

LEMMA SoleRecordTruncate ==
  ASSUME NEW r \in Relayers, SoleInv(r), RelayInv', RecordTruncate(r)
  PROVE  SoleInv(r)'
<1>1. /\ UNCHANGED <<now, placed, faults, batch, spent, orders, base>>
      /\ at[r] = "writing" /\ at'[r] = "filling"
      /\ ledger' = [ledger EXCEPT !.readable = FALSE]
  BY DEF RecordTruncate, world, SoleInv, RelayInv, LocalType
<1>2. Today' = Today /\ Lost' = Lost /\ Total(r)' = Total(r) /\ ledger'.date = ledger.date
  BY <1>1 DEF Today, DayOf, Lost, Cap, Total, SoleInv, RelayInv, WorldType
<1>3. PastOnly' /\ BudgetPerFault' /\ ReadEnough(r)'
  BY <1>1, <1>2, BudgetStays DEF SoleInv, PastOnly, ReadEnough, Days
<1>4. Accounted(r)'
  BY <1>1, <1>2 DEF SoleInv, Accounted, Between, Recording, Days
<1> QED
  BY <1>3, <1>4 DEF SoleInv

LEMMA SoleRecordFill ==
  ASSUME NEW r \in Relayers, SoleInv(r), RelayInv', RecordFill(r)
  PROVE  SoleInv(r)'
<1> DEFINE day == base[r].date
           sum == base[r].spentUsdc + Total(r)
<1>1. /\ UNCHANGED <<now, placed, faults>> /\ at[r] = "filling" /\ at'[r] = "idle"
      /\ ledger' = [date |-> day, spentUsdc |-> sum, readable |-> TRUE]
  BY DEF RecordFill, Forget, Recorded, Total, world, SoleInv, RelayInv, LocalType
<1>2. Today' = Today /\ Lost' = Lost
  BY <1>1 DEF Today, DayOf, Lost, Cap
<1>3. day <= Today /\ placed[day] <= sum + Lost /\ \A d \in Days : d > day => placed[d] = 0
  BY <1>1 DEF SoleInv, Accounted, Recording
<1>4. day \in Nat /\ Today \in Nat /\ Today \in Days /\ Lost \in Nat
  BY Quantities DEF SoleInv
<1>5. LoadDailySpend' = IF day = Today THEN sum ELSE 0
  BY <1>1, <1>2 DEF LoadDailySpend
<1>6. placed[Today] <= LoadDailySpend' + Lost
  <2>1. CASE day = Today
    BY <1>3, <1>5, <2>1
  <2>2. CASE day # Today
    <3>1. Today > day
      BY <1>3, <1>4, <2>2
    <3>2. placed[Today] = 0 /\ LoadDailySpend' = 0
      BY <1>3, <1>4, <1>5, <2>2, <3>1
    <3> QED
      BY <1>4, <3>2
  <2> QED
    BY <2>1, <2>2
<1>7. PastOnly'
  BY <1>1, <1>2, <1>3 DEF SoleInv, PastOnly, Days
<1>8. ReadEnough(r)' /\ Accounted(r)'
  BY <1>1, <1>2, <1>6 DEF ReadEnough, Accounted, Between, Recording
<1> QED
  BY <1>1, <1>7, <1>8, BudgetStays DEF SoleInv

(* The clock: a new day has seen no orders, and the file speaks of it as of *)
(* a day without any.                                                       *)
LEMMA SoleTick ==
  ASSUME NEW r \in Relayers, SoleInv(r), RelayInv', Tick
  PROVE  SoleInv(r)'
<1>1. now' = now + 1 /\ UNCHANGED <<ledger, placed, faults, local>>
  BY DEF Tick, Elsewhere
<1>2. /\ Lost' = Lost /\ Total(r)' = Total(r) /\ Left(r)' = Left(r) /\ base' = base
      /\ spent' = spent /\ at' = at /\ accepted' = accepted
  BY <1>1 DEF local, Lost, Cap, Total, Left
<1>3. Today <= Today' /\ Today' \in Nat /\ Today \in Nat /\ Today' \in Days
  <2>1. now \in Nat /\ now + 1 \in Nat /\ now <= now + 1
    BY RelayAssumption DEF SoleInv, RelayInv, WorldType
  <2>2. DayOf(now) <= DayOf(now + 1) /\ DayOf(now) \in Nat /\ DayOf(now + 1) \in Nat
    BY <2>1, DaysGoForward, DayIsNat
  <2>3. DayOf(now + 1) <= DayOf(MaxTime) /\ DayOf(MaxTime) \in Nat
    <3>1. MaxTime \in Nat /\ now + 1 <= MaxTime
      BY <2>1, RelayAssumption DEF Tick
    <3> QED
      BY <2>1, <3>1, DaysGoForward, DayIsNat
  <2> QED
    BY <1>1, <2>2, <2>3 DEF Today, Days
<1>4. Days \subseteq Nat /\ ledger.date \in Nat
  BY Quantities DEF SoleInv
<1>5. PastOnly'
  BY <1>1, <1>3, <1>4 DEF SoleInv, PastOnly, Days
<1>6. CASE Today' = Today
  <2>1. LoadDailySpend' = LoadDailySpend
    BY <1>1, <1>6 DEF LoadDailySpend
  <2>2. ReadEnough(r)' /\ Accounted(r)'
    BY <1>1, <1>2, <1>6, <2>1 DEF SoleInv, ReadEnough, Accounted, Between, Recording, Days
  <2> QED
    BY <1>1, <1>5, <2>2, BudgetStays DEF SoleInv
<1>7. CASE Today' # Today
  <2>1. Today < Today'
    BY <1>3, <1>7
  <2>2. placed[Today'] = 0 /\ ledger.date # Today'
    BY <1>3, <1>4, <2>1 DEF SoleInv, PastOnly
  <2>3. LoadDailySpend' = 0
    BY <1>1, <2>2 DEF LoadDailySpend
  <2>4. /\ Lost \in Nat /\ Left(r) <= Total(r) /\ Left(r) \in Nat /\ Total(r) \in Nat /\ spent[r] \in Nat
        /\ base[r].date \in Nat
    BY Quantities DEF SoleInv
  <2>5. ReadEnough(r)'
    BY <1>2, <2>3, <2>4 DEF ReadEnough
  <2>6. 0 <= 0 + Lost /\ 0 + Left(r) <= 0 + Total(r) + Lost
    BY <2>4
  <2>7. Recording(r) =>
          /\ base[r].date <= Today' /\ base[r].spentUsdc <= spent[r]
          /\ placed[base[r].date] <= base[r].spentUsdc + Total(r) + Lost
          /\ \A d \in Days : d > base[r].date => placed[d] = 0
    BY <1>3, <2>4 DEF SoleInv, Accounted
  <2>8. Accounted(r)'
    BY <1>1, <1>2, <2>2, <2>3, <2>6, <2>7 DEF Accounted, Between, Recording, Days
  <2> QED
    BY <1>1, <1>5, <2>5, <2>8, BudgetStays DEF SoleInv
<1> QED
  BY <1>6, <1>7

(* The policies are no concern of the ledger.                               *)
LEMMA SoleStays ==
  ASSUME NEW r \in Relayers, SoleInv(r), RelayInv', UNCHANGED <<now, ledger, placed, faults, local>>
  PROVE  SoleInv(r)'
<1>1. /\ Lost' = Lost /\ Total(r)' = Total(r) /\ Left(r)' = Left(r)
      /\ Today' = Today /\ LoadDailySpend' = LoadDailySpend
      /\ base' = base /\ spent' = spent /\ at' = at /\ accepted' = accepted
  BY DEF local, Lost, Cap, Total, Left, Today, DayOf, LoadDailySpend
<1> QED
  BY <1>1, BudgetStays DEF SoleInv, PastOnly, ReadEnough, Accounted, Between, Recording, Days

LEMMA SoleStep ==
  ASSUME NEW r, SoleInv(r), [Next]_vars
  PROVE  SoleInv(r)'
<1>1. RelayInv' /\ r \in Relayers /\ Relayers = {r}
  BY RelayStep DEF SoleInv
<1>2. CASE Relay(r)
  <2>1. CASE ReadEarly(r)
    BY <1>1, <2>1, SoleReadEarly
  <2>2. CASE Begin(r)
    BY <1>1, <2>2, SoleBegin
  <2>3. CASE Abort(r)
    <3>1. Forget(r) /\ UNCHANGED <<now, ledger, placed, faults>> /\ Between(r)
      BY <2>3 DEF Abort, world, Between
    <3> QED
      BY <1>1, <3>1, SoleGivesUp
  <2>4. CASE Validate(r)
    BY <1>1, <2>4, SoleValidate
  <2>5. CASE ClientUnavailable(r)
    BY <1>1, <2>5, SoleNoClient
  <2>6. CASE PostOutcome(r)
    BY <1>1, <2>6, SolePosts
  <2>7. CASE NothingSubmitted(r)
    BY <1>1, <2>7, SoleNothing
  <2>8. CASE RecordRead(r)
    BY <1>1, <2>8, SoleRecordRead
  <2>9. CASE RecordTruncate(r)
    BY <1>1, <2>9, SoleRecordTruncate
  <2>10. CASE RecordFill(r)
    BY <1>1, <2>10, SoleRecordFill
  <2>11. CASE Crash(r)
    BY <1>1, <2>11, SoleCrash
  <2>12. CASE Start(r)
    BY <1>1, <2>12, SoleStart
  <2> QED
    BY <1>2, <2>1, <2>2, <2>3, <2>4, <2>5, <2>6, <2>7, <2>8, <2>9, <2>10, <2>11, <2>12 DEF Relay
<1>3. CASE Tick
  BY <1>1, <1>3, SoleTick
<1>4. CASE RenewSession \/ SetOnChain \/ UNCHANGED vars
  <2>1. UNCHANGED <<now, ledger, placed, faults, local>>
    BY <1>4 DEF RenewSession, SetOnChain, Elsewhere, vars, world
  <2> QED
    BY <1>1, <2>1, SoleStays
<1> QED
  BY <1>1, <1>2, <1>3, <1>4 DEF Next

LEMMA SoleStarts ==
  ASSUME NEW r, Relayers = {r}, Init
  PROVE  SoleInv(r)
<1>1. RelayInv /\ r \in Relayers
  BY RelayStarts
<1>2. /\ ledger = [date |-> 0, spentUsdc |-> 0, readable |-> FALSE]
      /\ placed = [d \in Days |-> 0] /\ at[r] = "idle"
  BY <1>1 DEF Init
<1>3. /\ Cap \in Nat /\ Lost \in Nat /\ LoadDailySpend \in Nat /\ Today \in Nat /\ Today \in Days
      /\ Cap * (1 + faults) = Cap + Lost
  BY <1>1, Quantities
<1>4. BudgetPerFault
  <2>1. \A d \in Days : placed[d] <= Cap * (1 + faults)
    BY <1>2, <1>3
  <2> QED
    BY <2>1 DEF BudgetPerFault, Cap
<1>5. PastOnly
  BY <1>2, <1>3 DEF PastOnly
<1>6. ReadEnough(r) /\ Accounted(r)
  BY <1>2, <1>3 DEF ReadEnough, Accounted, Between, Recording
<1> QED
  BY <1>1, <1>4, <1>5, <1>6 DEF SoleInv

(* Each crash, truncated file or lost answer of a sole relayer lets through *)
(* at most one more daily limit; without them the cap is kept, whatever     *)
(* midnight, refusals, policies and the age of its reading do.              *)
THEOREM SoleBudgetPerFault ==
  ASSUME NEW r, Relayers = {r}
  PROVE  Spec => []BudgetPerFault
<1>1. Init => SoleInv(r)
  BY SoleStarts
<1>2. SoleInv(r) /\ [Next]_vars => SoleInv(r)'
  BY SoleStep
<1>3. SoleInv(r) => BudgetPerFault
  BY DEF SoleInv
<1> QED
  BY <1>1, <1>2, <1>3, PTL DEF Spec

(* Between cycles of a sole relayer the ledger accounts for what was placed *)
(* today, up to one daily limit for each record lost.                       *)
THEOREM SoleLedgerCovers ==
  ASSUME NEW r, Relayers = {r}
  PROVE  Spec => []LedgerCoversPlaced
<1>1. Init => SoleInv(r)
  BY SoleStarts
<1>2. SoleInv(r) /\ [Next]_vars => SoleInv(r)'
  BY SoleStep
<1>3. SoleInv(r) => LedgerCoversPlaced
  BY DEF SoleInv, Accounted, Between, Lost, Cap, LedgerCoversPlaced
<1> QED
  BY <1>1, <1>2, <1>3, PTL DEF Spec

-----------------------------------------------------------------------------
(* Sessions.                                                                *)

(* While a relayer awaits the contract it holds what its process was         *)
(* started with, whatever the operator has put in .env since.                *)
HoldsItsOwn(r) == at[r] = "fetching" => policy[r] = session[r]

SessionInv == \A r \in Relayers : HoldsItsOwn(r)

LEMMA Validity ==
  ASSUME RelayInv, NEW r \in Relayers
  PROVE  session[r].validUntil \in Nat /\ policy[r].validUntil \in Nat /\ now \in Nat
<1>1. session[r] \in PolicyType /\ policy[r] \in PolicyType
  BY DEF RelayInv, LocalType
<1>2. now \in Nat
  BY RelayAssumption DEF RelayInv, WorldType
<1> QED
  BY <1>1, <1>2 DEF PolicyType

LEMMA MergeExpires ==
  ASSUME NEW off \in PolicyType, NEW on \in OnChainPolicies \cup {NoContract}
  PROVE  Merge(off, on).validUntil <= off.validUntil
<1>1. off.validUntil \in Nat
  BY DEF PolicyType
<1>2. CASE on = NoContract \/ on.paused
  BY <1>1, <1>2 DEF Merge
<1>3. CASE ~(on = NoContract \/ on.paused)
  <2>1. [validUntil |-> on.validUntil, daily |-> on.daily,
         perTx |-> on.perTx, maxNav |-> on.maxNav] \in PolicyType
    BY <1>3, RelayAssumption
  <2>2. on.validUntil \in Nat
    BY <2>1 DEF PolicyType
  <2>3. Merge(off, on).validUntil = LesserOf(off.validUntil, on.validUntil)
    BY <1>3 DEF Merge
  <2> QED
    BY <1>1, <2>2, <2>3 DEF LesserOf
<1> QED
  BY <1>2, <1>3

(* Only Begin leads to the wait for the contract, and only a start, between *)
(* cycles, changes a process's session.                                     *)
LEMMA SessionStays ==
  ASSUME RelayInv, SessionInv, [Next]_vars
  PROVE  SessionInv'
<1>1. ASSUME NEW r \in Relayers, Relay(r) PROVE SessionInv'
  <2>1. HoldsItsOwn(r)'
    <3>1. CASE Forget(r)
      BY <3>1 DEF Forget, RelayInv, LocalType, HoldsItsOwn
    <3>2. CASE Begin(r)
      BY <3>2 DEF Begin, RelayInv, LocalType, HoldsItsOwn
    <3>3. CASE PostOutcome(r)
      BY <3>3 DEF PostOutcome, PostAccepted, PostRejected, PostUnnumbered, PostUnanswered,
                  Posting, SessionInv, HoldsItsOwn
    <3>4. CASE ~(Forget(r) \/ Begin(r) \/ PostOutcome(r))
      <4>1. at'[r] # "fetching"
        BY <1>1, <3>4 DEF Relay, Start, ReadEarly, Abort, Validate, ClientUnavailable,
             NothingSubmitted, RecordRead, RecordTruncate, RecordFill, Crash, RelayInv, LocalType
      <4> QED
        BY <4>1 DEF HoldsItsOwn
    <3> QED
      BY <3>1, <3>2, <3>3, <3>4
  <2>2. OthersSame(r)
    BY <1>1, RelayKeeps
  <2> QED
    BY <2>1, <2>2 DEF SessionInv, HoldsItsOwn, OthersSame, Same
<1>2. CASE Tick \/ RenewSession \/ SetOnChain \/ UNCHANGED vars
  BY <1>2 DEF Tick, RenewSession, SetOnChain, Elsewhere, local, vars, SessionInv, HoldsItsOwn
<1> QED
  BY <1>1, <1>2 DEF Next

(* Orders are taken on while the process's session lasts.                   *)
LEMMA OrdersInSession ==
  ASSUME RelayInv, SessionInv, [Next]_vars, NEW r \in Relayers, now >= session[r].validUntil
  PROVE  pending'[r] \subseteq pending[r]
<1>1. ASSUME NEW q \in Relayers, Relay(q), q # r PROVE pending'[r] = pending[r]
  BY <1>1, RelayKeeps DEF OthersSame, Same
<1>2. CASE Relay(r)
  <2>1. CASE Forget(r)
    BY <2>1 DEF Forget, RelayInv, LocalType
  <2>2. CASE Validate(r) /\ ~Forget(r)
    <3>1. PICK p \in FetchedPolicies(r), chosen \in SUBSET DOMAIN batch[r] :
            /\ \E s : Approves(chosen, batch[r], p, s)
            /\ {i \in chosen : batch[r][i].buildable} # {}
      BY <2>2 DEF Validate
    <3>2. policy[r] \in PolicyType /\ onChain \in OnChainPolicies \cup {NoContract}
      BY DEF RelayInv, LocalType, WorldType
    <3>3. p = policy[r] \/ p = Merge(policy[r], onChain)
      BY DEF FetchedPolicies
    <3>4. p.validUntil <= policy[r].validUntil /\ p.validUntil \in Nat
      BY <3>2, <3>3, MergeExpires, MergeIsStricter, Validity DEF PolicyType
    <3>5. policy[r] = session[r]
      BY <2>2 DEF Validate, SessionInv, HoldsItsOwn
    <3>6. now < p.validUntil
      BY <3>1 DEF Approves, InSession
    <3> QED
      BY <3>4, <3>5, <3>6, Validity
  <2>3. CASE PostOutcome(r)
    BY <2>3 DEF PostOutcome, PostAccepted, PostRejected, PostUnnumbered, PostUnanswered, Posting,
                RelayInv, LocalType
  <2>4. CASE pending' = pending
    BY <2>4
  <2> QED
    BY <1>2, <2>1, <2>2, <2>3, <2>4
       DEF Relay, Start, ReadEarly, Begin, Abort, ClientUnavailable, NothingSubmitted,
         RecordRead, RecordTruncate, RecordFill, Crash
<1>3. CASE Tick \/ RenewSession \/ SetOnChain \/ UNCHANGED vars
  BY <1>3 DEF Tick, RenewSession, SetOnChain, Elsewhere, local, vars
<1> QED
  BY <1>1, <1>2, <1>3 DEF Next

(* From the moment the session a process was started with expires, it takes *)
(* on no order, also when it had loaded the policy before and awaited the   *)
(* contract since, and also when the session has been renewed, for longer   *)
(* or for shorter.                                                          *)
THEOREM RelayExpiryFreezes == Spec => ExpiryFreezesOrders
<1> DEFINE Inv == RelayInv /\ SessionInv
<1>1. Init => Inv
  <2>1. Init => RelayInv
    BY RelayStarts
  <2>2. Init => SessionInv
    BY DEF Init, SessionInv, HoldsItsOwn
  <2> QED
    BY <2>1, <2>2
<1>2. Inv /\ [Next]_vars => Inv'
  BY RelayStep, SessionStays
<1>3. Inv /\ [Next]_vars =>
        [\A r \in Relayers :
           now >= session[r].validUntil => pending'[r] \subseteq pending[r]]_vars
  BY OrdersInSession
<1> HIDE DEF Inv
<1> QED
  BY <1>1, <1>2, <1>3, PTL DEF Spec, ExpiryFreezesOrders
===============================================================================
