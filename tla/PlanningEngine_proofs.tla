------------------------ MODULE PlanningEngine_proofs ------------------------
(***************************************************************************)
(* Proofs about the plan of one item at one location, for every instance:  *)
(* any length of the forecast, any stock, demand and open orders, any      *)
(* delivery rules and any policy the dataclasses accept.                   *)
(*                                                                         *)
(* The first section is about the projection of any stock, demand, orders  *)
(* and receipts (ProjectionSpec), which the engine implements; PInv is its *)
(* invariant.                                                              *)
(*                                                                         *)
(* The invariant EInv says of every line what it promised when it was      *)
(* made, in a form that the later lines and the walk over the days keep:   *)
(* what it proposes can be bought, was needed, is used up before it        *)
(* expires and lasts for its window.  The theorems at the end put these    *)
(* promises against the finished projection.                               *)
(*                                                                         *)
(* An argument over the days is an induction (Counting) over the set of    *)
(* days up to which a statement holds; the recursive functions of the      *)
(* model are shown to exist (DayByDay) and to follow their equations, and  *)
(* so are the folds over finite sets (the section on sums).                *)
(***************************************************************************)
EXTENDS PlanningEngine, FiniteSetTheorems, WellFoundedInduction, TLAPS

-----------------------------------------------------------------------------
(* The projection of any stock, demand, orders and receipts *)

\* Every two projections that run_improved_plan compares: the second has the
\* supply of the first and more.
Pairs == {<<"on_hand", "open_po">>, <<"open_po", "projected">>}

\* The same has arrived in both before day d.
AgreeBefore(less, more, d) == \A e \in Day : e < d => Supply(more, e) = Supply(less, e)

\* A shortage that was seen was seen on a day that is over.
Seen(s) == uncovered[s] < day \/ uncovered[s] = NotSeen

\* More supply, at least as much in store and no earlier a shortage.
Ordered(less, more) == /\ balance[less] <= balance[more]
                       /\ uncovered[less] <= uncovered[more]

\* Loops that had the same receipts are in the same state.  Once the first
\* is short, only what arrived up to that day counts.
InStep(less, more) ==
    /\ AgreeBefore(less, more, day) =>
          balance[more] = balance[less] /\ uncovered[more] = uncovered[less]
    /\ uncovered[less] < day /\ AgreeBefore(less, more, uncovered[less] + 1) =>
          uncovered[more] = uncovered[less]

\* The inductive invariant.
PInv == /\ InputsOK /\ ProjectionOK
        /\ \A s \in Scenario : Seen(s)
        /\ \A p \in Pairs : Ordered(p[1], p[2]) /\ InStep(p[1], p[2])

-----------------------------------------------------------------------------
\* Receipts and open orders are never negative, so the compared supply only
\* grows.
LEMMA SupplyGrows ==
    ASSUME InputsOK, receipts \in [Day -> Nat], NEW p \in Pairs, NEW d \in Day
    PROVE  /\ p[1] \in Scenario /\ p[2] \in Scenario
           /\ Supply(p[1], d) \in Nat /\ Supply(p[2], d) \in Nat
           /\ Supply(p[1], d) <= Supply(p[2], d)
<1>1. receipts[d] \in Nat /\ orders[d] \in Nat
  BY DEF InputsOK
<1>2. Supply("on_hand", d) = 0 /\ Supply("open_po", d) = orders[d]
        /\ Supply("projected", d) = orders[d] + receipts[d]
  BY DEF Supply
<1> QED
  BY <1>1, <1>2 DEF Pairs, Scenario

\* Every day of the loop is a day of the inputs.
LEMMA Days == NotSeen \in Nat /\ (\A d \in 0..NotSeen : d <= End => d \in Day)
BY DayAssumption DEF NotSeen, Day

\* The state with which the three loops start.
LEMMA StartHolds ==
    ASSUME InputsOK, receipts \in [Day -> Nat], day = 0,
           balance = [s \in Scenario |-> opening],
           uncovered = [s \in Scenario |-> NotSeen]
    PROVE  PInv
<1>1. ProjectionOK
  BY Days DEF ProjectionOK, InputsOK
<1>2. \A s \in Scenario : Seen(s)
  BY DEF Seen
<1>3. ASSUME NEW p \in Pairs PROVE Ordered(p[1], p[2]) /\ InStep(p[1], p[2])
  <2>1. p[1] \in Scenario /\ p[2] \in Scenario
    BY DEF Pairs, Scenario
  <2> QED
    BY <2>1, Days DEF Ordered, InStep, InputsOK
<1> QED
  BY <1>1, <1>2, <1>3 DEF PInv

-----------------------------------------------------------------------------
\* One day of all three loops keeps the invariant.
LEMMA DayHolds == ASSUME PInv, ProjectDay, UNCHANGED inputs PROVE PInv'
<1> USE DayAssumption
<1>0. /\ InputsOK /\ InputsOK' /\ receipts' = receipts /\ orders' = orders /\ demand' = demand
      /\ receipts \in [Day -> Nat] /\ day \in Day /\ day \in 0..End /\ day' = day + 1
      /\ demand[day] \in Nat /\ NotSeen = End + 1
  BY DEF PInv, InputsOK, ProjectionOK, ProjectDay, inputs, NotSeen, Day
<1>1. ASSUME NEW s \in Scenario
      PROVE  /\ Supply(s, day) \in Nat
             /\ \A d : Supply(s, d)' = Supply(s, d)
  BY <1>0 DEF Supply, Scenario, InputsOK
<1>2. ASSUME NEW s \in Scenario
      PROVE  /\ balance[s] \in Int /\ uncovered[s] \in 0..NotSeen /\ Seen(s)
             /\ Close(s) = balance[s] + Supply(s, day) - demand[day]
             /\ Close(s) \in Int
             /\ balance'[s] = Close(s)
             /\ uncovered'[s] = IF Close(s) < 0 /\ uncovered[s] = NotSeen
                                THEN day ELSE uncovered[s]
  <2>1. balance[s] \in Int /\ uncovered[s] \in 0..NotSeen /\ Seen(s)
    BY DEF PInv, ProjectionOK
  <2>2. Close(s) = balance[s] + Supply(s, day) - demand[day]
    BY DEF Close
  <2> QED
    BY <2>1, <2>2, <1>0, <1>1 DEF ProjectDay
<1>3. ProjectionOK'
  <2>1. balance' \in [Scenario -> Int]
    <3>1. balance' = [s \in Scenario |-> Close(s)]
      BY DEF ProjectDay
    <3> QED BY <3>1, <1>2
  <2>2. uncovered' \in [Scenario -> 0..NotSeen]
    <3>1. uncovered' = [s \in Scenario |-> IF Close(s) < 0 /\ uncovered[s] = NotSeen
                                            THEN day ELSE uncovered[s]]
      BY DEF ProjectDay
    <3>2. day \in 0..NotSeen
      BY <1>0
    <3> QED BY <3>1, <3>2, <1>2
  <2>3. day' \in 0..NotSeen
    BY <1>0
  <2> QED BY <2>1, <2>2, <2>3, <1>0 DEF ProjectionOK, NotSeen
<1>4. ASSUME NEW s \in Scenario PROVE Seen(s)'
  BY <1>0, <1>2 DEF Seen
<1>5. ASSUME NEW p \in Pairs PROVE Ordered(p[1], p[2])' /\ InStep(p[1], p[2])'
  <2> DEFINE less == p[1]
             more == p[2]
  <2>1. less \in Scenario /\ more \in Scenario /\ Supply(less, day) <= Supply(more, day)
    BY SupplyGrows, <1>0
  <2>2. Ordered(less, more) /\ InStep(less, more)
    BY DEF PInv
  <2>3. Close(less) <= Close(more)
    BY <2>1, <2>2, <1>0, <1>1, <1>2 DEF Ordered
  <2>4. Ordered(less, more)'
    <3>1. balance'[less] <= balance'[more]
      BY <2>1, <2>3, <1>2
    <3>2. uncovered'[less] <= uncovered'[more]
      BY <2>1, <2>2, <2>3, <1>0, <1>2 DEF Ordered, Seen
    <3> QED BY <3>1, <3>2 DEF Ordered
  <2>5. \A d : AgreeBefore(less, more, d)' <=> AgreeBefore(less, more, d)
    BY <1>1, <2>1 DEF AgreeBefore
  <2>6. ASSUME AgreeBefore(less, more, day + 1)
        PROVE  balance'[more] = balance'[less] /\ uncovered'[more] = uncovered'[less]
    <3>1. AgreeBefore(less, more, day) /\ Supply(more, day) = Supply(less, day)
      BY <2>6, <1>0 DEF AgreeBefore, Day
    <3>2. balance[more] = balance[less] /\ uncovered[more] = uncovered[less]
      BY <3>1, <2>2 DEF InStep
    <3> QED BY <3>1, <3>2, <2>1, <1>2
  <2>7. ASSUME uncovered'[less] < day + 1, AgreeBefore(less, more, uncovered'[less] + 1)
        PROVE  uncovered'[more] = uncovered'[less]
    <3>1. CASE uncovered[less] < day
      <4>1. uncovered'[less] = uncovered[less]
        BY <3>1, <2>1, <1>0, <1>2
      <4>2. uncovered[more] = uncovered[less]
        BY <3>1, <4>1, <2>7, <2>2 DEF InStep
      <4> QED BY <3>1, <4>1, <4>2, <2>1, <1>0, <1>2
    <3>2. CASE uncovered[less] = NotSeen
      <4>1. uncovered'[less] = day
        BY <3>2, <2>1, <2>7, <1>0, <1>2
      <4> QED BY <4>1, <2>6, <2>7
    <3> QED BY <3>1, <3>2, <2>1, <1>2 DEF Seen
  <2>8. InStep(less, more)'
    BY <2>5, <2>6, <2>7, <1>0 DEF InStep
  <2> QED BY <2>4, <2>8
<1> QED BY <1>0, <1>3, <1>4, <1>5 DEF PInv

-----------------------------------------------------------------------------
\* The invariant holds in every state of every projection.
THEOREM Inductive == ProjectionSpec => []PInv
<1>1. ProjectionInit => PInv
  <2> SUFFICES ASSUME ProjectionInit PROVE PInv
    OBVIOUS
  <2>1. receipts \in [Day -> Nat]
    BY DEF ProjectionInit
  <2> QED BY <2>1, StartHolds DEF ProjectionInit
<1>2. PInv /\ [ProjectionNext]_<<inputs, projectionVars>> => PInv'
  <2> SUFFICES ASSUME PInv, [ProjectionNext]_<<inputs, projectionVars>> PROVE PInv'
    OBVIOUS
  <2>1. CASE BeginAny /\ UNCHANGED inputs
    <3>1. InputsOK'
      BY <2>1 DEF PInv, InputsOK, inputs
    <3>2. /\ receipts' \in [Day -> Nat] /\ day' = 0
          /\ balance' = [s \in Scenario |-> opening']
          /\ uncovered' = [s \in Scenario |-> NotSeen]
      BY <2>1 DEF BeginAny, BeginProjection, inputs
    <3>3. (InputsOK /\ receipts \in [Day -> Nat] /\ day = 0
             /\ balance = [s \in Scenario |-> opening]
             /\ uncovered = [s \in Scenario |-> NotSeen] => PInv)'
      BY StartHolds, PTL
    <3> QED BY <3>1, <3>2, <3>3 DEF Scenario, NotSeen
  <2>2. CASE ProjectDay /\ UNCHANGED inputs
    BY <2>2, DayHolds
  <2>3. CASE UNCHANGED <<inputs, projectionVars>>
    BY <2>3 DEF PInv, InputsOK, ProjectionOK, Seen, Ordered, InStep, AgreeBefore, Supply,
                inputs, projectionVars
  <2> QED BY <2>1, <2>2, <2>3 DEF ProjectionNext
<1> QED BY <1>1, <1>2, PTL DEF ProjectionSpec

\* More supply, a longer runway.
LEMMA NestedFollows == PInv => CoverageNested
BY DEF PInv, CoverageNested, Ordered, Pairs

\* More supply never shortens the runway: attach_supply_coverage cannot raise
\* "non-negative receipts must not reduce continuous coverage".
THEOREM Nested == ProjectionSpec => []CoverageNested
BY NestedFollows, Inductive, PTL

\* A gap is not bridged.
LEMMA LateFollows == PInv => LateReceiptsDoNotCount
<1>1. ASSUME PInv, NEW p \in Pairs PROVE GapNotBridged(p[1], p[2])
  <2> DEFINE less == p[1]
             more == p[2]
  <2>1. /\ less \in Scenario /\ uncovered[less] \in 0..NotSeen /\ Seen(less) /\ InStep(less, more)
        /\ day \in 0..NotSeen
    BY <1>1 DEF PInv, ProjectionOK, Pairs, Scenario
  <2> SUFFICES ASSUME \A d \in 0..uncovered[less] : d <= End => Supply(more, d) = Supply(less, d)
               PROVE  uncovered[more] = uncovered[less]
    BY DEF GapNotBridged
  <2>2. CASE uncovered[less] < day
    <3>1. AgreeBefore(less, more, uncovered[less] + 1)
      BY <2>1, <2>2, DayAssumption DEF AgreeBefore, Day, NotSeen
    <3> QED BY <3>1, <2>1, <2>2 DEF InStep
  <2>3. CASE uncovered[less] = NotSeen
    <3>1. AgreeBefore(less, more, day)
      BY <2>1, <2>3, DayAssumption DEF AgreeBefore, Day, NotSeen
    <3> QED BY <3>1, <2>1 DEF InStep
  <2> QED BY <2>1, <2>2, <2>3 DEF Seen
<1> QED BY <1>1 DEF LateReceiptsDoNotCount, Pairs

\* A receipt after an earlier gap does not extend the runway of
\* continuous_coverage_runway, whatever arrives and however much.
THEOREM LateReceipts == ProjectionSpec => []LateReceiptsDoNotCount
BY LateFollows, Inductive, PTL

\* The two classifications agree: an item that is covered without a proposal
\* is not at risk with one, whatever the risk horizon.
THEOREM NeverAtRiskWhenCovered ==
    ProjectionSpec => [](\A horizon \in Int : OrderRequirement(horizon) = "covered_without_order"
                                                 => ActionableRisk(horizon) = "covered")
<1>1. PInv => \A horizon \in Int : OrderRequirement(horizon) = "covered_without_order"
                                      => ActionableRisk(horizon) = "covered"
  BY DayAssumption
     DEF PInv, ProjectionOK, Ordered, Pairs, Scenario, NotSeen, OrderRequirement, ActionableRisk
<1> QED BY <1>1, Inductive, PTL

-----------------------------------------------------------------------------
(* Induction over numbers, finite sets and days *)

\* Induction, for a set of numbers.
LEMMA Counting == ASSUME NEW S, 0 \in S, \A n \in Nat : n \in S => n + 1 \in S PROVE Nat \subseteq S
<1> DEFINE Out == Nat \ S
<1> SUFFICES ASSUME Out # {} PROVE FALSE
    OBVIOUS
<1>1. PICK n \in Out : \A m \in Out : <<m, n>> \notin OpToRel(<, Nat)
    BY NatLessThanWellFounded, WFMin, Zenon
<1>2. n # 0 /\ n - 1 \in Nat
    OBVIOUS
<1>3. <<n - 1, n>> \in OpToRel(<, Nat)
    BY <1>2 DEF OpToRel
<1>4. n - 1 \in S
    BY <1>1, <1>2, <1>3
<1> QED
    BY <1>2, <1>4

\* What holds of the empty set, and of a finite set if it holds of the sets
\* with one element less, holds of every finite set.
LEMMA Shrinking ==
    ASSUME NEW S, IsFiniteSet(S), NEW Good \in SUBSET (SUBSET S),
           {} \in Good,
           \A s \in SUBSET S : s # {} /\ (\A x \in s : s \ {x} \in Good) => s \in Good
    PROVE  SUBSET S \subseteq Good
<1> DEFINE N == {n \in Nat : \A s \in SUBSET S : Cardinality(s) <= n => s \in Good}
<1>0. ASSUME NEW s \in SUBSET S PROVE IsFiniteSet(s) /\ Cardinality(s) \in Nat
    BY FS_Subset, FS_CardinalityType
<1>1. 0 \in N
    <2>1. ASSUME NEW s \in SUBSET S, Cardinality(s) <= 0 PROVE s = {}
        <3>1. Cardinality(s) = 0
            BY <1>0, <2>1
        <3> QED
            BY <1>0, <3>1, FS_EmptySet
    <2> QED
        BY <2>1
<1>2. ASSUME NEW n \in Nat, n \in N PROVE n + 1 \in N
    <2> SUFFICES ASSUME NEW s \in SUBSET S, Cardinality(s) <= n + 1 PROVE s \in Good
        OBVIOUS
    <2>1. ASSUME NEW x \in s PROVE s \ {x} \in Good
        <3>1. Cardinality(s \ {x}) <= n
            BY <1>0, FS_RemoveElement
        <3> QED
            BY <1>2, <3>1
    <2> QED
        BY <2>1
<1>3. Cardinality(S) \in Nat /\ Cardinality(S) \in N
    <2> HIDE DEF N
    <2> QED
        BY <1>1, <1>2, Counting, FS_CardinalityType
<1>4. \A s \in SUBSET S : Cardinality(s) <= Cardinality(S)
    BY FS_Subset
<1> QED
    BY <1>3, <1>4

\* The values of a function on a finite set, and two things, are finite sets.
LEMMA Finite ==
    /\ \A D, f : IsFiniteSet(D) => IsFiniteSet({f[d] : d \in D})
    /\ \A a, b : IsFiniteSet({a, b})
<1>1. ASSUME NEW D, NEW f, IsFiniteSet(D) PROVE IsFiniteSet({f[d] : d \in D})
    <2> DEFINE T == {f[d] : d \in D}
               g == [d \in D |-> f[d]]
    <2>1. g \in Surjection(D, T)
        BY DEF Surjection
    <2> HIDE DEF g, T
    <2>2. IsFiniteSet(T)
        BY <1>1, <2>1, FS_Surjection
    <2> QED
        BY <2>2 DEF T
<1>2. ASSUME NEW a, NEW b PROVE IsFiniteSet({a, b})
    <2>1. IsFiniteSet({a}) /\ IsFiniteSet({a} \cup {b})
        BY FS_Singleton, FS_AddElement
    <2>2. {a} \cup {b} = {a, b}
        OBVIOUS
    <2> QED
        BY <2>1, <2>2
<1> QED
    BY <1>1, <1>2

\* Finite sets of numbers have a largest and a smallest one.
LEMMA Extremes ==
    ASSUME NEW S \in SUBSET Int, IsFiniteSet(S), S # {}
    PROVE  /\ Max(S) \in S /\ \A x \in S : x <= Max(S)
           /\ Min(S) \in S /\ \A x \in S : Min(S) <= x
<1> DEFINE Both(T) == /\ \E m \in T : \A x \in T : x <= m
                      /\ \E m \in T : \A x \in T : m <= x
           Good == {T \in SUBSET S : T = {} \/ Both(T)}
<1>1. ASSUME NEW T \in SUBSET S, T # {}, \A y \in T : T \ {y} \in Good PROVE Both(T)
    <2>1. PICK y \in T : TRUE
        BY <1>1
    <2>2. CASE T = {y}
        BY <2>2
    <2>3. CASE T # {y}
        <3>1. Both(T \ {y})
            <4>1. T \ {y} \in Good /\ T \ {y} # {}
                BY <1>1, <2>3
            <4> HIDE DEF Both
            <4> QED
                BY <4>1
        <3>2. PICK m \in T \ {y} : \A x \in T \ {y} : x <= m
            BY <3>1
        <3>3. PICK k \in T \ {y} : \A x \in T \ {y} : k <= x
            BY <3>1
        <3>4. \E a \in T : \A x \in T : x <= a
            <4>1. CASE y <= m
                BY <3>2, <4>1
            <4>2. CASE m <= y
                BY <3>2, <4>2
            <4> QED
                BY <4>1, <4>2
        <3>5. \E a \in T : \A x \in T : a <= x
            <4>1. CASE y <= k
                BY <3>3, <4>1
            <4>2. CASE k <= y
                BY <3>3, <4>2
            <4> QED
                BY <4>1, <4>2
        <3> QED
            BY <3>4, <3>5
    <2> QED
        BY <2>2, <2>3
<1>2. Both(S)
    <2> HIDE DEF Both
    <2>1. \A T \in SUBSET S : T # {} /\ (\A y \in T : T \ {y} \in Good) => T \in Good
        BY <1>1
    <2>2. {} \in Good /\ Good \in SUBSET (SUBSET S)
        OBVIOUS
    <2> HIDE DEF Good
    <2>3. S \in Good
        BY <2>1, <2>2, Shrinking
    <2> USE DEF Good
    <2> QED
        BY <2>3
<1>3. PICK m \in S : \A x \in S : m >= x
    BY <1>2
<1>4. PICK k \in S : \A x \in S : k <= x
    BY <1>2
<1> QED
    BY <1>3, <1>4 DEF Max, Min

\* Functions that are computed day by day exist: first is the value before
\* day 0, step the value of a day and the value before it.
LEMMA DayByDay ==
    ASSUME NEW n \in Int, NEW first \in Int, NEW step \in [(0..n) \X Int -> Int]
    PROVE  \E g \in [0..n -> Int] :
              \A d \in 0..n : g[d] = step[<<d, IF d = 0 THEN first ELSE g[d - 1]>>]
<1> DEFINE Upto(m, g) == \A d \in 0..m - 1 :
                            g[d] = step[<<d, IF d = 0 THEN first ELSE g[d - 1]>>]
           Good == {m \in Nat : m <= n + 1 => \E g \in [0..m - 1 -> Int] : Upto(m, g)}
<1>1. 0 \in Good
    <2>1. 0..(0 - 1) = {} /\ [d \in {} |-> 0] \in [{} -> Int]
        OBVIOUS
    <2>2. \E g \in [0..0 - 1 -> Int] : Upto(0, g)
        BY <2>1
    <2> HIDE DEF Upto
    <2> QED
        BY <2>2
<1>2. ASSUME NEW m \in Nat, m \in Good PROVE m + 1 \in Good
    <2> SUFFICES ASSUME m <= n PROVE \E g \in [0..m -> Int] : Upto(m + 1, g)
        OBVIOUS
    <2>1. PICK g \in [0..m - 1 -> Int] : Upto(m, g)
        BY <1>2
    <2> DEFINE before == IF m = 0 THEN first ELSE g[m - 1]
               h == [d \in 0..m |-> IF d = m THEN step[<<m, before>>] ELSE g[d]]
    <2>2. before \in Int
        OBVIOUS
    <2>3. step[<<m, before>>] \in Int
        BY <2>2
    <2> HIDE DEF before
    <2>4. h \in [0..m -> Int]
        BY <2>3
    <2>5. ASSUME NEW d \in 0..m
          PROVE  h[d] = step[<<d, IF d = 0 THEN first ELSE h[d - 1]>>]
        <3>1. CASE d = m
            <4>1. before = IF d = 0 THEN first ELSE h[d - 1]
                BY <3>1 DEF before
            <4> QED
                BY <3>1, <4>1
        <3>2. CASE d # m
            <4>1. h[d] = g[d] /\ (d # 0 => h[d - 1] = g[d - 1])
                BY <3>2
            <4>2. g[d] = step[<<d, IF d = 0 THEN first ELSE g[d - 1]>>]
                BY <2>1, <3>2
            <4> HIDE DEF h
            <4> QED
                BY <4>1, <4>2
        <3> QED
            BY <3>1, <3>2
    <2>6. Upto(m + 1, h)
        <3>1. 0..(m + 1) - 1 = 0..m
            OBVIOUS
        <3> HIDE DEF h
        <3> QED
            BY <2>5, <3>1
    <2> HIDE DEF h, Upto
    <2> QED
        BY <2>4, <2>6
<1>3. CASE n < 0
    <2>1. [d \in 0..n |-> 0] \in [0..n -> Int] /\ 0..n = {}
        BY <1>3
    <2> QED
        BY <2>1
<1>4. CASE n >= 0
    <2> HIDE DEF Good
    <2>1. n + 1 \in Nat /\ n + 1 \in Good
        BY <1>1, <1>2, <1>4, Counting
    <2> USE DEF Good
    <2> QED
        BY <2>1
<1> QED
    BY <1>3, <1>4

-----------------------------------------------------------------------------
(* Sums *)

\* The step of SumOver: some element, and the rest.
Chosen(s) == CHOOSE x \in s : TRUE
Adds(f, g, s) == IF s = {} THEN 0 ELSE f[Chosen(s)] + g[s \ {Chosen(s)}]
IsSum(f, g, S) == g = [s \in SUBSET S |-> Adds(f, g, s)]

\* The recursive function inside a sum exists.
LEMMA SumExists == ASSUME NEW S, IsFiniteSet(S), NEW f PROVE \E g : IsSum(f, g, S)
<1> DEFINE Sub(n) == {s \in SUBSET S : Cardinality(s) <= n}
           Good == {n \in Nat : \E g : g = [s \in Sub(n) |-> Adds(f, g, s)]}
<1>1. ASSUME NEW n \in Nat, NEW s \in Sub(n + 1), s # {} PROVE s \ {Chosen(s)} \in Sub(n)
    <2>1. IsFiniteSet(s) /\ Chosen(s) \in s
        BY <1>1, FS_Subset DEF Chosen
    <2>2. Cardinality(s \ {Chosen(s)}) = Cardinality(s) - 1 /\ Cardinality(s) \in Nat
        BY <2>1, FS_RemoveElement, FS_CardinalityType
    <2> QED
        BY <2>2
<1>2. 0 \in Good
    <2>1. \A s \in Sub(0) : s = {}
        BY FS_Subset, FS_EmptySet, FS_CardinalityType
    <2>2. [s \in Sub(0) |-> 0] = [s \in Sub(0) |-> Adds(f, [t \in Sub(0) |-> 0], s)]
        BY <2>1 DEF Adds
    <2> QED
        BY <2>2
<1>3. ASSUME NEW n \in Nat, n \in Good PROVE n + 1 \in Good
    <2>1. PICK g : g = [s \in Sub(n) |-> Adds(f, g, s)]
        BY <1>3
    <2> DEFINE h == [s \in Sub(n + 1) |-> Adds(f, g, s)]
    <2>2. ASSUME NEW s \in Sub(n) PROVE s \in Sub(n + 1) /\ g[s] = h[s]
        <3>1. Cardinality(s) \in Nat
            BY FS_Subset, FS_CardinalityType
        <3>2. s \in Sub(n + 1)
            BY <3>1
        <3> QED
            BY <2>1, <3>2
    <2>3. ASSUME NEW s \in Sub(n + 1) PROVE Adds(f, g, s) = Adds(f, h, s)
        <3>1. CASE s = {}
            BY <3>1 DEF Adds
        <3>2. CASE s # {}
            <4>1. s \ {Chosen(s)} \in Sub(n)
                BY <1>1, <3>2
            <4>2. g[s \ {Chosen(s)}] = h[s \ {Chosen(s)}]
                BY <2>2, <4>1
            <4> QED
                BY <3>2, <4>2 DEF Adds
        <3> QED
            BY <3>1, <3>2
    <2>4. h = [s \in Sub(n + 1) |-> Adds(f, h, s)]
        BY <2>3
    <2> HIDE DEF h, Sub
    <2> QED
        BY <2>4
<1>4. Cardinality(S) \in Nat /\ Sub(Cardinality(S)) = SUBSET S
    BY FS_Subset, FS_CardinalityType
<1>5. Cardinality(S) \in Good
    <2> HIDE DEF Good
    <2> QED
        BY <1>2, <1>3, <1>4, Counting
<1> HIDE DEF Sub
<1> QED
    BY <1>4, <1>5 DEF IsSum

\* It is the only one, so the sums over the subsets of a set are its values.
LEMMA SumIsIt ==
    ASSUME NEW S, IsFiniteSet(S), NEW f, NEW g, IsSum(f, g, S), NEW T \in SUBSET S
    PROVE  SumOver(f, T) = g[T]
<1> DEFINE h == CHOOSE k : IsSum(f, k, T)
<1>1. IsFiniteSet(T)
    BY FS_Subset
<1>2. IsSum(f, h, T)
    BY <1>1, SumExists
<1>3. SumOver(f, T) = h[T]
    BY DEF SumOver, MapThenSumSet, MapThenFoldSet, IsSum, Adds, Chosen
<1> HIDE DEF h
<1> DEFINE Good == {s \in SUBSET T : h[s] = g[s]}
<1>4. ASSUME NEW s \in SUBSET T PROVE h[s] = Adds(f, h, s) /\ g[s] = Adds(f, g, s)
    <2>1. h = [t \in SUBSET T |-> Adds(f, h, t)] /\ g = [t \in SUBSET S |-> Adds(f, g, t)]
        BY <1>2 DEF IsSum
    <2>2. s \in SUBSET S
        OBVIOUS
    <2> HIDE DEF Good
    <2> QED
        BY <2>1, <2>2
<1>5. {} \in Good
    BY <1>4 DEF Adds
<1>6. ASSUME NEW s \in SUBSET T, s # {}, \A y \in s : s \ {y} \in Good PROVE s \in Good
    <2>1. Chosen(s) \in s
        BY <1>6 DEF Chosen
    <2>2. h[s \ {Chosen(s)}] = g[s \ {Chosen(s)}]
        BY <1>6, <2>1
    <2> QED
        BY <1>4, <1>6, <2>2 DEF Adds
<1>7. T \in Good
    <2>1. Good \in SUBSET (SUBSET T)
        OBVIOUS
    <2> HIDE DEF Good
    <2> QED
        BY <1>1, <1>5, <1>6, <2>1, Shrinking
<1> QED
    BY <1>3, <1>7

\* What a sum is made of.
LEMMA SumUnfolds ==
    ASSUME NEW S, IsFiniteSet(S), NEW f
    PROVE  /\ SumOver(f, {}) = 0
           /\ \A T \in SUBSET S : T # {} => /\ Chosen(T) \in T
                                            /\ SumOver(f, T) = f[Chosen(T)] + SumOver(f, T \ {Chosen(T)})
<1>1. PICK g : IsSum(f, g, S)
    BY SumExists
<1>2. \A T \in SUBSET S : SumOver(f, T) = g[T]
    BY <1>1, SumIsIt
<1>3. \A T \in SUBSET S : g[T] = Adds(f, g, T)
    <2>1. g = [s \in SUBSET S |-> Adds(f, g, s)]
        BY <1>1 DEF IsSum
    <2> QED
        BY <2>1
<1>4. ASSUME NEW T \in SUBSET S, T # {}
      PROVE  Chosen(T) \in T /\ SumOver(f, T) = f[Chosen(T)] + SumOver(f, T \ {Chosen(T)})
    <2>1. Chosen(T) \in T
        BY <1>4 DEF Chosen
    <2>2. T \ {Chosen(T)} \in SUBSET S
        OBVIOUS
    <2> QED
        BY <1>2, <1>3, <1>4, <2>1, <2>2 DEF Adds
<1>5. SumOver(f, {}) = 0
    BY <1>2, <1>3 DEF Adds
<1> QED
    BY <1>4, <1>5

\* A sum of natural numbers is one.
LEMMA SumIsNatural ==
    ASSUME NEW S, IsFiniteSet(S), NEW f, \A d \in S : f[d] \in Nat
    PROVE  SumOver(f, S) \in Nat
<1> DEFINE Good == {s \in SUBSET S : SumOver(f, s) \in Nat}
<1>1. {} \in Good
    BY SumUnfolds
<1>2. ASSUME NEW s \in SUBSET S, s # {}, \A x \in s : s \ {x} \in Good PROVE s \in Good
    <2>1. Chosen(s) \in s /\ SumOver(f, s) = f[Chosen(s)] + SumOver(f, s \ {Chosen(s)})
        <3>1. s # {}
            BY <1>2
        <3> HIDE DEF Good
        <3> QED
            BY <3>1, SumUnfolds
    <2>2. SumOver(f, s \ {Chosen(s)}) \in Nat
        BY <1>2, <2>1
    <2> QED
        BY <2>1, <2>2
<1>3. Good \in SUBSET (SUBSET S)
    OBVIOUS
<1>4. S \in Good
    <2> HIDE DEF Good
    <2> QED
        BY <1>1, <1>2, <1>3, Shrinking
<1> QED
    BY <1>4

\* The elements of a sum can be taken in any order.
LEMMA SumTakes ==
    ASSUME NEW S, IsFiniteSet(S), NEW f, \A d \in S : f[d] \in Nat, NEW x \in S
    PROVE  SumOver(f, S) = f[x] + SumOver(f, S \ {x})
<1> DEFINE Good == {s \in SUBSET S : \A y \in s : SumOver(f, s) = f[y] + SumOver(f, s \ {y})}
<1>1. \A s \in SUBSET S : SumOver(f, s) \in Nat
    BY SumIsNatural, FS_Subset
<1>2. ASSUME NEW s \in SUBSET S, s # {}, \A z \in s : s \ {z} \in Good, NEW y \in s
      PROVE  SumOver(f, s) = f[y] + SumOver(f, s \ {y})
    <2> DEFINE c == Chosen(s)
    <2>1. c \in s /\ SumOver(f, s) = f[c] + SumOver(f, s \ {c})
        BY <1>2, SumUnfolds
    <2> HIDE DEF c
    <2>2. CASE c = y
        BY <2>1, <2>2
    <2>3. CASE c # y
        <3>1. SumOver(f, s \ {c}) = f[y] + SumOver(f, (s \ {c}) \ {y})
            BY <1>2, <2>1, <2>3
        <3>2. SumOver(f, s \ {y}) = f[c] + SumOver(f, (s \ {y}) \ {c})
            BY <1>2, <2>1, <2>3
        <3>3. (s \ {c}) \ {y} = (s \ {y}) \ {c}
            OBVIOUS
        <3>4. SumOver(f, (s \ {c}) \ {y}) \in Nat /\ f[c] \in Nat /\ f[y] \in Nat
            BY <1>1, <2>1
        <3>5. ASSUME NEW a \in Nat, NEW b \in Nat, NEW k \in Nat PROVE a + (b + k) = b + (a + k)
            OBVIOUS
        <3> QED
            BY <2>1, <3>1, <3>2, <3>3, <3>4, <3>5
    <2> QED
        BY <2>2, <2>3
<1>3. {} \in Good /\ Good \in SUBSET (SUBSET S)
    OBVIOUS
<1>4. S \in Good
    <2>1. \A s \in SUBSET S : s # {} /\ (\A z \in s : s \ {z} \in Good) => s \in Good
        BY <1>2
    <2> HIDE DEF Good
    <2> QED
        BY <1>3, <2>1, Shrinking
<1> QED
    BY <1>4

\* Only the values on the set count.
LEMMA SumSame ==
    ASSUME NEW S, IsFiniteSet(S), NEW f, NEW g, \A d \in S : f[d] = g[d]
    PROVE  SumOver(f, S) = SumOver(g, S)
<1> DEFINE Good == {s \in SUBSET S : SumOver(f, s) = SumOver(g, s)}
<1>1. {} \in Good
    BY SumUnfolds
<1>2. ASSUME NEW s \in SUBSET S, s # {}, \A x \in s : s \ {x} \in Good PROVE s \in Good
    <2>1. /\ Chosen(s) \in s
          /\ SumOver(f, s) = f[Chosen(s)] + SumOver(f, s \ {Chosen(s)})
          /\ SumOver(g, s) = g[Chosen(s)] + SumOver(g, s \ {Chosen(s)})
        BY <1>2, SumUnfolds
    <2>2. SumOver(f, s \ {Chosen(s)}) = SumOver(g, s \ {Chosen(s)})
        BY <1>2, <2>1
    <2> QED
        BY <2>1, <2>2
<1>3. Good \in SUBSET (SUBSET S)
    OBVIOUS
<1>4. S \in Good
    <2> HIDE DEF Good
    <2> QED
        BY <1>1, <1>2, <1>3, Shrinking
<1> QED
    BY <1>4

-----------------------------------------------------------------------------
(* Cycles *)

EngineTypes == PolicyOK(policy) /\ InputsOK /\ planned \in [Day -> Nat]

\* Where the days of a cycle are.
CycleShape(c) == /\ c.receipt \in Day /\ c.end \in Day /\ c.receipt <= c.end
                 /\ c.order \in Int /\ c.rule \in Int
                 /\ c.dates # {} /\ c.dates \in SUBSET (0..c.end)
                 /\ policy.fresh => c.receipt <= End
                 /\ policy.fresh => \A d \in c.dates : c.receipt <= d
                 /\ ~policy.fresh => c.receipt = policy.lead

\* _next_weekday_after finds a day of the next week.
LEMMA NextWeek ==
    ASSUME NEW d \in Int, NEW weekday \in 0..6
    PROVE  NextWeekdayAfter(d, weekday) \in d + 1 .. d + 7
BY DEF NextWeekdayAfter, Weekday

\* Every delivery cycle is within the days, its last date not before its receipt.
LEMMA CyclesHaveShape ==
    ASSUME EngineTypes, NEW c \in Cycles(policy, demand)
    PROVE  CycleShape(c)
<1> USE DayAssumption
<1>1. CASE policy.fresh
    <2>0. PICK rule \in MatchingRules(policy) :
              \E d \in Deliveries(rule, demand) : c = FreshCycle(policy, rule, d)
        BY <1>1 DEF Cycles, FreshCycles
    <2>1. PICK d \in Deliveries(rule, demand) : c = FreshCycle(policy, rule, d)
        BY <2>0
    <2>2. /\ rule.covers \subseteq 0..6 /\ rule.id \in Int /\ policy.lead \in Nat /\ End + 7 <= Last
          /\ d \in 0..End /\ \E v \in CoveredDates(rule, d) : TRUE
        BY <1>1 DEF EngineTypes, PolicyOK, RuleOK, WithinReach, MatchingRules, Deliveries
    <2> DEFINE D == CoveredDates(rule, d)
    <2>3. D \in SUBSET (d + 1 .. d + 7)
        <3>1. ASSUME NEW w \in rule.covers PROVE NextWeekdayAfter(d, w) \in d + 1 .. d + 7
            <4>1. d \in Int /\ w \in 0..6
                BY <2>2
            <4> QED
                BY <4>1, NextWeek
        <3> QED
            BY <3>1 DEF CoveredDates
    <2>4. IsFiniteSet(D) /\ D # {} /\ D \in SUBSET Int
        <3>1. d + 1 \in Int /\ d + 7 \in Int
            BY <2>2
        <3>2. IsFiniteSet(d + 1 .. d + 7)
            BY <3>1, FS_Interval
        <3>3. D # {}
            BY <2>2
        <3> HIDE DEF D
        <3>4. IsFiniteSet(D)
            BY <2>3, <3>2, FS_Subset
        <3> QED
            BY <2>3, <3>1, <3>3, <3>4
    <2>5. /\ c.receipt = d /\ c.order = d - policy.lead /\ c.rule = rule.id
          /\ c.dates = D /\ c.end = Max(D)
        BY <2>1 DEF FreshCycle
    <2> HIDE DEF D
    <2>6. Max(D) \in D /\ \A x \in D : x <= Max(D)
        BY <2>4, Extremes
    <2>7. c.end \in d + 1 .. d + 7
        BY <2>3, <2>5, <2>6
    <2>8. ASSUME NEW x \in D PROVE x \in 0..c.end /\ c.receipt <= x
        BY <2>2, <2>3, <2>5, <2>6
    <2> QED
        <3>1. c.receipt \in Day /\ c.end \in Day /\ c.receipt <= c.end /\ c.receipt <= End
            BY <2>2, <2>5, <2>7 DEF Day
        <3>2. c.dates # {} /\ c.dates \in SUBSET (0..c.end) /\ \A x \in c.dates : c.receipt <= x
            BY <2>4, <2>5, <2>8
        <3>3. c.order \in Int /\ c.rule \in Int
            BY <2>2, <2>5
        <3> QED
            BY <1>1, <3>1, <3>2, <3>3 DEF CycleShape
<1>2. CASE ~policy.fresh
    <2>1. PICK rule \in MatchingRules(policy) :
              /\ c.receipt = policy.lead /\ c.rule = rule.id /\ c.order = 0
              /\ c.dates = 0 .. policy.lead + rule.review - 1
              /\ c.end = policy.lead + rule.review - 1
        BY <1>2 DEF Cycles, StockedCycles
    <2>2. /\ rule.review \in Nat \ {0} /\ rule.id \in Int /\ policy.lead \in Nat
          /\ policy.lead + rule.review - 1 <= Last
        BY <1>2, <2>1 DEF EngineTypes, PolicyOK, RuleOK, WithinReach, MatchingRules
    <2> QED
        BY <1>2, <2>1, <2>2 DEF CycleShape, Day
<1> QED
    BY <1>1, <1>2

\* s of p parts of a quantity: more than it if there are more than p.
LEMMA PartsOf ==
    ASSUME NEW a \in Nat, NEW s \in Nat, NEW p \in Nat \ {0}
    PROVE  /\ (a * s) \div p \in Nat
           /\ s <= p => (a * s) \div p <= a
           /\ s >= p => (a * s) \div p >= a
<1> DEFINE q == (a * s) \div p
           r == (a * s) % p
<1>1. a * s \in Nat /\ a * p \in Nat
    OBVIOUS
<1>2. q \in Nat /\ r \in 0..p - 1 /\ a * s = p * q + r
    BY <1>1
<1>3. \A x, y, k \in Nat : x <= y => k * x <= k * y
    OBVIOUS
<1> HIDE DEF q, r
<1>4. ASSUME s <= p, q > a PROVE FALSE
    <2>1. a * s <= a * p /\ p * (a + 1) <= p * q
        BY <1>2, <1>3, <1>4
    <2>2. p * (a + 1) = a * p + p
        OBVIOUS
    <2> QED
        BY <1>1, <1>2, <2>1, <2>2
<1>5. ASSUME s >= p, q < a PROVE FALSE
    <2>1. a * p <= a * s /\ p * (q + 1) <= p * a
        BY <1>2, <1>3, <1>5
    <2>2. p * (q + 1) = p * q + p /\ p * a = a * p
        BY <1>2
    <2> QED
        BY <1>1, <1>2, <2>1, <2>2
<1> QED
    BY <1>2, <1>4, <1>5 DEF q

\* All the parts of a quantity.
LEMMA AllParts == ASSUME NEW a \in Nat, NEW p \in Nat \ {0} PROVE (a * p) \div p = a
<1>1. (a * p) \div p \in Nat /\ (a * p) \div p <= a /\ (a * p) \div p >= a
    BY PartsOf
<1> QED
    BY <1>1

\* What the recommendation takes from stock on a day is a natural number.
LEMMA AdjustedIsNatural ==
    ASSUME EngineTypes, NEW d \in Day
    PROVE  /\ Adjusted(d) \in Nat
           /\ policy.yield >= policy.parts => Adjusted(d) >= demand[d]
           /\ policy.yield <= policy.parts => Adjusted(d) <= demand[d]
           /\ demand[d] \in Nat /\ orders[d] \in Nat /\ planned[d] \in Nat
<1>1. /\ demand[d] \in Nat /\ orders[d] \in Nat /\ planned[d] \in Nat
      /\ policy.yield \in Nat /\ policy.parts \in Nat \ {0}
    BY DEF EngineTypes, InputsOK, PolicyOK
<1> QED
    BY <1>1, PartsOf DEF Adjusted

-----------------------------------------------------------------------------
(* The need of a cycle *)

\* The balance of day d, after x.
BalanceAfter(c, d, x) == LET close == x + orders[d] + planned[d] - Adjusted(d)
                         IN IF d < c.receipt THEN NonNegative(close) ELSE close

\* _balance_for_candidate computes the balance day by day.
LEMMA BalanceRuns ==
    ASSUME EngineTypes, NEW c, c.end \in Day, c.receipt \in Day
    PROVE  /\ Balance(c) \in [0..c.end -> Int]
           /\ \A d \in 0..c.end :
                 Balance(c)[d] = BalanceAfter(c, d, IF d = 0 THEN opening ELSE Balance(c)[d - 1])
<1> USE DayAssumption
<1>1. opening \in Int /\ c.end \in Nat /\ \A d \in 0..c.end : d \in Day
    BY DEF EngineTypes, InputsOK, Day
<1>2. ASSUME NEW d \in 0..c.end, NEW x \in Int PROVE BalanceAfter(c, d, x) \in Int
    BY <1>1, AdjustedIsNatural DEF BalanceAfter, NonNegative, Day
<1> DEFINE step == [p \in (0..c.end) \X Int |-> BalanceAfter(c, p[1], p[2])]
           Is(b) == b = [d \in 0..c.end |-> BalanceAfter(c, d, IF d = 0 THEN opening ELSE b[d - 1])]
<1>3. \E b : Is(b)
    <2>1. step \in [(0..c.end) \X Int -> Int]
        BY <1>2
    <2>2. \A d \in 0..c.end, x \in Int : step[<<d, x>>] = BalanceAfter(c, d, x)
        OBVIOUS
    <2> HIDE DEF step
    <2>3. PICK g \in [0..c.end -> Int] :
              \A d \in 0..c.end : g[d] = step[<<d, IF d = 0 THEN opening ELSE g[d - 1]>>]
        <3>1. c.end \in Int
            BY <1>1
        <3> QED
            BY <1>1, <2>1, <3>1, DayByDay
    <2>4. ASSUME NEW d \in 0..c.end
          PROVE  g[d] = BalanceAfter(c, d, IF d = 0 THEN opening ELSE g[d - 1])
        <3>1. (IF d = 0 THEN opening ELSE g[d - 1]) \in Int
            BY <1>1
        <3> QED
            BY <2>2, <2>3, <3>1
    <2> QED
        BY <2>3, <2>4
<1> DEFINE bal == CHOOSE b : Is(b)
<1>4. Is(bal)
    BY <1>3
<1>5. Balance(c) = bal
    BY DEF Balance, BalanceAfter
<1> HIDE DEF bal
<1>6. ASSUME NEW d \in 0..c.end
      PROVE  bal[d] = BalanceAfter(c, d, IF d = 0 THEN opening ELSE bal[d - 1])
    BY <1>4
<1> DEFINE Good == {n \in Nat : n <= c.end => bal[n] \in Int}
<1>7. 0 \in Good
    BY <1>1, <1>2, <1>6
<1>8. ASSUME NEW n \in Nat, n \in Good PROVE n + 1 \in Good
    <2> SUFFICES ASSUME n + 1 <= c.end PROVE bal[n + 1] \in Int
        OBVIOUS
    <2>1. bal[n] \in Int /\ n + 1 \in 0..c.end
        BY <1>1, <1>8
    <2>2. bal[n + 1] = BalanceAfter(c, n + 1, bal[n])
        BY <1>6, <2>1
    <2> QED
        BY <1>2, <2>1, <2>2
<1>9. \A d \in 0..c.end : bal[d] \in Int
    <2> HIDE DEF Good
    <2>1. Nat \subseteq Good
        BY <1>7, <1>8, Counting
    <2> USE DEF Good
    <2> QED
        BY <1>1, <2>1
<1>10. bal \in [0..c.end -> Int]
    BY <1>4, <1>9
<1> QED
    BY <1>5, <1>6, <1>10

\* The average demand of the covered dates is taken over at least one.
LEMMA SafetyIsNatural ==
    ASSUME EngineTypes, NEW c, CycleShape(c)
    PROVE  SafetyStock(c) \in Nat
<1>1. c.end \in Nat /\ IsFiniteSet(c.dates) /\ c.dates # {} /\ \A d \in c.dates : d \in Day
    <2>1. c.end \in Nat /\ c.end <= Last
        BY DayAssumption DEF CycleShape, Day
    <2>2. IsFiniteSet(0..c.end) /\ c.dates \in SUBSET (0..c.end) /\ c.dates # {}
        <3>1. 0 \in Int /\ c.end \in Int
            BY <2>1
        <3>2. IsFiniteSet(0..c.end)
            BY <3>1, FS_Interval
        <3> QED
            BY <3>2 DEF CycleShape
    <2>3. IsFiniteSet(c.dates)
        BY <2>2, FS_Subset
    <2> QED
        BY <2>1, <2>2, <2>3, DayAssumption DEF Day
<1>2. Cardinality(c.dates) \in Nat /\ Cardinality(c.dates) # 0
    BY <1>1, FS_CardinalityType, FS_EmptySet
<1>3. \A d \in c.dates : demand[d] \in Nat
    BY <1>1 DEF EngineTypes, InputsOK
<1>4. SumOver(demand, c.dates) \in Nat
    BY <1>1, <1>3, SumIsNatural
<1>5. policy.safety \in Nat /\ policy.parts \in Nat \ {0}
    BY DEF EngineTypes, PolicyOK
<1>6. \A a \in Nat, b \in Nat, p \in Nat \ {0}, k \in Nat \ {0} : (a * b) \div (p * k) \in Nat
    <2> TAKE a \in Nat, b \in Nat, p \in Nat \ {0}, k \in Nat \ {0}
    <2>1. a * b \in Nat /\ p * k \in Nat \ {0}
        OBVIOUS
    <2>2. \A x \in Nat, y \in Nat \ {0} : x \div y \in Nat
        OBVIOUS
    <2> QED
        BY <2>1, <2>2
<1> QED
    BY <1>2, <1>4, <1>5, <1>6 DEF SafetyStock

\* What an order has to bring: nothing, what the safety stock lacks at the end
\* of the window, or what a day from the receipt on lacks.
Lacks(c) == {0, SafetyStock(c) - Balance(c)[c.end]} \cup {-Balance(c)[d] : d \in c.receipt..c.end}

\* raw_order_g is the largest of them.
LEMMA RawIsEnough ==
    ASSUME EngineTypes, NEW c, CycleShape(c)
    PROVE  /\ RawOrder(c) \in Nat
           /\ RawOrder(c) \in Lacks(c)
           /\ \A d \in c.receipt..c.end : Balance(c)[d] + RawOrder(c) >= 0
<1>1. /\ c.end \in Day /\ c.receipt \in Day /\ c.receipt <= c.end
      /\ c.end \in Nat /\ c.receipt \in Nat
    BY DayAssumption DEF CycleShape, Day
<1>2. Balance(c) \in [0..c.end -> Int]
    BY <1>1, BalanceRuns
<1>3. SafetyStock(c) \in Nat
    BY SafetyIsNatural
<1> DEFINE D == c.receipt..c.end
           short == [d \in D |-> -Balance(c)[d]]
<1>4. \A d \in D : d \in 0..c.end /\ Balance(c)[d] \in Int
    BY <1>1, <1>2
<1>5. IsFiniteSet(D)
    BY <1>1, FS_Interval
<1>6. IsFiniteSet({-Balance(c)[d] : d \in D})
    <2>1. IsFiniteSet({short[d] : d \in D})
        BY <1>5, Finite
    <2>2. {short[d] : d \in D} = {-Balance(c)[d] : d \in D}
        OBVIOUS
    <2> QED
        BY <2>1, <2>2
<1>7. IsFiniteSet(Lacks(c)) /\ Lacks(c) # {} /\ Lacks(c) \in SUBSET Int
    <2>1. IsFiniteSet({0, SafetyStock(c) - Balance(c)[c.end]})
        BY Finite
    <2>2. SafetyStock(c) - Balance(c)[c.end] \in Int
        BY <1>1, <1>3, <1>4
    <2>3. IsFiniteSet(Lacks(c))
        BY <1>6, <2>1, FS_Union DEF Lacks
    <2>4. \A x \in Lacks(c) : x \in Int
        BY <1>4, <2>2 DEF Lacks
    <2>5. 0 \in Lacks(c)
        BY DEF Lacks
    <2> QED
        BY <2>3, <2>4, <2>5
<1>8. Max(Lacks(c)) \in Lacks(c) /\ \A x \in Lacks(c) : x <= Max(Lacks(c))
    BY <1>7, Extremes
<1>9. RawOrder(c) = Max(Lacks(c))
    BY DEF RawOrder, Lacks
<1>10. RawOrder(c) \in Nat
    BY <1>7, <1>8, <1>9 DEF Lacks
<1>11. ASSUME NEW d \in D PROVE Balance(c)[d] + RawOrder(c) >= 0
    <2>1. -Balance(c)[d] \in Lacks(c)
        BY DEF Lacks
    <2> QED
        BY <1>4, <1>8, <1>9, <1>10, <2>1
<1> QED
    BY <1>8, <1>9, <1>10, <1>11

-----------------------------------------------------------------------------
(* Caps *)

\* The demand of day d that a receipt may serve up to day to.
Need(d, to, share) == IF d = to THEN (Adjusted(d) * share) \div policy.parts ELSE Adjusted(d)

\* What one day asks for, or a share of its parts on the last day.
LEMMA NeedIsNatural ==
    ASSUME EngineTypes, NEW d \in Day, NEW to, NEW share \in 1..policy.parts
    PROVE  /\ Need(d, to, share) \in Nat /\ Need(d, to, share) <= Adjusted(d)
           /\ share = policy.parts => Need(d, to, share) = Adjusted(d)
<1>1. Adjusted(d) \in Nat /\ policy.parts \in Nat \ {0} /\ share \in Nat /\ share <= policy.parts
    BY AdjustedIsNatural DEF EngineTypes, PolicyOK
<1> QED
    BY <1>1, PartsOf, AllParts DEF Need

\* What is left of the other supply at the end of day d, after x, and what of
\* the demand it does not serve.
OtherAfter(d, to, share, x) == NonNegative(x + orders[d] + planned[d] - Need(d, to, share))
Unserved(d, to, share, x) == NonNegative(Need(d, to, share) - (x + orders[d] + planned[d]))

IsOther(other, to, share) ==
    /\ other \in [0..to -> Nat]
    /\ \A d \in 0..to : other[d] = OtherAfter(d, to, share, IF d = 0 THEN opening ELSE other[d - 1])

\* A receipt can serve on day d what the other supply leaves unserved.
Room(other, from, to, share) ==
    [d \in from..to |-> Unserved(d, to, share, IF d = 0 THEN opening ELSE other[d - 1])]

\* _candidate_absorption
LEMMA CapacityIsRoom ==
    ASSUME EngineTypes, NEW from \in Day, NEW to \in Int, to <= Last, NEW share \in 1..policy.parts
    PROVE  \E other : /\ IsOther(other, to, share)
                      /\ Capacity(from, to, share) = SumOver(Room(other, from, to, share), from..to)
<1> USE DayAssumption
<1>1. opening \in Nat /\ \A d \in 0..to : d \in Day /\ d \in Nat
    BY DEF EngineTypes, InputsOK, Day
<1>2. ASSUME NEW d \in 0..to, NEW x \in Int PROVE OtherAfter(d, to, share, x) \in Nat
    <2>1. d \in Day /\ orders[d] \in Nat /\ planned[d] \in Nat /\ Need(d, to, share) \in Nat
        BY <1>1, AdjustedIsNatural, NeedIsNatural
    <2> QED
        BY <2>1 DEF OtherAfter, NonNegative
<1> DEFINE step == [p \in (0..to) \X Int |-> OtherAfter(p[1], to, share, p[2])]
           Is(b) == b = [d \in 0..to |-> OtherAfter(d, to, share, IF d = 0 THEN opening ELSE b[d - 1])]
<1>3. \E b : Is(b)
    <2>1. step \in [(0..to) \X Int -> Int]
        BY <1>2
    <2>2. \A d \in 0..to, x \in Int : step[<<d, x>>] = OtherAfter(d, to, share, x)
        OBVIOUS
    <2> HIDE DEF step
    <2>3. PICK g \in [0..to -> Int] :
              \A d \in 0..to : g[d] = step[<<d, IF d = 0 THEN opening ELSE g[d - 1]>>]
        <3>1. opening \in Int
            BY <1>1
        <3> QED
            BY <2>1, <3>1, DayByDay
    <2>4. ASSUME NEW d \in 0..to
          PROVE  g[d] = OtherAfter(d, to, share, IF d = 0 THEN opening ELSE g[d - 1])
        <3>1. (IF d = 0 THEN opening ELSE g[d - 1]) \in Int
            BY <1>1
        <3> QED
            BY <2>2, <2>3, <3>1
    <2> QED
        BY <2>3, <2>4
<1> DEFINE other == CHOOSE b : Is(b)
<1>4. Is(other)
    BY <1>3
<1>5. Capacity(from, to, share) = SumOver(Room(other, from, to, share), from..to)
    BY DEF Capacity, OtherAfter, Unserved, Need, Room
<1> HIDE DEF other
<1>6. ASSUME NEW d \in 0..to
      PROVE  other[d] = OtherAfter(d, to, share, IF d = 0 THEN opening ELSE other[d - 1])
    BY <1>4
<1> DEFINE Good == {n \in Nat : n <= to => other[n] \in Nat}
<1>7. 0 \in Good
    <2> SUFFICES ASSUME 0 <= to PROVE other[0] \in Nat
        OBVIOUS
    <2>1. 0 \in 0..to /\ opening \in Int
        BY <1>1
    <2> QED
        BY <1>2, <1>6, <2>1
<1>8. ASSUME NEW n \in Nat, n \in Good PROVE n + 1 \in Good
    <2> SUFFICES ASSUME n + 1 <= to PROVE other[n + 1] \in Nat
        OBVIOUS
    <2>1. other[n] \in Int /\ n + 1 \in 0..to
        BY <1>1, <1>8
    <2>2. other[n + 1] = OtherAfter(n + 1, to, share, other[n])
        BY <1>6, <2>1
    <2> QED
        BY <1>2, <2>1, <2>2
<1>9. \A d \in 0..to : other[d] \in Nat
    <2> HIDE DEF Good
    <2>1. Nat \subseteq Good
        BY <1>7, <1>8, Counting
    <2> USE DEF Good
    <2> QED
        BY <1>1, <2>1
<1>10. other \in [0..to -> Nat]
    BY <1>4, <1>9
<1> QED
    BY <1>5, <1>6, <1>10 DEF IsOther

\* What the demand of a day lacks is at most the demand.
LEMMA RoomIsNatural ==
    ASSUME EngineTypes, NEW from \in Day, NEW to \in Int, to <= Last, NEW share \in 1..policy.parts,
           NEW other, IsOther(other, to, share), NEW d \in from..to
    PROVE  Room(other, from, to, share)[d] \in Nat
<1> USE DayAssumption
<1>0. d \in 0..to /\ d \in Day /\ opening \in Nat
    BY DEF Day, EngineTypes, InputsOK
<1>1. orders[d] \in Nat /\ planned[d] \in Nat /\ Need(d, to, share) \in Nat
    BY <1>0, AdjustedIsNatural, NeedIsNatural
<1>2. (IF d = 0 THEN opening ELSE other[d - 1]) \in Nat
    <2>1. d # 0 => d - 1 \in 0..to
        BY <1>0
    <2> QED
        BY <1>0, <2>1 DEF IsOther
<1> QED
    BY <1>1, <1>2 DEF Room, Unserved, NonNegative

\* A capacity is a quantity.
LEMMA CapacityIsNatural ==
    ASSUME EngineTypes, NEW from \in Day, NEW to \in Int, to <= Last, NEW share \in 1..policy.parts
    PROVE  Capacity(from, to, share) \in Nat
<1>1. PICK other : /\ IsOther(other, to, share)
                   /\ Capacity(from, to, share) = SumOver(Room(other, from, to, share), from..to)
    BY CapacityIsRoom
<1>2. IsFiniteSet(from..to)
    BY FS_Interval DEF Day
<1> QED
    BY <1>1, <1>2, RoomIsNatural, SumIsNatural

\* The smaller of two numbers.
LEMMA Smaller == ASSUME NEW a \in Int, NEW b \in Int
                 PROVE  Min({a, b}) = IF a <= b THEN a ELSE b
<1>1. IsFiniteSet({a, b}) /\ {a, b} # {} /\ {a, b} \in SUBSET Int
    BY Finite
<1>2. Min({a, b}) \in {a, b} /\ \A x \in {a, b} : Min({a, b}) <= x
    BY <1>1, Extremes
<1> QED
    BY <1>2

\* The caps of a cycle are finitely many quantities.
LEMMA CapsAreNatural ==
    ASSUME EngineTypes, NEW c, CycleShape(c)
    PROVE  HardCaps(c) \in SUBSET Nat /\ IsFiniteSet(HardCaps(c))
<1> USE DayAssumption
<1>1. c.receipt \in Day /\ c.receipt \in Int /\ c.order \in Int /\ End \in Int /\ End <= Last
    BY DEF CycleShape, Day
<1>2. policy.shelf \in Int /\ policy.cover \in Int /\ policy.parts \in Nat \ {0}
    BY DEF EngineTypes, PolicyOK, NoDays
<1>3. Expiry(c) \in Int
    BY <1>1, <1>2 DEF Expiry
<1>4. CoverEnd(c) \in Int /\ CoverShare(c) \in 1..policy.parts /\ policy.parts \in 1..policy.parts
    <2>1. \A x \in Int, p \in Nat \ {0} : /\ (x + p - 1) \div p \in Int
                                         /\ x % p \in 0..p - 1
        OBVIOUS
    <2>2. (policy.cover + policy.parts - 1) \div policy.parts \in Int
        BY <1>2, <2>1
    <2>3. policy.cover % policy.parts \in 0..policy.parts - 1
        BY <1>2, <2>1
    <2> QED
        BY <1>1, <1>2, <2>2, <2>3 DEF CoverEnd, CoverShare
<1>5. ASSUME NEW to \in Int, NEW share \in 1..policy.parts
      PROVE  Capacity(c.receipt, Min({to, End}), share) \in Nat
    <2>1. Min({to, End}) \in Int /\ Min({to, End}) <= Last
        BY <1>1, Smaller
    <2> QED
        BY <1>1, <2>1, CapacityIsNatural
<1>6. ShelfLifeCap(c) \in Nat /\ MaxCoverCap(c) \in Nat
    BY <1>3, <1>4, <1>5 DEF ShelfLifeCap, MaxCoverCap
<1>7. HardCaps(c) \in SUBSET {ShelfLifeCap(c), MaxCoverCap(c)}
    BY DEF HardCaps
<1>8. IsFiniteSet({ShelfLifeCap(c), MaxCoverCap(c)})
    BY Finite
<1>9. IsFiniteSet(HardCaps(c))
    BY <1>7, <1>8, FS_Subset
<1> QED
    BY <1>6, <1>7, <1>9

-----------------------------------------------------------------------------
(* Rounding *)

\* Whole steps above and below a quantity.
LEMMA WholeSteps ==
    ASSUME NEW x \in Nat, NEW step \in Nat \ {0}
    PROVE  /\ CeilTo(x, step) \in Nat /\ CeilTo(x, step) >= x /\ CeilTo(x, step) % step = 0
           /\ FloorTo(x, step) \in Nat /\ FloorTo(x, step) <= x /\ FloorTo(x, step) % step = 0
<1>1. \A q \in Nat : q * step \in Nat /\ (q * step) % step = 0
    OBVIOUS
<1>2. \A y \in Nat : /\ y \div step \in Nat
                     /\ (y \div step) * step <= y
                     /\ y < (y \div step) * step + step
    <2> TAKE y \in Nat
    <2>1. y \div step \in Nat /\ (y % step) \in 0..step - 1 /\ y = step * (y \div step) + (y % step)
        OBVIOUS
    <2>2. step * (y \div step) = (y \div step) * step /\ (y \div step) * step \in Nat
        BY <2>1
    <2> QED
        BY <2>1, <2>2
<1>3. x + step - 1 \in Nat
    OBVIOUS
<1>4. CeilTo(x, step) \in Nat /\ CeilTo(x, step) % step = 0
    BY <1>1, <1>2, <1>3 DEF CeilTo
<1>5. x + step - 1 < CeilTo(x, step) + step
    BY <1>2, <1>3 DEF CeilTo
<1>6. CeilTo(x, step) >= x
    BY <1>4, <1>5
<1> QED
    BY <1>1, <1>2, <1>4, <1>6 DEF FloorTo

\* Can be bought, and is within the caps.
Buyable(q, caps) == q > 0 => /\ q % (policy.multiple * policy.unit) = 0
                             /\ q >= policy.moq * policy.unit
                             /\ \A cap \in caps : q <= cap

\* _round_order
LEMMA RoundIsSafe ==
    ASSUME EngineTypes, NEW capped \in Nat, NEW raw \in Nat,
           NEW caps \in SUBSET Nat, IsFiniteSet(caps)
    PROVE  LET r == Round(capped, raw, caps)
           IN /\ r.quantity \in Nat /\ Buyable(r.quantity, caps)
              /\ r.status = "feasible" => r.quantity >= capped
<1> DEFINE step == policy.multiple * policy.unit
           least == policy.moq * policy.unit
           up == CeilTo(Max({capped, least}), step)
           safe == FloorTo(Min(caps), step)
<1>1. step \in Nat \ {0} /\ least \in Nat
    BY DEF EngineTypes, PolicyOK
<1> HIDE DEF step, least
<1>2. Max({capped, least}) \in Nat /\ Max({capped, least}) >= capped /\ Max({capped, least}) >= least
    <2>1. {capped, least} \in SUBSET Int /\ {capped, least} # {}
        BY <1>1
    <2>2. IsFiniteSet({capped, least})
        BY Finite
    <2> QED
        BY <1>1, <2>1, <2>2, Extremes
<1>3. up \in Nat /\ up >= capped /\ up >= least /\ up % step = 0
    BY <1>1, <1>2, WholeSteps
<1> HIDE DEF up
<1>4. ASSUME caps # {} PROVE safe \in Nat /\ safe % step = 0 /\ \A cap \in caps : safe <= cap
    <2>1. Min(caps) \in caps /\ \A cap \in caps : Min(caps) <= cap
        BY <1>4, Extremes
    <2>2. safe \in Nat /\ safe <= Min(caps) /\ safe % step = 0
        BY <1>1, <2>1, WholeSteps
    <2>3. ASSUME NEW cap \in caps PROVE safe <= cap
        <3>1. Min(caps) \in Nat /\ cap \in Nat /\ Min(caps) <= cap
            BY <2>1
        <3> HIDE DEF safe
        <3> QED
            BY <2>2, <3>1
    <2> HIDE DEF safe
    <2> QED
        BY <2>2, <2>3
<1> HIDE DEF safe
<1>5. Round(capped, raw, caps) =
          IF capped = 0
          THEN [quantity |-> 0,
                status |-> IF raw > 0 /\ caps # {} THEN "no_safe_order" ELSE "feasible"]
          ELSE IF \A cap \in caps : up <= cap THEN [quantity |-> up, status |-> "feasible"]
          ELSE IF safe > 0 /\ safe >= least THEN [quantity |-> safe, status |-> "reduced"]
          ELSE [quantity |-> 0, status |-> "no_safe_order"]
    BY DEF Round, up, safe, step, least
<1>6. CASE capped = 0
    BY <1>5, <1>6 DEF Buyable
<1>7. CASE capped # 0 /\ \A cap \in caps : up <= cap
    BY <1>3, <1>5, <1>7 DEF Buyable, step, least
<1>8. CASE capped # 0 /\ ~\A cap \in caps : up <= cap
    <2>1. safe \in Nat /\ safe % step = 0 /\ \A cap \in caps : safe <= cap
        BY <1>4, <1>8
    <2>2. CASE safe > 0 /\ safe >= least
        <3>1. Round(capped, raw, caps) = [quantity |-> safe, status |-> "reduced"]
            BY <1>5, <1>8, <2>2
        <3> QED
            BY <2>1, <2>2, <3>1 DEF Buyable, step, least
    <2>3. CASE ~(safe > 0 /\ safe >= least)
        <3>1. Round(capped, raw, caps) = [quantity |-> 0, status |-> "no_safe_order"]
            BY <1>5, <1>8, <2>3
        <3> QED
            BY <1>8, <3>1 DEF Buyable
    <2> QED
        BY <2>2, <2>3
<1> QED
    BY <1>6, <1>7, <1>8

-----------------------------------------------------------------------------
(* Lines *)

\* Types of a line; its proposal can be bought, and meets its need if it is
\* called feasible; nothing but a cap takes from the need.
LineOK(l) == /\ l.raw \in Nat /\ l.capped \in Nat /\ l.proposed \in Nat
             /\ l.caps \in SUBSET Nat
             /\ Buyable(l.proposed, l.caps)
             /\ l.status = "feasible" => l.proposed >= l.capped
             /\ (\A cap \in l.caps : l.raw <= cap) => l.raw <= l.capped

\* The line of a cycle is one.
LEMMA LinesAreOK ==
    ASSUME EngineTypes, NEW c, CycleShape(c)
    PROVE  /\ LineOK(Line(c)) /\ Line(c).cycle = c
           /\ Line(c).raw = RawOrder(c) /\ Line(c).caps = HardCaps(c)
           /\ Line(c).capped <= Line(c).raw
           /\ \A cap \in Line(c).caps : Line(c).proposed <= cap
<1>1. RawOrder(c) \in Nat /\ HardCaps(c) \in SUBSET Nat /\ IsFiniteSet(HardCaps(c))
    BY RawIsEnough, CapsAreNatural
<1> DEFINE capped == Min({RawOrder(c)} \cup HardCaps(c))
           rounded == Round(capped, RawOrder(c), HardCaps(c))
<1>2. /\ capped \in Nat /\ capped <= RawOrder(c)
      /\ (\A cap \in HardCaps(c) : RawOrder(c) <= cap) => RawOrder(c) <= capped
    <2>1. IsFiniteSet({RawOrder(c)} \cup HardCaps(c))
        BY <1>1, FS_Singleton, FS_Union
    <2>2. capped \in {RawOrder(c)} \cup HardCaps(c) /\ capped <= RawOrder(c)
        BY <1>1, <2>1, Extremes
    <2> HIDE DEF capped
    <2> QED
        BY <1>1, <2>2
<1> HIDE DEF capped
<1>3. /\ rounded.quantity \in Nat /\ Buyable(rounded.quantity, HardCaps(c))
      /\ rounded.status = "feasible" => rounded.quantity >= capped
    BY <1>1, <1>2, RoundIsSafe
<1> HIDE DEF rounded
<1>4. Line(c) = [cycle |-> c, raw |-> RawOrder(c), caps |-> HardCaps(c), capped |-> capped,
                 proposed |-> rounded.quantity, status |-> rounded.status]
    BY DEF Line, capped, rounded
<1>5. \A cap \in HardCaps(c) : rounded.quantity <= cap
    BY <1>1, <1>3 DEF Buyable
<1> QED
    BY <1>1, <1>2, <1>3, <1>4, <1>5 DEF LineOK

-----------------------------------------------------------------------------
(* The invariant *)

\* Closing balances of scenario s, day by day.
IsClosing(b, s) ==
    /\ b \in [0..End -> Int]
    /\ \A d \in 0..End : b[d] = (IF d = 0 THEN opening ELSE b[d - 1]) + Supply(s, d) - demand[d]
Closing(s) == CHOOSE b : IsClosing(b, s)

\* The loop of scenario s has computed them up to its day, and has seen the
\* first that is negative.
Walked(s) == /\ balance[s] = IF day = 0 THEN opening ELSE Closing(s)[day - 1]
             /\ \A d \in 0..End : d < day /\ d < uncovered[s] => Closing(s)[d] >= 0
             /\ uncovered[s] < day => Closing(s)[uncovered[s]] < 0

\* The stages follow each other.
Staged == /\ stage \in {"schedule", "project", "done", "failed"}
          /\ stage = "schedule" => day = 0
          /\ stage = "project" => day <= End
          /\ stage = "done" => day = NotSeen
          /\ stage \in {"project", "done"} => receipts = planned /\ todo = {}
          /\ stage = "failed" => ~InHorizon(planned)

\* What the lines ls propose for day d.
Total(ls, d) == SumOver([k \in ls |-> k.proposed], {k \in ls : k.cycle.receipt = d})

\* Cycles are planned in order, and planned_receipts holds what was proposed.
InOrder == /\ IsFiniteSet(lines)
           /\ \A l \in lines, c \in todo : Before(l.cycle, c)
           /\ \A d \in Day : planned[d] = Total(lines, d)

\* Without a yield allowance, nothing but safety stock is ordered while the
\* stock and the open orders last.
Needed(l) == policy.yield <= policy.parts /\ l.cycle.end <= End
                /\ (\A d \in 0..l.cycle.end : Closing("open_po")[d] >= 0)
             => l.raw <= SafetyStock(l.cycle)

\* The last day on which a receipt is used.
LastUse(c) == Min({Expiry(c), End})

\* What is left, day by day, if a[d] is proposed for day d: LeftOf.
LeftAfter(c, a, d, x) ==
    NonNegative(x - Adjusted(d) + IF d <= c.receipt THEN orders[d] + a[d] ELSE 0)
IsLeft(left, c, a) ==
    left = [d \in 0..LastUse(c) |-> LeftAfter(c, a, d, IF d = 0 THEN opening ELSE left[d - 1])]

\* Nothing is left of the receipt when it expires.
UsedUp(l) ==
    \E a \in [Day -> Nat] :
        /\ \A d \in Day : ProposedBy(l, d) = a[d]
        /\ HasExpiry /\ l.proposed > 0 =>
              \A left : IsLeft(left, l.cycle, a) => left[LastUse(l.cycle)] = 0

\* The raw order was enough for the window, in a balance b with the receipts p
\* that were planned before it.
Enough(l) ==
    \E p \in [Day -> Nat], b \in [0..l.cycle.end -> Int] :
        /\ \A d \in Day : p[d] + (IF d = l.cycle.receipt THEN l.proposed ELSE 0) <= planned[d]
        /\ \A d \in 0..l.cycle.end :
              LET close == (IF d = 0 THEN opening ELSE b[d - 1]) + orders[d] + p[d] - Adjusted(d)
              IN b[d] = IF d < l.cycle.receipt THEN NonNegative(close) ELSE close
        /\ \A d \in l.cycle.receipt..l.cycle.end : b[d] + l.raw >= 0

\* The inductive invariant.
EInv == /\ PInv /\ EngineTypes /\ Staged
        /\ Exact([demand |-> demand, policy |-> policy])
        /\ todo \in SUBSET Cycles(policy, demand) /\ InOrder
        /\ Walked("open_po") /\ Walked("projected")
        /\ \A l \in lines : /\ l.cycle \in Cycles(policy, demand)
                            /\ LineOK(l) /\ Needed(l) /\ UsedUp(l) /\ Enough(l)

-----------------------------------------------------------------------------
(* What a new line promises *)

\* Closing balances exist.
LEMMA ClosingExists ==
    ASSUME InputsOK, receipts \in [Day -> Nat], NEW s \in Scenario
    PROVE  IsClosing(Closing(s), s)
<1>1. \A d \in 0..End : d \in Day /\ demand[d] \in Nat /\ Supply(s, d) \in Nat
    <2>1. ASSUME NEW d \in 0..End PROVE d \in Day /\ demand[d] \in Nat /\ Supply(s, d) \in Nat
        <3>1. d \in Day
            BY DayAssumption DEF Day
        <3>2. demand[d] \in Nat /\ orders[d] \in Nat /\ receipts[d] \in Nat
            BY <3>1 DEF InputsOK
        <3> QED
            BY <3>1, <3>2 DEF Supply, Scenario
    <2> QED
        BY <2>1
<1> DEFINE step == [p \in (0..End) \X Int |-> p[2] + Supply(s, p[1]) - demand[p[1]]]
<1>2. step \in [(0..End) \X Int -> Int]
    BY <1>1
<1>3. \A d \in 0..End, x \in Int : step[<<d, x>>] = x + Supply(s, d) - demand[d]
    OBVIOUS
<1> HIDE DEF step
<1>4. opening \in Int /\ End \in Int
    BY DayAssumption DEF InputsOK
<1>5. PICK g \in [0..End -> Int] :
          \A d \in 0..End : g[d] = step[<<d, IF d = 0 THEN opening ELSE g[d - 1]>>]
    BY <1>2, <1>4, DayByDay
<1>6. ASSUME NEW d \in 0..End
      PROVE  g[d] = (IF d = 0 THEN opening ELSE g[d - 1]) + Supply(s, d) - demand[d]
    <2>1. (IF d = 0 THEN opening ELSE g[d - 1]) \in Int
        BY <1>4
    <2> QED
        BY <1>3, <1>5, <2>1
<1>7. IsClosing(g, s)
    BY <1>5, <1>6 DEF IsClosing
<1> QED
    BY <1>7 DEF Closing

\* A shortage of the window's balance is one of the stock with its open orders.
LEMMA NewIsNeeded ==
    ASSUME EngineTypes, receipts \in [Day -> Nat], NEW c, CycleShape(c),
           policy.yield <= policy.parts, c.end <= End, \A d \in 0..c.end : Closing("open_po")[d] >= 0
    PROVE  RawOrder(c) <= SafetyStock(c)
<1> USE DayAssumption
<1> DEFINE closing == Closing("open_po")
           bal == Balance(c)
<1>1. IsClosing(closing, "open_po") /\ InputsOK
    BY ClosingExists DEF Scenario, EngineTypes
<1>2. /\ c.end \in Day /\ c.receipt \in Day /\ c.end \in Nat /\ c.receipt \in Nat
      /\ c.receipt <= c.end /\ opening \in Nat
    BY <1>1 DEF CycleShape, Day, InputsOK
<1>3. /\ bal \in [0..c.end -> Int]
      /\ \A d \in 0..c.end : bal[d] = BalanceAfter(c, d, IF d = 0 THEN opening ELSE bal[d - 1])
    BY <1>2, BalanceRuns
<1>4. /\ closing \in [0..End -> Int] /\ \A d \in 0..c.end : closing[d] >= 0
      /\ \A d \in 0..End : closing[d] = (IF d = 0 THEN opening ELSE closing[d - 1]) + orders[d] - demand[d]
    BY <1>1 DEF IsClosing, Supply
<1> HIDE DEF closing, bal
<1>5. ASSUME NEW d \in 0..c.end
      PROVE  /\ d \in Day /\ d \in 0..End /\ Adjusted(d) \in Nat /\ Adjusted(d) <= demand[d]
             /\ orders[d] \in Nat /\ planned[d] \in Nat /\ demand[d] \in Nat
    <2>1. d \in Day /\ d \in 0..End
        BY <1>2 DEF Day
    <2> QED
        BY <2>1, AdjustedIsNatural
<1>6. ASSUME NEW d \in 0..c.end, NEW x \in Int, NEW y \in Int, x >= y
      PROVE  BalanceAfter(c, d, x) >= y + orders[d] - demand[d]
    BY <1>5, <1>6 DEF BalanceAfter, NonNegative
<1> DEFINE Good == {n \in Nat : n <= c.end => bal[n] >= closing[n]}
<1>7. 0 \in Good
    <2>1. bal[0] = BalanceAfter(c, 0, opening) /\ closing[0] = opening + orders[0] - demand[0]
        BY <1>2, <1>3, <1>4
    <2> QED
        BY <1>2, <1>6, <2>1
<1>8. ASSUME NEW n \in Nat, n \in Good PROVE n + 1 \in Good
    <2> SUFFICES ASSUME n + 1 <= c.end PROVE bal[n + 1] >= closing[n + 1]
        OBVIOUS
    <2>1. n + 1 \in 0..c.end /\ n + 1 \in 0..End /\ n \in 0..c.end /\ n \in 0..End
        BY <1>2
    <2>2. bal[n] >= closing[n] /\ bal[n] \in Int /\ closing[n] \in Int
        <3>1. bal[n] \in Int /\ closing[n] \in Int
            BY <1>3, <1>4, <2>1
        <3>2. bal[n] >= closing[n]
            BY <1>2, <1>8, <2>1
        <3> QED
            BY <3>1, <3>2
    <2>3. /\ bal[n + 1] = BalanceAfter(c, n + 1, bal[n])
          /\ closing[n + 1] = closing[n] + orders[n + 1] - demand[n + 1]
        BY <1>3, <1>4, <2>1
    <2> QED
        BY <1>6, <2>1, <2>2, <2>3
<1>9. \A d \in 0..c.end : bal[d] \in Int /\ bal[d] >= 0
    <2> HIDE DEF Good
    <2>1. Nat \subseteq Good
        BY <1>7, <1>8, Counting
    <2> USE DEF Good
    <2>2. ASSUME NEW d \in 0..c.end PROVE bal[d] \in Int /\ bal[d] >= 0
        <3>1. bal[d] \in Int /\ bal[d] >= closing[d] /\ closing[d] \in Int /\ closing[d] >= 0
            <4>1. bal[d] \in Int /\ closing[d] \in Int /\ closing[d] >= 0
                BY <1>3, <1>4, <1>5
            <4>2. d \in Nat /\ d <= c.end
                BY <1>2
            <4>3. bal[d] >= closing[d]
                BY <2>1, <4>2
            <4> QED
                BY <4>1, <4>3
        <3> QED
            BY <3>1
    <2> QED
        BY <2>2
<1>10. RawOrder(c) \in Lacks(c) /\ SafetyStock(c) \in Nat
    BY RawIsEnough, SafetyIsNatural
<1>11. ASSUME NEW x \in Lacks(c) PROVE x <= SafetyStock(c)
    <2>1. CASE x = 0 \/ x = SafetyStock(c) - bal[c.end]
        BY <1>2, <1>9, <1>10, <2>1
    <2>2. CASE \E d \in c.receipt..c.end : x = -bal[d]
        BY <1>2, <1>9, <1>10, <2>2
    <2> QED
        BY <2>1, <2>2 DEF Lacks, bal
<1> QED
    BY <1>10, <1>11

\* An order within its shelf life cap is used up when it expires.
LEMMA NewIsUsedUp ==
    ASSUME EngineTypes, NEW c, CycleShape(c), NEW P \in Nat, P > 0, P <= ShelfLifeCap(c),
           NEW a \in [Day -> Nat],
           \A d \in Day : a[d] = IF d = c.receipt THEN planned[d] + P ELSE planned[d],
           NEW left, IsLeft(left, c, a)
    PROVE  left[LastUse(c)] = 0
<1> USE DayAssumption
<1> DEFINE to == LastUse(c)
           from == c.receipt
<1>0. policy.parts \in Nat /\ policy.parts \in 1..policy.parts
    <2>1. policy.parts \in Nat \ {0}
        BY DEF EngineTypes, PolicyOK
    <2> QED
        BY <2>1
<1>1. from \in Day /\ from \in Nat /\ c.order \in Int /\ End \in Nat /\ Last \in Nat
    BY DEF CycleShape, Day
<1>2. to \in Int /\ to <= End
    <2>1. Expiry(c) \in Int
        BY <1>1 DEF Expiry, EngineTypes, PolicyOK, NoDays
    <2> QED
        BY <1>1, <2>1, Smaller DEF LastUse
<1>3. ShelfLifeCap(c) = Capacity(from, to, policy.parts)
    BY DEF ShelfLifeCap, LastUse
<1>4. left = [d \in 0..to |-> LeftAfter(c, a, d, IF d = 0 THEN opening ELSE left[d - 1])]
    BY DEF IsLeft
<1> HIDE DEF to, from
<1>5. PICK other : /\ IsOther(other, to, policy.parts)
                    /\ Capacity(from, to, policy.parts) = SumOver(Room(other, from, to, policy.parts), from..to)
    <2>1. to <= Last /\ policy.parts \in 1..policy.parts
        BY <1>0, <1>1, <1>2
    <2> QED
        BY <1>1, <1>2, <2>1, CapacityIsRoom
<1> DEFINE room == Room(other, from, to, policy.parts)
           U(d) == SumOver(room, from..d)
<1>6. \A d \in from..to : room[d] \in Nat
    BY <1>0, <1>1, <1>2, <1>5, RoomIsNatural
<1>7. U(from - 1) = 0
    <2>1. from..(from - 1) = {} /\ IsFiniteSet({})
        BY <1>1, FS_EmptySet
    <2> QED
        BY <2>1, SumUnfolds
<1>8. ASSUME NEW d \in from..to
      PROVE  U(d) \in Nat /\ U(d - 1) \in Nat /\ U(d) = U(d - 1) + room[d]
    <2>1. IsFiniteSet(from..d) /\ IsFiniteSet(from..(d - 1)) /\ (from..d) \ {d} = from..(d - 1) /\ d \in from..d
        <3>1. d \in Int /\ d - 1 \in Int /\ from \in Int
            BY <1>1
        <3>2. IsFiniteSet(from..d) /\ IsFiniteSet(from..(d - 1))
            BY <3>1, FS_Interval
        <3>3. (from..d) \ {d} = from..(d - 1) /\ d \in from..d
            BY <1>1
        <3> QED
            BY <3>2, <3>3
    <2>2. (\A e \in from..d : room[e] \in Nat) /\ (\A e \in from..(d - 1) : room[e] \in Nat)
        BY <1>1, <1>2, <1>6
    <2> HIDE DEF room
    <2>3. U(d) \in Nat /\ U(d - 1) \in Nat
        BY <2>1, <2>2, SumIsNatural
    <2>4. U(d) = room[d] + U(d - 1)
        <3>1. SumOver(room, from..d) = room[d] + SumOver(room, (from..d) \ {d})
            BY <2>1, <2>2, SumTakes
        <3> QED
            BY <2>1, <3>1
    <2> QED
        BY <1>6, <2>3, <2>4
<1>9. from <= to
    <2> SUFFICES ASSUME from > to PROVE FALSE
        BY <1>1, <1>2
    <2>1. from..to = {} /\ IsFiniteSet({})
        BY <1>1, <1>2, FS_EmptySet
    <2>2. SumOver(room, from..to) = 0
        BY <2>1, SumUnfolds
    <2> QED
        BY <1>3, <1>5, <2>2
<1>10. ASSUME NEW d \in 0..to
       PROVE  /\ d \in Day /\ Adjusted(d) \in Nat /\ orders[d] \in Nat /\ planned[d] \in Nat
              /\ Need(d, to, policy.parts) = Adjusted(d)
    <2>1. d \in Day
        BY <1>1, <1>2 DEF Day
    <2> QED
        BY <1>0, <2>1, AdjustedIsNatural, NeedIsNatural
<1> DEFINE x(d) == IF d = 0 THEN opening ELSE left[d - 1]
           y(d) == IF d = 0 THEN opening ELSE other[d - 1]
           in(d) == orders[d] + planned[d]
<1>11. ASSUME NEW d \in 0..to, x(d) \in Nat, y(d) \in Nat
       PROVE  /\ in(d) \in Nat
              /\ other[d] = NonNegative(y(d) + in(d) - Adjusted(d))
              /\ d >= from => room[d] = NonNegative(Adjusted(d) - (y(d) + in(d)))
              /\ d < from => left[d] = NonNegative(x(d) - Adjusted(d) + in(d))
              /\ d = from => left[d] = NonNegative(x(d) - Adjusted(d) + (in(d) + P))
              /\ d > from => left[d] = NonNegative(x(d) - Adjusted(d) + 0)
    <2>1. d \in Day /\ Adjusted(d) \in Nat /\ orders[d] \in Nat /\ planned[d] \in Nat /\ d \in Nat
          /\ Need(d, to, policy.parts) = Adjusted(d)
        BY <1>10
    <2>2. other[d] = NonNegative(y(d) + orders[d] + planned[d] - Adjusted(d))
        BY <1>5, <2>1 DEF IsOther, OtherAfter
    <2>3. d >= from => room[d] = NonNegative(Adjusted(d) - (y(d) + orders[d] + planned[d]))
        BY <1>1, <2>1 DEF Room, Unserved
    <2>4. left[d] = LeftAfter(c, a, d, x(d))
        BY <1>4
    <2>5. a[d] = IF d = from THEN planned[d] + P ELSE planned[d]
        BY <2>1 DEF from
    <2> HIDE DEF x, y, room
    <2>6. y(d) + orders[d] + planned[d] = y(d) + in(d) /\ orders[d] + (planned[d] + P) = in(d) + P /\ in(d) \in Nat
        BY <1>11, <2>1
    <2>7. left[d] = NonNegative(x(d) - Adjusted(d) + IF d <= from THEN orders[d] + a[d] ELSE 0)
        BY <2>4 DEF LeftAfter, from
    <2>8. /\ d < from => orders[d] + a[d] = in(d)
          /\ d = from => orders[d] + a[d] = in(d) + P
        BY <1>1, <2>1, <2>5, <2>6
    <2> HIDE DEF in
    <2>9. /\ d < from => left[d] = NonNegative(x(d) - Adjusted(d) + in(d))
          /\ d = from => left[d] = NonNegative(x(d) - Adjusted(d) + (in(d) + P))
          /\ d > from => left[d] = NonNegative(x(d) - Adjusted(d) + 0)
        BY <1>1, <2>1, <2>7, <2>8
    <2>10. other[d] = NonNegative(y(d) + in(d) - Adjusted(d))
        BY <1>11, <2>1, <2>2, <2>6 DEF NonNegative
    <2>11. d >= from => room[d] = NonNegative(Adjusted(d) - (y(d) + in(d)))
        BY <2>3, <2>6
    <2> QED
        BY <2>6, <2>9, <2>10, <2>11
<1> DEFINE Within(d) == left[d] <= other[d] + P /\ (U(d) = 0 \/ left[d] <= NonNegative(P - U(d)))
           Fits(d) == /\ left[d] \in Nat /\ other[d] \in Nat
                      /\ d < from => left[d] <= other[d]
                      /\ d >= from => Within(d)
           Good == {n \in Nat : n <= to => Fits(n)}
<1>12. ASSUME NEW d \in 0..to, d # 0 => Fits(d - 1) PROVE Fits(d)
    <2>1. opening \in Nat
        BY DEF EngineTypes, InputsOK
    <2>2. x(d) \in Nat /\ y(d) \in Nat /\ (d <= from => x(d) <= y(d))
        BY <1>1, <1>12, <2>1
    <2>3. /\ in(d) \in Nat
          /\ other[d] = NonNegative(y(d) + in(d) - Adjusted(d))
          /\ d >= from => room[d] = NonNegative(Adjusted(d) - (y(d) + in(d)))
          /\ d < from => left[d] = NonNegative(x(d) - Adjusted(d) + in(d))
          /\ d = from => left[d] = NonNegative(x(d) - Adjusted(d) + (in(d) + P))
          /\ d > from => left[d] = NonNegative(x(d) - Adjusted(d) + 0)
        BY <1>11, <2>2
    <2>4. Adjusted(d) \in Nat
        BY <1>10
    <2>5. d > from => Within(d - 1)
        BY <1>1, <1>12
    <2>6. left[d] \in Nat /\ other[d] \in Nat
        <3> HIDE DEF x, y, in
        <3>1. \A z \in Int : NonNegative(z) \in Nat
            BY DEF NonNegative
        <3> QED
            BY <1>1, <2>2, <2>3, <2>4, <3>1
    <2>7. CASE d < from
        <3> HIDE DEF x, y, in
        <3>1. left[d] <= other[d]
            BY <2>2, <2>3, <2>4, <2>7, <1>1 DEF NonNegative
        <3> QED
            BY <1>1, <2>6, <2>7, <3>1
    <2>8. CASE d = from
        <3>1. U(d) = room[d] /\ room[d] \in Nat
            <4>1. d \in from..to /\ d - 1 = from - 1
                BY <1>1, <1>9, <2>8
            <4>2. U(d) = U(d - 1) + room[d] /\ room[d] \in Nat
                BY <1>6, <1>8, <4>1
            <4> HIDE DEF U, room
            <4> QED
                BY <1>7, <4>1, <4>2
        <3> HIDE DEF x, y, in, U, room
        <3>2. Within(d)
            BY <1>1, <2>2, <2>3, <2>4, <2>6, <2>8, <3>1 DEF NonNegative
        <3> QED
            BY <1>1, <2>6, <2>8, <3>2
    <2>9. CASE d > from
        <3>1. d \in from..to /\ d # 0
            BY <1>1, <2>9
        <3>2. U(d - 1) \in Nat /\ U(d) = U(d - 1) + room[d]
            BY <1>8, <3>1
        <3>3. x(d) = left[d - 1] /\ y(d) = other[d - 1]
            BY <3>1
        <3> HIDE DEF x, y, in, U, room
        <3>4. x(d) <= y(d) + P /\ (U(d - 1) = 0 \/ x(d) <= NonNegative(P - U(d - 1)))
            BY <2>5, <2>9, <3>3
        <3>5. Within(d)
            BY <1>1, <2>2, <2>3, <2>4, <2>6, <2>9, <3>1, <3>2, <3>4 DEF NonNegative
        <3> QED
            BY <1>1, <2>6, <2>9, <3>5
    <2> QED
        BY <1>1, <2>7, <2>8, <2>9
<1> HIDE DEF Fits
<1>13. 0 \in Good
    BY <1>1, <1>9, <1>12
<1>14. ASSUME NEW n \in Nat, n \in Good PROVE n + 1 \in Good
    <2> SUFFICES ASSUME n + 1 <= to PROVE Fits(n + 1)
        OBVIOUS
    <2>1. Fits(n) /\ n + 1 \in 0..to /\ (n + 1) - 1 = n
        BY <1>2, <1>14
    <2> QED
        BY <1>12, <2>1
<1>15. Fits(to)
    <2> HIDE DEF Good
    <2>1. Nat \subseteq Good
        BY <1>13, <1>14, Counting
    <2> USE DEF Good
    <2> QED
        BY <1>1, <1>2, <1>9, <2>1
<1>16. P <= U(to) /\ U(to) \in Nat
    <2>1. to \in from..to
        BY <1>1, <1>2, <1>9
    <2>2. U(to) \in Nat
        BY <1>8, <2>1
    <2> QED
        BY <1>3, <1>5, <2>2
<1>17. left[to] = 0
    <2> HIDE DEF U
    <2>1. left[to] \in Nat /\ (U(to) = 0 \/ left[to] <= NonNegative(P - U(to)))
        BY <1>1, <1>2, <1>9, <1>15 DEF Fits
    <2> QED
        BY <1>16, <2>1 DEF NonNegative
<1> QED
    BY <1>17 DEF to

-----------------------------------------------------------------------------
(* Planning a cycle keeps the invariant *)

\* A new line adds its proposal to the receipts of its day.
LEMMA LineAdds ==
    ASSUME NEW ls, IsFiniteSet(ls), NEW l, l \notin ls,
           \A k \in ls \cup {l} : k.proposed \in Nat, NEW d
    PROVE  Total(ls \cup {l}, d) = Total(ls, d) + IF d = l.cycle.receipt THEN l.proposed ELSE 0
<1> DEFINE f == [k \in ls |-> k.proposed]
           g == [k \in ls \cup {l} |-> k.proposed]
           S == {k \in ls : k.cycle.receipt = d}
           T == {k \in ls \cup {l} : k.cycle.receipt = d}
<1>1. IsFiniteSet(S) /\ \A k \in S : f[k] = g[k] /\ f[k] \in Nat
    BY FS_Subset
<1>2. IsFiniteSet(T) /\ \A k \in T : g[k] \in Nat
    BY FS_Subset, FS_AddElement
<1>3. SumOver(f, S) = SumOver(g, S) /\ SumOver(f, S) \in Nat
    BY <1>1, SumSame, SumIsNatural
<1>4. CASE d = l.cycle.receipt
    <2>1. l \in T /\ T \ {l} = S /\ g[l] = l.proposed
        BY <1>4
    <2> HIDE DEF T, S, f, g
    <2>2. SumOver(g, T) = g[l] + SumOver(g, T \ {l})
        BY <1>2, <2>1, SumTakes
    <2>3. SumOver(g, T) = SumOver(f, S) + l.proposed
        BY <1>3, <2>1, <2>2
    <2> QED
        BY <1>4, <2>3 DEF T, S, f, g, Total
<1>5. CASE d # l.cycle.receipt
    <2>1. T = S
        BY <1>5
    <2> HIDE DEF T, S, f, g
    <2>2. SumOver(g, T) = SumOver(f, S) + 0
        BY <1>3, <2>1
    <2> QED
        BY <1>5, <2>2 DEF T, S, f, g, Total
<1> QED
    BY <1>4, <1>5

\* What the promises of a line rest on is not touched by planning.
LEMMA Untouched ==
    ASSUME UNCHANGED <<inputs, policy>>
    PROVE  /\ Closing("open_po")' = Closing("open_po")
           /\ UNCHANGED receipts => \A s : Closing(s)' = Closing(s)
           /\ \A c : SafetyStock(c)' = SafetyStock(c) /\ LastUse(c)' = LastUse(c)
           /\ \A left, c, a : IsLeft(left, c, a)' <=> IsLeft(left, c, a)
           /\ \A d : Adjusted(d)' = Adjusted(d)
           /\ HasExpiry' <=> HasExpiry
           /\ \A l : LineOK(l)' <=> LineOK(l)
           /\ Cycles(policy, demand)' = Cycles(policy, demand)
<1>1. ASSUME NEW s, UNCHANGED receipts \/ s = "open_po" PROVE Closing(s)' = Closing(s)
    BY <1>1 DEF Closing, IsClosing, Supply, inputs
<1>2. \A c : SafetyStock(c)' = SafetyStock(c) /\ LastUse(c)' = LastUse(c)
    BY DEF SafetyStock, LastUse, Expiry, inputs
<1>3. \A left, c, a : IsLeft(left, c, a)' <=> IsLeft(left, c, a)
    BY DEF IsLeft, LeftAfter, LastUse, Expiry, Adjusted, NonNegative, inputs
<1>4. (\A d : Adjusted(d)' = Adjusted(d)) /\ (HasExpiry' <=> HasExpiry)
    BY DEF Adjusted, HasExpiry, inputs
<1>5. (\A l : LineOK(l)' <=> LineOK(l)) /\ Cycles(policy, demand)' = Cycles(policy, demand)
    BY DEF LineOK, Buyable, inputs
<1> QED
    BY <1>1, <1>2, <1>3, <1>4, <1>5

\* The next cycle of the loop.
LEMMA ScheduleHolds == ASSUME EInv, Schedule PROVE EInv'
<1> USE DayAssumption
<1>1. PICK c \in todo : /\ stage = "schedule"
                        /\ \A b \in todo \ {c} : Before(c, b)
                        /\ lines' = lines \cup {Line(c)}
                        /\ planned' = [planned EXCEPT ![c.receipt] = @ + Line(c).proposed]
                        /\ todo' = todo \ {c}
                        /\ UNCHANGED policy /\ UNCHANGED inputs /\ UNCHANGED projectionVars /\ UNCHANGED stage
    BY DEF Schedule, PlanCycle
<1>2. /\ EngineTypes /\ InOrder /\ PInv /\ Staged /\ todo \in SUBSET Cycles(policy, demand)
      /\ Exact([demand |-> demand, policy |-> policy])
      /\ \A l \in lines : /\ l.cycle \in Cycles(policy, demand)
                          /\ LineOK(l) /\ Needed(l) /\ UsedUp(l) /\ Enough(l)
      /\ Walked("open_po") /\ Walked("projected")
    BY DEF EInv
<1>3. receipts \in [Day -> Nat] /\ InputsOK /\ planned \in [Day -> Nat] /\ PolicyOK(policy)
    BY <1>2 DEF PInv, ProjectionOK, EngineTypes
<1>4. UNCHANGED <<inputs, policy>> /\ UNCHANGED receipts
    BY <1>1 DEF projectionVars
<1>5. c \in Cycles(policy, demand) /\ CycleShape(c)
    BY <1>1, <1>2, CyclesHaveShape
<1>a. PICK new : new = Line(c)
    OBVIOUS
<1> DEFINE P == new.proposed
<1>6. /\ LineOK(new) /\ new.cycle = c /\ new.raw = RawOrder(c) /\ new.caps = HardCaps(c)
      /\ \A cap \in new.caps : P <= cap
      /\ P \in Nat
    BY <1>2, <1>5, <1>a, LinesAreOK DEF LineOK
<1>7. c.receipt \in Day /\ c.receipt \in Int /\ c.rule \in Int
    BY <1>5 DEF CycleShape, Day
<1>8. lines' = lines \cup {new}
    BY <1>1, <1>a
<1>9. /\ planned' = [d \in Day |-> IF d = c.receipt THEN planned[d] + P ELSE planned[d]]
      /\ planned' \in [Day -> Nat] /\ \A d \in Day : planned[d] <= planned'[d]
    <2>1. planned' = [d \in Day |-> IF d = c.receipt THEN planned[d] + P ELSE planned[d]]
        BY <1>1, <1>3, <1>7, <1>a
    <2> HIDE DEF P
    <2> QED
        BY <1>3, <1>6, <2>1
<1> HIDE DEF P
<1>10. ASSUME NEW l \in lines
       PROVE  /\ Before(l.cycle, c) /\ ~Before(c, l.cycle) /\ l # new
    <2>1. Before(l.cycle, c)
        BY <1>1, <1>2 DEF InOrder
    <2>2. CycleShape(l.cycle)
        BY <1>2, CyclesHaveShape
    <2>3. l.cycle.receipt \in Int /\ l.cycle.rule \in Int
        BY <2>2 DEF CycleShape, Day
    <2> QED
        BY <1>6, <1>7, <2>1, <2>3 DEF Before
<1>11. new \notin lines
    BY <1>10
<1>12. /\ \A s : Closing(s)' = Closing(s)
       /\ \A b : SafetyStock(b)' = SafetyStock(b) /\ LastUse(b)' = LastUse(b)
       /\ \A left, b, a : IsLeft(left, b, a)' <=> IsLeft(left, b, a)
       /\ \A d : Adjusted(d)' = Adjusted(d)
       /\ HasExpiry' <=> HasExpiry
       /\ \A l : LineOK(l)' <=> LineOK(l)
       /\ Cycles(policy, demand)' = Cycles(policy, demand)
    BY <1>4, Untouched
<1>13. IsFiniteSet(lines) /\ IsFiniteSet(lines') /\ \A k \in lines \cup {new} : k.proposed \in Nat
    <2>1. IsFiniteSet(lines)
        BY <1>2 DEF InOrder
    <2>2. IsFiniteSet(lines \cup {new})
        BY <2>1, FS_AddElement
    <2> QED
        BY <1>2, <1>6, <1>8, <2>1, <2>2 DEF LineOK, P
<1>14. ASSUME NEW d \in Day
       PROVE  planned'[d] = Total(lines', d)
    <2>1. planned[d] = Total(lines, d)
        BY <1>2 DEF InOrder
    <2>2. Total(lines \cup {new}, d) = planned[d] + IF d = c.receipt THEN P ELSE 0
        <3>1. Total(lines \cup {new}, d)
                  = Total(lines, d) + IF d = new.cycle.receipt THEN new.proposed ELSE 0
            BY <1>11, <1>13, LineAdds
        <3> QED
            BY <1>6, <2>1, <3>1 DEF P
    <2>3. planned'[d] = planned[d] + IF d = c.receipt THEN P ELSE 0
        <3>1. planned[d] \in Nat
            BY <1>3
        <3> QED
            BY <1>9, <3>1
    <2> QED
        BY <1>8, <2>2, <2>3
<1>15. InOrder'
    <2>1. ASSUME NEW l \in lines', NEW b \in todo' PROVE Before(l.cycle, b)
        <3>1. b \in todo /\ b # c
            BY <1>1
        <3>2. CASE l \in lines
            BY <1>2, <3>1, <3>2 DEF InOrder
        <3>3. CASE l = new
            BY <1>1, <1>6, <3>1, <3>3
        <3> QED
            BY <1>8, <3>2, <3>3
    <2> QED
        BY <1>13, <1>14, <2>1 DEF InOrder, Before
<1>16. ASSUME NEW l \in lines, NEW d \in Day PROVE ProposedBy(l, d)' = ProposedBy(l, d)
    <2> DEFINE S == {k \in lines : k.cycle.receipt = d /\ (k = l \/ Before(k.cycle, l.cycle))}
               T == {k \in lines' : k.cycle.receipt = d /\ (k = l \/ Before(k.cycle, l.cycle))}
    <2>1. T = S
        BY <1>6, <1>8, <1>10
    <2>2. IsFiniteSet(S) /\ \A k \in S : [j \in lines' |-> j.proposed][k] = [j \in lines |-> j.proposed][k]
        BY <1>8, <1>13, FS_Subset
    <2>3. SumOver([j \in lines' |-> j.proposed], S) = SumOver([j \in lines |-> j.proposed], S)
        BY <2>2, SumSame
    <2> QED
        BY <2>1, <2>3 DEF ProposedBy, Before
<1>17. ASSUME NEW d \in Day PROVE ProposedBy(new, d)' = planned'[d]
    <2>1. {k \in lines' : k.cycle.receipt = d /\ (k = new \/ Before(k.cycle, new.cycle))}
              = {k \in lines' : k.cycle.receipt = d}
        BY <1>6, <1>8, <1>10
    <2> QED
        BY <1>14, <2>1 DEF ProposedBy, Before, Total
<1>18. ASSUME NEW l \in lines PROVE (LineOK(l) /\ Needed(l) /\ UsedUp(l) /\ Enough(l))'
    <2>1. LineOK(l)'
        BY <1>2, <1>12
    <2>2. Needed(l)'
        BY <1>1, <1>2, <1>12 DEF Needed
    <2>3. UsedUp(l)'
        BY <1>2, <1>12, <1>16 DEF UsedUp
    <2>4. Enough(l)'
        <3>1. PICK p \in [Day -> Nat], b \in [0..l.cycle.end -> Int] :
                  /\ \A d \in Day : p[d] + (IF d = l.cycle.receipt THEN l.proposed ELSE 0) <= planned[d]
                  /\ \A d \in 0..l.cycle.end :
                        LET close == (IF d = 0 THEN opening ELSE b[d - 1]) + orders[d] + p[d] - Adjusted(d)
                        IN b[d] = IF d < l.cycle.receipt THEN NonNegative(close) ELSE close
                  /\ \A d \in l.cycle.receipt..l.cycle.end : b[d] + l.raw >= 0
            BY <1>2 DEF Enough
        <3>2. ASSUME NEW d \in Day
              PROVE  p[d] + (IF d = l.cycle.receipt THEN l.proposed ELSE 0) <= planned'[d]
            <4>1. /\ p[d] \in Nat /\ l.proposed \in Nat /\ planned[d] \in Nat /\ planned'[d] \in Nat
                  /\ planned[d] <= planned'[d]
                BY <1>3, <1>9, <1>13
            <4> QED
                BY <3>1, <4>1
        <3>3. opening' = opening /\ orders' = orders
            BY <1>1 DEF inputs
        <3> QED
            BY <1>12, <3>1, <3>2, <3>3 DEF Enough, NonNegative
    <2> QED
        BY <2>1, <2>2, <2>3, <2>4
<1>19. (LineOK(new) /\ Needed(new) /\ UsedUp(new) /\ Enough(new))'
    <2>1. LineOK(new)'
        BY <1>6, <1>12
    <2>2. Needed(new)'
        <3>1. policy.yield <= policy.parts /\ c.end <= End /\ (\A d \in 0..c.end : Closing("open_po")[d] >= 0)
                => RawOrder(c) <= SafetyStock(c)
            BY <1>2, <1>3, <1>5, NewIsNeeded
        <3> QED
            BY <1>1, <1>6, <1>12, <3>1 DEF Needed
    <2>3. UsedUp(new)'
        <3>1. ASSUME HasExpiry, P > 0, NEW left, IsLeft(left, c, planned')
              PROVE  left[LastUse(c)] = 0
            <4>1. P <= ShelfLifeCap(c)
                BY <1>6, <3>1 DEF HardCaps
            <4>2. \A d \in Day : planned'[d] = IF d = c.receipt THEN planned[d] + P ELSE planned[d]
                BY <1>9
            <4> QED
                BY <1>2, <1>5, <1>6, <1>9, <3>1, <4>1, <4>2, NewIsUsedUp
        <3> QED
            BY <1>6, <1>9, <1>12, <1>17, <3>1 DEF UsedUp, P
    <2>4. Enough(new)'
        <3> DEFINE b == Balance(c)
        <3>1. c.end \in Day /\ c.receipt \in Day
            BY <1>5 DEF CycleShape
        <3>2. /\ b \in [0..c.end -> Int]
              /\ \A d \in 0..c.end : b[d] = BalanceAfter(c, d, IF d = 0 THEN opening ELSE b[d - 1])
              /\ \A d \in c.receipt..c.end : b[d] + RawOrder(c) >= 0
            BY <1>2, <1>5, <3>1, BalanceRuns, RawIsEnough
        <3>3. ASSUME NEW d \in Day
              PROVE  planned[d] + (IF d = c.receipt THEN P ELSE 0) <= planned'[d]
            BY <1>3, <1>6, <1>9
        <3>4. opening' = opening /\ orders' = orders
            BY <1>1 DEF inputs
        <3> HIDE DEF b
        <3> QED
            BY <1>3, <1>6, <1>12, <3>2, <3>3, <3>4 DEF Enough, NonNegative, BalanceAfter, P
    <2> QED
        BY <2>1, <2>2, <2>3, <2>4
<1>20. PInv'
    BY <1>1, <1>2 DEF PInv, InputsOK, ProjectionOK, Seen, Ordered, InStep, AgreeBefore, Supply,
                      inputs, projectionVars
<1>21. EngineTypes' /\ Staged' /\ Exact([demand |-> demand, policy |-> policy])'
    BY <1>1, <1>2, <1>3, <1>9 DEF EngineTypes, Staged, InputsOK, inputs, projectionVars
<1>22. Walked("open_po")' /\ Walked("projected")'
    BY <1>1, <1>2, <1>12 DEF Walked, inputs, projectionVars
<1>23. /\ todo' \in SUBSET Cycles(policy, demand)'
       /\ \A l \in lines' : l.cycle \in Cycles(policy, demand)'
    BY <1>1, <1>2, <1>5, <1>6, <1>8, <1>12
<1>24. \A l \in lines' : (LineOK(l) /\ Needed(l) /\ UsedUp(l) /\ Enough(l))'
    BY <1>8, <1>18, <1>19
<1> QED
    BY <1>15, <1>20, <1>21, <1>22, <1>23, <1>24 DEF EInv

-----------------------------------------------------------------------------
(* Projecting the plan keeps the invariant *)

\* What is planned stays as it is.
PlanOK == /\ EngineTypes /\ Exact([demand |-> demand, policy |-> policy])
          /\ todo \in SUBSET Cycles(policy, demand) /\ InOrder
          /\ \A l \in lines : /\ l.cycle \in Cycles(policy, demand)
                              /\ LineOK(l) /\ Needed(l) /\ UsedUp(l) /\ Enough(l)

\* What the lines promise reads the inputs and the plan only.
LEMMA PlanIsKept == ASSUME PlanOK, UNCHANGED <<inputs, recommendationVars>> PROVE PlanOK'
<1>1. UNCHANGED <<inputs, policy>> /\ UNCHANGED <<policy, todo, planned, lines>>
    BY DEF recommendationVars
<1>2. /\ Closing("open_po")' = Closing("open_po")
      /\ \A c : SafetyStock(c)' = SafetyStock(c) /\ LastUse(c)' = LastUse(c)
      /\ \A left, c, a : IsLeft(left, c, a)' <=> IsLeft(left, c, a)
      /\ \A d : Adjusted(d)' = Adjusted(d)
      /\ HasExpiry' <=> HasExpiry
      /\ \A l : LineOK(l)' <=> LineOK(l)
      /\ Cycles(policy, demand)' = Cycles(policy, demand)
    BY <1>1, Untouched
<1>3. EngineTypes' /\ Exact([demand |-> demand, policy |-> policy])' /\ InOrder'
    BY <1>1 DEF PlanOK, EngineTypes, InputsOK, InOrder, Before, inputs
<1>4. ASSUME NEW l \in lines PROVE (LineOK(l) /\ Needed(l) /\ UsedUp(l) /\ Enough(l))'
    <2>1. LineOK(l) /\ Needed(l) /\ UsedUp(l) /\ Enough(l)
        BY DEF PlanOK
    <2>2. LineOK(l)' /\ Needed(l)'
        BY <1>1, <1>2, <2>1 DEF Needed
    <2>3. \A d : ProposedBy(l, d)' = ProposedBy(l, d)
        BY <1>1 DEF ProposedBy, Before
    <2>4. UsedUp(l)'
        BY <1>2, <2>1, <2>3 DEF UsedUp
    <2>5. opening' = opening /\ orders' = orders /\ planned' = planned
        BY <1>1 DEF inputs
    <2>6. Enough(l)'
        BY <1>2, <2>1, <2>5 DEF Enough, NonNegative
    <2> QED
        BY <2>2, <2>4, <2>6
<1> QED
    BY <1>1, <1>2, <1>3, <1>4 DEF PlanOK

\* The projection starts, or the run fails.
LEMMA ProjectHolds == ASSUME EInv, Project PROVE EInv'
<1>1. PlanOK'
    BY PlanIsKept DEF EInv, PlanOK, Project
<1>2. InputsOK' /\ planned' = planned /\ planned \in [Day -> Nat] /\ todo' = {}
    BY DEF EInv, PInv, EngineTypes, Project, InputsOK, inputs, recommendationVars
<1>3. CASE InHorizon(planned)
    <2>1. /\ receipts' = planned /\ day' = 0
          /\ balance' = [s \in Scenario |-> opening']
          /\ uncovered' = [s \in Scenario |-> NotSeen]
          /\ stage' = "project"
        BY <1>3 DEF Project, BeginProjection, inputs
    <2>2. PInv'
        <3>1. (InputsOK /\ receipts \in [Day -> Nat] /\ day = 0
                 /\ balance = [s \in Scenario |-> opening]
                 /\ uncovered = [s \in Scenario |-> NotSeen] => PInv)'
            BY StartHolds, PTL
        <3> QED
            BY <1>2, <2>1, <3>1 DEF Scenario, NotSeen
    <2>3. (Walked("open_po") /\ Walked("projected"))'
        BY <2>1, DayAssumption DEF Walked, Scenario, NotSeen
    <2>4. Staged'
        BY <1>2, <2>1, DayAssumption DEF Staged
    <2> QED
        BY <1>1, <2>2, <2>3, <2>4 DEF EInv, PlanOK
<1>4. CASE ~InHorizon(planned)
    <2>1. UNCHANGED projectionVars /\ UNCHANGED inputs /\ stage' = "failed"
        BY <1>4 DEF Project
    <2>2. PInv'
        BY <2>1 DEF EInv, PInv, InputsOK, ProjectionOK, Seen, Ordered, InStep, AgreeBefore, Supply,
                    inputs, projectionVars
    <2>3. UNCHANGED <<inputs, policy>> /\ UNCHANGED receipts
        BY <2>1 DEF projectionVars, Project, recommendationVars
    <2>4. (Walked("open_po") /\ Walked("projected"))'
        BY <2>1, <2>3, Untouched DEF EInv, Walked, inputs, projectionVars
    <2>5. Staged'
        BY <1>2, <1>4, <2>1 DEF Staged, InHorizon
    <2> QED
        BY <1>1, <2>2, <2>4, <2>5 DEF EInv, PlanOK
<1> QED
    BY <1>3, <1>4

\* The loop computes the closing balances.
LEMMA WalkedOn ==
    ASSUME PInv, ProjectDay, UNCHANGED <<inputs, policy>>, NEW s \in Scenario, Walked(s)
    PROVE  Walked(s)'
<1> USE DayAssumption
<1>1. /\ InputsOK /\ receipts' = receipts /\ receipts \in [Day -> Nat] /\ opening' = opening
      /\ day \in 0..End /\ day' = day + 1
      /\ uncovered[s] \in 0..NotSeen /\ Seen(s) /\ opening \in Nat /\ End \in Nat
    BY DEF PInv, InputsOK, ProjectionOK, ProjectDay, inputs
<1>2. Closing(s)' = Closing(s)
    BY <1>1, Untouched
<1>3. IsClosing(Closing(s), s)
    BY <1>1, ClosingExists
<1>4. balance'[s] = Close(s) /\ uncovered'[s] = IF Close(s) < 0 /\ uncovered[s] = NotSeen
                                               THEN day ELSE uncovered[s]
    BY DEF ProjectDay
<1>5. Closing(s)[day] = Close(s) /\ Closing(s)[day] \in Int
    BY <1>1, <1>3 DEF IsClosing, Walked, Close
<1>6. /\ \A d \in 0..End : d < day /\ d < uncovered[s] => Closing(s)[d] >= 0
      /\ uncovered[s] < day => Closing(s)[uncovered[s]] < 0
    BY DEF Walked
<1> DEFINE b == Closing(s)
<1> HIDE DEF b
<1>7. /\ \A d \in 0..End : d < day + 1 /\ d < uncovered'[s] => Closing(s)[d] >= 0
      /\ uncovered'[s] < day + 1 => Closing(s)[uncovered'[s]] < 0
    <2>1. CASE uncovered[s] = NotSeen
        <3>1. \A d \in 0..End : d < day => Closing(s)[d] >= 0
            BY <1>1, <1>6, <2>1 DEF NotSeen
        <3> QED
            BY <1>1, <1>4, <1>5, <2>1, <3>1 DEF NotSeen
    <2>2. CASE uncovered[s] # NotSeen
        <3>1. uncovered[s] < day /\ uncovered'[s] = uncovered[s]
            BY <1>1, <1>4, <2>2 DEF Seen
        <3> QED
            BY <1>1, <1>6, <3>1
    <2> QED
        BY <2>1, <2>2
<1>8. balance'[s] = Closing(s)[day'- 1] /\ day' # 0
    <2>1. day' - 1 = day /\ day' # 0
        BY <1>1
    <2> QED
        BY <1>4, <1>5, <2>1
<1> QED
    BY <1>1, <1>2, <1>7, <1>8 DEF Walked

\* A day of the projection leaves the plan alone and advances the two loops.
LEMMA WalkHolds == ASSUME EInv, Walk PROVE EInv'
<1>1. ProjectDay /\ UNCHANGED inputs /\ UNCHANGED recommendationVars /\ stage = "project"
    BY DEF Walk
<1>2. UNCHANGED <<inputs, recommendationVars>> /\ UNCHANGED <<inputs, policy>>
    BY <1>1 DEF recommendationVars
<1>3. PlanOK'
    BY <1>2, PlanIsKept DEF EInv, PlanOK
<1>4. PInv'
    BY <1>1, DayHolds DEF EInv
<1>5. (Walked("open_po") /\ Walked("projected"))'
    BY <1>1, <1>2, WalkedOn DEF EInv, Scenario
<1>6. Staged'
    <2>1. day' = day + 1 /\ receipts' = receipts /\ planned' = planned /\ todo' = todo
        BY <1>1 DEF ProjectDay, recommendationVars
    <2>2. day \in 0..NotSeen /\ day <= End /\ receipts = planned /\ todo = {}
        BY <1>1 DEF EInv, PInv, ProjectionOK, Staged
    <2>3. stage' = IF day = End THEN "done" ELSE "project"
        BY DEF Walk
    <2> QED
        BY <2>1, <2>2, <2>3, DayAssumption DEF Staged, NotSeen
<1> QED
    BY <1>3, <1>4, <1>5, <1>6 DEF EInv, PlanOK

\* A step that changes nothing.
LEMMA NothingHolds == ASSUME EInv, UNCHANGED vars PROVE EInv'
<1>1. /\ UNCHANGED <<inputs, recommendationVars>> /\ UNCHANGED <<inputs, policy>> /\ UNCHANGED receipts
      /\ UNCHANGED projectionVars /\ UNCHANGED stage /\ UNCHANGED inputs /\ UNCHANGED recommendationVars
    BY DEF vars, projectionVars, recommendationVars
<1>2. PlanOK'
    BY <1>1, PlanIsKept DEF EInv, PlanOK
<1>3. PInv'
    BY <1>1 DEF EInv, PInv, InputsOK, ProjectionOK, Seen, Ordered, InStep, AgreeBefore, Supply,
                inputs, projectionVars
<1>4. (Walked("open_po") /\ Walked("projected"))'
    BY <1>1, Untouched DEF EInv, Walked, inputs, projectionVars
<1>5. Staged'
    BY <1>1 DEF EInv, Staged, projectionVars, recommendationVars
<1> QED
    BY <1>2, <1>3, <1>4, <1>5 DEF EInv, PlanOK

\* A plan begins with its cycles and no lines.
LEMMA BeginHolds == ASSUME NEW i, InstanceOK(i), Begin(i) PROVE EInv
<1>2. /\ opening = i.opening /\ demand = i.demand /\ orders = i.orders /\ policy = i.policy
      /\ todo = Cycles(i.policy, i.demand) /\ planned = [d \in Day |-> 0] /\ lines = {}
      /\ receipts = [d \in Day |-> 0] /\ day = 0
      /\ balance = [s \in Scenario |-> i.opening]
      /\ uncovered = [s \in Scenario |-> NotSeen] /\ stage = "schedule"
    BY DEF Begin, BeginRecommendation
<1>3. InputsOK /\ PolicyOK(policy)
    BY <1>2 DEF InstanceOK, InputsOK
<1>4. planned \in [Day -> Nat] /\ receipts \in [Day -> Nat]
    BY <1>2
<1>5. PInv
    BY <1>2, <1>3, <1>4, StartHolds
<1>6. Exact([demand |-> demand, policy |-> policy])
    BY <1>2 DEF InstanceOK, Exact
<1>7. InOrder
    <2>1. ASSUME NEW d \in Day PROVE planned[d] = Total(lines, d)
        <3> DEFINE f == [k \in {} |-> k.proposed]
        <3>1. {k \in {} : k.cycle.receipt = d} = {} /\ IsFiniteSet({})
            BY FS_EmptySet
        <3> HIDE DEF f
        <3>2. SumOver(f, {}) = 0
            BY <3>1, SumUnfolds
        <3> QED
            BY <1>2, <3>1, <3>2 DEF Total, f
    <2> QED
        BY <1>2, <2>1, FS_EmptySet DEF InOrder
<1>8. Walked("open_po") /\ Walked("projected")
    BY <1>2, DayAssumption DEF Walked, Scenario, NotSeen
<1>9. Staged
    BY <1>2 DEF Staged
<1> QED
    BY <1>2, <1>3, <1>4, <1>5, <1>6, <1>7, <1>8, <1>9 DEF EInv, EngineTypes

\* And so does every step.
LEMMA StepHolds == ASSUME EInv, [Next]_vars PROVE EInv'
<1>1. CASE Schedule
    BY <1>1, ScheduleHolds
<1>2. CASE Project
    BY <1>2, ProjectHolds
<1>3. CASE Walk
    BY <1>3, WalkHolds
<1>4. CASE Ended
    BY <1>4, NothingHolds DEF Ended
<1>5. CASE UNCHANGED vars
    BY <1>5, NothingHolds
<1> QED
    BY <1>1, <1>2, <1>3, <1>4, <1>5 DEF Next

\* The invariant holds in every state of every plan.
THEOREM EngineInductive == Spec => []EInv
<1>1. Init => EInv
    BY BeginHolds, InstanceAssumption DEF Init
<1>2. EInv /\ [Next]_vars => EInv'
    BY StepHolds
<1> QED
    BY <1>1, <1>2, PTL DEF Spec

-----------------------------------------------------------------------------
(* What holds of every plan *)

\* Types, and divisions that are exact.
LEMMA TypesFollow == EInv => TypeOK
<1>1. ASSUME EInv PROVE TypeOK
    <2>1. /\ InputsOK /\ ProjectionOK /\ stage \in {"schedule", "project", "done", "failed"}
          /\ planned \in [Day -> Nat]
        BY <1>1 DEF EInv, PInv, Staged, EngineTypes
    <2>2. ASSUME NEW l \in lines
          PROVE  /\ l.raw \in Nat /\ l.capped \in Nat /\ l.proposed \in Nat /\ l.caps \subseteq Nat
                 /\ (SumOver(demand, l.cycle.dates) * policy.safety)
                       % (policy.parts * Cardinality(l.cycle.dates)) = 0
        BY <1>1 DEF EInv, LineOK, Exact
    <2>3. \A d \in Day :
              /\ (demand[d] * policy.yield) % policy.parts = 0
              /\ policy.cover # NoDays => (Adjusted(d) * policy.cover) % policy.parts = 0
        BY <1>1 DEF EInv, Exact, Adjusted
    <2> QED
        BY <2>1, <2>2, <2>3 DEF TypeOK
<1> QED
    BY <1>1

\* Types; and no division of the model rounds where the code's would not.
THEOREM EngineTypeCorrect == Spec => []TypeOK
BY TypesFollow, EngineInductive, PTL

\* Every line promises it of its proposal.
LEMMA SafetyFollows == EInv => ProposalsAreSafe
BY DEF EInv, LineOK, Buyable, ProposalsAreSafe

\* Whatever _round_order proposes can be bought and is within every cap, and a
\* feasible order meets its need.
THEOREM SafeProposals == Spec => []ProposalsAreSafe
BY SafetyFollows, EngineInductive, PTL

\* What is left of a proposal when it expires, as its line promised.
LEMMA ExpiryFollows == EInv => NothingExpires
<1>1. ASSUME EInv, NEW l \in lines, HasExpiry, l.proposed > 0
      PROVE  LeftOf(l, LastUse(l.cycle)) = 0
    <2> DEFINE c == l.cycle
               to == LastUse(c)
    <2>1. EngineTypes /\ CycleShape(c) /\ UsedUp(l)
        BY <1>1, CyclesHaveShape DEF EInv
    <2>2. PICK a \in [Day -> Nat] :
              /\ \A d \in Day : ProposedBy(l, d) = a[d]
              /\ \A left : IsLeft(left, c, a) => left[to] = 0
        BY <1>1, <2>1 DEF UsedUp
    <2>3. c.order \in Int /\ c.receipt \in Int /\ End \in Int /\ End <= Last
        BY <2>1, DayAssumption DEF CycleShape, Day
    <2>4. to \in Int /\ to <= Last
        <3>1. Expiry(c) \in Int
            BY <2>1, <2>3 DEF Expiry, EngineTypes, PolicyOK, NoDays
        <3> QED
            BY <2>3, <3>1, Smaller, DayAssumption DEF LastUse
    <2> HIDE DEF to
    <2>5. \A d \in 0..to : d \in Day
        BY <2>4, DayAssumption DEF Day
    <2>6. opening \in Int
        BY <2>1 DEF EngineTypes, InputsOK
    <2> DEFINE Is(b) == b = [d \in 0..to |->
                  NonNegative((IF d = 0 THEN opening ELSE b[d - 1]) - Adjusted(d)
                                 + IF d <= c.receipt THEN orders[d] + ProposedBy(l, d) ELSE 0)]
    <2>7. \A b : Is(b) <=> IsLeft(b, c, a)
        BY <2>2, <2>5 DEF IsLeft, LeftAfter, to
    <2>8. \E b : IsLeft(b, c, a)
        <3> DEFINE step == [p \in (0..to) \X Int |-> LeftAfter(c, a, p[1], p[2])]
        <3>1. ASSUME NEW d \in 0..to, NEW x \in Int PROVE LeftAfter(c, a, d, x) \in Int
            <4>1. Adjusted(d) \in Nat /\ orders[d] \in Nat /\ a[d] \in Nat
                BY <2>1, <2>5, AdjustedIsNatural
            <4> QED
                BY <4>1 DEF LeftAfter, NonNegative
        <3>2. step \in [(0..to) \X Int -> Int]
            BY <3>1
        <3>3. \A d \in 0..to, x \in Int : step[<<d, x>>] = LeftAfter(c, a, d, x)
            OBVIOUS
        <3> HIDE DEF step
        <3>4. PICK g \in [0..to -> Int] :
                  \A d \in 0..to : g[d] = step[<<d, IF d = 0 THEN opening ELSE g[d - 1]>>]
            BY <2>4, <2>6, <3>2, DayByDay
        <3>5. ASSUME NEW d \in 0..to
              PROVE  g[d] = LeftAfter(c, a, d, IF d = 0 THEN opening ELSE g[d - 1])
            <4>1. (IF d = 0 THEN opening ELSE g[d - 1]) \in Int
                BY <2>4, <2>6
            <4> QED
                BY <3>3, <3>4, <4>1
        <3>6. IsLeft(g, c, a)
            BY <3>4, <3>5 DEF IsLeft, to
        <3> QED
            BY <3>6
    <2> DEFINE left == CHOOSE b : Is(b)
    <2>9. Is(left)
        <3>1. \E b : Is(b)
            BY <2>7, <2>8
        <3> HIDE DEF Is
        <3> QED
            BY <3>1
    <2>10. LeftOf(l, to) = left[to]
        BY DEF LeftOf
    <2> HIDE DEF left
    <2>11. IsLeft(left, c, a)
        BY <2>7, <2>9
    <2> QED
        BY <2>2, <2>10, <2>11 DEF to
<1> QED
    BY <1>1 DEF NothingExpires, LastUse

\* No proposal outlives its shelf life: what _candidate_absorption leaves room
\* for is used up by then, whatever is planned later.
THEOREM NothingOutlives == Spec => []NothingExpires
BY ExpiryFollows, EngineInductive, PTL

\* The risk horizon is the end of some line, and none is later.
LEMMA HorizonIsLast ==
    ASSUME EInv, lines # {}
    PROVE  /\ \E l \in lines : RiskHorizon = l.cycle.end
           /\ \A l \in lines : l.cycle.end <= RiskHorizon
<1> DEFINE ends == {l.cycle.end : l \in lines}
           f == [l \in lines |-> l.cycle.end]
<1>1. IsFiniteSet(lines) /\ \A l \in lines : l.cycle.end \in Int
    <2>1. ASSUME NEW l \in lines PROVE l.cycle.end \in Int
        <3>1. CycleShape(l.cycle)
            BY CyclesHaveShape DEF EInv
        <3> QED
            BY <3>1, DayAssumption DEF CycleShape, Day
    <2> QED
        BY <2>1 DEF EInv, InOrder
<1>2. IsFiniteSet(ends)
    <2>1. IsFiniteSet({f[l] : l \in lines})
        BY <1>1, Finite
    <2>2. {f[l] : l \in lines} = ends
        OBVIOUS
    <2> QED
        BY <2>1, <2>2
<1>3. ends # {} /\ \A e \in ends : e \in Int
    BY <1>1
<1>4. RiskHorizon = Max(ends)
    BY DEF RiskHorizon
<1>5. Max(ends) \in ends /\ \A e \in ends : e <= Max(ends)
    <2> HIDE DEF ends
    <2> QED
        BY <1>2, <1>3, Extremes
<1> QED
    BY <1>4, <1>5

\* A line that had no need of more than its safety stock.
LEMMA NeedFollows == EInv => NoOrderWithoutNeed
<1>1. ASSUME EInv, stage = "done", policy.yield <= policy.parts,
             OrderRequirement(RiskHorizon) = "covered_without_order", NEW l \in lines
      PROVE  l.raw <= SafetyStock(l.cycle)
    <2>1. l.cycle.end <= RiskHorizon /\ CycleShape(l.cycle) /\ Needed(l) /\ Walked("open_po")
        BY <1>1, HorizonIsLast, CyclesHaveShape DEF EInv
    <2>2. /\ day = NotSeen /\ uncovered["open_po"] \in 0..NotSeen /\ End \in Nat
          /\ l.cycle.end \in Nat /\ RiskHorizon \in Int
        <3>1. \E k \in lines : RiskHorizon = k.cycle.end /\ CycleShape(k.cycle)
            BY <1>1, HorizonIsLast, CyclesHaveShape DEF EInv
        <3>2. l.cycle.end \in Nat /\ RiskHorizon \in Int /\ End \in Nat
            BY <2>1, <3>1, DayAssumption DEF CycleShape, Day
        <3>3. day = NotSeen /\ uncovered["open_po"] \in 0..NotSeen
            BY <1>1 DEF EInv, PInv, ProjectionOK, Staged, Scenario
        <3> QED
            BY <3>2, <3>3
    <2>3. RiskHorizon <= End /\ ~(uncovered["open_po"] <= RiskHorizon)
        BY <1>1, <2>2 DEF OrderRequirement
    <2>4. \A d \in 0..l.cycle.end : Closing("open_po")[d] >= 0
        BY <2>1, <2>2, <2>3 DEF Walked, NotSeen
    <2> QED
        BY <1>1, <2>1, <2>2, <2>3, <2>4 DEF Needed
<1> QED
    BY <1>1 DEF NoOrderWithoutNeed

\* When the stock and the open orders last for the whole risk horizon,
\* nothing but safety stock is asked for.
THEOREM NoNeedlessOrder == Spec => []NoOrderWithoutNeed
BY NeedFollows, EngineInductive, PTL

\* In a finished plan, a line that has what it needs keeps the projection from
\* a first shortage in its window.
LEMMA WindowHolds ==
    ASSUME EInv, stage = "done", policy.yield >= policy.parts,
           NEW k \in lines, k.proposed >= k.raw,
           NEW u \in 0..End, u = uncovered["projected"],
           k.cycle.receipt <= u, u <= k.cycle.end
    PROVE  FALSE
<1> USE DayAssumption
<1> DEFINE b == Closing("projected")
           from == k.cycle.receipt
<1>1. /\ EngineTypes /\ InputsOK /\ planned \in [Day -> Nat] /\ receipts = planned
      /\ day = NotSeen /\ Walked("projected")
      /\ CycleShape(k.cycle) /\ LineOK(k) /\ Enough(k)
    BY CyclesHaveShape DEF EInv, EngineTypes, Staged
<1>2. from \in Nat /\ k.cycle.end \in Nat /\ k.cycle.end <= Last /\ End \in Nat /\ opening \in Nat
      /\ k.raw \in Nat /\ k.proposed \in Nat /\ from <= u
    BY <1>1 DEF CycleShape, Day, InputsOK, LineOK
<1>3. IsClosing(b, "projected")
    BY <1>1, ClosingExists DEF Scenario
<1>4. /\ b \in [0..End -> Int]
      /\ \A d \in 0..End : b[d] = (IF d = 0 THEN opening ELSE b[d - 1]) + (orders[d] + planned[d]) - demand[d]
    BY <1>1, <1>3 DEF IsClosing, Supply
<1>5. (\A d \in 0..End : d < u => b[d] >= 0) /\ b[u] < 0
    BY <1>1 DEF Walked, NotSeen
<1>6. PICK p \in [Day -> Nat], q \in [0..k.cycle.end -> Int] :
          /\ \A d \in Day : p[d] + (IF d = from THEN k.proposed ELSE 0) <= planned[d]
          /\ \A d \in 0..k.cycle.end :
                LET close == (IF d = 0 THEN opening ELSE q[d - 1]) + orders[d] + p[d] - Adjusted(d)
                IN q[d] = IF d < from THEN NonNegative(close) ELSE close
          /\ \A d \in from..k.cycle.end : q[d] + k.raw >= 0
    BY <1>1 DEF Enough
<1> HIDE DEF b, from
<1> DEFINE Below(d) == (IF d < from THEN q[d] ELSE q[d] + k.proposed) <= b[d]
           Good == {n \in Nat : n <= u => Below(n)}
<1>7. ASSUME NEW d \in 0..u, d # 0 => Below(d - 1) PROVE Below(d)
    <2> DEFINE x == IF d = 0 THEN opening ELSE q[d - 1]
               y == IF d = 0 THEN opening ELSE b[d - 1]
    <2>1. d \in 0..End /\ d \in 0..k.cycle.end /\ d \in Day /\ d \in Nat
        BY <1>2 DEF Day
    <2>2. x \in Int /\ y \in Int
        BY <1>2, <1>4, <1>6, <2>1
    <2>3. (IF d <= from THEN x ELSE x + k.proposed) <= y
        BY <1>2, <1>7, <2>1, <2>2
    <2>4. /\ Adjusted(d) \in Nat /\ Adjusted(d) >= demand[d]
          /\ demand[d] \in Nat /\ orders[d] \in Nat /\ planned[d] \in Nat /\ p[d] \in Nat
        BY <1>1, <2>1, AdjustedIsNatural
    <2>5. /\ p[d] + (IF d = from THEN k.proposed ELSE 0) <= planned[d]
          /\ q[d] = IF d < from THEN NonNegative(x + orders[d] + p[d] - Adjusted(d))
                    ELSE x + orders[d] + p[d] - Adjusted(d)
        BY <1>6, <2>1
    <2>6. b[d] = y + (orders[d] + planned[d]) - demand[d]
        BY <1>4, <2>1
    <2> HIDE DEF x, y
    <2>7. CASE d < from
        <3>1. b[d] >= 0
            BY <1>2, <1>5, <2>1, <2>7
        <3> QED
            BY <1>2, <2>1, <2>2, <2>3, <2>4, <2>5, <2>6, <2>7, <3>1 DEF NonNegative
    <2>8. CASE d = from
        <3>1. x <= y /\ q[d] = x + orders[d] + p[d] - Adjusted(d)
            BY <1>2, <2>1, <2>3, <2>5, <2>8
        <3>2. p[d] + k.proposed <= planned[d]
            BY <2>5, <2>8
        <3>3. q[d] + k.proposed <= b[d]
            <4>1. PICK X \in Int, Y \in Int, c \in Nat, o \in Nat, P \in Nat, r \in Nat, a \in Nat, e \in Nat :
                      /\ X = x /\ Y = y /\ c = k.proposed /\ o = orders[d] /\ P = p[d]
                      /\ r = planned[d] /\ a = Adjusted(d) /\ e = demand[d]
                BY <1>2, <2>2, <2>4
            <4>2. q[d] = X + o + P - a
                BY <3>1, <4>1
            <4>3. b[d] = Y + (o + r) - e
                BY <2>6, <4>1
            <4>4. X <= Y /\ P + c <= r /\ e <= a
                BY <2>4, <3>1, <3>2, <4>1
            <4>5. (X + o + P - a) + c <= Y + (o + r) - e
                BY <4>4
            <4> QED
                BY <4>1, <4>2, <4>3, <4>5
        <3> QED
            BY <1>2, <2>1, <2>8, <3>3
    <2>9. CASE d > from
        <3>1. x + k.proposed <= y /\ q[d] = x + orders[d] + p[d] - Adjusted(d)
            BY <1>2, <2>1, <2>3, <2>5, <2>9
        <3>2. p[d] <= planned[d]
            BY <1>2, <2>1, <2>4, <2>5, <2>9
        <3>3. q[d] + k.proposed <= b[d]
            <4>1. PICK X \in Int, Y \in Int, c \in Nat, o \in Nat, P \in Nat, r \in Nat, a \in Nat, e \in Nat :
                      /\ X = x /\ Y = y /\ c = k.proposed /\ o = orders[d] /\ P = p[d]
                      /\ r = planned[d] /\ a = Adjusted(d) /\ e = demand[d]
                BY <1>2, <2>2, <2>4
            <4>2. q[d] = X + o + P - a
                BY <3>1, <4>1
            <4>3. b[d] = Y + (o + r) - e
                BY <2>6, <4>1
            <4>4. X + c <= Y /\ P <= r /\ e <= a
                BY <2>4, <3>1, <3>2, <4>1
            <4>5. (X + o + P - a) + c <= Y + (o + r) - e
                BY <4>4
            <4> QED
                BY <4>1, <4>2, <4>3, <4>5
        <3> QED
            BY <1>2, <2>1, <2>9, <3>3
    <2> QED
        BY <1>2, <2>1, <2>7, <2>8, <2>9
<1> HIDE DEF Below
<1>8. 0 \in Good
    BY <1>7
<1>9. ASSUME NEW n \in Nat, n \in Good PROVE n + 1 \in Good
    <2> SUFFICES ASSUME n + 1 <= u PROVE Below(n + 1)
        OBVIOUS
    <2>1. Below(n) /\ n + 1 \in 0..u /\ (n + 1) - 1 = n
        BY <1>9
    <2> QED
        BY <1>7, <2>1
<1>10. Below(u)
    <2> HIDE DEF Good
    <2>1. Nat \subseteq Good
        BY <1>8, <1>9, Counting
    <2> USE DEF Good
    <2> QED
        BY <2>1
<1>11. q[u] \in Int /\ q[u] + k.raw >= 0 /\ b[u] \in Int /\ from <= u
    BY <1>2, <1>4, <1>6 DEF from
<1> QED
    BY <1>2, <1>5, <1>10, <1>11 DEF Below

\* The projection can only fall short on a day with demand.
LEMMA ShortageHasDemand ==
    ASSUME EInv, stage = "done", NEW u \in 0..End, u = uncovered["projected"]
    PROVE  demand[u] > 0
<1> USE DayAssumption
<1>1. /\ InputsOK /\ planned \in [Day -> Nat] /\ receipts = planned /\ u \in Day
    BY DEF EInv, EngineTypes, Staged, Day
<1>2. demand[u] \in Nat
    BY <1>1 DEF InputsOK
<1>3. ASSUME demand[u] = 0 PROVE FALSE
    <2> DEFINE b == Closing("projected")
    <2>1. IsClosing(b, "projected")
        BY <1>1, ClosingExists DEF Scenario
    <2>2. (\A d \in 0..End : d < u => b[d] >= 0) /\ b[u] < 0
        BY DEF EInv, Walked, Staged, NotSeen
    <2>3. /\ b \in [0..End -> Int]
          /\ b[u] = (IF u = 0 THEN opening ELSE b[u - 1]) + (orders[u] + planned[u]) - 0
        BY <1>1, <1>3, <2>1 DEF IsClosing, Supply
    <2>4. opening \in Nat /\ orders[u] \in Nat /\ planned[u] \in Nat
        BY <1>1 DEF InputsOK
    <2> HIDE DEF b
    <2>5. CASE u = 0
        BY <2>2, <2>3, <2>4, <2>5
    <2>6. CASE u # 0
        <3>1. b[u - 1] \in Int /\ b[u - 1] >= 0
            BY <2>2, <2>3, <2>6
        <3> QED
            BY <2>2, <2>3, <2>4, <2>6, <3>1
    <2> QED
        BY <2>5, <2>6
<1> QED
    BY <1>2, <1>3

\* If all that is demanded of a fresh item is covered once, a shortage falls into
\* the window of a line.
LEMMA ShortageIsCovered ==
    ASSUME EInv, stage = "done", policy.fresh, Uncovered = {},
           NEW u \in 0..End, u = uncovered["projected"]
    PROVE  \E k \in lines : k.cycle.receipt <= u /\ u <= k.cycle.end
<1> USE DayAssumption
<1> DEFINE over == {l \in lines : u \in l.cycle.dates}
<1>1. demand[u] > 0 /\ u \in Day
    BY ShortageHasDemand DEF Day
<1>2. Cardinality(over) = 1
    BY <1>1 DEF Uncovered
<1>3. IsFiniteSet(over)
    BY FS_Subset DEF EInv, InOrder
<1>4. over # {}
    BY <1>2, <1>3, FS_EmptySet
<1>5. PICK k \in lines : u \in k.cycle.dates
    BY <1>4
<1>6. CycleShape(k.cycle)
    BY CyclesHaveShape DEF EInv
<1>7. k.cycle.receipt <= u /\ u <= k.cycle.end
    BY <1>5, <1>6 DEF CycleShape, Day
<1> QED
    BY <1>7

\* A plan without a warning is not at risk.
LEMMA WorkFollows == EInv => PlanWorks
<1>1. ASSUME EInv, stage = "done", lines # {}, policy.yield >= policy.parts, Uncovered = {},
             \A l \in lines : l.status = "feasible" /\ l.capped = l.raw,
             uncovered["open_po"] >= Min({l.cycle.receipt : l \in lines}),
             NEW u, u = uncovered["projected"], u <= RiskHorizon, u <= End
      PROVE  FALSE
    <2> USE DayAssumption
    <2>1. /\ EngineTypes /\ InputsOK /\ planned \in [Day -> Nat] /\ receipts = planned
          /\ PInv /\ IsFiniteSet(lines)
          /\ \A l \in lines : LineOK(l)
        BY <1>1 DEF EInv, EngineTypes, Staged, InOrder
    <2>2. \A l \in lines : CycleShape(l.cycle)
        BY <1>1, CyclesHaveShape DEF EInv
    <2>3. /\ u \in 0..End /\ u \in Day /\ uncovered["open_po"] \in Int
          /\ uncovered["open_po"] <= u
        BY <1>1, <2>1 DEF PInv, ProjectionOK, Ordered, Pairs, Scenario, NotSeen, Day
    <2>4. \A l \in lines : l.proposed >= l.raw
        BY <1>1, <2>1 DEF LineOK
    <2>5. CASE policy.fresh
        BY <1>1, <2>3, <2>4, <2>5, ShortageIsCovered, WindowHolds
    <2>6. CASE ~policy.fresh
        <3> DEFINE days == {l.cycle.receipt : l \in lines}
                   f == [l \in lines |-> l.cycle.receipt]
        <3>1. PICK k \in lines : RiskHorizon = k.cycle.end
            BY <1>1, HorizonIsLast
        <3>2. IsFiniteSet(days) /\ days # {} /\ \A d \in days : d \in Int
            <4>1. IsFiniteSet({f[l] : l \in lines})
                BY <2>1, Finite
            <4>2. {f[l] : l \in lines} = days
                OBVIOUS
            <4>3. \A l \in lines : l.cycle.receipt \in Int
                BY <2>2 DEF CycleShape, Day
            <4> QED
                BY <1>1, <4>1, <4>2, <4>3
        <3>3. Min(days) \in days
            <4> HIDE DEF days
            <4> QED
                BY <3>2, Extremes
        <3>4. PICK m \in lines : m.cycle.receipt = Min(days)
            BY <3>3
        <3>5. k.cycle.receipt = policy.lead /\ m.cycle.receipt = policy.lead
            BY <2>2, <2>6 DEF CycleShape
        <3>6. k.cycle.receipt <= u /\ u <= k.cycle.end
            <4>1. policy.lead \in Int /\ policy.lead <= uncovered["open_po"]
                BY <1>1, <2>1, <3>4, <3>5 DEF EngineTypes, PolicyOK
            <4> QED
                BY <1>1, <2>3, <3>1, <3>5, <4>1
        <3> QED
            BY <1>1, <2>3, <2>4, <3>6, WindowHolds
    <2> QED
        BY <2>5, <2>6
<1> QED
    BY <1>1 DEF PlanWorks, ActionableRisk

\* A plan without a warning works: if every order is feasible and uncapped, all
\* fresh demand is covered once and no shortage comes before the first receipt,
\* the projection of the plan is not at risk -- for every yield factor that is
\* at least one, as an allowance for loss is.
THEOREM UnwarnedPlanWorks == Spec => []PlanWorks
BY WorkFollows, EngineInductive, PTL

\* A run only fails for an item that is not fresh, and whose lead time is beyond
\* the forecast.
LEMMA FailureIsLate == EInv => (policy.fresh \/ policy.lead <= End => ShortForecastIsAnswered)
<1>1. ASSUME EInv, stage = "failed" PROVE ~policy.fresh /\ policy.lead > End
    <2> USE DayAssumption
    <2>1. /\ EngineTypes /\ IsFiniteSet(lines) /\ \A e \in Day : planned[e] = Total(lines, e)
        BY <1>1 DEF EInv, InOrder
    <2>2. PICK d \in Day : planned[d] > 0 /\ ~(d <= End)
        BY <1>1 DEF EInv, Staged, InHorizon
    <2> DEFINE f == [k \in lines |-> k.proposed]
               due == {k \in lines : k.cycle.receipt = d}
    <2>3. due # {}
        <3>1. SumOver(f, due) > 0
            BY <2>1, <2>2 DEF Total
        <3>2. SumOver(f, {}) = 0
            BY SumUnfolds, FS_EmptySet
        <3> HIDE DEF f, due
        <3> QED
            BY <3>1, <3>2
    <2>4. PICK k \in lines : k.cycle.receipt = d
        BY <2>3
    <2>5. CycleShape(k.cycle)
        BY <1>1, CyclesHaveShape DEF EInv
    <2>6. d \in Int /\ policy.lead \in Int
        BY <2>1 DEF Day, EngineTypes, PolicyOK
    <2> QED
        BY <2>2, <2>4, <2>5, <2>6 DEF CycleShape
<1>2. ASSUME EInv PROVE (policy.fresh \/ policy.lead <= End) => stage # "failed"
    <2>1. policy.lead \in Int
        BY <1>2 DEF EInv, EngineTypes, PolicyOK
    <2> QED
        BY <1>1, <1>2, <2>1, DayAssumption
<1> QED
    BY <1>2 DEF ShortForecastIsAnswered

\* A short forecast is answered with a result, unless the receipt of an item that
\* is not fresh, which has to wait for its lead time, comes after the forecast.
THEOREM OnlyLeadTimeFails ==
    Spec => [](policy.fresh \/ policy.lead <= End => ShortForecastIsAnswered)
BY FailureIsLate, EngineInductive, PTL

\* The first state of a plan and each of its steps are those of a projection.
LEMMA BeginProjects == ASSUME NEW i, InstanceOK(i), Begin(i) PROVE ProjectionInit
BY DEF InstanceOK, Begin, ProjectionInit, InputsOK

\* Scheduling leaves the projection alone, which then begins with the plan.
LEMMA StepProjects == ASSUME EInv, [Next]_vars PROVE [ProjectionNext]_<<inputs, projectionVars>>
<1>1. CASE Schedule
    BY <1>1 DEF Schedule
<1>2. CASE Project
    <2>1. CASE InHorizon(planned)
        <3>1. BeginProjection(planned) /\ UNCHANGED inputs
            BY <1>2, <2>1 DEF Project
        <3>2. receipts' = planned /\ planned \in [Day -> Nat]
            BY <3>1 DEF BeginProjection, EInv, EngineTypes
        <3>3. BeginAny
            BY <2>1, <3>1, <3>2 DEF BeginAny, BeginProjection, InHorizon
        <3> QED
            BY <3>1, <3>3 DEF ProjectionNext
    <2>2. CASE ~InHorizon(planned)
        BY <1>2, <2>2 DEF Project
    <2> QED
        BY <2>1, <2>2
<1>3. CASE Walk
    BY <1>3 DEF Walk, ProjectionNext
<1>4. CASE Ended \/ UNCHANGED vars
    BY <1>4 DEF Ended, vars
<1> QED
    BY <1>1, <1>2, <1>3, <1>4 DEF Next

\* The plan's projection is one of the projections for any inputs and receipts.
THEOREM PlansProject == Spec => ImplementsProjection
<1>1. Init => ProjectionInit
    BY BeginProjects, InstanceAssumption DEF Init
<1>2. EInv /\ [Next]_vars => [ProjectionNext]_<<inputs, projectionVars>>
    BY StepProjects
<1> QED
    BY <1>1, <1>2, EngineInductive, PTL DEF Spec, ImplementsProjection, ProjectionSpec
=============================================================================
