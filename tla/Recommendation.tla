--------------------------- MODULE Recommendation ---------------------------
(***************************************************************************)
(* schedule_recommendations of engine/recommend.py for one item at one     *)
(* location: one order is sized for each delivery cycle, in the order of   *)
(* their receipt dates, each in the knowledge of the receipts planned      *)
(* before it.  An item that is not fresh has a single cycle.               *)
(*                                                                         *)
(* yield_factor, min_safety_days and max_cover_days are decimals: each is  *)
(* a number of parts, and policy.parts of them make one.                   *)
(***************************************************************************)
EXTENDS ItemInputs, FiniteSets, FiniteSetsExt

VARIABLES policy,   \* Item, ItemPlanningPolicy and matching DeliveryCoverageRules
          todo,     \* cycles that have no line yet
          planned,  \* planned_receipts
          lines     \* planning_lines

recommendationVars == <<policy, todo, planned, lines>>

NoDays == -1   \* shelf_life_days or max_cover_days is not configured

\* Mutant: what cannot be served stays a debt.
Signed(x) == x

\* What the dataclasses of Item, ItemPlanningPolicy and DeliveryCoverageRule
\* refuse to be without, for a rule of the item's storage class.
RuleOK(rule) == /\ rule.id \in Int
                /\ rule.covers \subseteq 0..6
                /\ rule.review \in Nat \ {0}

\* The windows of its deliveries end by the last day.
WithinReach(p) == IF p.fresh THEN End + 7 <= Last
                  ELSE \A rule \in p.rules : p.lead + rule.review - 1 <= Last

PolicyOK(p) == /\ p.fresh \in BOOLEAN
               /\ p.unit \in Nat \ {0} /\ p.multiple \in Nat \ {0} /\ p.moq \in Nat
               /\ p.lead \in Nat /\ p.safety \in Nat
               /\ p.yield \in Nat \ {0} /\ p.parts \in Nat \ {0}
               /\ p.shelf \in (Nat \ {0}) \cup {NoDays} /\ p.cover \in (Nat \ {0}) \cup {NoDays}
               /\ IsFiniteSet(p.rules) /\ \A rule \in p.rules : RuleOK(rule)
               /\ WithinReach(p)

NonNegative(x) == IF x < 0 THEN 0 ELSE x

\* adjusted_by_date; the yield factor may be less than one.
Adjusted(d) == (demand[d] * policy.yield) \div policy.parts

SumOver(f, S) == MapThenSumSet(LAMBDA d : f[d], S)

-----------------------------------------------------------------------------
(* Delivery cycles *)

\* Day 0 is weekday 0.
Weekday(d) == d % 7

\* _next_weekday_after: always a later day.
NextWeekdayAfter(d, weekday) == d + 1 + ((weekday - Weekday(d) - 1) % 7)

ActiveOn(rule, d) == rule.from <= d /\ d <= rule.to

\* Rules of the item's channel and storage class that are active today.
MatchingRules(p) == {rule \in p.rules : ActiveOn(rule, 0)}

CoveredDates(rule, d) == {NextWeekdayAfter(d, w) : w \in rule.covers}

\* A cycle covers its dates; it is worth a line if one of them has demand.
FreshCycle(p, rule, d) == [receipt |-> d, rule |-> rule.id, order |-> d - p.lead,
                           dates |-> CoveredDates(rule, d), end |-> Max(CoveredDates(rule, d))]

Deliveries(rule, dem) == {d \in 0..End : /\ Weekday(d) = rule.delivery
                                         /\ ActiveOn(rule, d)
                                         /\ \E v \in CoveredDates(rule, d) : dem[v] > 0}

FreshCycles(p, dem) == UNION {{FreshCycle(p, rule, d) : d \in Deliveries(rule, dem)} :
                                 rule \in MatchingRules(p)}

\* Lead time and review period from today on, under the first matching rule.
StockedCycles(p) ==
    {[receipt |-> p.lead, rule |-> rule.id, order |-> 0,
      dates |-> 0 .. p.lead + rule.review - 1, end |-> p.lead + rule.review - 1] :
        rule \in {r \in MatchingRules(p) : \A q \in MatchingRules(p) : r.id <= q.id}}

Cycles(p, dem) == IF p.fresh THEN FreshCycles(p, dem) ELSE StockedCycles(p)

Before(c, b) == c.receipt < b.receipt \/ (c.receipt = b.receipt /\ c.rule < b.rule)

BeginRecommendation(p, dem) == /\ policy = p
                               /\ todo = Cycles(p, dem)
                               /\ planned = [d \in Day |-> 0]
                               /\ lines = {}

-----------------------------------------------------------------------------
(* The need of a cycle *)

\* Mutant: open orders are left out of the balance.
BalanceOfStock(c) ==
    LET bal[d \in 0..c.end] ==
            LET close == (IF d = 0 THEN opening ELSE bal[d - 1]) + planned[d] - Adjusted(d)
            IN IF d < c.receipt THEN NonNegative(close) ELSE close
    IN bal

\* _balance_for_candidate: a shortage before the receipt is lost, one from the
\* receipt on is what the order has to prevent.
Balance(c) ==
    LET bal[d \in 0..c.end] ==
            LET close == (IF d = 0 THEN opening ELSE bal[d - 1])
                            + orders[d] + planned[d] - Adjusted(d)
            IN IF d < c.receipt THEN NonNegative(close) ELSE close
    IN bal

\* Average demand of the covered dates, times the safety days.
SafetyStock(c) == (SumOver(demand, c.dates) * policy.safety) \div (policy.parts * Cardinality(c.dates))

\* Mutant: the order only fills up to the safety stock at the end of the window.
RawOrderAtEnd(c) == NonNegative(SafetyStock(c) - Balance(c)[c.end])

\* raw_order_g: enough for the safety stock at the end of the window, and for
\* every day from the receipt on.
RawOrder(c) == LET bal == Balance(c)
               IN Max({0, SafetyStock(c) - bal[c.end]} \cup {-bal[d] : d \in c.receipt..c.end})

-----------------------------------------------------------------------------
(* Caps *)

\* Mutant: what is left of the stock and other receipts is not counted.
CapacityOfDemand(from, to, share) ==
    SumOver([d \in from..to |->
                IF d = to THEN (Adjusted(d) * share) \div policy.parts ELSE Adjusted(d)], from..to)

\* _candidate_absorption: the demand that a receipt on day from can still serve
\* up to day to, if all other supply is used first.  A share of the last day's
\* parts counts.
Capacity(from, to, share) ==
    LET need(d) == IF d = to THEN (Adjusted(d) * share) \div policy.parts ELSE Adjusted(d)
        other[d \in 0..to] ==   \* other supply left over at the end of day d
            NonNegative((IF d = 0 THEN opening ELSE other[d - 1])
                            + orders[d] + planned[d] - need(d))
        unserved(d) ==
            NonNegative(need(d) - ((IF d = 0 THEN opening ELSE other[d - 1])
                                      + orders[d] + planned[d]))
    IN SumOver([d \in from..to |-> unserved(d)], from..to)

\* Days that a receipt keeps, counted from the order or from the receipt.
Expiry(c) == (IF policy.anchor = "order" THEN c.order ELSE c.receipt) + policy.shelf - 1

HasExpiry == policy.shelf # NoDays /\ policy.anchor # "none"

ShelfLifeCap(c) == Capacity(c.receipt, Min({Expiry(c), End}), policy.parts)

\* _max_cover_window: whole days from the receipt on, and a part of one more.
CoverEnd(c) == c.receipt + ((policy.cover + policy.parts - 1) \div policy.parts) - 1
CoverShare(c) == IF CoverEnd(c) <= End /\ policy.cover % policy.parts # 0
                 THEN policy.cover % policy.parts ELSE policy.parts

MaxCoverCap(c) == Capacity(c.receipt, Min({CoverEnd(c), End}), CoverShare(c))

HardCaps(c) == (IF HasExpiry THEN {ShelfLifeCap(c)} ELSE {})
                  \cup (IF policy.cover # NoDays THEN {MaxCoverCap(c)} ELSE {})

-----------------------------------------------------------------------------
(* Rounding *)

CeilTo(x, step) == ((x + step - 1) \div step) * step
FloorTo(x, step) == (x \div step) * step

\* Mutant: the order is rounded up whatever the caps say.
RoundUp(capped, raw, caps) ==
    IF capped = 0 THEN [quantity |-> 0, status |-> "feasible"]
    ELSE [quantity |-> CeilTo(Max({capped, policy.moq * policy.unit}),
                              policy.multiple * policy.unit),
          status |-> "feasible"]

\* _round_order, in grams: up to the minimum and to a case multiple, unless
\* that is beyond a cap; then down to a multiple within it, or nothing.
Round(capped, raw, caps) ==
    LET step == policy.multiple * policy.unit
        least == policy.moq * policy.unit
        up == CeilTo(Max({capped, least}), step)
        safe == FloorTo(Min(caps), step)
    IN IF capped = 0
       THEN [quantity |-> 0,
             status |-> IF raw > 0 /\ caps # {} THEN "no_safe_order" ELSE "feasible"]
       ELSE IF \A cap \in caps : up <= cap THEN [quantity |-> up, status |-> "feasible"]
       ELSE IF safe > 0 /\ safe >= least THEN [quantity |-> safe, status |-> "reduced"]
       ELSE [quantity |-> 0, status |-> "no_safe_order"]

-----------------------------------------------------------------------------
\* The line of one cycle: what it needs, may have and is proposed.
Line(c) == LET raw == RawOrder(c)
               caps == HardCaps(c)
               capped == Min({raw} \cup caps)
               rounded == Round(capped, raw, caps)
           IN [cycle |-> c, raw |-> raw, caps |-> caps, capped |-> capped,
               proposed |-> rounded.quantity, status |-> rounded.status]

\* The body of the loop.
PlanCycle(c) ==
    /\ c \in todo
    /\ \A b \in todo \ {c} : Before(c, b)
    /\ LET line == Line(c)
       IN /\ lines' = lines \cup {line}
          /\ planned' = [planned EXCEPT ![c.receipt] = @ + line.proposed]
    /\ todo' = todo \ {c}
    /\ UNCHANGED policy

\* Mutant: fresh demand that nothing covers is not reported.
UncoveredTwice == {d \in Day : /\ policy.fresh /\ demand[d] > 0
                               /\ Cardinality({l \in lines : d \in l.cycle.dates}) > 1}

\* Fresh demand that is not covered by exactly one cycle is reported.
Uncovered == {d \in Day : /\ policy.fresh /\ demand[d] > 0
                          /\ Cardinality({l \in lines : d \in l.cycle.dates}) # 1}

\* risk_horizon_by_key: the last day a line covers, or none without lines.
RiskHorizon == IF lines = {} THEN -1 ELSE Max({l.cycle.end : l \in lines})
=============================================================================
