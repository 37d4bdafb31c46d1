--------------------------- MODULE PlanningEngine ---------------------------
(***************************************************************************)
(* The part of run_improved_plan that decides about one item at one        *)
(* location: the recommendations are scheduled, the proposed receipts join *)
(* the projection, and the result is classified against the last day the   *)
(* recommendations cover.                                                  *)
(***************************************************************************)
EXTENDS Projection, Recommendation

CONSTANT Instance   \* inputs and policies to plan for

\* No division of the model rounds where the code's would not: grams are counted
\* in a unit that is small enough.
Exact(i) ==
    LET p == i.policy
        adjusted(d) == (i.demand[d] * p.yield) \div p.parts
    IN /\ \A c \in Cycles(p, i.demand) :
             (SumOver(i.demand, c.dates) * p.safety) % (p.parts * Cardinality(c.dates)) = 0
       /\ \A d \in Day : /\ (i.demand[d] * p.yield) % p.parts = 0
                         /\ p.cover # NoDays => (adjusted(d) * p.cover) % p.parts = 0

InstanceOK(i) == /\ i.opening \in Nat
                 /\ i.demand \in [Day -> Nat] /\ (\A d \in Day : d > End => i.demand[d] = 0)
                 /\ i.orders \in [Day \cup {Overdue} -> Nat]
                 /\ PolicyOK(i.policy)
                 /\ Exact(i)

ASSUME InstanceAssumption == \A i \in Instance : InstanceOK(i)

VARIABLE stage

vars == <<inputs, projectionVars, recommendationVars, stage>>

Begin(i) == /\ opening = i.opening
            /\ demand = i.demand
            /\ orders = i.orders
            /\ BeginRecommendation(i.policy, i.demand)
            /\ receipts = [d \in Day |-> 0]
            /\ day = 0
            /\ balance = [s \in Scenario |-> i.opening]
            /\ uncovered = [s \in Scenario |-> NotSeen]
            /\ stage = "schedule"

Init == \E i \in Instance : Begin(i)

Schedule == /\ stage = "schedule"
            /\ \E c \in todo : PlanCycle(c)
            /\ UNCHANGED <<inputs, projectionVars, stage>>

\* Mutant: the dates of the receipts are not looked at.
ProjectUnchecked == /\ stage = "schedule" /\ todo = {}
                    /\ BeginProjection(planned) /\ stage' = "project"
                    /\ UNCHANGED <<inputs, recommendationVars>>

\* The recommendations become candidate receipts.  _validate_scope raises, and
\* the run fails, if one of them is due after the last forecast.
Project == /\ stage = "schedule" /\ todo = {}
           /\ IF InHorizon(planned)
              THEN BeginProjection(planned) /\ stage' = "project"
              ELSE UNCHANGED projectionVars /\ stage' = "failed"
           /\ UNCHANGED <<inputs, recommendationVars>>

Walk == /\ stage = "project"
        /\ ProjectDay
        /\ stage' = IF day = End THEN "done" ELSE "project"
        /\ UNCHANGED <<inputs, recommendationVars>>

Ended == stage \in {"done", "failed"} /\ UNCHANGED vars

Next == Schedule \/ Project \/ Walk \/ Ended

Spec == Init /\ [][Next]_vars

-----------------------------------------------------------------------------
(* Properties *)

\* What the recommendations hand to the projection is within its scope, and
\* nothing disturbs its three loops: all that is proved of a projection, for
\* any inputs and receipts, holds of the plan's.
ImplementsProjection == ProjectionSpec

\* Types; and no division of the model rounds where the code's would not.
TypeOK ==
    /\ InputsOK /\ ProjectionOK
    /\ stage \in {"schedule", "project", "done", "failed"}
    /\ planned \in [Day -> Nat]
    /\ \A l \in lines :
          /\ l.raw \in Nat /\ l.capped \in Nat /\ l.proposed \in Nat /\ l.caps \subseteq Nat
          /\ (SumOver(demand, l.cycle.dates) * policy.safety)
                % (policy.parts * Cardinality(l.cycle.dates)) = 0
    /\ \A d \in Day : /\ (demand[d] * policy.yield) % policy.parts = 0
                      /\ policy.cover # NoDays => (Adjusted(d) * policy.cover) % policy.parts = 0

\* Whatever is proposed can be bought and is within every cap, although the
\* caps, the minimum order and the case multiple pull in different directions;
\* and an order that is called feasible meets its need.
ProposalsAreSafe ==
    \A l \in lines :
        /\ l.proposed > 0 => /\ l.proposed % (policy.multiple * policy.unit) = 0
                             /\ l.proposed >= policy.moq * policy.unit
                             /\ \A cap \in l.caps : l.proposed <= cap
        /\ l.status = "feasible" => l.proposed >= l.capped

\* What is proposed for day d by the lines up to line l.
ProposedBy(l, d) ==
    SumOver([k \in lines |-> k.proposed],
            {k \in lines : k.cycle.receipt = d /\ (k = l \/ Before(k.cycle, l.cycle))})

\* What is left at the end of day t of the stock, the orders and the proposals
\* that arrived before proposal l or with it, if the oldest are used first.
LeftOf(l, t) ==
    LET left[d \in 0..t] ==
            NonNegative((IF d = 0 THEN opening ELSE left[d - 1]) - Adjusted(d)
                           + IF d <= l.cycle.receipt THEN orders[d] + ProposedBy(l, d) ELSE 0)
    IN left[t]

\* In the finished plan no proposal outlives its shelf life, or the forecast if
\* that ends earlier, whatever other receipts were planned before and after it:
\* the warning about a residual at expiry is never raised.
NothingExpires ==
    stage = "done" /\ HasExpiry =>
        \A l \in lines : l.proposed > 0 => LeftOf(l, Min({Expiry(l.cycle), End})) = 0

\* A plan without a warning works.  If every order is feasible and uncapped,
\* all fresh demand is covered exactly once and no shortage comes before the
\* first receipt, the projection of the plan -- which carries shortages on,
\* and knows nothing of cycles -- is not at risk.  The yield factor has to be an
\* allowance for loss, at least one: the code takes any that is positive, and
\* with less than one orders less than what the projection counts as demand.
PlanWorks ==
    stage = "done" /\ lines # {}
        /\ policy.yield >= policy.parts
        /\ Uncovered = {}
        /\ (\A l \in lines : l.status = "feasible" /\ l.capped = l.raw)
        /\ uncovered["open_po"] >= Min({l.cycle.receipt : l \in lines})
    => ActionableRisk(RiskHorizon) # "at_risk"

\* When accepted supply covers the whole horizon, nothing but safety stock is
\* proposed.  A yield allowance, which the projection does not know, asks for more
\* than that; a factor of one or less does not.
NoOrderWithoutNeed ==
    stage = "done" /\ policy.yield <= policy.parts
        /\ OrderRequirement(RiskHorizon) = "covered_without_order"
    => \A l \in lines : l.raw <= SafetyStock(l.cycle)

\* "The available forecast/evidence stops before the end of an item's
\* protection window. This is unknown, not covered": a short forecast is
\* answered with a result, not with a failed run.
ShortForecastIsAnswered == stage # "failed"
=============================================================================
