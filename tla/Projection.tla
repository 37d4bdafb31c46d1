----------------------------- MODULE Projection -----------------------------
(***************************************************************************)
(* project_inventory of engine/netting.py, and what run_improved_plan      *)
(* attaches to its result.  run_improved_plan projects an item three       *)
(* times: with its stock only, with the open orders, and with the proposed *)
(* receipts as well.  The three loops over the days do not touch each      *)
(* other, so one step here is one day of all three.                        *)
(***************************************************************************)
EXTENDS ItemInputs

VARIABLES receipts,  \* candidate receipts of each day
          day,       \* the next day of the loop
          balance,   \* closing balance of the day before, by scenario
          uncovered  \* first_stockout_date so far, by scenario

projectionVars == <<receipts, day, balance, uncovered>>

Scenario == {"on_hand", "open_po", "projected"}

\* No shortage was seen: the day after the last one.
NotSeen == End + 1

ProjectionOK == /\ receipts \in [Day -> Nat]
                /\ day \in 0..NotSeen
                /\ balance \in [Scenario -> Int]
                /\ uncovered \in [Scenario -> 0..NotSeen]

\* Mutant: a projection with proposals leaves the open orders out.
SupplyOfProposals(s, d) == CASE s = "on_hand" -> 0
                             [] s = "open_po" -> orders[d]
                             [] s = "projected" -> receipts[d]

\* What arrives on day d, before that day's demand.  Overdue orders and orders
\* after the last day are reported, and never counted.
Supply(s, d) == CASE s = "on_hand" -> 0
                  [] s = "open_po" -> orders[d]
                  [] s = "projected" -> orders[d] + receipts[d]

\* A projection begins with the proposed receipts r; _validate_scope refuses
\* one after the last day.
InHorizon(r) == \A d \in Day : r[d] > 0 => d <= End

BeginProjection(r) == /\ receipts' = r
                      /\ day' = 0
                      /\ balance' = [s \in Scenario |-> opening]
                      /\ uncovered' = [s \in Scenario |-> NotSeen]

\* closing_balance_g.  A shortage is carried on: the balance may be negative.
Close(s) == balance[s] + Supply(s, day) - demand[day]

\* Mutant: a shortage is forgotten when a later receipt makes up for it.
ProjectDayMakingUp == /\ day <= End
                      /\ balance' = [s \in Scenario |-> Close(s)]
                      /\ uncovered' = [s \in Scenario |->
                                         IF Close(s) >= 0 THEN NotSeen
                                         ELSE IF uncovered[s] = NotSeen THEN day ELSE uncovered[s]]
                      /\ day' = day + 1
                      /\ UNCHANGED receipts

ProjectDay == /\ day <= End
              /\ balance' = [s \in Scenario |-> Close(s)]
              /\ uncovered' = [s \in Scenario |->
                                 IF Close(s) < 0 /\ uncovered[s] = NotSeen
                                 THEN day ELSE uncovered[s]]
              /\ day' = day + 1
              /\ UNCHANGED receipts

BeginAny == /\ receipts' \in [Day -> Nat]
            /\ InHorizon(receipts')
            /\ BeginProjection(receipts')

\* The projection of any inputs with any receipts that are within its scope.
ProjectionInit == /\ InputsOK
                  /\ receipts = [d \in Day |-> 0]
                  /\ day = 0
                  /\ balance = [s \in Scenario |-> opening]
                  /\ uncovered = [s \in Scenario |-> NotSeen]

ProjectionNext == (BeginAny \/ ProjectDay) /\ UNCHANGED inputs

ProjectionSpec == ProjectionInit /\ [][ProjectionNext]_<<inputs, projectionVars>>

-----------------------------------------------------------------------------
(* Results *)

NoHorizon == -1

\* continuous_coverage_runway: days served from day 0 on, all of them if no
\* shortage was seen.
CoverageDays(s) == uncovered[s]

\* net_requirement_g
NetRequirement == IF balance["open_po"] < 0 THEN -balance["open_po"] ELSE 0

\* classify_actionable_risk, of the projection with the proposals.
ActionableRisk(horizon) ==
    IF horizon = NoHorizon THEN "not_evaluated"
    ELSE IF uncovered["projected"] <= horizon /\ uncovered["projected"] <= End THEN "at_risk"
    ELSE IF End >= horizon THEN "covered"
    ELSE "not_evaluated"

\* classify_order_requirement, of the projection without them.
OrderRequirement(horizon) ==
    IF horizon = NoHorizon THEN "not_evaluated"
    ELSE IF uncovered["open_po"] <= horizon /\ uncovered["open_po"] <= End THEN "needs_order"
    ELSE IF End >= horizon THEN "covered_without_order"
    ELSE "not_evaluated"

-----------------------------------------------------------------------------
(* Properties *)

\* More supply never shortens the runway: the ValueError of
\* attach_supply_coverage, "non-negative receipts must not reduce continuous
\* coverage", is unreachable.
CoverageNested == /\ uncovered["on_hand"] <= uncovered["open_po"]
                  /\ uncovered["open_po"] <= uncovered["projected"]

\* "A receipt after an earlier gap ... cannot inflate the displayed runway":
\* unless something arrives by the first uncovered day, the runway is as it was.
GapNotBridged(less, more) ==
    (\A d \in 0..uncovered[less] : d <= End => Supply(more, d) = Supply(less, d))
        => uncovered[more] = uncovered[less]

LateReceiptsDoNotCount == /\ GapNotBridged("on_hand", "open_po")
                          /\ GapNotBridged("open_po", "projected")
=============================================================================
