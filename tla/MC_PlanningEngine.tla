------------------------- MODULE MC_PlanningEngine -------------------------
(* Six forecast days, each with demand or without, and at most one open      *)
(* order.  Every way of ordering meets every cap and every pack.             *)
EXTENDS PlanningEngine

Opening == {0, 12}
Demand == {[d \in Day |-> IF d <= End THEN f[d] ELSE 0] : f \in [0..End -> {0, 8}]}
NoOrders == [d \in Day \cup {Overdue} |-> 0]
Orders == {NoOrders} \cup {[NoOrders EXCEPT ![d] = 8] : d \in {Overdue, 0, 2, 4, End + 1}}

Rule(id, delivery, covers) == [id |-> id, delivery |-> delivery, covers |-> covers,
                               review |-> 7, from |-> -7, to |-> 100]
Review(days) == [Rule(1, 0, {}) EXCEPT !.review = days]

Plain == [fresh |-> FALSE, unit |-> 8, moq |-> 0, multiple |-> 1, lead |-> 0,
          shelf |-> NoDays, anchor |-> "none", cover |-> NoDays, safety |-> 0,
          yield |-> 2, parts |-> 2, rules |-> {Review(3)}]

\* Yield factors of one, of less and of more.
Stocked == {Plain, [Plain EXCEPT !.yield = 1],
            [Plain EXCEPT !.lead = 1, !.rules = {Review(1), Rule(2, 0, {})}, !.safety = 4],
            [Plain EXCEPT !.lead = 2, !.rules = {Review(5)}, !.yield = 5, !.parts = 4]}

\* Windows that follow each other, overlap, share a day, or end with a rule.
Apart == {Rule(1, 0, {1, 2}), Rule(2, 2, {3, 4})}
Overlapping == {Rule(1, 0, {1, 4}), Rule(2, 1, {2, 3})}
Twice == {Rule(1, 1, {2, 3}), Rule(2, 1, {3, 4, 5})}
Ending == {[Rule(1, 0, {1, 2}) EXCEPT !.to = 1], Rule(2, 2, {3})}

Fresh == {[Plain EXCEPT !.fresh = TRUE, !.rules = Apart],
          [Plain EXCEPT !.fresh = TRUE, !.rules = Apart, !.yield = 1],
          [Plain EXCEPT !.fresh = TRUE, !.rules = Overlapping, !.safety = 2],
          [Plain EXCEPT !.fresh = TRUE, !.rules = Twice, !.lead = 1],
          [Plain EXCEPT !.fresh = TRUE, !.rules = Ending, !.lead = 2, !.yield = 3]}

Caps(p) == {p, [p EXCEPT !.shelf = 2, !.anchor = "receipt"],
               [p EXCEPT !.shelf = 3, !.anchor = "order"],
               [p EXCEPT !.cover = (3 * p.parts) \div 2],
               [p EXCEPT !.cover = 2 * p.parts, !.shelf = 3, !.anchor = "receipt"]}

Packs(p) == {p, [p EXCEPT !.unit = 3, !.moq = 3], [p EXCEPT !.unit = 4, !.multiple = 2],
                [p EXCEPT !.unit = 2, !.moq = 5, !.multiple = 3]}

Policies == UNION {UNION {Packs(q) : q \in Caps(p)} : p \in Stocked \cup Fresh}

\* An imported item whose lead time is longer than the forecast.
LongLead == {[Plain EXCEPT !.lead = End + 1, !.rules = {Review(1)}, !.safety = 14]}

\* No rule is active today: nothing is recommended.
Unruled == {[p EXCEPT !.rules = {[Review(3) EXCEPT !.to = -1]}] :
               p \in {Plain, [Plain EXCEPT !.fresh = TRUE]}}

Cases(policies) == [opening : Opening, demand : Demand, orders : Orders, policy : policies]
AllCases == Cases(Policies \cup LongLead \cup Unruled)
LongLeadCases == Cases(LongLead)
=============================================================================
