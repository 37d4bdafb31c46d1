---------------------------- MODULE ImprovedRun ----------------------------
(***************************************************************************)
(* run_improved_plan from its sources to its answer, as the three ways of  *)
(* asking for a plan reach it: sources are read, a bundle is loaded or     *)
(* assembled, gated, exploded and joined with stock; then the engine plans *)
(* each item at each location, and the issues of all stages are reported.  *)
(*                                                                         *)
(* All demand is followed up to the engine; from there on one item at one  *)
(* location is, the key.  Nothing of the sources changes in a run, so what *)
(* the engine will be given of the key is known from the start.            *)
(***************************************************************************)
EXTENDS PlanningEngine, SourceFiles

CONSTANT Source   \* what a plan is asked from

VARIABLES source, key,
          phase,     \* the next step of the run
          outcome,   \* how it was answered, or "none"
          issues     \* <<code, what it is about>>

runVars == <<source, key, phase, outcome, issues>>

NoSource == [origin |-> "none"]
NoKey == <<"none", "none">>

\* Mutant: only fixtures may have gaps.
StrictUnlessFixture == source.mode # "fixture"

Strict == source.mode \in {"shadow", "production"}

-----------------------------------------------------------------------------
(* What the engine is given *)

\* load_canonical_bundle drops what the manifest does not declare.
Given(src) == IF src.origin = "store" THEN Bundle(src) ELSE Loaded(Bundle(src))

\* explode_bom: the recipe lines in force for each forecast.
Exploded(b) == {x \in b.forecasts \X b.bom : ActiveBom(x[2], x[1].dish, x[1].day)}

DemandKeys(b) == {<<x[1].place, x[2].item>> : x \in Exploded(b)}

\* aggregate_item_demand
RequiredOn(b, k, d) == SumOver([x \in Exploded(b) |-> x[1].portions * x[2].grams],
                               {x \in Exploded(b) : /\ <<x[1].place, x[2].item>> = k
                                                    /\ x[1].day = d})

\* Counts of an item up to the planning time, and the last of them.
Counts(src, b, k) == {s \in b.snapshots : /\ <<s.place, s.item>> = k /\ s.at <= src.asOf}
Latest(src, b, k) == CHOOSE s \in Counts(src, b, k) :
                         \A t \in Counts(src, b, k) : t.at <= s.at

PackOf(b, k) == (CHOOSE i \in b.items : i.item = k[2]).pack

Projected(src, b, k) == Counts(src, b, k) # {} /\ k[2] \in KnownItems(b)

OpeningStock(src, b, k) == LET s == Latest(src, b, k) IN s.units * PackOf(b, k) + s.partial

\* The day an order counts on: project_inventory keeps the overdue ones apart.
OrderDay(src, o) == LET d == SeenDay(src.origin, o.at) IN IF d < 0 THEN Overdue ELSE d

\* Open quantity that is expected on day d.
OnOrder(src, b, k, d) ==
    SumOver([o \in b.pos |-> o.units * PackOf(b, k)],
            {o \in b.pos : o.open /\ <<o.place, o.item>> = k /\ OrderDay(src, o) = d})

\* Nothing is recommended without a policy, or if either dataset is empty.
Recommends(b, k) == b.policies # {} /\ b.rules # {} /\ k[2] \in PlannedItems(b)

Unplanned == [fresh |-> FALSE, unit |-> 1, moq |-> 0, multiple |-> 1, lead |-> 0,
              shelf |-> NoDays, anchor |-> "none", cover |-> NoDays, safety |-> 0,
              yield |-> 1, parts |-> 1, rules |-> {}]

\* The policy of the item, with the rules of its place and storage class.
EnginePolicy(b, k) ==
    IF Recommends(b, k)
    THEN LET p == (CHOOSE q \in b.policies : q.item = k[2]).plan
         IN [f \in DOMAIN Unplanned |->
                IF f = "rules" THEN {r \in b.rules : r.place = k[1] /\ r.fresh = p.fresh} ELSE p[f]]
    ELSE Unplanned

EngineInputs(src, b, k) ==
    [opening |-> OpeningStock(src, b, k),
     demand |-> [d \in Day |-> RequiredOn(b, k, d)],
     orders |-> [d \in Day \cup {Overdue} |-> OnOrder(src, b, k, d)],
     policy |-> EnginePolicy(b, k)]

NoInputs == [opening |-> 0, demand |-> [d \in Day |-> 0],
             orders |-> [d \in Day \cup {Overdue} |-> 0], policy |-> Unplanned]

WellFormed(src) == SourcesRead(src) /\ (src.origin = "store" \/ Accepts(Bundle(src)))

\* A demanded item where forecasts end with the day End.
Keys(src) == IF WellFormed(src)
             THEN {k \in DemandKeys(Given(src)) :
                      End = Max({f.day : f \in {g \in Given(src).forecasts : g.place = k[1]}})}
             ELSE {}

-----------------------------------------------------------------------------
(* What is known of a source once its texts are parsed *)

PlanTyped(p) == /\ IsFiniteSet(p.forecasts) /\ IsFiniteSet(p.bom)
                /\ \A f \in p.forecasts : f.day \in Int /\ f.portions \in Int
                /\ \A l \in p.bom : l.grams \in Int

PolicyTyped(p) ==
    /\ p.packs \in Int /\ p.plan.fresh \in BOOLEAN
    /\ {p.plan.unit, p.plan.moq, p.plan.multiple, p.plan.lead, p.plan.safety, p.plan.yield} \subseteq Int
    /\ p.plan.parts \in Nat \ {0}
    /\ {p.plan.shelf, p.plan.cover} \subseteq Nat \cup {NoDays}

MasterTyped(m) ==
    /\ \A i \in m.items : i.pack \in Int
    /\ \A p \in m.policies : PolicyTyped(p)
    /\ IsFiniteSet(m.rules)
    /\ \A r \in m.rules : r.id \in Int /\ r.review \in Int

BundleTyped(b) ==
    /\ DOMAIN b = {"forecasts", "menus", "bom", "items", "policies", "rules", "places",
                   "snapshots", "pos", "status"}
    /\ PlanTyped(b) /\ MasterTyped(b)
    /\ IsFiniteSet(b.snapshots) /\ IsFiniteSet(b.pos)
    /\ \A s \in b.snapshots : s.at \in Int /\ s.units \in Int /\ s.partial \in Int
    /\ \A o \in b.pos : o.at \in Int /\ o.units \in Int

WorkbookTyped(m) == MasterTyped(m) /\ IsFiniteSet(m.policies)

DocumentTyped(doc) ==
    /\ doc.ordered \in Int
    /\ Len(doc.rows) \in Nat /\ DOMAIN doc.rows = 1..Len(doc.rows)
    /\ \A i \in Articles(doc) : doc.rows[i].units \in Nat
    /\ \A i \in RowsOfKind(doc, "delivery") : doc.rows[i].day \in Int /\ doc.rows[i].day <= Last

SourceTyped(src) ==
    /\ src.origin \in {"files", "template", "store"}
    /\ src.mode \in {"fixture", "scenario", "shadow", "production"}
    /\ src.asOf \in Int /\ LocalDay(src.asOf) = 0
    /\ IF src.origin = "files" THEN BundleTyped(src.bundle)
       ELSE /\ \A p \in {src.plan, PlanOfImport(src)} : PlanTyped(p)
            /\ \A m \in {src.master, MasterOfImport(src)} : WorkbookTyped(m)
            /\ src.stock.at \in Int /\ \A r \in src.stock.rows : r.units \in Int
            /\ src.poDay \in Int /\ src.poDay > Undated /\ IsFiniteSet(src.docs)
            /\ \A doc \in src.docs : DocumentTyped(doc)
            /\ \A d, e \in src.docs : d.content = e.content => d = e

ASSUME SourceAssumption ==
    \A src \in Source :
        /\ SourceTyped(src)
        /\ \A k \in Keys(src) : Projected(src, Given(src), k) =>
               /\ WithinReach(EnginePolicy(Given(src), k))
               /\ Exact(EngineInputs(src, Given(src), k))

-----------------------------------------------------------------------------
(* Steps *)

RunInit == \E src \in Source : \E k \in Keys(src) \cup {NoKey} :
              /\ k = NoKey => Keys(src) = {}
              /\ source = src /\ key = k
              /\ phase = "sources" /\ outcome = "none" /\ issues = {}
              /\ Begin(IF k # NoKey /\ Projected(src, Given(src), k)
                       THEN EngineInputs(src, Given(src), k) ELSE NoInputs)

\* Issues of the sources are merged into every answer of the two workbook ways.
SourceIssues == IF source.origin = "files" THEN {}
                ELSE MappingIssues(source, MasterOfImport(source), RequiredThen(source))

Continue(next, new) == /\ phase' = next /\ issues' = issues \cup new
                       /\ UNCHANGED <<source, key, outcome, vars>>

Answer(status, new) == /\ phase' = "answered" /\ outcome' = status
                       /\ issues' = issues \cup new \cup SourceIssues
                       /\ UNCHANGED <<source, key, vars>>

Raise(error) == /\ phase' = "answered" /\ outcome' = error
                /\ UNCHANGED <<source, key, issues, vars>>

ReadSources == /\ phase = "sources"
               /\ IF SourcesRead(source) THEN Continue("bundle", {}) ELSE Raise("refused")

LoadBundle == /\ phase = "bundle" /\ source.origin # "store"
              /\ IF Accepts(Bundle(source)) THEN Continue("gate", {}) ELSE Raise("refused")

Assemble == /\ phase = "bundle" /\ source.origin = "store"
            /\ IF Assembles(source) THEN Continue("gate", {}) ELSE Raise("refused")

\* evaluate_run_mode
UnknownSources(b) == {d \in CoreDataset : d \notin DOMAIN b.status
                                            \/ b.status[d] \in UnknownProvenance}

\* Forecasts of past days raise, before anything is reported.
Gate == /\ phase = "gate"
        /\ LET b == Given(source)
               unknown == {<<IF Strict THEN "unknown_critical_source" ELSE "placeholder_source", <<"dataset", d>>>> :
                              d \in UnknownSources(b)}
           IN IF \E f \in b.forecasts : f.day < 0 THEN Raise("past_forecast")
              ELSE IF Strict /\ unknown # {} THEN Answer("blocked", unknown)
              ELSE Continue("explode", unknown)

\* Mutant: a forecast without a recipe in force is skipped.
ExplodeSkipping == /\ phase = "explode"
                   /\ Continue("select", {})

\* MissingBomError
Explode == /\ phase = "explode"
           /\ IF \A f \in Given(source).forecasts :
                     \E l \in Given(source).bom : ActiveBom(l, f.dish, f.day)
              THEN Continue("select", {}) ELSE Raise("missing_bom")

\* Demanded items without a count, and those whose last count is of another day.
Uncounted(b) == {k \in DemandKeys(b) : Counts(source, b, k) = {}}
Stale(b) == {k \in DemandKeys(b) \ Uncounted(b) :
                SeenDay(source.origin, Latest(source, b, k).at) < 0}

CountIssues(b) == {<<"missing_inventory_snapshot", k>> : k \in Uncounted(b)}
                    \cup {<<"stale_inventory_snapshot", k>> : k \in Stale(b)}

\* items[item_id] of the projections, items_by_id[item_id] of the recommendations.
LooksUpUnknown(b) == \E k \in DemandKeys(b) :
                        /\ k[2] \notin KnownItems(b)
                        /\ k \notin Uncounted(b) \/ (b.policies # {} /\ b.rules # {})

\* Mutant: an item without a count is left out, and not mentioned.
SelectCounted == /\ phase = "select"
                 /\ LET b == Given(source)
                        stale == {i \in CountIssues(b) : i[1] = "stale_inventory_snapshot"}
                    IN IF Strict /\ stale # {} THEN Answer("blocked", stale)
                       ELSE IF LooksUpUnknown(b) THEN Raise("key_error")
                       ELSE IF key \in Uncounted(b) \cup {NoKey} THEN Continue("report", stale)
                       ELSE Continue("engine", stale)

Select == /\ phase = "select"
          /\ LET b == Given(source)
             IN IF Strict /\ CountIssues(b) # {} THEN Answer("blocked", CountIssues(b))
                ELSE IF LooksUpUnknown(b) THEN Raise("key_error")
                ELSE IF key \in Uncounted(b) \cup {NoKey} THEN Continue("report", CountIssues(b))
                ELSE Continue("engine", CountIssues(b))

Engine == /\ phase = "engine" /\ stage \in {"schedule", "project"}
          /\ Schedule \/ Project \/ Walk
          /\ UNCHANGED runVars

\* _constraint_issues
Constrained(l) == \/ l.status # "feasible"
                  \/ \E cap \in l.caps : cap < l.raw
                  \/ HasExpiry /\ Expiry(l.cycle) > End
                  \/ policy.cover # NoDays /\ CoverEnd(l.cycle) > End

\* What schedule_recommendations reports of the key.
RecommendationIssues(b) ==
    LET ruled == MatchingRules(policy) # {}
        counted == key \notin Uncounted(b)
        reported(code) ==
            CASE code = "missing_planning_policy" -> ~Recommends(b, key)
              [] code = "missing_delivery_rule" -> counted /\ Recommends(b, key) /\ ~ruled
              [] code = "order_constrained" -> \E l \in lines : Constrained(l)
              [] code = "horizon_coverage_incomplete" ->
                    ~policy.fresh /\ \E l \in lines : End < l.cycle.end
              [] code = "missed_order_date" ->
                    policy.fresh /\ \E l \in lines : l.cycle.order < 0 /\ l.proposed > 0
              [] code = "uncovered_fresh_demand" -> ruled /\ Uncovered # {}
    IN IF b.policies # {} /\ b.rules # {} /\ key # NoKey
       THEN {<<code, key>> : code \in {c \in {"missing_planning_policy", "missing_delivery_rule",
                                             "order_constrained", "horizon_coverage_incomplete",
                                             "missed_order_date", "uncovered_fresh_demand"} :
                                         reported(c)}}
       ELSE {}

\* _netting_issues, if the key was projected.
NettingIssues ==
    LET last == Max({d \in Day : demand[d] > 0} \cup {-1})
        arrivals == {d \in Day : receipts[d] > 0}
        reported(code) ==
            CASE code = "overdue_open_po" -> orders[Overdue] > 0
              [] code = "open_po_after_horizon" -> \E d \in Day : d > End /\ orders[d] > 0
              [] code = "open_po_after_final_demand" ->
                    last # -1 /\ \E d \in Day : d > last /\ orders[d] > 0
              [] code = "unavoidable_pre_arrival_stockout" ->
                    arrivals # {} /\ uncovered["projected"] < Min(arrivals)
              [] code = "projected_stockout" -> ActionableRisk(RiskHorizon) = "at_risk"
    IN IF stage = "done"
       THEN {<<code, key>> : code \in {c \in {"overdue_open_po", "open_po_after_horizon",
                                             "open_po_after_final_demand",
                                             "unavoidable_pre_arrival_stockout",
                                             "projected_stockout"} :
                                         reported(c)}}
       ELSE {}

Report == /\ phase = "report" \/ (phase = "engine" /\ stage = "done" /\ source # NoSource)
          /\ Answer("completed", RecommendationIssues(Given(source)) \cup NettingIssues)

\* The ValueError of _validate_scope ends the run.
Fail == /\ phase = "engine" /\ stage = "failed" /\ source # NoSource
        /\ Raise("out_of_scope")

Answered == /\ \/ phase = "answered"
               \/ phase = "engine" /\ source = NoSource /\ stage \in {"done", "failed"}
            /\ UNCHANGED <<runVars, vars>>

RunNext == \/ ReadSources \/ LoadBundle \/ Assemble \/ Gate \/ Explode \/ Select
           \/ Engine \/ Report \/ Fail \/ Answered

RunSpec == RunInit /\ [][RunNext]_<<runVars, vars>>

-----------------------------------------------------------------------------
(* Properties *)

RunOK == /\ phase \in {"sources", "bundle", "gate", "explode", "select", "engine", "report", "answered"}
         /\ outcome \in {"none", "refused", "past_forecast", "blocked", "missing_bom",
                         "key_error", "out_of_scope", "completed"}
         /\ (phase = "answered") = (outcome # "none")
         /\ outcome = "blocked" => source.mode \in {"shadow", "production"} /\ issues # {}

\* Every forecast has a recipe, and each item in it is known or reported.
PlansAll(b, reported) ==
    \A f \in b.forecasts :
        LET recipe == {l \in b.bom : ActiveBom(l, f.dish, f.day)}
        IN /\ recipe # {}
           /\ \A l \in recipe :
                 \/ l.item \in KnownItems(b)
                 \/ <<"missing_inventory_snapshot", <<f.place, l.item>>>> \in reported

\* What load_canonical_bundle accepts is planned, blocked or refused with a
\* message about it.  Only rows of the store, which nothing validates as a
\* whole, can lack a recipe, or an item: one that the master of the uploads had
\* and the active one has not.  Then the run fails.  It never completes a plan
\* that leaves the forecast or the item out and says nothing of it.
ValidatedIsAnswered ==
    /\ outcome \in {"missing_bom", "key_error"} => source.origin = "store"
    /\ outcome = "key_error" =>
          \E l \in source.plan.bom :
              l.item \in KnownItems(source.imported) \ KnownItems(source.master)
    /\ outcome = "completed" => PlansAll(Given(source), issues)

HasReport == source # NoSource /\ outcome \in {"completed", "blocked"}

\* The export has a row for the item, under the mapping of its upload.
CountedIn(src, item) ==
    LET m == MasterOfImport(src)
    IN item \in PlannedItems(m) /\ StockRows(src.stock, m, item) # {}

\* "Shadow and production modes fail closed on unknown critical inputs": a
\* strict plan rests, for all it demands, on counts of the planning day that
\* somebody made -- whatever normalisation, mapping and assembly did in between.
StrictRestsOnCounts ==
    outcome = "completed" /\ Strict =>
        \A k \in DemandKeys(Given(source)) :
            /\ \E s \in Counts(source, Given(source), k) : LocalDay(s.at) = 0
            /\ source.origin # "files" => CountedIn(source, k[2])

\* A quantity that nobody counted is never used, and an item is never left
\* out, without an issue about the item.
GapsAreReported ==
    HasReport /\ source.origin # "files" =>
        \A k \in DemandKeys(Given(source)) :
            ~CountedIn(source, k[2]) =>
                \E i \in issues : \/ i = <<"missing_inventory_snapshot", k>>
                                  \/ i = <<"stock_mapping_unresolved", k>>

\* Every article of a document that was open when it was read is either an
\* order of the plan or reported by its id.
NoOrderIsLost ==
    HasReport /\ source.origin # "files" =>
        \A l \in LinesOf(source.docs) :
            l.ordered <= source.poDay /\ (l.due = Undated \/ l.due > source.poDay) =>
                \/ <<"po_mapping_unresolved", <<"line", l.id>>>> \in issues
                \/ \E o \in Given(source).pos : o.id = l.id /\ o.open

\* What the plan of an item has on order, on all its days and overdue, is what
\* the documents say that is not due by the cutoff: each article row once,
\* whatever the rows have in common.
OrdersCountedOnce ==
    source # NoSource /\ source.origin # "files" /\ stage = "done" =>
        LET m == MasterOfImport(source)
            open == {x \in UNION {{d} \X Articles(d) : d \in source.docs} :
                        LET row == x[1].rows[x[2]]
                            due == DeliveryAt(x[1], x[2]).day
                        IN /\ x[1].ordered <= source.poDay /\ due > source.poDay
                           /\ {p.item : p \in Matches(m, row)} = {key[2]}}
            packs(x) == PolicyOf(m, key[2]).packs * x[1].rows[x[2]].units
        IN key[1] = source.here =>
              SumOver(orders, DOMAIN orders)
                = PackOf(Given(source), key) * SumOver([x \in open |-> packs(x)], open)

\* "Status follows the confirmed portal rule": the file helper and the
\* normaliser of the plans read the same lines as open, and as undated.
ImportersAgree ==
    source # NoSource /\ source.origin # "files" =>
        LET files == HelperFiles(source.docs, source.poDay)
            seen(status) == {l \in SeenLines(source) : DerivedStatus(source, l) = status}
        IN /\ files.open = seen("open") /\ files.undated = seen("undated")
           /\ files.closed = seen("closed")

\* Where orders are recommended, a plan that has nothing to say about an item
\* keeps it in stock: for all of the forecast if it is fresh, else for as long as
\* the order is meant to last.
SilenceIsSafe ==
    outcome = "completed" /\ stage = "done"
        /\ Given(source).policies # {} /\ Given(source).rules # {}
        /\ key \notin {i[2] : i \in issues}
    => uncovered["projected"] > IF policy.fresh THEN End ELSE Min({RiskHorizon, End})

\* "Include open PO quantities on their expected receipt dates."
OrdersCountOnTheirDay ==
    source # NoSource /\ stage = "done" =>
        \A o \in Given(source).pos :
            o.open /\ <<o.place, o.item>> = key /\ LocalDay(o.at) \in 0..End =>
                orders[LocalDay(o.at)] >= o.units * PackOf(Given(source), key)
=============================================================================
