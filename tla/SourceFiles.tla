---------------------------- MODULE SourceFiles ----------------------------
(***************************************************************************)
(* How the three ways to a plan come by their canonical bundle:            *)
(*   files     improved-run loads the nine CSV files;                      *)
(*   template  v1-run normalises two workbooks, a stock export and order   *)
(*             PDFs, writes the CSV files and loads them again;            *)
(*   store     the API normalises the same sources when they are uploaded, *)
(*             and reads the rows back when a run is asked for.            *)
(*                                                                         *)
(* An instant is a half day: 2 * d is the first hours of local day d, in   *)
(* which UTC may still have the day before, 2 * d + 1 the rest of it.      *)
(***************************************************************************)
EXTENDS CanonicalBundle, OrderDocuments

CONSTANT Offset   \* 1 where local midnight falls on the day before in UTC, else 0

ASSUME OffsetAssumption == Offset \in {0, 1}

LocalDay(t) == t \div 2
Midnight(d) == 2 * d

\* The store answers timestamps in UTC, and _datetime_value keeps that offset.
\* Files keep the offset of the location.
SeenDay(origin, t) == IF origin = "store" THEN (t - Offset) \div 2 ELSE LocalDay(t)

-----------------------------------------------------------------------------
(* The workbooks *)

\* load_master_template, tab by tab.  An item and its policy are one row.
ItemsTab(m) == /\ \A i \in m.items : ItemRow(i)
               /\ \A p \in m.policies : PolicyRow(p)

RulesTab(m) == \A r \in m.rules : RuleRow(r)

MasterReads(m) ==
    /\ ItemsTab(m) /\ RulesTab(m)
    /\ Keyed(m.items, LAMBDA i : i.item) /\ Keyed(m.policies, LAMBDA p : p.item)
    /\ Keyed(m.places, LAMBDA p : p.place)
    /\ Keyed(m.rules, LAMBDA r : r.id)
    /\ \A r \in m.rules : \E p \in m.places : p.place = r.place

\* load_planning_template, of the recipe lines that are active.
PlanReads(p) == LoadsForecasts(p) /\ LoadsMenus(p) /\ LoadsBom(p)

OpenPlaces(m) == {p.place : p \in {q \in m.places : q.active}}

\* _validate_planning_references, when a planning workbook is uploaded.
ReferencesKnown(p, m) ==
    /\ {f.place : f \in p.forecasts} \cup {e.place : e \in p.menus} \subseteq OpenPlaces(m)
    /\ {l.item : l \in p.bom} \subseteq {i.item : i \in {j \in m.items : j.active}}

\* The primary keys of forecast_daily and menu_calendar leave the version out.
FitsTables(p) == /\ Keyed(p.forecasts, LAMBDA f : <<f.place, f.dish, f.day>>)
                 /\ Keyed(p.menus, LAMBDA m : <<m.place, m.dish, m.day>>)

ForecastsAt(p, place) == {f \in p.forecasts : f.place = place}

\* selected_required_items, of one place.
RequiredItems(p, place) ==
    {l.item : l \in {m \in p.bom : \E f \in ForecastsAt(p, place) :
                                       ActiveBom(m, f.dish, f.day)}}

-----------------------------------------------------------------------------
(* Stock: normalize_apicbase_stock *)

PolicyOf(m, item) == CHOOSE p \in m.policies : p.item = item

ByUid(stock, p) == {r \in stock.rows : p.uid # Blank /\ r.uid = p.uid}
ByName(stock, p) == {r \in stock.rows : p.name # Blank /\ r.name = p.name}

\* The row of an item by its number, or else by its exact name.
StockRows(stock, m, item) == LET p == PolicyOf(m, item)
                             IN ByUid(stock, p) \cup ByName(stock, p)

\* A number or a name that occurs twice, an item the master does not have, one
\* that is found in two rows, or a negative quantity: the export is refused.
StockReads(stock, m, required) ==
    /\ \A r \in stock.rows : r.name # Blank
    /\ \A r, s \in stock.rows : (r.uid = s.uid /\ r.uid # Blank) \/ r.name = s.name => r = s
    /\ \A i \in required : /\ i \in KnownItems(m) /\ i \in PlannedItems(m)
                            /\ Cardinality(StockRows(stock, m, i)) <= 1
                            /\ \A r \in StockRows(stock, m, i) : r.units >= 0

StockReviews(stock, m, required) == {i \in required : StockRows(stock, m, i) = {}}

\* Mutant: an export never leaves an item out.
AssumesZeroAlways(origin, mode) == TRUE

\* v1-run takes what is not in the export as zero, in the modes that may.
AssumesZero(origin, mode) == origin = "template" /\ mode \in {"fixture", "scenario"}

\* Counts are in packs, or in order units of several packs.
StockSnapshots(src, m, required) ==
    LET found == required \ StockReviews(src.stock, m, required)
        packs(p, r) == IF p.countedIn = "pack" THEN r.units ELSE r.units * p.packs
    IN {[place |-> src.here, item |-> i, at |-> src.stock.at, partial |-> 0,
         units |-> LET r == CHOOSE r \in StockRows(src.stock, m, i) : TRUE
                   IN packs(PolicyOf(m, i), r)] : i \in found}
       \cup
       IF AssumesZero(src.origin, src.mode)
       THEN {[place |-> src.here, item |-> i, at |-> src.stock.at, partial |-> 0, units |-> 0] :
                i \in required \ found}
       ELSE {}

-----------------------------------------------------------------------------
(* Purchase orders: normalize_transgourmet_pos *)

\* Documents that were ordered after the cutoff are not seen.
SeenLines(src) == {l \in LinesOf(src.docs) : l.ordered <= src.poDay}

Candidates(m, line) == {p \in m.policies : p.article = line.article}
Matches(m, line) == {p \in Candidates(m, line) : p.text \in {Blank, line.text}}

MappingStatus(m, line) ==
    IF Candidates(m, line) = {} THEN "unmapped"
    ELSE IF Matches(m, line) = {} THEN "description_mismatch"
    ELSE IF Cardinality(Matches(m, line)) > 1 THEN "ambiguous"
    ELSE "mapped"

\* What is due by the cutoff counts as received.
DerivedStatus(src, line) == IF line.due = Undated THEN "undated"
                            ELSE IF line.due > src.poDay THEN "open" ELSE "closed"

\* Mutant: only what is not mapped is reviewed.
ReviewedUnmapped(src, m) ==
    {l \in SeenLines(src) : /\ DerivedStatus(src, l) \in {"open", "undated"}
                            /\ MappingStatus(m, l) # "mapped"}

\* An open line without an item or a date goes to review.
OrderReviews(src, m) ==
    {l \in SeenLines(src) : /\ DerivedStatus(src, l) \in {"open", "undated"}
                            /\ \/ MappingStatus(m, l) # "mapped"
                               \/ DerivedStatus(src, l) = "undated"}

\* purchase_orders of the result, and what the API selects of the observed
\* lines it stored: open, mapped, and dated at local midnight.
OpenOrders(src, m) ==
    {LET p == CHOOSE p \in Matches(m, l) : TRUE
     IN [id |-> l.id, place |-> src.here, item |-> p.item, ordered |-> Midnight(l.ordered),
         at |-> Midnight(l.due), units |-> l.units * p.packs, open |-> TRUE] :
        l \in {k \in SeenLines(src) : /\ DerivedStatus(src, k) = "open"
                                      /\ MappingStatus(m, k) = "mapped"}}

-----------------------------------------------------------------------------
(* The bundles *)

Declares == [d \in Dataset |-> IF d \in {"inventory_snapshots", "purchase_orders"}
                               THEN "observed" ELSE "manual"]

BundleFrom(src, imported, required) ==
    [forecasts |-> ForecastsAt(src.plan, src.here),
     menus |-> {m \in src.plan.menus : m.place = src.here},
     bom |-> src.plan.bom,
     items |-> src.master.items, policies |-> src.master.policies,
     rules |-> src.master.rules, places |-> src.master.places,
     snapshots |-> StockSnapshots(src, imported, required),
     pos |-> OpenOrders(src, imported),
     status |-> Declares]

\* _assemble_sources joins the active master with rows that were normalised
\* under the master and the planning workbook of the time of their upload.
MasterOfImport(src) == IF src.origin = "store" THEN src.imported ELSE src.master
PlanOfImport(src) == IF src.origin = "store" THEN src.stockPlan ELSE src.plan

RequiredThen(src) == RequiredItems(PlanOfImport(src), src.here)

Bundle(src) == IF src.origin = "files" THEN src.bundle
               ELSE BundleFrom(src, MasterOfImport(src), RequiredThen(src))

\* run_template_v1 up to the write of the bundle.
TemplateReads(src) ==
    /\ MasterReads(src.master) /\ PlanReads(src.plan)
    /\ src.here \in OpenPlaces(src.master)
    /\ ForecastsAt(src.plan, src.here) # {}
    /\ StockReads(src.stock, src.master, RequiredItems(src.plan, src.here))
    /\ FolderReads(src.docs)
    /\ src.stock.at <= src.asOf

\* The uploads, each under the master that was active then.
UploadsAccepted(src) ==
    /\ MasterReads(src.imported) /\ MasterReads(src.master)
    /\ \A p \in {src.stockPlan, src.plan} :
          PlanReads(p) /\ ReferencesKnown(p, src.imported) /\ FitsTables(p)
    /\ src.here \in OpenPlaces(src.imported)
    /\ ForecastsAt(src.stockPlan, src.here) # {}
    /\ StockReads(src.stock, src.imported, RequiredItems(src.stockPlan, src.here))
    /\ FolderReads(src.docs)

SourcesRead(src) == CASE src.origin = "files" -> TRUE
                      [] src.origin = "template" -> TemplateReads(src)
                      [] src.origin = "store" -> UploadsAccepted(src)

\* _assemble_sources and _load_planning raise a conflict.
Assembles(src) == /\ src.mode # "production"
                  /\ src.here \in OpenPlaces(src.master)
                  /\ ForecastsAt(src.plan, src.here) # {}

\* Import issues of the two sources, and what each is about.
MappingIssues(src, m, required) ==
    {<<"stock_mapping_unresolved", <<src.here, i>>>> : i \in StockReviews(src.stock, m, required)}
      \cup {<<"po_mapping_unresolved", <<"line", l.id>>>> : l \in OrderReviews(src, m)}
=============================================================================
