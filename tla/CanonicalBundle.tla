-------------------------- MODULE CanonicalBundle --------------------------
(***************************************************************************)
(* The canonical input bundle of adapters/canonical_csv.py: nine datasets, *)
(* the guards of their rows and keys, and what _validate_bundle demands    *)
(* between them.  A dataset is a set of rows; a row that repeats a key of  *)
(* another one differs from it somewhere.                                  *)
(*                                                                         *)
(* Texts, enumerations and formats that are parsed before a row exists are *)
(* not modelled.  Days count from the planning date; an open-ended row has *)
(* a last day that no forecast reaches.                                    *)
(***************************************************************************)
EXTENDS Integers, FiniteSets

CoreDataset == {"forecast_daily", "menu_calendar", "bom_lines", "items",
                "inventory_snapshots", "purchase_orders"}
Dataset == CoreDataset \cup {"locations", "item_policies", "delivery_rules"}

\* EMPTY_PLACEHOLDER and UNAVAILABLE.
UnknownProvenance == {"empty_placeholder", "unavailable"}

-----------------------------------------------------------------------------
(* Rows *)

ForecastRow(f) == f.portions >= 0

BomRow(l) == l.grams > 0 /\ l.from <= l.to

ItemRow(i) == i.pack > 0

\* Lead time, packs and rounding, and the days of the item, two of them optional.
PolicyRow(p) == LET plan == p.plan
                IN /\ plan.unit > 0 /\ plan.yield > 0 /\ plan.multiple > 0 /\ p.packs > 0
                   /\ plan.moq >= 0 /\ plan.lead >= 0 /\ plan.safety >= 0
                   /\ plan.shelf # 0 /\ plan.cover # 0

RuleRow(r) == /\ r.review > 0 /\ r.from <= r.to
              /\ r.covers \subseteq 0..6 /\ (r.fresh => r.covers # {})

SnapshotRow(s) == s.units >= 0 /\ s.partial >= 0

\* A delivery is not before its order, and nothing is open of a closed line.
OrderRow(o) == /\ o.units >= 0 /\ o.at >= o.ordered
               /\ ~o.open => o.units = 0

ActiveBom(l, dish, d) == l.dish = dish /\ l.from <= d /\ d <= l.to

-----------------------------------------------------------------------------
(* The nine loaders *)

\* _ensure_unique
Keyed(rows, key(_)) == \A x, y \in rows : key(x) = key(y) => x = y

LoadsForecasts(b) ==
    /\ \A f \in b.forecasts : ForecastRow(f)
    /\ Keyed(b.forecasts, LAMBDA f : <<f.place, f.dish, f.day, f.version>>)

LoadsMenus(b) == Keyed(b.menus, LAMBDA m : <<m.place, m.dish, m.day, m.version>>)

LoadsBom(b) == (\A l \in b.bom : BomRow(l)) /\ Keyed(b.bom, LAMBDA l : l.id)

LoadsItems(b) == (\A i \in b.items : ItemRow(i)) /\ Keyed(b.items, LAMBDA i : i.item)

LoadsSnapshots(b) == /\ \A s \in b.snapshots : SnapshotRow(s)
                     /\ Keyed(b.snapshots, LAMBDA s : <<s.place, s.item, s.at>>)

LoadsOrders(b) == (\A o \in b.pos : OrderRow(o)) /\ Keyed(b.pos, LAMBDA o : o.id)

LoadsPlaces(b) == Keyed(b.places, LAMBDA p : p.place)

LoadsPolicies(b) == /\ \A p \in b.policies : PolicyRow(p)
                    /\ Keyed(b.policies, LAMBDA p : p.item)

LoadsRules(b) == (\A r \in b.rules : RuleRow(r)) /\ Keyed(b.rules, LAMBDA r : r.id)

\* The manifest names every core dataset, and the other three if they exist.
ManifestOK(b) == CoreDataset \subseteq DOMAIN b.status /\ DOMAIN b.status \subseteq Dataset

\* A dataset that the manifest leaves out is empty, whatever its file holds.
Declared(b, dataset, rows) == IF dataset \in DOMAIN b.status THEN rows ELSE {}

Loaded(b) == [b EXCEPT !.places = Declared(b, "locations", @),
                       !.policies = Declared(b, "item_policies", @),
                       !.rules = Declared(b, "delivery_rules", @)]

-----------------------------------------------------------------------------
(* Between the datasets: _validate_bundle *)

KnownItems(b) == {i.item : i \in b.items}
PlannedItems(b) == {p.item : p \in b.policies}
MenuPlaces(b) == {m.place : m \in b.menus}

\* Active menu rows of a forecast's place, dish and day.
ActiveMenus(b, place, dish, d) ==
    {m \in b.menus : m.active /\ m.place = place /\ m.dish = dish /\ m.day = d}

OneActiveMenu(b) ==
    \A m \in b.menus : m.active => ActiveMenus(b, m.place, m.dish, m.day) = {m}

\* Mutant: the recipe may have lapsed.
ForecastsCommittedOnce(b) ==
    /\ Keyed(b.forecasts, LAMBDA f : <<f.place, f.dish, f.day>>)
    /\ \A f \in b.forecasts : Cardinality(ActiveMenus(b, f.place, f.dish, f.day)) = 1

\* One forecast for a dish and day, on a committed menu, with a recipe.
ForecastsCommitted(b) ==
    /\ Keyed(b.forecasts, LAMBDA f : <<f.place, f.dish, f.day>>)
    /\ \A f \in b.forecasts : /\ Cardinality(ActiveMenus(b, f.place, f.dish, f.day)) = 1
                              /\ \E l \in b.bom : ActiveBom(l, f.dish, f.day)

RecipesKnown(b) == \A l \in b.bom : /\ l.item \in KnownItems(b)
                                    /\ b.policies # {} => l.item \in PlannedItems(b)

\* An open pack is less than a whole one; stock is where something is served.
SnapshotsPlausible(b) ==
    \A s \in b.snapshots : /\ \E i \in b.items : i.item = s.item /\ s.partial < i.pack
                           /\ MenuPlaces(b) # {} => s.place \in MenuPlaces(b)

OrdersPlausible(b) ==
    \A o \in b.pos : /\ o.item \in KnownItems(b)
                     /\ MenuPlaces(b) # {} => o.place \in MenuPlaces(b)

RowsOf(b, dataset) == CASE dataset = "forecast_daily" -> b.forecasts
                        [] dataset = "menu_calendar" -> b.menus
                        [] dataset = "bom_lines" -> b.bom
                        [] dataset = "items" -> b.items
                        [] dataset = "inventory_snapshots" -> b.snapshots
                        [] dataset = "purchase_orders" -> b.pos
                        [] dataset = "locations" -> b.places
                        [] dataset = "item_policies" -> b.policies
                        [] dataset = "delivery_rules" -> b.rules

\* What is declared unknown has no rows.
SourcesHonest(b) ==
    \A dataset \in DOMAIN b.status :
        b.status[dataset] \in UnknownProvenance => RowsOf(b, dataset) = {}

RulesPlaced(b) ==
    b.places # {} => \A r \in b.rules : \E p \in b.places : p.place = r.place

Valid(b) == /\ OneActiveMenu(b) /\ ForecastsCommitted(b) /\ RecipesKnown(b)
            /\ SnapshotsPlausible(b) /\ OrdersPlausible(b)
            /\ SourcesHonest(b) /\ RulesPlaced(b)

\* load_canonical_bundle returns Loaded(b), or raises.
Accepts(b) ==
    /\ ManifestOK(b)
    /\ LET l == Loaded(b)
       IN /\ LoadsForecasts(l) /\ LoadsMenus(l) /\ LoadsBom(l) /\ LoadsItems(l)
          /\ LoadsSnapshots(l) /\ LoadsOrders(l)
          /\ LoadsPlaces(l) /\ LoadsPolicies(l) /\ LoadsRules(l)
          /\ Valid(l)
=============================================================================
