-------------------------- MODULE MC_ImprovedRun --------------------------
(* Two items, one of them fresh, at one location that is planned and one    *)
(* that is not; and the engine alone, with all inputs of MC_PlanningEngine. *)
EXTENDS ImprovedRun, MC_PlanningEngine

Plan(fresh) == [fresh |-> fresh, unit |-> 1, moq |-> 0, multiple |-> 1, lead |-> 0,
                       shelf |-> NoDays, anchor |-> "none", cover |-> NoDays, safety |-> 0,
                       yield |-> 2, parts |-> 2]

Item(item, pack) == [item |-> item, pack |-> pack, active |-> TRUE]
Policy(item, fresh, uid, article) ==
    [item |-> item, plan |-> Plan(fresh), uid |-> uid, name |-> item,
     article |-> article, text |-> Blank, packs |-> 2, countedIn |-> "pack"]
DeliveryRule(id, fresh, delivery, covers) ==
    [id |-> id, place |-> "north", fresh |-> fresh, delivery |-> delivery,
     covers |-> covers, review |-> 6, from |-> -7, to |-> 100]
RecipeLine(id, dish, item, grams) == [id |-> id, dish |-> dish, item |-> item, grams |-> grams,
                                from |-> -7, to |-> 100]
Forecast(place, dish, d, portions) ==
    [place |-> place, dish |-> dish, day |-> d, version |-> 1, portions |-> portions]
MenuOf(f) == [place |-> f.place, dish |-> f.dish, day |-> f.day, version |-> 1, active |-> TRUE]

Places == {[place |-> "north", active |-> TRUE], [place |-> "south", active |-> TRUE]}
Items == {Item("rice", 2), Item("herb", 1)}
Rice == Policy("rice", FALSE, "u1", "a1")
Herb == Policy("herb", TRUE, "u2", "a2")
Rules == {DeliveryRule(1, FALSE, 0, {}), DeliveryRule(2, TRUE, 1, {2, 5})}

Recipes == {RecipeLine(1, "bowl", "rice", 4)}
BothRecipes == Recipes \cup {RecipeLine(2, "bowl", "herb", 2)}
Portions == {Forecast("north", "bowl", 2, 1), Forecast("north", "bowl", End, 1)}

-----------------------------------------------------------------------------
(* Nine files *)

Count(place, item, at, units) ==
    [place |-> place, item |-> item, at |-> at, units |-> units, partial |-> 0]
Order(id, item, due) == [id |-> id, place |-> "north", item |-> item, ordered |-> Midnight(-3),
                         at |-> Midnight(due), units |-> 1, open |-> TRUE]

File == [forecasts |-> Portions, menus |-> {MenuOf(f) : f \in Portions}, bom |-> BothRecipes,
         items |-> Items, policies |-> {Rice, Herb}, rules |-> Rules, places |-> Places,
         snapshots |-> {Count("north", "rice", 0, 1), Count("north", "herb", 0, 1)},
         pos |-> {}, status |-> Declares]

Yesterday == Portions \cup {Forecast("north", "bowl", -1, 1)}
Elsewhere == Portions \cup {Forecast("south", "bowl", 1, 1)}

\* Policies with caps, packs and lead times.
Others == {{[Rice EXCEPT !.plan.lead = 1, !.plan.unit = 3, !.plan.cover = 4],
            [Herb EXCEPT !.plan.lead = 2, !.plan.shelf = 2, !.plan.anchor = "receipt"]},
           {[Rice EXCEPT !.plan.lead = 3, !.plan.safety = 18, !.plan.yield = 1],
            [Herb EXCEPT !.plan.unit = 4, !.plan.moq = 3]},
           {[Rice EXCEPT !.plan.lead = End + 1, !.plan.safety = 24], Herb}}

Bundles ==
    {[File EXCEPT !.snapshots = s, !.pos = p, !.policies = q] :
        s \in {File.snapshots, {Count("north", "rice", -1, 3), Count("north", "herb", 0, 0)},
               {Count("north", "rice", 1, 9)}, {}},
        p \in {{}, {Order("o1", "rice", 2), Order("o2", "rice", -1)}, {Order("o1", "herb", End + 1)}},
        q \in {{Rice, Herb}, {}} \cup Others}
    \cup {[File EXCEPT !.forecasts = f, !.menus = {MenuOf(g) : g \in f}, !.snapshots = s] :
             f \in {Yesterday, Elsewhere},
             s \in {File.snapshots, File.snapshots \cup {Count("south", "rice", 0, 2),
                                                         Count("south", "herb", -1, 2)}}}
    \cup {[File EXCEPT !.status[d] = "unavailable"] : d \in CoreDataset \ {"inventory_snapshots"}}
    \cup {[File EXCEPT !.pos = {}, !.status["purchase_orders"] = "empty_placeholder"],
          [File EXCEPT !.snapshots = {}, !.status["inventory_snapshots"] = "unavailable"],
          [File EXCEPT !.policies = {}, !.rules = {}],
          [File EXCEPT !.policies = {Rice}, !.bom = Recipes],
          [File EXCEPT !.policies = {Rice}],
          [File EXCEPT !.rules = {DeliveryRule(1, FALSE, 0, {})}],
          [File EXCEPT !.bom = {[l EXCEPT !.to = 3] : l \in BothRecipes}],
          [File EXCEPT !.bom = BothRecipes \cup {RecipeLine(3, "soup", "salt", 1)}],
          [File EXCEPT !.items = {Item("rice", 1)}],
          [File EXCEPT !.menus = {}],
          [File EXCEPT !.rules = {}],
          [File EXCEPT !.rules = {[DeliveryRule(1, FALSE, 0, {}) EXCEPT !.review = 3]}],
          [File EXCEPT !.rules = {DeliveryRule(1, FALSE, 0, {}), DeliveryRule(2, TRUE, 1, {2})}],
          [File EXCEPT !.status = [d \in Dataset \ {"item_policies"} |-> "manual"]],
          [File EXCEPT !.status = [d \in Dataset \ {"items"} |-> "manual"]]}

Modes == {"fixture", "scenario", "shadow", "production"}

Files == {[origin |-> "files", mode |-> mode, asOf |-> asOf, bundle |-> b] :
             mode \in Modes, asOf \in {0, 1}, b \in Bundles}

-----------------------------------------------------------------------------
(* Workbooks, exports and documents *)

Master == [places |-> Places, items |-> Items, policies |-> {Rice, Herb}, rules |-> Rules]
NewArticle == [Master EXCEPT !.policies = {[Rice EXCEPT !.article = "a3", !.uid = "u3", !.name = Blank], Herb}]
Twins == [Master EXCEPT !.policies = {Rice, [Herb EXCEPT !.article = "a1", !.text = "t2"]}]
NoHerb == [Master EXCEPT !.items = {Item("rice", 2)}, !.policies = {Rice}]
Closed == [Master EXCEPT !.places = {[p EXCEPT !.active = p.place # "north"] : p \in @}]
Masters == {Master, NewArticle, Twins, NoHerb, Closed}

Workbook(bom, forecasts) == [forecasts |-> forecasts, menus |-> {MenuOf(f) : f \in forecasts},
                             bom |-> bom]
OldPlan == Workbook(Recipes, Portions)
NewPlan == Workbook(BothRecipes, Elsewhere)
LapsedPlan == Workbook({[l EXCEPT !.to = 3] : l \in Recipes}, Portions)
Plans == {OldPlan, NewPlan, LapsedPlan}

Row(uid, name, units) == [uid |-> uid, name |-> name, units |-> units]
Exports == {[at |-> 1, rows |-> rows] :
               rows \in {{}, {Row("u1", "rice", 1)},
                         {Row("u1", "reis", 1), Row(Blank, "herb", 2)},
                         {Row("u1", "reis", 1), Row("u9", "rice", 1)}}}
           \cup {[at |-> at, rows |-> {Row("u1", "rice", 3)}] : at \in {-1, 0}}

\* Rows of a document: the header of a delivery, its articles, its total.
Header(n, due) == [row |-> "delivery", number |-> n, day |-> due]
Article(article, text) == [row |-> "article", article |-> article, text |-> text, units |-> 1, price |-> 1]
Total(n, price) == [row |-> "total", number |-> n, price |-> price]

Doc(content, ordered, rows) == [content |-> content, ordered |-> ordered, rows |-> rows]

\* Two deliveries; an article twice in one; no header; ordered too late; a
\* total that is not met.
TwoDays == Doc("p1", -2, <<Header(1, 1), Article("a1", "t1"), Total(1, 1),
                           Header(2, 3), Article("a1", "t2"), Article("a1", "t1"), Total(2, 2)>>)
Today == Doc("p2", -2, <<Header(1, 0), Article("a1", "t1"), Total(1, 1)>>)
NoDay == Doc("p3", -2, <<Article("a2", "t1"), Article("a1", "t1"), Total(1, 2)>>)
Mixed == Doc("p4", -1, <<Header(1, 2), Article("a9", "t1"), Article("a2", "t1"), Total(1, 2)>>)
Late == Doc("p5", 1, <<Header(1, 2), Article("a2", "t1"), Total(1, 1)>>)
Torn == Doc("p6", -1, <<Header(1, 2), Article("a2", "t1"), Total(1, 2)>>)
Documents == {{Late}, {TwoDays, Late}, {Today, NoDay}, {Mixed, Torn}, {Mixed}}

Template(plans, masters, exports, documents) ==
    {[origin |-> "template", mode |-> mode, asOf |-> 1, here |-> "north",
      plan |-> plan, master |-> m, stock |-> stock, docs |-> docs, poDay |-> 0] :
        mode \in Modes, plan \in plans, m \in masters, stock \in exports, docs \in documents}

Store(plans, masters, uploadMasters, exports, documents) ==
    {[origin |-> "store", mode |-> mode, asOf |-> 1, here |-> "north",
      plan |-> plan, stockPlan |-> stockPlan, master |-> m, imported |-> imported,
      stock |-> stock, docs |-> docs, poDay |-> poDay] :
        mode \in Modes, plan \in plans, stockPlan \in plans \ {LapsedPlan},
        m \in masters, imported \in uploadMasters,
        stock \in exports, docs \in documents, poDay \in {-1, 0}}

Templates == Template(Plans, Masters, Exports, Documents)
Stores == Store(Plans, Masters, {Master, NewArticle, Twins}, Exports, Documents)

AllSources == Files \cup Templates \cup Stores

NoCases == {}

\* Runs with sources, and the engine by itself.
MCInit == \/ RunInit
          \/ Init /\ source = NoSource /\ key = NoKey /\ phase = "engine"
                  /\ outcome = "none" /\ issues = {}

MCSpec == MCInit /\ [][RunNext]_<<runVars, vars>>
=============================================================================
