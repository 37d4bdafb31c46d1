------------------------- MODULE ImprovedRun_proofs -------------------------
(***************************************************************************)
(* Proofs about whole runs: from any files, workbooks or stored imports    *)
(* that parse to their types, to the answer.                               *)
(*                                                                         *)
(* SourceAssumption says what parsing leaves a source with; everything     *)
(* else is shown of the guards the source passes on its way.  A source     *)
(* that is WellFormed has rows the engine accepts (GivenFits and the       *)
(* lemmas behind it), so the inputs of each key are an instance of         *)
(* PlanningEngine_proofs, and its invariant EInv holds along a run.  RInv  *)
(* adds which guards lie behind the run in each phase, and what its        *)
(* answer rests on.  The properties of the answer follow from RInv; those  *)
(* about tables of orders follow from how lines, snapshots and orders are  *)
(* built, and from the arithmetic of sums over them.                       *)
(***************************************************************************)
EXTENDS ImprovedRun, PlanningEngine_proofs

-----------------------------------------------------------------------------
(* What is given to the run *)

\* A policy without its rules.
PlanOf(plan) == /\ plan.fresh \in BOOLEAN
                /\ plan.unit \in Nat \ {0} /\ plan.multiple \in Nat \ {0} /\ plan.moq \in Nat
                /\ plan.lead \in Nat /\ plan.safety \in Nat
                /\ plan.yield \in Nat \ {0} /\ plan.parts \in Nat \ {0}
                /\ plan.shelf \in (Nat \ {0}) \cup {NoDays} /\ plan.cover \in (Nat \ {0}) \cup {NoDays}

RulesFit(b) == IsFiniteSet(b.rules) /\ \A r \in b.rules : RuleOK(r)

\* A bundle whose rows have passed the guards of the loaders.
RowsOK(b) ==
    /\ IsFiniteSet(b.forecasts) /\ IsFiniteSet(b.bom)
    /\ IsFiniteSet(b.snapshots) /\ IsFiniteSet(b.pos)
    /\ \A f \in b.forecasts : f.day \in Int /\ f.portions \in Nat
    /\ \A l \in b.bom : l.grams \in Nat
    /\ \A i \in b.items : i.pack \in Nat
    /\ \A p \in b.policies : PlanOf(p.plan)
    /\ RulesFit(b)
    /\ \A s \in b.snapshots : s.at \in Int /\ s.units \in Nat /\ s.partial \in Nat
    /\ \A o \in b.pos : o.at \in Int /\ o.units \in Nat

\* What the manifest does not declare is left out, the rest is as it was.
LEMMA LoadedIs ==
    ASSUME NEW b, DOMAIN b = {"forecasts", "menus", "bom", "items", "policies", "rules", "places",
                              "snapshots", "pos", "status"}
    PROVE  /\ Loaded(b).forecasts = b.forecasts /\ Loaded(b).bom = b.bom
           /\ Loaded(b).items = b.items /\ Loaded(b).snapshots = b.snapshots
           /\ Loaded(b).pos = b.pos /\ Loaded(b).status = b.status
           /\ Loaded(b).policies \subseteq b.policies /\ Loaded(b).rules \subseteq b.rules
BY DEF Loaded, Declared

\* Rows that have passed their guards.
LEMMA PoliciesFit ==
    ASSUME NEW p, PolicyTyped(p), PolicyRow(p) PROVE PlanOf(p.plan) /\ p.packs \in Nat
BY DEF PolicyTyped, PolicyRow, PlanOf, NoDays

\* Typed rules that have passed their guards, finitely many.
LEMMA RulesFitIn ==
    ASSUME NEW m, MasterTyped(m), \A r \in m.rules : RuleRow(r) PROVE RulesFit(m)
BY DEF MasterTyped, RuleRow, RuleOK, RulesFit

\* What the loaders demand of each row, whatever they demand of the keys.
LEMMA RowsPass ==
    ASSUME NEW b
    PROVE  /\ LoadsForecasts(b) => \A f \in b.forecasts : ForecastRow(f)
           /\ LoadsBom(b) => \A l \in b.bom : BomRow(l)
           /\ LoadsItems(b) => \A i \in b.items : ItemRow(i)
           /\ LoadsPolicies(b) => \A p \in b.policies : PolicyRow(p)
           /\ LoadsRules(b) => \A r \in b.rules : RuleRow(r)
           /\ LoadsSnapshots(b) => \A s \in b.snapshots : SnapshotRow(s)
           /\ LoadsOrders(b) => \A o \in b.pos : OrderRow(o)
<1>1. LoadsForecasts(b) => \A f \in b.forecasts : ForecastRow(f)
    BY Zenon DEF LoadsForecasts
<1>2. LoadsBom(b) => \A l \in b.bom : BomRow(l)
    BY Zenon DEF LoadsBom
<1>3. LoadsItems(b) => \A i \in b.items : ItemRow(i)
    BY Zenon DEF LoadsItems
<1>4. LoadsPolicies(b) => \A p \in b.policies : PolicyRow(p)
    BY Zenon DEF LoadsPolicies
<1>5. LoadsRules(b) => \A r \in b.rules : RuleRow(r)
    BY Zenon DEF LoadsRules
<1>6. LoadsSnapshots(b) => \A s \in b.snapshots : SnapshotRow(s)
    BY Zenon DEF LoadsSnapshots
<1>7. LoadsOrders(b) => \A o \in b.pos : OrderRow(o)
    BY Zenon DEF LoadsOrders
<1> QED
    BY <1>1, <1>2, <1>3, <1>4, <1>5, <1>6, <1>7

\* The nine files.
LEMMA FilesGive ==
    ASSUME NEW b, BundleTyped(b), Accepts(b) PROVE RowsOK(Loaded(b))
<1> DEFINE l == Loaded(b)
<1>1. /\ l.forecasts = b.forecasts /\ l.bom = b.bom /\ l.items = b.items
      /\ l.snapshots = b.snapshots /\ l.pos = b.pos
      /\ l.policies \subseteq b.policies /\ l.rules \subseteq b.rules
    BY LoadedIs DEF BundleTyped
<1>2. /\ \A f \in l.forecasts : ForecastRow(f)
      /\ \A r \in l.bom : BomRow(r)
      /\ \A i \in l.items : ItemRow(i)
      /\ \A p \in l.policies : PolicyRow(p)
      /\ \A r \in l.rules : RuleRow(r)
      /\ \A s \in l.snapshots : SnapshotRow(s)
      /\ \A o \in l.pos : OrderRow(o)
    BY RowsPass DEF Accepts
<1> HIDE DEF l
<1>3. /\ IsFiniteSet(l.forecasts) /\ IsFiniteSet(l.bom)
      /\ IsFiniteSet(l.snapshots) /\ IsFiniteSet(l.pos)
    BY <1>1 DEF BundleTyped, PlanTyped
<1>4. /\ \A f \in l.forecasts : f.day \in Int /\ f.portions \in Nat
      /\ \A r \in l.bom : r.grams \in Nat
    BY <1>1, <1>2 DEF BundleTyped, PlanTyped, ForecastRow, BomRow
<1>5. \A i \in l.items : i.pack \in Nat
    BY <1>1, <1>2 DEF BundleTyped, MasterTyped, ItemRow
<1>6. \A p \in l.policies : PlanOf(p.plan)
    BY <1>1, <1>2, PoliciesFit DEF BundleTyped, MasterTyped
<1>7. RulesFit(l)
    <2>1. IsFiniteSet(l.rules)
        BY <1>1, FS_Subset DEF BundleTyped, MasterTyped
    <2>2. \A r \in l.rules : RuleOK(r)
        BY <1>1, <1>2 DEF BundleTyped, MasterTyped, RuleRow, RuleOK
    <2> QED
        BY <2>1, <2>2 DEF RulesFit
<1>8. /\ \A s \in l.snapshots : s.at \in Int /\ s.units \in Nat /\ s.partial \in Nat
      /\ \A o \in l.pos : o.at \in Int /\ o.units \in Nat
    BY <1>1, <1>2 DEF BundleTyped, SnapshotRow, OrderRow
<1>9. RowsOK(l)
    BY <1>3, <1>4, <1>5, <1>6, <1>7, <1>8 DEF RowsOK
<1> QED
    BY <1>9 DEF l

\* The line of an article row.
LineOf(doc, i) == [id |-> LineId(doc, i), ordered |-> doc.ordered, due |-> DeliveryAt(doc, i).day,
                   article |-> doc.rows[i].article, text |-> doc.rows[i].text,
                   units |-> doc.rows[i].units]

\* A document has finitely many articles, each with a delivery day by the last
\* day or none.
LEMMA ArticlesHaveDays ==
    ASSUME NEW doc, DocumentTyped(doc)
    PROVE  /\ IsFiniteSet(Articles(doc)) /\ Articles(doc) \subseteq Nat
           /\ \A i \in Articles(doc) : /\ DeliveryAt(doc, i).day \in Int
                                       /\ DeliveryAt(doc, i).day <= Last
                                       /\ doc.rows[i].units \in Nat
<1> USE DayAssumption
<1> DEFINE N == 1..Len(doc.rows)
<1>1. IsFiniteSet(N) /\ \A T \in SUBSET N : IsFiniteSet(T)
    <2>1. Len(doc.rows) \in Nat
        BY DEF DocumentTyped
    <2>2. IsFiniteSet(N)
        BY <2>1, FS_Interval
    <2> HIDE DEF N
    <2> QED
        BY <2>2, FS_Subset
<1>2. Articles(doc) \subseteq N /\ RowsOfKind(doc, "delivery") \subseteq N
    BY DEF Articles, RowsOfKind, DocumentTyped
<1>3. ASSUME NEW i \in Articles(doc)
      PROVE  DeliveryAt(doc, i).day \in Int /\ DeliveryAt(doc, i).day <= Last
    <2> DEFINE before == {j \in RowsOfKind(doc, "delivery") : j < i}
    <2>1. CASE before = {}
        <3>1. DeliveryAt(doc, i) = [number |-> 1, day |-> Undated]
            BY <2>1 DEF DeliveryAt
        <3> QED
            BY <3>1 DEF Undated
    <2>2. CASE before # {}
        <3>1. before \in SUBSET N /\ before \in SUBSET Int
            BY <1>2
        <3>2. Max(before) \in before
            <4> HIDE DEF before
            <4> QED
                BY <1>1, <2>2, <3>1, Extremes
        <3>3. DeliveryAt(doc, i).day = doc.rows[Max(before)].day
            BY <2>2 DEF DeliveryAt
        <3> QED
            BY <3>2, <3>3 DEF DocumentTyped
    <2> QED
        BY <2>1, <2>2
<1> QED
    BY <1>1, <1>2, <1>3 DEF DocumentTyped

\* The lines of the documents.
LEMMA LinesHaveDays ==
    ASSUME NEW docs, IsFiniteSet(docs), \A doc \in docs : DocumentTyped(doc)
    PROVE  /\ IsFiniteSet(LinesOf(docs))
           /\ \A l \in LinesOf(docs) :
                 \E doc \in docs : \E i \in Articles(doc) : l = LineOf(doc, i)
           /\ \A l \in LinesOf(docs) : /\ l.ordered \in Int /\ l.units \in Nat
                                       /\ l.due \in Int /\ l.due <= Last
<1>1. ASSUME NEW doc \in docs
      PROVE  Lines(doc) = {LineOf(doc, i) : i \in Articles(doc)} /\ IsFiniteSet(Lines(doc))
    <2> DEFINE f == [i \in Articles(doc) |-> LineOf(doc, i)]
    <2>1. Lines(doc) = {LineOf(doc, i) : i \in Articles(doc)}
        BY DEF Lines, LineOf
    <2>2. Lines(doc) = {f[i] : i \in Articles(doc)}
        BY <2>1
    <2>3. IsFiniteSet(Articles(doc))
        BY ArticlesHaveDays
    <2>4. IsFiniteSet({f[i] : i \in Articles(doc)})
        <3> HIDE DEF f
        <3> QED
            BY <2>3, Finite
    <2> HIDE DEF f
    <2> QED
        BY <2>1, <2>2, <2>4
<1>2. IsFiniteSet(LinesOf(docs))
    <2> DEFINE g == [doc \in docs |-> Lines(doc)]
               all == {g[doc] : doc \in docs}
    <2>1. IsFiniteSet(all)
        BY Finite
    <2>2. LinesOf(docs) = UNION all
        BY DEF LinesOf
    <2>3. \A L \in all : IsFiniteSet(L)
        BY <1>1
    <2> HIDE DEF all
    <2> QED
        BY <2>1, <2>2, <2>3, FS_UNION
<1>3. ASSUME NEW l \in LinesOf(docs)
      PROVE  \E doc \in docs : \E i \in Articles(doc) : l = LineOf(doc, i)
    <2>1. PICK doc \in docs : l \in Lines(doc)
        BY DEF LinesOf
    <2> QED
        BY <1>1, <2>1
<1>4. ASSUME NEW doc \in docs, NEW i \in Articles(doc), NEW l, l = LineOf(doc, i)
      PROVE  l.ordered \in Int /\ l.units \in Nat /\ l.due \in Int /\ l.due <= Last
    <2>1. /\ l.ordered = doc.ordered /\ l.units = doc.rows[i].units
          /\ l.due = DeliveryAt(doc, i).day
        BY <1>4 DEF LineOf
    <2> QED
        BY <2>1, ArticlesHaveDays DEF DocumentTyped
<1> QED
    BY <1>2, <1>3, <1>4

-----------------------------------------------------------------------------
(* Stock and orders of the workbook ways *)

\* The packs of a row, and the count of item i.
PacksOf(src, m, i) ==
    LET r == CHOOSE r \in StockRows(src.stock, m, i) : TRUE
    IN IF PolicyOf(m, i).countedIn = "pack" THEN r.units ELSE r.units * PolicyOf(m, i).packs
CountOf(src, m, i) == [place |-> src.here, item |-> i, at |-> src.stock.at, partial |-> 0,
                       units |-> PacksOf(src, m, i)]
NoCount(src, i) == [place |-> src.here, item |-> i, at |-> src.stock.at, partial |-> 0, units |-> 0]

Found(src, m, required) == required \ StockReviews(src.stock, m, required)

\* The snapshots of an export: what was counted, and zeros where they are assumed.
LEMMA SnapshotsAre ==
    ASSUME NEW src, NEW m, NEW required
    PROVE  StockSnapshots(src, m, required)
             = {CountOf(src, m, i) : i \in Found(src, m, required)}
                 \cup IF AssumesZero(src.origin, src.mode)
                      THEN {NoCount(src, i) : i \in required \ Found(src, m, required)} ELSE {}
BY Zenon DEF StockSnapshots, CountOf, NoCount, PacksOf, Found

\* What an upload of stock and documents was normalised under.
Imported(src) == /\ SourceTyped(src) /\ src.origin # "files"
                 /\ MasterReads(MasterOfImport(src))
                 /\ StockReads(src.stock, MasterOfImport(src), RequiredThen(src))

\* Packs have passed their guard.
LEMMA PacksFit ==
    ASSUME NEW src, Imported(src), NEW p \in MasterOfImport(src).policies
    PROVE  p.packs \in Nat
BY PoliciesFit DEF Imported, SourceTyped, WorkbookTyped, MasterTyped, MasterReads, ItemsTab

\* The items of the recipes are finitely many.
LEMMA RequiredIsFinite ==
    ASSUME NEW p, PlanTyped(p), NEW place PROVE IsFiniteSet(RequiredItems(p, place))
<1> DEFINE L == {m \in p.bom : \E f \in ForecastsAt(p, place) : ActiveBom(m, f.dish, f.day)}
           f == [l \in L |-> l.item]
<1>1. IsFiniteSet(L)
    BY FS_Subset DEF PlanTyped
<1>2. IsFiniteSet({f[l] : l \in L})
    <2> HIDE DEF f, L
    <2> QED
        BY <1>1, Finite
<1>3. RequiredItems(p, place) = {f[l] : l \in L}
    BY DEF RequiredItems
<1> QED
    BY <1>2, <1>3

\* Every count is of a required item at the location, at the time of the export.
LEMMA StockGives ==
    ASSUME NEW src, Imported(src)
    PROVE  LET all == StockSnapshots(src, MasterOfImport(src), RequiredThen(src))
           IN /\ IsFiniteSet(all)
              /\ \A s \in all : /\ s.at \in Int /\ s.units \in Nat /\ s.partial = 0
                                /\ s.place = src.here /\ s.item \in RequiredThen(src)
<1> DEFINE m == MasterOfImport(src)
           req == RequiredThen(src)
           all == StockSnapshots(src, m, req)
<1>1. /\ WorkbookTyped(m) /\ PlanTyped(PlanOfImport(src)) /\ src.stock.at \in Int
      /\ \A r \in src.stock.rows : r.units \in Int
    BY DEF Imported, SourceTyped
<1>2. IsFiniteSet(req)
    BY <1>1, RequiredIsFinite DEF RequiredThen
<1>3. StockReads(src.stock, m, req)
    BY DEF Imported
<1> HIDE DEF m, req
<1>4. ASSUME NEW i \in Found(src, m, req) PROVE PacksOf(src, m, i) \in Nat
    <2> DEFINE rows == StockRows(src.stock, m, i)
               r == CHOOSE r \in rows : TRUE
    <2>1. i \in req /\ rows # {}
        BY DEF Found, StockReviews
    <2>2. i \in PlannedItems(m) /\ \A x \in rows : x.units >= 0
        BY <1>3, <2>1 DEF StockReads
    <2>3. PolicyOf(m, i) \in m.policies
        <3>1. \E p \in m.policies : p.item = i
            BY <2>2 DEF PlannedItems
        <3> QED
            BY <3>1 DEF PolicyOf
    <2>4. rows \subseteq src.stock.rows
        BY DEF StockRows, ByUid, ByName
    <2>5. r \in rows
        BY <2>1
    <2>6. r.units \in Nat /\ PolicyOf(m, i).packs \in Nat
        BY <1>1, <2>2, <2>3, <2>4, <2>5, PacksFit DEF m
    <2>7. PacksOf(src, m, i) = IF PolicyOf(m, i).countedIn = "pack" THEN r.units
                               ELSE r.units * PolicyOf(m, i).packs
        BY DEF PacksOf
    <2>8. r.units * PolicyOf(m, i).packs \in Nat
        <3> DEFINE a == r.units
                   b == PolicyOf(m, i).packs
        <3>1. a \in Nat /\ b \in Nat
            BY <2>6
        <3> HIDE DEF a, b
        <3>2. a * b \in Nat
            BY <3>1
        <3> QED
            BY <3>2 DEF a, b
    <2> HIDE DEF r
    <2> QED
        BY <2>6, <2>7, <2>8
<1>5. all = {CountOf(src, m, i) : i \in Found(src, m, req)}
              \cup IF AssumesZero(src.origin, src.mode)
                   THEN {NoCount(src, i) : i \in req \ Found(src, m, req)} ELSE {}
    BY SnapshotsAre
<1> HIDE DEF all
<1>6. Found(src, m, req) \subseteq req
    BY DEF Found
<1>7. ASSUME NEW s \in all
      PROVE  /\ s.at \in Int /\ s.units \in Nat /\ s.partial = 0
             /\ s.place = src.here /\ s.item \in req
    <2>1. CASE \E i \in Found(src, m, req) : s = CountOf(src, m, i)
        BY <1>1, <1>4, <1>6, <2>1 DEF CountOf
    <2>2. CASE \E i \in req : s = NoCount(src, i)
        BY <1>1, <2>2 DEF NoCount
    <2> QED
        BY <1>5, <2>1, <2>2
<1>8. IsFiniteSet(all)
    <2> DEFINE f == [i \in req |-> CountOf(src, m, i)]
               g == [i \in req |-> NoCount(src, i)]
               A == {f[i] : i \in req}
               B == {g[i] : i \in req}
    <2>1. IsFiniteSet(A)
        <3> HIDE DEF f
        <3> QED
            BY <1>2, Finite
    <2>2. IsFiniteSet(B)
        <3> HIDE DEF g
        <3> QED
            BY <1>2, Finite
    <2>3. all \subseteq A \cup B
        BY <1>5, <1>6
    <2> HIDE DEF A, B
    <2>4. IsFiniteSet(A \cup B)
        BY <2>1, <2>2, FS_Union
    <2> QED
        BY <2>3, <2>4, FS_Subset
<1> QED
    BY <1>7, <1>8 DEF m, req, all

\* The order of a line, and the lines that become one.
OrderOf(src, m, l) ==
    LET p == CHOOSE p \in Matches(m, l) : TRUE
    IN [id |-> l.id, place |-> src.here, item |-> p.item, ordered |-> Midnight(l.ordered),
        at |-> Midnight(l.due), units |-> l.units * p.packs, open |-> TRUE]
Expected(src, m) == {k \in SeenLines(src) : /\ DerivedStatus(src, k) = "open"
                                            /\ MappingStatus(m, k) = "mapped"}

\* The open orders of the documents: one for each line that is open and mapped.
LEMMA OrdersAre ==
    ASSUME NEW src, NEW m
    PROVE  OpenOrders(src, m) = {OrderOf(src, m, l) : l \in Expected(src, m)}
BY Zenon DEF OpenOrders, OrderOf, Expected

\* A line that is mapped has one policy.
LEMMA MappedHasOne ==
    ASSUME NEW m, IsFiniteSet(m.policies), NEW l
    PROVE  /\ MappingStatus(m, l) = "mapped" <=> \E p \in m.policies : Matches(m, l) = {p}
           /\ Matches(m, l) \subseteq m.policies
<1>1. Matches(m, l) \subseteq Candidates(m, l) /\ Candidates(m, l) \subseteq m.policies
    BY DEF Matches, Candidates
<1>2. IsFiniteSet(Matches(m, l))
    BY <1>1, FS_Subset
<1>3. Cardinality(Matches(m, l)) \in Nat
    BY <1>2, FS_CardinalityType
<1>4. MappingStatus(m, l) = "mapped" <=> Matches(m, l) # {} /\ ~(Cardinality(Matches(m, l)) > 1)
    BY <1>1 DEF MappingStatus
<1>5. Cardinality(Matches(m, l)) = 0 <=> Matches(m, l) = {}
    BY <1>2, FS_EmptySet
<1>6. Cardinality(Matches(m, l)) = 1 <=> \E p : Matches(m, l) = {p}
    BY <1>2, FS_Singleton
<1> QED
    BY <1>1, <1>3, <1>4, <1>5, <1>6

\* What is ordered of a line that is expected.
LEMMA OrderIs ==
    ASSUME NEW src, Imported(src), NEW l \in Expected(src, MasterOfImport(src))
    PROVE  \E p \in MasterOfImport(src).policies :
              /\ Matches(MasterOfImport(src), l) = {p} /\ p.packs \in Nat
              /\ OrderOf(src, MasterOfImport(src), l)
                    = [id |-> l.id, place |-> src.here, item |-> p.item,
                       ordered |-> Midnight(l.ordered), at |-> Midnight(l.due),
                       units |-> l.units * p.packs, open |-> TRUE]
<1> DEFINE m == MasterOfImport(src)
<1>1. WorkbookTyped(m)
    BY DEF Imported, SourceTyped
<1> HIDE DEF m
<1>2. PICK p \in m.policies : Matches(m, l) = {p}
    BY <1>1, MappedHasOne DEF Expected, WorkbookTyped, m
<1>3. (CHOOSE q \in Matches(m, l) : TRUE) = p
    BY <1>2
<1>4. OrderOf(src, m, l)
         = [id |-> l.id, place |-> src.here, item |-> p.item,
            ordered |-> Midnight(l.ordered), at |-> Midnight(l.due),
            units |-> l.units * p.packs, open |-> TRUE]
    BY <1>3 DEF OrderOf
<1>5. p.packs \in Nat
    BY <1>2, PacksFit DEF m
<1> QED
    BY <1>2, <1>4, <1>5 DEF m

\* Every order is of an article row, open, at the location.
LEMMA OrdersGive ==
    ASSUME NEW src, Imported(src)
    PROVE  LET pos == OpenOrders(src, MasterOfImport(src))
           IN /\ IsFiniteSet(pos)
              /\ \A o \in pos : o.at \in Int /\ o.units \in Nat /\ o.open /\ o.place = src.here
<1> DEFINE m == MasterOfImport(src)
           pos == OpenOrders(src, m)
           E == Expected(src, m)
<1>1. /\ IsFiniteSet(LinesOf(src.docs))
      /\ \A l \in LinesOf(src.docs) : l.due \in Int /\ l.units \in Nat
    BY LinesHaveDays DEF Imported, SourceTyped
<1>2. E \subseteq LinesOf(src.docs)
    BY DEF Expected, SeenLines
<1>3. pos = {OrderOf(src, m, l) : l \in E}
    BY OrdersAre
<1> HIDE DEF pos
<1>4. ASSUME NEW l \in E, NEW o, o = OrderOf(src, m, l)
      PROVE  o.at \in Int /\ o.units \in Nat /\ o.open /\ o.place = src.here
    <2>1. PICK p \in m.policies :
              /\ p.packs \in Nat
              /\ o = [id |-> l.id, place |-> src.here, item |-> p.item,
                      ordered |-> Midnight(l.ordered), at |-> Midnight(l.due),
                      units |-> l.units * p.packs, open |-> TRUE]
        BY <1>4, OrderIs
    <2>2. PICK d \in Int, a \in Nat, c \in Nat : d = l.due /\ a = l.units /\ c = p.packs
        BY <1>1, <1>2, <2>1
    <2>3. 2 * d \in Int /\ a * c \in Nat
        OBVIOUS
    <2> QED
        BY <2>1, <2>2, <2>3 DEF Midnight
<1>5. IsFiniteSet(pos)
    <2> DEFINE f == [l \in E |-> OrderOf(src, m, l)]
    <2>1. IsFiniteSet(E)
        BY <1>1, <1>2, FS_Subset
    <2>2. IsFiniteSet({f[l] : l \in E})
        <3> HIDE DEF f, E
        <3> QED
            BY <2>1, Finite
    <2>3. pos = {f[l] : l \in E}
        BY <1>3
    <2> QED
        BY <2>2, <2>3
<1>6. ASSUME NEW o \in pos
      PROVE  o.at \in Int /\ o.units \in Nat /\ o.open /\ o.place = src.here
    <2>1. PICK l \in E : o = OrderOf(src, m, l)
        BY <1>3
    <2> QED
        BY <1>4, <2>1
<1> QED
    BY <1>5, <1>6 DEF pos

-----------------------------------------------------------------------------
(* What the run is given *)

\* The parts of a bundle that is made of workbooks.
LEMMA BundleIs ==
    ASSUME NEW src, src.origin \in {"template", "store"}
    PROVE  /\ DOMAIN Bundle(src) = {"forecasts", "menus", "bom", "items", "policies", "rules",
                                    "places", "snapshots", "pos", "status"}
           /\ Bundle(src).forecasts = ForecastsAt(src.plan, src.here)
           /\ Bundle(src).bom = src.plan.bom /\ Bundle(src).items = src.master.items
           /\ Bundle(src).policies = src.master.policies /\ Bundle(src).rules = src.master.rules
           /\ Bundle(src).snapshots = StockSnapshots(src, MasterOfImport(src), RequiredThen(src))
           /\ Bundle(src).pos = OpenOrders(src, MasterOfImport(src))
           /\ Bundle(src).status = Declares
BY DEF Bundle, BundleFrom

\* The parts that the run is given of it.
LEMMA GivenIs ==
    ASSUME NEW src, src.origin \in {"template", "store"}
    PROVE  /\ Given(src).forecasts = ForecastsAt(src.plan, src.here)
           /\ Given(src).bom = src.plan.bom /\ Given(src).items = src.master.items
           /\ Given(src).policies \subseteq src.master.policies
           /\ Given(src).rules \subseteq src.master.rules
           /\ Given(src).snapshots = StockSnapshots(src, MasterOfImport(src), RequiredThen(src))
           /\ Given(src).pos = OpenOrders(src, MasterOfImport(src))
           /\ Given(src).status = Declares
<1>1. CASE src.origin = "store"
    BY <1>1, BundleIs DEF Given
<1>2. CASE src.origin = "template"
    BY <1>2, BundleIs, LoadedIs DEF Given
<1> QED
    BY <1>1, <1>2

\* Workbooks that were read.
LEMMA UploadsGive ==
    ASSUME NEW src, SourceTyped(src), src.origin # "files", SourcesRead(src)
    PROVE  /\ Imported(src) /\ src.origin \in {"template", "store"}
           /\ PlanReads(src.plan) /\ MasterReads(src.master)
           /\ src.origin = "store" => ReferencesKnown(src.plan, src.imported)
<1>1. src.origin \in {"template", "store"}
    BY DEF SourceTyped
<1>2. CASE src.origin = "template"
    <2>1. TemplateReads(src)
        BY <1>2, Zenon DEF SourcesRead
    <2> QED
        BY <1>2, <2>1, Zenon DEF TemplateReads, Imported, MasterOfImport, RequiredThen, PlanOfImport
<1>3. CASE src.origin = "store"
    <2>1. UploadsAccepted(src)
        BY <1>3, Zenon DEF SourcesRead
    <2> QED
        BY <1>3, <2>1, Zenon DEF UploadsAccepted, Imported, MasterOfImport, RequiredThen, PlanOfImport
<1> QED
    BY <1>1, <1>2, <1>3

\* Whatever way a plan is asked for, its rows have passed their guards.
LEMMA GivenFits ==
    ASSUME NEW src, SourceTyped(src), WellFormed(src) PROVE RowsOK(Given(src))
<1> DEFINE b == Given(src)
<1>1. CASE src.origin = "files"
    <2>1. BundleTyped(src.bundle) /\ Accepts(src.bundle) /\ Given(src) = Loaded(src.bundle)
        BY <1>1 DEF SourceTyped, WellFormed, Bundle, Given
    <2> QED
        BY <2>1, FilesGive
<1>2. CASE src.origin # "files"
    <2>1. /\ Imported(src) /\ src.origin \in {"template", "store"}
          /\ PlanReads(src.plan) /\ MasterReads(src.master)
        BY <1>2, UploadsGive DEF WellFormed
    <2>2. PlanTyped(src.plan) /\ WorkbookTyped(src.master) /\ MasterTyped(src.master)
        BY <1>2 DEF SourceTyped, WorkbookTyped
    <2>3. /\ \A f \in src.plan.forecasts : ForecastRow(f)
          /\ \A l \in src.plan.bom : BomRow(l)
        BY <2>1, RowsPass DEF PlanReads
    <2>4. /\ \A i \in src.master.items : ItemRow(i)
          /\ \A p \in src.master.policies : PolicyRow(p)
          /\ \A r \in src.master.rules : RuleRow(r)
        BY <2>1, Zenon DEF MasterReads, ItemsTab, RulesTab
    <2>5. /\ b.forecasts = ForecastsAt(src.plan, src.here)
          /\ b.bom = src.plan.bom /\ b.items = src.master.items
          /\ b.policies \subseteq src.master.policies /\ b.rules \subseteq src.master.rules
          /\ b.snapshots = StockSnapshots(src, MasterOfImport(src), RequiredThen(src))
          /\ b.pos = OpenOrders(src, MasterOfImport(src))
        BY <2>1, GivenIs
    <2> HIDE DEF b
    <2>6. /\ b.forecasts \subseteq src.plan.forecasts /\ IsFiniteSet(b.forecasts)
          /\ IsFiniteSet(b.bom)
        BY <2>2, <2>5, FS_Subset DEF ForecastsAt, PlanTyped
    <2>7. /\ \A f \in b.forecasts : f.day \in Int /\ f.portions \in Nat
          /\ \A l \in b.bom : l.grams \in Nat
        BY <2>2, <2>3, <2>5, <2>6 DEF PlanTyped, ForecastRow, BomRow
    <2>8. \A i \in b.items : i.pack \in Nat
        BY <2>2, <2>4, <2>5 DEF MasterTyped, ItemRow
    <2>9. \A p \in b.policies : PlanOf(p.plan)
        BY <2>2, <2>4, <2>5, PoliciesFit DEF MasterTyped
    <2>10. RulesFit(b)
        <3>1. RulesFit(src.master)
            BY <2>2, <2>4, RulesFitIn
        <3>2. IsFiniteSet(b.rules)
            BY <2>5, <3>1, FS_Subset DEF RulesFit
        <3> QED
            BY <2>5, <3>1, <3>2 DEF RulesFit
    <2>11. /\ IsFiniteSet(b.snapshots)
           /\ \A s \in b.snapshots : s.at \in Int /\ s.units \in Nat /\ s.partial \in Nat
        BY <2>1, <2>5, StockGives
    <2>12. IsFiniteSet(b.pos) /\ \A o \in b.pos : o.at \in Int /\ o.units \in Nat
        BY <2>1, <2>5, OrdersGive
    <2>13. RowsOK(b)
        BY <2>6, <2>7, <2>8, <2>9, <2>10, <2>11, <2>12 DEF RowsOK
    <2> QED
        BY <2>13 DEF b
<1> QED
    BY <1>1, <1>2

\* The empty sum.
LEMMA NothingSums == ASSUME NEW f PROVE SumOver(f, {}) = 0
BY SumUnfolds, FS_EmptySet

\* There is a last count.
LEMMA LatestIsCount ==
    ASSUME NEW src, NEW b, RowsOK(b), NEW k, Counts(src, b, k) # {}
    PROVE  /\ Latest(src, b, k) \in Counts(src, b, k)
           /\ \A t \in Counts(src, b, k) : t.at <= Latest(src, b, k).at
<1> DEFINE C == Counts(src, b, k)
           f == [s \in C |-> s.at]
           times == {f[s] : s \in C}
<1>1. IsFiniteSet(C) /\ \A s \in C : s.at \in Int
    BY FS_Subset DEF Counts, RowsOK
<1>2. IsFiniteSet(times)
    <2> HIDE DEF f, C
    <2> QED
        BY <1>1, Finite
<1>3. times # {} /\ times \in SUBSET Int
    BY <1>1
<1>4. Max(times) \in times /\ \A t \in times : t <= Max(times)
    <2> HIDE DEF times
    <2> QED
        BY <1>2, <1>3, Extremes
<1>5. PICK s \in C : \A t \in C : t.at <= s.at
    BY <1>4
<1> QED
    BY <1>5 DEF Latest

\* What is demanded and ordered of an item are natural numbers, and nothing is
\* demanded after the last forecast.
LEMMA SumsAreNatural ==
    ASSUME NEW src, NEW b, RowsOK(b), NEW k, \A i \in b.items : i.pack \in Nat,
           k[2] \in KnownItems(b), NEW d
    PROVE  /\ RequiredOn(b, k, d) \in Nat
           /\ (\A f \in b.forecasts : f.place = k[1] => f.day # d) => RequiredOn(b, k, d) = 0
           /\ PackOf(b, k) \in Nat
           /\ OnOrder(src, b, k, d) \in Nat
<1> DEFINE E == Exploded(b)
           f == [x \in E |-> x[1].portions * x[2].grams]
           S == {x \in E : <<x[1].place, x[2].item>> = k /\ x[1].day = d}
           g == [o \in b.pos |-> o.units * PackOf(b, k)]
           T == {o \in b.pos : o.open /\ <<o.place, o.item>> = k /\ OrderDay(src, o) = d}
<1>1. E \subseteq b.forecasts \X b.bom
    BY DEF Exploded
<1>2. IsFiniteSet(S)
    <2>1. IsFiniteSet(b.forecasts \X b.bom)
        BY FS_Product DEF RowsOK
    <2>2. S \subseteq b.forecasts \X b.bom
        BY <1>1
    <2> HIDE DEF S
    <2> QED
        BY <2>1, <2>2, FS_Subset
<1>3. ASSUME NEW x \in S PROVE f[x] \in Nat
    <2>1. x[1].portions \in Nat /\ x[2].grams \in Nat /\ x \in E
        BY <1>1 DEF RowsOK
    <2>2. PICK p \in Nat, q \in Nat : p = x[1].portions /\ q = x[2].grams
        BY <2>1
    <2>3. p * q \in Nat
        OBVIOUS
    <2> QED
        BY <2>1, <2>2, <2>3
<1>4. RequiredOn(b, k, d) = SumOver(f, S)
    BY DEF RequiredOn
<1>5. RequiredOn(b, k, d) \in Nat
    <2> HIDE DEF f, S
    <2> QED
        BY <1>2, <1>3, <1>4, SumIsNatural
<1>6. ASSUME \A h \in b.forecasts : h.place = k[1] => h.day # d PROVE RequiredOn(b, k, d) = 0
    <2>1. S = {}
        BY <1>1, <1>6
    <2> HIDE DEF f, S
    <2> QED
        BY <1>4, <2>1, NothingSums
<1>7. PackOf(b, k) \in Nat
    <2>1. \E i \in b.items : i.item = k[2]
        BY DEF KnownItems
    <2>2. (CHOOSE i \in b.items : i.item = k[2]) \in b.items
        BY <2>1
    <2> QED
        BY <2>2 DEF PackOf
<1>8. ASSUME NEW o \in T PROVE g[o] \in Nat
    <2>1. PICK p \in Nat, q \in Nat : p = o.units /\ q = PackOf(b, k)
        BY <1>7 DEF RowsOK
    <2>2. p * q \in Nat
        OBVIOUS
    <2> QED
        BY <2>1, <2>2
<1>9. OnOrder(src, b, k, d) = SumOver(g, T)
    BY DEF OnOrder
<1>10. OnOrder(src, b, k, d) \in Nat
    <2>1. IsFiniteSet(T)
        BY FS_Subset DEF RowsOK
    <2> HIDE DEF g, T
    <2> QED
        BY <1>8, <1>9, <2>1, SumIsNatural
<1> QED
    BY <1>5, <1>6, <1>7, <1>10

\* No forecast of the location is after the day End.
LEMMA EndIsLast ==
    ASSUME NEW src, SourceTyped(src), WellFormed(src), NEW k \in Keys(src)
    PROVE  /\ k \in DemandKeys(Given(src))
           /\ \A f \in Given(src).forecasts : f.place = k[1] => f.day <= End
<1> DEFINE b == Given(src)
           F == {g \in b.forecasts : g.place = k[1]}
           h == [f \in F |-> f.day]
           days == {f.day : f \in F}
<1>1. RowsOK(b)
    BY GivenFits
<1> HIDE DEF b
<1>2. k \in DemandKeys(b) /\ End = Max(days)
    BY DEF Keys, b
<1>3. days \in SUBSET Int /\ IsFiniteSet(F)
    BY <1>1, FS_Subset DEF RowsOK
<1>4. days = {h[f] : f \in F}
    OBVIOUS
<1>5. IsFiniteSet({h[f] : f \in F})
    <2> HIDE DEF h, F
    <2> QED
        BY <1>3, Finite
<1>6. ASSUME NEW f \in b.forecasts, f.place = k[1] PROVE f.day <= End
    <2>1. f.day \in days
        BY <1>6
    <2> HIDE DEF days
    <2>2. f.day <= Max(days)
        BY <1>3, <1>4, <1>5, <2>1, Extremes
    <2> QED
        BY <1>2, <2>2
<1> QED
    BY <1>2, <1>6 DEF b

\* A plan without recommendations is one.
LEMMA UnplannedFits == PolicyOK(Unplanned)
<1>1. IsFiniteSet({})
    BY FS_EmptySet
<1> QED
    BY <1>1 DEF Unplanned, PolicyOK, WithinReach, NoDays

\* The policy that the engine is given.
LEMMA PolicyFits ==
    ASSUME NEW b, RowsOK(b), NEW k, WithinReach(EnginePolicy(b, k))
    PROVE  PolicyOK(EnginePolicy(b, k))
<1>1. CASE ~Recommends(b, k)
    BY <1>1, UnplannedFits DEF EnginePolicy
<1>2. CASE Recommends(b, k)
    <2> DEFINE p == (CHOOSE q \in b.policies : q.item = k[2]).plan
               rules == {r \in b.rules : r.place = k[1] /\ r.fresh = p.fresh}
               e == EnginePolicy(b, k)
    <2>1. PlanOf(p)
        <3>1. \E q \in b.policies : q.item = k[2]
            BY <1>2 DEF Recommends, PlannedItems
        <3>2. (CHOOSE q \in b.policies : q.item = k[2]) \in b.policies
            BY <3>1
        <3> QED
            BY <3>2 DEF RowsOK
    <2>2. IsFiniteSet(rules) /\ \A r \in rules : RuleOK(r)
        <3>1. rules \subseteq b.rules
            OBVIOUS
        <3> HIDE DEF rules
        <3> QED
            BY <3>1, FS_Subset DEF RowsOK, RulesFit
    <2> HIDE DEF p
    <2>3. e = [f \in DOMAIN Unplanned |-> IF f = "rules" THEN rules ELSE p[f]]
        BY <1>2 DEF EnginePolicy, p
    <2> HIDE DEF rules, e
    <2>4. /\ e.rules = rules /\ e.fresh = p.fresh /\ e.unit = p.unit /\ e.moq = p.moq
          /\ e.multiple = p.multiple /\ e.lead = p.lead /\ e.shelf = p.shelf
          /\ e.cover = p.cover /\ e.safety = p.safety /\ e.yield = p.yield
          /\ e.parts = p.parts
        BY <2>3 DEF Unplanned
    <2>5. WithinReach(e)
        BY DEF e
    <2>6. PolicyOK(e)
        BY <2>1, <2>2, <2>4, <2>5 DEF PolicyOK, PlanOf
    <2> QED
        BY <2>6 DEF e
<1> QED
    BY <1>1, <1>2

\* What the engine is given of a projected item is an instance of it.
LEMMA InputsFit ==
    ASSUME NEW src \in Source, NEW k \in Keys(src), Projected(src, Given(src), k)
    PROVE  InstanceOK(EngineInputs(src, Given(src), k))
<1> DEFINE b == Given(src)
           i == EngineInputs(src, b, k)
<1>1. SourceTyped(src) /\ WithinReach(EnginePolicy(b, k)) /\ Exact(i)
    BY SourceAssumption
<1>2. WellFormed(src)
    BY DEF Keys
<1>3. RowsOK(b)
    BY <1>1, <1>2, GivenFits
<1>4. Counts(src, b, k) # {} /\ k[2] \in KnownItems(b)
    BY DEF Projected
<1>5. \A d : /\ RequiredOn(b, k, d) \in Nat /\ OnOrder(src, b, k, d) \in Nat
             /\ (\A f \in b.forecasts : f.place = k[1] => f.day # d) => RequiredOn(b, k, d) = 0
    BY <1>3, <1>4, SumsAreNatural DEF RowsOK
<1>6. \A f \in b.forecasts : f.place = k[1] => f.day <= End
    BY <1>1, <1>2, EndIsLast
<1>7. OpeningStock(src, b, k) \in Nat
    <2>1. Latest(src, b, k) \in b.snapshots
        BY <1>3, <1>4, LatestIsCount DEF Counts
    <2>2. PICK u \in Nat, q \in Nat, r \in Nat :
              u = Latest(src, b, k).units /\ q = PackOf(b, k) /\ r = Latest(src, b, k).partial
        BY <1>3, <1>4, <2>1, SumsAreNatural DEF RowsOK
    <2>3. u * q + r \in Nat
        OBVIOUS
    <2> QED
        BY <2>2, <2>3 DEF OpeningStock
<1> HIDE DEF b, i
<1>8. /\ i.opening = OpeningStock(src, b, k) /\ i.policy = EnginePolicy(b, k)
      /\ i.demand = [d \in Day |-> RequiredOn(b, k, d)]
      /\ i.orders = [d \in Day \cup {Overdue} |-> OnOrder(src, b, k, d)]
    BY DEF i, EngineInputs, b
<1>9. i.demand \in [Day -> Nat] /\ i.orders \in [Day \cup {Overdue} -> Nat]
    BY <1>5, <1>8
<1>10. ASSUME NEW d \in Day, d > End PROVE i.demand[d] = 0
    <2>1. \A f \in b.forecasts : f.place = k[1] => f.day # d
        <3>1. \A f \in b.forecasts : f.day \in Int
            BY <1>3 DEF RowsOK
        <3> QED
            BY <1>6, <1>10, <3>1, DayAssumption DEF Day
    <2> QED
        BY <1>5, <1>8, <2>1
<1>11. PolicyOK(i.policy)
    BY <1>1, <1>3, <1>8, PolicyFits
<1>12. InstanceOK(i)
    BY <1>1, <1>7, <1>8, <1>9, <1>10, <1>11 DEF InstanceOK, b
<1> QED
    BY <1>12 DEF i, b

\* And so is an item that is never projected.
LEMMA NoInputsFit == InstanceOK(NoInputs)
<1> DEFINE i == NoInputs
<1>1. /\ i.opening = 0 /\ i.demand = [d \in Day |-> 0]
      /\ i.orders = [d \in Day \cup {Overdue} |-> 0] /\ i.policy = Unplanned
    BY DEF NoInputs
<1>2. Exact(i)
    <2>1. /\ Unplanned.fresh = FALSE /\ Unplanned.rules = {} /\ Unplanned.cover = NoDays
          /\ Unplanned.yield = 1 /\ Unplanned.parts = 1
        BY DEF Unplanned
    <2>2. Cycles(Unplanned, i.demand) = {}
        BY <2>1 DEF Cycles, StockedCycles, MatchingRules
    <2>3. \A d \in Day : (i.demand[d] * i.policy.yield) % i.policy.parts = 0
        BY <1>1, <2>1
    <2> QED
        BY <1>1, <2>1, <2>2, <2>3 DEF Exact
<1> QED
    BY <1>1, <1>2, UnplannedFits DEF InstanceOK

-----------------------------------------------------------------------------
(* The invariant *)

\* Of a source, what the steps of the run find out: whether gaps are allowed,
\* which of its items have no count, which only one of another day, what is
\* reported of both, and what its normalisation reported.
StrictSource(src) == src.mode \in {"shadow", "production"}

UncountedOf(src) == {k \in DemandKeys(Given(src)) : Counts(src, Given(src), k) = {}}

StaleOf(src) == {k \in DemandKeys(Given(src)) \ UncountedOf(src) :
                    SeenDay(src.origin, Latest(src, Given(src), k).at) < 0}

GapsOf(src) == {<<"missing_inventory_snapshot", k>> : k \in UncountedOf(src)}
                  \cup {<<"stale_inventory_snapshot", k>> : k \in StaleOf(src)}

ReviewsOf(src) == IF src.origin = "files" THEN {}
                  ELSE MappingIssues(src, MasterOfImport(src), RequiredThen(src))

\* The steps look at the source of the run.
LEMMA OfTheSource ==
    /\ Strict = StrictSource(source) /\ Uncounted(Given(source)) = UncountedOf(source)
    /\ CountIssues(Given(source)) = GapsOf(source) /\ SourceIssues = ReviewsOf(source)
BY DEF Strict, StrictSource, Uncounted, UncountedOf, Stale, StaleOf, CountIssues, GapsOf,
       SourceIssues, ReviewsOf

\* A bundle was built.
Built == phase \in {"gate", "explode", "select", "report", "engine"}
            \/ outcome \notin {"none", "refused"}

\* The counts were looked at: a strict run had none to report, another has.
Counted(src) == GapsOf(src) \subseteq issues /\ (StrictSource(src) => GapsOf(src) = {})

\* Every forecast has a recipe, and every item in one is known or not counted.
HasRecipes(src) == \A f \in Given(src).forecasts :
                      \E l \in Given(src).bom : ActiveBom(l, f.dish, f.day)
HasItems(src) == \A k \in DemandKeys(Given(src)) : \/ k[2] \in KnownItems(Given(src))
                                                   \/ k \in UncountedOf(src)

\* The key is in the hands of the engine.
InEngine == phase = "engine" \/ stage # "schedule"

\* A strict run was blocked, by what it was not told of or by a source.
Blocked(src) == /\ StrictSource(src) /\ issues # {} /\ ReviewsOf(src) \subseteq issues
                /\ GapsOf(src) \subseteq issues \/ UnknownSources(Given(src)) # {}

\* The inductive invariant.
RInv == /\ EInv /\ RunOK
        /\ source \in Source /\ key \in Keys(source) \cup {NoKey}
        /\ phase = "bundle" => SourcesRead(source)
        /\ Built => WellFormed(source)
        /\ phase \in {"select", "report", "engine"} => HasRecipes(source)
        /\ phase \in {"report", "engine"} => HasItems(source)
        /\ phase \in {"report", "engine"} \/ outcome = "completed" => Counted(source)
        /\ InEngine => key \in Keys(source) \ {NoKey} /\ Projected(source, Given(source), key)
        /\ key # NoKey /\ Projected(source, Given(source), key)
              => orders = EngineInputs(source, Given(source), key).orders
        /\ ValidatedIsAnswered
        /\ outcome = "blocked" => Blocked(source)
        /\ outcome = "completed" => ReviewsOf(source) \subseteq issues
        /\ SilenceIsSafe

\* A run begins with what the engine will be given of its key.
LEMMA RunBegins == RunInit => RInv
<1> SUFFICES ASSUME RunInit PROVE RInv
    OBVIOUS
<1>1. PICK src \in Source : \E k \in Keys(src) \cup {NoKey} :
              /\ source = src /\ key = k
              /\ phase = "sources" /\ outcome = "none" /\ issues = {}
              /\ Begin(IF k # NoKey /\ Projected(src, Given(src), k)
                       THEN EngineInputs(src, Given(src), k) ELSE NoInputs)
    BY DEF RunInit
<1>2. /\ source \in Source /\ key \in Keys(source) \cup {NoKey}
      /\ phase = "sources" /\ outcome = "none" /\ issues = {}
      /\ Begin(IF key # NoKey /\ Projected(source, Given(source), key)
               THEN EngineInputs(source, Given(source), key) ELSE NoInputs)
    BY <1>1
<1> DEFINE i == IF key # NoKey /\ Projected(source, Given(source), key)
                THEN EngineInputs(source, Given(source), key) ELSE NoInputs
<1>3. InstanceOK(i)
    BY <1>2, InputsFit, NoInputsFit
<1>4. Begin(i)
    BY <1>2
<1>5. key # NoKey /\ Projected(source, Given(source), key)
         => i = EngineInputs(source, Given(source), key)
    OBVIOUS
<1> HIDE DEF i
<1>6. EInv
    BY <1>3, <1>4, BeginHolds
<1>7. stage = "schedule" /\ orders = i.orders
    BY <1>4 DEF Begin
<1> QED
    BY <1>2, <1>5, <1>6, <1>7
       DEF RInv, RunOK, Built, InEngine, ValidatedIsAnswered, SilenceIsSafe

\* A recipe of a bundle that was validated has its items, and every forecast
\* has a recipe.
LEMMA ValidIsKnown ==
    ASSUME NEW src, SourceTyped(src), src.origin # "store", WellFormed(src)
    PROVE  /\ \A f \in Given(src).forecasts :
                 \E l \in Given(src).bom : ActiveBom(l, f.dish, f.day)
           /\ \A l \in Given(src).bom : l.item \in KnownItems(Given(src))
<1>1. Accepts(Bundle(src)) /\ Given(src) = Loaded(Bundle(src))
    BY DEF WellFormed, Given
<1>2. Valid(Given(src))
    BY <1>1, Zenon DEF Accepts
<1>3. ForecastsCommitted(Given(src)) /\ RecipesKnown(Given(src))
    BY <1>2, Zenon DEF Valid
<1>4. \A f \in Given(src).forecasts : \E l \in Given(src).bom : ActiveBom(l, f.dish, f.day)
    BY <1>3, Zenon DEF ForecastsCommitted
<1>5. \A l \in Given(src).bom : l.item \in KnownItems(Given(src))
    BY <1>3, Zenon DEF RecipesKnown
<1> QED
    BY <1>4, <1>5

\* The items that are looked up are those of the master of the upload: what is
\* unknown was dropped from it.
LEMMA UnknownWasDropped ==
    ASSUME NEW src, SourceTyped(src), WellFormed(src),
           NEW k \in DemandKeys(Given(src)), k[2] \notin KnownItems(Given(src))
    PROVE  /\ src.origin = "store"
           /\ \E l \in src.plan.bom : l.item \in KnownItems(src.imported) \ KnownItems(src.master)
<1>1. \E l \in Given(src).bom : k[2] = l.item
    BY DEF DemandKeys, Exploded
<1>2. src.origin = "store"
    BY <1>1, ValidIsKnown
<1>3. ReferencesKnown(src.plan, src.imported)
    BY <1>2, UploadsGive DEF WellFormed
<1>4. \A l \in src.plan.bom : l.item \in KnownItems(src.imported)
    BY <1>3 DEF ReferencesKnown, KnownItems
<1>5. Given(src).bom = src.plan.bom /\ Given(src).items = src.master.items
    BY <1>2, GivenIs
<1> QED
    BY <1>1, <1>2, <1>4, <1>5 DEF KnownItems

\* With recipes and items, a plan leaves nothing out that is not reported.
LEMMA NothingIsLeftOut ==
    ASSUME NEW src, HasRecipes(src), HasItems(src), NEW reported, GapsOf(src) \subseteq reported
    PROVE  PlansAll(Given(src), reported)
<1> DEFINE b == Given(src)
<1> SUFFICES ASSUME NEW f \in b.forecasts, NEW l \in b.bom, ActiveBom(l, f.dish, f.day),
                    l.item \notin KnownItems(b)
             PROVE  <<"missing_inventory_snapshot", <<f.place, l.item>>>> \in reported
    BY DEF PlansAll, HasRecipes
<1> DEFINE k == <<f.place, l.item>>
<1>1. k \in DemandKeys(b) /\ k[2] = l.item
    <2>1. <<f, l>> \in Exploded(b)
        BY DEF Exploded
    <2> QED
        BY <2>1 DEF DemandKeys
<1>2. k \in UncountedOf(src)
    BY <1>1 DEF HasItems
<1> QED
    BY <1>2 DEF GapsOf

-----------------------------------------------------------------------------
(* A report that is silent *)

\* What it means that schedule_recommendations reports nothing of the key.
LEMMA NothingRecommended ==
    ASSUME NEW b, b.policies # {}, b.rules # {}, key # NoKey, key \notin Uncounted(b),
           \A i \in RecommendationIssues(b) : i[2] # key
    PROVE  /\ MatchingRules(policy) # {} /\ Uncovered = {}
           /\ \A l \in lines : ~Constrained(l)
<1> DEFINE Codes == {"missing_planning_policy", "missing_delivery_rule",
                     "order_constrained", "horizon_coverage_incomplete",
                     "missed_order_date", "uncovered_fresh_demand"}
           ruled == MatchingRules(policy) # {}
           reported(code) ==
               CASE code = "missing_planning_policy" -> ~Recommends(b, key)
                 [] code = "missing_delivery_rule" -> key \notin Uncounted(b) /\ Recommends(b, key) /\ ~ruled
                 [] code = "order_constrained" -> \E l \in lines : Constrained(l)
                 [] code = "horizon_coverage_incomplete" ->
                       ~policy.fresh /\ \E l \in lines : End < l.cycle.end
                 [] code = "missed_order_date" ->
                       policy.fresh /\ \E l \in lines : l.cycle.order < 0 /\ l.proposed > 0
                 [] code = "uncovered_fresh_demand" -> ruled /\ Uncovered # {}
<1>1. RecommendationIssues(b) = {<<code, key>> : code \in {c \in Codes : reported(c)}}
    BY DEF RecommendationIssues
<1>2. \A c \in Codes : ~reported(c)
    <2>1. ASSUME NEW c \in Codes, reported(c) PROVE FALSE
        <3> HIDE DEF reported, Codes
        <3>1. <<c, key>> \in RecommendationIssues(b)
            BY <1>1, <2>1
        <3> QED
            BY <3>1
    <2> HIDE DEF reported, Codes
    <2> QED
        BY <2>1
<1>3. Recommends(b, key)
    <2>1. ~reported("missing_planning_policy")
        <3> HIDE DEF reported
        <3> QED
            BY <1>2
    <2> QED
        BY <2>1
<1>4. ruled
    <2>1. ~reported("missing_delivery_rule")
        <3> HIDE DEF reported
        <3> QED
            BY <1>2
    <2> QED
        BY <1>3, <2>1
<1>5. \A l \in lines : ~Constrained(l)
    <2>1. ~reported("order_constrained")
        <3> HIDE DEF reported
        <3> QED
            BY <1>2
    <2> QED
        BY <2>1
<1>6. Uncovered = {}
    <2>1. ~reported("uncovered_fresh_demand")
        <3> HIDE DEF reported
        <3> QED
            BY <1>2
    <2> QED
        BY <1>4, <2>1
<1> QED
    BY <1>4, <1>5, <1>6

\* And that _netting_issues does not.
LEMMA NothingNetted ==
    ASSUME stage = "done", \A i \in NettingIssues : i[2] # key
    PROVE  ActionableRisk(RiskHorizon) # "at_risk"
<1> DEFINE last == Max({d \in Day : demand[d] > 0} \cup {-1})
           arrivals == {d \in Day : receipts[d] > 0}
           Codes == {"overdue_open_po", "open_po_after_horizon", "open_po_after_final_demand",
                     "unavoidable_pre_arrival_stockout", "projected_stockout"}
           reported(code) ==
               CASE code = "overdue_open_po" -> orders[Overdue] > 0
                 [] code = "open_po_after_horizon" -> \E d \in Day : d > End /\ orders[d] > 0
                 [] code = "open_po_after_final_demand" ->
                       last # -1 /\ \E d \in Day : d > last /\ orders[d] > 0
                 [] code = "unavoidable_pre_arrival_stockout" ->
                       arrivals # {} /\ uncovered["projected"] < Min(arrivals)
                 [] code = "projected_stockout" -> ActionableRisk(RiskHorizon) = "at_risk"
<1>1. NettingIssues = {<<code, key>> : code \in {c \in Codes : reported(c)}}
    BY DEF NettingIssues
<1>2. ASSUME reported("projected_stockout") PROVE FALSE
    <2>1. "projected_stockout" \in Codes
        OBVIOUS
    <2> HIDE DEF reported, Codes
    <2>2. <<"projected_stockout", key>> \in NettingIssues
        BY <1>1, <1>2, <2>1
    <2> QED
        BY <2>2
<1> QED
    BY <1>2

\* A finished plan of which nothing is reported keeps the item in stock.
LEMMA SilenceHolds ==
    ASSUME EInv, stage = "done", NEW b, b.policies # {}, b.rules # {},
           key # NoKey, key \notin Uncounted(b),
           \A i \in RecommendationIssues(b) \cup NettingIssues : i[2] # key
    PROVE  uncovered["projected"] > IF policy.fresh THEN End ELSE Min({RiskHorizon, End})
<1> USE DayAssumption
<1> DEFINE u == uncovered["projected"]
<1>1. u \in 0..NotSeen /\ End \in Nat /\ NotSeen = End + 1
    BY DEF EInv, PInv, ProjectionOK, Scenario, NotSeen
<1>2. /\ Uncovered = {} /\ \A l \in lines : ~Constrained(l)
      /\ ActionableRisk(RiskHorizon) # "at_risk"
    BY NothingRecommended, NothingNetted
<1>3. CASE policy.fresh
    <2>1. ASSUME u <= End PROVE FALSE
        <3>1. PICK k \in lines : u <= k.cycle.end
            BY <1>1, <1>2, <1>3, <2>1, ShortageIsCovered
        <3>2. k.cycle.end <= RiskHorizon /\ CycleShape(k.cycle)
            BY HorizonIsLast, CyclesHaveShape DEF EInv
        <3>3. RiskHorizon \in Int
            <4>1. \E l \in lines : RiskHorizon = l.cycle.end /\ CycleShape(l.cycle)
                BY <3>1, HorizonIsLast, CyclesHaveShape DEF EInv
            <4> QED
                BY <4>1 DEF CycleShape, Day
        <3>4. k.cycle.end \in Nat
            BY <3>2 DEF CycleShape, Day
        <3>5. u <= RiskHorizon /\ RiskHorizon # NoHorizon
            BY <1>1, <3>1, <3>2, <3>3, <3>4 DEF NoHorizon
        <3> QED
            BY <1>2, <2>1, <3>5 DEF ActionableRisk
    <2> QED
        BY <1>1, <1>3, <2>1
<1>4. CASE ~policy.fresh
    <2> DEFINE both == {RiskHorizon, End}
    <2>1. RiskHorizon \in Int
        <3>1. CASE lines = {}
            BY <3>1 DEF RiskHorizon
        <3>2. CASE lines # {}
            <4>1. PICK l \in lines : RiskHorizon = l.cycle.end
                BY <3>2, HorizonIsLast
            <4>2. CycleShape(l.cycle)
                BY CyclesHaveShape DEF EInv
            <4> QED
                BY <4>1, <4>2 DEF CycleShape, Day
        <3> QED
            BY <3>1, <3>2
    <2>2. both \in SUBSET Int /\ IsFiniteSet(both) /\ both # {}
        <3>1. IsFiniteSet(both)
            BY Finite
        <3> QED
            BY <1>1, <2>1, <3>1
    <2>3. Min(both) \in Int /\ Min(both) <= RiskHorizon /\ Min(both) <= End
        <3>1. RiskHorizon \in both /\ End \in both
            OBVIOUS
        <3> HIDE DEF both
        <3> QED
            BY <2>2, <3>1, Extremes
    <2>4. RiskHorizon = NoHorizon \/ ~(u <= RiskHorizon /\ u <= End)
        BY <1>2 DEF ActionableRisk
    <2>5. u > Min(both)
        <3> HIDE DEF both
        <3> QED
            BY <1>1, <2>1, <2>3, <2>4 DEF NoHorizon
    <2> QED
        BY <1>4, <2>5
<1> QED
    BY <1>3, <1>4

-----------------------------------------------------------------------------
(* Steps *)

\* What a step that leaves the engine alone keeps.
LEMMA EngineWaits ==
    ASSUME RInv, UNCHANGED <<source, key, vars>>
    PROVE  /\ EInv' /\ source' \in Source /\ key' \in Keys(source') \cup {NoKey}
           /\ phase' # "engine" => (InEngine' => /\ key' \in Keys(source') \ {NoKey}
                                                 /\ Projected(source', Given(source'), key'))
           /\ key' # NoKey /\ Projected(source', Given(source'), key')
                 => orders' = EngineInputs(source', Given(source'), key').orders
<1>1. EInv'
    BY NothingHolds DEF RInv
<1>2. UNCHANGED <<source, key, stage, orders>>
    BY DEF vars, inputs
<1> QED
    BY <1>1, <1>2 DEF RInv, InEngine

\* A step before the bundle is gated.
LEMMA ReadHolds == ASSUME RInv, ReadSources PROVE RInv'
<1>1. phase = "sources" /\ outcome = "none" /\ UNCHANGED <<source, key, issues, vars>>
    BY DEF ReadSources, Continue, Raise, RInv, RunOK
<1>2. CASE SourcesRead(source) /\ phase' = "bundle" /\ outcome' = "none"
    BY <1>1, <1>2, EngineWaits DEF RInv, RunOK, Built, ValidatedIsAnswered, SilenceIsSafe
<1>3. CASE phase' = "answered" /\ outcome' = "refused"
    BY <1>1, <1>3, EngineWaits DEF RInv, RunOK, Built, ValidatedIsAnswered, SilenceIsSafe
<1> QED
    BY <1>1, <1>2, <1>3 DEF ReadSources, Continue, Raise

\* A bundle that is refused ends the run, one that is accepted is well formed.
LEMMA LoadHolds == ASSUME RInv, LoadBundle \/ Assemble PROVE RInv'
<1>1. /\ phase = "bundle" /\ outcome = "none" /\ SourcesRead(source)
      /\ UNCHANGED <<source, key, issues, vars>>
    BY DEF LoadBundle, Assemble, Continue, Raise, RInv, RunOK
<1>2. \/ WellFormed(source) /\ phase' = "gate" /\ outcome' = "none"
      \/ phase' = "answered" /\ outcome' = "refused"
    BY <1>1 DEF LoadBundle, Assemble, Continue, Raise, WellFormed
<1>3. CASE WellFormed(source) /\ phase' = "gate" /\ outcome' = "none"
    BY <1>1, <1>3, EngineWaits DEF RInv, RunOK, Built, ValidatedIsAnswered, SilenceIsSafe
<1>4. CASE phase' = "answered" /\ outcome' = "refused"
    BY <1>1, <1>4, EngineWaits DEF RInv, RunOK, Built, ValidatedIsAnswered, SilenceIsSafe
<1> QED
    BY <1>2, <1>3, <1>4

\* A strict run that the gate answers has a dataset with an unknown source.
LEMMA GateHolds == ASSUME RInv, Gate PROVE RInv'
<1> DEFINE b == Given(source)
           unknown == {<<IF Strict THEN "unknown_critical_source" ELSE "placeholder_source", <<"dataset", d>>>> :
                          d \in UnknownSources(b)}
<1>1. phase = "gate" /\ outcome = "none" /\ WellFormed(source) /\ UNCHANGED <<source, key, vars>>
    BY DEF Gate, Continue, Answer, Raise, RInv, RunOK, Built
<1>2. \/ Raise("past_forecast")
      \/ Strict /\ unknown # {} /\ Answer("blocked", unknown)
      \/ Continue("explode", unknown)
    BY DEF Gate
<1>3. unknown # {} => UnknownSources(b) # {}
    OBVIOUS
<1> HIDE DEF unknown
<1>4. CASE Raise("past_forecast")
    <2>1. phase' = "answered" /\ outcome' = "past_forecast"
        BY <1>4 DEF Raise
    <2> QED
        BY <1>1, <2>1, EngineWaits DEF RInv, RunOK, Built, ValidatedIsAnswered, SilenceIsSafe
<1>5. CASE Strict /\ unknown # {} /\ Answer("blocked", unknown)
    <2>1. phase' = "answered" /\ outcome' = "blocked" /\ issues' = issues \cup unknown \cup ReviewsOf(source)
        BY <1>5, OfTheSource DEF Answer
    <2>2. Blocked(source)'
        BY <1>1, <1>3, <1>5, <2>1, OfTheSource DEF Blocked
    <2>3. source.mode \in {"shadow", "production"}
        BY <1>5 DEF Strict
    <2> QED
        BY <1>1, <1>5, <2>1, <2>2, <2>3, EngineWaits DEF RInv, RunOK, Built, ValidatedIsAnswered, SilenceIsSafe
<1>6. CASE Continue("explode", unknown)
    <2>1. phase' = "explode" /\ outcome' = "none"
        BY <1>1, <1>6 DEF Continue
    <2> QED
        BY <1>1, <2>1, EngineWaits DEF RInv, RunOK, Built, ValidatedIsAnswered, SilenceIsSafe
<1> QED
    BY <1>2, <1>4, <1>5, <1>6

\* Only a run from the store can miss a recipe: the others were validated.
LEMMA ExplodeHolds == ASSUME RInv, Explode PROVE RInv'
<1>1. phase = "explode" /\ outcome = "none" /\ WellFormed(source) /\ UNCHANGED <<source, key, issues, vars>>
    BY DEF Explode, Continue, Raise, RInv, RunOK, Built
<1>2. CASE phase' = "select" /\ outcome' = "none" /\ HasRecipes(source)
    <2>1. HasRecipes(source)'
        BY <1>1, <1>2 DEF HasRecipes
    <2> QED
        BY <1>1, <1>2, <2>1, EngineWaits DEF RInv, RunOK, Built, ValidatedIsAnswered, SilenceIsSafe
<1>3. CASE phase' = "answered" /\ outcome' = "missing_bom" /\ source.origin = "store"
    <2>1. ValidatedIsAnswered'
        BY <1>1, <1>3 DEF ValidatedIsAnswered
    <2> QED
        BY <1>1, <1>3, <2>1, EngineWaits DEF RInv, RunOK, Built, SilenceIsSafe
<1>4. source.origin # "store" => \A f \in Given(source).forecasts :
                                    \E l \in Given(source).bom : ActiveBom(l, f.dish, f.day)
    BY <1>1, ValidIsKnown, SourceAssumption DEF RInv
<1> QED
    BY <1>1, <1>2, <1>3, <1>4 DEF Explode, Continue, Raise, HasRecipes

\* Behind the selection of counts every required key is counted, or the answer says so.
LEMMA SelectHolds == ASSUME RInv, Select PROVE RInv'
<1> DEFINE b == Given(source)
<1>1. /\ phase = "select" /\ outcome = "none" /\ WellFormed(source)
      /\ UNCHANGED <<source, key, vars>> /\ source \in Source /\ SourceTyped(source)
    BY SourceAssumption DEF Select, Continue, Answer, Raise, RInv, RunOK, Built
<1>2. \/ Strict /\ CountIssues(b) # {} /\ Answer("blocked", CountIssues(b))
      \/ LooksUpUnknown(b) /\ Raise("key_error")
      \/ /\ ~(Strict /\ CountIssues(b) # {}) /\ ~LooksUpUnknown(b)
         /\ \/ Continue("report", CountIssues(b))
            \/ key \notin Uncounted(b) \cup {NoKey} /\ Continue("engine", CountIssues(b))
    BY DEF Select
<1>3. CASE Strict /\ CountIssues(b) # {} /\ Answer("blocked", CountIssues(b))
    <2>1. /\ phase' = "answered" /\ outcome' = "blocked"
          /\ issues' = issues \cup GapsOf(source) \cup ReviewsOf(source)
          /\ GapsOf(source) # {}
        BY <1>3, OfTheSource DEF Answer
    <2>2. Blocked(source)'
        BY <1>1, <1>3, <2>1, OfTheSource DEF Blocked
    <2>3. source.mode \in {"shadow", "production"} /\ issues' # {}
        BY <1>3, <2>1 DEF Strict
    <2> QED
        BY <1>1, <2>1, <2>2, <2>3, EngineWaits DEF RInv, RunOK, Built, ValidatedIsAnswered, SilenceIsSafe
<1>4. CASE LooksUpUnknown(b) /\ Raise("key_error")
    <2>1. phase' = "answered" /\ outcome' = "key_error"
        BY <1>4 DEF Raise
    <2>2. \E k \in DemandKeys(b) : k[2] \notin KnownItems(b)
        BY <1>4 DEF LooksUpUnknown
    <2>3. /\ source.origin = "store"
          /\ \E l \in source.plan.bom :
                l.item \in KnownItems(source.imported) \ KnownItems(source.master)
        BY <1>1, <2>2, UnknownWasDropped
    <2>4. ValidatedIsAnswered'
        BY <1>1, <2>1, <2>3 DEF ValidatedIsAnswered
    <2> QED
        BY <1>1, <2>1, <2>4, EngineWaits DEF RInv, RunOK, Built, SilenceIsSafe
<1>5. ASSUME ~(Strict /\ CountIssues(b) # {}), issues' = issues \cup CountIssues(b)
      PROVE  Counted(source)'
    BY <1>1, <1>5, OfTheSource DEF Counted
<1>6. ASSUME ~LooksUpUnknown(b) PROVE HasRecipes(source)' /\ HasItems(source)'
    <2>1. HasRecipes(source)
        BY <1>1 DEF RInv
    <2>2. HasItems(source)
        BY <1>6, OfTheSource DEF HasItems, LooksUpUnknown
    <2> QED
        BY <1>1, <2>1, <2>2 DEF HasRecipes, HasItems, UncountedOf
<1>7. CASE /\ ~(Strict /\ CountIssues(b) # {}) /\ ~LooksUpUnknown(b)
           /\ Continue("report", CountIssues(b))
    <2>1. phase' = "report" /\ outcome' = "none" /\ Counted(source)'
        BY <1>1, <1>5, <1>7 DEF Continue
    <2> QED
        BY <1>1, <1>6, <1>7, <2>1, EngineWaits DEF RInv, RunOK, Built, ValidatedIsAnswered, SilenceIsSafe
<1>8. CASE /\ ~(Strict /\ CountIssues(b) # {}) /\ ~LooksUpUnknown(b)
           /\ key \notin Uncounted(b) \cup {NoKey} /\ Continue("engine", CountIssues(b))
    <2>1. phase' = "engine" /\ outcome' = "none" /\ Counted(source)'
        BY <1>1, <1>5, <1>8 DEF Continue
    <2>2. key \in Keys(source) \ {NoKey}
        BY <1>8 DEF RInv
    <2>3. key \in DemandKeys(b)
        BY <1>1, <2>2, EndIsLast
    <2>4. Projected(source, b, key)
        BY <1>8, <2>3 DEF LooksUpUnknown, Uncounted, Projected
    <2>5. /\ key' \in Keys(source') \ {NoKey} /\ Projected(source', Given(source'), key')
        BY <1>1, <2>2, <2>4
    <2> QED
        BY <1>1, <1>6, <1>8, <2>1, <2>5, EngineWaits DEF RInv, RunOK, Built, ValidatedIsAnswered, SilenceIsSafe
<1> QED
    BY <1>2, <1>3, <1>4, <1>7, <1>8

\* The engine's own steps: the run waits, and the orders it was given stay.
LEMMA EngineHolds == ASSUME RInv, Engine PROVE RInv'
<1>1. /\ phase = "engine" /\ outcome = "none" /\ UNCHANGED <<source, key, phase, outcome, issues>>
      /\ Schedule \/ Project \/ Walk
    BY DEF Engine, runVars, RInv, RunOK
<1>2. EInv'
    BY <1>1, StepHolds DEF RInv, Next
<1>3. orders' = orders
    BY <1>1 DEF Schedule, Project, Walk, inputs
<1> QED
    BY <1>1, <1>2, <1>3
       DEF RInv, RunOK, Built, Counted, HasRecipes, HasItems, UncountedOf, InEngine,
           ValidatedIsAnswered, SilenceIsSafe

\* The answer carries the reviews of the source and the issues of the plan.
LEMMA ReportHolds == ASSUME RInv, Report PROVE RInv'
<1> DEFINE b == Given(source)
           new == RecommendationIssues(b) \cup NettingIssues
<1>1. /\ phase \in {"report", "engine"} /\ UNCHANGED <<source, key, vars>>
      /\ phase' = "answered" /\ outcome' = "completed"
      /\ issues' = issues \cup new \cup ReviewsOf(source)
    BY OfTheSource DEF Report, Answer
<1>2. WellFormed(source) /\ Counted(source) /\ outcome = "none"
    BY <1>1 DEF RInv, RunOK, Built
<1>3. Counted(source)' /\ ReviewsOf(source)' \subseteq issues'
    BY <1>1, <1>2 DEF Counted
<1>4. UNCHANGED <<stage, uncovered, policy, lines>>
    BY <1>1 DEF vars, projectionVars, recommendationVars
<1>5. SilenceIsSafe'
    <2> SUFFICES ASSUME stage = "done", b.policies # {}, b.rules # {},
                        key \notin {i[2] : i \in issues'}
                 PROVE  uncovered["projected"] > IF policy.fresh THEN End ELSE Min({RiskHorizon, End})
        BY <1>1, <1>4 DEF SilenceIsSafe, RiskHorizon
    <2>1. key # NoKey /\ Counts(source, b, key) # {}
        BY DEF RInv, InEngine, Projected
    <2>2. key \notin Uncounted(b)
        BY <2>1 DEF Uncounted
    <2>3. \A i \in new : i[2] # key
        <3>1. new \subseteq issues'
            BY <1>1
        <3> HIDE DEF new
        <3> QED
            BY <3>1
    <2> QED
        BY <2>1, <2>2, <2>3, SilenceHolds DEF RInv
<1>6. PlansAll(b, issues')
    <2>1. HasRecipes(source) /\ HasItems(source) /\ GapsOf(source) \subseteq issues'
        BY <1>1, <1>2 DEF RInv, Counted
    <2> QED
        BY <2>1, NothingIsLeftOut
<1>7. ValidatedIsAnswered'
    BY <1>1, <1>6 DEF ValidatedIsAnswered
<1> QED
    BY <1>1, <1>2, <1>3, <1>5, <1>7, EngineWaits DEF RInv, RunOK, Built

\* A plan whose projection fails answers no promise of a completed one.
LEMMA FailHolds == ASSUME RInv, Fail PROVE RInv'
<1>1. /\ phase = "engine" /\ phase' = "answered" /\ outcome' = "out_of_scope"
      /\ UNCHANGED <<source, key, issues, vars>>
    BY DEF Fail, Raise
<1>2. WellFormed(source)
    BY <1>1 DEF RInv, Built
<1> QED
    BY <1>1, <1>2, EngineWaits DEF RInv, RunOK, Built, ValidatedIsAnswered, SilenceIsSafe

\* A run that is answered, and a step that changes nothing.
LEMMA AnsweredHolds == ASSUME RInv, UNCHANGED <<runVars, vars>> PROVE RInv'
<1>1. /\ UNCHANGED <<source, key, phase, outcome, issues>> /\ UNCHANGED vars
      /\ UNCHANGED <<stage, uncovered, policy, lines, orders>>
    BY DEF runVars, vars, inputs, projectionVars, recommendationVars
<1>2. EInv'
    BY <1>1, NothingHolds DEF RInv
<1>3. SilenceIsSafe'
    BY <1>1 DEF RInv, SilenceIsSafe, RiskHorizon
<1> QED
    BY <1>1, <1>2, <1>3
       DEF RInv, RunOK, Built, Counted, HasRecipes, HasItems, UncountedOf, InEngine, Blocked,
           ValidatedIsAnswered

\* The invariant holds in every state of every run.
THEOREM RunInductive == RunSpec => []RInv
<1>1. RInv /\ [RunNext]_<<runVars, vars>> => RInv'
    BY ReadHolds, LoadHolds, GateHolds, ExplodeHolds, SelectHolds, EngineHolds, ReportHolds,
       FailHolds, AnsweredHolds DEF RunNext, Answered
<1> QED
    BY <1>1, RunBegins, PTL DEF RunSpec

-----------------------------------------------------------------------------
(* What holds of every run *)

\* A blocked run is a strict one, and says why.
THEOREM RunsAnswer == RunSpec => []RunOK
BY RunInductive, PTL DEF RInv

\* What the loader accepts never runs into a missing recipe or an unknown item,
\* what the store holds only into an item that an activation has dropped, and no
\* completed plan leaves a forecast or an item out and says nothing of it.
THEOREM ValidatedAnswered == RunSpec => []ValidatedIsAnswered
BY RunInductive, PTL DEF RInv

\* A plan that reports nothing of an item keeps it in stock.
THEOREM SilentPlansAreSafe == RunSpec => []SilenceIsSafe
BY RunInductive, PTL DEF RInv

\* What the engine promises of any instance, it promises of the items of a run.
THEOREM RunsPlan ==
    RunSpec => [](/\ TypeOK /\ CoverageNested /\ LateReceiptsDoNotCount
                  /\ ProposalsAreSafe /\ NothingExpires /\ PlanWorks /\ NoOrderWithoutNeed)
<1>1. RInv => /\ TypeOK /\ CoverageNested /\ LateReceiptsDoNotCount
              /\ ProposalsAreSafe /\ NothingExpires /\ PlanWorks /\ NoOrderWithoutNeed
    BY TypesFollow, NestedFollows, LateFollows, SafetyFollows, ExpiryFollows, WorkFollows, NeedFollows
       DEF RInv, EInv
<1> QED
    BY <1>1, RunInductive, PTL

\* A run projects its item as any inputs and receipts are projected.
THEOREM RunsProject == RunSpec => ImplementsProjection
<1>1. RunInit => ProjectionInit
    <2> SUFFICES ASSUME RunInit PROVE ProjectionInit
        OBVIOUS
    <2>1. PICK src \in Source : \E k \in Keys(src) \cup {NoKey} :
              Begin(IF k # NoKey /\ Projected(src, Given(src), k)
                    THEN EngineInputs(src, Given(src), k) ELSE NoInputs)
        BY DEF RunInit
    <2>2. PICK k \in Keys(src) \cup {NoKey} :
              Begin(IF k # NoKey /\ Projected(src, Given(src), k)
                    THEN EngineInputs(src, Given(src), k) ELSE NoInputs)
        BY <2>1
    <2> DEFINE i == IF k # NoKey /\ Projected(src, Given(src), k)
                    THEN EngineInputs(src, Given(src), k) ELSE NoInputs
    <2>3. InstanceOK(i)
        BY InputsFit, NoInputsFit
    <2>4. Begin(i)
        BY <2>2
    <2> HIDE DEF i
    <2> QED
        BY <2>3, <2>4, BeginProjects
<1>2. RInv /\ [RunNext]_<<runVars, vars>> => [ProjectionNext]_<<inputs, projectionVars>>
    <2> SUFFICES ASSUME RInv, [RunNext]_<<runVars, vars>>
                 PROVE  [ProjectionNext]_<<inputs, projectionVars>>
        OBVIOUS
    <2>1. CASE Engine
        <3>1. [Next]_vars
            BY <2>1 DEF Engine, Next
        <3> QED
            BY <3>1, StepProjects DEF RInv
    <2>2. CASE UNCHANGED vars
        BY <2>2 DEF vars
    <2>3. Engine \/ UNCHANGED vars
        BY DEF RunNext, ReadSources, LoadBundle, Assemble, Gate, Explode, Select, Report, Fail,
               Answered, Continue, Answer, Raise
    <2> QED
        BY <2>1, <2>2, <2>3
<1> QED
    BY <1>1, <1>2, RunInductive, PTL DEF RunSpec, ImplementsProjection, ProjectionSpec

\* The counts of a run that was made of workbooks are of required items, which
\* are in the export unless zero is assumed.
LEMMA CountsAreFound ==
    ASSUME NEW src, Imported(src), NEW k,
           NEW s \in Counts(src, Given(src), k)
    PROVE  /\ k[2] \in RequiredThen(src)
           /\ ~StrictSource(src) \/ CountedIn(src, k[2])
<1> DEFINE m == MasterOfImport(src)
           req == RequiredThen(src)
<1>1. src.origin \in {"template", "store"}
    BY DEF Imported, SourceTyped
<1>2. s \in StockSnapshots(src, m, req) /\ s.item = k[2]
    <2>1. s \in Given(src).snapshots /\ <<s.place, s.item>> = k
        BY DEF Counts
    <2> QED
        BY <1>1, <2>1, GivenIs
<1>3. s.item \in req
    BY <1>2, StockGives
<1>4. ASSUME StrictSource(src) PROVE CountedIn(src, k[2])
    <2>1. ~AssumesZero(src.origin, src.mode)
        BY <1>4 DEF StrictSource, AssumesZero
    <2>2. \E i \in Found(src, m, req) : s = CountOf(src, m, i)
        BY <1>2, <2>1, SnapshotsAre
    <2>3. k[2] \in Found(src, m, req)
        BY <1>2, <2>2 DEF CountOf
    <2>4. k[2] \in req /\ StockRows(src.stock, m, k[2]) # {}
        BY <2>3 DEF Found, StockReviews
    <2>5. k[2] \in PlannedItems(m)
        BY <2>4 DEF Imported, StockReads
    <2> QED
        BY <2>4, <2>5 DEF CountedIn
<1> QED
    BY <1>2, <1>3, <1>4

\* Shadow and production fail closed: a strict plan rests, for all it demands,
\* on counts of the planning day that somebody made.
THEOREM StrictPlansAreCounted == RunSpec => []StrictRestsOnCounts
<1>1. ASSUME RInv, outcome = "completed", Strict, NEW k \in DemandKeys(Given(source))
      PROVE  /\ \E s \in Counts(source, Given(source), k) : LocalDay(s.at) = 0
             /\ source.origin # "files" => CountedIn(source, k[2])
    <2> DEFINE b == Given(source)
               s == Latest(source, b, k)
    <2>1. /\ source \in Source /\ SourceTyped(source) /\ WellFormed(source)
          /\ StrictSource(source) /\ GapsOf(source) = {}
        BY <1>1, SourceAssumption, OfTheSource DEF RInv, Built, Counted
    <2>2. RowsOK(b)
        BY <2>1, GivenFits
    <2>3. Counts(source, b, k) # {} /\ ~(SeenDay(source.origin, s.at) < 0)
        BY <1>1, <2>1 DEF GapsOf, UncountedOf, StaleOf
    <2>4. s \in Counts(source, b, k)
        BY <2>2, <2>3, LatestIsCount
    <2> HIDE DEF b, s
    <2>5. /\ s.at \in Int /\ source.asOf \in Int /\ s.at <= source.asOf
          /\ source.asOf \div 2 = 0
        BY <2>1, <2>2, <2>4 DEF Counts, RowsOK, SourceTyped, LocalDay
    <2>6. LocalDay(s.at) = 0
        <3>1. PICK t \in Int, n \in Int : t = s.at /\ n = source.asOf
            BY <2>5
        <3>2. t <= 1
            BY <2>5, <3>1
        <3>3. t >= 0
            BY <2>3, <2>5, <3>1, OffsetAssumption DEF SeenDay, LocalDay
        <3> QED
            BY <3>1, <3>2, <3>3 DEF LocalDay
    <2>7. source.origin # "files" => CountedIn(source, k[2])
        BY <2>1, <2>4, UploadsGive, CountsAreFound DEF WellFormed, b
    <2> QED
        BY <2>4, <2>6, <2>7 DEF b
<1>2. RInv => StrictRestsOnCounts
    BY <1>1 DEF StrictRestsOnCounts
<1> QED
    BY <1>2, RunInductive, PTL

\* A report was made of a bundle, with what its normalisation reported.
LEMMA ReportsAreMade ==
    ASSUME RInv, HasReport, source.origin # "files"
    PROVE  /\ SourceTyped(source) /\ WellFormed(source) /\ Imported(source)
           /\ source.origin \in {"template", "store"}
           /\ ReviewsOf(source) \subseteq issues /\ GapsOf(source) \subseteq issues
<1>1. SourceTyped(source) /\ WellFormed(source)
    BY SourceAssumption DEF RInv, Built, HasReport
<1>2. Imported(source) /\ source.origin \in {"template", "store"}
    BY <1>1, UploadsGive DEF WellFormed
<1>3. UnknownSources(Given(source)) = {}
    <2>1. Given(source).status = Declares
        BY <1>2, GivenIs
    <2> QED
        BY <2>1 DEF UnknownSources, Declares, Dataset, UnknownProvenance
<1>4. ReviewsOf(source) \subseteq issues /\ GapsOf(source) \subseteq issues
    BY <1>3 DEF RInv, HasReport, Counted, Blocked
<1> QED
    BY <1>1, <1>2, <1>4

\* A quantity that nobody counted is never used, and an item never left out,
\* without an issue about the item.
THEOREM GapsAreNeverSilent == RunSpec => []GapsAreReported
<1>1. ASSUME RInv, HasReport, source.origin # "files", NEW k \in DemandKeys(Given(source)),
             ~CountedIn(source, k[2])
      PROVE  \E i \in issues : \/ i = <<"missing_inventory_snapshot", k>>
                               \/ i = <<"stock_mapping_unresolved", k>>
    <2> DEFINE m == MasterOfImport(source)
               req == RequiredThen(source)
    <2>1. /\ Imported(source) /\ source.origin \in {"template", "store"}
          /\ ReviewsOf(source) \subseteq issues /\ GapsOf(source) \subseteq issues
        BY <1>1, ReportsAreMade
    <2>2. k = <<source.here, k[2]>>
        BY <2>1, GivenIs DEF DemandKeys, Exploded, ForecastsAt
    <2>3. CASE k[2] \in req
        <3>1. StockRows(source.stock, m, k[2]) = {}
            BY <1>1, <2>1, <2>3 DEF CountedIn, Imported, StockReads
        <3>2. k[2] \in StockReviews(source.stock, m, req)
            BY <2>3, <3>1 DEF StockReviews
        <3>3. <<"stock_mapping_unresolved", <<source.here, k[2]>>>> \in ReviewsOf(source)
            BY <1>1, <3>2 DEF ReviewsOf, MappingIssues
        <3> QED
            BY <2>1, <2>2, <3>3
    <2>4. CASE k[2] \notin req
        <3>1. Counts(source, Given(source), k) = {}
            BY <2>1, <2>4, CountsAreFound
        <3>2. <<"missing_inventory_snapshot", k>> \in GapsOf(source)
            BY <1>1, <3>1 DEF GapsOf, UncountedOf
        <3> QED
            BY <2>1, <3>2
    <2> QED
        BY <2>3, <2>4
<1>2. RInv => GapsAreReported
    BY <1>1 DEF GapsAreReported
<1> QED
    BY <1>2, RunInductive, PTL

\* Every article of a document that was open when it was read is either an
\* order of the plan or reported by its id.
THEOREM OrdersAreNeverLost == RunSpec => []NoOrderIsLost
<1>1. ASSUME RInv, HasReport, source.origin # "files", NEW l \in LinesOf(source.docs),
             l.ordered <= source.poDay, l.due = Undated \/ l.due > source.poDay
      PROVE  \/ <<"po_mapping_unresolved", <<"line", l.id>>>> \in issues
             \/ \E o \in Given(source).pos : o.id = l.id /\ o.open
    <2> DEFINE m == MasterOfImport(source)
    <2>1. /\ Imported(source) /\ source.origin \in {"template", "store"}
          /\ ReviewsOf(source) \subseteq issues
        BY <1>1, ReportsAreMade
    <2>2. l \in SeenLines(source) /\ DerivedStatus(source, l) \in {"open", "undated"}
        BY <1>1 DEF SeenLines, DerivedStatus
    <2>3. CASE l \in OrderReviews(source, m)
        <3>1. <<"po_mapping_unresolved", <<"line", l.id>>>> \in ReviewsOf(source)
            BY <1>1, <2>3 DEF ReviewsOf, MappingIssues
        <3> QED
            BY <2>1, <3>1
    <2>4. CASE l \notin OrderReviews(source, m)
        <3>1. l \in Expected(source, m)
            BY <2>2, <2>4 DEF OrderReviews, Expected
        <3>2. OrderOf(source, m, l) \in Given(source).pos
            BY <2>1, <3>1, GivenIs, OrdersAre
        <3>3. OrderOf(source, m, l).id = l.id /\ OrderOf(source, m, l).open
            BY <1>1, <2>1, <3>1, OrderIs
        <3> QED
            BY <3>2, <3>3
    <2> QED
        BY <2>3, <2>4
<1>2. RInv => NoOrderIsLost
    BY <1>1 DEF NoOrderIsLost
<1> QED
    BY <1>2, RunInductive, PTL

\* The file helper and the normaliser of the plans read the same lines as open,
\* undated and closed.
THEOREM ImportersReadAlike == RunSpec => []ImportersAgree
<1>1. ASSUME RInv, source.origin # "files"
      PROVE  LET files == HelperFiles(source.docs, source.poDay)
                 seen(status) == {l \in SeenLines(source) : DerivedStatus(source, l) = status}
             IN /\ files.open = seen("open") /\ files.undated = seen("undated")
                /\ files.closed = seen("closed")
    <2> DEFINE files == HelperFiles(source.docs, source.poDay)
               L == LinesOf(source.docs)
               at(l) == HelperStatus(l, source.poDay)
               seen(status) == {l \in SeenLines(source) : DerivedStatus(source, l) = status}
    <2>1. source.poDay \in Int /\ \A l \in L : l.ordered \in Int /\ l.due \in Int
        BY <1>1, SourceAssumption, LinesHaveDays DEF RInv, SourceTyped
    <2>2. /\ files.open = {l \in L : at(l) = "open" /\ l.due # Undated}
          /\ files.undated = {l \in L : at(l) = "open" /\ l.due = Undated}
          /\ files.closed = {l \in L : at(l) = "closed"}
        BY DEF HelperFiles
    <2>3. \A status : seen(status) = {l \in L : /\ l.ordered <= source.poDay
                                               /\ DerivedStatus(source, l) = status}
        BY DEF SeenLines
    <2> HIDE DEF files, L, seen
    <2>4. \A l \in L : /\ at(l) = "open" /\ l.due # Undated
                            <=> l.ordered <= source.poDay /\ DerivedStatus(source, l) = "open"
                       /\ at(l) = "open" /\ l.due = Undated
                            <=> l.ordered <= source.poDay /\ DerivedStatus(source, l) = "undated"
                       /\ at(l) = "closed"
                            <=> l.ordered <= source.poDay /\ DerivedStatus(source, l) = "closed"
        BY <2>1 DEF HelperStatus, DerivedStatus
    <2>5. /\ files.open = seen("open") /\ files.undated = seen("undated")
          /\ files.closed = seen("closed")
        BY <2>2, <2>3, <2>4
    <2> QED
        BY <2>5 DEF files, seen
<1>2. RInv => ImportersAgree
    BY <1>1 DEF ImportersAgree
<1> QED
    BY <1>2, RunInductive, PTL

-----------------------------------------------------------------------------
(* Orders count once *)

\* Sums over sets with nothing in common.
LEMMA SumJoins ==
    ASSUME NEW A, NEW B, IsFiniteSet(A), IsFiniteSet(B), A \cap B = {}, NEW f,
           \A x \in A \cup B : f[x] \in Nat
    PROVE  SumOver(f, A \cup B) = SumOver(f, A) + SumOver(f, B)
<1> DEFINE Good == {s \in SUBSET A : SumOver(f, s \cup B) = SumOver(f, s) + SumOver(f, B)}
<1>1. ASSUME NEW s \in SUBSET A
      PROVE  IsFiniteSet(s) /\ IsFiniteSet(s \cup B) /\ SumOver(f, s) \in Nat
    <2>1. IsFiniteSet(s)
        BY FS_Subset
    <2> QED
        BY <2>1, FS_Union, SumIsNatural
<1>2. SumOver(f, B) \in Nat
    BY SumIsNatural
<1>3. {} \in Good
    <2>1. {} \cup B = B
        OBVIOUS
    <2> QED
        BY <1>2, <2>1, NothingSums
<1>4. ASSUME NEW s \in SUBSET A, s # {}, \A x \in s : s \ {x} \in Good PROVE s \in Good
    <2>1. PICK x \in s : TRUE
        BY <1>4
    <2>2. SumOver(f, s) = f[x] + SumOver(f, s \ {x})
        BY <1>1, SumTakes
    <2>3. SumOver(f, s \cup B) = f[x] + SumOver(f, (s \cup B) \ {x})
        <3>1. IsFiniteSet(s \cup B) /\ x \in s \cup B /\ \A y \in s \cup B : f[y] \in Nat
            BY <1>1
        <3> QED
            BY <3>1, SumTakes
    <2>4. (s \cup B) \ {x} = (s \ {x}) \cup B
        OBVIOUS
    <2>5. SumOver(f, (s \ {x}) \cup B) = SumOver(f, s \ {x}) + SumOver(f, B)
        BY <1>4
    <2>6. f[x] \in Nat /\ SumOver(f, s \ {x}) \in Nat
        BY <1>1
    <2>7. PICK u \in Nat, v \in Nat, w \in Nat :
              u = f[x] /\ v = SumOver(f, s \ {x}) /\ w = SumOver(f, B)
        BY <1>2, <2>6
    <2>8. u + (v + w) = (u + v) + w
        OBVIOUS
    <2>9. SumOver(f, s \cup B) = SumOver(f, s) + SumOver(f, B)
        BY <2>2, <2>3, <2>4, <2>5, <2>7, <2>8
    <2> QED
        BY <2>9
<1>5. Good \in SUBSET (SUBSET A)
    OBVIOUS
<1>6. A \in Good
    <2> HIDE DEF Good
    <2> QED
        BY <1>3, <1>4, <1>5, Shrinking
<1> QED
    BY <1>6

\* A sum is the sum of what belongs to each day: g is the day of an element,
\* and h the sum of a day.
LEMMA SumByDay ==
    ASSUME NEW S, IsFiniteSet(S), NEW f, \A x \in S : f[x] \in Nat,
           NEW D, IsFiniteSet(D), NEW g, \A x \in S : g[x] \in D,
           NEW h, \A d \in D : h[d] = SumOver(f, {x \in S : g[x] = d})
    PROVE  SumOver(h, D) = SumOver(f, S)
<1> DEFINE Of(E) == {x \in S : g[x] \in E}
           Good == {E \in SUBSET D : SumOver(h, E) = SumOver(f, Of(E))}
<1>1. {} \in Good
    <2>1. Of({}) = {}
        OBVIOUS
    <2> HIDE DEF Of
    <2> QED
        BY <2>1, NothingSums
<1>2. ASSUME NEW E \in SUBSET D, E # {}, \A d \in E : E \ {d} \in Good PROVE E \in Good
    <2> DEFINE d == Chosen(E)
               A == {x \in S : g[x] = d}
               B == Of(E \ {d})
    <2>1. d \in E /\ SumOver(h, E) = h[d] + SumOver(h, E \ {d})
        BY <1>2, SumUnfolds
    <2> HIDE DEF d
    <2>2. A \cup B = Of(E) /\ A \cap B = {} /\ A \subseteq S /\ B \subseteq S
        BY <2>1
    <2>3. h[d] = SumOver(f, A)
        BY <2>1
    <2>4. SumOver(h, E \ {d}) = SumOver(f, B)
        BY <1>2, <2>1
    <2>5. SumOver(f, Of(E)) = SumOver(f, A) + SumOver(f, B)
        <3> HIDE DEF A, B, Of
        <3>1. IsFiniteSet(A) /\ IsFiniteSet(B)
            BY <2>2, FS_Subset
        <3>2. SumOver(f, A \cup B) = SumOver(f, A) + SumOver(f, B)
            BY <2>2, <3>1, SumJoins
        <3> QED
            BY <2>2, <3>2
    <2>6. SumOver(h, E) = SumOver(f, Of(E))
        <3> HIDE DEF A, B, Of
        <3> QED
            BY <2>1, <2>3, <2>4, <2>5
    <2> QED
        BY <2>6
<1>3. Good \in SUBSET (SUBSET D)
    OBVIOUS
<1>4. D \in Good
    <2> HIDE DEF Good
    <2> QED
        BY <1>1, <1>2, <1>3, Shrinking
<1>5. Of(D) = S
    OBVIOUS
<1> HIDE DEF Of
<1> QED
    BY <1>4, <1>5

\* A sum over other names for the same things, in other units.
LEMMA SumMoves ==
    ASSUME NEW S, IsFiniteSet(S), NEW e, \A x, y \in S : e[x] = e[y] => x = y,
           NEW c \in Nat, NEW g, \A x \in S : g[x] \in Nat,
           NEW f, \A x \in S : f[e[x]] = c * g[x]
    PROVE  SumOver(f, {e[x] : x \in S}) = c * SumOver(g, S)
<1> DEFINE Of(s) == {e[x] : x \in s}
           Good == {s \in SUBSET S : SumOver(f, Of(s)) = c * SumOver(g, s)}
<1>1. ASSUME NEW s \in SUBSET S PROVE IsFiniteSet(s) /\ IsFiniteSet(Of(s)) /\ SumOver(g, s) \in Nat
    <2>1. IsFiniteSet(s)
        BY FS_Subset
    <2> QED
        BY <2>1, Finite, SumIsNatural
<1>2. ASSUME NEW s \in SUBSET S PROVE \A y \in Of(s) : f[y] \in Nat
    <2>1. ASSUME NEW x \in s PROVE f[e[x]] \in Nat
        <3>1. PICK u \in Nat : u = g[x]
            OBVIOUS
        <3>2. c * u \in Nat
            OBVIOUS
        <3> QED
            BY <3>1, <3>2
    <2> QED
        BY <2>1
<1>3. {} \in Good
    <2>1. Of({}) = {} /\ c * 0 = 0
        OBVIOUS
    <2> HIDE DEF Of
    <2> QED
        BY <2>1, NothingSums
<1>4. ASSUME NEW s \in SUBSET S, s # {}, \A x \in s : s \ {x} \in Good PROVE s \in Good
    <2>1. PICK x \in s : TRUE
        BY <1>4
    <2>2. SumOver(g, s) = g[x] + SumOver(g, s \ {x})
        BY <1>1, SumTakes
    <2>3. e[x] \in Of(s) /\ Of(s) \ {e[x]} = Of(s \ {x})
        OBVIOUS
    <2>4. SumOver(f, Of(s)) = f[e[x]] + SumOver(f, Of(s) \ {e[x]})
        <3>1. IsFiniteSet(Of(s)) /\ \A y \in Of(s) : f[y] \in Nat
            BY <1>1, <1>2
        <3> HIDE DEF Of
        <3> QED
            BY <2>3, <3>1, SumTakes
    <2>5. SumOver(f, Of(s \ {x})) = c * SumOver(g, s \ {x})
        BY <1>4
    <2>6. PICK u \in Nat, v \in Nat : u = g[x] /\ v = SumOver(g, s \ {x})
        BY <1>1
    <2>7. c * u + c * v = c * (u + v)
        OBVIOUS
    <2>8. SumOver(f, Of(s)) = c * SumOver(g, s)
        <3> HIDE DEF Of
        <3> QED
            BY <2>2, <2>3, <2>4, <2>5, <2>6, <2>7
    <2> QED
        BY <2>8
<1>5. Good \in SUBSET (SUBSET S)
    OBVIOUS
<1>6. S \in Good
    <2> HIDE DEF Good
    <2> QED
        BY <1>3, <1>4, <1>5, Shrinking
<1> QED
    BY <1>6

\* The id of a line tells the articles of a document apart: an earlier article
\* of the same number and delivery has a smaller occurrence.
LEMMA LineIdsDiffer ==
    ASSUME NEW doc, DocumentTyped(doc), NEW i \in Articles(doc), NEW j \in Articles(doc),
           LineId(doc, i) = LineId(doc, j)
    PROVE  i = j
<1> DEFINE Upto(k) == {y \in Articles(doc) :
                          /\ y <= k /\ doc.rows[y].article = doc.rows[k].article
                          /\ DeliveryAt(doc, y).number = DeliveryAt(doc, k).number}
<1>1. IsFiniteSet(Articles(doc)) /\ Articles(doc) \subseteq Nat
    BY ArticlesHaveDays
<1>2. /\ doc.rows[i].article = doc.rows[j].article
      /\ DeliveryAt(doc, i).number = DeliveryAt(doc, j).number
      /\ Occurrence(doc, i) = Occurrence(doc, j)
    BY DEF LineId
<1>3. Cardinality(Upto(i)) = Cardinality(Upto(j))
    BY <1>2 DEF Occurrence
<1>4. ASSUME NEW k \in Articles(doc), NEW n \in Articles(doc), k < n,
             doc.rows[k].article = doc.rows[n].article,
             DeliveryAt(doc, k).number = DeliveryAt(doc, n).number,
             Cardinality(Upto(k)) = Cardinality(Upto(n))
      PROVE  FALSE
    <2>1. k \in Nat /\ n \in Nat /\ \A x \in Articles(doc) : x \in Nat
        BY <1>1
    <2>2. Upto(k) \subseteq Upto(n) /\ n \in Upto(n) /\ n \notin Upto(k)
        <3>1. n \in Upto(n) /\ n \notin Upto(k)
            BY <1>4, <2>1
        <3>2. ASSUME NEW y \in Upto(k) PROVE y \in Upto(n)
            <4>1. y \in Articles(doc) /\ y \in Nat /\ y <= k /\ y <= n
                BY <1>4, <2>1
            <4>2. doc.rows[y].article = doc.rows[n].article
                BY <1>4
            <4>3. DeliveryAt(doc, y).number = DeliveryAt(doc, n).number
                BY <1>4
            <4> QED
                BY <4>1, <4>2, <4>3
        <3> QED
            BY <3>1, <3>2
    <2>3. IsFiniteSet(Upto(n))
        <3>1. Upto(n) \subseteq Articles(doc)
            OBVIOUS
        <3> HIDE DEF Upto
        <3> QED
            BY <1>1, <3>1, FS_Subset
    <2> HIDE DEF Upto
    <2>4. Upto(k) = Upto(n)
        BY <1>4, <2>2, <2>3, FS_Subset
    <2> QED
        BY <2>2, <2>4
<1>5. i \in Nat /\ j \in Nat
    BY <1>1
<1>6. CASE i < j
    BY <1>2, <1>3, <1>4, <1>6
<1>7. CASE j < i
    BY <1>2, <1>3, <1>4, <1>7
<1> QED
    BY <1>5, <1>6, <1>7

\* The article rows that OrdersCountedOnce counts, and their packs.
Rows(src) == UNION {{d} \X Articles(d) : d \in src.docs}

Open(src, m, k) == {x \in Rows(src) :
                       LET row == x[1].rows[x[2]]
                           due == DeliveryAt(x[1], x[2]).day
                       IN /\ x[1].ordered <= src.poDay /\ due > src.poDay
                          /\ {p.item : p \in Matches(m, row)} = {k[2]}}

RowPacks(m, k, x) == PolicyOf(m, k[2]).packs * x[1].rows[x[2]].units

\* The order of a row, and the orders of the key.
OrderOfRow(src, m, x) == OrderOf(src, m, LineOf(x[1], x[2]))

OrdersFor(b, k) == {o \in b.pos : o.open /\ <<o.place, o.item>> = k}

\* There are finitely many.
LEMMA RowsAreFinite ==
    ASSUME NEW src, SourceTyped(src), src.origin # "files"
    PROVE  /\ IsFiniteSet(Rows(src))
           /\ \A x \in Rows(src) : /\ x[1] \in src.docs /\ x[2] \in Articles(x[1])
                                   /\ x = <<x[1], x[2]>>
           /\ \A d \in src.docs : \A i \in Articles(d) : <<d, i>> \in Rows(src)
<1> DEFINE f == [d \in src.docs |-> {d} \X Articles(d)]
           all == {f[d] : d \in src.docs}
<1>1. IsFiniteSet(src.docs) /\ \A d \in src.docs : IsFiniteSet(Articles(d))
    BY ArticlesHaveDays DEF SourceTyped
<1>2. \A L \in all : IsFiniteSet(L)
    <2>1. ASSUME NEW d \in src.docs PROVE IsFiniteSet({d} \X Articles(d))
        BY <1>1, FS_Singleton, FS_Product
    <2> QED
        BY <2>1
<1>3. IsFiniteSet(all)
    <2> HIDE DEF f
    <2> QED
        BY <1>1, Finite
<1>4. Rows(src) = UNION all
    BY DEF Rows
<1>5. IsFiniteSet(Rows(src))
    <2> HIDE DEF all
    <2> QED
        BY <1>2, <1>3, <1>4, FS_UNION
<1>6. ASSUME NEW x \in Rows(src)
      PROVE  x[1] \in src.docs /\ x[2] \in Articles(x[1]) /\ x = <<x[1], x[2]>>
    <2>1. PICK d \in src.docs : x \in {d} \X Articles(d)
        BY DEF Rows
    <2> QED
        BY <2>1
<1>7. ASSUME NEW d \in src.docs, NEW i \in Articles(d) PROVE <<d, i>> \in Rows(src)
    <2>1. <<d, i>> \in {d} \X Articles(d)
        OBVIOUS
    <2> QED
        BY <2>1 DEF Rows
<1> QED
    BY <1>5, <1>6, <1>7

\* A row is counted if and only if its line is expected, and of the item; its
\* order is then as many packs as are counted.
LEMMA RowIsOrdered ==
    ASSUME NEW src, Imported(src), NEW k, NEW x \in Rows(src)
    PROVE  LET m == MasterOfImport(src)
               o == OrderOfRow(src, m, x)
           IN /\ x \in Open(src, m, k)
                    <=> LineOf(x[1], x[2]) \in Expected(src, m) /\ o.item = k[2]
              /\ x \in Open(src, m, k) =>
                    /\ o.units = RowPacks(m, k, x) /\ RowPacks(m, k, x) \in Nat
                    /\ o.id = LineId(x[1], x[2]) /\ o.open /\ o.place = src.here
                    /\ o.at = Midnight(DeliveryAt(x[1], x[2]).day)
<1> DEFINE m == MasterOfImport(src)
           doc == x[1]
           i == x[2]
           l == LineOf(doc, i)
           row == doc.rows[i]
           o == OrderOfRow(src, m, x)
<1>1. /\ WorkbookTyped(m) /\ src.poDay \in Int /\ src.poDay > Undated
      /\ doc \in src.docs /\ DocumentTyped(doc) /\ i \in Articles(doc)
    BY RowsAreFinite DEF Imported, SourceTyped
<1>2. /\ l.id = LineId(doc, i) /\ l.ordered = doc.ordered /\ l.due = DeliveryAt(doc, i).day
      /\ l.article = row.article /\ l.text = row.text /\ l.units = row.units
    BY DEF LineOf
<1>3. /\ l.due \in Int /\ l.units \in Nat /\ l \in LinesOf(src.docs)
    <2>1. l \in Lines(doc)
        BY <1>1 DEF Lines, LineOf
    <2> QED
        BY <1>1, <1>2, <2>1, ArticlesHaveDays DEF LinesOf
<1>4. Matches(m, row) = Matches(m, l)
    BY <1>2 DEF Matches, Candidates
<1> HIDE DEF m, l, row
<1>5. x \in Open(src, m, k)
         <=> /\ l.ordered <= src.poDay /\ l.due > src.poDay
             /\ {p.item : p \in Matches(m, l)} = {k[2]}
    BY <1>2, <1>4 DEF Open, row
<1>6. l \in Expected(src, m)
         <=> /\ l.ordered <= src.poDay /\ l.due > src.poDay
             /\ MappingStatus(m, l) = "mapped"
    BY <1>1, <1>3 DEF Expected, SeenLines, DerivedStatus, Undated
<1>7. /\ MappingStatus(m, l) = "mapped" <=> \E p \in m.policies : Matches(m, l) = {p}
      /\ Matches(m, l) \subseteq m.policies
    BY <1>1, MappedHasOne DEF WorkbookTyped
<1>8. \A p, q \in m.policies : p.item = q.item => p = q
    BY DEF Imported, MasterReads, Keyed, m
<1>9. ASSUME l \in Expected(src, m)
      PROVE  \E p \in m.policies : /\ Matches(m, l) = {p} /\ p.packs \in Nat
                                   /\ o = [id |-> l.id, place |-> src.here, item |-> p.item,
                                           ordered |-> Midnight(l.ordered), at |-> Midnight(l.due),
                                           units |-> l.units * p.packs, open |-> TRUE]
    BY <1>9, OrderIs DEF OrderOfRow, m, l
<1>10. ASSUME x \in Open(src, m, k) PROVE l \in Expected(src, m) /\ o.item = k[2]
    <2>1. Matches(m, l) # {} /\ \A p \in Matches(m, l) : p.item = k[2]
        BY <1>5, <1>10
    <2>2. PICK p \in m.policies : Matches(m, l) = {p}
        BY <1>7, <1>8, <2>1
    <2>3. l \in Expected(src, m)
        BY <1>5, <1>6, <1>7, <1>10, <2>2
    <2> QED
        BY <1>9, <2>1, <2>3
<1>11. ASSUME l \in Expected(src, m), o.item = k[2] PROVE x \in Open(src, m, k)
    <2>1. PICK p \in m.policies : Matches(m, l) = {p} /\ o.item = p.item
        BY <1>9, <1>11
    <2> QED
        BY <1>5, <1>6, <1>11, <2>1
<1>12. ASSUME x \in Open(src, m, k)
       PROVE  /\ o.units = RowPacks(m, k, x) /\ RowPacks(m, k, x) \in Nat
              /\ o.id = LineId(x[1], x[2]) /\ o.open /\ o.place = src.here
              /\ o.at = Midnight(DeliveryAt(x[1], x[2]).day)
    <2>1. PICK p \in m.policies : 
              /\ p.packs \in Nat
              /\ o = [id |-> l.id, place |-> src.here, item |-> p.item,
                      ordered |-> Midnight(l.ordered), at |-> Midnight(l.due),
                      units |-> l.units * p.packs, open |-> TRUE]
        BY <1>9, <1>10, <1>12
    <2>2. p.item = k[2]
        BY <1>10, <1>12, <2>1
    <2>3. PolicyOf(m, k[2]) = p
        BY <1>8, <2>2 DEF PolicyOf
    <2>4. RowPacks(m, k, x) = p.packs * l.units
        BY <1>2, <2>3 DEF RowPacks, row
    <2>5. PICK a \in Nat, c \in Nat : a = l.units /\ c = p.packs
        BY <1>3, <2>1
    <2>6. a * c = c * a /\ c * a \in Nat
        OBVIOUS
    <2> QED
        BY <1>2, <2>1, <2>4, <2>5, <2>6
<1> QED
    BY <1>10, <1>11, <1>12 DEF m, l

\* The orders of the key are those of the rows that are counted, one for each.
LEMMA OrdersAreRows ==
    ASSUME NEW src, Imported(src), NEW k, k = <<src.here, k[2]>>
    PROVE  LET m == MasterOfImport(src)
           IN /\ OrdersFor(Given(src), k) = {OrderOfRow(src, m, x) : x \in Open(src, m, k)}
              /\ \A x, y \in Open(src, m, k) : OrderOfRow(src, m, x) = OrderOfRow(src, m, y) => x = y
<1> DEFINE m == MasterOfImport(src)
           O == Open(src, m, k)
<1>1. /\ SourceTyped(src) /\ src.origin # "files"
      /\ src.origin \in {"template", "store"} /\ O \subseteq Rows(src)
    BY DEF Imported, SourceTyped, Open
<1>2. Given(src).pos = {OrderOf(src, m, l) : l \in Expected(src, m)}
    BY <1>1, GivenIs, OrdersAre
<1>3. ASSUME NEW x \in O PROVE OrderOfRow(src, m, x) \in OrdersFor(Given(src), k)
    <2>1. /\ LineOf(x[1], x[2]) \in Expected(src, m)
          /\ OrderOfRow(src, m, x).item = k[2] /\ OrderOfRow(src, m, x).open
          /\ OrderOfRow(src, m, x).place = src.here
        BY <1>1, RowIsOrdered
    <2>2. OrderOfRow(src, m, x) \in Given(src).pos
        BY <1>2, <2>1 DEF OrderOfRow
    <2> QED
        BY <2>1, <2>2 DEF OrdersFor
<1>4. ASSUME NEW o \in OrdersFor(Given(src), k) PROVE \E x \in O : o = OrderOfRow(src, m, x)
    <2>1. o \in Given(src).pos /\ o.item = k[2]
        BY DEF OrdersFor
    <2>2. PICK l \in Expected(src, m) : o = OrderOf(src, m, l)
        BY <1>2, <2>1
    <2>3. l \in LinesOf(src.docs)
        BY DEF Expected, SeenLines
    <2>4. PICK d \in src.docs : \E i \in Articles(d) : l = LineOf(d, i)
        BY <2>3, LinesHaveDays DEF Imported, SourceTyped
    <2>5. PICK i \in Articles(d) : l = LineOf(d, i)
        BY <2>4
    <2> DEFINE x == <<d, i>>
    <2>6. x \in Rows(src) /\ x[1] = d /\ x[2] = i
        BY <1>1, RowsAreFinite
    <2> HIDE DEF x
    <2>7. o = OrderOfRow(src, m, x)
        BY <2>2, <2>5, <2>6 DEF OrderOfRow
    <2>8. x \in O
        BY <2>1, <2>5, <2>6, <2>7, RowIsOrdered
    <2> QED
        BY <2>7, <2>8
<1>5. ASSUME NEW x \in O, NEW y \in O, OrderOfRow(src, m, x) = OrderOfRow(src, m, y) PROVE x = y
    <2>1. /\ x[1] \in src.docs /\ x[2] \in Articles(x[1]) /\ x = <<x[1], x[2]>>
          /\ y[1] \in src.docs /\ y[2] \in Articles(y[1]) /\ y = <<y[1], y[2]>>
        BY <1>1, RowsAreFinite
    <2>2. LineId(x[1], x[2]) = LineId(y[1], y[2])
        BY <1>1, <1>5, RowIsOrdered
    <2>3. x[1] = y[1]
        <3>1. x[1].content = y[1].content
            BY <2>2 DEF LineId
        <3> QED
            BY <1>1, <2>1, <3>1 DEF SourceTyped
    <2>4. x[2] = y[2]
        BY <1>1, <2>1, <2>2, <2>3, LineIdsDiffer DEF SourceTyped
    <2> QED
        BY <2>1, <2>3, <2>4
<1>6. OrdersFor(Given(src), k) = {OrderOfRow(src, m, x) : x \in O}
    BY <1>3, <1>4
<1> QED
    BY <1>5, <1>6

\* What the plan of an item has on order, on all its days and overdue, is what
\* the documents say: each article row once.
THEOREM OrdersCountOnce == RunSpec => []OrdersCountedOnce
<1>1. ASSUME RInv, source.origin # "files", stage = "done", key[1] = source.here
      PROVE  SumOver(orders, DOMAIN orders)
               = PackOf(Given(source), key)
                   * SumOver([x \in Open(source, MasterOfImport(source), key)
                                |-> RowPacks(MasterOfImport(source), key, x)],
                             Open(source, MasterOfImport(source), key))
    <2> USE DayAssumption
    <2> DEFINE m == MasterOfImport(source)
               b == Given(source)
               pack == PackOf(b, key)
               O == Open(source, m, key)
               P == OrdersFor(b, key)
               D == Day \cup {Overdue}
               f == [o \in b.pos |-> o.units * pack]
               at == [o \in P |-> OrderDay(source, o)]
               e == [x \in O |-> OrderOfRow(source, m, x)]
               packs == [x \in O |-> RowPacks(m, key, x)]
    <2>1. /\ source \in Source /\ SourceTyped(source) /\ key \in Keys(source)
          /\ Projected(source, b, key) /\ key # NoKey /\ WellFormed(source)
          /\ Imported(source)
        <3>1. source \in Source /\ key \in Keys(source) \ {NoKey} /\ Projected(source, b, key)
            BY <1>1 DEF RInv, InEngine
        <3>2. WellFormed(source) /\ SourceTyped(source)
            BY <3>1, SourceAssumption DEF Keys
        <3>3. Imported(source)
            BY <1>1, <3>2, UploadsGive DEF WellFormed
        <3> QED
            BY <3>1, <3>2, <3>3
    <2>2. RowsOK(b) /\ pack \in Nat
        <3>1. RowsOK(b)
            BY <2>1, GivenFits
        <3> QED
            BY <2>1, <3>1, SumsAreNatural DEF RowsOK, Projected
    <2>3. orders = [d \in D |-> OnOrder(source, b, key, d)]
        BY <1>1, <2>1 DEF RInv, EngineInputs
    <2>4. key = <<source.here, key[2]>>
        BY <1>1, <2>1, EndIsLast DEF DemandKeys
    <2>5. P = {OrderOfRow(source, m, x) : x \in O} /\ \A x, y \in O : e[x] = e[y] => x = y
        BY <1>1, <2>1, <2>4, OrdersAreRows
    <2>6. O \subseteq Rows(source) /\ IsFiniteSet(O)
        <3>1. O \subseteq Rows(source)
            BY DEF Open
        <3> HIDE DEF O
        <3> QED
            BY <1>1, <2>1, <3>1, RowsAreFinite, FS_Subset
    <2>7. ASSUME NEW x \in O
          PROVE  /\ f[e[x]] = pack * packs[x] /\ packs[x] \in Nat
                 /\ e[x].at \in Int /\ e[x].at <= 2 * Last /\ e[x] \in P
        <3>1. e[x] \in P /\ e[x] \in b.pos
            BY <2>5 DEF OrdersFor
        <3>2. /\ e[x].units = RowPacks(m, key, x) /\ RowPacks(m, key, x) \in Nat
              /\ e[x].at = Midnight(DeliveryAt(x[1], x[2]).day)
            BY <1>1, <2>1, <2>6, RowIsOrdered
        <3>3. x[1] \in source.docs /\ x[2] \in Articles(x[1])
            BY <1>1, <2>1, <2>6, RowsAreFinite
        <3>4. PICK d \in Int : d = DeliveryAt(x[1], x[2]).day /\ d <= Last
            BY <1>1, <2>1, <3>3, ArticlesHaveDays DEF SourceTyped
        <3>5. e[x].at = 2 * d /\ 2 * d \in Int /\ 2 * d <= 2 * Last
            BY <3>2, <3>4 DEF Midnight
        <3>6. PICK u \in Nat, q \in Nat : u = RowPacks(m, key, x) /\ q = pack
            BY <2>2, <3>2
        <3>7. u * q = q * u
            OBVIOUS
        <3>8. f[e[x]] = u * q /\ packs[x] = u
            BY <3>1, <3>2, <3>6
        <3> HIDE DEF f, e, packs, pack
        <3> QED
            BY <3>1, <3>5, <3>6, <3>7, <3>8
    <2>8. ASSUME NEW o \in P PROVE at[o] \in D /\ f[o] \in Nat
        <3>1. o \in b.pos /\ o.units \in Nat
            BY <2>2 DEF OrdersFor, RowsOK
        <3>2. o.at \in Int /\ o.at <= 2 * Last
            BY <2>5, <2>7
        <3>3. PICK t \in Int : t = o.at
            BY <3>2
        <3> DEFINE d == SeenDay(source.origin, o.at)
        <3>4. d \in Int /\ d <= Last
            BY <3>2, <3>3, OffsetAssumption DEF SeenDay, LocalDay
        <3>5. OrderDay(source, o) \in D
            <4>1. OrderDay(source, o) = IF d < 0 THEN Overdue ELSE d
                BY DEF OrderDay
            <4> HIDE DEF d
            <4> QED
                BY <3>4, <4>1 DEF Day
        <3>6. PICK u \in Nat, q \in Nat : u = o.units /\ q = pack
            BY <2>2, <3>1
        <3>7. u * q \in Nat
            OBVIOUS
        <3>8. f[o] = u * q
            BY <3>1, <3>6
        <3> QED
            BY <3>5, <3>7, <3>8
    <2>9. ASSUME NEW d \in D PROVE orders[d] = SumOver(f, {o \in P : at[o] = d})
        <3>1. {o \in P : at[o] = d}
                = {o \in b.pos : o.open /\ <<o.place, o.item>> = key /\ OrderDay(source, o) = d}
            BY DEF OrdersFor
        <3> QED
            BY <2>3, <3>1 DEF OnOrder
    <2>10. IsFiniteSet(P) /\ IsFiniteSet(D) /\ DOMAIN orders = D
        <3>1. P \subseteq b.pos
            BY DEF OrdersFor
        <3>2. IsFiniteSet(P)
            BY <2>2, <3>1, FS_Subset DEF RowsOK
        <3>3. IsFiniteSet(Day)
            BY FS_Interval DEF Day
        <3>4. IsFiniteSet({Overdue})
            BY FS_Singleton
        <3>5. IsFiniteSet(D)
            BY <3>3, <3>4, FS_Union
        <3> QED
            BY <2>3, <3>2, <3>5
    <2> HIDE DEF pack, O, P, D, f, at, e, packs, m, b
    <2>11. SumOver(orders, D) = SumOver(f, P)
        BY <2>8, <2>9, <2>10, SumByDay
    <2>12. P = {e[x] : x \in O}
        BY <2>5 DEF e
    <2>13. SumOver(f, {e[x] : x \in O}) = pack * SumOver(packs, O)
        BY <2>2, <2>5, <2>6, <2>7, SumMoves
    <2>14. SumOver(orders, DOMAIN orders) = pack * SumOver(packs, O)
        BY <2>10, <2>11, <2>12, <2>13
    <2> QED
        BY <2>14 DEF pack, O, packs, m, b
<1>2. ASSUME RInv PROVE OrdersCountedOnce
    BY <1>1, <1>2 DEF OrdersCountedOnce, Open, Rows, RowPacks
<1> QED
    BY <1>2, RunInductive, PTL

\* An order counts on its day, except where the store has moved its midnight to
\* the day before.
THEOREM OrdersAreTimely ==
    RunSpec => [](source.origin # "store" \/ Offset = 0 => OrdersCountOnTheirDay)
<1>1. ASSUME RInv, source.origin # "store" \/ Offset = 0, stage = "done",
             NEW o \in Given(source).pos, o.open, <<o.place, o.item>> = key,
             LocalDay(o.at) \in 0..End
      PROVE  orders[LocalDay(o.at)] >= o.units * PackOf(Given(source), key)
    <2> USE DayAssumption
    <2> DEFINE b == Given(source)
               d == LocalDay(o.at)
               pack == PackOf(b, key)
               f == [x \in b.pos |-> x.units * pack]
               T == {x \in b.pos : x.open /\ <<x.place, x.item>> = key /\ OrderDay(source, x) = d}
    <2>1. /\ SourceTyped(source) /\ WellFormed(source) /\ Projected(source, b, key)
          /\ key # NoKey
        BY <1>1, SourceAssumption DEF RInv, InEngine, Keys
    <2>2. RowsOK(b) /\ pack \in Nat
        <3>1. RowsOK(b)
            BY <2>1, GivenFits
        <3> QED
            BY <2>1, <3>1, SumsAreNatural DEF RowsOK, Projected
    <2>3. d \in Day
        BY <1>1 DEF Day
    <2>4. orders[d] = SumOver(f, T)
        <3>1. orders = [x \in Day \cup {Overdue} |-> OnOrder(source, b, key, x)]
            BY <1>1, <2>1 DEF RInv, EngineInputs
        <3>2. orders[d] = OnOrder(source, b, key, d)
            BY <2>3, <3>1
        <3> QED
            BY <3>2 DEF OnOrder
    <2>5. o \in T
        <3>1. SeenDay(source.origin, o.at) = d
            <4>1. PICK t \in Int : t = o.at
                BY <2>2 DEF RowsOK
            <4> QED
                BY <1>1, <4>1 DEF SeenDay, LocalDay
        <3>2. OrderDay(source, o) = d
            BY <1>1, <3>1 DEF OrderDay
        <3> QED
            BY <1>1, <3>2
    <2>6. IsFiniteSet(T) /\ \A x \in T : x \in b.pos
        BY <2>2, FS_Subset DEF RowsOK
    <2>7. \A x \in T : f[x] \in Nat
        <3>1. ASSUME NEW x \in b.pos PROVE f[x] \in Nat
            <4>1. PICK u \in Nat, q \in Nat : u = x.units /\ q = pack
                BY <2>2 DEF RowsOK
            <4>2. u * q \in Nat
                OBVIOUS
            <4> QED
                BY <4>1, <4>2
        <3> HIDE DEF f, T
        <3> QED
            BY <2>6, <3>1
    <2>8. f[o] = o.units * pack
        OBVIOUS
    <2> HIDE DEF f, T, d, pack, b
    <2>9. SumOver(f, T) = f[o] + SumOver(f, T \ {o})
        BY <2>5, <2>6, <2>7, SumTakes
    <2>10. SumOver(f, T \ {o}) \in Nat
        <3>1. IsFiniteSet(T \ {o}) /\ \A x \in T \ {o} : f[x] \in Nat
            BY <2>6, <2>7, FS_Subset
        <3> QED
            BY <3>1, SumIsNatural
    <2>11. f[o] \in Nat
        BY <2>5, <2>7
    <2>12. orders[d] >= f[o]
        BY <2>4, <2>9, <2>10, <2>11
    <2> QED
        BY <2>8, <2>12 DEF d, pack, b
<1>2. RInv => (source.origin # "store" \/ Offset = 0 => OrdersCountOnTheirDay)
    BY <1>1 DEF OrdersCountOnTheirDay
<1> QED
    BY <1>2, RunInductive, PTL
=============================================================================
