--------------------------- MODULE MC_PlanningRuns ---------------------------
(* Calculations and status requests for one location, with a planning        *)
(* workbook, stock exports and purchase orders arriving meanwhile.           *)
EXTENDS PlanningRuns, TLC

CONSTANTS q1, q2, d1, here, north, south, m1, m2,
          planN, planN2, planS, stockA, stockB, ordersA, ordersB

MCScope == {here}
MCVersion == {m1, m2}
OneVersion == {m1}
MCHome == [v \in Version |-> here]
MCLocation == {north}
TwoLocations == {north, south}
MCOpenIn == [v \in Version |-> {north, south}]
NorthOnly == [v \in Version |-> {north}]
Plans == {planN, planN2, planS}
Stocks == {stockA, stockB}
MCKindOf == [u \in Plans \cup Stocks \cup {ordersA, ordersB} |->
                CASE u \in Plans -> "planning_input"
                  [] u \in Stocks -> "stock"
                  [] OTHER -> "purchase_orders"]
MCCovers == [u \in Plans |-> IF u = planS THEN {south} ELSE {north}]

NewStock == {planN, stockA, stockB, ordersA}
NewInputs == {planN, planN2, stockA, stockB, ordersA}
NewPlan == {planN, planN2, planS, stockA, ordersA}
NewOrders == {planN, stockA, ordersA, ordersB}

\* Different uploads have different text ...
OwnText == [u \in DOMAIN MCKindOf |-> u]
\* ... except that two sets of PDFs may hold the same order documents.
SameOrders == [OwnText EXCEPT ![ordersB] = ordersA]

\* planN names an item that m2 dropped.
MCPlannable == {<<planN, m1, 1>>, <<planN, m1, 2>>, <<planN2, m1, 1>>, <<planN2, m2, 1>>}
OneAsOf == {1}
Nothing == {}
PinStock == {"stock"}
OnlyAccepted == {"accepted"}
AnyStatus == {"accepted", "rejected"}
OneRunner == {q1}
TwoRunners == {q1, q2}
OneReader == {d1}

\* A workspace that is ready to plan: m1 is active, m2 still to come, and one
\* import of each kind has been accepted for north.
Row(n, u, l) == [at |-> n, kind |-> KindOf[u], loc |-> l, file |-> u,
                 status |-> "accepted", sup |-> NoRow]
ReadyInit ==
    /\ ledger = {Row(1, planN, NoLocation), Row(2, stockA, north), Row(3, ordersA, north)}
    /\ drafts = {} /\ current = [s \in Scope |-> m1] /\ retired = {}
    /\ runs = {} /\ runClock = 0
    /\ pc = [q \in Runner |-> "idle"] /\ job = [q \in Runner |-> NoJob]
    /\ rpc = [d \in Reader |-> "idle"] /\ seen = [d \in Reader |-> NoView]

ReadySpec == ReadyInit /\ [][Next]_vars

\* Two questions in one run.  Status requests meet one calculation, while
\* two uploads, or one and a second master, arrive.  Two calculations meet
\* each other and pinned, rejected and foreign imports, while nobody asks for
\* the status.
StatusMix ==
    /\ Cardinality({q \in Runner : pc[q] # "idle"}) <= 1
    /\ \A q \in Runner : job[q].pin = NoInputs /\ job[q].loc # south
    /\ \A row \in ledger : IsAccepted(row) /\ row.loc # south
    /\ Cardinality(ledger) = MaxRows => m2 \notin drafts /\ current[Here] = m1

RunMix ==
    /\ \A d \in Reader : rpc[d] = "idle"
    /\ drafts = {} /\ current[Here] = m1
    /\ \A row \in ledger : row.file \in NewStock /\ row.at < MaxRows

\* Next, with the requests and uploads that fit the mixture of the state.
MixNext ==
    \/ \E u \in {planN2, stockB}, n \in FreeStamps : \E l \in PlacesFor(u) \ {south} :
          AcceptImport(u, l, n, "accepted")
    \/ RunMix /\ \E u \in NewStock, s \in ImportStatus : \E l \in PlacesFor(u) :
          AcceptImport(u, l, MaxRows - 1, s)
    \/ \E v \in Version : ImportMaster(v) \/ ActivateMaster(v)
    \/ \E q \in Runner, t \in AsOf : StartRun(q, north, t, NoInputs)
    \/ RunMix /\ \E q \in Runner, l \in Location, t \in AsOf, pin \in Pins : StartRun(q, l, t, pin)
    \/ \E q \in Runner : RunProgress(q) \/ RunFails(q)
    \/ \E d \in Reader : StartStatus(d, north) \/ StatusProgress(d) \/ StatusFails(d)

MixSpec == ReadyInit /\ [][MixNext /\ (StatusMix \/ RunMix)']_vars

Symmetry == Permutations(Runner)
=============================================================================
