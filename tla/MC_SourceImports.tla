-------------------------- MODULE MC_SourceImports --------------------------
(* Two uploads in flight in one workspace.  Each run picks some of: two     *)
(* master workbooks, a good and a malformed planning workbook, two stock    *)
(* exports and a set of purchase orders.                                    *)
EXTENDS SourceImports, TLC

CONSTANTS r1, r2, here, north, south, m1, m2, planA, planBad, stockA, stockB, orders

MCReq == {r1, r2}
MCScope == {here}
MCVersion == {m1, m2}
MCHome == [v \in MCVersion |-> here]
OneVersion == {m1}
OneHome == [v \in OneVersion |-> here]
OneLocation == {north}
TwoLocations == {north, south}
MCKindOf == [u \in MCVersion \cup {planA, planBad, stockA, stockB, orders} |->
                CASE u \in MCVersion -> "master_data"
                  [] u \in {planA, planBad} -> "planning_input"
                  [] u = orders -> "purchase_orders"
                  [] OTHER -> "stock"]
Workbooks == {m1, m2, planA, planBad}
LocationUploads == {m1, planA, stockA, orders}
AllUploads == Workbooks \cup LocationUploads
RemapUploads == {m1, m2, planA, stockA}
MCMalformed == {planBad}
\* stockB names an item m2 does not map; m2 has closed south.
MCFits == ({planA, stockA, orders} \X MCVersion) \cup {<<stockB, m1>>}
MCOpenIn == [v \in MCVersion |-> IF v = m1 THEN TwoLocations ELSE OneLocation]
MCCovers == [u \in {planA, planBad} |-> {north}]

\* A run explores two mixtures of uploads: the workbooks, malformed ones and a
\* second master among them, with one stamp less; and the files of locations.
Uploaded == {row.file : row \in ledger} \cup {job[r].file : r \in Req}
Mixture == \/ Uploaded \subseteq LocationUploads \cup {"none"}
           \/ Uploaded \subseteq Workbooks \cup {"none"} /\ clock < MaxStamp

Symmetry == Permutations(Req)
MCSpec == Init /\ [][Next /\ Mixture']_vars
=============================================================================
