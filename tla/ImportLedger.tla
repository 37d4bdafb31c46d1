---------------------------- MODULE ImportLedger ----------------------------
(***************************************************************************)
(* What the table source_imports promises to its readers: an append-only   *)
(* ledger of finalised imports.  Each row is stamped with a created_at of  *)
(* its own (which also identifies it here), may be committed after rows    *)
(* with a later stamp, and supersedes nothing or an older accepted row of  *)
(* its own stream (dataset_type and location_id).                          *)
(***************************************************************************)
EXTENDS Naturals, FiniteSetsExt, Functions

CONSTANTS NoLocation   \* location_id of a dataset that covers every location

\* A master or planning workbook covers a workspace, stock and purchase orders
\* one location.
Kind == {"master_data", "planning_input", "stock", "purchase_orders"}
PerLocation == {"stock", "purchase_orders"}

NoRow == 0             \* supersedes_import_id is null

VARIABLE ledger        \* the committed rows of source_imports

IsAccepted(row) == row.status = "accepted"

Stream(row) == <<row.kind, row.loc>>

AcceptedIn(kind, loc) == {row \in ledger : IsAccepted(row) /\ Stream(row) = <<kind, loc>>}

\* order=created_at.desc&limit=1 over a set of rows
Newest(rows) == CHOOSE row \in rows : \A other \in rows : other.at <= row.at

NewestAt(rows) == IF rows = {} THEN NoRow ELSE Newest(rows).at

\* _latest_planning_import_for_location reads a window of the newest accepted
\* planning imports and takes the first of them that has forecasts of loc.
WindowOf(rows, size) == {row \in rows : Cardinality({x \in rows : x.at > row.at}) < size}

LedgerInit == ledger = {}

\* A row may join the ledger: its stamp is new, and what it supersedes is there.
Appendable(row) ==
    /\ \A old \in ledger : old.at # row.at
    /\ \/ row.sup = NoRow
       \/ \E old \in ledger : /\ old.at = row.sup
                              /\ old.at < row.at
                              /\ IsAccepted(old)
                              /\ Stream(old) = Stream(row)

LedgerNext == \E row \in ledger' \ ledger : /\ ledger' = ledger \cup {row}
                                            /\ Appendable(row)

LedgerSpec == LedgerInit /\ [][LedgerNext]_ledger
=============================================================================
