--------------------------- MODULE OrderDocuments ---------------------------
(***************************************************************************)
(* Order confirmations of the supplier (adapters/transgourmet_pdf.py): how *)
(* the rows of a document become lines with a delivery day and an id, when *)
(* a document is refused, and what the file helper writes of the lines.    *)
(*                                                                         *)
(* A document is its content: copies of a file are one document.  Its rows *)
(* are the recognised ones, in their order: a delivery header with or      *)
(* without a day, an article, or the total of a delivery.                  *)
(***************************************************************************)
EXTENDS Integers, FiniteSets, FiniteSetsExt, Sequences

Blank == "none"     \* an optional text that is not filled in
Undated == -100     \* a delivery without a Liefertag

RowsOfKind(doc, kind) == {i \in DOMAIN doc.rows : doc.rows[i].row = kind}
Articles(doc) == RowsOfKind(doc, "article")

\* The number and the day that hold at a row: those of the last header before
\* it, or the first delivery, undated.
DeliveryAt(doc, i) ==
    LET before == {j \in RowsOfKind(doc, "delivery") : j < i}
    IN IF before = {} THEN [number |-> 1, day |-> Undated]
       ELSE [number |-> doc.rows[Max(before)].number, day |-> doc.rows[Max(before)].day]

\* Mutant: an article is taken to occur once in a delivery.
OccurrenceOnce(doc, i) == 1

\* article_occurrence
Occurrence(doc, i) ==
    Cardinality({j \in Articles(doc) :
                    /\ j <= i /\ doc.rows[j].article = doc.rows[i].article
                    /\ DeliveryAt(doc, j).number = DeliveryAt(doc, i).number})

LineId(doc, i) == <<doc.content, DeliveryAt(doc, i).number, doc.rows[i].article,
                    Occurrence(doc, i)>>

Lines(doc) == {[id |-> LineId(doc, i), ordered |-> doc.ordered, due |-> DeliveryAt(doc, i).day,
                article |-> doc.rows[i].article, text |-> doc.rows[i].text,
                units |-> doc.rows[i].units] : i \in Articles(doc)}

\* The total that is displayed of a delivery: the last row that names it while
\* it is the current one, once there is a current one.
TotalRows(doc, n) ==
    {i \in RowsOfKind(doc, "total") :
        /\ doc.rows[i].number = n /\ DeliveryAt(doc, i).number = n
        /\ \E j \in 1..(i - 1) : doc.rows[j].row \in {"delivery", "article"}}

PriceOf(doc, n) == MapThenSumSet(LAMBDA i : doc.rows[i].price,
                                 {i \in Articles(doc) : DeliveryAt(doc, i).number = n})

\* There is an article, and every delivery adds up to its total.
DocumentReads(doc) ==
    /\ Articles(doc) # {}
    /\ \A i \in Articles(doc) :
          LET n == DeliveryAt(doc, i).number
          IN /\ TotalRows(doc, n) # {}
             /\ doc.rows[Max(TotalRows(doc, n))].price = PriceOf(doc, n)

\* A folder without a document is refused, as is one with an unreadable one.
FolderReads(docs) == docs # {} /\ \A doc \in docs : DocumentReads(doc)

LinesOf(docs) == UNION {Lines(doc) : doc \in docs}

-----------------------------------------------------------------------------
(* The file helper: write_transgourmet_csvs *)

\* Mutant: what is due today is still expected.
HelperStatusToday(line, day) == IF line.ordered > day THEN "not_yet_ordered"
                                ELSE IF line.due = Undated \/ line.due >= day THEN "open"
                                ELSE "closed"

HelperStatus(line, day) == IF line.ordered > day THEN "not_yet_ordered"
                           ELSE IF line.due = Undated \/ line.due > day THEN "open"
                           ELSE "closed"

\* transgourmet_po_history, open_pos and undated_open_pos.
HelperFiles(docs, day) ==
    LET with(status) == {l \in LinesOf(docs) : HelperStatus(l, day) = status}
    IN [history |-> LinesOf(docs), closed |-> with("closed"),
        open |-> {l \in with("open") : l.due # Undated},
        undated |-> {l \in with("open") : l.due = Undated}]
=============================================================================
