---------------------------- MODULE SourceImports ----------------------------
(***************************************************************************)
(* The four upload handlers of PlanningBackend (import_master_data,        *)
(* import_planning_input, import_stock, import_purchase_orders) with       *)
(* several requests in flight in one workspace, while master versions are  *)
(* activated.  A handler awaits the store between its reads and its write, *)
(* so each store call is an action; the write is one RPC and so atomic.    *)
(*                                                                         *)
(* The version_label of a master workbook is derived from its content and  *)
(* unique in the workspace, so a version is identified with its workbook:  *)
(* Version is the set of well-formed master workbooks.                     *)
(***************************************************************************)
EXTENDS ImportLedger, ActiveMaster

CONSTANTS Here,        \* the workspace and environment of the API process
          Location,
          Upload,      \* contents that can be uploaded (a content_hash each)
          KindOf,      \* upload -> dataset it is sent to
          Fits,        \* pairs <<upload, version>> that parse and validate
          OpenIn,      \* version -> its active locations
          Covers,      \* planning upload -> locations it has forecasts for
          Malformed,   \* uploads that no master version can help
          Window,      \* limit=25 of the planning import scan
          Req,         \* requests that may be in flight together
          MaxStamp     \* bound on the clock

ASSUME HereAssumption == Here \in Scope /\ \A v \in Version : Home[v] = Here
ASSUME UploadAssumption ==
    /\ \A u \in Upload : KindOf[u] \in Kind
    /\ \A u \in Upload \ Malformed : KindOf[u] = "master_data" => u \in Version
ASSUME StampAssumption == MaxStamp \in Nat
ASSUME NoLocationAssumption == NoLocation \notin Location

VARIABLES clock,   \* the last created_at handed out
          pc,      \* the store call a request awaits
          job      \* what a request holds in its local variables

importVars == <<ledger, clock, pc, job>>
vars == <<ledger, clock, pc, job, masterVars>>

PC == {"idle", "dedupe", "master", "planning", "supersede", "stamp", "persist", "replied"}

NoJob == [file |-> "none", kind |-> "none", loc |-> NoLocation, basis |-> NoVersion,
          plan |-> NoRow, verdict |-> "none", sup |-> NoRow, at |-> NoRow,
          before |-> {}, served |-> {}, answer |-> NoRow]

Init == /\ LedgerInit /\ MasterInit
        /\ clock = 0
        /\ pc = [r \in Req |-> "idle"]
        /\ job = [r \in Req |-> NoJob]

Stamps(rows) == {row.at : row \in rows}

\* A POST reaches the API.  before and served are history: the accepted rows
\* when the request began, and the versions that have been current since.
Start(r, u, l) ==
    /\ pc[r] = "idle"
    /\ (l = NoLocation) <=> (KindOf[u] \notin PerLocation)
    /\ pc' = [pc EXCEPT ![r] = "dedupe"]
    /\ job' = [job EXCEPT ![r] =
                 [NoJob EXCEPT !.file = u, !.kind = KindOf[u], !.loc = l,
                               !.before = Stamps({row \in ledger : IsAccepted(row)}),
                               !.served = {current[Here]}]]
    /\ UNCHANGED <<ledger, clock, masterVars>>

\* One step of a request: it moves to pc p and assigns its locals.
Goto(r, p, j) == /\ pc' = [pc EXCEPT ![r] = p]
                 /\ job' = [job EXCEPT ![r] = j]
                 /\ UNCHANGED <<ledger, clock, masterVars>>

\* An error reply that leaves no row behind.
Decline(r) == Goto(r, "idle", NoJob)

\* _persist_rejected and the normal tail share the stamp and the write.
Reject(r, j) == Goto(r, "stamp", [j EXCEPT !.verdict = "rejected"])
Accept(r, j) == Goto(r, "supersede", [j EXCEPT !.verdict = "accepted"])

\* Mutant: the location filter of _find_duplicate is always is.null.
DuplicatesNowhere(r) ==
    {row \in AcceptedIn(job[r].kind, NoLocation) : row.file = job[r].file}

\* _find_duplicate: accepted rows with this content in this stream.
Duplicates(r) == {row \in AcceptedIn(job[r].kind, job[r].loc) : row.file = job[r].file}

\* A duplicate is answered with the row that was accepted before.  Otherwise
\* workbooks are parsed at once, and stock and orders wait for the master.
FindDuplicate(r) ==
    /\ pc[r] = "dedupe"
    /\ LET j == job[r] IN
         IF Duplicates(r) # {}
         THEN Goto(r, "replied", [j EXCEPT !.answer = NewestAt(Duplicates(r))])
         ELSE \/ j.kind \notin PerLocation /\ j.file \in Malformed /\ Reject(r, j)
              \/ j.kind = "master_data" /\ j.file \notin Malformed /\ Accept(r, j)
              \/ j.kind = "planning_input" /\ j.file \notin Malformed /\ Goto(r, "master", j)
              \/ j.kind \in PerLocation /\ Goto(r, "master", j)

\* _load_master, and the validation that follows it without another read.
LoadMaster(r) ==
    /\ pc[r] = "master"
    /\ LET v == current[Here]
           j == [job[r] EXCEPT !.basis = v]
           fits == <<j.file, v>> \in Fits
       IN IF v = NoVersion \/ (j.kind \in PerLocation /\ j.loc \notin OpenIn[v])
          THEN Decline(r)
          ELSE IF j.kind = "stock" THEN Goto(r, "planning", j)
          ELSE IF fits THEN Accept(r, j) ELSE Reject(r, j)

\* Mutant: the newest planning import, whatever locations it has.
PlanningForAny(l) == WindowOf(AcceptedIn("planning_input", NoLocation), Window)

PlanningFor(l) == {row \in WindowOf(AcceptedIn("planning_input", NoLocation), Window) :
                      l \in Covers[row.file]}

\* import_stock reads the planning import that names the required items, then
\* normalises the export; no planning import for the location is a 409.
LoadPlanning(r) ==
    /\ pc[r] = "planning"
    /\ LET plans == PlanningFor(job[r].loc)
           j == [job[r] EXCEPT !.plan = NewestAt(plans)]
       IN IF plans = {} THEN Decline(r)
          ELSE IF <<j.file, j.basis>> \in Fits THEN Accept(r, j) ELSE Reject(r, j)

\* Mutant: the newest import of the dataset at any location.
SupersedeAnywhere(r) ==
    /\ pc[r] = "supersede"
    /\ LET rows == {row \in ledger : IsAccepted(row) /\ row.kind = job[r].kind}
       IN Goto(r, "stamp", [job[r] EXCEPT !.sup = NewestAt(rows)])

\* _superseded_import_id
Supersede(r) ==
    /\ pc[r] = "supersede"
    /\ Goto(r, "stamp", [job[r] EXCEPT !.sup = NewestAt(AcceptedIn(job[r].kind, job[r].loc))])

\* Mutants: a created_at that runs ahead of the clock, or is chosen by the client.
StampAhead(r) ==
    /\ pc[r] = "stamp"
    /\ pc' = [pc EXCEPT ![r] = "persist"]
    /\ job' = [job EXCEPT ![r].at = clock + 1]
    /\ UNCHANGED <<ledger, clock, masterVars>>

StampAsOf(r) ==
    /\ pc[r] = "stamp"
    /\ pc' = [pc EXCEPT ![r] = "persist"]
    /\ \E n \in 1..MaxStamp : /\ job' = [job EXCEPT ![r].at = n]
                             /\ clock' = IF n > clock THEN n ELSE clock
    /\ UNCHANGED <<ledger, masterVars>>

\* _import_row takes created_at from the process clock, before the write.
Stamp(r) ==
    /\ pc[r] = "stamp"
    /\ \/ /\ clock < MaxStamp
          /\ clock' = clock + 1
          /\ pc' = [pc EXCEPT ![r] = "persist"]
          /\ job' = [job EXCEPT ![r].at = clock + 1]
          /\ UNCHANGED <<ledger, masterVars>>
       \/ clock = MaxStamp /\ Decline(r)   \* the bound: no further imports

Row(j) == [at |-> j.at, kind |-> j.kind, loc |-> j.loc, file |-> j.file,
           basis |-> j.basis, plan |-> j.plan, status |-> j.verdict, sup |-> j.sup]

\* Mutant: a label that exists adds its import to the old version.
PersistAnyLabel(r) ==
    /\ pc[r] = "persist"
    /\ LET j == job[r]
       IN /\ IF j.kind = "master_data" /\ j.verdict = "accepted" /\ ~Known(j.file)
             THEN Draft(j.file) ELSE UNCHANGED masterVars
          /\ ledger' = ledger \cup {Row(j)}
          /\ pc' = [pc EXCEPT ![r] = "replied"]
          /\ job' = [job EXCEPT ![r].answer = j.at]
          /\ UNCHANGED clock

\* persist_source_import_v1, persist_master_import_v1 or the rejected insert.
\* A second version with the same label violates its unique constraint, and
\* the whole transaction fails.
Persist(r) ==
    /\ pc[r] = "persist"
    /\ LET j == job[r]
           newVersion == j.kind = "master_data" /\ j.verdict = "accepted"
       IN \/ /\ newVersion /\ Known(j.file)
             /\ Decline(r)
          \/ /\ newVersion => Draft(j.file)
             /\ ~newVersion => UNCHANGED masterVars
             /\ ledger' = ledger \cup {Row(j)}
             /\ pc' = [pc EXCEPT ![r] = "replied"]
             /\ job' = [job EXCEPT ![r].answer = IF j.verdict = "accepted" THEN j.at ELSE NoRow]
             /\ UNCHANGED clock

\* The client has its answer, or the connection dropped on the way back.
Receive(r) == /\ pc[r] = "replied"
              /\ Goto(r, "idle", NoJob)

\* A store call fails or times out: an error reply, and nothing was written.
StoreFails(r) == /\ pc[r] \notin {"idle", "replied"}
                 /\ Decline(r)

\* activate_master_version: MasterActivation shows it is one atomic Promote.
ActivateMaster(v) ==
    /\ Promote(v)
    /\ job' = [r \in Req |-> IF pc[r] = "idle" THEN job[r]
                             ELSE [job[r] EXCEPT !.served = @ \cup {v}]]
    /\ UNCHANGED <<ledger, clock, pc>>

Progress(r) == \/ FindDuplicate(r)
               \/ LoadMaster(r)
               \/ LoadPlanning(r)
               \/ Supersede(r)
               \/ Stamp(r)
               \/ Persist(r)
               \/ Receive(r)

Next == \/ \E r \in Req, u \in Upload, l \in Location \cup {NoLocation} : Start(r, u, l)
        \/ \E r \in Req : Progress(r) \/ StoreFails(r)
        \/ \E v \in Version : ActivateMaster(v)

Spec == Init /\ [][Next]_vars

-----------------------------------------------------------------------------
(* Properties *)

TypeOK ==
    /\ MasterTypeOK
    /\ clock \in 0..MaxStamp
    /\ pc \in [Req -> PC]
    /\ \A r \in Req : pc[r] # "idle" =>
          /\ job[r].file \in Upload
          /\ job[r].kind = KindOf[job[r].file]
          /\ job[r].loc \in Location \cup {NoLocation}
          /\ job[r].basis \in Version \cup {NoVersion}
          /\ {job[r].sup, job[r].plan, job[r].at, job[r].answer} \subseteq 0..clock
    /\ \A row \in ledger : /\ row.at \in 1..clock
                           /\ row.file \in Upload /\ row.kind = KindOf[row.file]
                           /\ row.status \in {"accepted", "rejected"}

Added == ledger' \ ledger
NewlyAccepted == {row \in Added : IsAccepted(row)}
RowAt(n) == CHOOSE row \in ledger : row.at = n

\* A retry stores nothing twice: a request that began after its content was
\* accepted in its stream (the reply was lost, the user pressed again) never
\* adds another accepted row, whatever other requests do meanwhile.
RetryStoresOnce ==
    [][\A r \in Req, row \in NewlyAccepted :
          pc[r] = "persist" /\ pc'[r] = "replied" =>
             ~\E old \in ledger : /\ old.at \in job[r].before
                                  /\ old.file = row.file
                                  /\ Stream(old) = Stream(row)]_vars

\* New content wins over everything its uploader could have seen: a row that
\* is stored sorts after every row accepted before its request began, even if
\* other requests were stamped earlier and commit later.
NewContentSortsLast ==
    [][\A r \in Req : pc[r] = "persist" /\ pc'[r] = "replied" =>
          \A row \in Added : \A n \in job[r].before : n < row.at]_vars

\* The store is the append-only ledger its readers rely on: stamps are unique,
\* rows stay, and supersession points to an older accepted row of the stream.
ImplementsLedger == LedgerSpec

\* The versions that can be activated are exactly the accepted master rows:
\* racing uploads of one workbook leave one version and one row, and no
\* rejected or half-written import leaves a version behind.
VersionsBacked ==
    /\ \A v \in Version : Known(v) <=>
          \E row \in ledger : IsAccepted(row) /\ row.kind = "master_data" /\ row.file = v
    /\ \A a, b \in ledger : /\ IsAccepted(a) /\ IsAccepted(b)
                            /\ a.kind = "master_data" /\ b.kind = "master_data"
                            /\ a.file = b.file
                            => a = b

\* Stock is stored only with a planning import that is older than it, covers
\* its location and so named its required items.
StockHasPlan ==
    \A row \in ledger : row.kind = "stock" =>
        \E plan \in ledger : /\ plan.at = row.plan /\ plan.at < row.at
                             /\ IsAccepted(plan) /\ plan.kind = "planning_input"
                             /\ row.loc \in Covers[plan.file]

-----------------------------------------------------------------------------
(* What a document promises and deduplication breaks.                       *)

\* "Stock and observed PO lines are corrected ... in the maintained item
\* mapping and then re-imported": the rows an upload is answered with were
\* normalised under a master version that was current during that upload.
ReimportUsesMapping ==
    \A r \in Req : /\ pc[r] = "replied" /\ job[r].answer # NoRow
                   /\ job[r].kind \in PerLocation
                   => RowAt(job[r].answer).basis \in job[r].served
=============================================================================
