---------------------------- MODULE PlanningRuns ----------------------------
(***************************************************************************)
(* POST /planning-runs (create_planning_run) and GET planning-status       *)
(* (planning_status), several of each in flight, against the ledger of     *)
(* imports and the active master version, which other users change at the  *)
(* same time.  Both handlers read the store several times and see whatever *)
(* is committed at each read; a run's id is the hash of what it was given. *)
(*                                                                         *)
(* Imports and activations are those the abstract ImportLedger and         *)
(* ActiveMaster allow, which SourceImports and MasterActivation implement. *)
(***************************************************************************)
EXTENDS ImportLedger, ActiveMaster

CONSTANTS Here,       \* the workspace and environment of the API process
          Location,
          Upload, KindOf, Covers, OpenIn, Window,   \* as in SourceImports
          Text,       \* upload -> its normalised rows and source version
          Plannable,  \* triples <<planning text, version, as_of>> the engine accepts
          AsOf,       \* planning_as_of_at values a request may carry
          Pinnable,   \* kinds for which a request may name an import id
          ImportStatus,
          Runner,     \* planning-run requests in flight together
          Reader,     \* planning-status requests in flight together
          MaxRows,    \* bound on imports
          MaxRuns     \* bound on runs

RunKinds == {"planning_input", "stock", "purchase_orders"}

ASSUME HereAssumption == Here \in Scope /\ \A v \in Version : Home[v] = Here
ASSUME UploadAssumption == \A u \in Upload : KindOf[u] \in RunKinds
ASSUME PinAssumption == Pinnable \subseteq RunKinds
ASSUME NoLocationAssumption == NoLocation \notin Location
ASSUME BoundsAssumption == MaxRows \in Nat /\ MaxRuns \in Nat /\ Window \in Nat

VARIABLES runs,    \* committed planning_runs rows with their planning_run_inputs
          runClock,\* the last planning_runs.created_at handed out
          pc, job, \* planning-run requests: the await they are at, their locals
          rpc, seen\* planning-status requests, likewise

runVars == <<runs, runClock, pc, job>>
readVars == <<rpc, seen>>
envVars == <<ledger, masterVars>>
vars == <<envVars, runVars, readVars>>

NoRun == [key |-> <<"none">>, at |-> 0]
NoInputs == [k \in RunKinds |-> NoRow]

NoJob == [loc |-> NoLocation, asOf |-> 0, pin |-> NoInputs, version |-> NoVersion,
          inputs |-> NoInputs, at |-> 0, before |-> {}, served |-> {}, answer |-> NoRun]

NoView == [loc |-> NoLocation, version |-> NoVersion, todo |-> {}, latest |-> NoInputs,
           run |-> NoRun, before |-> {}, served |-> {}, current |-> FALSE]

Init == /\ LedgerInit /\ MasterInit
        /\ runs = {} /\ runClock = 0
        /\ pc = [q \in Runner |-> "idle"]
        /\ job = [q \in Runner |-> NoJob]
        /\ rpc = [d \in Reader |-> "idle"]
        /\ seen = [d \in Reader |-> NoView]

-----------------------------------------------------------------------------
(* The environment *)

PlacesFor(u) == IF KindOf[u] \in PerLocation THEN Location ELSE {NoLocation}

FreeStamps == (1..MaxRows) \ {row.at : row \in ledger}

\* An upload is committed with any stamp that is still free: rows may become
\* visible out of order.  Content that is accepted twice is two uploads here,
\* with the same Text.
AcceptImport(u, l, n, s) ==
    LET row == [at |-> n, kind |-> KindOf[u], loc |-> l, file |-> u,
                status |-> s, sup |-> NoRow]
    IN /\ \A old \in ledger : old.file # u \/ old.loc # l
       /\ Appendable(row)
       /\ ledger' = ledger \cup {row}
       /\ UNCHANGED <<masterVars, runVars, readVars>>

ImportMaster(v) == Draft(v) /\ UNCHANGED <<ledger, runVars, readVars>>

\* served: the versions that have been current since a request began.
ActivateMaster(v) ==
    /\ Promote(v)
    /\ job' = [q \in Runner |-> IF pc[q] = "idle" THEN job[q]
                                ELSE [job[q] EXCEPT !.served = @ \cup {v}]]
    /\ seen' = [d \in Reader |-> IF rpc[d] = "idle" THEN seen[d]
                                 ELSE [seen[d] EXCEPT !.served = @ \cup {v}]]
    /\ UNCHANGED <<ledger, runs, runClock, pc, rpc>>

-----------------------------------------------------------------------------
(* Reads of the ledger *)

RowAt(n) == CHOOSE row \in ledger : row.at = n

\* Candidates for the latest import of kind k at location l.
\* Planning workbooks are searched in a window of the newest ones.
Candidates(k, l) ==
    IF k = "planning_input"
    THEN {row \in WindowOf(AcceptedIn(k, NoLocation), Window) : l \in Covers[row.file]}
    ELSE AcceptedIn(k, l)

LatestFor(k, l) == NewestAt(Candidates(k, l))

\* Every accepted row that plans location l, whatever the window shows.
RelevantRows(l) == {row \in ledger : /\ IsAccepted(row)
                                     /\ \/ row.loc = l
                                        \/ row.kind = "planning_input" /\ l \in Covers[row.file]}

-----------------------------------------------------------------------------
(* create_planning_run *)

\* The import ids a request may carry: any that exist, for the pinnable kinds.
Pins == LET ids == {row.at : row \in ledger} \cup {NoRow}
        IN {[k \in RunKinds |-> IF k \in Pinnable THEN pin[k] ELSE NoRow] :
               pin \in [Pinnable -> ids]}

\* A POST with an as_of and import ids.
\* before: the rows that counted for this location when the request began.
StartRun(q, l, t, pin) ==
    /\ pc[q] = "idle"
    /\ pc' = [pc EXCEPT ![q] = "master"]
    /\ job' = [job EXCEPT ![q] = [NoJob EXCEPT !.loc = l, !.asOf = t, !.pin = pin,
                                               !.before = RelevantRows(l),
                                               !.served = {current[Here]}]]
    /\ UNCHANGED <<envVars, runs, runClock, readVars>>

Goto(q, p, j) == /\ pc' = [pc EXCEPT ![q] = p]
                 /\ job' = [job EXCEPT ![q] = j]
                 /\ UNCHANGED <<envVars, runs, readVars>>

\* An error reply: nothing was stored.
Decline(q) == Goto(q, "idle", NoJob) /\ UNCHANGED runClock

\* _load_master and _location
LoadMaster(q) ==
    /\ pc[q] = "master"
    /\ LET v == current[Here] IN
         IF v = NoVersion \/ job[q].loc \notin OpenIn[v]
         THEN Decline(q)
         ELSE Goto(q, "select", [job[q] EXCEPT !.version = v]) /\ UNCHANGED runClock

\* Mutant: a pinned import only has to have the kind.
SelectableKind(q, k, row) == row.kind = k

\* A pinned import must have the kind, be accepted and, unless it is a planning
\* workbook, belong to the location.
Selectable(q, k, row) ==
    /\ row.kind = k
    /\ IsAccepted(row)
    /\ k \in PerLocation => row.loc = job[q].loc

\* _selected_import, one of three that asyncio.gather awaits in any order.
Select(q, k) ==
    /\ pc[q] = "select"
    /\ job[q].inputs[k] = NoRow
    /\ LET n == IF job[q].pin[k] = NoRow THEN LatestFor(k, job[q].loc) ELSE job[q].pin[k]
           j == [job[q] EXCEPT !.inputs[k] = n]
       IN IF n = NoRow \/ ~Selectable(q, k, RowAt(n))
          THEN Decline(q)
          ELSE Goto(q, IF \E x \in RunKinds : j.inputs[x] = NoRow THEN "select" ELSE "engine", j)
               /\ UNCHANGED runClock

\* Mutant: the stock is left out of the hash.
KeyWithoutStock(j) ==
    <<j.loc, j.asOf, j.version,
      [k \in RunKinds \ {"stock"} |-> Text[RowAt(j.inputs[k]).file]]>>

\* What run_improved_plan hashes: the text of its inputs, not their ids.
Key(j) == <<j.loc, j.asOf, j.version, [k \in RunKinds |-> Text[RowAt(j.inputs[k]).file]]>>

\* Mutant: two payloads may carry one created_at.
CalculateUnstamped(q) ==
    /\ pc[q] = "engine"
    /\ Goto(q, "lookup", [job[q] EXCEPT !.at = runClock + 1])
    /\ UNCHANGED runClock

\* run_improved_plan, and the payload with its created_at.  The engine raises
\* when a planned item is not in the master or a forecast lies in the past.
Calculate(q) ==
    /\ pc[q] = "engine"
    /\ LET j == job[q]
           plan == Text[RowAt(j.inputs["planning_input"]).file]
       IN IF <<plan, j.version, j.asOf>> \notin Plannable \/ runClock = MaxRuns
          THEN Decline(q)
          ELSE /\ runClock' = runClock + 1
               /\ Goto(q, "lookup", [j EXCEPT !.at = runClock + 1])

\* persist_planning_run_v1 looks for the run id, and returns an existing run.
LookupRun(q) ==
    /\ pc[q] = "lookup"
    /\ LET same == {run \in runs : run.key = Key(job[q])} IN
         IF same = {} THEN Goto(q, "insert", job[q])
         ELSE \E run \in same : Goto(q, "replied", [job[q] EXCEPT !.answer = run])
    /\ UNCHANGED runClock

\* Mutant: no primary key on the run id.
InsertDuplicate(q) ==
    /\ pc[q] = "insert"
    /\ LET j == job[q]
           run == [key |-> Key(j), at |-> j.at, loc |-> j.loc, version |-> j.version,
                   inputs |-> j.inputs]
       IN /\ runs' = runs \cup {run}
          /\ pc' = [pc EXCEPT ![q] = "replied"]
          /\ job' = [job EXCEPT ![q].answer = run]
          /\ UNCHANGED <<envVars, runClock, readVars>>

\* The insert of the run and its children commits in one transaction; the
\* primary key rejects a run that was committed since the lookup.
InsertRun(q) ==
    /\ pc[q] = "insert"
    /\ LET j == job[q]
           run == [key |-> Key(j), at |-> j.at, loc |-> j.loc, version |-> j.version,
                   inputs |-> j.inputs]
       IN IF \E old \in runs : old.key = run.key
          THEN Goto(q, "conflict", j) /\ UNCHANGED runClock
          ELSE /\ runs' = runs \cup {run}
               /\ pc' = [pc EXCEPT ![q] = "replied"]
               /\ job' = [job EXCEPT ![q].answer = run]
               /\ UNCHANGED <<envVars, runClock, readVars>>

\* The reply, which may be lost; a retry is a new request.
ReceiveRun(q) == pc[q] \in {"replied", "conflict"} /\ Decline(q)

\* A store call fails or times out before the commit.
RunFails(q) == pc[q] \notin {"idle", "replied", "conflict"} /\ Decline(q)

RunProgress(q) == \/ LoadMaster(q)
                  \/ \E k \in RunKinds : Select(q, k)
                  \/ Calculate(q)
                  \/ LookupRun(q)
                  \/ InsertRun(q)
                  \/ ReceiveRun(q)

-----------------------------------------------------------------------------
(* planning_status *)

\* The reads _planning_statuses gathers: both location kinds come in one query.
Reads == {"planning", "location", "runs"}

StartStatus(d, l) ==
    /\ rpc[d] = "idle"
    /\ rpc' = [rpc EXCEPT ![d] = "master"]
    /\ seen' = [seen EXCEPT ![d] = [NoView EXCEPT !.loc = l,
                                                  !.before = RelevantRows(l),
                                                  !.served = {current[Here]}]]
    /\ UNCHANGED <<envVars, runVars>>

See(d, p, view) == /\ rpc' = [rpc EXCEPT ![d] = p]
                   /\ seen' = [seen EXCEPT ![d] = view]
                   /\ UNCHANGED <<envVars, runVars>>

\* Without an active version or an open location the master is a blocker, and
\* no run is current.
ReadMaster(d) ==
    /\ rpc[d] = "master"
    /\ LET v == current[Here]
           usable == v # NoVersion /\ seen[d].loc \in OpenIn[v]
       IN See(d, "gather", [seen[d] EXCEPT !.version = IF usable THEN v ELSE NoVersion,
                                           !.todo = Reads])

\* What one of the gathered reads adds to the view.
Learn(view, read) ==
    CASE read = "planning" ->
            [view EXCEPT !.latest["planning_input"] = LatestFor("planning_input", view.loc)]
      [] read = "location" ->
            [view EXCEPT !.latest["stock"] = LatestFor("stock", view.loc),
                         !.latest["purchase_orders"] = LatestFor("purchase_orders", view.loc)]
      [] read = "runs" ->
            LET own == {run \in runs : run.loc = view.loc}
            IN [view EXCEPT !.run = IF own = {} THEN NoRun ELSE Newest(own)]

Gather(d, read) ==
    /\ rpc[d] = "gather"
    /\ read \in seen[d].todo
    /\ See(d, "gather", [Learn(seen[d], read) EXCEPT !.todo = @ \ {read}])

\* The import ids the run recorded for planning, stock and orders.
UsedIds(run) == {run.inputs[k] : k \in RunKinds}

\* Mutant: one import in common is enough.
SharesImport(view) ==
    /\ view.run # NoRun
    /\ view.version # NoVersion
    /\ ({view.latest[k] : k \in RunKinds} \ {NoRow}) \cap UsedIds(view.run) # {}
    /\ view.run.version = view.version

\* latest_run_is_current: the ids that exist now are among those the run used,
\* and it ran with the version that was read.
IsCurrent(view) ==
    /\ view.run # NoRun
    /\ view.version # NoVersion
    /\ {view.latest[k] : k \in RunKinds} \ {NoRow} \subseteq UsedIds(view.run)
    /\ view.run.version = view.version

Report(d) == /\ rpc[d] = "gather"
             /\ seen[d].todo = {}
             /\ See(d, "report", [seen[d] EXCEPT !.current = IsCurrent(seen[d])])

ReceiveStatus(d) == rpc[d] = "report" /\ See(d, "idle", NoView)

StatusFails(d) == rpc[d] \in {"master", "gather"} /\ See(d, "idle", NoView)

StatusProgress(d) == \/ ReadMaster(d)
                     \/ \E read \in Reads : Gather(d, read)
                     \/ Report(d)
                     \/ ReceiveStatus(d)

-----------------------------------------------------------------------------
Next == \/ \E u \in Upload, n \in FreeStamps, s \in ImportStatus :
              \E l \in PlacesFor(u) : AcceptImport(u, l, n, s)
        \/ \E v \in Version : ImportMaster(v) \/ ActivateMaster(v)
        \/ \E q \in Runner, l \in Location, t \in AsOf, pin \in Pins : StartRun(q, l, t, pin)
        \/ \E q \in Runner : RunProgress(q) \/ RunFails(q)
        \/ \E d \in Reader, l \in Location : StartStatus(d, l)
        \/ \E d \in Reader : StatusProgress(d) \/ StatusFails(d)

Spec == Init /\ [][Next]_vars

-----------------------------------------------------------------------------
(* Properties *)

TypeOK ==
    /\ MasterTypeOK
    /\ \A row \in ledger : row.at \in 1..MaxRows /\ row.kind \in RunKinds
    /\ runClock \in 0..MaxRuns
    /\ \A run \in runs : /\ run.at \in 1..runClock
                         /\ run.loc \in Location /\ run.version \in Version
                         /\ run.inputs \in [RunKinds -> 1..MaxRows]
    /\ pc \in [Runner -> {"idle", "master", "select", "engine", "lookup", "insert",
                          "conflict", "replied"}]
    /\ rpc \in [Reader -> {"idle", "master", "gather", "report"}]
    /\ \A d \in Reader : seen[d].current \in BOOLEAN /\ seen[d].todo \subseteq Reads

\* Two requests for the same plan never leave two runs, however their lookups
\* and inserts interleave.
OneRunPerKey == \A a, b \in runs : a.key = b.key => a = b

\* Whatever a stored run used was finalised as accepted, of the right kind and
\* of its own location, pinned or not.
InputsAdmissible ==
    \A run \in runs, k \in RunKinds : \E row \in ledger :
        /\ row.at = run.inputs[k] /\ row.kind = k /\ IsAccepted(row)
        /\ k \in PerLocation => row.loc = run.loc

\* No row that was relevant before a request is newer than the run's input.
UpToDate(run, before, kinds) ==
    \A row \in before : row.kind \in kinds => row.at <= run.inputs[row.kind]

\* A run reported as current used, for every source, data at least as new as
\* all that was accepted before the status was asked for, and a version that
\* was current while it was being answered: never an overtaken run, whatever
\* order its reads took and whatever was stored between them.
CurrentIsCurrent ==
    \A d \in Reader : rpc[d] = "report" /\ seen[d].current =>
        /\ UpToDate(seen[d].run, seen[d].before, RunKinds)
        /\ seen[d].run.version \in seen[d].served

\* "Newer accepted data exists ...: Recalculate before acting": the run that a
\* calculation answers with used data at least as new as all that was accepted
\* before it was asked for.
RecalculationCatchesUp ==
    \A q \in Runner : pc[q] = "replied" =>
        /\ UpToDate(job[q].answer, job[q].before, {k \in RunKinds : job[q].pin[k] = NoRow})
        /\ job[q].answer.version \in job[q].served
=============================================================================
