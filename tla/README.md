# Supply planning: a TLA+ model

This directory models the supply-planning program of this repository: the
planning API and its store, the transactions of the database, who may use
them, the browser's cache, the way from files to a plan and the calculation of
projections and order proposals. TLC checks the modules on
small instances; TLAPS proves the theorems for all instances.

`tlc -workers 2 -config X.cfg MC_M.tla` runs a check, `tlapm M_proofs.tla` a proof.

## 1. The system

```
 browser (apps/web)                API (apps/api)                 store (supabase)
 pages - useApiResource            routes - PlanningBackend       source_imports
       - resourceCache  <--HTTP--> imports, runs, status  <-RPC-> master_data_versions
       - useMutation               engine (src/supply_planning)   planning_runs
 AuthProvider                      activation                     SQL functions
```

A maintainer uploads a **master workbook** (locations, items, recipes, rules),
which becomes a *draft* version and is *activated* explicitly; a **planning
workbook** (forecasts), **stock exports** and **purchase orders** for a
location. Every upload is a row of `source_imports`, *accepted* or *rejected*,
never changed afterwards. A **planning run** picks the active master and the
newest accepted import of each kind, calculates demand, projection and order
proposals, and is stored under a hash of its inputs. The status read compares a
run's inputs with the newest ones and calls the run *current* or *out of date*.
The browser caches each resource and refreshes it after writes.

| Component | State | Operations | What is hard | Correct when |
|---|---|---|---|---|
| Master activation (`202609040008_user_workspace_isolation.sql:749`) | status of each version, row locks | import a draft, activate | racing transactions at READ COMMITTED, aborts | at most one active version per workspace and environment, never none once there was one, archived for good |
| Import service (`services.py:270-1039`) | `source_imports`, versions | four uploads, each a chain of store calls | awaits between check and write, lost replies, client-side time stamps | append-only ledger, retries store once, new content sorts last, stock has a plan |
| Planning runs (`services.py:1314-1680`) | `planning_runs` and their inputs | create a run | inputs move while they are read, two requests with one hash | one run per input, inputs accepted and of the location |
| Planning status (`services.py:2202-2370`) | none of its own | status reads | several reads of a moving store, a limit of 25 rows | a run called current used everything accepted before |
| Overview, inventory, location view (`services.py:2389-2760`) | none | reads | as the status | agree with it |
| Resource cache (`resourceCache.ts`, `useApiResource.ts`, `apiClient.ts`) | entries, requests, listeners, owner | load, refetch, prime, invalidate, clear | answers, acknowledgements and session events in any order | stale data is flagged and refreshed, open pages listen |
| Session (`AuthProvider.tsx`, `RequireAuth.tsx`) | session, cache owner | restore, auth events, sign-out | event order | one user's data is never shown to another |
| Projection (`engine/netting.py`) | none, pure | project a balance by day, classify risk | boundaries of the horizon, nesting of scenarios | more supply never covers less, a late receipt does not count |
| Recommendation (`engine/recommend.py`) | the receipts planned so far | size one order per cycle | caps against rounding, overlapping windows | within the caps, covers its window, nothing expires |
| A run (`run_improved.py`, `explode.py`, `validation/gates.py`) | none | gate, explode, select counts, plan, report | many ways to fall short, each with a check of its own; rows normalised under an older master | strict modes rest on counts, gaps are reported, silence is safe |
| Sources (`adapters/`, `run_template_v1.py`, `_assemble_sources`) | none | read workbooks, exports and documents, build a bundle | three ways to one bundle; dates and time zones; lines that do not map | no order is lost or counted twice, on its own day |
| Access (`auth.py`, `authorization.py`, `routes.py`, migration 008) | profiles, memberships, defaults, grants | sign-up, resolve a scope, permit, store, read back | records change between the reads of a request; one policy in two languages | rows are stored with permission, and shown to who stored them |
| Writers, legacy KW34, scripts | none | write, compute | text formats | out of scope, see section 7 |

## 2. Modules

| Module | Models | Composition |
|---|---|---|
| `ActiveMaster` | what activation promises: drafts, one current version per scope, retired versions; `Promote` is one step | abstract |
| `MasterActivation` | `activate_master_data_version_v1` statement by statement | implements `ActiveMaster` (`ImplementsActiveMaster`) |
| `MasterActivation_proofs` | theorems about it | |
| `ImportLedger` | what the readers of `source_imports` assume: unique stamps, rows stay, `Newest` | abstract |
| `ImportLedger_proofs` | what the newest of a bounded set of rows is | used by the two proofs below |
| `SourceImports` | the four upload handlers, one action per store call | extends `ActiveMaster` for the versions, implements `ImportLedger` (`ImplementsLedger`) |
| `SourceImports_proofs` | theorems about it, and that it implements the ledger | |
| `PlanningRuns` | `create_planning_run` and `planning_status` | extends `ImportLedger` and `ActiveMaster` as its environment |
| `PlanningRuns_proofs` | theorems about it | |
| `ResourceCache` | the browser's cache and its clients | |
| `ResourceCache_proofs` | theorems about it | |
| `ItemInputs` | stock, demand and open orders of one item | |
| `Projection` | `project_inventory` and what is read off its result | extends `ItemInputs`; `ProjectionSpec` is the projection of any receipts |
| `Recommendation` | `schedule_recommendations` for one item | extends `ItemInputs` |
| `PlanningEngine` | `run_improved_plan` from the exploded demand on | composes the two, implements `ProjectionSpec` (`ImplementsProjection`) |
| `PlanningEngine_proofs` | theorems about `ProjectionSpec` and about the engine, and the inductions over days and lines they need | |
| `CanonicalBundle` | `canonical_csv.py`: nine datasets, their guards and what `_validate_bundle` demands between them | operators |
| `OrderDocuments` | `transgourmet_pdf.py`: rows of a document, its lines and totals, the file helper | operators |
| `SourceFiles` | `template_xlsx.py`, `apicbase_stock_xlsx.py`, `transgourmet_v1.py` and how the command line and the API build a bundle from them | extends the two before |
| `ImprovedRun` | a plan from its sources to its answer, on all three ways | composes `SourceFiles` and `PlanningEngine` |
| `ImprovedRun_proofs` | theorems about whole runs | extends `PlanningEngine_proofs`: each item of a run is an instance of the engine |
| `Access` | requests, their scopes and the records of migration 008 | |
| `Access_proofs` | theorems about it | |
| `MC_*` | instances for TLC | |

### MasterActivation

`status` is the committed status of a version (`"absent"` before its insert),
`lock` the row locks, `pc` the statement a transaction is about to run.
`Request` is `PlanningBackend.activate_master_version` (`services.py:1049`);
the rest are the statements of the SQL function: `Refuse`, `AlreadyActive` and
`LockDraft` are the outcomes of `SELECT ... FOR UPDATE` and the checks after it,
`ScanActive` and `ArchiveRow` the archiving update (snapshot first, then one
row at a time with a lock and a re-check, as READ COMMITTED does), `Activate` and
`UniqueViolation` the activating update against the partial unique index,
`Commit` the end, `Abort` a dropped connection at any point. `Pending` is how
the index sees uncommitted rivals: an insert waits for them. PostgreSQL is not
in the repository; these four rules of it are marked external in the map.

### SourceImports

A request walks `dedupe -> master -> planning -> supersede -> stamp -> persist`, as far as
its handler does; `job` is what the handler keeps in local variables. An upload
is a model value: `Fits` says which files parse and validate against which
version, `Covers` which locations a planning workbook has forecasts for. `Decline` is an
error reply before a row is written, `Reject` the row `_persist_rejected`
writes. `before` and `served` are history: the stamps accepted and the versions
current since a request began; no guard reads them.
The `created_at` of a row is taken by the process before the write
(`services.py:386`), so rows may be committed out of stamp order.

### PlanningRuns

`runs` holds the stored runs with the imports they used. `Select` is
`_selected_import`, in any order for the three kinds, as `asyncio.gather` awaits them; `Key`
is the hash of what the engine was given, which is *text*, not import ids;
`LookupRun` and `InsertRun` are the two statements of `persist_planning_run_v1`.
A status read (`rpc`, `seen`) gathers its facts one by one while the store moves.
Imports are committed with any free stamp, which is what `SourceImports` allows.

### ResourceCache

An action is one JavaScript callback with every synchronous call it makes.
`entry` and `request` are the cache entry of a key and the request behind
`entry.inFlight`; `sub` says whether a page's listener is attached to the entry that is in
the map (`"live"`) or to one that was dropped (`"orphan"`). The server is a
counter of committed writes and data is the number it reflects. `acked` is
history: the newest acknowledged write that changed a key.
The order in which the auth client reports events and restores a session is
external, and any order is allowed.

### Projection, Recommendation, PlanningEngine

The engine treats each item at each location by itself, so one item at one
location is modelled. `stage` follows `run_improved_plan`: in `"schedule"` each
step is one pass of the loop over the delivery cycles (`PlanCycle`); `Project`
turns the proposals into candidate receipts, or ends in `"failed"` when
`_validate_scope` raises; in `"project"` each step is one day (`Walk`).
`run_improved_plan` projects an item three times, with stock only, with open orders, and
with the proposals. The three loops share nothing they write, so
the model runs them in lockstep, which makes their comparison an invariant.

Quantities are whole numbers of grams, or of a smaller unit. `yield_factor`, `min_safety_days` and
`max_cover_days` are the decimals that are added to or compared with others: each is a
number of parts, and `policy.parts` of them make one, so 1.05 is 21 parts of
20. `_require_positive` (`models.py:287`) asks no more of a yield factor than that it is positive, so factors below
one are instances too. The other decimals, such as packs of an order unit, portions, minimum and case
multiple, only occur as factors of a quantity and are whole numbers of a fraction of their unit. `Exact` says
that the unit is small enough for every division (the demand times the yield factor, the average behind the safety
stock, the share of the last day of cover) to have no remainder, and `TypeOK` fails if one has. An item that is not fresh has one cycle, from the
planning date to lead time plus review period; a fresh one has a cycle for each delivery day
of an active rule whose covered days have demand. `Balance` is the balance an order
is sized by, which forgets a shortage before the receipt; `Close` is the
projection's, which carries it on. `PlanWorks` relates the two.

Orders are sized by the demand times the yield factor, the projection runs down the demand as it is
forecast. `PlanWorks` therefore speaks of factors of at least one, an allowance for loss. A factor below one, which
the code accepts, orders less than the projection takes: with 1/2, lead time 0, review period 3, an
empty store and a demand of 100 a day the order is 150, feasible and uncapped, and the projection of the plan is
negative on day 1. Such an item is not silent, because the report judges by the projection
(`SilenceIsSafe` holds for every factor). `NoOrderWithoutNeed` is the converse and speaks of factors of at most one.

### CanonicalBundle, OrderDocuments, SourceFiles

A bundle is a record of nine sets of rows. `Accepts` is `load_canonical_bundle`: the
guards of each row, the keys, and the checks between the datasets. Texts,
enumerations and formats are parsed before a row exists and are left out.
A source has an `origin`: `"files"` are canonical CSV files, `"template"` is `v1-run`, `"store"`
the API. `TemplateReads` and `UploadsAccepted` are what each way refuses,
`Bundle` what it builds. The API joins the active master with rows that were
normalised under the master and the planning workbook of their upload: a source
from the store carries both (`master` and `imported`, `plan` and `stockPlan`).

A document is the sequence of its recognised rows, so which delivery a line
belongs to and how often an article has occurred before are computed as the code does.
An instant is a half day: midnight of a local day is its first half, which may be
the day before in UTC (`Offset`); `SeenDay` is the day the code takes from it,
with the offset the timestamp has where it is read.

### ImprovedRun

`phase` follows `run_improved_plan`; `outcome` says how the run was answered: with a
plan, blocked, refused, or one of the errors that leave it. All of the demand
goes through the gates and the explosion; then one item at one location, the
`key`, is planned by the engine step by step, for every key in turn. Sources do not
change during a run, so what the engine will be given of the key (`EngineInputs`) is fixed in
`RunInit`. With `NoSource` the engine runs by itself, on inputs no source of the
instance has; its properties are checked on both.

### Access

The records are the tables of migration 008; administrators change them at any
time (no code of the repository does, so these actions are external, within the
constraints of the tables). A request is verified, reads profile, membership and grants one after
the other (`ReadProfile`, `ReadMembership`, `ReadGrants`), is let through or not (`Route`), looks its location
up (`Backend`), is stored under the checks of the store and the triggers
(`Persist`, `Activate`) and reads back what it stored (`ReadBack`). `Permits` is the policy in
Python, `ActorAllowed` the one in SQL. A trigger and its insert are one
transaction that reads the records once, so a change that commits meanwhile is ordered after
it. A run id is a hash of content, so it is modelled by what
distinguishes contents: the location and the locations the scope can see.

## 3. Runs

| Run | Instance | Shows |
|---|---|---|
| `MasterActivation` | 3 requests, 3 versions of one scope and 1 of another | the inductive invariant, one active version, never without a master, archived for good, refinement, every activation ends |
| `SourceImports` | 2 requests; either 2 master workbooks with a good and a malformed planning workbook and 4 stamps, or stock and orders at 2 locations of which 1 is planned and 5 stamps | versions are exactly the accepted masters, new content sorts last, stock has a plan, a retry stores once, refinement of the ledger |
| `PlanningStatus` | up to 5 imports; either 1 calculation and 1 status read with two more uploads, or with one and a second version; or 2 calculations with pinned stock, 2 locations and rejected rows | a run called current is, recalculation catches up while texts differ, one run per key, admissible inputs |
| `CacheWrites` | 2 pages, 3 keys, 2 kinds of write, 1 user, 2 committed writes | stale data is flagged and refreshed |
| `ImprovedRun` | 6 forecast days; 183 policies with 2 stocks and 6 sets of open orders for the engine alone; bundles, workbooks, exports and documents of 2 items for whole runs | strict plans rest on counts, gaps are reported, no order is lost or counted twice, both importers agree, silence is safe, validated input is answered and nothing is left out of a plan unnamed; more supply never shortens the runway, late receipts do not count, proposals respect pack and caps, nothing expires, a plan without warnings works, nothing is ordered without need, refinement of the projection |
| `Access` | 2 users, 2 workspaces, 1 location, 2 requests, 2 changes of records | rows are stored with permission of that moment, the two policies agree, what was stored is answered |
| `ReimportMapping` | stock uploaded again after a new mapping | **violated**: the old normalisation answers |
| `PlanningRecalc` | two uploads of the same orders | **violated**: recalculating leaves the run out of date |
| `PlanningWindow` | window of 1 row, 2 locations | **violated**: a run is called current although newer accepted data exists |
| `CacheListeners` | 2 users, restore after an auth event | **violated**: an open page listens to a dropped entry |
| `EngineLeadTime` | a lead time longer than the forecast | **violated**: the calculation fails instead of answering |
| `ReceiptDay` | plans from the store, a location east of UTC | **violated**: an order counts a day early |

### Bounds

Two requests in flight are enough for every check-then-write race of a handler,
since it writes once; three activations let one archive, one wait and one scan.
`MaxStamp`, `MaxRows`, `MaxRuns` and `MaxServer` bound counters that only grow:
they leave room for one row more than each race needs. The window of 25 planning
imports never fills in the passing runs; `PlanningWindow` sets it to 1, which
stands for 25 newer workbooks of other locations. `PlanningStatus` and its
siblings start from a workspace that is ready to plan (`ReadyInit`), a state the
uploads of `SourceImports` reach, so that the interesting part fits the bound. A clock
at its bound declines further imports. Two runs ask two questions each with one state space
(`Mixture`, `StatusMix` and `RunMix` in the MC modules): each
half holds the requests and rows that can disturb each other.

Six forecast days (`End`) hold three fresh deliveries that follow each other, overlap
or share a day, and windows that reach past the forecast; `Last` is a week
more, as far as a covered weekday can be. The 183 policies are nine ways of ordering (lead times,
safety stock, yield factors of 1/2, 1, 5/4 and 3/2, rules that overlap or expire) under five caps (shelf life from the
order or from the receipt, cover of one and a half or two days, both) with four packs
(minimum, case multiple, units that do and do not divide the demand), and three at the
edge: a lead time past the forecast, and no active rule. Whole runs take one
fault at a time: each of the bundles differs from a good one in the rows one check is
about, and the workbooks, exports and documents are combined, so that a
mapping that changed meets every export and every document. A document has up to two deliveries
and three articles, which is one more than an occurrence can repeat.

`Access` starts from an owner and a user who is about to sign up (two changes), has done so, or
has been invited as a planner; two changes are a demotion and a grant, or a default
that moves back and forth. A third request or change repeats them: a request reads each
record once and its row is checked once more. Owners and administrators may do the same,
so one role stands for both. Requests and places are symmetric there, requests in
`SourceImports` and calculations in `PlanningStatus`; none of these runs checks liveness.

### Deadlock and fairness

Only `Access` switches deadlock checking off: its requests are made once and end. Safety runs use plain `Spec`. `ActivationsEnd` assumes strong fairness
of each transaction's next statement: PostgreSQL grants row locks
in the order they were asked for, so a waiter that is enabled again and again runs.
`StaleIsRefreshed` assumes that the network answers each request in the end, with data
or an error; nobody is assumed to click, mount or write.

### Findings

1. `ReimportMapping`: the guide tells maintainers to correct the item mapping
   and import again; an unchanged export is answered by `_find_duplicate` with the
   rows of the old mapping.
2. `PlanningRecalc`: a run's id is a hash of content, its currency a comparison of
   import ids; a newer import with the same content makes a run out of date for
   good at that planning time, recalculated or not.
3. `PlanningWindow`: behind 25 newer planning workbooks for other locations
   a location's planning import disappears from the comparison, and a run made
   with an older one is called current.
4. `CacheListeners`: session restore clears the cache after a page has mounted
   on an earlier auth event; the page's subscription belongs to a dropped entry
   and the page stays as it is until it is left.
5. `EngineLeadTime`: a proposal for an item whose lead time is longer than the forecast is
   due after the last projected day. The projection refuses it with a
   `ValueError`, and the calculation fails for every item, where the
   guide promises the answer *not fully checked*.
6. `ReceiptDay`: the date of a delivery is stored as local midnight, read back in UTC and
   taken from the UTC timestamp: east of Greenwich a delivery of tomorrow counts
   today, which may hide a shortage, and one of today is overdue and does not count.

## 4. Proofs

The proofs of a module are in the module with its name and `_proofs`. Each begins with an
inductive invariant (`IInv`; `PInv` of the projection, `EInv` of the engine, `RInv` of a run), and the
other theorems follow from it.
They hold for every value of the constants that satisfies the named assumptions:
any number of users, requests, uploads, locations, versions and keys, and any bound.

### MasterActivation

`MasterActivation_proofs` proves, for any sets of versions, scopes and
transactions, from `HomeAssumption`, `NoVersionAssumption` and `NoTxnAssumption`:

- `TypeCorrect`, `Inductive` (`Spec => []IInv`), `OneActive` (`[]AtMostOneActive`);
- `MasterKept` (`NeverWithoutMaster`) and `RetiredForGood` (`ArchivedForGood`), action properties;
- `Refinement` (`Spec => Master!MasterSpec`).

`AtMostOneActive` is not inductive: a commit makes a version active, and only
the history of its transaction says that no rival is. The strengthening `IInv` adds
what a transaction knows at each statement: it holds the lock of its draft
(`HoldsDraft`), so the draft cannot be archived or activated by others; the
rows it archived are locked and still active for everybody else
(`HoldsArchived`), so nobody else archives them; and past the index check its slot
is its own (`OwnsSlot`). `Activate` establishes the last one from the guard that is
the unique index, every other step preserves it because a rival would have had to
pass the same guard. The proof has one step per action and
one per conjunct an action can disturb. Refinement follows step by step: `Commit` of a
transaction is `Promote`, an insert is `Draft`, everything else
stutters, because `ActiveIn` is determined by `AtMostOneActive`.

### SourceImports

`SourceImports_proofs` proves, from `UploadAssumption` (the types of the tables that describe
the uploads), `HereAssumption` (one workspace), `StampAssumption`, `NoLocationAssumption` and the assumptions
of `ActiveMaster`:

- `TypeCorrect`, `VersionsAreBacked` and `StockIsPlanned`, invariants;
- `NewContentWins` and `RetriesStoreOnce`, action properties;
- `LedgerRefinement` (`Spec => ImplementsLedger`).

Between the check of a handler and its write others write, so none of these is inductive. `RequestOK`
says what still holds of a request at its write: no row it could have seen duplicates it
(`NoDuplicate`), the row it supersedes and the planning import it used are stored (`SupersedesOwn`,
`Founded`), and its stamp is new and later than what it read (`OwnStamp`). The ledger only grows
and two requests about to write hold different stamps (`StampsDiffer`), so these survive
the steps of others (`RowsMayGrow`). Refinement follows: of all steps only the insert changes the
ledger, and `OwnStamp` and `SupersedesOwn` are what `LedgerNext` asks of a new row.

### PlanningRuns

`PlanningRuns_proofs` proves, from `BoundsAssumption` and the assumptions on the tables:

- `TypeCorrect`, `RunsAreUnique` (`OneRunPerKey`), `InputsAreAdmissible` (`InputsAdmissible`);
- `ReportedRunsAreCurrent`: `Spec => [](WindowHolds => CurrentIsCurrent)`;
- `RecalculationsCatchUp`: `Spec => [](WindowHolds => RecalculationCatchesUp)`, if `TextsDiffer`.

The last two have hypotheses because the code needs them. `WindowHolds` says that no more planning
imports are accepted than a location's is searched among, `TextsDiffer` that
no two uploads of one kind have the same text; findings 2 and 3 are what
happens otherwise, and `PlanningStatus` keeps both on the way. The invariant says what
each request knows at each await, in terms of the rows and runs of now: `InputsOK` of the inputs a
calculation has selected so far, `AnswerOK` of the run it will answer, `LatestOK` of the
imports a status read has learnt. What counted when a request began (`before`) is
never newer than an input selected later, because the reads see a ledger that
has only grown (`RunnerGrows`, `ReaderGrows`), and the stored run has the text of the selected rows.

### ResourceCache

`ResourceCache_proofs` proves `TypeCorrect` and `StaleDataIsFlagged` (`[]StaleIsFlagged`). An answer on its way
must not bring back what an acknowledged write overtook, to its own key or to the keys it
primes. So the invariant adds that an answer is as new as what is acknowledged on its key
(`AnswersAreFresh`), that nothing is acknowledged on a key that is not acknowledged on what primes
it (`PrimersKnow`), and that a key no write invalidates has nothing to miss
(`NeverInvalidated`). Two assumptions on constants are facts about
`apiClient.ts`: `CoverAssumption`, a write that invalidates a resource also invalidates
the resources that prime it (each mutation that invalidates the locations, the status, the inventory or the run
of a location invalidates its view, lines 436-590), and `SeedsAssumption`, what
`createPlanningRun` puts into the cache itself is not invalidated by others. With a write that
invalidated less than it should, the property would be false.

### Access

`Access_proofs` proves, from `HomeAssumption` (each user has a private workspace) and `BoundAssumption`:

- `TypeCorrect`; `PoliciesAgree` (`[]LaterChecksAgree`); `StoredIsShown` (`[]StoredIsAnswered`);
- `AuthorisedWrites` (`WritesAuthorised`), an action property.

The lemma `OnePolicy` says that `ActorAllowed`, translated from SQL, and `Permits` of
the scope of now, translated from Python, are equivalent for active members at open locations.
`AuthorisedWrites` rests on it alone: whatever the scope of a request says, what is stored was
allowed by the records of that step. `PoliciesAgree` needs the converse over time. `Fresh` says
that, as long as no record has changed since a request began, each part of the scope is what the records
say, stage by stage; a change of the records makes it vacuous, which is why `RecordsOK` has to hold on its own:
a membership keeps a role, a user one default, a grant its membership. `StoredIsShown` needs
`StoredOK`, the workspace and the location of a run are those in its id, so a run that is found under
the id of a request is of its own workspace; that planners may read where they write is `Reads`.

### Projection

The first section of `PlanningEngine_proofs` proves, from `DayAssumption` alone, for any stock, demand, orders,
proposed receipts and length of the forecast, of `ProjectionSpec`:

- `Nested` (`[]CoverageNested`): the `ValueError` of `attach_supply_coverage` that says otherwise is unreachable;
- `LateReceipts` (`[]LateReceiptsDoNotCount`);
- `NeverAtRiskWhenCovered`: the two classifications agree, whatever the risk horizon.

None of them is inductive. `PInv` adds that a projection with more supply has at
least as much in store on each day (`Ordered`), that a first shortage lies in
the past (`Seen`), and that two loops which had the same receipts are in the same
state (`InStep`). `LateReceiptsDoNotCount` then needs two cases: no shortage so
far, where all receipts up to now must agree, and a shortage in the past, where
only those up to it matter. The engine implements
`ProjectionSpec` (`PlansProject` below), so the theorems speak of every plan.

### PlanningEngine

`PlanningEngine_proofs` proves, from `DayAssumption` and `InstanceAssumption`, for every item, policy and set
of delivery rules:

- `EngineTypeCorrect` (`[]TypeOK`), `SafeProposals` (`[]ProposalsAreSafe`);
- `NothingOutlives` (`[]NothingExpires`), `NoNeedlessOrder` (`[]NoOrderWithoutNeed`);
- `UnwarnedPlanWorks` (`[]PlanWorks`);
- `OnlyLeadTimeFails`: only an item that is not fresh and has a lead time longer than the forecast makes a calculation fail.
  Finding 5 has this cause and no other: a fresh line is due on a day of demand, and no day after the forecast has any;
- `PlansProject` (`Spec => ImplementsProjection`).

`InstanceAssumption` is what the program guarantees before it plans: stock, demand and orders are not
negative, no demand lies past the forecast, and the policy is one that `Item`, `ItemPlanningPolicy` and
`DeliveryCoverageRule` do not refuse in `__post_init__` (`PolicyOK`). Two conjuncts belong to the model rather than
to the program: `WithinReach`, the days of the model reach as far as the windows of the
rules, and `Exact`, the unit of mass is small enough that no division of the model
rounds. Neither excludes a plan: any positive decimals have a common denominator (`parts`), and a longer calendar and a
smaller unit satisfy both. Rules may
overlap, share a day or never apply.

The properties speak of the finished plan, and a line is made long before, from the receipts
planned by then. The invariant `EInv` says of each line what it promised when it was made, in a
form that no later step can disturb:

- `LineOK`: it can be bought and respects its caps (`RoundIsSafe`, with the lemma on multiples `WholeSteps`);
- `Needed`: while stock and orders last, it is no larger than the safety stock. The balance it was sized by
  forgets shortages and contains earlier proposals, so it is never below the closing balance of
  the orders alone (`NewIsNeeded`);
- `UsedUp`: of the stock that had arrived with it nothing is left on its last day
  (`NewIsUsedUp`). Its cap was the demand that all other supply leaves unserved up to then, so once
  something is unserved the other supply is gone, and the leftover is bounded by the part of the proposal that
  the demand seen so far has not yet taken. Later lines do not matter, because a line only counts what lines before it propose;
- `Enough`: with the receipts `p` planned before it, the balance from its receipt on never fell further than
  `raw` below zero. Receipts planned since can only add to `p`, which is why the promise is about some `p` and not about `planned`;
- `InOrder`: `planned` is the sum of the proposals by day, and the lines left to do come after all that are done.
  Without the order the last three would not survive a new line;
- `Walked`: the two loops the properties read have computed the closing balances of the days behind them and
  have seen the first negative one.

`PlanWorks` then goes by contradiction, for a yield factor of at least one, which makes the demand of the projection
no larger than the adjusted one. Let `u` be the first uncovered day of the projection: it is not before the first
uncovered day of the orders alone (`Ordered`). It has demand, or it would not be the first. If the item is fresh, exactly
one line covers `u` and `u` lies in its window; if it is not, its only cycle is received by then and
ends at the risk horizon. From the receipt to the end of a window the projected balance is at
least what `Enough` says plus the proposal (`WindowHolds`), and a feasible, uncapped proposal is at least `raw`;
so `u` is covered.

`OnlyLeadTimeFails` needs that a line proposes nothing unless it has a shortage or a safety stock, and that a fresh one with either
has demand in its window (`ShortageHasDemand`, `ShortageIsCovered`), which bounds its receipt by the forecast.

The prover has no induction principle that takes an operator, and the balances are recursive
functions. Both are got round with sets. `Counting` is induction for a *set* of numbers, derived from the
well-foundedness of `<`; an argument over the days names the set of days up to which its claim holds. `DayByDay` proves
that a function with a given first value and a given step exists, and so that `Balance`, `LeftOf` and the like satisfy their own equations.
`Shrinking` is induction over the subsets of a finite set, from which
`SumUnfolds`, `SumTakes` and `SumSame` give the sum over a set of lines its arithmetic.

### ImprovedRun

`ImprovedRun_proofs` proves of `RunSpec`, for any files, workbooks, exports, documents, masters and modes:

- `RunInductive` (`[]RInv`), `RunsAnswer` (`[]RunOK`), `ValidatedAnswered` (`[]ValidatedIsAnswered`);
- `StrictPlansAreCounted` (`[]StrictRestsOnCounts`), `GapsAreNeverSilent` (`[]GapsAreReported`);
- `OrdersAreNeverLost` (`[]NoOrderIsLost`), `OrdersCountOnce` (`[]OrdersCountedOnce`), `ImportersReadAlike` (`[]ImportersAgree`);
- `SilentPlansAreSafe` (`[]SilenceIsSafe`), the promise of the whole program: what a plan says nothing about is in stock;
- `RunsPlan` and `RunsProject`: all that is proved of the engine holds of every item of every run;
- `OrdersAreTimely`: an order counts on its own day unless the plan is made from the store and local midnight is
  on the day before in UTC. Finding 6 has this cause and no other.

They rest on `DayAssumption`, `OffsetAssumption` and `SourceAssumption`. The last says no more of a source than parsing does:
numbers are whole and days are days (`PlanTyped` to `DocumentTyped`), an optional count of days is a count or absent,
tables are finite, no quantity in a document is negative (its pattern has no sign), two documents with the same
content are one, and the plan is made on the planning date, from which days are counted. What the program
checks is not assumed: positive packs and days, the order of dates, unique keys, recipes in force, all of that is in the guards
(`MasterReads`, `LoadsPolicies`, `Valid`, ...) and the proofs take it from there. `WithinReach` and `Exact`, as for the
engine, and deliveries by `Last` are bounds of the model: the calendar is long and the gram fine enough for what the guards let through.

`RInv` says which guards lie behind a run: once a bundle is built the source is `WellFormed`, past the selection of counts
every required item has one or the answer names it (`Counted`), past the explosion every forecast has had a recipe, and in the engine the key is one that is projected, with the orders
the sources give it. `GivenFits` turns the guards into `RowsOK`, `InputsFit` turns these rows into an instance of the engine, so `EInv`
is part of `RInv` and each engine step of a run preserves it by `StepHolds`. `ReportHolds` is where `SilenceIsSafe`
is established: an item without an issue is one for which each of the checks of the report, by its condition, found nothing, and then
`PlanWorks` and the projection say that it does not run out.

`ValidatedIsAnswered` also speaks of the store, where nothing validates a planning workbook against the master that is active when it is
used. A run can lack a recipe there, or an item; then it fails, and the item is one that the master of the upload had and the active
one has not (`UnknownWasDropped`). It does not complete with a forecast or an item left out and unnamed (`NothingIsLeftOut`).

The three statements on orders compare tables. A line of a document is its article row (`RowIsOrdered`), its id holds the
document, the delivery, the article and how often it has occurred, so two rows never share one (`LineIdsDiffer`), and the
sum over the days of what is due on them is the sum over the orders (`SumByDay`), which is the sum over the rows (`SumMoves`).
`MappedHasOne` and the unique item of a policy make the item of a line the one its article names.

In `ImprovedRun.cfg` the engine also runs by itself (`NoSource`), on instances no source of that run has; these behaviours are those of
`Spec` and are covered by the theorems about `PlanningEngine`.

## 5. Plan

1. *(done)* `ActiveMaster`, `MasterActivation` and proofs; `ImportLedger`, `SourceImports`;
   `PlanningRuns`; `ResourceCache`.
2. *(done)* `Projection` and proofs; `Recommendation`; `PlanningEngine`.
3. *(done)* `CanonicalBundle`, `OrderDocuments`, `SourceFiles` and `ImprovedRun`.
4. *(done)* `Access`.
5. *(done)* Proofs of `SourceImports`, `PlanningRuns`, `ResourceCache` and `Access`.
6. *(done)* Proofs of `PlanningEngine`.
7. *(done)* Proofs of what the answer of `ImprovedRun` says.
8. Should the overview derive more than it shows, its classification of a kitchen as operators.

## 6. Only model-checked

Liveness (`ActivationsEnd`, `StaleIsRefreshed`) is beyond the prover, which has no rule for fairness and `ENABLED`. Every
invariant and every action property of the passing runs is the subject of a theorem (`CurrentIsCurrent` and `RecalculationCatchesUp` under the hypotheses of section 4). The properties that runs find violated are
refuted by a counterexample and need no proof; for four of them a theorem says under which condition they do hold
(`RecalculationsCatchUp`, `ReportedRunsAreCurrent`, `OnlyLeadTimeFails`, `OrdersAreTimely`). `ReimportUsesMapping` and
`OpenPagesListen` have no such theorem: the first fails for every unchanged export, the second would need
the order of the session events, which is external.

## 7. Not modelled

Formats of text, numbers and dates, sheets, headers and PDF layout are read before
the rows the models begin with; the writers of JSON and CSV files come after the answer they end
with. Request shapes, error envelopes, metrics and
the REST client are stateless. The overview, inventory and location read models keep no state
and fold rows that are modelled into screens; rendering, formatting and wording derive
nothing that is written back. `SourceImports` and `PlanningRuns` describe one workspace, since every read
and write of a request carries the workspace of its scope, which is what `Access` is about.
Row-level security guards the browser's key, which the program does not use for
planning data; the seed workspace is filled by `seed.sql`. Rows and accounts are never deleted by
the program, so deletion is not an action. `legacy_kw34` is a closed formula kept for
comparison with an old sheet. `run_improved_plan` also takes candidate receipts from its caller;
the API and the command line pass none. The projection's event list and its minimum balance
decide nothing and are left out. `_covered_weekdays` (`canonical_csv.py:710`) lets a CSV file name a covered weekday
twice, which counts its demand twice in the average of the safety stock and has its days reported as covered twice; the template loader rejects it
(`template_xlsx.py:333`), and the model takes covered weekdays as a set. That `_load_planning` refuses a
pinned import without rows is left out: the model allows the run that the code refuses.
