------------------------ MODULE PlanningRuns_proofs ------------------------
(***************************************************************************)
(* Proofs about PlanningRuns for any number of requests, uploads, versions *)
(* and locations.                                                          *)
(*                                                                         *)
(* The inductive invariant says what a request knows at each await: which  *)
(* rows its inputs are, that they are at least as new as those that        *)
(* counted when it began, and that the run it will answer is a stored run  *)
(* with the text of those inputs.                                          *)
(***************************************************************************)
EXTENDS PlanningRuns, ImportLedger_proofs, FiniteSetTheorems

USE HereAssumption, UploadAssumption, PinAssumption, NoLocationAssumption,
    BoundsAssumption, HomeAssumption, NoVersionAssumption

RunnerPC == {"idle", "master", "select", "engine", "lookup", "insert", "conflict", "replied"}
ReaderPC == {"idle", "master", "gather", "report"}

KeyType == (Location \cup {NoLocation}) \X (AsOf \cup {0}) \X (Version \cup {NoVersion})
           \X [RunKinds -> {Text[u] : u \in Upload}]

RowType == [at : 1..MaxRows, kind : RunKinds, loc : Location \cup {NoLocation},
            file : Upload, status : ImportStatus, sup : {NoRow}]

RunType == [key : KeyType, at : 1..MaxRuns, loc : Location, version : Version,
            inputs : [RunKinds -> 1..MaxRows]]

\* The locals, as far as a step needs their shape.
JobType == [loc : Location \cup {NoLocation}, asOf : AsOf \cup {0},
            pin : [RunKinds -> 0..MaxRows], version : Version \cup {NoVersion},
            inputs : [RunKinds -> 0..MaxRows], at : 0..MaxRuns, before : SUBSET RowType,
            served : SUBSET (Version \cup {NoVersion}), answer : RunType \cup {NoRun}]

ViewType == [loc : Location \cup {NoLocation}, version : Version \cup {NoVersion},
             todo : SUBSET Reads, latest : [RunKinds -> 0..MaxRows],
             run : RunType \cup {NoRun}, before : SUBSET RowType,
             served : SUBSET (Version \cup {NoVersion}), current : BOOLEAN]

-----------------------------------------------------------------------------
(* What requests know, of the rows and runs of now *)

\* The planning imports the scan can see are all there are.
Wide(rows) == Cardinality({row \in rows : /\ IsAccepted(row)
                                          /\ Stream(row) = <<"planning_input", NoLocation>>})
              <= Window

Counts(row, l) == /\ IsAccepted(row)
                  /\ \/ row.loc = l
                     \/ row.kind = "planning_input" /\ l \in Covers[row.file]

\* Row n may serve as input of kind k at location l, and has the text t.
Admissible(rows, k, l, n) ==
    \E row \in rows : /\ row.at = n /\ row.kind = k /\ IsAccepted(row)
                      /\ k \in PerLocation => row.loc = l

HasText(rows, n, t) == \E row \in rows : row.at = n /\ Text[row.file] = t

\* Nothing of kind k that counted before is newer than n.
Caught(before, k, n) == \A row \in before : row.kind = k => row.at <= n

RunFits(run, rows) ==
    \A k \in RunKinds : /\ Admissible(rows, k, run.loc, run.inputs[k])
                        /\ HasText(rows, run.inputs[k], run.key[4][k])

\* The inputs a request has selected so far.
InputsOK(j, rows) ==
    \A k \in RunKinds : j.inputs[k] # NoRow =>
        /\ Admissible(rows, k, j.loc, j.inputs[k])
        /\ Wide(rows) /\ j.pin[k] = NoRow => Caught(j.before, k, j.inputs[k])

Complete == {"engine", "lookup", "insert", "conflict", "replied"}

\* The answer is a run with the key of what was selected.
AnswerOK(j, rows, done) ==
    /\ j.answer \in done
    /\ j.answer.key[1] = j.loc /\ j.answer.key[3] = j.version
    /\ \A k \in RunKinds : HasText(rows, j.inputs[k], j.answer.key[4][k])

RunnerOK(p, j, rows, done, n, cur) ==
    p # "idle" =>
       /\ j.loc \in Location
       /\ \A k \in RunKinds : j.pin[k] # NoRow => \E row \in rows : row.at = j.pin[k]
       /\ j.before \subseteq {row \in rows : Counts(row, j.loc)}
       /\ cur \in j.served
       /\ InputsOK(j, rows)
       /\ p # "master" => j.version \in Version /\ j.version \in j.served
       /\ p \in Complete => \A k \in RunKinds : j.inputs[k] # NoRow
       /\ p \in {"lookup", "insert"} => j.at \in 1..n
       /\ p = "replied" => AnswerOK(j, rows, done)

\* The kinds whose latest import a reader has learnt.
Learnt(v) == {k \in RunKinds : IF k = "planning_input" THEN "planning" \notin v.todo
                                                       ELSE "location" \notin v.todo}

LatestOK(v, rows) ==
    \A k \in Learnt(v) :
        /\ v.latest[k] # NoRow => Admissible(rows, k, v.loc, v.latest[k])
        /\ Wide(rows) => Caught(v.before, k, v.latest[k])

ReaderOK(p, v, rows, done, cur) ==
    p # "idle" =>
       /\ v.loc \in Location
       /\ v.before \subseteq {row \in rows : Counts(row, v.loc)}
       /\ cur \in v.served
       /\ v.run = NoRun \/ (v.run \in done /\ v.run.loc = v.loc)
       /\ v.version = NoVersion \/ v.version \in v.served
       /\ p # "master" => LatestOK(v, rows)
       /\ p = "report" => v.todo = {} /\ (v.current => IsCurrent(v))

-----------------------------------------------------------------------------
(* The invariant *)

RowOK(row) == row.kind = KindOf[row.file] /\ row.loc \in PlacesFor(row.file)

\* No two rows share a stamp, or content and location.
RowsDiffer ==
    \A a, b \in ledger : a.at = b.at \/ (a.file = b.file /\ a.loc = b.loc) => a = b

StateTyped == /\ MasterTypeOK
              /\ IsFiniteSet(ledger)
              /\ ledger \subseteq RowType /\ \A row \in ledger : RowOK(row)
              /\ RowsDiffer
              /\ runClock \in 0..MaxRuns
              /\ runs \subseteq RunType
              /\ \A run \in runs : run.at <= runClock /\ run.key[1] = run.loc
                                   /\ run.key[3] = run.version
              /\ pc \in [Runner -> RunnerPC] /\ job \in [Runner -> JobType]
              /\ rpc \in [Reader -> ReaderPC] /\ seen \in [Reader -> ViewType]

IInv == /\ StateTyped
        /\ OneRunPerKey
        /\ \A run \in runs : RunFits(run, ledger)
        /\ \A q \in Runner : RunnerOK(pc[q], job[q], ledger, runs, runClock, current[Here])
        /\ \A d \in Reader : ReaderOK(rpc[d], seen[d], ledger, runs, current[Here])

-----------------------------------------------------------------------------
(* Requests while others write *)

LEMMA WideEarlier ==
    ASSUME NEW rows, NEW more, IsFiniteSet(more), rows \subseteq more, Wide(more)
    PROVE  Wide(rows)
<1> DEFINE P(S) == {row \in S : /\ IsAccepted(row)
                               /\ Stream(row) = <<"planning_input", NoLocation>>}
<1>1. IsFiniteSet(P(more)) /\ P(rows) \subseteq P(more)
    <2>1. P(more) \subseteq more
        OBVIOUS
    <2> QED
        BY <2>1, FS_Subset
<1>2. Cardinality(P(rows)) <= Cardinality(P(more)) /\ IsFiniteSet(P(rows))
    BY <1>1, FS_Subset
<1>3. Cardinality(P(rows)) \in Nat /\ Cardinality(P(more)) \in Nat
    BY <1>1, <1>2, FS_CardinalityType
<1>4. Cardinality(P(more)) <= Window
    BY DEF Wide
<1> QED
    BY <1>2, <1>3, <1>4 DEF Wide

\* What a request knows stays true of more rows and more runs.
LEMMA RunnerGrows ==
    ASSUME NEW p, NEW j, NEW rows, NEW more, NEW done, NEW done2, NEW n \in Nat, NEW m \in Nat,
           NEW cur, RunnerOK(p, j, rows, done, n, cur), IsFiniteSet(more),
           rows \subseteq more, done \subseteq done2, n <= m
    PROVE  RunnerOK(p, j, more, done2, m, cur)
<1>1. Wide(more) => Wide(rows)
    BY WideEarlier
<1>2. InputsOK(j, rows) => InputsOK(j, more)
    BY <1>1 DEF InputsOK, Admissible
<1>3. AnswerOK(j, rows, done) => AnswerOK(j, more, done2)
    BY DEF AnswerOK, HasText
<1> QED
    BY <1>2, <1>3 DEF RunnerOK

LEMMA ReaderGrows ==
    ASSUME NEW p, NEW v, NEW rows, NEW more, NEW done, NEW done2, NEW cur,
           ReaderOK(p, v, rows, done, cur), IsFiniteSet(more),
           rows \subseteq more, done \subseteq done2
    PROVE  ReaderOK(p, v, more, done2, cur)
<1>1. Wide(more) => Wide(rows)
    BY WideEarlier
<1>2. LatestOK(v, rows) => LatestOK(v, more)
    BY <1>1 DEF LatestOK, Admissible
<1> QED
    BY <1>2 DEF ReaderOK

LEMMA RunGrows ==
    ASSUME NEW run, NEW rows, NEW more, RunFits(run, rows), rows \subseteq more
    PROVE  RunFits(run, more)
BY DEF RunFits, Admissible, HasText

-----------------------------------------------------------------------------
(* Reads of the ledger *)

LEMMA RowAtIs ==
    ASSUME StateTyped, NEW row \in ledger
    PROVE  RowAt(row.at) = row
BY DEF StateTyped, RowsDiffer, RowAt

\* A window as wide as the rows shows them all.
LEMMA WholeWindow ==
    ASSUME NEW S, IsFiniteSet(S), Cardinality(S) <= Window, \A x \in S : x.at \in Nat
    PROVE  WindowOf(S, Window) = S
<1> SUFFICES ASSUME NEW row \in S PROVE Cardinality({x \in S : x.at > row.at}) < Window
    BY DEF WindowOf
<1> DEFINE T == {x \in S : x.at > row.at}
<1>1. T \subseteq S /\ row \notin T
    OBVIOUS
<1>2. IsFiniteSet(T) /\ Cardinality(T) <= Cardinality(S) /\ Cardinality(T) # Cardinality(S)
    BY <1>1, FS_Subset
<1>3. Cardinality(T) \in Nat /\ Cardinality(S) \in Nat
    BY <1>2, FS_CardinalityType
<1> QED
    BY <1>2, <1>3

\* What a read of the latest import answers.
LEMMA LatestIs ==
    ASSUME StateTyped, NEW k \in RunKinds, NEW l \in Location
    PROVE  /\ LatestFor(k, l) \in 0..MaxRows
           /\ LatestFor(k, l) # NoRow => Admissible(ledger, k, l, LatestFor(k, l))
           /\ Wide(ledger) => \A row \in ledger : Counts(row, l) /\ row.kind = k
                                                => row.at <= LatestFor(k, l)
<1> DEFINE C == Candidates(k, l)
           P == AcceptedIn("planning_input", NoLocation)
<1>1. C \subseteq {row \in ledger : row.kind = k /\ IsAccepted(row)
                                     /\ (k \in PerLocation => row.loc = l)}
    BY DEF Candidates, WindowOf, AcceptedIn, Stream, PerLocation
<1>2. \A row \in ledger : row.at \in 0..MaxRows /\ row.at # NoRow
    BY DEF StateTyped, RowType, NoRow
<1>3. /\ C # {} => \E row \in C : row.at = NewestAt(C)
      /\ C = {} => NewestAt(C) = NoRow
      /\ \A row \in C : row.at <= NewestAt(C)
      /\ NewestAt(C) \in 0..MaxRows
    <2>1. \A row \in C : row.at \in 0..MaxRows
        BY <1>1, <1>2
    <2> HIDE DEF C
    <2> QED
        BY <2>1, NewestAtIs
<1>4. ASSUME Wide(ledger), NEW row \in ledger, Counts(row, l), row.kind = k
      PROVE  row \in C
    <2>1. row.loc \in PlacesFor(row.file) /\ row.kind = KindOf[row.file] /\ IsAccepted(row)
        BY <1>4 DEF StateTyped, RowOK, Counts
    <2>2. CASE k = "planning_input"
        <3>1. row.loc = NoLocation /\ l \in Covers[row.file]
            BY <1>4, <2>1, <2>2 DEF PlacesFor, PerLocation, Counts
        <3>2. row \in P
            BY <1>4, <2>1, <2>2, <3>1 DEF AcceptedIn, Stream
        <3>3. WindowOf(P, Window) = P
            <4>1. IsFiniteSet(P)
                <5>1. P \subseteq ledger /\ IsFiniteSet(ledger)
                    BY DEF AcceptedIn, StateTyped
                <5> QED
                    BY <5>1, FS_Subset
            <4>2. Cardinality(P) <= Window
                BY <1>4 DEF Wide, AcceptedIn
            <4>3. \A x \in P : x.at \in Nat
                BY <1>2 DEF AcceptedIn
            <4> HIDE DEF P
            <4> QED
                BY <4>1, <4>2, <4>3, WholeWindow
        <3> QED
            BY <2>2, <3>1, <3>2, <3>3 DEF Candidates
    <2>3. CASE k # "planning_input"
        BY <1>4, <2>1, <2>3 DEF Candidates, AcceptedIn, Stream, Counts
    <2> QED
        BY <2>2, <2>3
<1> QED
    BY <1>1, <1>3, <1>4 DEF LatestFor, Admissible

-----------------------------------------------------------------------------
(* One step of a calculation *)

LEMMA NoJobOK == NoJob \in JobType
BY DEF NoJob, JobType, NoInputs, NoRow

\* A step that moves one request and writes nothing else than the run clock.
LEMMA GotoKeeps ==
    ASSUME IInv, NEW q \in Runner, NEW p \in RunnerPC, NEW j \in JobType, Goto(q, p, j),
           runClock' \in 0..MaxRuns, runClock <= runClock',
           RunnerOK(p, j, ledger, runs, runClock', current[Here])
    PROVE  IInv'
<1> USE DEF Goto
<1>1. /\ UNCHANGED <<ledger, drafts, current, retired, runs, rpc, seen>>
      /\ pc'[q] = p /\ job'[q] = j
      /\ \A r \in Runner \ {q} : pc'[r] = pc[r] /\ job'[r] = job[r]
    BY DEF IInv, StateTyped, envVars, masterVars, readVars
<1>2. StateTyped'
    <2>1. \A run \in runs : run.at <= runClock'
        BY DEF IInv, StateTyped, RunType
    <2> QED
        BY <1>1, <2>1 DEF IInv, StateTyped, MasterTypeOK, RowsDiffer
<1>3. ASSUME NEW r \in Runner PROVE RunnerOK(pc'[r], job'[r], ledger, runs, runClock', current[Here])
    <2>1. CASE r = q
        BY <1>1, <2>1
    <2>2. CASE r # q
        BY <1>1, <2>2, RunnerGrows DEF IInv, StateTyped
    <2> QED
        BY <2>1, <2>2
<1> QED
    BY <1>1, <1>2, <1>3 DEF IInv, OneRunPerKey

LEMMA DeclineKeeps == ASSUME IInv, NEW q \in Runner, Decline(q) PROVE IInv'
<1>1. RunnerOK("idle", NoJob, ledger, runs, runClock', current[Here])
    BY DEF RunnerOK
<1>2. runClock' \in 0..MaxRuns /\ runClock <= runClock' /\ Goto(q, "idle", NoJob)
    BY DEF Decline, IInv, StateTyped
<1> QED
    BY <1>1, <1>2, GotoKeeps, NoJobOK DEF RunnerPC

\* What the invariant says of one request.
LEMMA Local ==
    ASSUME IInv, NEW q \in Runner, pc[q] # "idle"
    PROVE  /\ job[q] \in JobType
           /\ RunnerOK(pc[q], job[q], ledger, runs, runClock, current[Here])
           /\ current[Here] \in Version \cup {NoVersion}
           /\ runClock \in 0..MaxRuns
BY DEF IInv, StateTyped, MasterTypeOK

LEMMA LoadMasterKeeps == ASSUME IInv, NEW q \in Runner, LoadMaster(q) PROVE IInv'
<1> DEFINE j == [job[q] EXCEPT !.version = current[Here]]
<1>1. pc[q] = "master"
    BY DEF LoadMaster
<1>2. CASE Decline(q)
    BY <1>2, DeclineKeeps
<1>3. CASE current[Here] # NoVersion /\ Goto(q, "select", j) /\ UNCHANGED runClock
    <2>1. /\ j \in JobType /\ j.version = current[Here] /\ j.loc = job[q].loc
          /\ j.pin = job[q].pin /\ j.before = job[q].before /\ j.served = job[q].served
          /\ j.inputs = job[q].inputs
        BY <1>1, Local DEF JobType
    <2>2. Goto(q, "select", j)
        BY <1>3
    <2> HIDE DEF j
    <2>3. RunnerOK("select", j, ledger, runs, runClock', current[Here])
        BY <1>1, <1>3, <2>1, Local DEF RunnerOK, InputsOK, Complete
    <2> QED
        BY <1>1, <1>3, <2>1, <2>2, <2>3, Local, GotoKeeps DEF RunnerPC
<1> QED
    BY <1>2, <1>3 DEF LoadMaster

\* A selected import is admissible and, if it is the latest, none that counted
\* before is newer: the ledger has only grown since.
LEMMA SelectKeeps ==
    ASSUME IInv, NEW q \in Runner, NEW k \in RunKinds, Select(q, k) PROVE IInv'
<1> DEFINE n == IF job[q].pin[k] = NoRow THEN LatestFor(k, job[q].loc) ELSE job[q].pin[k]
           j == [job[q] EXCEPT !.inputs[k] = n]
           p == IF \E x \in RunKinds : j.inputs[x] = NoRow THEN "select" ELSE "engine"
<1>1. pc[q] = "select"
    BY DEF Select
<1>2. CASE Decline(q)
    BY <1>2, DeclineKeeps
<1>3. CASE n # NoRow /\ Selectable(q, k, RowAt(n)) /\ Goto(q, p, j) /\ UNCHANGED runClock
    <2>1. StateTyped /\ job[q] \in JobType /\ job[q].loc \in Location
          /\ RunnerOK("select", job[q], ledger, runs, runClock, current[Here])
        BY <1>1, Local DEF IInv, RunnerOK
    <2>2. n \in 0..MaxRows /\ \E row \in ledger : row.at = n
        <3>1. CASE job[q].pin[k] = NoRow
            BY <1>3, <2>1, <3>1, LatestIs DEF Admissible
        <3>2. CASE job[q].pin[k] # NoRow
            BY <1>1, <2>1, <3>2 DEF RunnerOK, JobType
        <3> QED
            BY <3>1, <3>2
    <2>3. Admissible(ledger, k, job[q].loc, n)
        <3>1. PICK row \in ledger : row.at = n
            BY <2>2
        <3>2. RowAt(n) = row
            BY <2>1, <3>1, RowAtIs
        <3> QED
            BY <1>3, <3>1, <3>2 DEF Selectable, Admissible
    <2>4. Wide(ledger) /\ job[q].pin[k] = NoRow => Caught(job[q].before, k, n)
        BY <2>1, LatestIs DEF RunnerOK, Caught
    <2>5. /\ j \in JobType /\ j.loc = job[q].loc /\ j.pin = job[q].pin
          /\ j.before = job[q].before /\ j.served = job[q].served
          /\ j.version = job[q].version
          /\ j.inputs[k] = n /\ \A x \in RunKinds \ {k} : j.inputs[x] = job[q].inputs[x]
        BY <2>1, <2>2 DEF JobType
    <2>6. p \in {"select", "engine"} /\ (p = "engine" => \A x \in RunKinds : j.inputs[x] # NoRow)
        OBVIOUS
    <2>7. Goto(q, p, j)
        BY <1>3
    <2> HIDE DEF n, j, p
    <2>8. InputsOK(j, ledger)
        BY <2>1, <2>3, <2>4, <2>5 DEF RunnerOK, InputsOK
    <2>9. RunnerOK(p, j, ledger, runs, runClock', current[Here])
        BY <1>3, <2>1, <2>5, <2>6, <2>8 DEF RunnerOK, Complete
    <2> QED
        BY <1>1, <1>3, <2>5, <2>6, <2>7, <2>9, Local, GotoKeeps DEF RunnerPC
<1> QED
    BY <1>2, <1>3 DEF Select

LEMMA CalculateKeeps == ASSUME IInv, NEW q \in Runner, Calculate(q) PROVE IInv'
<1> DEFINE j == [job[q] EXCEPT !.at = runClock + 1]
<1>1. pc[q] = "engine"
    BY DEF Calculate
<1>2. CASE Decline(q)
    BY <1>2, DeclineKeeps
<1>3. CASE runClock # MaxRuns /\ runClock' = runClock + 1 /\ Goto(q, "lookup", j)
    <2>0. runClock' \in 1..MaxRuns /\ runClock <= runClock' /\ runClock' \in 0..MaxRuns
        BY <1>3 DEF IInv, StateTyped
    <2>1. /\ j \in JobType /\ j.loc = job[q].loc /\ j.version = job[q].version
          /\ j.pin = job[q].pin /\ j.before = job[q].before /\ j.served = job[q].served
          /\ j.inputs = job[q].inputs /\ j.at = runClock'
        BY <1>1, <1>3, <2>0, Local DEF JobType
    <2>2. Goto(q, "lookup", j)
        BY <1>3
    <2> HIDE DEF j
    <2>3. RunnerOK("lookup", j, ledger, runs, runClock', current[Here])
        BY <1>1, <2>0, <2>1, Local DEF RunnerOK, InputsOK, Complete
    <2> QED
        BY <2>0, <2>1, <2>2, <2>3, GotoKeeps DEF RunnerPC
<1> QED
    BY <1>2, <1>3 DEF Calculate

\* The key of a complete selection holds the text of the rows it selected.
LEMMA KeyIs ==
    ASSUME IInv, NEW q \in Runner, pc[q] \in Complete
    PROVE  LET key == Key(job[q])
           IN /\ key \in KeyType
              /\ key[1] = job[q].loc /\ key[3] = job[q].version
              /\ \A k \in RunKinds : HasText(ledger, job[q].inputs[k], key[4][k])
<1> DEFINE j == job[q]
           text == [k \in RunKinds |-> Text[RowAt(j.inputs[k]).file]]
<1>1. StateTyped /\ j \in JobType /\ RunnerOK(pc[q], j, ledger, runs, runClock, current[Here])
    BY Local DEF IInv, Complete
<1>2. ASSUME NEW k \in RunKinds
      PROVE  HasText(ledger, j.inputs[k], text[k]) /\ text[k] \in {Text[u] : u \in Upload}
    <2>1. PICK row \in ledger : row.at = j.inputs[k]
        BY <1>1 DEF RunnerOK, InputsOK, Admissible, Complete
    <2>2. text[k] = Text[row.file]
        BY <1>1, <2>1, RowAtIs
    <2>3. row.file \in Upload
        BY <1>1 DEF StateTyped, RowType
    <2> QED
        BY <2>1, <2>2, <2>3 DEF HasText
<1>3. Key(j) = <<j.loc, j.asOf, j.version, text>>
    BY DEF Key
<1>4. Key(j) \in KeyType
    <2>1. text \in [RunKinds -> {Text[u] : u \in Upload}]
        BY <1>2
    <2>2. /\ j.loc \in Location \cup {NoLocation} /\ j.asOf \in AsOf \cup {0}
          /\ j.version \in Version \cup {NoVersion}
        BY <1>1 DEF JobType
    <2> HIDE DEF text
    <2> QED
        BY <1>3, <2>1, <2>2 DEF KeyType
<1> HIDE DEF text
<1> QED
    BY <1>2, <1>3, <1>4

LEMMA LookupRunKeeps == ASSUME IInv, NEW q \in Runner, LookupRun(q) PROVE IInv'
<1>1. pc[q] = "lookup" /\ UNCHANGED runClock
    BY DEF LookupRun
<1>2. job[q] \in JobType /\ RunnerOK("lookup", job[q], ledger, runs, runClock, current[Here])
      /\ runClock \in 0..MaxRuns
    BY <1>1, Local
<1>3. CASE Goto(q, "insert", job[q])
    <2>1. RunnerOK("insert", job[q], ledger, runs, runClock', current[Here])
        BY <1>1, <1>2 DEF RunnerOK, Complete
    <2> QED
        BY <1>1, <1>2, <1>3, <2>1, GotoKeeps DEF RunnerPC
<1>4. ASSUME NEW run \in runs, run.key = Key(job[q]),
             Goto(q, "replied", [job[q] EXCEPT !.answer = run])
      PROVE  IInv'
    <2> DEFINE j == [job[q] EXCEPT !.answer = run]
    <2>1. run \in RunType
        BY DEF IInv, StateTyped
    <2>2. /\ j \in JobType /\ j.loc = job[q].loc /\ j.version = job[q].version
          /\ j.pin = job[q].pin /\ j.before = job[q].before /\ j.served = job[q].served
          /\ j.inputs = job[q].inputs /\ j.answer = run
        BY <1>2, <2>1 DEF JobType
    <2>3. Goto(q, "replied", j)
        BY <1>4
    <2> HIDE DEF j
    <2>4. AnswerOK(j, ledger, runs)
        BY <1>1, <1>4, <2>2, KeyIs DEF AnswerOK, Complete
    <2>5. RunnerOK("replied", j, ledger, runs, runClock', current[Here])
        BY <1>1, <1>2, <2>2, <2>4 DEF RunnerOK, InputsOK, Complete
    <2> QED
        BY <1>1, <1>2, <2>2, <2>3, <2>5, GotoKeeps DEF RunnerPC
<1> QED
    BY <1>3, <1>4 DEF LookupRun

\* The insert: the primary key keeps runs apart, and the run fits its inputs.
LEMMA InsertRunKeeps == ASSUME IInv, NEW q \in Runner, InsertRun(q) PROVE IInv'
<1> DEFINE j == job[q]
           run == [key |-> Key(j), at |-> j.at, loc |-> j.loc, version |-> j.version,
                   inputs |-> j.inputs]
           k == [j EXCEPT !.answer = run]
<1>1. pc[q] = "insert"
    BY DEF InsertRun
<1>2. j \in JobType /\ RunnerOK("insert", j, ledger, runs, runClock, current[Here])
      /\ runClock \in 0..MaxRuns
    BY <1>1, Local
<1>3. CASE Goto(q, "conflict", j) /\ UNCHANGED runClock
    <2>1. RunnerOK("conflict", j, ledger, runs, runClock', current[Here])
        BY <1>2, <1>3 DEF RunnerOK, Complete
    <2> QED
        BY <1>2, <1>3, <2>1, GotoKeeps DEF RunnerPC
<1>4. ASSUME ~\E old \in runs : old.key = run.key,
             runs' = runs \cup {run}, pc' = [pc EXCEPT ![q] = "replied"],
             job' = [job EXCEPT ![q].answer = run],
             UNCHANGED <<envVars, runClock, readVars>>
      PROVE  IInv'
    <2>1. /\ Key(j) \in KeyType /\ Key(j)[1] = j.loc /\ Key(j)[3] = j.version
          /\ \A x \in RunKinds : HasText(ledger, j.inputs[x], Key(j)[4][x])
        BY <1>1, KeyIs DEF Complete
    <2>2. /\ run \in RunType /\ run.key = Key(j) /\ run.at = j.at /\ run.loc = j.loc
          /\ run.version = j.version /\ run.inputs = j.inputs /\ run.at <= runClock
        <3>1. j.loc \in Location /\ j.version \in Version /\ j.at \in 1..runClock
              /\ \A x \in RunKinds : j.inputs[x] # NoRow
            BY <1>2 DEF RunnerOK, Complete
        <3>2. j.inputs \in [RunKinds -> 1..MaxRows]
            BY <1>2, <3>1 DEF JobType, NoRow
        <3> QED
            BY <1>2, <2>1, <3>1, <3>2 DEF RunType
    <2>3. /\ k \in JobType /\ k.loc = j.loc /\ k.version = j.version
          /\ k.pin = j.pin /\ k.before = j.before /\ k.served = j.served
          /\ k.inputs = j.inputs /\ k.answer = run
        BY <1>2, <2>2 DEF JobType
    <2>4. /\ UNCHANGED <<ledger, drafts, current, retired, runClock, rpc, seen>>
          /\ pc'[q] = "replied" /\ job'[q] = k
          /\ \A r \in Runner \ {q} : pc'[r] = pc[r] /\ job'[r] = job[r]
          /\ pc' \in [Runner -> RunnerPC]
        BY <1>4 DEF IInv, StateTyped, envVars, masterVars, readVars, RunnerPC
    <2>5. job' \in [Runner -> JobType]
        BY <1>4, <2>3, <2>4 DEF IInv, StateTyped
    <2> HIDE DEF run, k
    <2>6. StateTyped'
        BY <1>4, <2>1, <2>2, <2>4, <2>5 DEF IInv, StateTyped, MasterTypeOK, RowsDiffer
    <2>7. OneRunPerKey'
        BY <1>4 DEF IInv, OneRunPerKey
    <2>8. \A r \in runs' : RunFits(r, ledger)
        <3>1. RunFits(run, ledger)
            BY <1>2, <2>1, <2>2 DEF RunFits, RunnerOK, InputsOK, Complete
        <3> QED
            BY <1>4, <3>1 DEF IInv
    <2>9. ASSUME NEW r \in Runner
          PROVE  RunnerOK(pc'[r], job'[r], ledger, runs', runClock, current[Here])
        <3>1. CASE r = q
            <4>1. AnswerOK(k, ledger, runs')
                BY <1>4, <2>1, <2>2, <2>3 DEF AnswerOK
            <4> QED
                BY <1>2, <2>3, <2>4, <3>1, <4>1 DEF RunnerOK, InputsOK, Complete
        <3>2. CASE r # q
            BY <1>4, <2>4, <3>2, RunnerGrows DEF IInv, StateTyped
        <3> QED
            BY <3>1, <3>2
    <2>10. \A d \in Reader : ReaderOK(rpc[d], seen[d], ledger, runs', current[Here])
        BY <1>4, ReaderGrows DEF IInv, StateTyped
    <2> QED
        BY <2>4, <2>6, <2>7, <2>8, <2>9, <2>10 DEF IInv
<1> QED
    BY <1>3, <1>4 DEF InsertRun

LEMMA StartRunKeeps ==
    ASSUME IInv, NEW q \in Runner, NEW l \in Location, NEW t \in AsOf, NEW pin \in Pins,
           StartRun(q, l, t, pin)
    PROVE  IInv'
<1> DEFINE j == [NoJob EXCEPT !.loc = l, !.asOf = t, !.pin = pin,
                              !.before = RelevantRows(l), !.served = {current[Here]}]
<1>1. /\ pin \in [RunKinds -> 0..MaxRows]
      /\ \A k \in RunKinds : pin[k] # NoRow => \E row \in ledger : row.at = pin[k]
    <2>1. \A row \in ledger : row.at \in 1..MaxRows
        BY DEF IInv, StateTyped, RowType
    <2> QED
        BY <2>1 DEF Pins, NoRow
<1>2. /\ j \in JobType /\ j.loc = l /\ j.pin = pin /\ j.before = RelevantRows(l)
      /\ j.served = {current[Here]} /\ j.inputs = NoInputs
    <2>1. NoInputs \in [RunKinds -> 0..MaxRows]
        BY DEF NoInputs, NoRow
    <2>2. RelevantRows(l) \in SUBSET RowType
        BY DEF RelevantRows, IInv, StateTyped
    <2>3. {current[Here]} \in SUBSET (Version \cup {NoVersion})
        BY DEF IInv, StateTyped, MasterTypeOK
    <2>4. 0 \in 0..MaxRuns
        OBVIOUS
    <2> QED
        BY <1>1, <2>1, <2>2, <2>3, <2>4 DEF NoJob, JobType
<1>3. Goto(q, "master", j) /\ UNCHANGED runClock
    BY DEF StartRun, Goto
<1> HIDE DEF j
<1>4. RunnerOK("master", j, ledger, runs, runClock', current[Here])
    BY <1>1, <1>2 DEF RunnerOK, RelevantRows, Counts, InputsOK, NoInputs, Complete
<1> QED
    BY <1>2, <1>3, <1>4, GotoKeeps DEF RunnerPC, IInv, StateTyped

-----------------------------------------------------------------------------
(* One step of a status request *)

LEMMA NoViewOK == NoView \in ViewType
BY DEF NoView, ViewType, NoInputs, NoRow, Reads

LEMMA SeeKeeps ==
    ASSUME IInv, NEW d \in Reader, NEW p \in ReaderPC, NEW v \in ViewType, See(d, p, v),
           ReaderOK(p, v, ledger, runs, current[Here])
    PROVE  IInv'
<1>1. /\ UNCHANGED <<ledger, drafts, current, retired, runs, runClock, pc, job>>
      /\ rpc'[d] = p /\ seen'[d] = v
      /\ \A e \in Reader \ {d} : rpc'[e] = rpc[e] /\ seen'[e] = seen[e]
      /\ rpc' \in [Reader -> ReaderPC] /\ seen' \in [Reader -> ViewType]
    BY DEF See, IInv, StateTyped, envVars, masterVars, runVars
<1>2. StateTyped'
    BY <1>1 DEF IInv, StateTyped, MasterTypeOK, RowsDiffer
<1>3. \A e \in Reader : ReaderOK(rpc'[e], seen'[e], ledger, runs, current[Here])
    BY <1>1 DEF IInv
<1> QED
    BY <1>1, <1>2, <1>3 DEF IInv, OneRunPerKey

LEMMA LocalView ==
    ASSUME IInv, NEW d \in Reader
    PROVE  seen[d] \in ViewType /\ ReaderOK(rpc[d], seen[d], ledger, runs, current[Here])
BY DEF IInv, StateTyped

LEMMA LeaveKeeps == ASSUME IInv, NEW d \in Reader, See(d, "idle", NoView) PROVE IInv'
<1>1. ReaderOK("idle", NoView, ledger, runs, current[Here])
    BY DEF ReaderOK
<1> QED
    BY <1>1, NoViewOK, SeeKeeps DEF ReaderPC

LEMMA StartStatusKeeps ==
    ASSUME IInv, NEW d \in Reader, NEW l \in Location, StartStatus(d, l) PROVE IInv'
<1> DEFINE v == [NoView EXCEPT !.loc = l, !.before = RelevantRows(l), !.served = {current[Here]}]
<1>1. /\ v \in ViewType /\ v.loc = l /\ v.before = RelevantRows(l)
      /\ v.served = {current[Here]} /\ v.run = NoRun /\ v.version = NoVersion
    <2>1. RelevantRows(l) \in SUBSET RowType
        BY DEF RelevantRows, IInv, StateTyped
    <2>2. {current[Here]} \in SUBSET (Version \cup {NoVersion})
        BY DEF IInv, StateTyped, MasterTypeOK
    <2> QED
        BY <2>1, <2>2, NoViewOK DEF NoView, ViewType
<1>2. See(d, "master", v)
    BY DEF StartStatus, See
<1> HIDE DEF v
<1>3. ReaderOK("master", v, ledger, runs, current[Here])
    BY <1>1 DEF ReaderOK, RelevantRows, Counts
<1> QED
    BY <1>1, <1>2, <1>3, SeeKeeps DEF ReaderPC

LEMMA ReadMasterKeeps == ASSUME IInv, NEW d \in Reader, ReadMaster(d) PROVE IInv'
<1> DEFINE usable == current[Here] # NoVersion /\ seen[d].loc \in OpenIn[current[Here]]
           n == IF usable THEN current[Here] ELSE NoVersion
           v == [seen[d] EXCEPT !.version = n, !.todo = Reads]
<1>1. rpc[d] = "master" /\ See(d, "gather", v)
    BY DEF ReadMaster
<1>2. n \in Version \cup {NoVersion} /\ (n = NoVersion \/ n = current[Here])
    BY DEF IInv, StateTyped, MasterTypeOK
<1> HIDE DEF n
<1>3. /\ v \in ViewType /\ v.loc = seen[d].loc /\ v.before = seen[d].before
      /\ v.served = seen[d].served /\ v.run = seen[d].run /\ v.todo = Reads /\ v.version = n
    BY <1>2, LocalView DEF ViewType
<1> HIDE DEF v
<1>4. Learnt(v) = {}
    BY <1>3 DEF Learnt, Reads
<1>5. ReaderOK("gather", v, ledger, runs, current[Here])
    BY <1>1, <1>2, <1>3, <1>4, LocalView DEF ReaderOK, LatestOK
<1> QED
    BY <1>1, <1>3, <1>5, SeeKeeps DEF ReaderPC

\* Each read adds what it learns, whatever was stored since the others.
LEMMA GatherKeeps ==
    ASSUME IInv, NEW d \in Reader, NEW read \in Reads, Gather(d, read) PROVE IInv'
<1> DEFINE old == seen[d]
           v == [Learn(old, read) EXCEPT !.todo = @ \ {read}]
<1>1. rpc[d] = "gather" /\ See(d, "gather", v)
    BY DEF Gather
<1>2. /\ old \in ViewType /\ ReaderOK("gather", old, ledger, runs, current[Here])
      /\ StateTyped /\ old.loc \in Location
    BY <1>1, LocalView DEF IInv, ReaderOK
<1>3. ASSUME NEW k \in RunKinds
      PROVE  /\ LatestFor(k, old.loc) \in 0..MaxRows
             /\ LatestFor(k, old.loc) # NoRow =>
                   Admissible(ledger, k, old.loc, LatestFor(k, old.loc))
             /\ Wide(ledger) => Caught(old.before, k, LatestFor(k, old.loc))
    BY <1>2, LatestIs DEF Caught, ReaderOK
<1>4. CASE read = "planning"
    <2>1. /\ v \in ViewType /\ v.loc = old.loc /\ v.before = old.before
          /\ v.served = old.served /\ v.run = old.run /\ v.version = old.version
          /\ v.todo = old.todo \ {"planning"}
          /\ v.latest = [old.latest EXCEPT !["planning_input"] = LatestFor("planning_input", old.loc)]
        BY <1>2, <1>3, <1>4 DEF ViewType, Learn, RunKinds
    <2> HIDE DEF v
    <2>2. LatestOK(v, ledger)
        BY <1>2, <1>3, <2>1 DEF ReaderOK, LatestOK, Learnt, ViewType, RunKinds
    <2>3. ReaderOK("gather", v, ledger, runs, current[Here])
        BY <1>2, <2>1, <2>2 DEF ReaderOK
    <2> QED
        BY <1>1, <2>1, <2>3, SeeKeeps DEF ReaderPC
<1>5. CASE read = "location"
    <2>1. /\ v \in ViewType /\ v.loc = old.loc /\ v.before = old.before
          /\ v.served = old.served /\ v.run = old.run /\ v.version = old.version
          /\ v.todo = old.todo \ {"location"}
          /\ v.latest = [old.latest EXCEPT !["stock"] = LatestFor("stock", old.loc),
                                           !["purchase_orders"] = LatestFor("purchase_orders", old.loc)]
        BY <1>2, <1>3, <1>5 DEF ViewType, Learn, RunKinds
    <2> HIDE DEF v
    <2>2. LatestOK(v, ledger)
        BY <1>2, <1>3, <2>1 DEF ReaderOK, LatestOK, Learnt, ViewType, RunKinds
    <2>3. ReaderOK("gather", v, ledger, runs, current[Here])
        BY <1>2, <2>1, <2>2 DEF ReaderOK
    <2> QED
        BY <1>1, <2>1, <2>3, SeeKeeps DEF ReaderPC
<1>6. CASE read = "runs"
    <2> DEFINE own == {run \in runs : run.loc = old.loc}
               found == IF own = {} THEN NoRun ELSE Newest(own)
    <2>1. found = NoRun \/ (found \in runs /\ found.loc = old.loc)
        <3>1. \A run \in own : run.at \in 0..MaxRuns
            BY <1>2 DEF StateTyped, RunType
        <3>2. own # {} => Newest(own) \in own
            <4> HIDE DEF own
            <4> QED
                BY <3>1, NewestIsGreatest
        <3> QED
            BY <3>2
    <2>2. found \in RunType \cup {NoRun}
        BY <1>2, <2>1 DEF StateTyped
    <2>3. v = [[old EXCEPT !.run = found] EXCEPT !.todo = @ \ {"runs"}]
        BY <1>6 DEF Learn
    <2> HIDE DEF found
    <2>4. /\ v \in ViewType /\ v.loc = old.loc /\ v.before = old.before
          /\ v.served = old.served /\ v.run = found /\ v.version = old.version
          /\ v.todo = old.todo \ {"runs"} /\ v.latest = old.latest
        BY <1>2, <2>2, <2>3 DEF ViewType
    <2> HIDE DEF v
    <2>5. LatestOK(v, ledger)
        BY <1>2, <2>4 DEF ReaderOK, LatestOK, Learnt
    <2>6. ReaderOK("gather", v, ledger, runs, current[Here])
        BY <1>2, <2>1, <2>4, <2>5 DEF ReaderOK
    <2> QED
        BY <1>1, <2>4, <2>6, SeeKeeps DEF ReaderPC
<1> QED
    BY <1>4, <1>5, <1>6 DEF Reads

LEMMA ReportKeeps == ASSUME IInv, NEW d \in Reader, Report(d) PROVE IInv'
<1> DEFINE v == [seen[d] EXCEPT !.current = IsCurrent(seen[d])]
<1>1. rpc[d] = "gather" /\ seen[d].todo = {} /\ See(d, "report", v)
    BY DEF Report
<1>2. IsCurrent(seen[d]) \in BOOLEAN
    BY DEF IsCurrent
<1>3. /\ v \in ViewType /\ v.loc = seen[d].loc /\ v.before = seen[d].before
      /\ v.served = seen[d].served /\ v.run = seen[d].run /\ v.version = seen[d].version
      /\ v.todo = seen[d].todo /\ v.latest = seen[d].latest /\ v.current = IsCurrent(seen[d])
    BY <1>2, LocalView DEF ViewType
<1> HIDE DEF v
<1>4. IsCurrent(seen[d]) => IsCurrent(v)
    BY <1>3 DEF IsCurrent, UsedIds
<1>5. ReaderOK("report", v, ledger, runs, current[Here])
    BY <1>1, <1>3, <1>4, LocalView DEF ReaderOK, LatestOK, Learnt
<1> QED
    BY <1>1, <1>3, <1>5, SeeKeeps DEF ReaderPC

-----------------------------------------------------------------------------
(* The environment *)

LEMMA AcceptImportKeeps ==
    ASSUME IInv, NEW u \in Upload, NEW n \in FreeStamps, NEW s \in ImportStatus,
           NEW l \in PlacesFor(u), AcceptImport(u, l, n, s)
    PROVE  IInv'
<1> DEFINE row == [at |-> n, kind |-> KindOf[u], loc |-> l, file |-> u,
                   status |-> s, sup |-> NoRow]
<1>1. /\ ledger' = ledger \cup {row}
      /\ \A old \in ledger : (old.file # u \/ old.loc # l) /\ old.at # n
      /\ UNCHANGED <<drafts, current, retired, runs, runClock, pc, job, rpc, seen>>
    BY DEF AcceptImport, Appendable, masterVars, runVars, readVars
<1>2. row \in RowType /\ RowOK(row)
    BY DEF RowType, RowOK, FreeStamps, PlacesFor
<1>3. row.file = u /\ row.loc = l /\ row.at = n
    OBVIOUS
<1> HIDE DEF row
<1>4. IsFiniteSet(ledger') /\ ledger \subseteq ledger'
    BY <1>1, FS_AddElement DEF IInv, StateTyped
<1>5. StateTyped'
    BY <1>1, <1>2, <1>3, <1>4 DEF IInv, StateTyped, MasterTypeOK, RowsDiffer
<1>6. \A run \in runs : RunFits(run, ledger')
    BY <1>4, RunGrows DEF IInv
<1>7. \A q \in Runner : RunnerOK(pc[q], job[q], ledger', runs, runClock, current[Here])
    BY <1>4, RunnerGrows DEF IInv, StateTyped
<1>8. \A d \in Reader : ReaderOK(rpc[d], seen[d], ledger', runs, current[Here])
    BY <1>4, ReaderGrows DEF IInv
<1> QED
    BY <1>1, <1>5, <1>6, <1>7, <1>8 DEF IInv, OneRunPerKey

LEMMA ImportMasterKeeps == ASSUME IInv, NEW v \in Version, ImportMaster(v) PROVE IInv'
<1>1. /\ drafts' \in SUBSET Version
      /\ UNCHANGED <<ledger, current, retired, runs, runClock, pc, job, rpc, seen>>
    BY DEF ImportMaster, Draft, runVars, readVars, IInv, StateTyped, MasterTypeOK
<1> QED
    BY <1>1 DEF IInv, StateTyped, MasterTypeOK, RowsDiffer, OneRunPerKey

\* An activation is served to every request in flight.
LEMMA ActivateMasterKeeps == ASSUME IInv, NEW v \in Version, ActivateMaster(v) PROVE IInv'
<1>1. /\ UNCHANGED <<ledger, runs, runClock, pc, rpc>>
      /\ current'[Here] = v /\ MasterTypeOK'
    BY DEF ActivateMaster, Promote, IInv, StateTyped, MasterTypeOK
<1>2. ASSUME NEW q \in Runner
      PROVE  job'[q] \in JobType /\ RunnerOK(pc[q], job'[q], ledger, runs, runClock, v)
    <2>1. job[q] \in JobType /\ RunnerOK(pc[q], job[q], ledger, runs, runClock, current[Here])
        BY DEF IInv, StateTyped
    <2>2. CASE pc[q] = "idle"
        BY <2>1, <2>2 DEF ActivateMaster, RunnerOK
    <2>3. CASE pc[q] # "idle"
        <3> DEFINE j == [job[q] EXCEPT !.served = @ \cup {v}]
        <3>1. job'[q] = j
            BY <2>3 DEF ActivateMaster
        <3>2. /\ j \in JobType /\ j.loc = job[q].loc /\ j.pin = job[q].pin
              /\ j.before = job[q].before /\ j.served = job[q].served \cup {v}
              /\ j.version = job[q].version /\ j.inputs = job[q].inputs /\ j.at = job[q].at
              /\ j.answer = job[q].answer
            BY <2>1 DEF JobType
        <3> HIDE DEF j
        <3> QED
            BY <2>1, <3>1, <3>2 DEF RunnerOK, InputsOK, AnswerOK
    <2> QED
        BY <2>2, <2>3
<1>3. ASSUME NEW d \in Reader
      PROVE  seen'[d] \in ViewType /\ ReaderOK(rpc[d], seen'[d], ledger, runs, v)
    <2>1. seen[d] \in ViewType /\ ReaderOK(rpc[d], seen[d], ledger, runs, current[Here])
        BY LocalView
    <2>2. CASE rpc[d] = "idle"
        BY <2>1, <2>2 DEF ActivateMaster, ReaderOK
    <2>3. CASE rpc[d] # "idle"
        <3> DEFINE w == [seen[d] EXCEPT !.served = @ \cup {v}]
        <3>1. seen'[d] = w
            BY <2>3 DEF ActivateMaster
        <3>2. /\ w \in ViewType /\ w.loc = seen[d].loc /\ w.before = seen[d].before
              /\ w.served = seen[d].served \cup {v} /\ w.run = seen[d].run
              /\ w.version = seen[d].version /\ w.todo = seen[d].todo
              /\ w.latest = seen[d].latest /\ w.current = seen[d].current
            BY <2>1 DEF ViewType
        <3> HIDE DEF w
        <3>3. IsCurrent(seen[d]) => IsCurrent(w)
            BY <3>2 DEF IsCurrent, UsedIds
        <3> QED
            BY <2>1, <3>1, <3>2, <3>3 DEF ReaderOK, LatestOK, Learnt
    <2> QED
        BY <2>2, <2>3
<1>4. StateTyped'
    <2>1. job' \in [Runner -> JobType] /\ seen' \in [Reader -> ViewType]
        BY <1>2, <1>3 DEF ActivateMaster
    <2> QED
        BY <1>1, <2>1 DEF IInv, StateTyped, RowsDiffer
<1> QED
    BY <1>1, <1>2, <1>3, <1>4 DEF IInv, OneRunPerKey

-----------------------------------------------------------------------------
(* The invariant *)

LEMMA InitInv == Init => IInv
<1> SUFFICES ASSUME Init PROVE IInv
    OBVIOUS
<1>1. StateTyped
    BY NoJobOK, NoViewOK, FS_EmptySet DEF Init, LedgerInit, MasterInit, StateTyped,
       MasterTypeOK, RowsDiffer, RunnerPC, ReaderPC
<1> QED
    BY <1>1 DEF IInv, Init, OneRunPerKey, RunnerOK, ReaderOK

LEMMA ReceiveKeeps ==
    ASSUME IInv, NEW q \in Runner, ReceiveRun(q) \/ RunFails(q) PROVE IInv'
BY DeclineKeeps DEF ReceiveRun, RunFails

LEMMA ReaderLeaves ==
    ASSUME IInv, NEW d \in Reader, ReceiveStatus(d) \/ StatusFails(d) PROVE IInv'
BY LeaveKeeps DEF ReceiveStatus, StatusFails

LEMMA NextInv == IInv /\ [Next]_vars => IInv'
<1> SUFFICES ASSUME IInv, [Next]_vars PROVE IInv'
    OBVIOUS
<1>1. CASE UNCHANGED vars
    <2>1. UNCHANGED <<ledger, drafts, current, retired, runs, runClock, pc, job, rpc, seen>>
        BY <1>1 DEF vars, envVars, masterVars, runVars, readVars
    <2> QED
        BY <2>1 DEF IInv, StateTyped, MasterTypeOK, RowsDiffer, OneRunPerKey
<1>2. ASSUME NEW u \in Upload, NEW n \in FreeStamps, NEW s \in ImportStatus,
             NEW l \in PlacesFor(u), AcceptImport(u, l, n, s)
      PROVE  IInv'
    BY <1>2, AcceptImportKeeps
<1>3. ASSUME NEW v \in Version, ImportMaster(v) \/ ActivateMaster(v) PROVE IInv'
    BY <1>3, ImportMasterKeeps, ActivateMasterKeeps
<1>4. ASSUME NEW q \in Runner, NEW l \in Location, NEW t \in AsOf, NEW pin \in Pins,
             StartRun(q, l, t, pin)
      PROVE  IInv'
    BY <1>4, StartRunKeeps
<1>5. ASSUME NEW q \in Runner, RunProgress(q) \/ RunFails(q) PROVE IInv'
    BY <1>5, LoadMasterKeeps, SelectKeeps, CalculateKeeps, LookupRunKeeps, InsertRunKeeps,
       ReceiveKeeps DEF RunProgress
<1>6. ASSUME NEW d \in Reader, NEW l \in Location, StartStatus(d, l) PROVE IInv'
    BY <1>6, StartStatusKeeps
<1>7. ASSUME NEW d \in Reader, StatusProgress(d) \/ StatusFails(d) PROVE IInv'
    BY <1>7, ReadMasterKeeps, GatherKeeps, ReportKeeps, ReaderLeaves DEF StatusProgress
<1> QED
    BY <1>1, <1>2, <1>3, <1>4, <1>5, <1>6, <1>7 DEF Next

\* In every reachable state each request knows what the invariant says.
THEOREM Inductive == Spec => []IInv
BY InitInv, NextInv, PTL DEF Spec

-----------------------------------------------------------------------------
(* What the runs check, for every instance *)

\* The shape of the state.
THEOREM TypeCorrect == Spec => []TypeOK
<1>1. IInv => TypeOK
    <2> SUFFICES ASSUME IInv PROVE TypeOK
        OBVIOUS
    <2>1. \A row \in ledger : row.at \in 1..MaxRows /\ row.kind \in RunKinds
        BY DEF IInv, StateTyped, RowType
    <2>2. \A run \in runs : /\ run.at \in 1..runClock
                            /\ run.loc \in Location /\ run.version \in Version
                            /\ run.inputs \in [RunKinds -> 1..MaxRows]
        BY DEF IInv, StateTyped, RunType
    <2>3. \A d \in Reader : seen[d].current \in BOOLEAN /\ seen[d].todo \subseteq Reads
        BY DEF IInv, StateTyped, ViewType
    <2> QED
        BY <2>1, <2>2, <2>3 DEF IInv, StateTyped, TypeOK, RunnerPC, ReaderPC
<1> QED
    BY <1>1, Inductive, PTL

\* Racing calculations of one plan leave one run.
THEOREM RunsAreUnique == Spec => []OneRunPerKey
<1>1. IInv => OneRunPerKey
    BY DEF IInv
<1> QED
    BY <1>1, Inductive, PTL

\* What a run used was accepted, of its kind and of its location.
THEOREM InputsAreAdmissible == Spec => []InputsAdmissible
<1>1. IInv => InputsAdmissible
    BY DEF IInv, RunFits, Admissible, InputsAdmissible
<1> QED
    BY <1>1, Inductive, PTL

\* The accepted planning imports fit the window a location's is searched in.
WindowHolds == Cardinality(AcceptedIn("planning_input", NoLocation)) <= Window

LEMMA HoldsIsWide == WindowHolds <=> Wide(ledger)
BY DEF WindowHolds, Wide, AcceptedIn

\* No stamp is used for two kinds.
LEMMA OneKind ==
    ASSUME StateTyped, NEW k, NEW x, NEW l, NEW m, NEW n,
           Admissible(ledger, k, l, n), Admissible(ledger, x, m, n)
    PROVE  k = x
BY DEF StateTyped, RowsDiffer, Admissible

\* A run reported as current is current: while every planning import fits the
\* window, an overtaken run is never reported, whatever is stored meanwhile.
THEOREM ReportedRunsAreCurrent == Spec => [](WindowHolds => CurrentIsCurrent)
<1>1. ASSUME IInv, WindowHolds, NEW d \in Reader, rpc[d] = "report", seen[d].current
      PROVE  /\ UpToDate(seen[d].run, seen[d].before, RunKinds)
             /\ seen[d].run.version \in seen[d].served
    <2> DEFINE v == seen[d]
               run == seen[d].run
    <2>1. /\ v \in ViewType /\ StateTyped /\ v.todo = {} /\ IsCurrent(v) /\ LatestOK(v, ledger)
          /\ v.before \subseteq {row \in ledger : Counts(row, v.loc)}
          /\ v.version \in v.served
          /\ run \in runs /\ RunFits(run, ledger)
        BY <1>1, LocalView DEF IInv, ReaderOK, IsCurrent
    <2>2. ASSUME NEW row \in v.before, row.kind \in RunKinds PROVE row.at <= run.inputs[row.kind]
        <3> DEFINE k == row.kind
        <3>1. row.at \in 1..MaxRows /\ v.latest[k] \in 0..MaxRows
            BY <2>1, <2>2 DEF StateTyped, RowType, ViewType
        <3>2. k \in Learnt(v)
            BY <2>1, <2>2 DEF Learnt
        <3>3. row.at <= v.latest[k] /\ v.latest[k] # NoRow
            BY <1>1, <2>1, <3>1, <3>2, HoldsIsWide DEF LatestOK, Caught, NoRow
        <3>4. PICK x \in RunKinds : v.latest[k] = run.inputs[x]
            BY <2>1, <2>2, <3>3 DEF IsCurrent, UsedIds
        <3>5. Admissible(ledger, k, v.loc, v.latest[k]) /\ Admissible(ledger, x, run.loc, v.latest[k])
            BY <2>1, <3>2, <3>3, <3>4 DEF LatestOK, RunFits
        <3>6. k = x
            BY <2>1, <3>5, OneKind
        <3> QED
            BY <3>3, <3>4, <3>6
    <2> QED
        BY <2>1, <2>2 DEF UpToDate, IsCurrent
<1>2. IInv => (WindowHolds => CurrentIsCurrent)
    BY <1>1 DEF CurrentIsCurrent
<1> QED
    BY <1>2, Inductive, PTL

\* Uploads of one kind with the same text are the same upload.
TextsDiffer == \A u, w \in Upload : KindOf[u] = KindOf[w] /\ Text[u] = Text[w] => u = w

\* The inputs of the answered run are those the request selected.
LEMMA AnswerInputs ==
    ASSUME TextsDiffer, IInv, NEW q \in Runner, pc[q] = "replied", NEW k \in RunKinds
    PROVE  job[q].answer.inputs[k] = job[q].inputs[k]
<1> DEFINE j == job[q]
           run == job[q].answer
<1>1. /\ StateTyped /\ run \in runs /\ RunFits(run, ledger) /\ AnswerOK(j, ledger, runs)
      /\ InputsOK(j, ledger) /\ j.inputs[k] # NoRow /\ run.loc = j.loc
    BY Local DEF IInv, RunnerOK, AnswerOK, StateTyped, Complete
<1>2. PICK a \in ledger : a.at = j.inputs[k] /\ Text[a.file] = run.key[4][k]
    BY <1>1 DEF AnswerOK, HasText
<1>3. PICK b \in ledger : b.at = run.inputs[k] /\ Text[b.file] = run.key[4][k]
    BY <1>1 DEF RunFits, HasText
<1>4. /\ a.kind = k /\ (k \in PerLocation => a.loc = j.loc)
      /\ b.kind = k /\ (k \in PerLocation => b.loc = j.loc)
    BY <1>1, <1>2, <1>3 DEF InputsOK, RunFits, Admissible, StateTyped, RowsDiffer
<1>5. a.file \in Upload /\ b.file \in Upload /\ RowOK(a) /\ RowOK(b)
    BY <1>1 DEF StateTyped, RowType
<1>6. a.file = b.file
    BY <1>2, <1>3, <1>4, <1>5 DEF TextsDiffer, RowOK
<1>7. a.loc = b.loc
    BY <1>4, <1>5 DEF RowOK, PlacesFor
<1> QED
    BY <1>1, <1>2, <1>3, <1>6, <1>7 DEF StateTyped, RowsDiffer

\* A calculation answers with a run as new as all that was accepted before it
\* was asked for, if the window holds and no two uploads have one text.
THEOREM RecalculationsCatchUp ==
    ASSUME TextsDiffer PROVE Spec => [](WindowHolds => RecalculationCatchesUp)
<1>1. ASSUME IInv, WindowHolds, NEW q \in Runner, pc[q] = "replied"
      PROVE  /\ UpToDate(job[q].answer, job[q].before, {k \in RunKinds : job[q].pin[k] = NoRow})
             /\ job[q].answer.version \in job[q].served
    <2> DEFINE j == job[q]
    <2>1. /\ AnswerOK(j, ledger, runs) /\ InputsOK(j, ledger) /\ j.version \in j.served
          /\ \A k \in RunKinds : j.inputs[k] # NoRow
          /\ j.answer.version = j.version
        BY <1>1, Local DEF IInv, StateTyped, RunnerOK, AnswerOK, Complete
    <2>2. ASSUME NEW k \in RunKinds, j.pin[k] = NoRow PROVE Caught(j.before, k, j.answer.inputs[k])
        BY <1>1, <2>1, <2>2, HoldsIsWide, AnswerInputs DEF InputsOK
    <2> QED
        BY <2>1, <2>2 DEF UpToDate, Caught
<1>2. IInv => (WindowHolds => RecalculationCatchesUp)
    BY <1>1 DEF RecalculationCatchesUp
<1> QED
    BY <1>2, Inductive, PTL
=============================================================================
