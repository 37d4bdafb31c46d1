------------------------ MODULE SourceImports_proofs ------------------------
(***************************************************************************)
(* Proofs about SourceImports for any number of requests, uploads,         *)
(* versions and locations, and any bound of the clock.                     *)
(*                                                                         *)
(* The inductive invariant says of every request what it may rely on when  *)
(* it writes, although other requests write between its reads: the rows it *)
(* saw at the start are still those rows, the row it supersedes and the    *)
(* planning import it used are still there, and its stamp is its own.      *)
(***************************************************************************)
EXTENDS SourceImports, ImportLedger_proofs

USE HereAssumption, UploadAssumption, StampAssumption, NoLocationAssumption,
    HomeAssumption, NoVersionAssumption

Verdict == {"none", "accepted", "rejected"}

JobType == [file : Upload \cup {"none"}, kind : Kind \cup {"none"},
            loc : Location \cup {NoLocation}, basis : Version \cup {NoVersion},
            plan : Nat, verdict : Verdict, sup : Nat, at : Nat,
            before : SUBSET Nat, served : SUBSET (Version \cup {NoVersion}), answer : Nat]

AcceptedRows(rows) == {row \in rows : IsAccepted(row)}

\* A request at p with locals j, against the rows and the clock of now.

Typed(j, n) == /\ j.file \in Upload
               /\ j.kind = KindOf[j.file]
               /\ j.loc \in Location \cup {NoLocation}
               /\ j.basis \in Version \cup {NoVersion}
               /\ {j.sup, j.plan, j.at, j.answer} \subseteq 0..n

\* What was accepted when it began is in the ledger.
SawStored(j, rows) == j.before \subseteq Stamps(AcceptedRows(rows))

\* Once it has looked for a duplicate, none that it could have seen is there.
Deduped == {"master", "planning", "supersede", "stamp", "persist"}
NoDuplicate(j, rows) ==
    ~\E old \in rows : /\ old.at \in j.before
                       /\ old.file = j.file
                       /\ Stream(old) = <<j.kind, j.loc>>

SupersedesOwn(j, rows) ==
    \/ j.sup = NoRow
    \/ \E old \in rows : /\ old.at = j.sup /\ IsAccepted(old)
                         /\ Stream(old) = <<j.kind, j.loc>>

\* Only a master workbook is judged without the active master.  A verdict is
\* reached on a workbook that is a version, or on stock for which a planning
\* import of its location is stored.
Waiting == {"master", "planning"}
Judged == {"supersede", "stamp", "persist"}
Founded(j, rows) ==
    /\ j.verdict \in {"accepted", "rejected"}
    /\ j.kind = "master_data" /\ j.verdict = "accepted" => j.file \in Version
    /\ j.kind = "stock" =>
          \E plan \in rows : /\ plan.at = j.plan
                             /\ IsAccepted(plan) /\ plan.kind = "planning_input"
                             /\ j.loc \in Covers[plan.file]

\* The stamp is new, and later than all that was read before it was taken.
OwnStamp(j, rows) == /\ j.at > 0 /\ j.sup < j.at /\ j.plan < j.at
                     /\ \A n \in j.before : n < j.at
                     /\ \A row \in rows : row.at # j.at

RequestOK(p, j, rows, n) ==
    p # "idle" => /\ Typed(j, n)
                  /\ SawStored(j, rows)
                  /\ SupersedesOwn(j, rows)
                  /\ p \in Deduped => NoDuplicate(j, rows)
                  /\ p \in Waiting => j.kind # "master_data"
                  /\ p \in Judged => Founded(j, rows)
                  /\ p = "persist" => OwnStamp(j, rows)

\* The committed rows.
RowsTyped(rows, n) == \A row \in rows : /\ row.at \in 1..n
                                        /\ row.file \in Upload /\ row.kind = KindOf[row.file]
                                        /\ row.status \in {"accepted", "rejected"}

StampsUnique(rows) == \A a, b \in rows : a.at = b.at => a = b

StateTyped == /\ MasterTypeOK
              /\ clock \in 0..MaxStamp
              /\ pc \in [Req -> PC]
              /\ job \in [Req -> JobType]
              /\ RowsTyped(ledger, clock)
              /\ StampsUnique(ledger)

\* Two requests that are about to write hold different stamps.
StampsDiffer == \A q, r \in Req : q # r /\ pc[q] = "persist" /\ pc[r] = "persist"
                                     => job[q].at # job[r].at

IInv == /\ StateTyped
        /\ \A r \in Req : RequestOK(pc[r], job[r], ledger, clock)
        /\ StampsDiffer
        /\ VersionsBacked
        /\ StockHasPlan

-----------------------------------------------------------------------------
(* One request *)

\* What a request relies on survives rows with stamps that are neither in the
\* ledger nor its own.
LEMMA RowsMayGrow ==
    ASSUME NEW p, NEW j, NEW rows, NEW more, NEW n \in Nat, NEW m \in Nat,
           RequestOK(p, j, rows, n), rows \subseteq more, n <= m,
           \A row \in more \ rows : /\ row.at \notin Stamps(rows)
                                    /\ p = "persist" => row.at # j.at
    PROVE  RequestOK(p, j, more, m)
<1> SUFFICES ASSUME p # "idle" PROVE RequestOK(p, j, more, m)
    BY DEF RequestOK
<1>1. Typed(j, m)
    BY DEF RequestOK, Typed
<1>2. SawStored(j, more)
    BY DEF RequestOK, SawStored, Stamps, AcceptedRows
<1>3. SupersedesOwn(j, more)
    BY DEF RequestOK, SupersedesOwn
<1>4. p \in Deduped => NoDuplicate(j, more)
    BY DEF RequestOK, NoDuplicate, SawStored, Stamps, AcceptedRows
<1>5. p \in Judged => Founded(j, more)
    BY DEF RequestOK, Founded
<1>6. p = "persist" => OwnStamp(j, more)
    BY DEF RequestOK, OwnStamp
<1> QED
    BY <1>1, <1>2, <1>3, <1>4, <1>5, <1>6 DEF RequestOK

LEMMA NoJobOK == NoJob \in JobType /\ RequestOK("idle", NoJob, ledger, clock)
BY DEF NoJob, JobType, RequestOK, NoRow, Verdict, Kind

\* A step that only moves one request, and not to its write.
LEMMA GotoKeeps ==
    ASSUME IInv, NEW r \in Req, NEW p \in PC \ {"persist"}, NEW j \in JobType,
           Goto(r, p, j), RequestOK(p, j, ledger, clock)
    PROVE  IInv'
<1> USE DEF IInv, Goto
<1>1. /\ UNCHANGED <<ledger, clock, masterVars>>
      /\ pc'[r] = p /\ job'[r] = j
      /\ \A q \in Req \ {r} : pc'[q] = pc[q] /\ job'[q] = job[q]
    BY DEF StateTyped
<1>2. StateTyped'
    BY DEF StateTyped, MasterTypeOK, masterVars, RowsTyped, StampsUnique
<1>3. ASSUME NEW q \in Req PROVE RequestOK(pc'[q], job'[q], ledger', clock')
    BY <1>1
<1>4. StampsDiffer'
    BY <1>1 DEF StampsDiffer
<1>5. VersionsBacked' /\ StockHasPlan'
    BY <1>1 DEF VersionsBacked, StockHasPlan, Known, masterVars
<1> QED
    BY <1>2, <1>3, <1>4, <1>5

LEMMA DeclineKeeps == ASSUME IInv, NEW r \in Req, Decline(r) PROVE IInv'
<1>1. "idle" \in PC \ {"persist"}
    BY DEF PC
<1> QED
    BY <1>1, NoJobOK, GotoKeeps DEF Decline

\* What the invariant says of a request that is under way.
LEMMA Local ==
    ASSUME IInv, NEW r \in Req, pc[r] # "idle"
    PROVE  /\ job[r] \in JobType
           /\ Typed(job[r], clock)
           /\ SawStored(job[r], ledger)
           /\ SupersedesOwn(job[r], ledger)
           /\ pc[r] \in Deduped => NoDuplicate(job[r], ledger)
           /\ pc[r] \in Waiting => job[r].kind # "master_data"
           /\ pc[r] \in Judged => Founded(job[r], ledger)
           /\ pc[r] = "persist" => OwnStamp(job[r], ledger)
           /\ clock \in Nat
BY DEF IInv, StateTyped, RequestOK

\* The latest row of any part of the ledger.
LEMMA LatestIs ==
    ASSUME IInv, NEW rows \in SUBSET ledger
    PROVE  /\ NewestAt(rows) \in 0..clock
           /\ rows = {} => NewestAt(rows) = NoRow
           /\ rows # {} => \E row \in rows : row.at = NewestAt(rows)
<1>1. clock \in Nat /\ \A row \in rows : row.at \in 0..clock
    BY DEF IInv, StateTyped, RowsTyped
<1> QED
    BY <1>1, NewestAtIs

\* A stamp among those of the accepted rows is the stamp of an accepted row.
LEMMA StampsMean ==
    ASSUME IInv, NEW row \in ledger, row.at \in Stamps(AcceptedRows(ledger))
    PROVE  IsAccepted(row)
BY DEF IInv, StateTyped, StampsUnique, Stamps, AcceptedRows

-----------------------------------------------------------------------------
(* The steps of a request *)

LEMMA StartKeeps ==
    ASSUME IInv, NEW r \in Req, NEW u \in Upload, NEW l \in Location \cup {NoLocation},
           Start(r, u, l)
    PROVE  IInv'
<1> DEFINE j == [NoJob EXCEPT !.file = u, !.kind = KindOf[u], !.loc = l,
                              !.before = Stamps({row \in ledger : IsAccepted(row)}),
                              !.served = {current[Here]}]
<1>1. Goto(r, "dedupe", j)
    BY DEF Start, Goto
<1>2. /\ j.file = u /\ j.kind = KindOf[u] /\ j.loc = l /\ j.basis = NoVersion
      /\ j.plan = 0 /\ j.verdict = "none" /\ j.sup = 0 /\ j.at = 0 /\ j.answer = 0
      /\ j.before = Stamps(AcceptedRows(ledger))
    BY DEF NoJob, NoRow, AcceptedRows
<1>3. clock \in Nat /\ current[Here] \in Version \cup {NoVersion}
    BY DEF IInv, StateTyped, MasterTypeOK
<1>4. Stamps(AcceptedRows(ledger)) \subseteq Nat
    BY DEF IInv, StateTyped, RowsTyped, Stamps, AcceptedRows
<1>5. j \in JobType
    BY <1>3, <1>4 DEF JobType, NoJob, NoRow, Verdict, AcceptedRows
<1> HIDE DEF j
<1>6. RequestOK("dedupe", j, ledger, clock)
    BY <1>2, <1>3 DEF RequestOK, Typed, SawStored, SupersedesOwn, NoRow, Deduped, Judged, Waiting
<1>7. "dedupe" \in PC \ {"persist"}
    BY DEF PC
<1> QED
    BY <1>1, <1>5, <1>6, <1>7, GotoKeeps

\* A request that passes the duplicate check has no duplicate it could have seen.
LEMMA FindDuplicateKeeps ==
    ASSUME IInv, NEW r \in Req, FindDuplicate(r) PROVE IInv'
<1> DEFINE j == job[r]
<1>1. pc[r] = "dedupe"
    BY DEF FindDuplicate
<1>2. /\ j \in JobType /\ Typed(j, clock) /\ SawStored(j, ledger)
      /\ SupersedesOwn(j, ledger) /\ clock \in Nat
    BY <1>1, Local
<1>3. CASE Duplicates(r) # {}
    <2> DEFINE k == [j EXCEPT !.answer = NewestAt(Duplicates(r))]
    <2>1. Goto(r, "replied", k)
        BY <1>1, <1>3 DEF FindDuplicate
    <2>2. Duplicates(r) \in SUBSET ledger
        BY DEF Duplicates, AcceptedIn
    <2>3. NewestAt(Duplicates(r)) \in 0..clock
        BY <2>2, LatestIs
    <2>4. k \in JobType
        BY <1>2, <2>3 DEF JobType
    <2>5. RequestOK("replied", k, ledger, clock)
        BY <1>2, <2>3 DEF JobType, RequestOK, Typed, SawStored, SupersedesOwn, Deduped,
               Judged, Waiting
    <2> HIDE DEF k
    <2> QED
        BY <2>1, <2>4, <2>5, GotoKeeps DEF PC
<1>4. CASE Duplicates(r) = {}
    <2>1. NoDuplicate(j, ledger)
        BY <1>2, <1>4, StampsMean DEF NoDuplicate, Duplicates, AcceptedIn, SawStored
    <2>2. ASSUME j.kind \notin PerLocation, Reject(r, j) PROVE IInv'
        <3> DEFINE k == [j EXCEPT !.verdict = "rejected"]
        <3>1. k \in JobType
            BY <1>2 DEF JobType, Verdict
        <3>2. RequestOK("stamp", k, ledger, clock)
            BY <1>2, <2>1, <2>2 DEF JobType, RequestOK, Typed, SawStored, SupersedesOwn,
               NoDuplicate, Founded, PerLocation, Waiting
        <3>3. Goto(r, "stamp", k)
            BY <2>2 DEF Reject
        <3> HIDE DEF k
        <3> QED
            BY <3>1, <3>2, <3>3, GotoKeeps DEF PC
    <2>3. ASSUME j.kind = "master_data", j.file \notin Malformed, Accept(r, j) PROVE IInv'
        <3> DEFINE k == [j EXCEPT !.verdict = "accepted"]
        <3>1. k \in JobType
            BY <1>2 DEF JobType, Verdict
        <3>2. j.file \in Version
            BY <1>2, <2>3 DEF Typed
        <3>3. RequestOK("supersede", k, ledger, clock)
            BY <1>2, <2>1, <2>3, <3>2 DEF JobType, RequestOK, Typed, SawStored,
               SupersedesOwn, NoDuplicate, Founded, Waiting
        <3>4. Goto(r, "supersede", k)
            BY <2>3 DEF Accept
        <3> HIDE DEF k
        <3> QED
            BY <3>1, <3>3, <3>4, GotoKeeps DEF PC
    <2>4. ASSUME j.kind # "master_data", Goto(r, "master", j) PROVE IInv'
        <3>1. RequestOK("master", j, ledger, clock)
            BY <1>2, <2>1, <2>4 DEF RequestOK, Judged
        <3> QED
            BY <1>2, <2>4, <3>1, GotoKeeps DEF PC
    <2> QED
        BY <1>1, <1>4, <2>2, <2>3, <2>4 DEF FindDuplicate, PerLocation
<1> QED
    BY <1>3, <1>4

\* A verdict of a request that waited for the master, whichever it is.
LEMMA JudgeKeeps ==
    ASSUME IInv, NEW r \in Req, NEW j \in JobType, Accept(r, j) \/ Reject(r, j),
           RequestOK("planning", j, ledger, clock),
           j.kind = "stock" => \E plan \in ledger : /\ plan.at = j.plan /\ IsAccepted(plan)
                                                    /\ plan.kind = "planning_input"
                                                    /\ j.loc \in Covers[plan.file]
    PROVE  IInv'
<1>1. ASSUME NEW v \in {"accepted", "rejected"}, NEW p \in {"supersede", "stamp"},
             Goto(r, p, [j EXCEPT !.verdict = v])
      PROVE  IInv'
    <2> DEFINE k == [j EXCEPT !.verdict = v]
    <2>1. k \in JobType
        BY DEF JobType, Verdict
    <2>2. RequestOK(p, k, ledger, clock)
        BY DEF JobType, RequestOK, Typed, SawStored, SupersedesOwn, NoDuplicate, Founded,
               Deduped, Waiting
    <2>3. Goto(r, p, k)
        BY <1>1
    <2> HIDE DEF k
    <2> QED
        BY <2>1, <2>2, <2>3, GotoKeeps DEF PC
<1> QED
    BY <1>1 DEF Accept, Reject

LEMMA LoadMasterKeeps ==
    ASSUME IInv, NEW r \in Req, LoadMaster(r) PROVE IInv'
<1> DEFINE j == [job[r] EXCEPT !.basis = current[Here]]
<1>1. pc[r] = "master"
    BY DEF LoadMaster
<1>2. /\ job[r] \in JobType /\ Typed(job[r], clock) /\ SawStored(job[r], ledger)
      /\ SupersedesOwn(job[r], ledger) /\ NoDuplicate(job[r], ledger)
      /\ job[r].kind # "master_data"
    BY <1>1, Local DEF Deduped, Waiting
<1>3. current[Here] \in Version \cup {NoVersion}
    BY DEF IInv, StateTyped, MasterTypeOK
<1>4. j \in JobType
    BY <1>2, <1>3 DEF JobType
<1>5. /\ RequestOK("planning", j, ledger, clock)
      /\ j.kind = job[r].kind
    BY <1>2, <1>3 DEF JobType, RequestOK, Typed, SawStored, SupersedesOwn, NoDuplicate, Judged
<1>6. \/ Decline(r)
      \/ Goto(r, "planning", j)
      \/ j.kind # "stock" /\ (Accept(r, j) \/ Reject(r, j))
    BY <1>5 DEF LoadMaster
<1> HIDE DEF j
<1>7. CASE Decline(r)
    BY <1>7, DeclineKeeps
<1>8. CASE Goto(r, "planning", j)
    BY <1>4, <1>5, <1>8, GotoKeeps DEF PC
<1>9. CASE j.kind # "stock" /\ (Accept(r, j) \/ Reject(r, j))
    BY <1>4, <1>5, <1>9, JudgeKeeps
<1> QED
    BY <1>6, <1>7, <1>8, <1>9

\* The planning import that names the required items is in the ledger to stay.
LEMMA LoadPlanningKeeps ==
    ASSUME IInv, NEW r \in Req, LoadPlanning(r) PROVE IInv'
<1> DEFINE plans == PlanningFor(job[r].loc)
           j == [job[r] EXCEPT !.plan = NewestAt(plans)]
<1>1. pc[r] = "planning"
    BY DEF LoadPlanning
<1>2. /\ job[r] \in JobType /\ Typed(job[r], clock) /\ SawStored(job[r], ledger)
      /\ SupersedesOwn(job[r], ledger) /\ NoDuplicate(job[r], ledger)
      /\ job[r].kind # "master_data" /\ clock \in Nat
    BY <1>1, Local DEF Deduped, Waiting
<1>3. /\ plans \in SUBSET ledger
      /\ \A plan \in plans : /\ IsAccepted(plan) /\ plan.kind = "planning_input"
                             /\ job[r].loc \in Covers[plan.file]
    BY DEF PlanningFor, WindowOf, AcceptedIn, Stream
<1>4. /\ NewestAt(plans) \in 0..clock
      /\ plans # {} => \E plan \in plans : plan.at = NewestAt(plans)
    BY <1>3, LatestIs
<1>5. j \in JobType /\ j.loc = job[r].loc /\ j.plan = NewestAt(plans)
    BY <1>2, <1>4 DEF JobType
<1>6. RequestOK("planning", j, ledger, clock)
    BY <1>2, <1>4, <1>5 DEF JobType, RequestOK, Typed, SawStored, SupersedesOwn, NoDuplicate,
       Judged
<1>7. Decline(r) \/ (plans # {} /\ (Accept(r, j) \/ Reject(r, j)))
    BY DEF LoadPlanning
<1> HIDE DEF j, plans
<1>8. CASE Decline(r)
    BY <1>8, DeclineKeeps
<1>9. CASE plans # {} /\ (Accept(r, j) \/ Reject(r, j))
    <2>1. \E plan \in ledger : /\ plan.at = j.plan /\ IsAccepted(plan)
                              /\ plan.kind = "planning_input"
                              /\ j.loc \in Covers[plan.file]
        BY <1>3, <1>4, <1>5, <1>9
    <2> QED
        BY <1>5, <1>6, <1>9, <2>1, JudgeKeeps
<1> QED
    BY <1>7, <1>8, <1>9

LEMMA SupersedeKeeps ==
    ASSUME IInv, NEW r \in Req, Supersede(r) PROVE IInv'
<1> DEFINE old == AcceptedIn(job[r].kind, job[r].loc)
           j == [job[r] EXCEPT !.sup = NewestAt(old)]
<1>1. pc[r] = "supersede"
    BY DEF Supersede
<1>2. /\ job[r] \in JobType /\ Typed(job[r], clock) /\ SawStored(job[r], ledger)
      /\ NoDuplicate(job[r], ledger) /\ Founded(job[r], ledger) /\ clock \in Nat
    BY <1>1, Local DEF Deduped, Judged
<1>3. /\ NewestAt(old) \in 0..clock
      /\ NewestAt(old) = NoRow \/ \E row \in old : row.at = NewestAt(old)
    BY LatestIs DEF AcceptedIn
<1>4. j \in JobType
    BY <1>2, <1>3 DEF JobType
<1>5. SupersedesOwn(j, ledger)
    BY <1>2, <1>3 DEF JobType, SupersedesOwn, AcceptedIn
<1>6. RequestOK("stamp", j, ledger, clock)
    BY <1>2, <1>3, <1>5 DEF JobType, RequestOK, Typed, SawStored, NoDuplicate, Founded, Waiting
<1>7. Goto(r, "stamp", j)
    BY DEF Supersede
<1> HIDE DEF j
<1> QED
    BY <1>4, <1>6, <1>7, GotoKeeps DEF PC

\* The stamp is above every stamp that was handed out before.
LEMMA StampKeeps ==
    ASSUME IInv, NEW r \in Req, Stamp(r) PROVE IInv'
<1> DEFINE j == [job[r] EXCEPT !.at = clock + 1]
<1>1. pc[r] = "stamp"
    BY DEF Stamp
<1>2. /\ job[r] \in JobType /\ Typed(job[r], clock) /\ SawStored(job[r], ledger)
      /\ SupersedesOwn(job[r], ledger) /\ NoDuplicate(job[r], ledger)
      /\ Founded(job[r], ledger) /\ clock \in Nat
    BY <1>1, Local DEF Deduped, Judged
<1>3. CASE Decline(r)
    BY <1>3, DeclineKeeps
<1>4. ASSUME /\ clock < MaxStamp
             /\ clock' = clock + 1
             /\ pc' = [pc EXCEPT ![r] = "persist"]
             /\ job' = [job EXCEPT ![r].at = clock + 1]
             /\ UNCHANGED <<ledger, masterVars>>
      PROVE  IInv'
    <2>1. /\ pc'[r] = "persist" /\ job'[r] = j
          /\ \A q \in Req \ {r} : pc'[q] = pc[q] /\ job'[q] = job[q]
        BY <1>4 DEF IInv, StateTyped
    <2>2. /\ j \in JobType /\ j.at = clock + 1 /\ j.sup = job[r].sup /\ j.plan = job[r].plan
          /\ j.before = job[r].before /\ j.file = job[r].file /\ j.kind = job[r].kind
          /\ j.loc = job[r].loc /\ j.basis = job[r].basis /\ j.answer = job[r].answer
          /\ j.verdict = job[r].verdict
        BY <1>2 DEF JobType
    <2> HIDE DEF j
    <2>3. /\ clock' \in 0..MaxStamp /\ clock' \in Nat
          /\ \A row \in ledger : row.at \in 1..clock
        BY <1>2, <1>4 DEF IInv, StateTyped, RowsTyped
    <2>4. StateTyped'
        <3>1. job' \in [Req -> JobType] /\ pc' \in [Req -> PC]
            BY <1>4, <2>2 DEF IInv, StateTyped, PC, j
        <3>2. RowsTyped(ledger', clock') /\ StampsUnique(ledger')
            BY <1>2, <1>4 DEF IInv, StateTyped, RowsTyped, StampsUnique
        <3> QED
            BY <1>4, <2>3, <3>1, <3>2 DEF IInv, StateTyped, MasterTypeOK, masterVars
    <2>5. ASSUME NEW q \in Req PROVE RequestOK(pc'[q], job'[q], ledger', clock')
        <3>1. CASE q = r
            <4>1. Typed(j, clock') /\ Founded(j, ledger)
                BY <1>2, <1>4, <2>2 DEF Typed, Founded
            <4>2. OwnStamp(j, ledger)
                BY <1>2, <2>2, <2>3 DEF OwnStamp, Typed, SawStored, Stamps, AcceptedRows
            <4> QED
                BY <1>2, <1>4, <2>1, <2>2, <3>1, <4>1, <4>2
                   DEF RequestOK, SawStored, SupersedesOwn, NoDuplicate, Waiting
        <3>2. CASE q # r
            <4>1. RequestOK(pc[q], job[q], ledger, clock)
                BY DEF IInv
            <4> QED
                BY <1>2, <1>4, <2>1, <2>3, <3>2, <4>1, RowsMayGrow
        <3> QED
            BY <3>1, <3>2
    <2>6. StampsDiffer'
        <3>1. ASSUME NEW q \in Req \ {r}, pc[q] = "persist" PROVE job[q].at # clock + 1
            <4>1. job[q].at \in 0..clock
                BY <3>1, Local DEF Typed
            <4> QED
                BY <1>2, <4>1
        <3> QED
            BY <2>1, <2>2, <3>1 DEF IInv, StampsDiffer
    <2>7. VersionsBacked' /\ StockHasPlan'
        BY <1>4 DEF IInv, VersionsBacked, StockHasPlan, Known, masterVars
    <2> QED
        BY <2>4, <2>5, <2>6, <2>7 DEF IInv
<1> QED
    BY <1>3, <1>4 DEF Stamp

\* The write: the invariant with a row more.  Its stamp is nobody else's, so
\* all requests still have what they rely on.
LEMMA PersistKeeps ==
    ASSUME IInv, NEW r \in Req, Persist(r) PROVE IInv'
<1> DEFINE j == job[r]
           new == Row(j)
           k == [j EXCEPT !.answer = IF j.verdict = "accepted" THEN j.at ELSE NoRow]
           newVersion == j.kind = "master_data" /\ j.verdict = "accepted"
<1>1. pc[r] = "persist"
    BY DEF Persist
<1>2. /\ j \in JobType /\ Typed(j, clock) /\ SawStored(j, ledger)
      /\ SupersedesOwn(j, ledger) /\ Founded(j, ledger) /\ OwnStamp(j, ledger)
      /\ clock \in Nat
    BY <1>1, Local DEF Judged
<1>3. CASE Decline(r)
    BY <1>3, DeclineKeeps
<1>4. ASSUME /\ newVersion => Draft(j.file)
             /\ ~newVersion => UNCHANGED masterVars
             /\ ledger' = ledger \cup {new}
             /\ pc' = [pc EXCEPT ![r] = "replied"]
             /\ job' = [job EXCEPT ![r].answer = IF j.verdict = "accepted" THEN j.at ELSE NoRow]
             /\ UNCHANGED clock
      PROVE  IInv'
    <2>1. /\ pc'[r] = "replied" /\ job'[r] = k
          /\ \A q \in Req \ {r} : pc'[q] = pc[q] /\ job'[q] = job[q]
        BY <1>4 DEF IInv, StateTyped
    <2>2. /\ k \in JobType /\ Typed(k, clock) /\ k.before = j.before /\ k.sup = j.sup
          /\ k.kind = j.kind /\ k.loc = j.loc
        BY <1>2 DEF JobType, Typed, NoRow
    <2>3. /\ new.at = j.at /\ new.kind = j.kind /\ new.loc = j.loc /\ new.file = j.file
          /\ new.plan = j.plan /\ new.status = j.verdict /\ new.sup = j.sup
        BY DEF Row
    <2>4. \A row \in ledger : row.at # new.at
        BY <1>2, <2>3 DEF OwnStamp
    <2> HIDE DEF k, new
    <2>5. StateTyped'
        <3>1. job' \in [Req -> JobType] /\ pc' \in [Req -> PC]
            BY <1>4, <2>1, <2>2 DEF IInv, StateTyped, PC, k
        <3>2. RowsTyped(ledger', clock') /\ StampsUnique(ledger')
            BY <1>2, <1>4, <2>3, <2>4
               DEF IInv, StateTyped, RowsTyped, StampsUnique, Typed, OwnStamp, Founded
        <3>3. MasterTypeOK'
            BY <1>2, <1>4 DEF IInv, StateTyped, MasterTypeOK, masterVars, Draft, Founded
        <3> QED
            BY <1>4, <3>1, <3>2, <3>3 DEF IInv, StateTyped
    <2>6. ASSUME NEW q \in Req PROVE RequestOK(pc'[q], job'[q], ledger', clock')
        <3>1. CASE q = r
            <4>1. SawStored(k, ledger') /\ SupersedesOwn(k, ledger')
                BY <1>2, <1>4, <2>2 DEF SawStored, SupersedesOwn, Stamps, AcceptedRows
            <4> QED
                BY <1>4, <2>1, <2>2, <3>1, <4>1 DEF RequestOK, Deduped, Judged, Waiting
        <3>2. CASE q # r
            <4>1. RequestOK(pc[q], job[q], ledger, clock)
                BY DEF IInv
            <4>2. pc[q] = "persist" => new.at # job[q].at
                BY <1>1, <2>3, <3>2 DEF IInv, StampsDiffer
            <4>3. new.at \notin Stamps(ledger)
                BY <2>4 DEF Stamps
            <4> QED
                BY <1>2, <1>4, <2>1, <3>2, <4>1, <4>2, <4>3, RowsMayGrow
        <3> QED
            BY <3>1, <3>2
    <2>7. StampsDiffer'
        BY <1>4, <2>1 DEF IInv, StampsDiffer
    <2>8. VersionsBacked'
        <3>1. CASE newVersion
            <4>1. j.file \in Version /\ ~Known(j.file)
                BY <1>2, <1>4, <3>1 DEF Founded, Draft
            <4>2. \A v \in Version : Known(v)' <=> Known(v) \/ v = j.file
                BY <1>4, <3>1 DEF Known, Draft
            <4>3. ASSUME NEW row \in ledger, row.kind = "master_data", IsAccepted(row)
                  PROVE  row.file # j.file
                BY <4>1, <4>3 DEF IInv, VersionsBacked
            <4>4. IsAccepted(new) /\ new.kind = "master_data" /\ new.file = j.file
                BY <2>3, <3>1 DEF IsAccepted
            <4> QED
                BY <1>4, <4>2, <4>3, <4>4 DEF IInv, VersionsBacked
        <3>2. CASE ~newVersion
            <4>1. ~(IsAccepted(new) /\ new.kind = "master_data")
                BY <2>3, <3>2 DEF IsAccepted
            <4> QED
                BY <1>4, <3>2, <4>1 DEF IInv, VersionsBacked, Known, masterVars
        <3> QED
            BY <3>1, <3>2
    <2>9. StockHasPlan'
        BY <1>2, <1>4, <2>3 DEF IInv, StockHasPlan, Founded, OwnStamp
    <2> QED
        BY <2>5, <2>6, <2>7, <2>8, <2>9 DEF IInv
<1> QED
    BY <1>3, <1>4 DEF Persist

\* An activation takes no version away from those that are known.
LEMMA ActivateKeeps ==
    ASSUME IInv, NEW v \in Version, ActivateMaster(v) PROVE IInv'
<1> USE DEF IInv, ActivateMaster
<1>1. /\ v \in drafts /\ drafts' = drafts \ {v}
      /\ current' = [current EXCEPT ![Here] = v]
      /\ retired' = retired \cup ({current[Here]} \ {NoVersion})
      /\ current \in [Scope -> Version \cup {NoVersion}]
    BY DEF Promote, StateTyped, MasterTypeOK
<1>2. MasterTypeOK'
    BY <1>1 DEF StateTyped, MasterTypeOK
<1>3. ASSUME NEW r \in Req
      PROVE  /\ job'[r] \in JobType
             /\ \A p, rows, n : RequestOK(p, job[r], rows, n) => RequestOK(p, job'[r], rows, n)
    <2>1. job'[r] = job[r] \/ job'[r] = [job[r] EXCEPT !.served = @ \cup {v}]
        OBVIOUS
    <2>2. job[r] \in JobType
        BY DEF StateTyped
    <2>3. /\ job'[r].file = job[r].file /\ job'[r].kind = job[r].kind
          /\ job'[r].loc = job[r].loc /\ job'[r].basis = job[r].basis
          /\ job'[r].plan = job[r].plan /\ job'[r].sup = job[r].sup
          /\ job'[r].at = job[r].at /\ job'[r].answer = job[r].answer
          /\ job'[r].before = job[r].before /\ job'[r].verdict = job[r].verdict
          /\ job'[r] \in JobType
        BY <2>1, <2>2 DEF JobType
    <2> QED
        BY <2>3 DEF RequestOK, Typed, SawStored, NoDuplicate, SupersedesOwn, Founded, OwnStamp
<1>4. StateTyped'
    BY <1>2, <1>3 DEF StateTyped, RowsTyped, StampsUnique
<1>5. \A r \in Req : RequestOK(pc'[r], job'[r], ledger', clock')
    BY <1>3
<1>6. \A r \in Req : job'[r].at = job[r].at
    BY DEF StateTyped, JobType
<1>7. StampsDiffer'
    BY <1>6 DEF StampsDiffer
<1>8. \A w \in Version : Known(w)' <=> Known(w)
    BY <1>1 DEF Known
<1>9. VersionsBacked' /\ StockHasPlan'
    BY <1>8 DEF VersionsBacked, StockHasPlan
<1> QED
    BY <1>4, <1>5, <1>7, <1>9

-----------------------------------------------------------------------------
(* The invariant *)

LEMMA InitInv == Init => IInv
<1> SUFFICES ASSUME Init PROVE IInv
    OBVIOUS
<1>1. StateTyped
    BY NoJobOK DEF Init, LedgerInit, MasterInit, StateTyped, MasterTypeOK, RowsTyped,
       StampsUnique, PC
<1>2. \A r \in Req : RequestOK(pc[r], job[r], ledger, clock)
    BY DEF Init, RequestOK
<1>3. StampsDiffer /\ VersionsBacked /\ StockHasPlan
    BY DEF Init, LedgerInit, MasterInit, StampsDiffer, VersionsBacked, StockHasPlan, Known
<1> QED
    BY <1>1, <1>2, <1>3 DEF IInv

LEMMA ReceiveKeeps == ASSUME IInv, NEW r \in Req, Receive(r) PROVE IInv'
<1>1. Decline(r)
    BY DEF Receive, Decline
<1> QED
    BY <1>1, DeclineKeeps

LEMMA NextInv == IInv /\ [Next]_vars => IInv'
<1> SUFFICES ASSUME IInv, [Next]_vars PROVE IInv'
    OBVIOUS
<1>1. CASE UNCHANGED vars
    <2>1. UNCHANGED <<ledger, clock, pc, job, drafts, current, retired>>
        BY <1>1 DEF vars, masterVars
    <2> QED
        BY <2>1 DEF IInv, StateTyped, MasterTypeOK, StampsDiffer, VersionsBacked,
           StockHasPlan, Known
<1>2. ASSUME NEW r \in Req, NEW u \in Upload, NEW l \in Location \cup {NoLocation},
             Start(r, u, l)
      PROVE  IInv'
    BY <1>2, StartKeeps
<1>3. ASSUME NEW r \in Req, Progress(r) PROVE IInv'
    BY <1>3, FindDuplicateKeeps, LoadMasterKeeps, LoadPlanningKeeps, SupersedeKeeps,
       StampKeeps, PersistKeeps, ReceiveKeeps DEF Progress
<1>4. ASSUME NEW r \in Req, StoreFails(r) PROVE IInv'
    BY <1>4, DeclineKeeps DEF StoreFails
<1>5. ASSUME NEW v \in Version, ActivateMaster(v) PROVE IInv'
    BY <1>5, ActivateKeeps
<1> QED
    BY <1>1, <1>2, <1>3, <1>4, <1>5 DEF Next

\* In every reachable state each request has what it relies on.
THEOREM Inductive == Spec => []IInv
BY InitInv, NextInv, PTL DEF Spec

-----------------------------------------------------------------------------
(* What the runs check, for every instance *)

\* The shape of the state.
THEOREM TypeCorrect == Spec => []TypeOK
<1>1. IInv => TypeOK
    BY DEF IInv, StateTyped, RowsTyped, RequestOK, Typed, TypeOK
<1> QED
    BY <1>1, Inductive, PTL

\* Racing uploads of one master workbook leave one version and one accepted
\* row, and nothing else leaves a version behind.
THEOREM VersionsAreBacked == Spec => []VersionsBacked
<1>1. IInv => VersionsBacked
    BY DEF IInv
<1> QED
    BY <1>1, Inductive, PTL

\* Stock rests on a planning import that was stored before it and covers its
\* location, whatever was uploaded since it was read.
THEOREM StockIsPlanned == Spec => []StockHasPlan
<1>1. IInv => StockHasPlan
    BY DEF IInv
<1> QED
    BY <1>1, Inductive, PTL

\* Only the write of a request adds a row, and only that of its job.
LEMMA Writers ==
    ASSUME [Next]_vars
    PROVE  UNCHANGED ledger \/ \E r \in Req : Persist(r) /\ ledger' = ledger \cup {Row(job[r])}
<1>1. CASE UNCHANGED vars
    BY <1>1 DEF vars
<1>2. ASSUME NEW r \in Req, Persist(r)
      PROVE  UNCHANGED ledger \/ ledger' = ledger \cup {Row(job[r])}
    BY <1>2 DEF Persist, Decline, Goto
<1>3. ASSUME NEW r \in Req, Progress(r) \/ StoreFails(r), ~Persist(r) PROVE UNCHANGED ledger
    BY <1>3 DEF Progress, StoreFails, FindDuplicate, LoadMaster, LoadPlanning, Supersede,
       Stamp, Receive, Decline, Accept, Reject, Goto
<1> QED
    BY <1>1, <1>2, <1>3 DEF Next, Start, ActivateMaster

\* A request that leaves its write with an answer has written its row.
LEMMA Written ==
    ASSUME IInv, [Next]_vars, NEW r \in Req, pc[r] = "persist", pc'[r] = "replied"
    PROVE  Added \subseteq {Row(job[r])}
<1>1. ASSUME NEW q \in Req \ {r}, Persist(q) PROVE FALSE
    BY <1>1 DEF Persist, Decline, Goto, IInv, StateTyped
<1> QED
    BY <1>1, Writers DEF Added

\* Whatever its uploader could have seen, new content sorts after it.
THEOREM NewContentWins == Spec => NewContentSortsLast
<1>1. ASSUME IInv, [Next]_vars, NEW r \in Req, pc[r] = "persist", pc'[r] = "replied",
             NEW row \in Added, NEW n \in job[r].before
      PROVE  n < row.at
    <2>1. row.at = job[r].at
        BY <1>1, Written DEF Row
    <2> QED
        BY <1>1, <2>1, Local DEF OwnStamp
<1>2. ASSUME IInv, [Next]_vars
      PROVE  [\A r \in Req : pc[r] = "persist" /\ pc'[r] = "replied" =>
                \A row \in Added : \A n \in job[r].before : n < row.at]_vars
    BY <1>1, <1>2
<1> QED
    BY <1>2, Inductive, PTL DEF Spec, NewContentSortsLast

\* A retry of an upload that was stored is answered with the stored row.
THEOREM RetriesStoreOnce == Spec => RetryStoresOnce
<1>1. ASSUME IInv, [Next]_vars, NEW r \in Req, NEW row \in NewlyAccepted,
             pc[r] = "persist", pc'[r] = "replied",
             NEW old \in ledger, old.at \in job[r].before, old.file = row.file,
             Stream(old) = Stream(row)
      PROVE  FALSE
    <2>1. row = Row(job[r])
        BY <1>1, Written DEF NewlyAccepted
    <2>2. row.file = job[r].file /\ Stream(row) = <<job[r].kind, job[r].loc>>
        BY <2>1 DEF Row, Stream
    <2> QED
        BY <1>1, <2>2, Local DEF NoDuplicate, Deduped
<1>2. ASSUME IInv, [Next]_vars
      PROVE  [\A r \in Req, row \in NewlyAccepted :
                pc[r] = "persist" /\ pc'[r] = "replied" =>
                   ~\E old \in ledger : /\ old.at \in job[r].before
                                        /\ old.file = row.file
                                        /\ Stream(old) = Stream(row)]_vars
    BY <1>1, <1>2
<1> QED
    BY <1>2, Inductive, PTL DEF Spec, RetryStoresOnce

\* The store is the append-only ledger PlanningRuns assumes: the initial states
\* map to initial states, and a write maps to LedgerNext.
THEOREM LedgerRefinement == Spec => ImplementsLedger
<1>1. Init => LedgerInit
    BY DEF Init
<1>2. ASSUME IInv, NEW r \in Req, Persist(r), ledger' = ledger \cup {Row(job[r])}
      PROVE  LedgerNext
    <2> DEFINE new == Row(job[r])
    <2>1. OwnStamp(job[r], ledger) /\ SupersedesOwn(job[r], ledger)
        BY <1>2, Local DEF Persist
    <2>2. /\ new.at = job[r].at /\ new.sup = job[r].sup
          /\ Stream(new) = <<job[r].kind, job[r].loc>>
        BY DEF Row, Stream
    <2> HIDE DEF new
    <2>3. Appendable(new)
        BY <2>1, <2>2 DEF OwnStamp, SupersedesOwn, Appendable
    <2>4. new \in ledger' \ ledger
        BY <1>2, <2>1, <2>2 DEF OwnStamp, new
    <2> QED
        BY <1>2, <2>3, <2>4 DEF LedgerNext, new
<1>3. IInv /\ [Next]_vars => [LedgerNext]_ledger
    BY <1>2, Writers
<1> QED
    BY <1>1, <1>3, Inductive, PTL DEF Spec, ImplementsLedger, LedgerSpec
=============================================================================
