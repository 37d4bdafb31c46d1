----------------------- MODULE MasterActivation_proofs -----------------------
(***************************************************************************)
(* Proofs about MasterActivation for any number of versions, scopes and    *)
(* concurrent activations.                                                 *)
(***************************************************************************)
EXTENDS MasterActivation, TLAPS

USE HomeAssumption, NoVersionAssumption, NoTxnAssumption

\* The shape of the state is right at the start and kept by every statement.
LEMMA InitType == Init => TypeOK
BY DEF Init, TypeOK, Status, PC

LEMMA RollbackType == ASSUME TypeOK, NEW t \in Txn, Rollback(t) PROVE TypeOK'
BY DEF TypeOK, Rollback, End, PC

LEMMA NextType == TypeOK /\ [Next]_vars => TypeOK'
<1> SUFFICES ASSUME TypeOK, [Next]_vars PROVE TypeOK'
    OBVIOUS
<1>1. CASE UNCHANGED vars
    BY <1>1 DEF TypeOK, vars
<1>2. ASSUME NEW v \in Version, PersistMaster(v) PROVE TypeOK'
    BY <1>2 DEF TypeOK, PersistMaster, Status
<1>3. ASSUME NEW t \in Txn, NEW v \in Version, NEW a \in BOOLEAN, Request(t, v, a)
      PROVE TypeOK'
    BY <1>3 DEF TypeOK, Request, PC
<1>4. ASSUME NEW t \in Txn, Refuse(t) \/ AlreadyActive(t) \/ UniqueViolation(t) \/ Abort(t)
      PROVE TypeOK'
    BY <1>4, RollbackType DEF Refuse, AlreadyActive, UniqueViolation, Abort
<1>5. ASSUME NEW t \in Txn, LockDraft(t) PROVE TypeOK'
    BY <1>5 DEF TypeOK, LockDraft, AtSelect, PC
<1>6. ASSUME NEW t \in Txn, ScanActive(t) PROVE TypeOK'
    BY <1>6 DEF TypeOK, ScanActive, Peers, PC
<1>7. ASSUME NEW t \in Txn, NEW w \in Version, ArchiveRow(t, w) PROVE TypeOK'
    BY <1>7 DEF TypeOK, ArchiveRow
<1>8. ASSUME NEW t \in Txn, Activate(t) PROVE TypeOK'
    BY <1>8 DEF TypeOK, Activate, PC
<1>9. ASSUME NEW t \in Txn, Commit(t) PROVE TypeOK'
    BY <1>9 DEF TypeOK, Commit, End, PC, Status
<1> QED
    BY <1>1, <1>2, <1>3, <1>4, <1>5, <1>6, <1>7, <1>8, <1>9 DEF Next, Progress

\* The type invariant of the run, for every instance.
THEOREM TypeCorrect == Spec => []TypeOK
BY InitType, NextType, PTL DEF Spec

-----------------------------------------------------------------------------
\* Everything but the type, so that a step can be shown conjunct by conjunct.
Core == HoldsDraft /\ HoldsArchived /\ OwnsSlot /\ AtMostOneActive

LEMMA InitInv == Init => IInv
<1> SUFFICES ASSUME Init PROVE IInv
    OBVIOUS
<1>1. TypeOK
    BY InitType
<1>2. HoldsDraft /\ HoldsArchived /\ OwnsSlot
    BY DEF Init, HoldsDraft, HoldsArchived, OwnsSlot, Working
<1>3. AtMostOneActive
    BY DEF Init, AtMostOneActive
<1> QED
    BY <1>1, <1>2, <1>3 DEF IInv

\* Giving up (an error, an early return, a dropped connection) only frees rows.
LEMMA RollbackInv == ASSUME IInv, NEW t \in Txn, Rollback(t) PROVE Core'
<1> USE DEF IInv, TypeOK, Rollback, End
<1>1. HoldsDraft'
    BY DEF HoldsDraft, Working
<1>2. HoldsArchived'
    BY DEF HoldsArchived, Peers
<1>3. OwnsSlot'
    BY DEF OwnsSlot, Peers
<1>4. AtMostOneActive'
    BY DEF AtMostOneActive
<1> QED
    BY <1>1, <1>2, <1>3, <1>4 DEF Core

\* The commit: its draft becomes the one active row of the scope.
LEMMA CommitInv == ASSUME IInv, NEW t \in Txn, Commit(t) PROVE Core'
<1> USE DEF IInv, TypeOK, Commit, End
<1>1. /\ target[t] \in Version
      /\ lock[target[t]] = t
      /\ \A w \in archived[t] : lock[w] = t
    BY DEF HoldsDraft, HoldsArchived, Working
<1>2. ASSUME NEW u \in Txn, u # t, Working(u)
      PROVE  status'[target[u]] = "draft" /\ lock'[target[u]] = u
    BY <1>1, <1>2 DEF HoldsDraft, Working
<1>3. HoldsDraft'
    <2> SUFFICES ASSUME NEW u \in Txn, Working(u)'
                 PROVE  lock'[target'[u]] = u /\ status'[target'[u]] = "draft"
        BY DEF HoldsDraft
    <2>1. u # t /\ Working(u) /\ target'[u] = target[u]
        BY DEF Working
    <2>2. lock'[target[u]] = u /\ status'[target[u]] = "draft"
        BY <1>2, <2>1
    <2> QED
        BY <2>1, <2>2
<1>4. HoldsArchived'
    <2>1. ASSUME NEW u \in Txn, NEW w \in archived'[u]
          PROVE  lock'[w] = u /\ status'[w] = "active"
        BY <1>1, <2>1 DEF HoldsArchived
    <2> QED
        BY <2>1 DEF HoldsArchived, Peers
<1>5. OwnsSlot'
    <2>1. ASSUME NEW u \in Txn, pc'[u] = "commit",
                 NEW w \in Peers(target[u]), status'[w] = "active"
          PROVE  w \in archived'[u]
        <3>1. u # t /\ pc[u] = "commit" /\ Home[target[u]] # Home[target[t]]
            BY <2>1 DEF OwnsSlot
        <3>2. w # target[t]
            BY <3>1, <2>1, <1>1 DEF Peers
        <3>3. status[w] = "active"
            BY <3>2, <2>1 DEF Peers
        <3> QED
            BY <3>1, <3>3, <2>1 DEF OwnsSlot
    <2> QED
        BY <2>1 DEF OwnsSlot, Peers
<1>6. AtMostOneActive'
    <2>1. ASSUME NEW w \in Version, w # target[t], Home[w] = Home[target[t]]
          PROVE  status'[w] # "active"
        BY <2>1 DEF OwnsSlot, Peers
    <2> QED
        BY <2>1, <1>1 DEF AtMostOneActive
<1> QED
    BY <1>3, <1>4, <1>5, <1>6 DEF Core

LEMMA NextInv == IInv /\ [Next]_vars => IInv'
<1> SUFFICES ASSUME IInv, [Next]_vars PROVE Core'
    BY NextType DEF IInv, Core
<1>1. CASE UNCHANGED vars
    BY <1>1 DEF IInv, Core, vars, HoldsDraft, HoldsArchived, OwnsSlot,
                AtMostOneActive, Working, Peers
<1>2. ASSUME NEW v \in Version, PersistMaster(v) PROVE Core'
    <2> USE <1>2 DEF IInv, TypeOK, PersistMaster
    <2>1. HoldsDraft'
        BY DEF HoldsDraft, Working
    <2>2. HoldsArchived'
        BY DEF HoldsArchived, Peers
    <2>3. OwnsSlot' /\ AtMostOneActive'
        BY DEF OwnsSlot, AtMostOneActive, Peers
    <2> QED
        BY <2>1, <2>2, <2>3 DEF Core
<1>3. ASSUME NEW t \in Txn, NEW v \in Version, NEW a \in BOOLEAN, Request(t, v, a)
      PROVE Core'
    <2> USE <1>3 DEF IInv, TypeOK, Request
    <2>1. HoldsDraft'
        BY DEF HoldsDraft, Working
    <2>2. HoldsArchived'
        BY DEF HoldsArchived, Peers
    <2>3. OwnsSlot' /\ AtMostOneActive'
        BY DEF OwnsSlot, AtMostOneActive, Peers
    <2> QED
        BY <2>1, <2>2, <2>3 DEF Core
<1>4. ASSUME NEW t \in Txn, Refuse(t) \/ AlreadyActive(t) \/ UniqueViolation(t) \/ Abort(t)
      PROVE Core'
    BY <1>4, RollbackInv DEF Refuse, AlreadyActive, UniqueViolation, Abort
<1>5. ASSUME NEW t \in Txn, LockDraft(t) PROVE Core'
    <2> USE <1>5 DEF IInv, TypeOK, LockDraft, AtSelect
    <2>1. HoldsDraft'
        BY DEF HoldsDraft, Working
    <2>2. HoldsArchived'
        BY DEF HoldsArchived, Peers
    <2>3. OwnsSlot' /\ AtMostOneActive'
        BY DEF OwnsSlot, AtMostOneActive, Peers
    <2> QED
        BY <2>1, <2>2, <2>3 DEF Core
<1>6. ASSUME NEW t \in Txn, ScanActive(t) PROVE Core'
    <2> USE <1>6 DEF IInv, TypeOK, ScanActive
    <2>1. HoldsDraft'
        BY DEF HoldsDraft, Working
    <2>2. HoldsArchived'
        BY DEF HoldsArchived, Peers
    <2>3. OwnsSlot' /\ AtMostOneActive'
        BY DEF OwnsSlot, AtMostOneActive, Peers
    <2> QED
        BY <2>1, <2>2, <2>3 DEF Core
<1>7. ASSUME NEW t \in Txn, NEW w \in Version, ArchiveRow(t, w) PROVE Core'
    <2> USE <1>7 DEF IInv, TypeOK, ArchiveRow
    <2>1. HoldsDraft'
        BY DEF HoldsDraft, Working
    <2>2. HoldsArchived'
        BY DEF HoldsArchived, Peers
    <2>3. OwnsSlot' /\ AtMostOneActive'
        BY DEF OwnsSlot, AtMostOneActive, Peers
    <2> QED
        BY <2>1, <2>2, <2>3 DEF Core
<1>8. ASSUME NEW t \in Txn, Activate(t) PROVE Core'
    <2> USE <1>8 DEF IInv, TypeOK, Activate
    <2>1. HoldsDraft' /\ HoldsArchived' /\ AtMostOneActive'
        BY DEF HoldsDraft, HoldsArchived, AtMostOneActive, Working, Peers
    <2>2. target[t] \in Version
        BY DEF TypeOK
    <2>3. ASSUME NEW u \in Txn \ {t}, pc[u] = "commit"
          PROVE  Home[target[u]] # Home[target[t]]
        <3>1. SUFFICES ASSUME Home[target[u]] = Home[target[t]] PROVE FALSE
            OBVIOUS
        <3>2. target[u] \in Version /\ target[u] # target[t]
            BY <2>3 DEF HoldsDraft, Working
        <3>3. target[u] \in Peers(target[t])
            BY <3>1, <3>2 DEF Peers
        <3> QED
            BY <2>3, <3>3 DEF Pending
    <2>4. OwnsSlot'
        BY <2>2, <2>3 DEF OwnsSlot, Peers
    <2> QED
        BY <2>1, <2>4 DEF Core
<1>9. ASSUME NEW t \in Txn, Commit(t) PROVE Core'
    BY <1>9, CommitInv
<1> QED
    BY <1>1, <1>2, <1>3, <1>4, <1>5, <1>6, <1>7, <1>8, <1>9 DEF Next, Progress

\* The inductive invariant holds in every reachable state.
THEOREM Inductive == Spec => []IInv
BY InitInv, NextInv, PTL DEF Spec

\* However activations interleave, abort or lose a race, one scope never has
\* two active versions.
THEOREM OneActive == Spec => []AtMostOneActive
<1>1. IInv => AtMostOneActive
    BY DEF IInv
<1> QED
    BY <1>1, Inductive, PTL

-----------------------------------------------------------------------------
(* The transaction implements the atomic store.                            *)

\* An active version is the one ActiveIn picks for its scope.
LEMMA ActiveInIs ==
    AtMostOneActive => \A v \in Version : status[v] = "active" => ActiveIn(Home[v]) = v
<1> SUFFICES ASSUME AtMostOneActive, NEW v \in Version, status[v] = "active"
             PROVE  ActiveIn(Home[v]) = v
    OBVIOUS
<1> DEFINE P(w) == Home[w] = Home[v] /\ status[w] = "active"
           c == CHOOSE w \in Version : P(w)
<1>1. HasMaster(Home[v])
    BY DEF HasMaster
<1>2. c \in Version /\ P(c)
    BY Zenon
<1>3. c = v
    BY <1>2 DEF AtMostOneActive
<1> QED
    BY <1>1, <1>3 DEF ActiveIn

LEMMA ActiveInIsNext ==
    (AtMostOneActive => \A v \in Version : status[v] = "active" => ActiveIn(Home[v]) = v)'
BY ActiveInIs, PTL

\* A scope keeps its current version when none of its rows starts or stops
\* being active.
LEMMA ActiveInSame ==
    ASSUME AtMostOneActive, AtMostOneActive', NEW s \in Scope,
           \A v \in Version : Home[v] = s =>
                (status[v] = "active" <=> status'[v] = "active")
    PROVE  ActiveIn(s)' = ActiveIn(s)
<1>1. HasMaster(s) <=> HasMaster(s)'
    BY DEF HasMaster
<1>2. CASE HasMaster(s)
    <2>1. PICK v \in Version : Home[v] = s /\ status[v] = "active"
        BY <1>2 DEF HasMaster
    <2>2. ActiveIn(s) = v
        BY <2>1, ActiveInIs
    <2>3. ActiveIn(s)' = v
        BY <2>1, ActiveInIsNext
    <2> QED
        BY <2>2, <2>3
<1>3. CASE ~HasMaster(s)
    BY <1>1, <1>3 DEF ActiveIn
<1> QED
    BY <1>2, <1>3

LEMMA InitMaps == Init => Master!MasterInit
BY DEF Init, Master!MasterInit, ActiveIn, HasMaster

\* The import of a master workbook is the abstract Draft.
LEMMA PersistMasterMaps ==
    ASSUME IInv, IInv', NEW v \in Version, PersistMaster(v)
    PROVE  Master!MasterNext
<1> USE DEF IInv, TypeOK, PersistMaster
<1>1. \A s \in Scope : ActiveIn(s)' = ActiveIn(s)
    BY ActiveInSame
<1>2. ~Master!Known(v)
    <2>1. ASSUME ActiveIn(Home[v]) = v PROVE FALSE
        <3>1. PICK w \in Version : Home[w] = Home[v] /\ status[w] = "active"
            BY <2>1 DEF ActiveIn, HasMaster
        <3>2. ActiveIn(Home[v]) = w
            BY <3>1, ActiveInIs
        <3> QED
            BY <3>1, <3>2, <2>1
    <2> QED
        BY <2>1 DEF Master!Known
<1>3. {w \in Version : status[w] = "draft"}'
        = {w \in Version : status[w] = "draft"} \cup {v}
    OBVIOUS
<1>4. {w \in Version : status[w] = "archived"}' = {w \in Version : status[w] = "archived"}
    OBVIOUS
<1>5. Master!Draft(v)
    BY <1>1, <1>2, <1>3, <1>4 DEF Master!Draft
<1> QED
    BY <1>5 DEF Master!MasterNext

\* The commit of an activation is the abstract Promote.
LEMMA CommitMaps ==
    ASSUME IInv, IInv', NEW t \in Txn, Commit(t)
    PROVE  Master!MasterNext
<1> USE DEF IInv, TypeOK, Commit
<1>0. PICK v \in Version : v = target[t]
    OBVIOUS
<1>1. status[v] = "draft" /\ status'[v] = "active"
    BY <1>0 DEF HoldsDraft, Working
<1>2. archived[t] = {w \in Peers(v) : status[w] = "active"}
    BY <1>0, <1>1 DEF HoldsArchived, OwnsSlot, Peers
<1>3. {w \in Version : status[w] = "draft"}'
        = {w \in Version : status[w] = "draft"} \ {v}
    BY <1>0, <1>1, <1>2
<1>4. ActiveIn(Home[v])' = v
    BY <1>1, ActiveInIsNext
<1>5. ASSUME NEW s \in Scope, s # Home[v] PROVE ActiveIn(s)' = ActiveIn(s)
    <2>1. \A w \in Version : Home[w] = s => status'[w] = status[w]
        BY <1>0, <1>1, <1>2, <1>5 DEF Peers
    <2> QED
        BY <2>1, ActiveInSame
<1>6. archived[t] = {ActiveIn(Home[v])} \ {NoVersion}
    <2>1. CASE HasMaster(Home[v])
        <3>1. PICK w \in Version : Home[w] = Home[v] /\ status[w] = "active"
            BY <2>1 DEF HasMaster
        <3>2. ActiveIn(Home[v]) = w
            BY <3>1, ActiveInIs
        <3>3. archived[t] = {w}
            BY <1>1, <1>2, <3>1 DEF Peers, AtMostOneActive
        <3> QED
            BY <3>2, <3>3
    <2>2. CASE ~HasMaster(Home[v])
        BY <1>1, <1>2, <2>2 DEF HasMaster, ActiveIn, Peers
    <2> QED
        BY <2>1, <2>2
<1>7. {w \in Version : status[w] = "archived"}'
        = {w \in Version : status[w] = "archived"} \cup archived[t]
    BY <1>0, <1>1, <1>2 DEF Peers
<1>8. [s \in Scope |-> ActiveIn(s)]'
        = [[s \in Scope |-> ActiveIn(s)] EXCEPT ![Home[v]] = v]
    BY <1>4, <1>5
<1>9. Master!Promote(v)
    BY <1>1, <1>3, <1>6, <1>7, <1>8 DEF Master!Promote
<1> QED
    BY <1>1, <1>9 DEF Master!MasterNext

LEMMA NextMaps ==
    IInv /\ IInv' /\ [Next]_vars => [Master!MasterNext]_(Master!masterVars)
<1> SUFFICES ASSUME IInv, IInv', [Next]_vars
             PROVE  Master!MasterNext \/ UNCHANGED Master!masterVars
    OBVIOUS
<1>1. ASSUME UNCHANGED status PROVE UNCHANGED Master!masterVars
    BY <1>1 DEF Master!masterVars, ActiveIn, HasMaster
<1>2. CASE UNCHANGED vars
    BY <1>1, <1>2 DEF vars
<1>3. ASSUME NEW v \in Version, PersistMaster(v) PROVE Master!MasterNext
    BY <1>3, PersistMasterMaps
<1>4. ASSUME NEW t \in Txn, NEW v \in Version, NEW a \in BOOLEAN, Request(t, v, a)
      PROVE  UNCHANGED Master!masterVars
    BY <1>1, <1>4 DEF Request
<1>5. ASSUME NEW t \in Txn,
             \/ Refuse(t) \/ AlreadyActive(t) \/ LockDraft(t) \/ ScanActive(t)
             \/ \E w \in Version : ArchiveRow(t, w)
             \/ Activate(t) \/ UniqueViolation(t) \/ Abort(t)
      PROVE  UNCHANGED Master!masterVars
    <2>1. UNCHANGED status
        BY <1>5 DEF Refuse, AlreadyActive, LockDraft, ScanActive, ArchiveRow,
                    Activate, UniqueViolation, Abort, Rollback
    <2> QED
        BY <1>1, <2>1
<1>6. ASSUME NEW t \in Txn, Commit(t) PROVE Master!MasterNext
    BY <1>6, CommitMaps
<1> QED
    BY <1>2, <1>3, <1>4, <1>5, <1>6 DEF Next, Progress

\* To every observer of committed rows an activation is one atomic step that
\* promotes a draft and retires the version it replaces.
THEOREM Refinement == Spec => ImplementsActiveMaster
BY InitMaps, NextMaps, Inductive, PTL DEF Spec, ImplementsActiveMaster, Master!MasterSpec

-----------------------------------------------------------------------------
(* What a single step may never do to the committed rows.                  *)

\* Only an import and a commit write committed rows.
LEMMA StatusWriters ==
    ASSUME [Next]_vars
    PROVE  \/ UNCHANGED status
           \/ \E v \in Version : PersistMaster(v)
           \/ \E t \in Txn : Commit(t)
BY DEF Next, Progress, vars, Request, Refuse, AlreadyActive, LockDraft, ScanActive,
       ArchiveRow, Activate, UniqueViolation, Abort, Rollback

\* No step takes the active version of a scope away without putting another.
THEOREM MasterKept == Spec => NeverWithoutMaster
<1>1. ASSUME IInv, [Next]_vars
      PROVE  [\A s \in Scope : HasMaster(s) => HasMaster(s)']_vars
    <2> USE <1>1 DEF IInv, TypeOK
    <2> SUFFICES ASSUME NEW v \in Version, status[v] = "active"
                 PROVE  \E w \in Version : Home[w] = Home[v] /\ status'[w] = "active"
        BY DEF HasMaster
    <2>1. ASSUME NEW u \in Version, PersistMaster(u)
          PROVE  status'[v] = "active"
        BY <2>1 DEF PersistMaster
    <2>2. ASSUME NEW t \in Txn, Commit(t)
          PROVE  \E w \in Version : Home[w] = Home[v] /\ status'[w] = "active"
        <3>1. target[t] \in Version /\ status'[target[t]] = "active"
            BY <2>2 DEF Commit
        <3>2. CASE v \in archived[t]
            BY <2>2, <3>1, <3>2 DEF HoldsArchived, Peers
        <3>3. CASE v \notin archived[t]
            BY <2>2, <3>3 DEF Commit
        <3> QED
            BY <3>2, <3>3
    <2> QED
        BY <2>1, <2>2, StatusWriters
<1> QED
    BY <1>1, Inductive, PTL DEF Spec, NeverWithoutMaster

\* No interleaving brings an archived version back.
THEOREM RetiredForGood == Spec => ArchivedForGood
<1>1. ASSUME IInv, [Next]_vars
      PROVE  [\A v \in Version : status[v] = "archived" => status'[v] = "archived"]_vars
    <2> USE <1>1 DEF IInv, TypeOK
    <2> SUFFICES ASSUME NEW v \in Version, status[v] = "archived"
                 PROVE  status'[v] = "archived"
        OBVIOUS
    <2>1. ASSUME NEW u \in Version, PersistMaster(u) PROVE status'[v] = "archived"
        BY <2>1 DEF PersistMaster
    <2>2. ASSUME NEW t \in Txn, Commit(t) PROVE status'[v] = "archived"
        BY <2>2 DEF Commit, HoldsDraft, Working
    <2> QED
        BY <2>1, <2>2, StatusWriters
<1> QED
    BY <1>1, Inductive, PTL DEF Spec, ArchivedForGood
=============================================================================
