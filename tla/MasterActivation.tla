-------------------------- MODULE MasterActivation --------------------------
(***************************************************************************)
(* The transaction activate_master_data_version_v1 of migration 008, one   *)
(* action per statement, with any number of activations and master imports *)
(* in flight.  PostgreSQL runs it at READ COMMITTED:                       *)
(*   - SELECT ... FOR UPDATE waits for the row lock and then reads the     *)
(*     last committed row;                                                 *)
(*   - the archiving UPDATE finds its rows in a snapshot taken when the    *)
(*     statement starts, waits for each row's lock, and re-evaluates its   *)
(*     WHERE on the row's last committed version;                          *)
(*   - the activating UPDATE inserts into the partial unique index of      *)
(*     active versions, which waits for an uncommitted rival and fails on  *)
(*     a committed one;                                                    *)
(*   - row locks are held to the end of the transaction.                   *)
(***************************************************************************)
EXTENDS Naturals

CONSTANTS Version, Scope, Home, NoVersion,
          Txn,    \* activation requests that may be in flight together
          NoTxn

ASSUME HomeAssumption == Home \in [Version -> Scope]
ASSUME NoVersionAssumption == NoVersion \notin Version
ASSUME NoTxnAssumption == NoTxn \notin Txn

VARIABLES status,   \* committed status of each row, "absent" before its insert
          lock,     \* the transaction that holds the row's lock
          pc,       \* the statement a transaction is about to run
          target,   \* p_version_id
          admin,    \* user_can_admin_workspace_v1 and the environment check
          scan,     \* rows the archiving UPDATE still has to visit
          archived  \* rows it has archived, not yet committed

vars == <<status, lock, pc, target, admin, scan, archived>>

Status == {"absent", "draft", "active", "archived"}
PC == {"idle", "select", "scan", "archive", "commit"}

\* The transaction has passed the checks of its SELECT ... FOR UPDATE.
Working(t) == pc[t] \in {"scan", "archive", "commit"}

\* Mutant: the rule before migration 008, one active version per environment
\* whatever its workspace.
PeersAnywhere(v) == Version \ {v}

\* The rows the partial unique index puts in one slot with row v.
Peers(v) == {w \in Version : Home[w] = Home[v] /\ w # v}

TypeOK == /\ status \in [Version -> Status]
          /\ lock \in [Version -> Txn \cup {NoTxn}]
          /\ pc \in [Txn -> PC]
          /\ target \in [Txn -> Version \cup {NoVersion}]
          /\ admin \in [Txn -> BOOLEAN]
          /\ scan \in [Txn -> SUBSET Version]
          /\ archived \in [Txn -> SUBSET Version]
          /\ \A t \in Txn : pc[t] # "idle" => target[t] \in Version

Init == /\ status = [v \in Version |-> "absent"]
        /\ lock = [v \in Version |-> NoTxn]
        /\ pc = [t \in Txn |-> "idle"]
        /\ target = [t \in Txn |-> NoVersion]
        /\ admin = [t \in Txn |-> FALSE]
        /\ scan = [t \in Txn |-> {}]
        /\ archived = [t \in Txn |-> {}]

\* A master workbook is accepted: its version row is inserted as a draft.
PersistMaster(v) == /\ status[v] = "absent"
                    /\ status' = [status EXCEPT ![v] = "draft"]
                    /\ UNCHANGED <<lock, pc, target, admin, scan, archived>>

\* The API found the version and its accepted import, and calls the function.
Request(t, v, a) == /\ pc[t] = "idle"
                    /\ status[v] # "absent"
                    /\ pc' = [pc EXCEPT ![t] = "select"]
                    /\ target' = [target EXCEPT ![t] = v]
                    /\ admin' = [admin EXCEPT ![t] = a]
                    /\ UNCHANGED <<status, lock, scan, archived>>

\* Mutant: a transaction is forgotten with its locks still held.
EndHoldingLocks(t) == /\ pc' = [pc EXCEPT ![t] = "idle"]
                      /\ target' = [target EXCEPT ![t] = NoVersion]
                      /\ admin' = [admin EXCEPT ![t] = FALSE]
                      /\ scan' = [scan EXCEPT ![t] = {}]
                      /\ archived' = [archived EXCEPT ![t] = {}]
                      /\ UNCHANGED lock

\* The end of a transaction: its row locks go, its private writes are forgotten.
End(t) == /\ pc' = [pc EXCEPT ![t] = "idle"]
          /\ target' = [target EXCEPT ![t] = NoVersion]
          /\ admin' = [admin EXCEPT ![t] = FALSE]
          /\ scan' = [scan EXCEPT ![t] = {}]
          /\ archived' = [archived EXCEPT ![t] = {}]
          /\ lock' = [v \in Version |-> IF lock[v] = t THEN NoTxn ELSE lock[v]]

Rollback(t) == End(t) /\ UNCHANGED status

AtSelect(t) == pc[t] = "select" /\ lock[target[t]] = NoTxn

\* raise exception: no right to activate, or the version is archived.
Refuse(t) == /\ AtSelect(t)
             /\ ~admin[t] \/ status[target[t]] = "archived"
             /\ Rollback(t)

\* if target_version.status = 'active' then return target_version
AlreadyActive(t) == /\ AtSelect(t)
                    /\ admin[t]
                    /\ status[target[t]] = "active"
                    /\ Rollback(t)

\* Mutants: SELECT without FOR UPDATE; every version that is not active yet.
ReadDraft(t) == /\ pc[t] = "select"
                /\ admin[t]
                /\ status[target[t]] = "draft"
                /\ pc' = [pc EXCEPT ![t] = "scan"]
                /\ UNCHANGED <<status, lock, target, admin, scan, archived>>

LockInactive(t) == /\ AtSelect(t)
                   /\ admin[t]
                   /\ status[target[t]] \in {"draft", "archived"}
                   /\ lock' = [lock EXCEPT ![target[t]] = t]
                   /\ pc' = [pc EXCEPT ![t] = "scan"]
                   /\ UNCHANGED <<status, target, admin, scan, archived>>

\* A draft: keep its row locked and go on to the two updates.
LockDraft(t) == /\ AtSelect(t)
                /\ admin[t]
                /\ status[target[t]] = "draft"
                /\ lock' = [lock EXCEPT ![target[t]] = t]
                /\ pc' = [pc EXCEPT ![t] = "scan"]
                /\ UNCHANGED <<status, target, admin, scan, archived>>

\* The archiving UPDATE starts: its snapshot holds the committed active rows.
ScanActive(t) ==
    /\ pc[t] = "scan"
    /\ scan' = [scan EXCEPT ![t] =
                  {w \in Peers(target[t]) : status[w] = "active"}]
    /\ pc' = [pc EXCEPT ![t] = "archive"]
    /\ UNCHANGED <<status, lock, target, admin, archived>>

\* Mutant: the archiving UPDATE commits on its own.
ArchiveRowNow(t, w) ==
    /\ pc[t] = "archive"
    /\ w \in scan[t]
    /\ lock[w] = NoTxn
    /\ scan' = [scan EXCEPT ![t] = scan[t] \ {w}]
    /\ status' = [status EXCEPT ![w] = IF @ = "active" THEN "archived" ELSE @]
    /\ UNCHANGED <<lock, archived, pc, target, admin>>

\* It visits one row: wait for the lock, re-check the status, archive it.
ArchiveRow(t, w) ==
    /\ pc[t] = "archive"
    /\ w \in scan[t]
    /\ lock[w] = NoTxn
    /\ lock' = [lock EXCEPT ![w] = t]
    /\ scan' = [scan EXCEPT ![t] = scan[t] \ {w}]
    /\ archived' = [archived EXCEPT ![t] =
                      IF status[w] = "active" THEN archived[t] \cup {w}
                                              ELSE archived[t]]
    /\ UNCHANGED <<status, pc, target, admin>>

\* Rows another transaction is about to add to the index, or take out of it.
Pending(t, w) == \E u \in Txn \ {t} : \/ pc[u] = "commit" /\ target[u] = w
                                      \/ w \in archived[u]

\* Mutant: no unique index over the active versions.
ActivateUnchecked(t) ==
    /\ pc[t] = "archive"
    /\ scan[t] = {}
    /\ pc' = [pc EXCEPT ![t] = "commit"]
    /\ UNCHANGED <<status, lock, target, admin, scan, archived>>

\* The activating UPDATE: the slot in the index is free.
Activate(t) ==
    /\ pc[t] = "archive"
    /\ scan[t] = {}
    /\ \A w \in Peers(target[t]) :
          ~Pending(t, w) /\ (status[w] = "active" => w \in archived[t])
    /\ pc' = [pc EXCEPT ![t] = "commit"]
    /\ UNCHANGED <<status, lock, target, admin, scan, archived>>

\* The slot holds a committed active version that was not in the snapshot.
UniqueViolation(t) ==
    /\ pc[t] = "archive"
    /\ scan[t] = {}
    /\ \E w \in Peers(target[t]) :
          ~Pending(t, w) /\ status[w] = "active" /\ w \notin archived[t]
    /\ Rollback(t)

Commit(t) ==
    /\ pc[t] = "commit"
    /\ status' = [v \in Version |-> IF v = target[t] THEN "active"
                                 ELSE IF v \in archived[t] THEN "archived"
                                 ELSE status[v]]
    /\ End(t)

\* A dropped connection or a statement timeout before the commit.
Abort(t) == pc[t] # "idle" /\ Rollback(t)

\* What the server does on its own once a request is in flight.
Progress(t) == \/ Refuse(t)
               \/ AlreadyActive(t)
               \/ LockDraft(t)
               \/ ScanActive(t)
               \/ \E w \in Version : ArchiveRow(t, w)
               \/ Activate(t)
               \/ UniqueViolation(t)
               \/ Commit(t)

Next == \/ \E v \in Version : PersistMaster(v)
        \/ \E t \in Txn, v \in Version, a \in BOOLEAN : Request(t, v, a)
        \/ \E t \in Txn : Progress(t) \/ Abort(t)

Spec == Init /\ [][Next]_vars

\* The server keeps running the statements of every transaction it has begun.
\* A row lock is granted again and again as its holders end, so waiting
\* for one needs strong fairness: the lock queue of PostgreSQL is first-come.
FairSpec == Spec /\ \A t \in Txn : SF_vars(Progress(t))

-----------------------------------------------------------------------------
(* Properties *)

\* Two versions of one scope are never active together (the partial unique
\* index of 008, which the archiving snapshot of a rival can miss).
AtMostOneActive ==
    \A v, w \in Version :
        status[v] = "active" /\ status[w] = "active" /\ Home[v] = Home[w] => v = w

HasMaster(s) == \E v \in Version : Home[v] = s /\ status[v] = "active"

\* A scope that has an active version is never without one afterwards: not
\* between the two updates, not after an abort, not after a lost race.
NeverWithoutMaster == [][\A s \in Scope : HasMaster(s) => HasMaster(s)']_vars

\* A retired version stays retired, even when its activation was requested
\* while it was still a draft and waited behind the one that replaced it.
ArchivedForGood ==
    [][\A v \in Version : status[v] = "archived" => status'[v] = "archived"]_vars

\* The last committed state, in the terms of the abstract store.
ActiveIn(s) == IF HasMaster(s)
               THEN CHOOSE v \in Version : Home[v] = s /\ status[v] = "active"
               ELSE NoVersion

Master == INSTANCE ActiveMaster
              WITH drafts  <- {v \in Version : status[v] = "draft"},
                   current <- [s \in Scope |-> ActiveIn(s)],
                   retired <- {v \in Version : status[v] = "archived"}

\* The transaction is atomic to everyone else ("Atomically archives the
\* previous active master version and activates one validated draft").
ImplementsActiveMaster == Master!MasterSpec

\* Every activation ends: locks are always released, and transactions never
\* wait on each other in a circle.
ActivationsEnd == \A t \in Txn : pc[t] # "idle" ~> pc[t] = "idle"

-----------------------------------------------------------------------------
\* The strengthening of AtMostOneActive that every step preserves.

\* A transaction past its checks holds its draft; nobody else can touch it.
HoldsDraft == \A t \in Txn : Working(t) => /\ lock[target[t]] = t
                                           /\ status[target[t]] = "draft"

\* Rows it visits are peers of its target; rows it archived are locked and
\* still active for everybody else.
HoldsArchived ==
    \A t \in Txn :
        /\ pc[t] \notin {"archive", "commit"} => scan[t] = {} /\ archived[t] = {}
        /\ \A w \in scan[t] \cup archived[t] : w \in Peers(target[t])
        /\ \A w \in archived[t] : lock[w] = t /\ status[w] = "active"

\* Past the index check, every active peer is one the transaction archives,
\* and nobody else of the scope is past the check.
OwnsSlot ==
    \A t \in Txn : pc[t] = "commit" =>
        /\ \A w \in Peers(target[t]) : status[w] = "active" => w \in archived[t]
        /\ \A u \in Txn \ {t} : pc[u] = "commit" => Home[target[u]] # Home[target[t]]

IInv == TypeOK /\ HoldsDraft /\ HoldsArchived /\ OwnsSlot /\ AtMostOneActive
=============================================================================
