---------------------------- MODULE ActiveMaster ----------------------------
(***************************************************************************)
(* What the store of master-data versions promises to everything that     *)
(* plans with it.  A scope is one workspace in one environment.  Each      *)
(* scope has at most one current version; a version starts as a draft, is  *)
(* made current in one atomic step that retires the version it replaces,   *)
(* and once retired it never comes back.                                   *)
(*                                                                         *)
(* MasterActivation shows that the SQL transaction which does this in      *)
(* several statements implements it.                                       *)
(***************************************************************************)
CONSTANTS Version,    \* ids of master_data_versions rows
          Scope,      \* (workspace_id, environment) pairs
          Home,       \* the scope a version was imported into
          NoVersion   \* "this scope has no current version"

ASSUME HomeAssumption == Home \in [Version -> Scope]
ASSUME NoVersionAssumption == NoVersion \notin Version

VARIABLES drafts,     \* versions imported and never activated
          current,    \* scope -> its active version, or NoVersion
          retired     \* archived versions

masterVars == <<drafts, current, retired>>

MasterTypeOK == /\ drafts \in SUBSET Version
                /\ current \in [Scope -> Version \cup {NoVersion}]
                /\ retired \in SUBSET Version

MasterInit == /\ drafts = {}
              /\ current = [s \in Scope |-> NoVersion]
              /\ retired = {}

Known(v) == v \in drafts \cup retired \/ current[Home[v]] = v

\* persist_master_import_v1: an accepted master workbook becomes a draft.
Draft(v) == /\ ~Known(v)
            /\ drafts' = drafts \cup {v}
            /\ UNCHANGED <<current, retired>>

\* activate_master_data_version_v1, seen from outside its transaction.
Promote(v) == /\ v \in drafts
              /\ drafts' = drafts \ {v}
              /\ current' = [current EXCEPT ![Home[v]] = v]
              /\ retired' = retired \cup ({current[Home[v]]} \ {NoVersion})

MasterNext == \E v \in Version : Draft(v) \/ Promote(v)

MasterSpec == MasterInit /\ [][MasterNext]_masterVars
=============================================================================
