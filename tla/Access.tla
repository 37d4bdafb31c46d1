------------------------------- MODULE Access -------------------------------
(***************************************************************************)
(* Who may do what: the records of migration 008 (profiles, memberships,   *)
(* location grants), the scope that authorization.py resolves from them    *)
(* anew for every request, in several reads, and the triggers that check   *)
(* the author of a row against the records again when it is stored.        *)
(*                                                                         *)
(* Administrators change the records while requests are on their way; the  *)
(* repository has no code for that, only the constraints it must keep.     *)
(***************************************************************************)
EXTENDS Integers, FiniteSets

CONSTANTS User, Workspace, Place,
          Request,     \* requests that are made, each once
          Home,        \* the private workspace a sign-up provides
          MaxChanges   \* bound on changes of records

ASSUME HomeAssumption == /\ Home \in [User -> Workspace]
                         /\ \A u, v \in User : Home[u] = Home[v] => u = v
ASSUME BoundAssumption == MaxChanges \in Nat

VARIABLES account,   \* none, unconfirmed or confirmed
          system,    \* system_role of the profile, or none
          member,    \* memberships: role, status and default
          grant,     \* user_location_access
          open,      \* active locations of the active master of a workspace
          changes,   \* how many times records have changed
          request,   \* how far each request is
          stored     \* rows that are stored

records == <<account, system, member, grant, open>>
vars == <<records, changes, request, stored>>

NotMember == [role |-> "none", active |-> FALSE, default |-> FALSE]
Role == {"owner", "admin", "planner", "viewer"}

AdminOp == {"planning_input", "activate"}
PlaceOp == {"stock", "run"}
Op == AdminOp \cup PlaceOp \cup {"view"}

NoScope == [workspace |-> "none", role |-> "none", system |-> "none", readable |-> {}, writable |-> {}]
Idle == [stage |-> "idle", user |-> "none", op |-> "none", place |-> "none",
         scope |-> NoScope, since |-> 0]

-----------------------------------------------------------------------------
(* authorization.py: a scope, and what it permits *)

\* Readable and writable places of an unrestricted scope are None in the code.
CanAdmin(scope) == scope.system = "system_admin" \/ scope.role \in {"owner", "admin"}

CanRead(scope, place) == CanAdmin(scope) \/ place \in scope.readable

\* Mutant: a viewer writes where a grant says so.
CanWriteGranted(scope, place) == CanAdmin(scope) \/ place \in scope.writable

CanWrite(scope, place) == /\ scope.role = "viewer" => scope.system = "system_admin"
                          /\ CanAdmin(scope) \/ place \in scope.writable

Permits(scope, op, place) == CASE op \in AdminOp -> CanAdmin(scope)
                               [] op \in PlaceOp -> CanWrite(scope, place)
                               [] op = "view" -> CanRead(scope, place)

DefaultOf(u) == {w \in Workspace : member[w, u].active /\ member[w, u].default}

GrantedAs(w, u, levels) == {p \in Place : grant[w, u, p] \in levels}

\* The scope in a workspace, by the records of now.
ScopeIn(w, u) == [workspace |-> w, role |-> member[w, u].role, system |-> system[u],
                  readable |-> GrantedAs(w, u, {"viewer", "planner"}),
                  writable |-> GrantedAs(w, u, {"planner"})]

-----------------------------------------------------------------------------
(* Migration 008: the same, where rows are stored *)

user_can_admin_workspace_v1(u, w) ==
    /\ system[u] # "none" /\ member[w, u].active
    /\ system[u] = "system_admin" \/ member[w, u].role \in {"owner", "admin"}

\* Mutant: any grant will do.
user_can_write_any_grant(u, w, p) ==
    /\ system[u] # "none" /\ member[w, u].active
    /\ p \in open[w]
    /\ \/ system[u] = "system_admin"
       \/ member[w, u].role \in {"owner", "admin"}
       \/ grant[w, u, p] # "none"
    /\ system[u] = "system_admin" \/ member[w, u].role # "viewer"

\* user_can_access_location_v1 with p_require_write.
user_can_write_location(u, w, p) ==
    /\ system[u] # "none" /\ member[w, u].active
    /\ p \in open[w]
    /\ \/ system[u] = "system_admin"
       \/ member[w, u].role \in {"owner", "admin"}
       \/ grant[w, u, p] = "planner"
    /\ system[u] = "system_admin" \/ member[w, u].role # "viewer"

\* The triggers before an insert, and the check of the activation.
ActorAllowed(u, w, op, p) == IF op \in AdminOp THEN user_can_admin_workspace_v1(u, w)
                             ELSE user_can_write_location(u, w, p)

-----------------------------------------------------------------------------
(* Records *)

Change == changes < MaxChanges /\ changes' = changes + 1 /\ UNCHANGED <<request, stored>>

\* The trigger on a new account provides a private workspace.  Signing up is
\* refused for other domains; the address is confirmed later.
SignUp(u) == /\ Change /\ account[u] = "none"
             /\ account' = [account EXCEPT ![u] = "unconfirmed"]
             /\ system' = [system EXCEPT ![u] = "user"]
             /\ member' = [member EXCEPT ![<<Home[u], u>>] =
                              [role |-> "owner", active |-> TRUE, default |-> TRUE]]
             /\ UNCHANGED <<grant, open>>

Confirm(u) == /\ Change /\ account[u] = "unconfirmed"
              /\ account' = [account EXCEPT ![u] = "confirmed"]
              /\ UNCHANGED <<system, member, grant, open>>

SetSystemRole(u, role) == /\ Change /\ system[u] \notin {"none", role}
                          /\ system' = [system EXCEPT ![u] = role]
                          /\ UNCHANGED <<account, member, grant, open>>

\* A private workspace comes with its user.
Exists(w) == \A u \in User : Home[u] = w => account[u] # "none"

\* Mutant: without the unique index.
SetMembershipAnyDefault(w, u, m) ==
    /\ Change /\ system[u] # "none" /\ Exists(w) /\ member[w, u] # m
    /\ member' = [member EXCEPT ![<<w, u>>] = m]
    /\ UNCHANGED <<account, system, grant, open>>

\* A membership is added, changed or revoked.  One active default per user.
SetMembership(w, u, m) ==
    /\ Change /\ system[u] # "none" /\ Exists(w) /\ member[w, u] # m
    /\ m.active /\ m.default => DefaultOf(u) \subseteq {w}
    /\ member' = [member EXCEPT ![<<w, u>>] = m]
    /\ UNCHANGED <<account, system, grant, open>>

\* The default is moved in one transaction.
MoveDefault(u, w) ==
    /\ Change /\ member[w, u].active /\ w \notin DefaultOf(u)
    /\ member' = [x \in DOMAIN member |-> IF x[2] = u /\ member[x].active
                                          THEN [member[x] EXCEPT !.default = x[1] = w]
                                          ELSE member[x]]
    /\ UNCHANGED <<account, system, grant, open>>

\* A grant needs a membership.
SetGrant(w, u, p, level) ==
    /\ Change /\ member[w, u] # NotMember /\ grant[w, u, p] # level
    /\ grant' = [grant EXCEPT ![<<w, u, p>>] = level]
    /\ UNCHANGED <<account, system, member, open>>

-----------------------------------------------------------------------------
(* Requests *)

Step(r, new) == /\ request' = [request EXCEPT ![r] = new]
                /\ UNCHANGED <<records, changes>>

At(r, stage) == request[r].stage = stage

Go(r, stage) == Step(r, [request[r] EXCEPT !.stage = stage]) /\ UNCHANGED stored

\* Of a request that ended only the answer is kept.
End(r, stage) == /\ Step(r, [Idle EXCEPT !.stage = stage,
                                         !.since = IF stage = "denied" THEN request[r].since ELSE 0])
                 /\ UNCHANGED stored

\* SupabaseTokenVerifier.verify: a confirmed account of an admissible domain.
Verify(r) == /\ At(r, "idle")
             /\ \E u \in User, op \in Op : \E p \in IF op \in AdminOp THEN {"none"} ELSE Place :
                   /\ account[u] = "confirmed"
                   /\ Step(r, [Idle EXCEPT !.stage = "profile", !.user = u, !.op = op,
                                           !.place = p, !.since = changes])
             /\ UNCHANGED stored

\* SupabaseAccessResolver.resolve: the profile, the default membership and,
\* for planners and viewers, the grants are read one after the other.
ReadProfile(r) == /\ At(r, "profile")
                  /\ IF system[request[r].user] = "none" THEN End(r, "forbidden")
                     ELSE /\ Step(r, [request[r] EXCEPT !.stage = "membership",
                                                        !.scope.system = system[request[r].user]])
                          /\ UNCHANGED stored

\* require_workspace_admin, require_location_read and require_location_write.
Route(r, scope) ==
    LET q == request[r]
    IN CASE ~Permits(scope, q.op, q.place) -> End(r, "forbidden")
         [] Permits(scope, q.op, q.place) /\ q.op = "view" -> End(r, "answered")
         [] OTHER -> /\ Step(r, [q EXCEPT !.stage = "backend", !.scope = scope])
                     /\ UNCHANGED stored

ReadMembership(r) ==
    /\ At(r, "membership")
    /\ LET u == request[r].user
       IN IF Cardinality(DefaultOf(u)) # 1 THEN End(r, "forbidden")
          ELSE LET w == CHOOSE v \in DefaultOf(u) : TRUE
                   scope == [request[r].scope EXCEPT !.workspace = w, !.role = member[w, u].role]
               IN IF CanAdmin(scope) THEN Route(r, scope)
                  ELSE /\ Step(r, [request[r] EXCEPT !.stage = "grants", !.scope = scope])
                       /\ UNCHANGED stored

ReadGrants(r) ==
    /\ At(r, "grants")
    /\ LET scope == request[r].scope
           now == ScopeIn(scope.workspace, request[r].user)
       IN Route(r, [scope EXCEPT !.readable = now.readable, !.writable = now.writable])

\* What WorkspaceScopedStore lets a scope see of the stored rows: those of its
\* workspace, and of a place only the readable ones.
Visible(scope) == {row \in stored : /\ row.workspace = scope.workspace
                                    /\ row.op \in PlaceOp => CanRead(scope, row.place)}

\* The handlers: the location is looked up in the active master of the scope.
Backend(r) == /\ At(r, "backend")
              /\ LET q == request[r]
                 IN IF q.op \in PlaceOp /\ q.place \notin open[q.scope.workspace]
                    THEN End(r, "missing") ELSE Go(r, "persist")

\* Mutant: the content of a plan is all its id.
ContentId(scope, place) ==
    [workspace |-> "none", place |-> place, seen |-> IF CanAdmin(scope) THEN Place ELSE scope.readable]

\* The run id is a hash of the inputs, of which a planner sees the readable
\* locations, and names the workspace.
RunId(scope, place) ==
    [workspace |-> scope.workspace, place |-> place,
     seen |-> IF CanAdmin(scope) THEN Place ELSE scope.readable]

\* A fresh UUID, which nothing else has.
NewId == [workspace |-> "none", place |-> "none", seen |-> {}]

RowOf(q) == [op |-> q.op, workspace |-> q.scope.workspace, place |-> q.place, by |-> q.user,
             id |-> IF q.op = "run" THEN RunId(q.scope, q.place) ELSE NewId]

\* persist_planning_run: a run that exists is not stored again.
Known(row) == row.op = "run" /\ \E other \in stored : other.op = "run" /\ other.id = row.id

\* The store repeats the checks of the scope, the database those of the
\* records.  Check and insert are one transaction that reads the records once:
\* a change that commits meanwhile comes after it.
Persist(r) ==
    /\ At(r, "persist") /\ request[r].op # "activate"
    /\ LET q == request[r]
           row == RowOf(q)
       IN IF ~Permits(q.scope, q.op, q.place) THEN End(r, "forbidden")
          ELSE IF Known(row) THEN Go(r, "stored")
          ELSE IF ~ActorAllowed(q.user, q.scope.workspace, q.op, q.place) THEN End(r, "denied")
          ELSE Step(r, [q EXCEPT !.stage = "stored"]) /\ stored' = stored \cup {row}

\* What an activation changes is the locations that are open.
Activate(r) ==
    /\ At(r, "persist") /\ request[r].op = "activate" /\ changes < MaxChanges
    /\ LET q == request[r]
           w == q.scope.workspace
       IN IF ~ActorAllowed(q.user, w, q.op, q.place) THEN End(r, "denied")
          ELSE /\ \E places \in (SUBSET Place) \ {open[w]} : open' = [open EXCEPT ![w] = places]
               /\ request' = [request EXCEPT ![r] = [Idle EXCEPT !.stage = "answered"]]
               /\ changes' = changes + 1
               /\ stored' = stored \cup {RowOf(q)}
               /\ UNCHANGED <<account, system, member, grant>>

\* create_planning_run and the imports read back what they stored.
ReadBack(r) == /\ At(r, "stored")
               /\ LET q == request[r]
                      mine == {row \in Visible(q.scope) :
                                 IF q.op = "run" THEN row.op = "run" /\ row.id = RunId(q.scope, q.place)
                                 ELSE row = RowOf(q)}
                  IN End(r, IF mine = {} THEN "lost" ELSE "answered")

-----------------------------------------------------------------------------
Init == /\ account = [u \in User |-> "none"]
        /\ system = [u \in User |-> "none"]
        /\ member = [x \in Workspace \X User |-> NotMember]
        /\ grant = [x \in Workspace \X User \X Place |-> "none"]
        /\ open = [w \in Workspace |-> Place]
        /\ changes = 0
        /\ request = [r \in Request |-> Idle]
        /\ stored = {}

Administer ==
    \/ \E u \in User : SignUp(u) \/ Confirm(u)
    \/ \E u \in User, role \in {"user", "system_admin"} : SetSystemRole(u, role)
    \/ \E u \in User, w \in Workspace :
          \/ MoveDefault(u, w)
          \/ \E m \in [role : Role, active : BOOLEAN, default : BOOLEAN] : SetMembership(w, u, m)
          \/ \E p \in Place, level \in {"none", "viewer", "planner"} : SetGrant(w, u, p, level)

Serve(r) == \/ Verify(r) \/ ReadProfile(r) \/ ReadMembership(r) \/ ReadGrants(r)
            \/ Backend(r) \/ Persist(r) \/ Activate(r)
            \/ ReadBack(r)

Next == Administer \/ \E r \in Request : Serve(r)

Spec == Init /\ [][Next]_vars

-----------------------------------------------------------------------------
(* Properties *)

Stage == {"idle", "profile", "membership", "grants", "backend", "persist",
          "stored", "answered", "forbidden", "denied", "missing", "lost"}

\* The shape of the state; a user has at most one active default workspace, and
\* a grant only in a workspace with a membership.
TypeOK == /\ account \in [User -> {"none", "unconfirmed", "confirmed"}]
          /\ system \in [User -> {"none", "user", "system_admin"}]
          /\ \A u \in User : /\ system[u] = "none" <=> account[u] = "none"
                             /\ Cardinality(DefaultOf(u)) <= 1
          /\ \A x \in Workspace \X User : member[x].role \in Role \cup {"none"}
          /\ \A w \in Workspace, u \in User, p \in Place :
                grant[w, u, p] # "none" => member[w, u] # NotMember
          /\ open \in [Workspace -> SUBSET Place]
          /\ changes \in 0 .. MaxChanges
          /\ \A r \in Request : request[r].stage \in Stage

\* Whatever happened to the records since a scope was resolved, a row enters a
\* workspace only when its author is an active member of it, what the policy
\* of the API permits by the records of now, and a location is open
\* (authorization.py 62-82, the triggers of migration 008).
MayStore(row) == /\ member[row.workspace, row.by].active
                 /\ Permits(ScopeIn(row.workspace, row.by), row.op, row.place)
                 /\ row.op \in PlaceOp => row.place \in open[row.workspace]

WritesAuthorised == [][\A row \in stored' \ stored : MayStore(row)]_vars

\* The API and the database implement one policy: what the scope of a request
\* let through is refused when it is stored only if a record has changed since
\* the request began (authorization.py 79-82, user_can_access_location_v1).
LaterChecksAgree == \A r \in Request : At(r, "denied") => changes # request[r].since

\* Who was allowed to calculate or to import is shown what was stored: an id is
\* never that of a row outside the reach of the scope
\* (_namespace_run_payload, services.py get_planning_run and get_import).
StoredIsAnswered == \A r \in Request : ~At(r, "lost")
=============================================================================
