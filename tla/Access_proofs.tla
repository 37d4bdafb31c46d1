---------------------------- MODULE Access_proofs ----------------------------
(***************************************************************************)
(* Proofs about Access for any users, workspaces, locations and requests,  *)
(* and any number of changes of the records.                               *)
(*                                                                         *)
(* The policy is written twice, in Python over a scope and in SQL over the *)
(* records.  The inductive invariant says what a scope has in common with  *)
(* the records: everything that was read into it, as long as no record has *)
(* changed since the request began, and nothing that can be relied on      *)
(* afterwards.                                                             *)
(***************************************************************************)
EXTENDS Access, FiniteSetTheorems, TLAPS

USE HomeAssumption, BoundAssumption

System == {"none", "user", "system_admin"}
Level == {"none", "viewer", "planner"}
MemberType == [role : Role \cup {"none"}, active : BOOLEAN, default : BOOLEAN]

ScopeType == [workspace : Workspace \cup {"none"}, role : Role \cup {"none"}, system : System,
              readable : SUBSET Place, writable : SUBSET Place]

RequestType == [stage : Stage, user : User \cup {"none"}, op : Op \cup {"none"},
                place : Place \cup {"none"}, scope : ScopeType, since : Nat]

\* The records, with what the constraints of migration 008 keep.
RecordsTyped == /\ account \in [User -> {"none", "unconfirmed", "confirmed"}]
                /\ system \in [User -> System]
                /\ member \in [Workspace \X User -> MemberType]
                /\ grant \in [Workspace \X User \X Place -> Level]
                /\ open \in [Workspace -> SUBSET Place]

IsDefault(w, u) == member[w, u].active /\ member[w, u].default

UsersHaveAccounts == \A u \in User : (system[u] = "none") <=> (account[u] = "none")
UsersAreMembers == \A u \in User, w \in Workspace : member[w, u] # NotMember => system[u] # "none"
MembersHaveRoles == \A u \in User, w \in Workspace :
                       member[w, u] # NotMember => member[w, u].role \in Role
OneDefault == \A u \in User : \A v, w \in Workspace : IsDefault(v, u) /\ IsDefault(w, u) => v = w
GranteesAreMembers == \A w \in Workspace, u \in User, p \in Place :
                         grant[w, u, p] # "none" => member[w, u] # NotMember

RecordsOK == /\ RecordsTyped /\ UsersHaveAccounts /\ UsersAreMembers
             /\ MembersHaveRoles /\ OneDefault /\ GranteesAreMembers

\* Stages at which parts of the scope have been read.
WithProfile == {"membership", "grants", "backend", "persist"}
WithMember == {"grants", "backend", "persist"}
WithScope == {"backend", "persist"}
Allowed == {"backend", "persist", "stored"}

\* As long as no record has changed, the scope says what the records say.
Fresh(q) ==
    q.since = changes =>
       /\ q.stage \in WithProfile => q.scope.system = system[q.user] /\ q.scope.system # "none"
       /\ q.stage \in WithMember => /\ q.scope.workspace \in DefaultOf(q.user)
                                    /\ q.scope.role = member[q.scope.workspace, q.user].role
       /\ q.stage \in WithScope => \/ CanAdmin(q.scope)
                                   \/ q.scope.writable = GrantedAs(q.scope.workspace, q.user, {"planner"})
       /\ q.stage = "persist" /\ q.op \in PlaceOp => q.place \in open[q.scope.workspace]

\* The row a request wrote, or one with its id, is in its reach.
Answerable(q, rows) ==
    \E row \in rows : /\ row.workspace = q.scope.workspace
                      /\ row.op \in PlaceOp => CanRead(q.scope, row.place)
                      /\ IF q.op = "run" THEN row.op = "run" /\ row.id = RunId(q.scope, q.place)
                         ELSE row = RowOf(q)

RequestOK(q, rows) ==
    /\ q.stage \in {"profile", "stored"} \cup WithProfile => q.user \in User /\ q.op \in Op
    /\ q.since <= changes /\ (q.stage = "denied" => q.since < changes)
    /\ q.scope.writable \subseteq q.scope.readable
    /\ q.stage \in {"grants"} \cup Allowed => q.scope.workspace \in Workspace
    /\ q.stage \in Allowed => q.op # "view" /\ Permits(q.scope, q.op, q.place)
    /\ q.stage = "stored" => Answerable(q, rows)
    /\ q.stage # "lost"
    /\ Fresh(q)

\* A run is stored under an id of its own workspace and location.
StoredOK(rows) ==
    \A row \in rows : row.op = "run" => /\ row.id.workspace = row.workspace
                                        /\ row.id.place = row.place

IInv == /\ RecordsOK
        /\ changes \in 0..MaxChanges
        /\ request \in [Request -> RequestType]
        /\ \A r \in Request : RequestOK(request[r], stored)
        /\ StoredOK(stored)

-----------------------------------------------------------------------------
(* One policy, written twice *)

\* What the triggers of migration 008 let through is what authorization.py
\* permits to an active member by the same records, at an open location.
LEMMA OnePolicy ==
    ASSUME RecordsOK, NEW u \in User, NEW w \in Workspace, NEW op \in AdminOp \cup PlaceOp, NEW p
    PROVE  ActorAllowed(u, w, op, p) <=>
              /\ system[u] # "none" /\ member[w, u].active
              /\ Permits(ScopeIn(w, u), op, p)
              /\ op \in PlaceOp => p \in open[w]
<1>1. /\ ScopeIn(w, u).role = member[w, u].role /\ ScopeIn(w, u).system = system[u]
      /\ ScopeIn(w, u).writable = GrantedAs(w, u, {"planner"})
    BY DEF ScopeIn
<1>2. CASE op \in AdminOp
    BY <1>1, <1>2 DEF ActorAllowed, user_can_admin_workspace_v1, Permits, CanAdmin, AdminOp, PlaceOp
<1>3. CASE op \in PlaceOp
    <2>1. open[w] \subseteq Place /\ op \notin AdminOp /\ op # "view"
        BY <1>3 DEF RecordsOK, RecordsTyped, AdminOp, PlaceOp
    <2>2. p \in Place => (p \in GrantedAs(w, u, {"planner"}) <=> grant[w, u, p] = "planner")
        BY DEF GrantedAs
    <2>3. Permits(ScopeIn(w, u), op, p) <=> CanWrite(ScopeIn(w, u), p)
        BY <1>3, <2>1 DEF Permits
    <2> QED
        BY <1>1, <1>3, <2>1, <2>2, <2>3
           DEF ActorAllowed, user_can_write_location, CanWrite, CanAdmin
<1> QED
    BY <1>2, <1>3

\* A scope that was read from the records of now permits what they permit.
LEMMA FreshPermits ==
    ASSUME NEW q, NEW scope, scope.system = q.scope.system, scope.role = q.scope.role,
           CanAdmin(q.scope) \/ q.scope.writable = scope.writable,
           q.op \in AdminOp \cup PlaceOp, Permits(q.scope, q.op, q.place)
    PROVE  Permits(scope, q.op, q.place)
BY DEF Permits, CanAdmin, CanWrite, AdminOp, PlaceOp

LEMMA Reads ==
    ASSUME NEW scope, NEW p, scope.writable \subseteq scope.readable, CanWrite(scope, p)
    PROVE  CanRead(scope, p)
BY DEF CanWrite, CanRead

-----------------------------------------------------------------------------
(* Records change *)

\* A change of the records ends what any scope says about them.
LEMMA ChangeKeeps ==
    ASSUME IInv, Change, RecordsOK' PROVE IInv'
<1>1. /\ changes \in Nat /\ changes' = changes + 1 /\ changes' \in 0..MaxChanges
      /\ UNCHANGED <<request, stored>>
    BY DEF Change, IInv
<1>2. ASSUME NEW r \in Request PROVE RequestOK(request[r], stored)'
    <2>1. RequestOK(request[r], stored) /\ request[r].since \in Nat
        BY DEF IInv, RequestType
    <2>2. request[r].since <= changes' /\ request[r].since # changes'
          /\ (request[r].stage = "denied" => request[r].since < changes')
        BY <1>1, <2>1 DEF RequestOK
    <2>3. Fresh(request[r])'
        BY <1>1, <2>2 DEF Fresh
    <2> QED
        BY <1>1, <2>1, <2>2, <2>3 DEF RequestOK
<1> QED
    BY <1>1, <1>2 DEF IInv

LEMMA SignUpKeeps == ASSUME IInv, NEW u \in User, SignUp(u) PROVE IInv'
<1> DEFINE owner == [role |-> "owner", active |-> TRUE, default |-> TRUE]
<1>1. /\ Change /\ account[u] = "none" /\ UNCHANGED <<grant, open>>
      /\ account' = [account EXCEPT ![u] = "unconfirmed"]
      /\ system' = [system EXCEPT ![u] = "user"]
      /\ member' = [member EXCEPT ![<<Home[u], u>>] = owner]
    BY DEF SignUp
<1>2. RecordsOK /\ RecordsTyped /\ Home[u] \in Workspace
    BY DEF IInv, RecordsOK
<1>3. owner \in MemberType /\ owner # NotMember /\ owner.role \in Role
    BY DEF MemberType, NotMember, Role
<1> HIDE DEF owner
<1>4. ASSUME NEW w \in Workspace, NEW v \in User
      PROVE  member'[w, v] = IF w = Home[u] /\ v = u THEN owner ELSE member[w, v]
    BY <1>1, <1>2 DEF RecordsTyped
<1>5. ASSUME NEW w \in Workspace PROVE ~IsDefault(w, u) /\ member[w, u] = NotMember
    <2>1. system[u] = "none"
        BY <1>1, <1>2 DEF RecordsOK, UsersHaveAccounts
    <2>2. member[w, u] = NotMember
        BY <1>2, <2>1 DEF RecordsOK, UsersAreMembers
    <2>3. ~NotMember.active
        BY DEF NotMember
    <2> QED
        BY <2>2, <2>3 DEF IsDefault
<1>6. ASSUME NEW v \in User
      PROVE  /\ account'[v] = IF v = u THEN "unconfirmed" ELSE account[v]
             /\ system'[v] = IF v = u THEN "user" ELSE system[v]
    BY <1>1, <1>2 DEF RecordsTyped
<1>7. RecordsTyped'
    <2>1. account' \in [User -> {"none", "unconfirmed", "confirmed"}] /\ system' \in [User -> System]
        BY <1>1, <1>2 DEF RecordsTyped, System
    <2>2. member' \in [Workspace \X User -> MemberType]
        BY <1>1, <1>2, <1>3 DEF RecordsTyped
    <2> QED
        BY <1>1, <1>2, <2>1, <2>2 DEF RecordsTyped
<1>8. UsersHaveAccounts' /\ UsersAreMembers' /\ MembersHaveRoles'
    BY <1>2, <1>3, <1>4, <1>6
       DEF RecordsOK, UsersHaveAccounts, UsersAreMembers, MembersHaveRoles
<1>9. OneDefault'
    <2>1. ASSUME NEW w \in Workspace, NEW v \in User, IsDefault(w, v)'
          PROVE  IF v = u THEN w = Home[u] ELSE IsDefault(w, v)
        BY <1>4, <1>5, <2>1 DEF IsDefault
    <2> QED
        BY <1>2, <2>1 DEF RecordsOK, OneDefault
<1>10. GranteesAreMembers'
    <2>1. \A w \in Workspace, v \in User : member[w, v] # NotMember => member'[w, v] # NotMember
        BY <1>3, <1>4
    <2> QED
        BY <1>1, <1>2, <2>1 DEF RecordsOK, GranteesAreMembers
<1> QED
    BY <1>1, <1>7, <1>8, <1>9, <1>10, ChangeKeeps DEF RecordsOK

LEMMA ConfirmKeeps == ASSUME IInv, NEW u \in User, Confirm(u) PROVE IInv'
<1>1. RecordsOK /\ RecordsTyped
    BY DEF IInv, RecordsOK
<1>2. RecordsTyped'
    BY <1>1 DEF Confirm, RecordsTyped
<1>3. \A v \in User : account'[v] = IF v = u THEN "confirmed" ELSE account[v]
    BY <1>1 DEF Confirm, RecordsTyped
<1>4. UsersHaveAccounts'
    BY <1>1, <1>3 DEF Confirm, RecordsOK, UsersHaveAccounts
<1>5. (UsersAreMembers /\ MembersHaveRoles /\ OneDefault /\ GranteesAreMembers)'
    BY <1>1 DEF Confirm, RecordsOK, UsersAreMembers, MembersHaveRoles, OneDefault,
       GranteesAreMembers, IsDefault
<1> QED
    BY <1>2, <1>4, <1>5, ChangeKeeps DEF Confirm, RecordsOK

LEMMA SetSystemRoleKeeps ==
    ASSUME IInv, NEW u \in User, NEW role \in {"user", "system_admin"}, SetSystemRole(u, role)
    PROVE  IInv'
<1>1. RecordsOK /\ RecordsTyped
    BY DEF IInv, RecordsOK
<1>2. RecordsTyped'
    BY <1>1 DEF SetSystemRole, RecordsTyped, System
<1>3. \A v \in User : (system'[v] = "none") <=> (system[v] = "none")
    BY <1>1 DEF SetSystemRole, RecordsTyped
<1>4. UsersHaveAccounts' /\ UsersAreMembers'
    BY <1>1, <1>3 DEF SetSystemRole, RecordsOK, UsersHaveAccounts, UsersAreMembers
<1>5. (MembersHaveRoles /\ OneDefault /\ GranteesAreMembers)'
    BY <1>1 DEF SetSystemRole, RecordsOK, MembersHaveRoles, OneDefault, GranteesAreMembers,
       IsDefault
<1> QED
    BY <1>2, <1>4, <1>5, ChangeKeeps DEF SetSystemRole, RecordsOK

\* A step that only changes memberships of u, and keeps u a member where it was.
LEMMA MemberKeeps ==
    ASSUME IInv, Change, UNCHANGED <<account, system, grant, open>>, NEW u \in User,
           system[u] # "none",
           member' \in [Workspace \X User -> MemberType],
           \A w \in Workspace, v \in User \ {u} : member'[w, v] = member[w, v],
           \A w \in Workspace : /\ member'[w, u] # NotMember => member'[w, u].role \in Role
                                /\ member[w, u] # NotMember => member'[w, u] # NotMember,
           \A v, w \in Workspace : (IsDefault(v, u) /\ IsDefault(w, u))' => v = w
    PROVE  IInv'
<1>1. RecordsOK
    BY DEF IInv
<1>2. RecordsTyped' /\ UsersHaveAccounts'
    BY <1>1 DEF RecordsOK, RecordsTyped, UsersHaveAccounts
<1>3. UsersAreMembers' /\ MembersHaveRoles'
    BY <1>1 DEF RecordsOK, UsersAreMembers, MembersHaveRoles
<1>4. OneDefault'
    <2> SUFFICES ASSUME NEW v \in User, NEW x \in Workspace, NEW y \in Workspace,
                        IsDefault(x, v)', IsDefault(y, v)'
                 PROVE  x = y
        BY DEF OneDefault
    <2>1. CASE v = u
        BY <2>1
    <2>2. CASE v # u
        <3>1. IsDefault(x, v) /\ IsDefault(y, v)
            BY <2>2 DEF IsDefault
        <3> QED
            BY <1>1, <3>1 DEF RecordsOK, OneDefault
    <2> QED
        BY <2>1, <2>2
<1>5. GranteesAreMembers'
    <2>1. \A w \in Workspace, v \in User : member[w, v] # NotMember => member'[w, v] # NotMember
        OBVIOUS
    <2> QED
        BY <1>1, <2>1 DEF RecordsOK, GranteesAreMembers
<1> QED
    BY <1>2, <1>3, <1>4, <1>5, ChangeKeeps DEF RecordsOK

LEMMA SetMembershipKeeps ==
    ASSUME IInv, NEW u \in User, NEW w \in Workspace,
           NEW m \in [role : Role, active : BOOLEAN, default : BOOLEAN], SetMembership(w, u, m)
    PROVE  IInv'
<1>1. RecordsOK /\ RecordsTyped
    BY DEF IInv, RecordsOK
<1>2. m \in MemberType /\ m.role \in Role /\ m # NotMember
    BY DEF MemberType, NotMember, Role
<1>3. /\ Change /\ system[u] # "none" /\ member' = [member EXCEPT ![<<w, u>>] = m]
      /\ m.active /\ m.default => DefaultOf(u) \subseteq {w}
      /\ UNCHANGED <<account, system, grant, open>>
    BY DEF SetMembership
<1>4. ASSUME NEW x \in Workspace, NEW v \in User
      PROVE  member'[x, v] = IF x = w /\ v = u THEN m ELSE member[x, v]
    BY <1>1, <1>3 DEF RecordsTyped
<1>5. ASSUME NEW x \in Workspace, NEW y \in Workspace, IsDefault(x, u)', IsDefault(y, u)'
      PROVE  x = y
    <2>1. \A z \in Workspace : IsDefault(z, u)' =>
                IF z = w THEN m.active /\ m.default ELSE IsDefault(z, u)
        BY <1>4 DEF IsDefault
    <2>2. m.active /\ m.default => \A z \in Workspace : IsDefault(z, u) => z = w
        BY <1>3 DEF DefaultOf, IsDefault
    <2> QED
        BY <1>1, <1>5, <2>1, <2>2 DEF RecordsOK, OneDefault
<1>6. member' \in [Workspace \X User -> MemberType]
    BY <1>1, <1>2, <1>3 DEF RecordsTyped
<1>7. \A x \in Workspace : /\ member'[x, u] # NotMember => member'[x, u].role \in Role
                           /\ member[x, u] # NotMember => member'[x, u] # NotMember
    BY <1>1, <1>2, <1>4 DEF RecordsOK, MembersHaveRoles
<1>8. \A x \in Workspace, v \in User \ {u} : member'[x, v] = member[x, v]
    BY <1>4
<1> QED
    BY <1>3, <1>5, <1>6, <1>7, <1>8, MemberKeeps

LEMMA MoveDefaultKeeps ==
    ASSUME IInv, NEW u \in User, NEW w \in Workspace, MoveDefault(u, w) PROVE IInv'
<1>1. RecordsOK /\ RecordsTyped
    BY DEF IInv, RecordsOK
<1>2. ASSUME NEW x \in Workspace, NEW v \in User
      PROVE  /\ member'[x, v] \in MemberType
             /\ member'[x, v].active = member[x, v].active
             /\ member'[x, v].role = member[x, v].role
             /\ v = u /\ member[x, v].active => member'[x, v].default = (x = w)
             /\ ~(v = u /\ member[x, v].active) => member'[x, v] = member[x, v]
    <2>1. member[x, v] \in MemberType
        BY <1>1 DEF RecordsTyped
    <2>2. CASE v = u /\ member[x, v].active
        <3>1. member'[x, v] = [member[x, v] EXCEPT !.default = (x = w)]
            BY <1>1, <2>2 DEF MoveDefault, RecordsTyped
        <3>2. /\ member'[x, v] \in MemberType /\ member'[x, v].active = member[x, v].active
              /\ member'[x, v].role = member[x, v].role /\ member'[x, v].default = (x = w)
            BY <2>1, <3>1 DEF MemberType
        <3> QED
            BY <2>2, <3>2
    <2>3. CASE ~(v = u /\ member[x, v].active)
        <3>1. member'[x, v] = member[x, v]
            BY <1>1, <2>3 DEF MoveDefault, RecordsTyped
        <3> QED
            BY <2>1, <2>3, <3>1
    <2> QED
        BY <2>2, <2>3
<1>3. member' \in [Workspace \X User -> MemberType]
    <2>1. member' = [x \in Workspace \X User |-> member'[x]]
        BY <1>1 DEF MoveDefault, RecordsTyped
    <2>2. ASSUME NEW x \in Workspace \X User PROVE member'[x] \in MemberType
        <3>1. PICK y \in Workspace, v \in User : x = <<y, v>>
            OBVIOUS
        <3> QED
            BY <1>2, <3>1
    <2> QED
        BY <2>1, <2>2
<1>4. ASSUME NEW x \in Workspace, NEW y \in Workspace, IsDefault(x, u)', IsDefault(y, u)'
      PROVE  x = y
    <2>1. ASSUME NEW z \in Workspace, IsDefault(z, u)' PROVE z = w
        <3>1. member'[z, u].active /\ member'[z, u].default
            BY <2>1 DEF IsDefault
        <3> QED
            BY <1>2, <3>1
    <2> QED
        BY <1>4, <2>1
<1>5. ASSUME NEW x \in Workspace, member[x, u] # NotMember
      PROVE  member'[x, u] # NotMember /\ member'[x, u].role \in Role
    <2>1. member[x, u].role \in Role
        BY <1>1, <1>5 DEF RecordsOK, MembersHaveRoles
    <2>2. member'[x, u].role \in Role
        BY <1>2, <2>1
    <2>3. NotMember.role \notin Role
        BY DEF NotMember, Role
    <2> QED
        BY <2>2, <2>3
<1>6. ASSUME NEW x \in Workspace, member'[x, u] # NotMember PROVE member[x, u] # NotMember
    <2>1. ~NotMember.active
        BY DEF NotMember
    <2>2. CASE member[x, u].active
        BY <2>1, <2>2
    <2>3. CASE ~member[x, u].active
        BY <1>2, <1>6, <2>3
    <2> QED
        BY <2>2, <2>3
<1>7. system[u] # "none"
    <2>1. member[w, u].active /\ ~NotMember.active
        BY DEF MoveDefault, NotMember
    <2>2. member[w, u] # NotMember
        BY <2>1
    <2> QED
        BY <1>1, <2>2 DEF RecordsOK, UsersAreMembers
<1>8. ASSUME NEW x \in Workspace, NEW v \in User \ {u} PROVE member'[x, v] = member[x, v]
    BY <1>2
<1> QED
    BY <1>3, <1>4, <1>5, <1>6, <1>7, <1>8, MemberKeeps DEF MoveDefault

LEMMA SetGrantKeeps ==
    ASSUME IInv, NEW u \in User, NEW w \in Workspace, NEW p \in Place, NEW level \in Level,
           SetGrant(w, u, p, level)
    PROVE  IInv'
<1>1. RecordsOK /\ RecordsTyped
    BY DEF IInv, RecordsOK
<1>2. grant' = [grant EXCEPT ![<<w, u, p>>] = level] /\ member[w, u] # NotMember
      /\ UNCHANGED <<account, system, member, open>>
    BY DEF SetGrant
<1>3. ASSUME NEW x \in Workspace, NEW v \in User, NEW y \in Place
      PROVE  grant'[x, v, y] = IF x = w /\ v = u /\ y = p THEN level ELSE grant[x, v, y]
    BY <1>1, <1>2 DEF RecordsTyped
<1>4. RecordsTyped'
    BY <1>1, <1>2 DEF RecordsTyped
<1>5. GranteesAreMembers'
    <2> SUFFICES ASSUME NEW x \in Workspace, NEW v \in User, NEW y \in Place,
                        grant'[x, v, y] # "none"
                 PROVE  member[x, v] # NotMember
        BY <1>2 DEF GranteesAreMembers
    <2>1. CASE x = w /\ v = u
        BY <1>2, <2>1
    <2>2. CASE ~(x = w /\ v = u)
        <3>1. grant[x, v, y] # "none"
            BY <1>3, <2>2
        <3> QED
            BY <1>1, <3>1 DEF RecordsOK, GranteesAreMembers
    <2> QED
        BY <2>1, <2>2
<1>6. (UsersHaveAccounts /\ UsersAreMembers /\ MembersHaveRoles /\ OneDefault)'
    BY <1>1, <1>2 DEF RecordsOK, UsersHaveAccounts, UsersAreMembers, MembersHaveRoles,
       OneDefault, IsDefault
<1> QED
    BY <1>4, <1>5, <1>6, ChangeKeeps DEF SetGrant, RecordsOK
-----------------------------------------------------------------------------
(* Requests go on *)

\* More rows take nothing away from a request.
LEMMA MoreRows ==
    ASSUME NEW q, NEW rows, NEW more, rows \subseteq more, RequestOK(q, rows)
    PROVE  RequestOK(q, more)
<1>1. Answerable(q, rows) => Answerable(q, more)
    BY DEF Answerable
<1> QED
    BY <1>1 DEF RequestOK

LEMMA StepKeeps ==
    ASSUME IInv, NEW r \in Request, NEW q \in RequestType, Step(r, q),
           stored \subseteq stored', StoredOK(stored'), RequestOK(q, stored')
    PROVE  IInv'
<1>1. /\ request' = [request EXCEPT ![r] = q]
      /\ UNCHANGED <<account, system, member, grant, open, changes>>
    BY DEF Step, records
<1>2. request \in [Request -> RequestType] /\ RecordsOK
    BY DEF IInv
<1>3. RecordsOK'
    BY <1>1, <1>2 DEF RecordsOK, RecordsTyped, UsersHaveAccounts, UsersAreMembers, MembersHaveRoles,
       OneDefault, IsDefault, GranteesAreMembers
<1>4. request' \in [Request -> RequestType]
    BY <1>1, <1>2
<1>5. ASSUME NEW x \in Request, RequestOK(request'[x], stored') PROVE RequestOK(request[x], stored)'
    <2>1. Fresh(request[x])'
        BY <1>1, <1>5 DEF RequestOK, Fresh, DefaultOf, GrantedAs
    <2> QED
        BY <1>1, <1>5, <2>1 DEF RequestOK
<1>6. ASSUME NEW x \in Request PROVE RequestOK(request'[x], stored')
    <2>1. request'[x] = IF x = r THEN q ELSE request[x]
        BY <1>1, <1>2
    <2>2. RequestOK(request[x], stored)
        BY DEF IInv
    <2>3. RequestOK(request[x], stored')
        BY <2>2, MoreRows
    <2> QED
        BY <2>1, <2>3
<1> QED
    BY <1>1, <1>3, <1>4, <1>5, <1>6 DEF IInv

\* What is known of a request, to be used one at a time.
LEMMA RequestFacts ==
    ASSUME IInv, NEW r \in Request
    PROVE  /\ request[r] \in RequestType /\ RequestOK(request[r], stored)
           /\ request[r].scope \in ScopeType /\ request[r].since \in Nat /\ changes \in Nat
           /\ request[r].stage \in {"profile", "stored"} \cup WithProfile =>
                 request[r].user \in User /\ request[r].op \in Op
BY DEF IInv, RequestType, RequestOK

LEMMA EndKeeps ==
    ASSUME IInv, NEW r \in Request, NEW stage \in {"answered", "forbidden", "denied", "missing"},
           End(r, stage), stage = "denied" => request[r].since < changes
    PROVE  IInv'
<1> DEFINE since == IF stage = "denied" THEN request[r].since ELSE 0
           q == [Idle EXCEPT !.stage = stage, !.since = since]
<1>1. Step(r, q) /\ UNCHANGED stored
    BY DEF End
<1>2. since \in Nat /\ since <= changes /\ (stage = "denied" => since < changes)
    BY RequestFacts
<1>3. NoScope \in ScopeType /\ NoScope.writable \subseteq NoScope.readable
    BY DEF NoScope, ScopeType, System
<1>4. /\ q \in RequestType /\ q.stage = stage /\ q.scope = NoScope /\ q.since = since
    BY <1>2, <1>3 DEF RequestType, Stage, Idle
<1>5. RequestOK(q, stored')
    <2>1. stage \notin {"profile", "stored", "lost"} \cup WithProfile \cup Allowed
        BY DEF WithProfile, Allowed
    <2> HIDE DEF q, since
    <2> QED
        BY <1>2, <1>3, <1>4, <2>1 DEF RequestOK, Fresh, WithProfile, WithMember, WithScope, Allowed
<1>6. StoredOK(stored')
    BY <1>1 DEF IInv
<1> QED
    BY <1>1, <1>4, <1>5, <1>6, StepKeeps

LEMMA VerifyKeeps == ASSUME IInv, NEW r \in Request, Verify(r) PROVE IInv'
<1>1. PICK u \in User, op \in Op, p \in Place \cup {"none"} :
         Step(r, [Idle EXCEPT !.stage = "profile", !.user = u, !.op = op, !.place = p, !.since = changes])
    BY DEF Verify
<1> DEFINE q == [Idle EXCEPT !.stage = "profile", !.user = u, !.op = op, !.place = p, !.since = changes]
<1>2. Step(r, q) /\ UNCHANGED stored
    BY <1>1 DEF Verify
<1>3. NoScope \in ScopeType /\ NoScope.writable \subseteq NoScope.readable
    BY DEF NoScope, ScopeType, System
<1>4. changes \in Nat
    BY DEF IInv
<1>5. /\ q \in RequestType /\ q.stage = "profile" /\ q.user = u /\ q.op = op
      /\ q.scope = NoScope /\ q.since = changes
    BY <1>3, <1>4 DEF RequestType, Stage, Idle
<1> HIDE DEF q
<1>6. RequestOK(q, stored')
    BY <1>3, <1>4, <1>5 DEF RequestOK, Fresh, WithProfile, WithMember, WithScope, Allowed
<1>7. StoredOK(stored')
    BY <1>2 DEF IInv
<1> QED
    BY <1>2, <1>5, <1>6, <1>7, StepKeeps

LEMMA ReadProfileKeeps == ASSUME IInv, NEW r \in Request, ReadProfile(r) PROVE IInv'
<1>1. CASE system[request[r].user] = "none"
    BY <1>1, EndKeeps DEF ReadProfile
<1>2. CASE system[request[r].user] # "none"
    <2> DEFINE q == [request[r] EXCEPT !.stage = "membership",
                                       !.scope.system = system[request[r].user]]
    <2>1. Step(r, q) /\ UNCHANGED stored /\ request[r].stage = "profile"
        BY <1>2 DEF ReadProfile, At
    <2>2. /\ request[r] \in RequestType /\ RequestOK(request[r], stored)
          /\ request[r].scope \in ScopeType /\ request[r].since \in Nat /\ changes \in Nat
          /\ request[r].user \in User /\ request[r].op \in Op
        BY <2>1, RequestFacts
    <2>3. system[request[r].user] \in System
        BY <2>2 DEF IInv, RecordsOK, RecordsTyped
    <2>4. /\ q \in RequestType /\ q.stage = "membership" /\ q.since = request[r].since
          /\ q.user = request[r].user /\ q.op = request[r].op
          /\ q.scope.system = system[request[r].user]
          /\ q.scope.writable = request[r].scope.writable
          /\ q.scope.readable = request[r].scope.readable
        BY <2>2, <2>3 DEF RequestType, ScopeType, Stage
    <2> HIDE DEF q
    <2>5. RequestOK(q, stored')
        BY <1>2, <2>2, <2>4 DEF RequestOK, Fresh, WithProfile, WithMember, WithScope, Allowed
    <2>6. StoredOK(stored')
        BY <2>1 DEF IInv
    <2> QED
        BY <2>1, <2>4, <2>5, <2>6, StepKeeps
<1> QED
    BY <1>1, <1>2

\* What a scope that is passed on to the routes has in common with the records.
Resolved(q, scope) ==
    /\ scope \in ScopeType /\ scope.writable \subseteq scope.readable
    /\ scope.workspace \in Workspace
    /\ q.since = changes =>
          /\ scope.system = system[q.user] /\ scope.system # "none"
          /\ scope.workspace \in DefaultOf(q.user)
          /\ scope.role = member[scope.workspace, q.user].role

LEMMA RouteKeeps ==
    ASSUME IInv, NEW r \in Request, request[r].stage \in {"membership", "grants"}, NEW scope,
           Resolved(request[r], scope), Route(r, scope),
           request[r].since = changes =>
              CanAdmin(scope) \/ scope.writable = GrantedAs(scope.workspace, request[r].user, {"planner"})
    PROVE  IInv'
<1> DEFINE old == request[r]
           q == [old EXCEPT !.stage = "backend", !.scope = scope]
<1>1. /\ old \in RequestType /\ RequestOK(old, stored) /\ old.since \in Nat /\ changes \in Nat
      /\ old.user \in User /\ old.op \in Op
    BY RequestFacts DEF WithProfile
<1>2. CASE ~Permits(scope, old.op, old.place)
    BY <1>2, EndKeeps DEF Route
<1>3. CASE Permits(scope, old.op, old.place) /\ old.op = "view"
    BY <1>3, EndKeeps DEF Route
<1>4. CASE Permits(scope, old.op, old.place) /\ old.op # "view"
    <2>1. Step(r, q) /\ UNCHANGED stored
        BY <1>4 DEF Route
    <2>2. /\ q \in RequestType /\ q.stage = "backend" /\ q.since = old.since /\ q.scope = scope
          /\ q.user = old.user /\ q.op = old.op /\ q.place = old.place
        BY <1>1 DEF RequestType, Resolved, Stage
    <2> HIDE DEF q
    <2>3. q.since <= changes
        BY <1>1, <2>2 DEF RequestOK
    <2>4. Fresh(q)
        BY <2>2 DEF Fresh, Resolved
    <2>5. RequestOK(q, stored')
        BY <1>1, <1>4, <2>2, <2>3, <2>4 DEF RequestOK, Resolved, Allowed
    <2>6. StoredOK(stored')
        BY <2>1 DEF IInv
    <2> QED
        BY <2>1, <2>2, <2>5, <2>6, StepKeeps
<1> QED
    BY <1>2, <1>3, <1>4

\* A user has at most one default workspace, so one that is counted is the one.
LEMMA DefaultCounted ==
    ASSUME RecordsOK, NEW u \in User
    PROVE  /\ Cardinality(DefaultOf(u)) <= 1
           /\ Cardinality(DefaultOf(u)) = 1 => \E w \in Workspace : DefaultOf(u) = {w}
<1>1. CASE DefaultOf(u) = {}
    BY <1>1, FS_EmptySet
<1>2. CASE DefaultOf(u) # {}
    <2>1. PICK w \in Workspace : w \in DefaultOf(u)
        BY <1>2 DEF DefaultOf
    <2>2. DefaultOf(u) = {w}
        BY <2>1 DEF RecordsOK, OneDefault, IsDefault, DefaultOf
    <2>3. Cardinality({w}) = 1
        BY FS_Singleton
    <2> QED
        BY <2>2, <2>3
<1> QED
    BY <1>1, <1>2

LEMMA ReadMembershipKeeps == ASSUME IInv, NEW r \in Request, ReadMembership(r) PROVE IInv'
<1> DEFINE old == request[r]
           u == old.user
           w == CHOOSE v \in DefaultOf(u) : TRUE
           scope == [old.scope EXCEPT !.workspace = w, !.role = member[w, u].role]
           q == [old EXCEPT !.stage = "grants", !.scope = scope]
<1>1. /\ old \in RequestType /\ RequestOK(old, stored) /\ old.scope \in ScopeType
      /\ old.since \in Nat /\ changes \in Nat /\ u \in User /\ old.op \in Op
      /\ old.stage = "membership" /\ RecordsOK
    BY RequestFacts DEF ReadMembership, At, WithProfile, IInv
<1>2. CASE Cardinality(DefaultOf(u)) # 1
    BY <1>2, EndKeeps DEF ReadMembership
<1>3. CASE Cardinality(DefaultOf(u)) = 1
    <2>1. w \in DefaultOf(u) /\ w \in Workspace
        BY <1>1, <1>3, DefaultCounted DEF DefaultOf
    <2>2. /\ member[w, u].role \in Role \cup {"none"}
        BY <1>1, <2>1 DEF RecordsOK, RecordsTyped, MemberType
    <2> HIDE DEF w
    <2>3. /\ scope \in ScopeType /\ scope.workspace = w /\ scope.role = member[w, u].role
          /\ scope.system = old.scope.system /\ scope.readable = old.scope.readable
          /\ scope.writable = old.scope.writable
        BY <1>1, <2>1, <2>2 DEF ScopeType
    <2>4. IF CanAdmin(scope) THEN Route(r, scope) ELSE Step(r, q) /\ UNCHANGED stored
        BY <1>3 DEF ReadMembership, w
    <2> HIDE DEF scope
    <2>5. Resolved(old, scope)
        BY <1>1, <2>1, <2>3 DEF Resolved, RequestOK, Fresh, WithProfile
    <2>6. CASE CanAdmin(scope)
        BY <1>1, <2>4, <2>5, <2>6, RouteKeeps
    <2>7. CASE ~CanAdmin(scope)
        <3>1. /\ q \in RequestType /\ q.stage = "grants" /\ q.since = old.since /\ q.scope = scope
              /\ q.user = u /\ q.op = old.op
            BY <1>1, <2>3 DEF RequestType, Stage
        <3>2. Step(r, q) /\ UNCHANGED stored
            BY <2>4, <2>7
        <3> HIDE DEF q
        <3>3. RequestOK(q, stored')
            BY <1>1, <2>5, <3>1 DEF RequestOK, Fresh, Resolved, WithProfile, WithMember, WithScope,
               Allowed
        <3>4. StoredOK(stored')
            BY <3>2 DEF IInv
        <3> QED
            BY <3>1, <3>2, <3>3, <3>4, StepKeeps
    <2> QED
        BY <2>6, <2>7
<1> QED
    BY <1>2, <1>3

LEMMA ReadGrantsKeeps == ASSUME IInv, NEW r \in Request, ReadGrants(r) PROVE IInv'
<1> DEFINE old == request[r]
           now == ScopeIn(old.scope.workspace, old.user)
           scope == [old.scope EXCEPT !.readable = now.readable, !.writable = now.writable]
<1>1. /\ old \in RequestType /\ RequestOK(old, stored) /\ old.scope \in ScopeType
      /\ old.user \in User /\ old.stage = "grants"
    BY RequestFacts DEF ReadGrants, At, WithProfile
<1>2. Route(r, scope)
    BY DEF ReadGrants
<1>3. /\ now.readable = GrantedAs(old.scope.workspace, old.user, {"viewer", "planner"})
      /\ now.writable = GrantedAs(old.scope.workspace, old.user, {"planner"})
    BY DEF ScopeIn
<1>4. /\ now.readable \subseteq Place /\ now.writable \subseteq now.readable
    BY <1>3 DEF GrantedAs
<1> HIDE DEF now
<1>5. /\ scope \in ScopeType /\ scope.workspace = old.scope.workspace /\ scope.role = old.scope.role
      /\ scope.system = old.scope.system /\ scope.readable = now.readable
      /\ scope.writable = now.writable
    BY <1>1, <1>4 DEF ScopeType
<1> HIDE DEF scope
<1>6. Resolved(old, scope)
    BY <1>1, <1>4, <1>5 DEF Resolved, RequestOK, Fresh, WithProfile, WithMember
<1> QED
    BY <1>1, <1>2, <1>3, <1>5, <1>6, RouteKeeps

\* A request moves on with the scope it has.
LEMMA GoKeeps ==
    ASSUME IInv, NEW r \in Request, NEW stage \in {"persist", "stored"},
           request[r].stage \in WithScope, Step(r, [request[r] EXCEPT !.stage = stage]),
           stored \subseteq stored', StoredOK(stored'),
           stage = "stored" => Answerable(request[r], stored'),
           stage = "persist" => \/ request[r].op \notin PlaceOp
                                \/ request[r].place \in open[request[r].scope.workspace]
    PROVE  IInv'
<1> DEFINE old == request[r]
           q == [old EXCEPT !.stage = stage]
<1>1. /\ old \in RequestType /\ RequestOK(old, stored) /\ old.since \in Nat /\ changes \in Nat
      /\ old.user \in User /\ old.op \in Op
    BY RequestFacts DEF WithScope, WithProfile
<1>2. /\ q \in RequestType /\ q.stage = stage /\ q.since = old.since /\ q.scope = old.scope
      /\ q.user = old.user /\ q.op = old.op /\ q.place = old.place
    BY <1>1 DEF RequestType, Stage
<1> HIDE DEF q
<1>3. Answerable(old, stored') => Answerable(q, stored')
    BY <1>2 DEF Answerable, RowOf
<1>4. Fresh(q)
    BY <1>1, <1>2 DEF RequestOK, Fresh, WithProfile, WithMember, WithScope
<1>5. RequestOK(q, stored')
    BY <1>1, <1>2, <1>3, <1>4 DEF RequestOK, Allowed, WithScope
<1>6. Step(r, q)
    BY DEF q
<1> QED
    BY <1>2, <1>5, <1>6, StepKeeps

LEMMA BackendKeeps == ASSUME IInv, NEW r \in Request, Backend(r) PROVE IInv'
<1>1. CASE /\ request[r].op \in PlaceOp
           /\ request[r].place \notin open[request[r].scope.workspace]
    BY <1>1, EndKeeps DEF Backend
<1>2. CASE ~(/\ request[r].op \in PlaceOp
             /\ request[r].place \notin open[request[r].scope.workspace])
    <2>1. Step(r, [request[r] EXCEPT !.stage = "persist"]) /\ UNCHANGED stored
          /\ request[r].stage \in WithScope
        BY <1>2 DEF Backend, Go, At, WithScope
    <2>2. StoredOK(stored')
        BY <2>1 DEF IInv
    <2> QED
        BY <1>2, <2>1, <2>2, GoKeeps
<1> QED
    BY <1>1, <1>2

\* What the scope let through is refused by the database only after a change.
LEMMA RefusedAfterChange ==
    ASSUME IInv, NEW r \in Request, At(r, "persist"),
           ~ActorAllowed(request[r].user, request[r].scope.workspace, request[r].op, request[r].place)
    PROVE  request[r].since < changes
<1> DEFINE q == request[r]
           w == q.scope.workspace
           now == ScopeIn(w, q.user)
<1>1. /\ q.since \in Nat /\ changes \in Nat /\ q.user \in User /\ q.op \in Op
      /\ RequestOK(q, stored) /\ q.stage = "persist" /\ RecordsOK
    BY RequestFacts DEF At, WithProfile, IInv
<1>2. w \in Workspace /\ q.op \in AdminOp \cup PlaceOp /\ Permits(q.scope, q.op, q.place)
    BY <1>1 DEF RequestOK, Allowed, Op
<1>3. SUFFICES ASSUME q.since = changes PROVE FALSE
    BY <1>1 DEF RequestOK
<1>4. /\ q.scope.system = system[q.user] /\ system[q.user] # "none"
      /\ w \in DefaultOf(q.user) /\ q.scope.role = member[w, q.user].role
      /\ CanAdmin(q.scope) \/ q.scope.writable = GrantedAs(w, q.user, {"planner"})
      /\ q.op \in PlaceOp => q.place \in open[w]
    BY <1>1, <1>3 DEF RequestOK, Fresh, WithProfile, WithMember, WithScope
<1>5. /\ now.system = system[q.user] /\ now.role = member[w, q.user].role
      /\ now.writable = GrantedAs(w, q.user, {"planner"})
    BY DEF ScopeIn
<1> HIDE DEF now
<1>6. Permits(now, q.op, q.place)
    BY <1>2, <1>4, <1>5, FreshPermits
<1>7. member[w, q.user].active
    BY <1>4 DEF DefaultOf
<1> QED
    BY <1>1, <1>2, <1>4, <1>6, <1>7, OnePolicy DEF now

LEMMA PersistKeeps == ASSUME IInv, NEW r \in Request, Persist(r) PROVE IInv'
<1> DEFINE q == request[r]
           row == RowOf(q)
<1>1. /\ RequestOK(q, stored) /\ q.stage = "persist" /\ q.stage \in WithScope /\ StoredOK(stored)
    BY RequestFacts DEF Persist, At, WithScope, IInv
<1>2. Permits(q.scope, q.op, q.place) /\ q.scope.writable \subseteq q.scope.readable
    BY <1>1 DEF RequestOK, Allowed
<1>3. q.op \in PlaceOp => CanRead(q.scope, q.place)
    <2>1. q.op \in PlaceOp => CanWrite(q.scope, q.place)
        BY <1>2 DEF Permits, PlaceOp, AdminOp
    <2> QED
        BY <1>2, <2>1, Reads
<1>4. /\ row.op = q.op /\ row.workspace = q.scope.workspace /\ row.place = q.place
      /\ q.op = "run" => row.id = RunId(q.scope, q.place)
    BY DEF RowOf
<1>5. /\ RunId(q.scope, q.place).workspace = q.scope.workspace
      /\ RunId(q.scope, q.place).place = q.place
    BY DEF RunId
<1>6. CASE Known(row)
    <2>1. PICK other \in stored : row.op = "run" /\ other.op = "run" /\ other.id = row.id
        BY <1>6 DEF Known
    <2>2. Answerable(q, stored)
        BY <1>1, <1>3, <1>4, <1>5, <2>1 DEF Answerable, StoredOK, PlaceOp
    <2>3. Step(r, [request[r] EXCEPT !.stage = "stored"]) /\ UNCHANGED stored
        BY <1>2, <1>6 DEF Persist, Go
    <2> QED
        BY <1>1, <2>2, <2>3, GoKeeps
<1>7. CASE /\ ~Known(row)
           /\ ~ActorAllowed(q.user, q.scope.workspace, q.op, q.place)
    <2>1. End(r, "denied")
        BY <1>2, <1>7 DEF Persist
    <2> QED
        BY <1>1, <1>7, <2>1, RefusedAfterChange, EndKeeps DEF At
<1>8. CASE /\ ~Known(row)
           /\ ActorAllowed(q.user, q.scope.workspace, q.op, q.place)
    <2>1. Step(r, [request[r] EXCEPT !.stage = "stored"]) /\ stored' = stored \cup {row}
        BY <1>2, <1>8 DEF Persist
    <2> HIDE DEF row
    <2>2. Answerable(q, stored')
        BY <1>3, <1>4, <2>1 DEF Answerable, row
    <2>3. StoredOK(stored')
        BY <1>1, <1>4, <1>5, <2>1 DEF StoredOK
    <2> QED
        BY <1>1, <2>1, <2>2, <2>3, GoKeeps
<1> QED
    BY <1>6, <1>7, <1>8

LEMMA ActivateKeeps == ASSUME IInv, NEW r \in Request, Activate(r) PROVE IInv'
<1> DEFINE q == request[r]
           w == q.scope.workspace
           row == RowOf(q)
           done == [Idle EXCEPT !.stage = "answered"]
<1>1. CASE ~ActorAllowed(q.user, w, q.op, q.place)
    <2>1. End(r, "denied") /\ At(r, "persist")
        BY <1>1 DEF Activate
    <2> QED
        BY <1>1, <2>1, RefusedAfterChange, EndKeeps
<1>2. CASE ActorAllowed(q.user, w, q.op, q.place)
    <2>1. /\ request' = [request EXCEPT ![r] = done]
          /\ changes' = changes + 1 /\ changes < MaxChanges
          /\ stored' = stored \cup {row} /\ row.op = "activate"
          /\ UNCHANGED <<account, system, member, grant>>
        BY <1>2 DEF Activate, RowOf
    <2>2. PICK places \in SUBSET Place : open' = [open EXCEPT ![w] = places]
        BY <1>2 DEF Activate
    <2>3. /\ RecordsOK /\ changes \in Nat /\ request \in [Request -> RequestType] /\ StoredOK(stored)
        BY DEF IInv
    <2> HIDE DEF row
    <2>4. RecordsOK'
        <3>1. open' \in [Workspace -> SUBSET Place]
            BY <2>2, <2>3 DEF RecordsOK, RecordsTyped
        <3> QED
            BY <2>1, <2>3, <3>1 DEF RecordsOK, RecordsTyped, UsersHaveAccounts, UsersAreMembers,
               MembersHaveRoles, OneDefault, IsDefault, GranteesAreMembers
    <2>5. changes' \in 0 .. MaxChanges
        BY <2>1, <2>3
    <2>6. /\ done \in RequestType /\ done.stage = "answered" /\ done.since = 0
          /\ done.scope.writable \subseteq done.scope.readable
        BY DEF RequestType, ScopeType, System, Stage, Idle, NoScope
    <2> HIDE DEF done
    <2>7. request' \in [Request -> RequestType]
        BY <2>1, <2>3, <2>6
    <2>8. ASSUME NEW x \in Request PROVE RequestOK(request[x], stored)'
        <3>1. request'[x] = IF x = r THEN done ELSE request[x]
            BY <2>1, <2>3
        <3>2. RequestOK(request[x], stored) /\ request[x].since \in Nat
            BY RequestFacts
        <3>3. CASE x = r
            <4>1. Fresh(request[x])'
                BY <2>6, <3>1, <3>3 DEF Fresh, WithProfile, WithMember, WithScope
            <4> QED
                BY <2>1, <2>3, <2>6, <3>1, <3>3, <4>1
                   DEF RequestOK, WithProfile, WithMember, WithScope, Allowed
        <3>4. CASE x # r
            <4>1. request'[x] = request[x]
                BY <3>1, <3>4
            <4>2. /\ request'[x].since <= changes' /\ request'[x].since # changes'
                  /\ (request'[x].stage = "denied" => request'[x].since < changes')
                BY <2>1, <2>3, <3>2, <4>1 DEF RequestOK
            <4>3. Fresh(request[x])'
                BY <4>2 DEF Fresh
            <4>4. Answerable(request[x], stored) => Answerable(request'[x], stored')
                BY <2>1, <4>1 DEF Answerable
            <4> QED
                BY <3>2, <4>1, <4>2, <4>3, <4>4 DEF RequestOK
        <3> QED
            BY <3>3, <3>4
    <2>9. StoredOK(stored')
        BY <2>1, <2>3 DEF StoredOK
    <2> QED
        BY <2>4, <2>5, <2>7, <2>8, <2>9 DEF IInv
<1> QED
    BY <1>1, <1>2

LEMMA ReadBackKeeps == ASSUME IInv, NEW r \in Request, ReadBack(r) PROVE IInv'
<1> DEFINE q == request[r]
           mine == {row \in Visible(q.scope) :
                      IF q.op = "run" THEN row.op = "run" /\ row.id = RunId(q.scope, q.place)
                      ELSE row = RowOf(q)}
<1>1. Answerable(q, stored)
    BY RequestFacts DEF ReadBack, At, RequestOK
<1>2. mine # {}
    BY <1>1 DEF Answerable, Visible
<1>3. End(r, IF mine = {} THEN "lost" ELSE "answered")
    BY DEF ReadBack
<1> HIDE DEF mine
<1>4. End(r, "answered")
    BY <1>2, <1>3
<1> QED
    BY <1>4, EndKeeps

-----------------------------------------------------------------------------
(* The invariant *)

LEMMA InitInv == Init => IInv
<1> SUFFICES ASSUME Init PROVE IInv
    OBVIOUS
<1>1. RecordsTyped
    BY DEF Init, RecordsTyped, System, Level, MemberType, NotMember
<1>2. \A w \in Workspace, u \in User : member[w, u] = NotMember
    BY DEF Init
<1>3. ~NotMember.active
    BY DEF NotMember
<1>4. RecordsOK
    <2>1. UsersHaveAccounts
        BY DEF Init, UsersHaveAccounts
    <2>2. UsersAreMembers /\ MembersHaveRoles
        BY <1>2 DEF UsersAreMembers, MembersHaveRoles
    <2>3. OneDefault
        BY <1>2, <1>3 DEF OneDefault, IsDefault
    <2>4. GranteesAreMembers
        BY DEF Init, GranteesAreMembers
    <2> QED
        BY <1>1, <2>1, <2>2, <2>3, <2>4 DEF RecordsOK
<1>5. /\ Idle \in RequestType /\ Idle.stage = "idle" /\ Idle.since = 0
      /\ Idle.scope.writable \subseteq Idle.scope.readable
    BY DEF RequestType, ScopeType, System, Stage, Idle, NoScope
<1>6. request \in [Request -> RequestType] /\ \A r \in Request : request[r] = Idle
    BY <1>5 DEF Init
<1>7. changes = 0 /\ stored = {}
    BY DEF Init
<1>8. RequestOK(Idle, stored)
    BY <1>5, <1>7 DEF RequestOK, Fresh, WithProfile, WithMember, WithScope, Allowed
<1> QED
    BY <1>4, <1>6, <1>7, <1>8 DEF IInv, StoredOK

LEMMA NextInv == IInv /\ [Next]_vars => IInv'
<1> SUFFICES ASSUME IInv, [Next]_vars PROVE IInv'
    OBVIOUS
<1>1. CASE Administer
    <2>1. ASSUME NEW u \in User, SignUp(u) PROVE IInv'
        BY <2>1, SignUpKeeps
    <2>2. ASSUME NEW u \in User, Confirm(u) PROVE IInv'
        BY <2>2, ConfirmKeeps
    <2>3. ASSUME NEW u \in User, NEW role \in {"user", "system_admin"}, SetSystemRole(u, role)
          PROVE  IInv'
        BY <2>3, SetSystemRoleKeeps
    <2>4. ASSUME NEW u \in User, NEW w \in Workspace, MoveDefault(u, w) PROVE IInv'
        BY <2>4, MoveDefaultKeeps
    <2>5. ASSUME NEW u \in User, NEW w \in Workspace,
                 NEW m \in [role : Role, active : BOOLEAN, default : BOOLEAN], SetMembership(w, u, m)
          PROVE  IInv'
        BY <2>5, SetMembershipKeeps
    <2>6. ASSUME NEW u \in User, NEW w \in Workspace, NEW p \in Place,
                 NEW level \in {"none", "viewer", "planner"}, SetGrant(w, u, p, level)
          PROVE  IInv'
        BY <2>6, SetGrantKeeps DEF Level
    <2> QED
        BY <1>1, <2>1, <2>2, <2>3, <2>4, <2>5, <2>6 DEF Administer
<1>2. ASSUME NEW r \in Request, Serve(r) PROVE IInv'
    <2>1. CASE Verify(r) \/ ReadProfile(r) \/ ReadMembership(r) \/ ReadGrants(r)
        BY <2>1, VerifyKeeps, ReadProfileKeeps, ReadMembershipKeeps, ReadGrantsKeeps
    <2>2. CASE Backend(r) \/ Persist(r) \/ Activate(r) \/ ReadBack(r)
        BY <2>2, BackendKeeps, PersistKeeps, ActivateKeeps, ReadBackKeeps
    <2> QED
        BY <1>2, <2>1, <2>2 DEF Serve
<1>3. CASE UNCHANGED vars
    <2>1. UNCHANGED <<account, system, member, grant, open, changes, request, stored>>
        BY <1>3 DEF vars, records
    <2>2. RecordsOK'
        BY <2>1 DEF IInv, RecordsOK, RecordsTyped, UsersHaveAccounts, UsersAreMembers,
           MembersHaveRoles, OneDefault, IsDefault, GranteesAreMembers
    <2>3. ASSUME NEW r \in Request PROVE RequestOK(request[r], stored)'
        <3>1. RequestOK(request[r], stored)
            BY DEF IInv
        <3>2. Fresh(request[r])'
            BY <2>1, <3>1 DEF RequestOK, Fresh, DefaultOf, GrantedAs
        <3> QED
            BY <2>1, <3>1, <3>2 DEF RequestOK
    <2> QED
        BY <2>1, <2>2, <2>3 DEF IInv
<1> QED
    BY <1>1, <1>2, <1>3 DEF Next

-----------------------------------------------------------------------------
(* Theorems *)

\* The invariant holds of every behaviour of requests and administrators
\* (authorization.py, the tables and triggers of migration 008).
THEOREM Inductive == Spec => []IInv
BY InitInv, NextInv, PTL DEF Spec

\* The state keeps its shape: one active default workspace per user, a grant
\* only with a membership (the indexes and keys of migration 008).
THEOREM TypeCorrect == Spec => []TypeOK
<1>1. IInv => TypeOK
    <2> SUFFICES ASSUME IInv PROVE TypeOK
        OBVIOUS
    <2>1. RecordsOK /\ RecordsTyped /\ changes \in 0 .. MaxChanges
        BY DEF IInv, RecordsOK
    <2>2. \A u \in User : /\ system[u] = "none" <=> account[u] = "none"
                          /\ Cardinality(DefaultOf(u)) <= 1
        BY <2>1, DefaultCounted DEF RecordsOK, UsersHaveAccounts
    <2>3. \A x \in Workspace \X User : member[x].role \in Role \cup {"none"}
        BY <2>1 DEF RecordsTyped, MemberType
    <2>4. \A w \in Workspace, u \in User, p \in Place : grant[w, u, p] # "none" => member[w, u] # NotMember
        BY <2>1 DEF RecordsOK, GranteesAreMembers
    <2>5. \A r \in Request : request[r].stage \in Stage
        BY DEF IInv, RequestType
    <2> QED
        BY <2>1, <2>2, <2>3, <2>4, <2>5 DEF TypeOK, RecordsTyped, System
<1> QED
    BY <1>1, Inductive, PTL

\* The two policies agree: the database refuses what the scope of a request let
\* through only if a record has changed since the request began
\* (authorization.py 79-82, user_can_access_location_v1).
THEOREM PoliciesAgree == Spec => []LaterChecksAgree
<1>1. IInv => LaterChecksAgree
    <2> SUFFICES ASSUME IInv, NEW r \in Request, At(r, "denied") PROVE changes # request[r].since
        BY DEF LaterChecksAgree
    <2> QED
        BY RequestFacts DEF At, RequestOK
<1> QED
    BY <1>1, Inductive, PTL

\* What a request stored, or found stored, is in the reach of its scope when it
\* is read back, whatever else happened (_namespace_run_payload,
\* get_planning_run and get_import of services.py).
THEOREM StoredIsShown == Spec => []StoredIsAnswered
<1>1. IInv => StoredIsAnswered
    <2> SUFFICES ASSUME IInv, NEW r \in Request PROVE ~At(r, "lost")
        BY DEF StoredIsAnswered
    <2> QED
        BY RequestFacts DEF At, RequestOK
<1> QED
    BY <1>1, Inductive, PTL

\* A step that stores a row stores the one of its request, as the records of
\* that moment allow.
LEMMA StoresAllowed ==
    ASSUME IInv, Next, NEW row \in stored' \ stored PROVE MayStore(row)
<1>1. PICK r \in Request :
         /\ At(r, "persist") /\ row = RowOf(request[r])
         /\ ActorAllowed(request[r].user, request[r].scope.workspace, request[r].op, request[r].place)
    <2>1. ~Administer
        BY DEF Administer, SignUp, Confirm, SetSystemRole, MoveDefault, SetMembership, SetGrant, Change
    <2>2. PICK r \in Request : Serve(r)
        BY <2>1 DEF Next
    <2>3. ~Verify(r) /\ ~Backend(r) /\ ~ReadBack(r) /\ ~ReadProfile(r)
        BY DEF Verify, Backend, ReadBack, ReadProfile, Go, End
    <2>4. \A scope : ~Route(r, scope)
        BY DEF Route, End
    <2>5. ~ReadMembership(r) /\ ~ReadGrants(r)
        BY <2>4 DEF ReadMembership, ReadGrants, End
    <2>6. CASE Persist(r)
        BY <2>6 DEF Persist, End, Go
    <2>7. CASE Activate(r)
        BY <2>7 DEF Activate, End
    <2> QED
        BY <2>2, <2>3, <2>5, <2>6, <2>7 DEF Serve
<1> DEFINE q == request[r]
<1>2. /\ RequestOK(q, stored) /\ q.user \in User /\ q.op \in Op /\ q.stage = "persist" /\ RecordsOK
    BY <1>1, RequestFacts DEF At, WithProfile, IInv
<1>3. q.scope.workspace \in Workspace /\ q.op \in AdminOp \cup PlaceOp
    BY <1>2 DEF RequestOK, Allowed, Op
<1>4. /\ row.op = q.op /\ row.workspace = q.scope.workspace /\ row.place = q.place /\ row.by = q.user
    BY <1>1 DEF RowOf
<1>5. /\ member[q.scope.workspace, q.user].active
      /\ Permits(ScopeIn(q.scope.workspace, q.user), q.op, q.place)
      /\ q.op \in PlaceOp => q.place \in open[q.scope.workspace]
    BY <1>1, <1>2, <1>3, OnePolicy
<1> QED
    BY <1>4, <1>5 DEF MayStore

\* Whatever happened to the records since a scope was resolved, only an active
\* member stores a row, only what the policy of the API permits by the records
\* of that moment, and only at an open location (authorization.py 62-82, the
\* triggers of migration 008).
THEOREM AuthorisedWrites == Spec => WritesAuthorised
<1>1. IInv /\ [Next]_vars => [\A row \in stored' \ stored : MayStore(row)]_vars
    BY StoresAllowed
<1> QED
    BY <1>1, Inductive, PTL DEF Spec, WritesAuthorised
=============================================================================
