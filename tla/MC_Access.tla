------------------------------ MODULE MC_Access ------------------------------
(***************************************************************************)
(* Two users with a private workspace each.  The first has signed up and   *)
(* owns the first; the second is about to sign up, has done so, or has     *)
(* been invited to plan one location of the first workspace.               *)
(***************************************************************************)
EXTENDS Access, TLC

CONSTANTS u1, u2, w1, w2

MCHome == (u1 :> w1) @@ (u2 :> w2)

Owner == [role |-> "owner", active |-> TRUE, default |-> TRUE]

\* Where the second user has signed up, no records change any more.
MCInit ==
    /\ \E second \in {"new", "settled", "invited"}, p \in Place :
          /\ account = (u1 :> "confirmed") @@ (u2 :> IF second = "new" THEN "none" ELSE "confirmed")
          /\ system = (u1 :> "user") @@ (u2 :> IF second = "new" THEN "none" ELSE "user")
          /\ member = [x \in Workspace \X User |->
                CASE x = <<w1, u1>> -> Owner
                  [] x = <<w2, u2>> /\ second = "settled" -> Owner
                  [] x = <<w2, u2>> /\ second = "invited" -> [Owner EXCEPT !.default = FALSE]
                  [] x = <<w1, u2>> /\ second = "invited" -> [Owner EXCEPT !.role = "planner"]
                  [] OTHER -> NotMember]
          /\ grant = [x \in Workspace \X User \X Place |->
                         IF second = "invited" /\ x = <<w1, u2, p>> THEN "planner" ELSE "none"]
          /\ changes = IF second = "settled" THEN MaxChanges ELSE 0
    /\ open = [w \in Workspace |-> Place]
    /\ request = [r \in Request |-> Idle]
    /\ stored = {}

\* An administrator of a workspace may do what its owner may, so one of the
\* two is enough, and so is one way to be revoked.  Of the requests under way
\* at once at most one is not a calculation or an activation.
Memberships == {NotMember, [role |-> "planner", active |-> FALSE, default |-> TRUE]}
                  \cup [role : {"owner", "planner"}, active : {TRUE}, default : BOOLEAN]
                  \cup {[role |-> "viewer", active |-> TRUE, default |-> TRUE]}

Usual == /\ \A x \in DOMAIN member : member[x] \in Memberships
         /\ Cardinality({r \in Request : request[r].op \in {"planning_input", "stock", "view"}}) <= 1

MCSpec == MCInit /\ [][Next /\ Usual']_vars

Symmetry == Permutations(Request) \cup Permutations(Place)
=============================================================================
