------------------------------- MODULE Roles -------------------------------
(***************************************************************************)
(* Staff roles: the first administrator, new staff accounts and role        *)
(* changes, which lock the administrators' rows one after the other.        *)
(*                                                                         *)
(* PostgreSQL locks the rows a SELECT ... FOR UPDATE found, in the order of  *)
(* the query, and keeps a lock on a row that no longer qualifies when the   *)
(* lock is granted; a row that came to qualify meanwhile is not seen.       *)
(***************************************************************************)
EXTENDS Integers, FiniteSets

CONSTANTS
  Users,        \* bound: account ids, ordered as the rows are locked
  Calls,        \* bound: requests and bootstrap commands under way
  None

ASSUME RolesAssumption ==
  /\ Users \subseteq Int
  /\ None \notin Calls \cup Users

VARIABLES
  user,      \* users: the role, and whether the account has a category
  lock,      \* the transaction that holds each row
  pc,
  req        \* what each call was asked and has read

vars == <<user, lock, pc, req>>

StaffRoles == {"librarian", "admin"}
UserRoles == {"member"} \cup StaffRoles

NoUser == [role |-> "none", category |-> FALSE]
NoReq == [target |-> None, role |-> "none", category |-> FALSE, todo |-> {}, admins |-> {}]

Known == {u \in Users : user[u].role # "none"}
Admins == {u \in Users : user[u].role = "admin"}

At(c, label) == pc[c] = label
Goto(c, label) == pc' = [pc EXCEPT ![c] = label]

(* A transaction ends: its locks go with it. *)
Finish(c) ==
  /\ Goto(c, "idle")
  /\ req' = [req EXCEPT ![c] = NoReq]
  /\ lock' = [u \in Users |-> IF lock[u] = c THEN None ELSE lock[u]]

-----------------------------------------------------------------------------
(* cmd/bootstrap counts the administrators, then inserts one. *)

CountAdmins(c) ==
  /\ At(c, "idle")
  /\ Admins = {}
  /\ Goto(c, "bootstrap")
  /\ UNCHANGED <<user, lock, req>>

InsertFirstAdmin(c) ==
  /\ At(c, "bootstrap")
  /\ \E u \in Users \ Known : user' = [user EXCEPT ![u].role = "admin"]
  /\ Finish(c)

(* RolesCreatableBy *)
CreatableBy(actor) == IF actor = "admin" THEN UserRoles
                      ELSE IF actor = "librarian" THEN {"member"} ELSE {}

(* A category is stored for members only, whatever the request says.  The code *)
(* goes by the role in the caller's token, which may be out of date: it allows *)
(* no more than an administrator may do, and once there is one there always is. *)
Create(u) ==
  /\ u \notin Known
  /\ \E actor \in Known : \E role \in CreatableBy(user[actor].role) :
       user' = [user EXCEPT ![u] = [role |-> role, category |-> role = "member"]]
  /\ UNCHANGED <<lock, pc, req>>

-----------------------------------------------------------------------------
(* An administrator names an account, a role the handler knows and perhaps a *)
(* category. *)
RoleRequests == [target : Users, role : UserRoles, category : BOOLEAN,
                 todo : {Admins}, admins : {{}}]

(* UpdateRole: the rows of the administrators are read ... *)
SetRole(c) ==
  /\ At(c, "idle")
  /\ Admins # {}
  /\ \E request \in RoleRequests : req' = [req EXCEPT ![c] = request]
  /\ Goto(c, "lock_admins")
  /\ UNCHANGED <<user, lock>>

(* ... and locked in order of id; mutants: as they come, and the count taken *)
(* before the locks. *)
Unordered(rows) == rows
FirstOf(rows) == {u \in rows : \A v \in rows : u <= v}

StillAdmin(u) == {u} \cap Admins
AsRead(u) == {u}
Counted(u) == StillAdmin(u)

LockAdmin(c) ==
  /\ At(c, "lock_admins")
  /\ \E u \in FirstOf(req[c].todo) :
       /\ lock[u] = None
       /\ lock' = [lock EXCEPT ![u] = c]
       /\ req' = [req EXCEPT ![c].todo = @ \ {u}, ![c].admins = @ \cup Counted(u)]
  /\ UNCHANGED <<user, pc>>

LockTarget(c) ==
  /\ At(c, "lock_admins") /\ req[c].todo = {}
  /\ req[c].target \in Known
  /\ lock[req[c].target] \in {None, c}
  /\ lock' = [lock EXCEPT ![req[c].target] = c]
  /\ Goto(c, "decide")
  /\ UNCHANGED <<user, req>>

(* The account as the request would leave it. *)
Resolved(c) == [role |-> req[c].role,
                category |-> user[req[c].target].category \/ req[c].category]

(* What must hold of the locked rows; mutant: the category is not looked at. *)
IfMember(c) ==
  /\ req[c].category => req[c].role = "member"
  /\ req[c].role = "member" => Resolved(c).category
LeavesAdmin(c) ==
  user[req[c].target].role = "admin" /\ req[c].role # "admin" => Cardinality(req[c].admins) > 1
AnyCategory(c) == LeavesAdmin(c)
Allowed(c) == LeavesAdmin(c) /\ IfMember(c)

(* The row and its audit entry commit together, or nothing does. *)
UpdateRole(c) ==
  /\ At(c, "decide")
  /\ Allowed(c)
  /\ user' = [user EXCEPT ![req[c].target] = Resolved(c)]
  /\ Finish(c)

(* No such account, a refusal, a failed statement, a caller who hangs up, or a *)
(* deadlock the database breaks: the transaction is rolled back. *)
Rollback(c) ==
  /\ ~ At(c, "idle")
  /\ Finish(c)
  /\ UNCHANGED user

-----------------------------------------------------------------------------
Init ==
  /\ user = [u \in Users |-> NoUser]
  /\ lock = [u \in Users |-> None]
  /\ pc = [c \in Calls |-> "idle"]
  /\ req = [c \in Calls |-> NoReq]

Step(c) ==
  \/ CountAdmins(c) \/ InsertFirstAdmin(c) \/ SetRole(c) \/ LockAdmin(c)
  \/ LockTarget(c)  \/ UpdateRole(c)       \/ Rollback(c)

Next == (\E c \in Calls : Step(c)) \/ (\E u \in Users : Create(u))

Spec == Init /\ [][Next]_vars

-----------------------------------------------------------------------------
(* What role changes promise. *)

UserRow == [role : UserRoles \cup {"none"}, category : BOOLEAN]
Req == [target : Users \cup {None}, role : UserRoles \cup {"none"}, category : BOOLEAN,
        todo : SUBSET Users, admins : SUBSET Users]

(* Every column, lock and call keeps its type. *)
TypeOK ==
  /\ user \in [Users -> UserRow]
  /\ lock \in [Users -> Calls \cup {None}]
  /\ pc \in [Calls -> {"idle", "bootstrap", "lock_admins", "decide"}]
  /\ req \in [Calls -> Req]

(* "Last-administrator protection": however many administrators demote each *)
(* other at once, the library keeps one. *)
AdministratorRemains == [][Admins # {} => Admins' # {}]_vars

(* members_need_a_category: an account promoted and demoted again has terms to *)
(* borrow on. *)
MembersHaveTerms == \A u \in Users : user[u].role = "member" => user[u].category

(* The row a transaction waits for. *)
WaitsFor(c, u) ==
  /\ At(c, "lock_admins")
  /\ IF req[c].todo = {} THEN u = req[c].target ELSE u \in FirstOf(req[c].todo)

Blocks(c, d) == \E u \in Users : WaitsFor(c, u) /\ lock[u] = d

(* A request to take the role of an account that was an administrator when *)
(* the administrators were read. *)
Demotes(c) == req[c].role # "admin" /\ req[c].target \in req[c].todo \cup req[c].admins

(* "Locking each target first deadlocks two simultaneous administrator *)
(* demotions": in this order two of them never wait for each other. *)
DemotionsDoNotDeadlock ==
  \A c, d \in Calls : c # d /\ Demotes(c) /\ Demotes(d) => ~ (Blocks(c, d) /\ Blocks(d, c))
=============================================================================
