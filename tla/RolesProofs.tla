---------------------------- MODULE RolesProofs ----------------------------
(***************************************************************************)
(* Proofs about the role changes, for any number of accounts, calls and     *)
(* administrators.                                                          *)
(*                                                                         *)
(* What a transaction has counted it has locked (LocksHeld), and it has      *)
(* locked nothing behind the next administrator it asks for (LocksOrdered):  *)
(* the first gives the last administrator, the second the absence of a      *)
(* cycle between two demotions.                                             *)
(***************************************************************************)
EXTENDS Roles, FiniteSetTheorems, TLAPS

LocksHeld ==
  /\ \A c \in Calls : \A u \in req[c].admins : lock[u] = c /\ user[u].role = "admin"
  /\ \A c \in Calls : At(c, "decide") => req[c].target \in Users /\ lock[req[c].target] = c

LocksOrdered ==
  /\ \A c \in Calls, u \in Users : lock[u] = c => pc[c] \in {"lock_admins", "decide"}
  /\ \A c \in Calls, u \in Users :
       At(c, "lock_admins") /\ lock[u] = c => \A v \in req[c].todo : u < v

RolesInv == TypeOK /\ MembersHaveTerms /\ LocksHeld /\ LocksOrdered

LEMMA NoneIsNobody == None \notin Calls /\ None \notin Users /\ Users \subseteq Int
BY RolesAssumption

LEMMA NoReqFits == NoReq \in Req
BY DEF NoReq, Req, UserRoles

(* A transaction that ends, having perhaps written the row it holds. *)
LEMMA FinishFrees ==
  ASSUME TypeOK, NEW c \in Calls, Finish(c)
  PROVE  /\ pc'[c] = "idle" /\ \A d \in Calls \ {c} : pc'[d] = pc[d]
         /\ req'[c] = NoReq /\ \A d \in Calls \ {c} : req'[d] = req[d]
         /\ \A u \in Users : lock'[u] = IF lock[u] = c THEN None ELSE lock[u]
BY DEF Finish, Goto, TypeOK

LEMMA FinishTypes ==
  ASSUME TypeOK, NEW c \in Calls, Finish(c), user' \in [Users -> UserRow] PROVE TypeOK'
BY NoReqFits DEF TypeOK, Finish, Goto

LEMMA FinishKeepsLocks ==
  ASSUME RolesInv, NEW c \in Calls, Finish(c),
         \A d \in Calls \ {c} : \A u \in req[d].admins : user'[u] = user[u]
  PROVE  LocksHeld' /\ LocksOrdered'
<1> USE DEF RolesInv
<1>1. /\ pc'[c] = "idle" /\ \A d \in Calls \ {c} : pc'[d] = pc[d]
      /\ req'[c] = NoReq /\ \A d \in Calls \ {c} : req'[d] = req[d]
      /\ \A u \in Users : lock'[u] = IF lock[u] = c THEN None ELSE lock[u]
  BY FinishFrees
<1>2. \A d \in Calls : req[d].admins \subseteq Users
  BY DEF TypeOK, Req
<1>3. ASSUME NEW d \in Calls, NEW u \in req'[d].admins
      PROVE  lock'[u] = d /\ user'[u].role = "admin"
  <2>1. d # c /\ u \in req[d].admins /\ u \in Users
    BY <1>1, <1>2, <1>3 DEF NoReq
  <2> QED
    BY <1>1, <2>1 DEF LocksHeld
<1>4. ASSUME NEW d \in Calls, At(d, "decide")'
      PROVE  req'[d].target \in Users /\ lock'[req'[d].target] = d
  BY <1>1, <1>4 DEF LocksHeld, At
<1>5. ASSUME NEW d \in Calls, NEW u \in Users, lock'[u] = d PROVE d # c /\ lock[u] = d
  BY <1>1, <1>5, NoneIsNobody
<1>6. \A d \in Calls, u \in Users : lock'[u] = d => pc'[d] \in {"lock_admins", "decide"}
  BY <1>1, <1>5 DEF LocksOrdered
<1>7. \A d \in Calls, u \in Users :
        At(d, "lock_admins")' /\ lock'[u] = d => \A v \in req'[d].todo : u < v
  BY <1>1, <1>5 DEF LocksOrdered, At
<1> QED
  BY <1>3, <1>4, <1>6, <1>7 DEF LocksHeld, LocksOrdered

-----------------------------------------------------------------------------
(* The invariant is kept, action by action. *)

LEMMA CountKeeps ==
  ASSUME RolesInv, NEW c \in Calls, CountAdmins(c) PROVE RolesInv'
<1> USE DEF RolesInv
<1>1. pc'[c] = "bootstrap" /\ \A d \in Calls \ {c} : pc'[d] = pc[d]
  BY DEF CountAdmins, Goto, TypeOK
<1>2. UNCHANGED <<user, lock, req>> /\ pc[c] = "idle"
  BY DEF CountAdmins, At
<1>3. TypeOK' /\ MembersHaveTerms'
  BY <1>2 DEF TypeOK, MembersHaveTerms, CountAdmins, Goto
<1>4. LocksHeld'
  BY <1>1, <1>2 DEF LocksHeld, At
<1>5. \A u \in Users : lock[u] # c
  BY <1>2 DEF LocksOrdered
<1>6. LocksOrdered'
  BY <1>1, <1>2, <1>5 DEF LocksOrdered, At
<1> QED
  BY <1>3, <1>4, <1>6

LEMMA InsertKeeps ==
  ASSUME RolesInv, NEW c \in Calls, InsertFirstAdmin(c) PROVE RolesInv'
<1> USE DEF RolesInv
<1>1. PICK u \in Users \ Known : user' = [user EXCEPT ![u].role = "admin"]
  BY DEF InsertFirstAdmin
<1>2. \A v \in Users \ {u} : user'[v] = user[v]
  BY <1>1 DEF TypeOK
<1>3. user[u].role = "none"
  BY DEF Known
<1>4. user' \in [Users -> UserRow] /\ user'[u].role = "admin"
  BY <1>1 DEF TypeOK, UserRow, UserRoles, StaffRoles
<1>5. MembersHaveTerms'
  BY <1>2, <1>4 DEF MembersHaveTerms
<1>6. \A d \in Calls : \A v \in req[d].admins : v \in Users /\ v # u
  BY <1>3 DEF LocksHeld, TypeOK, Req
<1>7. LocksHeld' /\ LocksOrdered'
  BY <1>2, <1>6, FinishKeepsLocks DEF InsertFirstAdmin
<1>8. TypeOK'
  BY <1>4, FinishTypes DEF InsertFirstAdmin
<1> QED
  BY <1>5, <1>7, <1>8

LEMMA CreateKeeps ==
  ASSUME RolesInv, NEW u \in Users, Create(u) PROVE RolesInv'
<1> USE DEF RolesInv
<1>1. PICK role \in UserRoles : user' = [user EXCEPT ![u] = [role |-> role, category |-> role = "member"]]
  BY DEF Create, CreatableBy, UserRoles
<1>2. UNCHANGED <<lock, pc, req>> /\ user[u].role = "none"
  BY DEF Create, Known
<1>3. \A v \in Users \ {u} : user'[v] = user[v]
  BY <1>1 DEF TypeOK
<1>4. user'[u] = [role |-> role, category |-> role = "member"]
  BY <1>1 DEF TypeOK
<1>5. user' \in [Users -> UserRow]
  BY <1>1, <1>3, <1>4 DEF TypeOK, UserRow
<1>6. MembersHaveTerms'
  <2>1. user'[u].role = role /\ user'[u].category = (role = "member")
    BY <1>4
  <2>2. user'[u].role = "member" => user'[u].category
    BY <2>1, Zenon
  <2>3. \A v \in Users \ {u} : user'[v].role = "member" => user'[v].category
    BY <1>3 DEF MembersHaveTerms
  <2> QED
    BY <2>2, <2>3 DEF MembersHaveTerms
<1>7. \A d \in Calls : \A v \in req[d].admins : v \in Users /\ v # u
  BY <1>2 DEF LocksHeld, TypeOK, Req
<1>8. LocksHeld'
  BY <1>2, <1>3, <1>7 DEF LocksHeld, At
<1>9. LocksOrdered' /\ TypeOK'
  BY <1>2, <1>5 DEF LocksOrdered, At, TypeOK
<1> QED
  BY <1>6, <1>8, <1>9

LEMMA SetRoleKeeps ==
  ASSUME RolesInv, NEW c \in Calls, SetRole(c) PROVE RolesInv'
<1> USE DEF RolesInv
<1>1. PICK r \in RoleRequests : req' = [req EXCEPT ![c] = r]
  BY DEF SetRole
<1>2. r \in Req /\ r.admins = {}
  BY DEF RoleRequests, Req, Admins
<1>3. /\ UNCHANGED <<user, lock>> /\ pc[c] = "idle"
      /\ pc'[c] = "lock_admins" /\ \A d \in Calls \ {c} : pc'[d] = pc[d]
      /\ req'[c] = r /\ \A d \in Calls \ {c} : req'[d] = req[d]
  BY <1>1 DEF SetRole, At, Goto, TypeOK
<1>4. TypeOK' /\ MembersHaveTerms'
  BY <1>1, <1>2, <1>3 DEF TypeOK, MembersHaveTerms, SetRole, Goto
<1>5. LocksHeld'
  BY <1>2, <1>3 DEF LocksHeld, At
<1>6. \A u \in Users : lock[u] # c
  BY <1>3 DEF LocksOrdered
<1>7. LocksOrdered'
  BY <1>3, <1>6 DEF LocksOrdered, At
<1> QED
  BY <1>4, <1>5, <1>7

LEMMA LockAdminKeeps ==
  ASSUME RolesInv, NEW c \in Calls, LockAdmin(c) PROVE RolesInv'
<1> USE DEF RolesInv
<1>1. PICK u \in FirstOf(req[c].todo) :
        /\ lock[u] = None
        /\ lock' = [lock EXCEPT ![u] = c]
        /\ req' = [req EXCEPT ![c].todo = @ \ {u}, ![c].admins = @ \cup Counted(u)]
  BY DEF LockAdmin
<1>2. UNCHANGED <<user, pc>> /\ pc[c] = "lock_admins"
  BY DEF LockAdmin, At
<1>3. req[c] \in Req /\ u \in req[c].todo /\ u \in Users
  BY DEF TypeOK, Req, FirstOf
<1>4. /\ req'[c].todo = req[c].todo \ {u}
      /\ req'[c].admins = req[c].admins \cup Counted(u)
      /\ req'[c].target = req[c].target
      /\ \A d \in Calls \ {c} : req'[d] = req[d]
      /\ req' \in [Calls -> Req]
  <2>1. Counted(u) \subseteq Users
    BY <1>3 DEF Counted, StillAdmin, Admins
  <2>2. req'[c] = [req[c] EXCEPT !.todo = @ \ {u}, !.admins = @ \cup Counted(u)]
    BY <1>1 DEF TypeOK
  <2>3. req'[c] \in Req
    BY <1>3, <2>1, <2>2 DEF Req
  <2> QED
    BY <1>1, <1>3, <2>2, <2>3 DEF TypeOK, Req
<1>5. lock'[u] = c /\ \A v \in Users \ {u} : lock'[v] = lock[v]
  BY <1>1, <1>3 DEF TypeOK
<1>6. TypeOK' /\ MembersHaveTerms'
  BY <1>1, <1>2, <1>4 DEF TypeOK, MembersHaveTerms
<1>7. LocksHeld'
  <2>1. ASSUME NEW d \in Calls, NEW v \in req'[d].admins
        PROVE  lock'[v] = d /\ user'[v].role = "admin"
    <3>1. CASE v \in req[d].admins
      <4>1. v # u /\ v \in Users
        BY <1>1, <3>1, NoneIsNobody DEF LocksHeld, TypeOK, Req
      <4> QED
        BY <1>2, <1>5, <3>1, <4>1 DEF LocksHeld
    <3>2. CASE v \notin req[d].admins
      <4>1. d = c /\ v = u /\ v \in Admins
        BY <1>4, <2>1, <3>2 DEF Counted, StillAdmin
      <4> QED
        BY <1>2, <1>5, <4>1 DEF Admins
    <3> QED
      BY <3>1, <3>2
  <2>2. ASSUME NEW d \in Calls, At(d, "decide")'
        PROVE  req'[d].target \in Users /\ lock'[req'[d].target] = d
    <3>1. d # c /\ req'[d] = req[d] /\ At(d, "decide")
      BY <1>2, <1>4, <2>2 DEF At
    <3>2. req[d].target \in Users /\ lock[req[d].target] = d /\ req[d].target # u
      BY <1>1, <3>1, NoneIsNobody DEF LocksHeld
    <3> QED
      BY <1>5, <3>1, <3>2
  <2> QED
    BY <2>1, <2>2 DEF LocksHeld
<1>8. LocksOrdered'
  <2>1. ASSUME NEW d \in Calls, NEW v \in Users, lock'[v] = d
        PROVE  pc'[d] \in {"lock_admins", "decide"}
    BY <1>2, <1>5, <2>1 DEF LocksOrdered
  <2>2. ASSUME NEW d \in Calls, NEW v \in Users, At(d, "lock_admins")', lock'[v] = d,
               NEW w \in req'[d].todo
        PROVE  v < w
    <3>1. w \in req[d].todo /\ At(d, "lock_admins")
      BY <1>2, <1>4, <2>2 DEF At
    <3>2. CASE v = u
      <4>1. d = c /\ w # u
        BY <1>4, <1>5, <2>2, <3>2
      <4>2. u <= w /\ u \in Int /\ w \in Int
        BY <1>3, <3>1, <4>1, NoneIsNobody DEF FirstOf, TypeOK, Req
      <4> QED
        BY <3>2, <4>1, <4>2
    <3>3. CASE v # u
      BY <1>5, <2>2, <3>1, <3>3 DEF LocksOrdered
    <3> QED
      BY <3>2, <3>3
  <2> QED
    BY <2>1, <2>2 DEF LocksOrdered
<1> QED
  BY <1>6, <1>7, <1>8

LEMMA LockTargetKeeps ==
  ASSUME RolesInv, NEW c \in Calls, LockTarget(c) PROVE RolesInv'
<1> USE DEF RolesInv
<1> DEFINE u == req[c].target
<1>1. /\ u \in Users /\ lock[u] \in {None, c}
      /\ lock'[u] = c /\ \A v \in Users \ {u} : lock'[v] = lock[v]
      /\ pc[c] = "lock_admins" /\ pc'[c] = "decide" /\ \A d \in Calls \ {c} : pc'[d] = pc[d]
      /\ UNCHANGED <<user, req>>
  BY DEF LockTarget, Known, At, Goto, TypeOK
<1>2. TypeOK' /\ MembersHaveTerms'
  BY <1>1 DEF TypeOK, MembersHaveTerms, LockTarget, Goto
<1>3. LocksHeld'
  <2>1. ASSUME NEW d \in Calls, NEW v \in req[d].admins
        PROVE  lock'[v] = d /\ user[v].role = "admin"
    <3>1. lock[v] = d /\ user[v].role = "admin" /\ v \in Users
      BY DEF LocksHeld, TypeOK, Req
    <3> QED
      BY <1>1, <3>1, NoneIsNobody
  <2>2. ASSUME NEW d \in Calls, At(d, "decide")'
        PROVE  req[d].target \in Users /\ lock'[req[d].target] = d
    <3>1. CASE d = c
      BY <1>1, <3>1
    <3>2. CASE d # c
      <4>1. req[d].target \in Users /\ lock[req[d].target] = d
        BY <1>1, <2>2, <3>2 DEF LocksHeld, At
      <4>2. req[d].target # u
        BY <1>1, <3>2, <4>1, NoneIsNobody
      <4> QED
        BY <1>1, <4>1, <4>2
    <3> QED
      BY <3>1, <3>2
  <2> QED
    BY <1>1, <2>1, <2>2 DEF LocksHeld
<1>4. LocksOrdered'
  BY <1>1 DEF LocksOrdered, At
<1> QED
  BY <1>2, <1>3, <1>4

LEMMA UpdateKeeps ==
  ASSUME RolesInv, NEW c \in Calls, UpdateRole(c) PROVE RolesInv'
<1> USE DEF RolesInv
<1> DEFINE u == req[c].target
<1>1. u \in Users /\ lock[u] = c /\ user' = [user EXCEPT ![u] = Resolved(c)]
  BY DEF UpdateRole, LocksHeld
<1>2. user'[u] = Resolved(c) /\ \A v \in Users \ {u} : user'[v] = user[v]
  BY <1>1 DEF TypeOK
<1>3. Resolved(c) \in UserRow
  BY <1>1 DEF Resolved, TypeOK, UserRow, Req
<1>4. user' \in [Users -> UserRow]
  BY <1>1, <1>3 DEF TypeOK
<1>5. TypeOK'
  BY <1>4, FinishTypes DEF UpdateRole
<1>6. MembersHaveTerms'
  BY <1>2 DEF MembersHaveTerms, UpdateRole, Allowed, IfMember, Resolved
<1>7. \A d \in Calls \ {c} : \A v \in req[d].admins : v \in Users /\ v # u
  BY <1>1 DEF LocksHeld, TypeOK, Req
<1>8. LocksHeld' /\ LocksOrdered'
  BY <1>2, <1>7, FinishKeepsLocks DEF UpdateRole
<1> QED
  BY <1>5, <1>6, <1>8

LEMMA RollbackKeeps ==
  ASSUME RolesInv, NEW c \in Calls, Rollback(c) PROVE RolesInv'
<1> USE DEF RolesInv
<1>1. TypeOK'
  BY FinishTypes DEF Rollback, TypeOK
<1>2. LocksHeld' /\ LocksOrdered'
  BY FinishKeepsLocks DEF Rollback
<1>3. MembersHaveTerms'
  BY DEF Rollback, MembersHaveTerms
<1> QED
  BY <1>1, <1>2, <1>3

LEMMA RolesStep == RolesInv /\ [Next]_vars => RolesInv'
<1> SUFFICES ASSUME RolesInv, [Next]_vars PROVE RolesInv'
  OBVIOUS
<1>1. ASSUME NEW c \in Calls, Step(c) PROVE RolesInv'
  BY <1>1, CountKeeps, InsertKeeps, SetRoleKeeps, LockAdminKeeps, LockTargetKeeps, UpdateKeeps,
     RollbackKeeps DEF Step
<1>2. CASE UNCHANGED vars
  BY <1>2 DEF vars, RolesInv, TypeOK, MembersHaveTerms, LocksHeld, LocksOrdered, At
<1> QED
  BY <1>1, <1>2, CreateKeeps DEF Next

LEMMA RolesStart == Init => RolesInv
<1> SUFFICES ASSUME Init PROVE RolesInv
  OBVIOUS
<1>1. TypeOK
  BY NoReqFits DEF Init, TypeOK, NoUser, UserRow
<1>2. MembersHaveTerms
  BY DEF Init, MembersHaveTerms, NoUser
<1>3. LocksHeld /\ LocksOrdered
  BY NoneIsNobody DEF Init, LocksHeld, LocksOrdered, NoReq, At
<1> QED
  BY <1>1, <1>2, <1>3 DEF RolesInv

LEMMA AlwaysRolesInv == Spec => []RolesInv
BY RolesStart, RolesStep, PTL DEF Spec

-----------------------------------------------------------------------------
(* Every column, lock and call keeps its type. *)
THEOREM RoleTypesKept == Spec => []TypeOK
<1>1. RolesInv => TypeOK
  BY DEF RolesInv
<1> QED
  BY <1>1, AlwaysRolesInv, PTL

(* An account that is made a member, however it came to be one, has the terms *)
(* it borrows on. *)
THEOREM TermsKept == Spec => []MembersHaveTerms
<1>1. RolesInv => MembersHaveTerms
  BY DEF RolesInv
<1> QED
  BY <1>1, AlwaysRolesInv, PTL

(* Two demotions, with any number of administrators, never wait for each other: *)
(* what each has locked comes before what it waits for. *)
THEOREM DemotionsKept == Spec => []DemotionsDoNotDeadlock
<1>1. RolesInv => DemotionsDoNotDeadlock
  <2> SUFFICES ASSUME RolesInv, NEW c \in Calls, NEW d \in Calls, c # d, Demotes(c), Demotes(d),
                      Blocks(c, d), Blocks(d, c)
               PROVE  FALSE
    BY DEF DemotionsDoNotDeadlock
  <2>1. ASSUME NEW a \in Calls, NEW b \in Calls, a # b, Demotes(a), Blocks(a, b)
        PROVE  \E u \in req[a].todo : u \in Users /\ lock[u] = b /\ At(a, "lock_admins")
    <3>1. PICK u \in Users : WaitsFor(a, u) /\ lock[u] = b
      BY <2>1 DEF Blocks
    <3>2. CASE req[a].todo = {}
      <4>1. u \in req[a].admins
        BY <2>1, <3>1, <3>2 DEF WaitsFor, Demotes
      <4> QED
        BY <2>1, <3>1, <4>1 DEF RolesInv, LocksHeld
    <3>3. CASE req[a].todo # {}
      BY <3>1, <3>3 DEF WaitsFor, FirstOf
    <3> QED
      BY <3>2, <3>3
  <2>2. PICK u \in req[c].todo : u \in Users /\ lock[u] = d /\ At(c, "lock_admins")
    BY <2>1
  <2>3. PICK v \in req[d].todo : v \in Users /\ lock[v] = c /\ At(d, "lock_admins")
    BY <2>1
  <2>4. u < v /\ v < u
    BY <2>2, <2>3 DEF RolesInv, LocksOrdered
  <2>5. u \in Int /\ v \in Int
    BY <2>2, <2>3, NoneIsNobody
  <2> QED
    BY <2>4, <2>5
<1> QED
  BY <1>1, AlwaysRolesInv, PTL

-----------------------------------------------------------------------------
(* Of two administrators a demotion has counted, one is not its target. *)
LEMMA AnotherIsCounted ==
  ASSUME NEW S, NEW u, Cardinality(S) > 1 PROVE \E v \in S : v # u
<1> SUFFICES ASSUME \A v \in S : v = u PROVE FALSE
  OBVIOUS
<1>1. S = {} \/ S = {u}
  OBVIOUS
<1>2. Cardinality({}) = 0 /\ Cardinality({u}) = 1
  BY FS_EmptySet, FS_Singleton
<1> QED
  BY <1>1, <1>2

(* However many administrators are demoted at once, one remains: whoever demotes *)
(* one of them holds the row of another, which nobody else can demote. *)
THEOREM AdministratorKept == Spec => AdministratorRemains
<1>1. RolesInv /\ [Next]_vars => [Admins # {} => Admins' # {}]_vars
  <2> SUFFICES ASSUME RolesInv, Next, NEW a \in Admins PROVE Admins' # {}
    BY DEF vars
  <2>1. \A u \in Users : user'[u].role = "admin" => u \in Admins'
    BY DEF Admins
  <2>2. a \in Users /\ user[a].role = "admin" /\ a \in Known
    BY DEF Admins, Known
  <2>3. ASSUME NEW c \in Calls, UpdateRole(c) PROVE Admins' # {}
    <3> DEFINE u == req[c].target
    <3>1. u \in Users /\ user'[u] = Resolved(c) /\ \A v \in Users \ {u} : user'[v] = user[v]
      BY <2>3 DEF UpdateRole, RolesInv, LocksHeld, TypeOK
    <3>2. CASE user[u].role = "admin" /\ req[c].role # "admin"
      <4>1. PICK v \in req[c].admins : v # u
        BY <2>3, <3>2, AnotherIsCounted DEF UpdateRole, Allowed, LeavesAdmin
      <4>2. v \in Users /\ user[v].role = "admin"
        BY DEF RolesInv, LocksHeld, TypeOK, Req
      <4> QED
        BY <2>1, <3>1, <4>1, <4>2
    <3>3. CASE user[u].role # "admin"
      BY <2>1, <2>2, <3>1, <3>3
    <3>4. CASE req[c].role = "admin"
      BY <2>1, <3>1, <3>4 DEF Resolved
    <3> QED
      BY <3>2, <3>3, <3>4
  <2>4. ASSUME NEW c \in Calls, InsertFirstAdmin(c) PROVE Admins' # {}
    BY <2>1, <2>2, <2>4 DEF InsertFirstAdmin, RolesInv, TypeOK
  <2>5. ASSUME NEW u \in Users, Create(u) PROVE Admins' # {}
    BY <2>1, <2>2, <2>5 DEF Create, RolesInv, TypeOK
  <2>6. ASSUME UNCHANGED user PROVE Admins' # {}
    BY <2>1, <2>2, <2>6
  <2> QED
    BY <2>3, <2>4, <2>5, <2>6
    DEF Next, Step, CountAdmins, SetRole, LockAdmin, LockTarget, Rollback
<1> QED
  BY <1>1, AlwaysRolesInv, PTL DEF Spec, AdministratorRemains
=============================================================================
