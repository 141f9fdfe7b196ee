---------------------------- MODULE LoanRegister ----------------------------
(***************************************************************************)
(* What circulation promises, with no transactions, locks or tables: a      *)
(* register that says who holds each copy.  Issuing a copy and taking it     *)
(* back are single steps, a copy is issued only when nobody holds it, and    *)
(* only to a member who holds fewer copies than they are entitled to.        *)
(***************************************************************************)
EXTENDS Naturals, FiniteSets

CONSTANTS Copies, Members, None

VARIABLES holder,       \* who has each copy, None when nobody has
          entitlement   \* the most copies each member may hold

registerVars == <<holder, entitlement>>

HeldBy(m) == {c \in Copies : holder[c] = m}

RegisterInit ==
  /\ holder = [c \in Copies |-> None]
  /\ entitlement \in [Members -> Nat]

Issue(c, m) ==
  /\ holder[c] = None
  /\ Cardinality(HeldBy(m)) < entitlement[m]
  /\ holder' = [holder EXCEPT ![c] = m]
  /\ UNCHANGED entitlement

TakeBack(c) ==
  /\ holder[c] # None
  /\ holder' = [holder EXCEPT ![c] = None]
  /\ UNCHANGED entitlement

Raise(m) ==
  /\ entitlement'[m] \in Nat
  /\ entitlement'[m] > entitlement[m]
  /\ entitlement' = [entitlement EXCEPT ![m] = entitlement'[m]]
  /\ UNCHANGED holder

RegisterNext ==
  \/ \E c \in Copies : TakeBack(c) \/ \E m \in Members : Issue(c, m)
  \/ \E m \in Members : Raise(m)

RegisterSpec == RegisterInit /\ [][RegisterNext]_registerVars
=============================================================================
