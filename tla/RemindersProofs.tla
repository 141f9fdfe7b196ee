-------------------------- MODULE RemindersProofs --------------------------
(***************************************************************************)
(* A member who has brought the book back is not chased again and again, for *)
(* any number of containers, loans, faults and restarts.                    *)
(*                                                                         *)
(* A notice sent late was in the hands of a drain loop when the book came    *)
(* back, and each such loop sends it once: the notices sent late and those   *)
(* still held are together no more than the containers (Spent).             *)
(***************************************************************************)
EXTENDS Reminders, FiniteSetTheorems, TLAPS

(* The drain loops about to send a notice of the loan. *)
HeldBy(l) == {i \in Instances : hand[i] # None /\ hand[i].loan = l}

(* The notices of a loan sent late, and those that may yet be. *)
Spent(l) ==
  /\ loan[l].state \in {"unused", "open"} => late[l] = 0
  /\ loan[l].state = "unused" => HeldBy(l) = {}
  /\ loan[l].state = "returned" => late[l] + Cardinality(HeldBy(l)) <= Cardinality(Instances)

TypeOK ==
  /\ loan \in [Loans -> [state : {"unused", "open", "returned"}, due : Int]]
  /\ clock \in Int
  /\ late \in [Loans -> Nat]
  /\ DOMAIN hand = Instances

RemindersInv == TypeOK /\ \A l \in Loans : Spent(l)

-----------------------------------------------------------------------------

LEMMA HoldersAreFew ==
  ASSUME NEW l \in Loans
  PROVE  /\ IsFiniteSet(HeldBy(l)) /\ Cardinality(HeldBy(l)) \in Nat
         /\ Cardinality(HeldBy(l)) <= Cardinality(Instances)
         /\ Cardinality(Instances) \in Nat
<1>1. IsFiniteSet(Instances) /\ HeldBy(l) \subseteq Instances
  BY RemindersAssumption DEF HeldBy
<1> QED BY <1>1, FS_Subset, FS_CardinalityType

(* A drain loop that puts its notice down, without having sent it late. *)
LEMMA PutDown ==
  ASSUME RemindersInv, NEW i \in Instances, hand' = [hand EXCEPT ![i] = None],
         UNCHANGED <<clock, loan, late>>
  PROVE  RemindersInv'
<1>1. ASSUME NEW l \in Loans
      PROVE  Spent(l)'
  <2>1. HeldBy(l)' \subseteq HeldBy(l)
    BY DEF HeldBy, RemindersInv, TypeOK
  <2>2. /\ IsFiniteSet(HeldBy(l)) /\ Cardinality(HeldBy(l)) \in Nat
        /\ Cardinality(Instances) \in Nat
    BY HoldersAreFew
  <2>3. Cardinality(HeldBy(l)') \in Nat /\ Cardinality(HeldBy(l)') <= Cardinality(HeldBy(l))
    BY <2>1, <2>2, FS_Subset, FS_CardinalityType
  <2>4. late[l] \in Nat
    BY DEF RemindersInv, TypeOK
  <2> QED BY <2>1, <2>2, <2>3, <2>4 DEF RemindersInv, Spent
<1> QED BY <1>1 DEF RemindersInv, TypeOK

(* What leaves the loans, the hands and the history alone. *)
LEMMA NothingSent ==
  ASSUME RemindersInv, UNCHANGED <<loan, late, hand>>, clock' \in Int
  PROVE  RemindersInv'
BY DEF RemindersInv, TypeOK, Spent, HeldBy

LEMMA BorrowKeeps ==
  ASSUME RemindersInv, NEW l \in Loans, BorrowCopy(l)
  PROVE  RemindersInv'
<1>1. /\ loan[l].state = "unused" /\ UNCHANGED <<clock, hand, late>>
      /\ loan' = [loan EXCEPT ![l] = [state |-> "open", due |-> clock + Term]]
  BY DEF BorrowCopy, memory, past
<1>2. TypeOK'
  BY <1>1, RemindersAssumption DEF RemindersInv, TypeOK
<1>3. ASSUME NEW k \in Loans
      PROVE  Spent(k)'
  <2>1. late'[k] = late[k] /\ HeldBy(k)' = HeldBy(k)
    BY <1>1 DEF HeldBy
  <2>2. k # l => loan'[k] = loan[k]
    BY <1>1
  <2>3. loan'[l].state = "open" /\ late[l] = 0
    BY <1>1 DEF RemindersInv, TypeOK, Spent
  <2>4. CASE k = l
    BY <2>1, <2>3, <2>4 DEF Spent
  <2>5. CASE k # l
    BY <2>1, <2>2, <2>5 DEF RemindersInv, Spent
  <2> QED BY <2>4, <2>5
<1> QED BY <1>2, <1>3 DEF RemindersInv

(* The book comes back: as many may still be told as hold a notice. *)
LEMMA ReturnKeeps ==
  ASSUME RemindersInv, NEW l \in Loans, ReturnCopy(l)
  PROVE  RemindersInv'
<1>1. /\ loan[l].state = "open" /\ UNCHANGED <<clock, hand, late>>
      /\ loan' = [loan EXCEPT ![l].state = "returned"]
  BY DEF ReturnCopy, Open, memory, past
<1>2. TypeOK'
  BY <1>1 DEF RemindersInv, TypeOK
<1>3. ASSUME NEW k \in Loans
      PROVE  Spent(k)'
  <2>1. late'[k] = late[k] /\ HeldBy(k)' = HeldBy(k)
    BY <1>1 DEF HeldBy
  <2>2. CASE k = l
    <3>1. loan'[l].state = "returned" /\ late[l] = 0
      BY <1>1 DEF RemindersInv, TypeOK, Spent
    <3>2. /\ Cardinality(HeldBy(l)) \in Nat
          /\ Cardinality(HeldBy(l)) <= Cardinality(Instances)
      BY HoldersAreFew
    <3> QED BY <2>1, <2>2, <3>1, <3>2 DEF Spent
  <2>3. CASE k # l
    <3>1. loan'[k] = loan[k]
      BY <1>1, <2>3
    <3> QED BY <2>1, <3>1 DEF RemindersInv, Spent
  <2> QED BY <2>2, <2>3
<1> QED BY <1>2, <1>3 DEF RemindersInv

(* A notice is taken up only while its loan is open. *)
LEMMA DeliverKeeps ==
  ASSUME RemindersInv, NEW i \in Instances, Deliver(i)
  PROVE  RemindersInv'
<1>1. /\ hand[i] = None /\ UNCHANGED <<clock, loan, late>>
  BY DEF Deliver, world, past
<1>2. PICK n : hand' = [hand EXCEPT ![i] = IF StillRelevant(n) THEN n ELSE None]
  BY DEF Deliver
<1>3. TypeOK'
  BY <1>1, <1>2 DEF RemindersInv, TypeOK
<1>4. ASSUME NEW l \in Loans
      PROVE  Spent(l)'
  <2>1. CASE StillRelevant(n) /\ n.loan = l
    <3>1. loan'[l].state = "open" /\ late'[l] = 0
      BY <1>1, <2>1 DEF StillRelevant, Open, RemindersInv, TypeOK, Spent
    <3> QED BY <3>1 DEF Spent
  <2>2. CASE ~ (StillRelevant(n) /\ n.loan = l)
    <3>1. HeldBy(l)' = HeldBy(l)
      BY <1>1, <1>2, <2>2 DEF HeldBy, RemindersInv, TypeOK
    <3> QED BY <1>1, <3>1 DEF RemindersInv, Spent
  <2> QED BY <2>1, <2>2
<1> QED BY <1>3, <1>4 DEF RemindersInv

(* A notice that goes out late is no longer held. *)
LEMMA SendKeeps ==
  ASSUME RemindersInv, NEW i \in Instances, Send(i)
  PROVE  RemindersInv'
<1> DEFINE m == hand[i].loan
<1>1. /\ hand[i] # None /\ UNCHANGED <<clock, loan>>
      /\ late' = [late EXCEPT ![m] = IF Open(m) THEN @ ELSE @ + 1]
      /\ hand' = [hand EXCEPT ![i] = None]
  BY DEF Send, world
<1>2. TypeOK'
  <2>1. late \in [Loans -> Nat] /\ DOMAIN hand' = Instances
    BY <1>1 DEF RemindersInv, TypeOK
  <2>2. \A l \in Loans : late'[l] \in Nat
    BY <1>1, <2>1
  <2>3. late' \in [Loans -> Nat]
    BY <1>1, <2>1, <2>2
  <2> QED BY <1>1, <2>1, <2>3 DEF RemindersInv, TypeOK
<1>3. ASSUME NEW l \in Loans
      PROVE  Spent(l)'
  <2>1. /\ IsFiniteSet(HeldBy(l)) /\ Cardinality(HeldBy(l)) \in Nat
        /\ Cardinality(Instances) \in Nat /\ late[l] \in Nat
        /\ loan[l].state \in {"unused", "open", "returned"} /\ Spent(l)
    BY HoldersAreFew DEF RemindersInv, TypeOK
  <2>2. CASE l = m
    <3>1. i \in HeldBy(l) /\ HeldBy(l)' = HeldBy(l) \ {i}
      BY <1>1, <2>2 DEF HeldBy, RemindersInv, TypeOK
    <3>2. Cardinality(HeldBy(l)') = Cardinality(HeldBy(l)) - 1
      BY <2>1, <3>1, FS_RemoveElement
    <3>3. late'[l] = IF Open(l) THEN late[l] ELSE late[l] + 1
      BY <1>1, <2>2 DEF RemindersInv, TypeOK
    <3>4. CASE loan[l].state = "open"
      BY <1>1, <2>1, <3>3, <3>4 DEF Spent, Open
    <3>5. CASE loan[l].state = "returned"
      BY <1>1, <2>1, <3>2, <3>3, <3>5 DEF Spent, Open
    <3>6. CASE loan[l].state = "unused"
      BY <2>1, <3>1, <3>6 DEF Spent
    <3> QED BY <2>1, <3>4, <3>5, <3>6
  <2>3. CASE l # m
    <3>1. HeldBy(l)' = HeldBy(l)
      BY <1>1, <2>3 DEF HeldBy, RemindersInv, TypeOK
    <3>2. late'[l] = late[l]
      BY <1>1, <2>3 DEF RemindersInv, TypeOK
    <3> QED BY <1>1, <2>1, <3>1, <3>2 DEF Spent
  <2> QED BY <2>2, <2>3
<1> QED BY <1>2, <1>3 DEF RemindersInv

-----------------------------------------------------------------------------

LEMMA RemindersAtFirst == Init => RemindersInv
BY DEF Init, RemindersInv, TypeOK, Spent, HeldBy

LEMMA RemindersKept == RemindersInv /\ [Next]_vars => RemindersInv'
<1> SUFFICES ASSUME RemindersInv, [Next]_vars PROVE RemindersInv'
  OBVIOUS
<1>1. clock \in Int
  BY DEF RemindersInv, TypeOK
<1>2. CASE UNCHANGED vars
  BY <1>1, <1>2, NothingSent DEF vars, world, memory, past
<1>3. CASE Tick
  BY <1>1, <1>3, NothingSent DEF Tick, memory, past
<1>4. ASSUME NEW l \in Loans, BorrowCopy(l) \/ ReturnCopy(l)
      PROVE  RemindersInv'
  BY <1>4, BorrowKeeps, ReturnKeeps
<1>5. ASSUME NEW i \in Instances, NotifyDueSoon(i)
      PROVE  RemindersInv'
  BY <1>1, <1>5, NothingSent DEF NotifyDueSoon, world, past
<1>6. ASSUME NEW i \in Instances, Queue(i) \/ Pending(i) \/ PassFails(i) \/ Strand(i)
      PROVE  RemindersInv'
  BY <1>1, <1>6, NothingSent DEF Queue, Pending, PassFails, Strand, Fault, world, past
<1>7. ASSUME NEW i \in Instances, Deliver(i) \/ Send(i)
      PROVE  RemindersInv'
  BY <1>7, DeliverKeeps, SendKeeps
<1>8. ASSUME NEW i \in Instances, MarkFailed(i) \/ Restart(i)
      PROVE  RemindersInv'
  BY <1>8, PutDown DEF MarkFailed, Restart, Fault, world
<1> QED
  BY <1>2, <1>3, <1>4, <1>5, <1>6, <1>7, <1>8 DEF Next, RunSchedule, Drain

(* However many containers run, stop and start again, whatever each of them  *)
(* had claimed or listed, a member is told of a loan they have returned at   *)
(* most once by each (worker.go, the check before a delivery).               *)
THEOREM QuietKept == Spec => []QuietAfterReturn
<1>1. ASSUME RemindersInv
      PROVE  QuietAfterReturn
  <2> SUFFICES ASSUME NEW l \in Loans PROVE late[l] <= Cardinality(Instances)
    BY DEF QuietAfterReturn
  <2>1. /\ Cardinality(HeldBy(l)) \in Nat /\ Cardinality(Instances) \in Nat
        /\ late[l] \in Nat /\ Spent(l) /\ loan[l].state \in {"unused", "open", "returned"}
    BY <1>1, HoldersAreFew DEF RemindersInv, TypeOK
  <2> QED BY <2>1 DEF Spent
<1>2. RemindersInv /\ [Next]_vars => RemindersInv'
  BY RemindersKept
<1> QED BY <1>1, <1>2, RemindersAtFirst, PTL DEF Spec
=============================================================================
