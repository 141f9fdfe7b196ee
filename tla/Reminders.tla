----------------------------- MODULE Reminders -----------------------------
(***************************************************************************)
(* Due-date reminders, from the schedule to the mail provider: the hourly   *)
(* pass that lists the open loans and queues a notice for each one due soon *)
(* or overdue, the drain loop that claims the queue, and the check, made    *)
(* just before a notice goes out, that the book is still with the member.   *)
(*                                                                         *)
(* Every running container has a schedule and a drain loop of its own.  Rows *)
(* of the outbox that say the same thing are one notice here, the batch is  *)
(* never too small for the queue, and every address is deliverable: module  *)
(* Outbox has the rows, the batches and the addresses.                      *)
(***************************************************************************)
EXTENDS Integers, Sequences, FiniteSets, SequencesExt

CONSTANTS
  Instances,   \* running containers
  Loans,       \* loans.id; numbers, so that ties have an order
  Term,        \* days between issue and due date
  Window,      \* how long before the due date a reminder is raised
  ListLimit,   \* how many loans one pass looks at: 500
  MaxClock,    \* bound: days
  MaxFaults,   \* bound: restarts, failed statements and failed sends
  None

ASSUME RemindersAssumption ==
  /\ IsFiniteSet(Instances)
  /\ Loans \subseteq Int
  /\ Term \in Nat /\ Window \in Nat /\ ListLimit \in Nat
  /\ MaxClock \in Nat /\ MaxFaults \in Nat
  /\ None \notin Loans

VARIABLES
  clock,      \* now
  loan,       \* the loans table
  list,       \* the notices a pass has yet to queue
  pending,    \* outbox rows awaiting delivery
  batch,      \* rows a drain loop has claimed and not begun
  hand,       \* the notice it has found relevant and is about to send
  chased,     \* history: loans an overdue notice was sent about
  late,       \* history: how many were sent after its return
  faults      \* history: how many faults there have been

world  == <<clock, loan>>
memory == <<list, batch, hand>>
past   == <<chased, late, faults>>
vars   == <<world, memory, pending, past>>

Open(l) == loan[l].state = "open"

(* Overdue is computed from the clock, never stored. *)
IsOverdue(l) == Open(l) /\ clock > loan[l].due

(* ORDER BY due_at, id LIMIT 500 over the open loans. *)
DueFirst(a, b) == \/ loan[a].due < loan[b].due
                  \/ loan[a].due = loan[b].due /\ a < b
ListLoans ==
  LET listed == SetToSortSeq({l \in Loans : Open(l)}, DueFirst)
  IN  SubSeq(listed, 1, IF Len(listed) < ListLimit THEN Len(listed) ELSE ListLimit)

(* Which notice a loan calls for; mutant: only those still to come due. *)
DueSoonOnly(l) == IF loan[l].due - clock \in 0 .. Window THEN "due_soon" ELSE None
Notice(l) ==
  IF IsOverdue(l) THEN "overdue"
  ELSE IF loan[l].due - clock <= Window THEN "due_soon"
  ELSE None

-----------------------------------------------------------------------------
(* Members and time.  The bound on the clock leaves out loans that could not   *)
(* become overdue within it. *)

BorrowCopy(l) ==
  /\ loan[l].state = "unused"
  /\ clock + Term < MaxClock
  /\ loan' = [loan EXCEPT ![l] = [state |-> "open", due |-> clock + Term]]
  /\ UNCHANGED <<clock, memory, pending, past>>

ReturnCopy(l) ==
  /\ Open(l)
  /\ loan' = [loan EXCEPT ![l].state = "returned"]
  /\ UNCHANGED <<clock, memory, pending, past>>

Tick ==
  /\ clock < MaxClock
  /\ clock' = clock + 1
  /\ UNCHANGED <<loan, memory, pending, past>>

-----------------------------------------------------------------------------
(* The schedule. *)

(* One pass: on start-up, then every hour.  The list and the time are read    *)
(* once; the loop works from what was read. *)
NotifyDueSoon(i) ==
  LET calls == [k \in 1 .. Len(ListLoans) |-> [loan |-> ListLoans[k], kind |-> Notice(ListLoans[k])]]
  IN  /\ list[i] = <<>>
      /\ list' = [list EXCEPT ![i] = SelectSeq(calls, LAMBDA n : n.kind # None)]
      /\ list'[i] # <<>>
      /\ UNCHANGED <<world, batch, hand, pending, past>>

(* Nothing asks whether the last pass has queued the same notice. *)
Queue(i) ==
  /\ list[i] # <<>>
  /\ pending' = pending \cup {Head(list[i])}
  /\ list' = [list EXCEPT ![i] = Tail(@)]
  /\ UNCHANGED <<world, batch, hand, past>>

-----------------------------------------------------------------------------
(* The drain loop. *)

Pending(i) ==
  /\ batch[i] = {} /\ hand[i] = None /\ pending # {}
  /\ batch' = [batch EXCEPT ![i] = pending]
  /\ pending' = {}
  /\ UNCHANGED <<world, list, hand, past>>

(* Asked again for every notice, just before it is sent; mutant: not asked. *)
AsQueued(n) == TRUE
StillRelevant(n) == Open(n.loan)

(* A notice that no longer holds is superseded. *)
Deliver(i) ==
  /\ hand[i] = None
  /\ \E n \in batch[i] :
       /\ batch' = [batch EXCEPT ![i] = @ \ {n}]
       /\ hand' = [hand EXCEPT ![i] = IF StillRelevant(n) THEN n ELSE None]
  /\ UNCHANGED <<world, list, pending, past>>

(* The provider has the notice, whether or not MarkSent follows. *)
Send(i) ==
  /\ hand[i] # None
  /\ chased' = chased \cup IF hand[i].kind = "overdue" THEN {hand[i].loan} ELSE {}
  /\ late' = [late EXCEPT ![hand[i].loan] = IF Open(hand[i].loan) THEN @ ELSE @ + 1]
  /\ hand' = [hand EXCEPT ![i] = None]
  /\ UNCHANGED <<world, list, batch, pending, faults>>

-----------------------------------------------------------------------------
(* Faults, finitely many. *)

Fault ==
  /\ faults < MaxFaults
  /\ faults' = faults + 1
  /\ UNCHANGED <<world, chased, late>>

(* A notice cannot be queued: the pass ends, its remaining loans with it. *)
PassFails(i) ==
  /\ Fault
  /\ list[i] # <<>>
  /\ list' = [list EXCEPT ![i] = <<>>]
  /\ UNCHANGED <<batch, hand, pending>>

(* The provider fails: the row is pending again, or given up. *)
MarkFailed(i) ==
  /\ Fault
  /\ hand[i] # None
  /\ pending' \in {pending, pending \cup {hand[i]}}
  /\ hand' = [hand EXCEPT ![i] = None]
  /\ UNCHANGED <<list, batch>>

(* A check that cannot be read has its notice superseded, and a lost answer of *)
(* the claim leaves rows claimed that nobody takes up: either way the notice   *)
(* is gone until a pass queues another.                                        *)
Strand(i) ==
  /\ Fault
  /\ batch[i] # {} /\ hand[i] = None
  /\ \E lost \in {batch[i]} \cup {{n} : n \in batch[i]} :
       batch' = [batch EXCEPT ![i] = @ \ lost]
  /\ UNCHANGED <<list, hand, pending>>

(* The container stops and is started again; until it is, it takes no step. *)
Restart(i) ==
  /\ Fault
  /\ list' = [list EXCEPT ![i] = <<>>]
  /\ batch' = [batch EXCEPT ![i] = {}]
  /\ hand' = [hand EXCEPT ![i] = None]
  /\ UNCHANGED pending

-----------------------------------------------------------------------------
Init ==
  /\ clock = 0
  /\ loan = [l \in Loans |-> [state |-> "unused", due |-> 0]]
  /\ list = [i \in Instances |-> <<>>]
  /\ pending = {}
  /\ batch = [i \in Instances |-> {}]
  /\ hand = [i \in Instances |-> None]
  /\ chased = {}
  /\ late = [l \in Loans |-> 0]
  /\ faults = 0

RunSchedule(i) == NotifyDueSoon(i) \/ Queue(i)
Drain(i) == Pending(i) \/ Deliver(i) \/ Send(i)

Next ==
  \/ Tick
  \/ \E l \in Loans : BorrowCopy(l) \/ ReturnCopy(l)
  \/ \E i \in Instances : \/ RunSchedule(i) \/ Drain(i)
                          \/ PassFails(i) \/ MarkFailed(i) \/ Strand(i) \/ Restart(i)

(* A container that runs keeps making passes over the loans and the queue;    *)
(* nothing makes a member bring a book back. *)
Fairness == \A i \in Instances : WF_vars(RunSchedule(i)) /\ WF_vars(Drain(i))

Spec == Init /\ [][Next]_vars /\ Fairness

-----------------------------------------------------------------------------
(* "A member who returned the book must not be chased for it": the check and  *)
(* the send are two steps, so a drain loop may be caught between them once,   *)
(* and never again after the return, whatever it had claimed, whatever the    *)
(* schedules queue from the lists they had read, faults and restarts included. *)
QuietAfterReturn == \A l \in Loans : late[l] <= Cardinality(Instances)

(* An overdue loan among the ones a pass looks at is chased, unless it comes   *)
(* back or falls behind the limit first, although rows are stranded, sends     *)
(* given up and passes cut short: the next pass queues what the last one lost. *)
OverdueIsChased ==
  \A l \in Loans :
    IsOverdue(l) /\ l \in ToSet(ListLoans)
      ~> l \in chased \/ l \notin ToSet(ListLoans)

(* The comment on NotifyDueSoon, "a reminder is never sent against a stale     *)
(* value", which holds of the pass and not of the queue: a notice that the     *)
(* book is due soon may wait until it is overdue.  No run checks it. *)
NoStaleReminder ==
  [][\A i \in Instances :
       hand[i] # None /\ Send(i) /\ hand[i].kind = "due_soon" => ~ IsOverdue(hand[i].loan)]_vars
=============================================================================
