---------------------------- MODULE Circulation ----------------------------
(***************************************************************************)
(* The circulation desk: copies, loans, member accounts and reservation     *)
(* queues, changed by requests that run at the same time against one        *)
(* PostgreSQL database in READ COMMITTED.                                   *)
(*                                                                         *)
(* A request (an element of Requests) is one HTTP handler call, or one pass *)
(* of the return hook, and moves through the statements of its transaction  *)
(* one action at a time.  The database variables hold COMMITTED data only:  *)
(* what a transaction has written and not committed is known from the row   *)
(* locks it holds, and a statement that needs a row locked by another       *)
(* request waits (its action is disabled) and then reads the row afresh.    *)
(* The statements of a transaction after the last one that can wait are one *)
(* action with its commit.  A request that is refused changes nothing and   *)
(* goes back to "idle"; a refusal before the first statement of its         *)
(* transaction is not a step at all.                                        *)
(***************************************************************************)
EXTENDS LibraryRules, FiniteSets

CONSTANTS
  Requests,     \* requests in flight at the same time
  Copies,       \* physical volumes, catalogued or yet to arrive
  Books,        \* titles
  BookOf,       \* the title of each copy
  Members,      \* borrower accounts
  Categories,   \* member categories
  MaxLoans,     \* how many loans each category may hold at once
  LoanIds,      \* bound: rows the loans table can hold
  MaxTickets,   \* bound: reservations that can ever be asked for
  Ops,          \* bound: the operations and faults this instance exercises
  Edits,        \* bound: the <<status, policy>> edits of a copy, None where unset
  None

AllOps == {"borrow", "return", "edit", "add", "reserve", "cancel", "expire",
           "set_status", "set_category", "abandon"}

ASSUME CirculationAssumption ==
  /\ BookOf \in [Copies -> Books]
  /\ MaxLoans \in [Categories -> Nat]
  /\ IsFiniteSet(LoanIds)
  /\ MaxTickets \in Nat
  /\ Ops \subseteq AllOps
  /\ Edits \subseteq (CopyStatus \cup {None}) \X (LoanPolicy \cup {None})
  /\ None \notin Requests \cup Copies \cup Members \cup Books \cup LoanIds \cup Nat

Tickets == 1 .. MaxTickets

VARIABLES
  status,       \* copies.status, "absent" before the copy is registered
  policy,       \* copies.loan_policy
  loans,        \* the loans table
  res,          \* the reservations table, by ticket
  nextTicket,   \* the clock reservations.created_at is read from
  account,      \* users.status
  category,     \* users.category
  peak,         \* history: the largest entitlement a member has ever had
  mail,         \* notifications queued in the outbox
  pc,           \* the statement each request is about to execute
  req,          \* what each request holds in memory
  copyLock, loanLock, resLock, userLock   \* row locks, by holder

tables == <<status, policy, loans, res, nextTicket, account, category, peak, mail>>
locks  == <<copyLock, loanLock, resLock, userLock>>
vars   == <<tables, pc, req, locks>>

NoRequest == [ copy |-> None, member |-> None, limit |-> 0, ticket |-> None,
               loan |-> None, book |-> None, want |-> None, wantPolicy |-> None ]

NoLoan == [state |-> "unused", copy |-> None, member |-> None]
NoReservation == [state |-> "unused", book |-> None, member |-> None, lapsed |-> FALSE]

-----------------------------------------------------------------------------
(* What a statement sees of the committed tables. *)

OpenLoans == {l \in LoanIds : loans[l].state = "open"}
OpenLoansOf(m) == {l \in OpenLoans : loans[l].member = m}
OpenLoansOn(c) == {l \in OpenLoans : loans[l].copy = c}

CopiesOf(b) == {c \in Copies : BookOf[c] = b /\ status[c] # "absent"}
Circulating(b) == {c \in CopiesOf(b) : IsBorrowable(policy[c])}
Stock(b) == {c \in Circulating(b) : status[c] \in {"available", "on_loan"}}
OnShelf(b) == {c \in Circulating(b) : status[c] = "available"}
Reservable(b) == {c \in CopiesOf(b) : IsReservable(policy[c]) /\ status[c] # "withdrawn"}

QueueOf(b) == {t \in Tickets : res[t].state \in OpenReservation /\ res[t].book = b}
PendingOf(b) == {t \in QueueOf(b) : res[t].state = "pending"}

First(T) == CHOOSE t \in T : \A u \in T : t <= u

(* Mutant: one loan too many. *)
LimitPassed(active, limit) == active > limit

LimitReached(active, limit) == active >= limit

(* The partial unique indexes; mutants: no index, and one that forgets holds. *)
NoIndex(c) == TRUE
OneActiveLoanPerCopy(c) == OpenLoansOn(c) = {}
OnePendingReservation(b, m) == \A t \in PendingOf(b) : res[t].member # m
OneOpenReservation(b, m) == \A t \in QueueOf(b) : res[t].member # m

(* A hold past its deadline; a pending reservation has none.  Mutants: any *)
(* reservation past a deadline, and only those still waiting. *)
PastDeadline(t) == res[t].lapsed
StalePending(t) == res[t].state = "pending" /\ res[t].lapsed
StaleHold(t) == res[t].state = "ready" /\ res[t].lapsed

(* A loan is closed by a date, never deleted; mutant: its row is. *)
Deleted(loan) == NoLoan
Closed(loan) == [loan EXCEPT !.state = "closed"]

-----------------------------------------------------------------------------
(* Steps of a request. *)

Free(lock, row) == lock[row] = None

At(r, label) == pc[r] = label

Goto(r, label) == pc' = [pc EXCEPT ![r] = label]

(* COMMIT and ROLLBACK both end the transaction and release its row locks; *)
(* mutant: the deferred rollback is forgotten. *)
StillLocked(lock, r) == lock
Unlocked(lock, r) == [row \in DOMAIN lock |-> IF lock[row] = r THEN None ELSE lock[row]]

ReleaseLocks(r) ==
  /\ copyLock' = Unlocked(copyLock, r)
  /\ loanLock' = Unlocked(loanLock, r)
  /\ resLock'  = Unlocked(resLock, r)
  /\ userLock' = Unlocked(userLock, r)

Finish(r) ==
  /\ Goto(r, "idle")
  /\ req' = [req EXCEPT ![r] = NoRequest]

(* The transaction is rolled back and the request answered with an error. *)
Refuse(r) ==
  /\ Finish(r)
  /\ ReleaseLocks(r)
  /\ UNCHANGED tables

(* A request arrives and reads what its service needs before the transaction. *)
Start(r, op, label, fields) ==
  /\ op \in Ops
  /\ At(r, "idle")
  /\ Goto(r, label)
  /\ req' = [req EXCEPT ![r] = fields]
  /\ UNCHANGED <<tables, locks>>

(* The client disconnects, the connection breaks or the process dies: an open *)
(* transaction is rolled back, work after a commit is not done. *)
Abandon(r) ==
  /\ "abandon" \in Ops
  /\ ~ At(r, "idle")
  /\ Refuse(r)

-----------------------------------------------------------------------------
(* Lending: Borrow at the desk and SelfCheckout by the member. *)

Borrowing == {q \in Requests :
                pc[q] \in {"head", "claim", "retain", "borrower", "count", "insert"}}

(* Bound: every borrow in flight is sure to find an unused row in LoanIds. *)
RowToSpare == Cardinality({l \in LoanIds : loans[l].state = "unused"}) > Cardinality(Borrowing)

StartBorrow(r) ==
  \E c \in Copies, m \in Members :
    /\ RowToSpare
    /\ status[c] # "absent"
    /\ CanBorrow(account[m])
    /\ Start(r, "borrow", "head",
             [NoRequest EXCEPT !.copy = c, !.member = m, !.limit = MaxLoans[category[m]]])

(* FOR UPDATE on the head of the queue; mutant: a plain SELECT. *)
ReadHead(r, head) == UNCHANGED resLock
LockHead(r, head) == resLock' = [resLock EXCEPT ![head] = r]

(* The head of the queue for the title is locked; it must be the borrower's. *)
CheckHead(r) ==
  LET queue == QueueOf(BookOf[req[r].copy])
      head  == First(queue)
  IN  /\ At(r, "head")
      /\ \/ /\ queue = {}
            /\ Goto(r, "claim")
            /\ UNCHANGED <<tables, req, locks>>
         \/ /\ queue # {}
            /\ Free(resLock, head)
            /\ IF res[head].member # req[r].member
                 THEN Refuse(r)
                 ELSE /\ LockHead(r, head)
                      /\ req' = [req EXCEPT ![r].ticket = head]
                      /\ Goto(r, "claim")
                      /\ UNCHANGED <<tables, copyLock, loanLock, userLock>>

(* The claim writes the copy row; mutant: it only reads it. *)
ReadCopy(r, c) == UNCHANGED copyLock
LockCopy(r, c) == copyLock' = [copyLock EXCEPT ![c] = r]

(* UPDATE copies SET status = 'on_loan' WHERE status = 'available' AND ... *)
ClaimCopy(r) ==
  LET c == req[r].copy
  IN  /\ At(r, "claim")
      /\ Free(copyLock, c)
      /\ IF status[c] = "available" /\ IsBorrowable(policy[c])
           THEN /\ LockCopy(r, c)
                /\ Goto(r, "retain")
                /\ UNCHANGED <<tables, req, loanLock, resLock, userLock>>
           ELSE Refuse(r)

(* The last-copy rule, counted with the claimed copy already on loan. *)
CheckRetention(r) ==
  LET c == req[r].copy
      availableAfter == OnShelf(BookOf[c]) \ {c}
  IN  /\ At(r, "retain")
      /\ IF RetainsAShelfCopy(Cardinality(Stock(BookOf[c]))) /\ availableAfter = {}
           THEN Refuse(r)
           ELSE /\ Goto(r, "borrower")
                /\ UNCHANGED <<tables, req, locks>>

(* Mutant: the member's loans are counted with nobody kept out. *)
CountUnserialised(r) ==
  /\ At(r, "borrower")
  /\ Goto(r, "count")
  /\ UNCHANGED <<tables, req, locks>>

(* SELECT id FROM users WHERE id = $1 FOR UPDATE *)
LockBorrower(r) ==
  LET m == req[r].member
  IN  /\ At(r, "borrower")
      /\ Free(userLock, m)
      /\ userLock' = [userLock EXCEPT ![m] = r]
      /\ Goto(r, "count")
      /\ UNCHANGED <<tables, req, copyLock, loanLock, resLock>>

CountActiveLoans(r) ==
  /\ At(r, "count")
  /\ IF LimitReached(Cardinality(OpenLoansOf(req[r].member)), req[r].limit)
       THEN Refuse(r)
       ELSE /\ Goto(r, "insert")
            /\ UNCHANGED <<tables, req, locks>>

(* Inserting waits for a transaction that is closing a loan of the same copy, *)
(* and the index one_active_loan_per_copy then refuses a second open loan. *)
InsertLoan(r) ==
  LET c == req[r].copy
      m == req[r].member
      t == req[r].ticket
  IN  /\ At(r, "insert")
      /\ \A l \in OpenLoansOn(c) : Free(loanLock, l)
      /\ IF ~ OneActiveLoanPerCopy(c)
           THEN Refuse(r)
           ELSE \E l \in LoanIds :
                  /\ loans[l].state = "unused"
                  /\ loans' = [loans EXCEPT ![l] = [state |-> "open", copy |-> c, member |-> m]]
                  /\ status' = [status EXCEPT ![c] = "on_loan"]
                  /\ res' = IF t # None
                              THEN [res EXCEPT ![t].state =
                                      IF @ \in OpenReservation THEN "fulfilled" ELSE @]
                              ELSE res
                  /\ req' = [req EXCEPT ![r] = [NoRequest EXCEPT !.loan = l]]
                  /\ Goto(r, "receipt")
                  /\ ReleaseLocks(r)
                  /\ UNCHANGED <<policy, nextTicket, account, category, peak, mail>>

QueueReceipt(r) ==
  /\ At(r, "receipt")
  /\ mail' = mail \cup {<<"loan_receipt", req[r].loan>>}
  /\ Finish(r)
  /\ UNCHANGED <<status, policy, loans, res, nextTicket, account, category, peak, locks>>

Borrow(r) ==
  \/ StartBorrow(r)      \/ CheckHead(r)        \/ ClaimCopy(r)
  \/ CheckRetention(r)   \/ LockBorrower(r)     \/ CountActiveLoans(r)
  \/ InsertLoan(r)       \/ QueueReceipt(r)

-----------------------------------------------------------------------------
(* Return of a copy, and the queue it advances. *)

StartReturn(r) ==
  \E l \in LoanIds :
    /\ loans[l].state # "unused"
    /\ Start(r, "return", "close", [NoRequest EXCEPT !.loan = l])

(* WHERE id = $1 AND returned_at IS NULL; mutant: WHERE id = $1. *)
AnyLoan(l) == loans[l].state # "unused"
StillOut(l) == loans[l].state = "open"

(* UPDATE loans SET returned_at = now() WHERE id = $1 AND returned_at IS NULL *)
CloseLoan(r) ==
  LET l == req[r].loan
  IN  /\ At(r, "close")
      /\ Free(loanLock, l)
      /\ IF StillOut(l)
           THEN /\ loanLock' = [loanLock EXCEPT ![l] = r]
                /\ Goto(r, "shelve")
                /\ UNCHANGED <<tables, req, copyLock, resLock, userLock>>
           ELSE Refuse(r)

(* UPDATE copies SET status = 'available' WHERE status = 'on_loan', and commit. *)
ShelveCopy(r) ==
  LET l == req[r].loan
      c == loans[l].copy
  IN  /\ At(r, "shelve")
      /\ Free(copyLock, c)
      /\ loans' = [loans EXCEPT ![l] = Closed(@)]
      /\ status' = [status EXCEPT ![c] = IF @ = "on_loan" THEN "available" ELSE @]
      /\ req' = [req EXCEPT ![r] = [NoRequest EXCEPT !.book = BookOf[c]]]
      /\ Goto(r, "promote")
      /\ ReleaseLocks(r)
      /\ UNCHANGED <<policy, res, nextTicket, account, category, peak, mail>>

(* The oldest pending reservation nobody has locked becomes ready. *)
PromoteNext(r) ==
  LET waiting == {t \in PendingOf(req[r].book) : Free(resLock, t)}
      t == First(waiting)
  IN  /\ At(r, "promote")
      /\ IF waiting = {}
           THEN /\ Finish(r)
                /\ UNCHANGED <<tables, locks>>
           ELSE /\ res' = [res EXCEPT ![t].state = "ready"]
                /\ req' = [req EXCEPT ![r].ticket = t]
                /\ Goto(r, "notify")
                /\ UNCHANGED <<status, policy, loans, nextTicket, account, category,
                              peak, mail, locks>>

(* Push and email are queued together: both are best effort. *)
QueueReady(r) ==
  /\ At(r, "notify")
  /\ mail' = mail \cup {<<"reservation_ready", req[r].ticket>>}
  /\ Finish(r)
  /\ UNCHANGED <<status, policy, loans, res, nextTicket, account, category, peak, locks>>

Return(r) ==
  \/ StartReturn(r)   \/ CloseLoan(r)   \/ ShelveCopy(r)
  \/ PromoteNext(r)   \/ QueueReady(r)

-----------------------------------------------------------------------------
(* Edits of a copy by a librarian. *)

(* FindCopy is read before any transaction; every check is made on what it saw. *)
StartEdit(r) ==
  \E c \in Copies, e \in Edits :
    LET seen    == status[c]
        want    == e[1]
        changes == want \notin {None, seen}
        closes  == changes /\ seen = "on_loan" /\ ClosesAnOpenLoan(want)
    IN  /\ seen # "absent"
        /\ changes => CanTransitionTo(seen, want)
        /\ ~ closes => /\ e # <<None, None>>
                       /\ ~ (e[2] # None /\ seen = "on_loan")
        /\ Start(r, "edit", IF closes THEN "lost" ELSE "edit",
                 [NoRequest EXCEPT !.copy = c, !.want = want, !.wantPolicy = e[2]])

(* SetCopyStatusClosingLoan: UPDATE loans ... WHERE copy_id = $1 AND returned_at IS NULL *)
CloseLostLoans(r) ==
  LET lost == OpenLoansOn(req[r].copy)
  IN  /\ At(r, "lost")
      /\ \A l \in lost : Free(loanLock, l)
      /\ loanLock' = [l \in LoanIds |-> IF l \in lost THEN r ELSE loanLock[l]]
      /\ Goto(r, "mark")
      /\ UNCHANGED <<tables, req, copyLock, resLock, userLock>>

(* UPDATE copies SET status = $2 WHERE id = $1, and commit.  A policy that came *)
(* with the request is answered ErrCopyOnLoan after this commit. *)
MarkLost(r) ==
  LET c == req[r].copy
  IN  /\ At(r, "mark")
      /\ Free(copyLock, c)
      /\ loans' = [l \in LoanIds |-> IF loanLock[l] = r
                                       THEN Closed(loans[l]) ELSE loans[l]]
      /\ status' = [status EXCEPT ![c] = req[r].want]
      /\ Finish(r)
      /\ ReleaseLocks(r)
      /\ UNCHANGED <<policy, res, nextTicket, account, category, peak, mail>>

(* coalesce($2, column); mutant: $2, which may be NULL. *)
Overwrite(new, old) == new
Coalesce(new, old) == IF new # None THEN new ELSE old

(* UPDATE copies SET loan_policy = coalesce(..), status = coalesce(..) WHERE id = $1 *)
WriteCopy(r) ==
  LET c == req[r].copy
  IN  /\ At(r, "edit")
      /\ Free(copyLock, c)
      /\ status' = [status EXCEPT ![c] = Coalesce(req[r].want, @)]
      /\ policy' = [policy EXCEPT ![c] = Coalesce(req[r].wantPolicy, @)]
      /\ Finish(r)
      /\ UNCHANGED <<loans, res, nextTicket, account, category, peak, mail, locks>>

EditCopy(r) == StartEdit(r) \/ CloseLostLoans(r) \/ MarkLost(r) \/ WriteCopy(r)

(* AddCopy registers a volume; its transaction touches no row anyone else holds. *)
AddCopy ==
  /\ "add" \in Ops
  /\ \E c \in Copies, p \in LoanPolicy :
       /\ status[c] = "absent"
       /\ status' = [status EXCEPT ![c] = "available"]
       /\ policy' = [policy EXCEPT ![c] = p]
  /\ UNCHANGED <<loans, res, nextTicket, account, category, peak, mail, pc, req, locks>>

(* A return or a report of loss holds the loan row and waits for the copy, while *)
(* a borrow holds the copy and waits in the index for that loan: PostgreSQL *)
(* notices the cycle and aborts one of the two. *)
Deadlocked(r, q) ==
  /\ At(r, "insert")
  /\ At(q, "shelve") \/ At(q, "mark")
  /\ \E l \in OpenLoansOn(req[r].copy) : loanLock[l] = q

DeadlockVictim(r) ==
  /\ \E q \in Requests : Deadlocked(r, q) \/ Deadlocked(q, r)
  /\ Refuse(r)

-----------------------------------------------------------------------------
(* Reservations. *)

(* created_at is now(), the time the transaction began, so a place in the queue *)
(* is taken here and not when the row is written. *)
StartReserve(r) ==
  /\ "reserve" \in Ops
  /\ At(r, "idle")
  /\ nextTicket \in Tickets
  /\ nextTicket' = nextTicket + 1
  /\ \E b \in Books, m \in Members :
       req' = [req EXCEPT ![r] =
                 [NoRequest EXCEPT !.book = b, !.member = m, !.ticket = nextTicket]]
  /\ Goto(r, "stock")
  /\ UNCHANGED <<status, policy, loans, res, account, category, peak, mail, locks>>

CheckStock(r) ==
  LET b == req[r].book
  IN  /\ At(r, "stock")
      /\ IF \/ Reservable(b) = {}
            \/ BorrowableCount(Cardinality(Stock(b)), Cardinality(OnShelf(b))) > 0
           THEN Refuse(r)
           ELSE /\ Goto(r, "enqueue")
                /\ UNCHANGED <<tables, req, locks>>

(* The foreign key to users waits for a borrower locked FOR UPDATE; the index *)
(* one_open_reservation_per_user_book refuses a second place in the queue. *)
Enqueue(r) ==
  LET b == req[r].book
      m == req[r].member
  IN  /\ At(r, "enqueue")
      /\ Free(userLock, m)
      /\ IF ~ OneOpenReservation(b, m)
           THEN Refuse(r)
           ELSE /\ res' = [res EXCEPT ![req[r].ticket] =
                             [state |-> "pending", book |-> b, member |-> m, lapsed |-> FALSE]]
                /\ Finish(r)
                /\ UNCHANGED <<status, policy, loans, nextTicket, account, category,
                              peak, mail, locks>>

Reserve(r) == StartReserve(r) \/ CheckStock(r) \/ Enqueue(r)

(* SELECT ... FOR UPDATE, the owner's check and the update; a hold that was *)
(* ready passes to the next in line, after the commit. *)
Cancel(r) ==
  /\ "cancel" \in Ops
  /\ At(r, "idle")
  /\ \E t \in Tickets :
       /\ res[t].state \in OpenReservation
       /\ Free(resLock, t)
       /\ res' = [res EXCEPT ![t].state = "cancelled"]
       /\ IF res[t].state = "ready"
            THEN /\ req' = [req EXCEPT ![r] = [NoRequest EXCEPT !.book = res[t].book]]
                 /\ Goto(r, "promote")
            ELSE UNCHANGED <<pc, req>>
  /\ UNCHANGED <<status, policy, loans, nextTicket, account, category, peak, mail, locks>>

(* The clock passes expires_at of a hold. *)
HoldLapses ==
  /\ "expire" \in Ops
  /\ \E t \in Tickets :
       /\ res[t].state = "ready" /\ ~ res[t].lapsed
       /\ res' = [res EXCEPT ![t].lapsed = TRUE]
  /\ UNCHANGED <<status, policy, loans, nextTicket, account, category, peak, mail, pc, req, locks>>

(* The hourly sweep: one UPDATE over every ready reservation past its deadline. *)
ExpireStale ==
  LET stale == {t \in Tickets : StaleHold(t)}
  IN  /\ "expire" \in Ops
      /\ stale # {}
      /\ \A t \in stale : Free(resLock, t)
      /\ res' = [t \in Tickets |-> IF t \in stale
                                     THEN [res[t] EXCEPT !.state = "expired"]
                                     ELSE res[t]]
      /\ UNCHANGED <<status, policy, loans, nextTicket, account, category, peak, mail,
                    pc, req, locks>>

-----------------------------------------------------------------------------
(* Accounts, as far as borrowing depends on them. *)

SetStatus ==
  /\ "set_status" \in Ops
  /\ \E m \in Members, st \in UserStatus :
       /\ Free(userLock, m)
       /\ st # account[m]
       /\ account' = [account EXCEPT ![m] = st]
  /\ UNCHANGED <<status, policy, loans, res, nextTicket, category, peak, mail, pc, req, locks>>

(* UpdateRole with a borrowing category. *)
SetCategory ==
  /\ "set_category" \in Ops
  /\ \E m \in Members, k \in Categories :
       /\ Free(userLock, m)
       /\ category' = [category EXCEPT ![m] = k]
       /\ peak' = [peak EXCEPT ![m] = IF MaxLoans[k] > @ THEN MaxLoans[k] ELSE @]
  /\ UNCHANGED <<status, policy, loans, res, nextTicket, account, mail, pc, req, locks>>

-----------------------------------------------------------------------------
(* The library opens with copies on the shelf and nothing lent. *)
Init ==
  /\ status \in [Copies -> {"available"} \cup IF "add" \in Ops THEN {"absent"} ELSE {}]
  /\ policy = [c \in Copies |-> "circulating"]
  /\ loans = [l \in LoanIds |-> NoLoan]
  /\ res = [t \in Tickets |-> NoReservation]
  /\ nextTicket = 1
  /\ account = [m \in Members |-> "active"]
  /\ category \in [Members -> Categories]
  /\ peak = [m \in Members |-> MaxLoans[category[m]]]
  /\ mail = {}
  /\ pc = [r \in Requests |-> "idle"]
  /\ req = [r \in Requests |-> NoRequest]
  /\ copyLock = [c \in Copies |-> None]
  /\ loanLock = [l \in LoanIds |-> None]
  /\ resLock = [t \in Tickets |-> None]
  /\ userLock = [m \in Members |-> None]

Step(r) == Borrow(r) \/ Return(r) \/ EditCopy(r) \/ Reserve(r) \/ Cancel(r)

Next ==
  \/ \E r \in Requests : Step(r) \/ DeadlockVictim(r) \/ Abandon(r)
  \/ AddCopy \/ HoldLapses \/ ExpireStale \/ SetStatus \/ SetCategory

Spec == Init /\ [][Next]_vars
=============================================================================
