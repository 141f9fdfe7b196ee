----------------------- MODULE CirculationProperties -----------------------
(***************************************************************************)
(* What the circulation desk promises, as state predicates, action          *)
(* properties and leads-to properties over Circulation.                     *)
(***************************************************************************)
EXTENDS Circulation

Labels == {"idle", "head", "claim", "retain", "borrower", "count", "insert", "receipt",
           "close", "shelve", "promote", "notify", "edit", "lost", "mark",
           "stock", "enqueue"}

LoanRow == [state : {"unused", "open", "closed"},
            copy : Copies \cup {None}, member : Members \cup {None}]

ReservationRow == [state : ReservationStatus \cup {"unused"}, book : Books \cup {None},
                   member : Members \cup {None}, lapsed : BOOLEAN]

Request == [copy : Copies \cup {None}, member : Members \cup {None}, limit : Nat,
            ticket : Tickets \cup {None}, loan : LoanIds \cup {None},
            book : Books \cup {None}, want : CopyStatus \cup {None},
            wantPolicy : LoanPolicy \cup {None}]

Notices == ({"loan_receipt"} \X LoanIds) \cup ({"reservation_ready"} \X Tickets)

(* Every variable keeps its type: the columns hold values their enum allows *)
(* and a lock is held by a request or by nobody. *)
TypeOK ==
  /\ status \in [Copies -> CopyStatus \cup {"absent"}]
  /\ policy \in [Copies -> LoanPolicy]
  /\ loans \in [LoanIds -> LoanRow]
  /\ res \in [Tickets -> ReservationRow]
  /\ nextTicket \in 1 .. (MaxTickets + 1)
  /\ account \in [Members -> UserStatus]
  /\ category \in [Members -> Categories]
  /\ peak \in [Members -> Nat]
  /\ mail \subseteq Notices
  /\ pc \in [Requests -> Labels]
  /\ req \in [Requests -> Request]
  /\ copyLock \in [Copies -> Requests \cup {None}]
  /\ loanLock \in [LoanIds -> Requests \cup {None}]
  /\ resLock \in [Tickets -> Requests \cup {None}]
  /\ userLock \in [Members -> Requests \cup {None}]

-----------------------------------------------------------------------------
(* Loans. *)

(* I-01: no interleaving of borrows, returns and edits leaves two open loans *)
(* on one physical copy. *)
OneOpenLoanPerCopy ==
  \A c \in Copies : \A l, k \in OpenLoansOn(c) : l = k

(* The status of a copy and the loans table tell the same story at every *)
(* commit: a copy is on loan exactly while one loan of it is open.  The claim *)
(* and the insert are two statements on two tables, and so are the two halves *)
(* of a return. *)
CustodyMatches ==
  /\ \A c \in Copies : status[c] = "on_loan" <=> OpenLoansOn(c) # {}
  /\ OneOpenLoanPerCopy

(* "Reaching here means the compare-and-swap was bypassed somehow": a borrow *)
(* that passed every check never finds another open loan on the copy it claimed. *)
ClaimIsExclusive ==
  \A r \in Requests : At(r, "insert") => OpenLoansOn(req[r].copy) = {}

(* DEF-014: however many desks lend to one member at once, the member never *)
(* holds more than the largest entitlement any category of theirs has given. *)
LoanLimit == \A m \in Members : Cardinality(OpenLoansOf(m)) <= peak[m]

(* I-02 and I-07: a loan row is never deleted or rewritten, and a closed loan *)
(* never opens again, though a return and a report of loss may close one loan *)
(* at the same time. *)
LoanHistoryKept ==
  [][\A l \in LoanIds :
       loans[l].state # "unused" =>
         /\ loans'[l].copy = loans[l].copy /\ loans'[l].member = loans[l].member
         /\ loans'[l].state # "unused"
         /\ loans[l].state = "closed" => loans'[l].state = "closed"]_vars

(* The desk as an outsider sees it: who holds each copy. *)
Holder == [c \in Copies |-> IF OpenLoansOn(c) = {} THEN None
                            ELSE loans[CHOOSE l \in OpenLoansOn(c) : TRUE].member]

Register == INSTANCE LoanRegister WITH holder <- Holder, entitlement <- peak

(* Every interleaving of borrows, returns and edits looks from outside like *)
(* copies issued and taken back one at a time, within entitlement. *)
ImplementsRegister == Register!RegisterSpec

-----------------------------------------------------------------------------
(* Reservations. *)

(* A member has one place at most in the queue for a title, however often the *)
(* button is tapped. *)
OnePlacePerMember ==
  \A b \in Books : \A t, u \in QueueOf(b) : res[t].member = res[u].member => t = u

(* What a borrow decided about the head of the queue stays true until it *)
(* commits: the reservation it will fulfil is still open and still the *)
(* borrower's, whatever cancels, expires or promotes meanwhile. *)
HeadStaysMine ==
  \A r \in Borrowing :
    req[r].ticket # None =>
      /\ res[req[r].ticket].state \in OpenReservation
      /\ res[req[r].ticket].member = req[r].member

(* A reservation leaves the queue once: nothing fulfils, promotes or expires *)
(* a reservation that was cancelled, and only a hold is ever expired. *)
ReservationLifecycle ==
  [][\A t \in Tickets :
       LET old == res[t].state
           new == res'[t].state
       IN  old = new \/ <<old, new>> \in
             {<<"unused", "pending">>, <<"pending", "ready">>, <<"ready", "expired">>}
             \cup (OpenReservation \X {"fulfilled", "cancelled"})]_vars

-----------------------------------------------------------------------------
(* Progress.  A request in flight is driven by its goroutine and every row *)
(* lock it waits for is granted in turn by PostgreSQL, hence strong fairness; *)
(* the sweep is hourly and waits for the same locks. *)

Advance(r) ==
  \/ CheckHead(r)  \/ ClaimCopy(r)  \/ CheckRetention(r)  \/ LockBorrower(r)
  \/ CountActiveLoans(r)  \/ InsertLoan(r)  \/ QueueReceipt(r)
  \/ CloseLoan(r)  \/ ShelveCopy(r)  \/ PromoteNext(r)  \/ QueueReady(r)
  \/ CloseLostLoans(r)  \/ MarkLost(r)  \/ WriteCopy(r)
  \/ CheckStock(r)  \/ Enqueue(r)  \/ DeadlockVictim(r)

Fairness ==
  /\ \A r \in Requests : SF_vars(Advance(r))
  /\ WF_vars(HoldLapses)
  /\ SF_vars(ExpireStale)

FairSpec == Spec /\ Fairness

(* No request waits for ever on row locks: the transactions take reservation, *)
(* copy, loan and member rows in an order in which the one cycle that can be *)
(* closed, over a loan whose copy was edited back to the shelf, is broken by *)
(* PostgreSQL. *)
EveryRequestEnds == \A r \in Requests : ~ At(r, "idle") ~> At(r, "idle")

(* REQ-059, first half: a hold nobody collects is given up in the end. *)
HoldsAreReleased ==
  \A t \in Tickets : res[t].state = "ready" ~> res[t].state # "ready"

-----------------------------------------------------------------------------
(* Statements of the documentation that the code does not keep. *)

(* I-04: "a borrowed copy can never be edited back to available, which would *)
(* abandon its open loan". *)
BorrowedNeverEditedBack ==
  [][\A c \in Copies :
       status[c] = "on_loan" /\ status'[c] = "available" =>
         \A l \in OpenLoansOn(c) : loans'[l].state # "open"]_vars

(* DEC-018: "two librarians lending the second-to-last and last copy at the *)
(* same instant cannot both pass the check". *)
LastCopyStays ==
  \A b \in Books : Cardinality(Stock(b)) >= 2 => OnShelf(b) # {}

(* Create: "a copy becoming available between the availability check and the *)
(* insert would leave a member queued for a book already back on the shelf", *)
(* so nobody joins a queue while a copy could be borrowed. *)
NobodyQueuesForAShelvedBook ==
  [][\A t \in Tickets :
       res[t].state = "unused" /\ res'[t].state = "pending" =>
         LET b == res'[t].book
         IN  BorrowableCount(Cardinality(Stock(b)), Cardinality(OnShelf(b))) = 0]_vars

(* REQ-059: "An unclaimed reservation shall expire after a configurable period *)
(* and pass to the next in queue": a member waiting behind an expired hold, *)
(* with the copy back on the shelf, is promoted in the end or leaves the queue. *)
ExpiredHoldPassesOn ==
  \A t, u \in Tickets :
    (/\ res[t].state = "expired" /\ res[u].state = "pending" /\ res[t].book = res[u].book
     /\ OnShelf(res[u].book) # {})
      ~> (res[u].state # "pending" \/ OnShelf(res[u].book) = {})
=============================================================================
