-------------------------- MODULE CirculationProofs --------------------------
(***************************************************************************)
(* What holds of the circulation desk for every number of requests, copies, *)
(* members and loans: the history of loans and the loan limit; the life of a *)
(* reservation and the head of the queue; custody of the copies; and that    *)
(* the desk implements the loan register.  Each part strengthens WellFormed  *)
(* by an invariant of its own: LimitInv, HeadInv, CustodyInv, LockInv.       *)
(***************************************************************************)
EXTENDS CirculationProperties, FiniteSetTheorems, TLAPS

-----------------------------------------------------------------------------
(* Lemmas about the operators the actions are built from. *)

(* A queue that is not empty has a first ticket: of the sets of tickets up to *)
(* and including each member of the queue, one has no other inside it. *)
LEMMA FirstOfQueue ==
  ASSUME NEW T \in SUBSET Tickets, T # {}
  PROVE  First(T) \in T /\ \A u \in T : First(T) <= u
  <1> DEFINE upTo(t) == {u \in T : u <= t}
             ups == {upTo(t) : t \in T}
  <1>1. IsFiniteSet(Tickets)
    BY FS_Interval, CirculationAssumption DEF Tickets
  <1>2. /\ FiniteSubsetsOf(Tickets) = SUBSET Tickets
        /\ IsWellFoundedOn(StrictSubsetOrdering(Tickets), FiniteSubsetsOf(Tickets))
    BY <1>1, FS_FiniteSubsetsOfFinite, FS_StrictSubsetOrderingWellFounded
  <1>3. ups \subseteq FiniteSubsetsOf(Tickets) /\ ups # {}
    <2>1. \A t \in T : upTo(t) \in SUBSET Tickets
      OBVIOUS
    <2> HIDE DEF upTo
    <2> QED BY <1>2, <2>1
  <1>4. PICK s \in ups : \A u \in ups : <<u, s>> \notin StrictSubsetOrdering(Tickets)
    <2> HIDE DEF ups
    <2> QED BY <1>2, <1>3, WFMin
  <1>5. PICK t \in T : s = upTo(t)
    BY <1>4
  <1> T \subseteq Int
    BY CirculationAssumption DEF Tickets
  <1>6. ASSUME NEW u \in T, u < t PROVE FALSE
    <2>0. \A v \in T : v <= u => v <= t
      BY <1>6, SMT
    <2>1. upTo(u) \subseteq upTo(t)
      BY <2>0
    <2>2. t \in upTo(t) /\ t \notin upTo(u)
      BY <1>6
    <2>3. <<upTo(u), upTo(t)>> \in StrictSubsetOrdering(Tickets)
      BY <2>1, <2>2 DEF StrictSubsetOrdering
    <2> QED BY <2>3, <1>4, <1>5
  <1>7. \A u \in T : t <= u
    BY <1>6
  <1> QED BY <1>7 DEF First

(* Releasing the locks of a request leaves every lock well typed. *)
LEMMA UnlockedType ==
  ASSUME NEW S, NEW lock \in [S -> Requests \cup {None}], NEW r
  PROVE  Unlocked(lock, r) \in [S -> Requests \cup {None}]
  BY DEF Unlocked

(* The request record of an idle request. *)
LEMMA NoRequestType == NoRequest \in Request
  BY DEF NoRequest, Request

(* Ending a transaction releases the locks of the request and no other. *)
LEMMA ReleaseLocksType ==
  ASSUME TypeOK, NEW r \in Requests, ReleaseLocks(r)
  PROVE  /\ copyLock' \in [Copies -> Requests \cup {None}]
         /\ loanLock' \in [LoanIds -> Requests \cup {None}]
         /\ resLock' \in [Tickets -> Requests \cup {None}]
         /\ userLock' \in [Members -> Requests \cup {None}]
         /\ \A l \in LoanIds : loanLock'[l] = IF loanLock[l] = r THEN None ELSE loanLock[l]
         /\ \A t \in Tickets : resLock'[t] = IF resLock[t] = r THEN None ELSE resLock[t]
         /\ \A c \in Copies : copyLock'[c] = IF copyLock[c] = r THEN None ELSE copyLock[c]
         /\ \A m \in Members : userLock'[m] = IF userLock[m] = r THEN None ELSE userLock[m]
  BY UnlockedType DEF TypeOK, ReleaseLocks, Unlocked

-----------------------------------------------------------------------------
(* The state is well formed: types, and what each statement finds in the     *)
(* request's memory and in the rows it names.                                *)

RowsKnown ==
  /\ \A l \in LoanIds : loans[l].state # "unused" =>
       loans[l].copy \in Copies /\ loans[l].member \in Members
  /\ \A t \in Tickets : res[t].state # "unused" =>
       res[t].book \in Books /\ res[t].member \in Members
  /\ \A l \in LoanIds : loanLock[l] # None => loans[l].state # "unused"

MemoryFits(r) ==
  /\ r \in Borrowing => req[r].copy \in Copies /\ req[r].member \in Members
  /\ pc[r] = "receipt" => req[r].loan \in LoanIds
  /\ pc[r] \in {"close", "shelve"} =>
       req[r].loan \in LoanIds /\ loans[req[r].loan].state # "unused"
  /\ pc[r] = "notify" => req[r].ticket \in Tickets
  /\ pc[r] \in {"edit", "lost", "mark"} => req[r].copy \in Copies
  /\ pc[r] \in {"lost", "mark"} => req[r].want \in CopyStatus
  /\ pc[r] \in {"stock", "enqueue"} =>
       req[r].ticket \in Tickets /\ req[r].book \in Books /\ req[r].member \in Members

WellFormed == TypeOK /\ RowsKnown /\ \A r \in Requests : MemoryFits(r)

(* A request remembers one thing more. *)
LEMMA RequestUpdate ==
  ASSUME NEW f \in [Requests -> Request], NEW r \in Requests
  PROVE  /\ \A t \in Tickets : [f EXCEPT ![r].ticket = t] \in [Requests -> Request]
         /\ \A q \in Request : [f EXCEPT ![r] = q] \in [Requests -> Request]
  BY DEF Request

(* The memory of a request is not touched by another. *)
LEMMA OthersMemory ==
  ASSUME WellFormed, NEW r \in Requests, NEW q \in Requests \ {r},
         pc' = [pc EXCEPT ![r] = pc'[r]], req' = [req EXCEPT ![r] = req'[r]],
         \A l \in LoanIds : loans[l].state # "unused" => loans'[l].state # "unused"
  PROVE  MemoryFits(q)'
  <1>1. pc'[q] = pc[q] /\ req'[q] = req[q]
    BY DEF WellFormed, TypeOK
  <1> QED BY <1>1 DEF WellFormed, MemoryFits, Borrowing

(* A step that leaves the loans, their locks and every request's memory alone, *)
(* and names no reservation that was not there, leaves a well-formed state.    *)
LEMMA SameMemory ==
  ASSUME WellFormed, TypeOK', UNCHANGED <<loans, loanLock, pc, req>>,
         \A t \in Tickets :
           /\ res'[t].state # "unused" => res[t].state # "unused"
           /\ res'[t].book = res[t].book /\ res'[t].member = res[t].member
  PROVE  WellFormed'
  <1>1. RowsKnown'
    <2>1. RowsKnown
      BY DEF WellFormed
    <2> QED BY <2>1 DEF RowsKnown
  <1>2. ASSUME NEW r \in Requests PROVE MemoryFits(r)'
    <2>1. MemoryFits(r)
      BY DEF WellFormed
    <2> QED BY <2>1 DEF MemoryFits, Borrowing
  <1> QED BY <1>1, <1>2 DEF WellFormed

(* A reservation changes its state and nothing else. *)
LEMMA ReservationUpdate ==
  ASSUME TypeOK, NEW t \in Tickets, NEW st \in ReservationStatus \cup {"unused"},
         res' = [res EXCEPT ![t].state = st]
  PROVE  /\ res' \in [Tickets -> ReservationRow]
         /\ res'[t].state = st
         /\ \A u \in Tickets : res'[u].book = res[u].book /\ res'[u].member = res[u].member
         /\ \A u \in Tickets \ {t} : res'[u] = res[u]
  <1>1. res'[t] = [res[t] EXCEPT !.state = st]
    BY DEF TypeOK
  <1> QED BY <1>1 DEF TypeOK, ReservationRow

(* A borrow that commits fulfils the reservation it found at the head of the *)
(* queue, if that is still open, and no other. *)
LEMMA InsertFulfils ==
  ASSUME TypeOK, NEW r \in Requests, InsertLoan(r), ~ Refuse(r)
  PROVE  /\ res' \in [Tickets -> ReservationRow]
         /\ \A u \in Tickets :
              /\ res'[u].book = res[u].book /\ res'[u].member = res[u].member
              /\ \/ res'[u].state = res[u].state
                 \/ /\ u = req[r].ticket
                    /\ res[u].state \in OpenReservation /\ res'[u].state = "fulfilled"
  <1> DEFINE t  == req[r].ticket
             st == IF res[t].state \in OpenReservation THEN "fulfilled" ELSE res[t].state
  <1>1. CASE t = None
    BY <1>1 DEF InsertLoan, TypeOK
  <1>2. CASE t # None
    <2>1. t \in Tickets
      BY <1>2 DEF TypeOK, Request
    <2>2. res' = [res EXCEPT ![t].state = st]
      BY <1>2 DEF InsertLoan
    <2>3. st \in ReservationStatus \cup {"unused"}
      <3>1. res[t] \in ReservationRow
        BY <2>1 DEF TypeOK
      <3>2. res[t].state \in ReservationStatus \cup {"unused"}
        BY <3>1 DEF ReservationRow
      <3>3. "fulfilled" \in ReservationStatus
        BY DEF ReservationStatus
      <3> HIDE DEF t
      <3> QED BY <3>2, <3>3
    <2>4. /\ res' \in [Tickets -> ReservationRow]
          /\ res'[t].state = st
          /\ \A u \in Tickets : res'[u].book = res[u].book /\ res'[u].member = res[u].member
          /\ \A u \in Tickets \ {t} : res'[u] = res[u]
      <3> HIDE DEF t, st
      <3> QED BY <2>1, <2>2, <2>3, ReservationUpdate
    <2>5. res[t].state \in OpenReservation \/ res'[t].state = res[t].state
      BY <2>4
    <2> QED BY <2>1, <2>4, <2>5
  <1> QED BY <1>1, <1>2

(* Closing a loan changes its state and nothing else. *)
LEMMA ClosedLoan ==
  ASSUME NEW loan \in LoanRow
  PROVE  /\ Closed(loan) \in LoanRow /\ Closed(loan).state = "closed"
         /\ Closed(loan).copy = loan.copy /\ Closed(loan).member = loan.member
  BY DEF Closed, LoanRow

(* The two ways a loan is closed: returned, or with its copy reported lost. *)
LEMMA LoansClosed ==
  ASSUME WellFormed, NEW r \in Requests, ShelveCopy(r) \/ MarkLost(r)
  PROVE  /\ loans' \in [LoanIds -> LoanRow]
         /\ \A l \in LoanIds :
              /\ loans'[l].copy = loans[l].copy /\ loans'[l].member = loans[l].member
              /\ loans'[l].state \in {loans[l].state, "closed"}
         /\ ShelveCopy(r) => \A l \in LoanIds :
              IF l = req[r].loan THEN loans'[l].state = "closed" ELSE loans'[l] = loans[l]
         /\ MarkLost(r) => \A l \in LoanIds :
              IF loanLock[l] = r THEN loans'[l].state = "closed" ELSE loans'[l] = loans[l]
  <1>1. CASE ShelveCopy(r)
    <2>1. req[r].loan \in LoanIds
      BY <1>1 DEF ShelveCopy, At, WellFormed, MemoryFits
    <2>2. loans' = [loans EXCEPT ![req[r].loan] = Closed(loans[req[r].loan])]
      BY <1>1 DEF ShelveCopy
    <2> QED
      BY <1>1, <2>1, <2>2, ClosedLoan DEF WellFormed, TypeOK, MarkLost, ShelveCopy, At
  <1>2. CASE MarkLost(r)
    <2>1. loans' = [l \in LoanIds |-> IF loanLock[l] = r THEN Closed(loans[l]) ELSE loans[l]]
      BY <1>2 DEF MarkLost
    <2> QED
      BY <1>2, <2>1, ClosedLoan DEF WellFormed, TypeOK, MarkLost, ShelveCopy, At
  <1> QED BY <1>1, <1>2

(* A return closes the loan it was asked to, so no row of the table appears or *)
(* vanishes and every row still names a copy and a member.                     *)
LEMMA ShelvedRows ==
  ASSUME WellFormed, NEW r \in Requests, ShelveCopy(r)
  PROVE  /\ \A l \in LoanIds : loans[l].state # "unused" <=> loans'[l].state # "unused"
         /\ RowsKnown'
  <1>1. /\ \A l \in LoanIds :
             loans'[l].copy = loans[l].copy /\ loans'[l].member = loans[l].member
        /\ \A l \in LoanIds :
             IF l = req[r].loan THEN loans'[l].state = "closed" ELSE loans'[l] = loans[l]
    BY LoansClosed
  <1>2. loans[req[r].loan].state # "unused"
    <2>1. pc[r] = "shelve" /\ MemoryFits(r)
      BY DEF ShelveCopy, At, WellFormed
    <2> QED BY <2>1 DEF MemoryFits
  <1>3. \A l \in LoanIds : loans[l].state # "unused" <=> loans'[l].state # "unused"
    BY <1>1, <1>2
  <1>4. \A l \in LoanIds : loanLock'[l] # None => loanLock[l] # None
    <2>1. TypeOK /\ ReleaseLocks(r)
      BY DEF ShelveCopy, WellFormed
    <2> QED BY <2>1, ReleaseLocksType
  <1>5. RowsKnown /\ UNCHANGED res
    BY DEF WellFormed, ShelveCopy
  <1> QED BY <1>1, <1>3, <1>4, <1>5 DEF RowsKnown

(* A request that is refused leaves a well-formed state. *)
LEMMA RefuseWellFormed ==
  ASSUME WellFormed, NEW r \in Requests, Refuse(r)
  PROVE  WellFormed'
  <1> USE DEF Refuse, Finish, Goto, tables
  <1>1. TypeOK'
    BY ReleaseLocksType, NoRequestType DEF WellFormed, TypeOK, Labels
  <1>2. RowsKnown'
    BY ReleaseLocksType DEF WellFormed, RowsKnown
  <1>3. \A q \in Requests : MemoryFits(q)'
    BY DEF WellFormed, TypeOK, MemoryFits, Borrowing
  <1> QED BY <1>1, <1>2, <1>3 DEF WellFormed

(* Every statement of every request leaves a well-formed state. *)
LEMMA StepWellFormed ==
  ASSUME WellFormed, NEW r \in Requests, Step(r)
  PROVE  WellFormed'
  <1> USE CirculationAssumption DEF WellFormed, Goto, At, tables, locks
  <1>1. CASE StartBorrow(r)
    <2>1. TypeOK'
      <3>1. PICK c \in Copies, m \in Members :
              Start(r, "borrow", "head",
                [NoRequest EXCEPT !.copy = c, !.member = m, !.limit = MaxLoans[category[m]]])
        BY <1>1 DEF StartBorrow
      <3>2. [NoRequest EXCEPT !.copy = c, !.member = m, !.limit = MaxLoans[category[m]]]
              \in Request
        BY DEF NoRequest, Request, TypeOK
      <3> QED BY <3>1, <3>2 DEF Start, TypeOK, Labels
    <2>2. RowsKnown'
      BY <1>1 DEF StartBorrow, Start, RowsKnown, TypeOK, MemoryFits
    <2>3. \A q \in Requests : MemoryFits(q)'
      BY <1>1 DEF StartBorrow, Start, MemoryFits, Borrowing, TypeOK
    <2> QED BY <2>1, <2>2, <2>3
  <1>2. CASE CheckHead(r)
    <2> DEFINE queue == QueueOf(BookOf[req[r].copy])
    <2>0. queue # {} => First(queue) \in Tickets
      BY FirstOfQueue DEF QueueOf
    <2>1. TypeOK'
      <3>1. CASE Refuse(r)
        BY <3>1, RefuseWellFormed
      <3>2. CASE ~ Refuse(r) /\ queue # {}
        <4>1. req' = [req EXCEPT ![r].ticket = First(queue)]
          BY <1>2, <3>2 DEF CheckHead
        <4>2. req' \in [Requests -> Request]
          BY <4>1, <3>2, <2>0, RequestUpdate DEF TypeOK
        <4> QED BY <1>2, <3>2, <4>2, <2>0 DEF CheckHead, LockHead, TypeOK, Labels
      <3>3. CASE ~ Refuse(r) /\ queue = {}
        BY <1>2, <3>3 DEF CheckHead, TypeOK, Labels
      <3> QED BY <3>1, <3>2, <3>3
    <2>2. RowsKnown'
      BY <1>2, RefuseWellFormed DEF CheckHead, RowsKnown, TypeOK, MemoryFits
    <2>3. \A q \in Requests : MemoryFits(q)'
      <3>1. CASE Refuse(r)
        BY <3>1, RefuseWellFormed
      <3>2. CASE ~ Refuse(r)
        <4>1. /\ pc' = [pc EXCEPT ![r] = "claim"]
              /\ req' = [req EXCEPT ![r] = req'[r]] /\ UNCHANGED loans
              /\ req'[r].copy = req[r].copy /\ req'[r].member = req[r].member
          BY <1>2, <3>2 DEF CheckHead, TypeOK, Request
        <4>2. MemoryFits(r)'
          BY <1>2, <4>1 DEF CheckHead, MemoryFits, Borrowing, TypeOK
        <4> QED BY <4>1, <4>2, OthersMemory DEF TypeOK
      <3> QED BY <3>1, <3>2
    <2> QED BY <2>1, <2>2, <2>3
  <1>3. CASE ClaimCopy(r)
    <2>1. TypeOK'
      BY <1>3, RefuseWellFormed DEF ClaimCopy, LockCopy, TypeOK, Labels, MemoryFits, Borrowing
    <2>2. RowsKnown'
      BY <1>3, RefuseWellFormed DEF ClaimCopy, RowsKnown, TypeOK, MemoryFits
    <2>3. \A q \in Requests : MemoryFits(q)'
      BY <1>3, RefuseWellFormed DEF ClaimCopy, MemoryFits, Borrowing, TypeOK
    <2> QED BY <2>1, <2>2, <2>3
  <1>4. CASE CheckRetention(r)
    <2>1. TypeOK'
      BY <1>4, RefuseWellFormed
      DEF CheckRetention, TypeOK, Labels, Request
    <2>2. RowsKnown'
      BY <1>4, RefuseWellFormed DEF CheckRetention, RowsKnown, TypeOK, MemoryFits
    <2>3. \A q \in Requests : MemoryFits(q)'
      BY <1>4, RefuseWellFormed DEF CheckRetention, MemoryFits, Borrowing, TypeOK
    <2> QED BY <2>1, <2>2, <2>3
  <1>5. CASE LockBorrower(r)
    <2>1. TypeOK'
      BY <1>5
      DEF LockBorrower, TypeOK, Labels, Request
    <2>2. RowsKnown'
      BY <1>5 DEF LockBorrower, RowsKnown, TypeOK, MemoryFits
    <2>3. \A q \in Requests : MemoryFits(q)'
      BY <1>5 DEF LockBorrower, MemoryFits, Borrowing, TypeOK
    <2> QED BY <2>1, <2>2, <2>3
  <1>6. CASE CountActiveLoans(r)
    <2>1. TypeOK'
      BY <1>6, RefuseWellFormed
      DEF CountActiveLoans, TypeOK, Labels, Request
    <2>2. RowsKnown'
      BY <1>6, RefuseWellFormed DEF CountActiveLoans, RowsKnown, TypeOK, MemoryFits
    <2>3. \A q \in Requests : MemoryFits(q)'
      BY <1>6, RefuseWellFormed DEF CountActiveLoans, MemoryFits, Borrowing, TypeOK
    <2> QED BY <2>1, <2>2, <2>3
  <1>7. CASE InsertLoan(r)
    <2>1. TypeOK'
      <3>1. CASE Refuse(r)
        BY <3>1, RefuseWellFormed
      <3>2. CASE ~ Refuse(r)
        <4>1. PICK l \in LoanIds :
                 /\ loans' = [loans EXCEPT ![l] = [state |-> "open", copy |-> req[r].copy,
                                                  member |-> req[r].member]]
                 /\ req' = [req EXCEPT ![r] = [NoRequest EXCEPT !.loan = l]]
          BY <1>7, <3>2 DEF InsertLoan
        <4>2. loans' \in [LoanIds -> LoanRow]
          BY <1>7, <4>1 DEF InsertLoan, TypeOK, LoanRow, MemoryFits, Borrowing
        <4>3. req' \in [Requests -> Request]
          BY <4>1, NoRequestType DEF TypeOK, Request
        <4>4. res' \in [Tickets -> ReservationRow]
          BY <1>7, <3>2, InsertFulfils
        <4>5. status' \in [Copies -> CopyStatus \cup {"absent"}]
          BY <1>7, <3>2 DEF InsertLoan, TypeOK, CopyStatus
        <4> QED
          BY <1>7, <3>2, <4>2, <4>3, <4>4, <4>5, ReleaseLocksType DEF InsertLoan, TypeOK, Labels
      <3> QED BY <3>1, <3>2
    <2>2. RowsKnown'
      <3>1. CASE Refuse(r)
        BY <3>1, RefuseWellFormed
      <3>2. CASE ~ Refuse(r)
        <4>1. \A l \in LoanIds : loans'[l].state # "unused" =>
                 loans'[l].copy \in Copies /\ loans'[l].member \in Members
          BY <1>7, <3>2 DEF InsertLoan, TypeOK, RowsKnown, MemoryFits, Borrowing
        <4>2. \A t \in Tickets : res'[t].state # "unused" =>
                 res'[t].book \in Books /\ res'[t].member \in Members
          BY <1>7, <3>2, InsertFulfils DEF RowsKnown, OpenReservation
        <4>3. \A l \in LoanIds : loanLock'[l] # None => loans'[l].state # "unused"
          BY <1>7, <3>2, ReleaseLocksType DEF InsertLoan, RowsKnown, TypeOK
        <4> QED BY <4>1, <4>2, <4>3 DEF RowsKnown
      <3> QED BY <3>1, <3>2
    <2>3. \A q \in Requests : MemoryFits(q)'
      <3>1. CASE Refuse(r)
        BY <3>1, RefuseWellFormed
      <3>2. CASE ~ Refuse(r)
        <4>1. /\ pc' = [pc EXCEPT ![r] = "receipt"]
              /\ \E l \in LoanIds : req' = [req EXCEPT ![r] = [NoRequest EXCEPT !.loan = l]]
              /\ \A l \in LoanIds : loans[l].state # "unused" => loans'[l].state # "unused"
          BY <1>7, <3>2 DEF InsertLoan, TypeOK
        <4>2. MemoryFits(r)'
          BY <4>1 DEF MemoryFits, Borrowing, TypeOK, NoRequest
        <4> QED BY <4>1, <4>2, OthersMemory DEF TypeOK
      <3> QED BY <3>1, <3>2
    <2> QED BY <2>1, <2>2, <2>3
  <1>8. CASE QueueReceipt(r)
    <2>1. TypeOK'
      <3>1. mail' \subseteq Notices
        BY <1>8 DEF QueueReceipt, TypeOK, Notices, MemoryFits
      <3> QED BY <1>8, <3>1, NoRequestType DEF QueueReceipt, Finish, TypeOK, Labels
    <2>2. RowsKnown'
      BY <1>8 DEF QueueReceipt, Finish, RowsKnown, TypeOK, MemoryFits
    <2>3. \A q \in Requests : MemoryFits(q)'
      BY <1>8 DEF QueueReceipt, Finish, MemoryFits, Borrowing, TypeOK
    <2> QED BY <2>1, <2>2, <2>3
  <1>9. CASE StartReturn(r)
    <2>1. TypeOK'
      <3>1. \A l \in LoanIds : [NoRequest EXCEPT !.loan = l] \in Request
        BY DEF NoRequest, Request
      <3> QED BY <1>9, <3>1, RequestUpdate DEF StartReturn, Start, TypeOK, Labels
    <2>2. RowsKnown'
      BY <1>9 DEF StartReturn, Start, RowsKnown, TypeOK, MemoryFits
    <2>3. \A q \in Requests : MemoryFits(q)'
      BY <1>9 DEF StartReturn, Start, MemoryFits, Borrowing, TypeOK
    <2> QED BY <2>1, <2>2, <2>3
  <1>10. CASE CloseLoan(r)
    <2>1. TypeOK'
      BY <1>10, RefuseWellFormed DEF CloseLoan, TypeOK, Labels, MemoryFits
    <2>2. RowsKnown'
      BY <1>10, RefuseWellFormed DEF CloseLoan, RowsKnown, TypeOK, MemoryFits
    <2>3. \A q \in Requests : MemoryFits(q)'
      BY <1>10, RefuseWellFormed DEF CloseLoan, MemoryFits, Borrowing, TypeOK
    <2> QED BY <2>1, <2>2, <2>3
  <1>11. CASE ShelveCopy(r)
    <2> DEFINE c == loans[req[r].loan].copy
    <2>0. c \in Copies
      BY <1>11 DEF ShelveCopy, MemoryFits, RowsKnown
    <2>1. TypeOK'
      <3>1. [NoRequest EXCEPT !.book = BookOf[c]] \in Request
        BY <2>0 DEF NoRequest, Request
      <3>2. req' \in [Requests -> Request]
        BY <1>11, <3>1, RequestUpdate DEF ShelveCopy, TypeOK
      <3>3. loans' \in [LoanIds -> LoanRow]
        BY <1>11, LoansClosed
      <3>4. status' \in [Copies -> CopyStatus \cup {"absent"}]
        BY <1>11 DEF ShelveCopy, TypeOK, CopyStatus
      <3> QED BY <1>11, <3>2, <3>3, <3>4, ReleaseLocksType DEF ShelveCopy, TypeOK, Labels
    <2>2. RowsKnown'
      BY <1>11, ShelvedRows
    <2>3. \A q \in Requests : MemoryFits(q)'
      <3>1. /\ pc' = [pc EXCEPT ![r] = "promote"]
            /\ req' = [req EXCEPT ![r] = req'[r]]
            /\ \A k \in LoanIds : loans[k].state # "unused" => loans'[k].state # "unused"
        BY <1>11, ShelvedRows DEF ShelveCopy, TypeOK
      <3>2. MemoryFits(r)'
        BY <3>1 DEF MemoryFits, Borrowing, TypeOK
      <3> QED BY <3>1, <3>2, OthersMemory DEF TypeOK
    <2> QED BY <2>1, <2>2, <2>3
  <1>12. CASE PromoteNext(r)
    <2> DEFINE waiting == {t \in PendingOf(req[r].book) : Free(resLock, t)}
               t == First(waiting)
    <2>0. waiting # {} => t \in Tickets /\ t \in waiting
      BY FirstOfQueue DEF PendingOf, QueueOf
    <2>1. TypeOK'
      <3>1. CASE waiting = {}
        BY <1>12, <3>1, NoRequestType DEF PromoteNext, Finish, TypeOK, Labels
      <3>2. CASE waiting # {}
        <4>1. req' = [req EXCEPT ![r].ticket = t] /\ res' = [res EXCEPT ![t].state = "ready"]
          BY <1>12, <3>2 DEF PromoteNext
        <4>2. res' \in [Tickets -> ReservationRow]
          BY <4>1, <3>2, <2>0, ReservationUpdate DEF ReservationStatus, OpenReservation
        <4>3. req' \in [Requests -> Request]
          BY <4>1, <3>2, <2>0, RequestUpdate DEF TypeOK
        <4> QED BY <1>12, <3>2, <4>2, <4>3 DEF PromoteNext, TypeOK, Labels
      <3> QED BY <3>1, <3>2
    <2>2. RowsKnown'
      <3>1. CASE waiting = {}
        BY <1>12, <3>1 DEF PromoteNext, RowsKnown
      <3>2. CASE waiting # {}
        <4>1. /\ res' = [res EXCEPT ![t].state = "ready"]
              /\ UNCHANGED <<loans, loanLock>>
          BY <1>12, <3>2 DEF PromoteNext
        <4>2. t \in Tickets /\ t \in PendingOf(req[r].book)
          BY <3>2, <2>0
        <4>3. "ready" \in ReservationStatus \cup {"unused"}
          <5> HIDE DEF WellFormed, t
          <5> QED BY DEF ReservationStatus, OpenReservation
        <4>5. res[t].state = "pending"
          <5> HIDE DEF t
          <5> QED BY <4>2 DEF PendingOf
        <4>6. TypeOK /\ RowsKnown
          OBVIOUS
        <4>4. \A u \in Tickets :
                /\ res'[u].book = res[u].book /\ res'[u].member = res[u].member
                /\ res'[u].state # "unused" => res[u].state # "unused"
          <5> HIDE DEF t, WellFormed
          <5> QED BY <4>1, <4>2, <4>3, <4>5, <4>6, ReservationUpdate
        <4> QED
          <5> HIDE DEF t, WellFormed
          <5> QED BY <4>1, <4>4, <4>6 DEF RowsKnown
      <3> QED BY <3>1, <3>2
    <2>3. \A q \in Requests : MemoryFits(q)'
      <3>1. /\ pc' = [pc EXCEPT ![r] = pc'[r]] /\ pc'[r] \in {"idle", "notify"}
            /\ req' = [req EXCEPT ![r] = req'[r]] /\ UNCHANGED loans
            /\ pc'[r] = "notify" => req'[r].ticket \in Tickets
        BY <1>12, <2>0 DEF PromoteNext, Finish, TypeOK, Request
      <3>2. MemoryFits(r)'
        BY <3>1 DEF MemoryFits, Borrowing, TypeOK
      <3> QED BY <3>1, <3>2, OthersMemory DEF TypeOK
    <2> QED BY <2>1, <2>2, <2>3
  <1>13. CASE QueueReady(r)
    <2>1. TypeOK'
      <3>1. mail' \subseteq Notices
        BY <1>13 DEF QueueReady, TypeOK, Notices, MemoryFits
      <3> QED BY <1>13, <3>1, NoRequestType DEF QueueReady, Finish, TypeOK, Labels
    <2>2. RowsKnown'
      BY <1>13 DEF QueueReady, Finish, RowsKnown, TypeOK, MemoryFits
    <2>3. \A q \in Requests : MemoryFits(q)'
      BY <1>13 DEF QueueReady, Finish, MemoryFits, Borrowing, TypeOK
    <2> QED BY <2>1, <2>2, <2>3
  <1>14. CASE StartEdit(r)
    <2>1. TypeOK'
      <3>1. PICK c \in Copies, e \in Edits, label \in {"lost", "edit"} :
              Start(r, "edit", label,
                [NoRequest EXCEPT !.copy = c, !.want = e[1], !.wantPolicy = e[2]])
        BY <1>14 DEF StartEdit
      <3>2. [NoRequest EXCEPT !.copy = c, !.want = e[1], !.wantPolicy = e[2]] \in Request
        BY DEF NoRequest, Request
      <3> QED BY <3>1, <3>2 DEF Start, TypeOK, Labels
    <2>2. RowsKnown'
      BY <1>14 DEF StartEdit, Start, RowsKnown, TypeOK, MemoryFits
    <2>3. \A q \in Requests : MemoryFits(q)'
      BY <1>14 DEF StartEdit, Start, MemoryFits, Borrowing, TypeOK
    <2> QED BY <2>1, <2>2, <2>3
  <1>15. CASE CloseLostLoans(r)
    <2>1. TypeOK'
      BY <1>15
      DEF CloseLostLoans, TypeOK, Labels, Request
    <2>2. RowsKnown'
      BY <1>15 DEF CloseLostLoans, RowsKnown, OpenLoansOn, OpenLoans
    <2>3. \A q \in Requests : MemoryFits(q)'
      BY <1>15 DEF CloseLostLoans, MemoryFits, Borrowing, TypeOK
    <2> QED BY <2>1, <2>2, <2>3
  <1>16. CASE MarkLost(r)
    <2>1. TypeOK'
      <3>1. status' \in [Copies -> CopyStatus \cup {"absent"}]
        BY <1>16 DEF MarkLost, TypeOK, MemoryFits
      <3> QED
        BY <1>16, <3>1, LoansClosed, ReleaseLocksType, NoRequestType
        DEF MarkLost, Finish, TypeOK, Labels
    <2>2. RowsKnown'
      <3>1. \A l \in LoanIds : loans'[l].state # "unused" => loans[l].state # "unused"
        BY <1>16, LoansClosed DEF MarkLost, RowsKnown, MemoryFits
      <3>2. \A l \in LoanIds : loanLock'[l] # None => loanLock[l] # None
        BY <1>16, ReleaseLocksType DEF MarkLost
      <3>3. \A l \in LoanIds : loanLock'[l] # None => loans'[l].state # "unused"
        BY <1>16, <3>2, LoansClosed DEF RowsKnown
      <3> QED BY <1>16, <3>1, <3>3, LoansClosed DEF MarkLost, RowsKnown
    <2>3. \A q \in Requests : MemoryFits(q)'
      <3>1. /\ pc' = [pc EXCEPT ![r] = "idle"] /\ req' = [req EXCEPT ![r] = req'[r]]
            /\ \A l \in LoanIds : loans[l].state # "unused" => loans'[l].state # "unused"
        BY <1>16, LoansClosed DEF MarkLost, Finish, TypeOK
      <3>2. MemoryFits(r)'
        BY <3>1 DEF MemoryFits, Borrowing, TypeOK
      <3> QED BY <3>1, <3>2, OthersMemory DEF TypeOK
    <2> QED BY <2>1, <2>2, <2>3
  <1>17. CASE WriteCopy(r)
    <2>1. TypeOK'
      <3>1. status' \in [Copies -> CopyStatus \cup {"absent"}]
        BY <1>17 DEF WriteCopy, TypeOK, MemoryFits, Coalesce, Request
      <3>2. policy' \in [Copies -> LoanPolicy]
        BY <1>17 DEF WriteCopy, TypeOK, MemoryFits, Coalesce, Request
      <3> QED BY <1>17, <3>1, <3>2, NoRequestType DEF WriteCopy, Finish, TypeOK, Labels
    <2>2. RowsKnown'
      BY <1>17 DEF WriteCopy, Finish, RowsKnown, TypeOK, MemoryFits
    <2>3. \A q \in Requests : MemoryFits(q)'
      BY <1>17 DEF WriteCopy, Finish, MemoryFits, Borrowing, TypeOK
    <2> QED BY <2>1, <2>2, <2>3
  <1>18. CASE StartReserve(r)
    <2>1. TypeOK'
      <3>1. PICK b \in Books, m \in Members :
              req' = [req EXCEPT ![r] =
                [NoRequest EXCEPT !.book = b, !.member = m, !.ticket = nextTicket]]
        BY <1>18 DEF StartReserve
      <3>2. [NoRequest EXCEPT !.book = b, !.member = m, !.ticket = nextTicket] \in Request
        BY <1>18 DEF StartReserve, NoRequest, Request
      <3>3. nextTicket' \in 1 .. (MaxTickets + 1)
        BY <1>18 DEF StartReserve, Tickets
      <3> QED BY <1>18, <3>1, <3>2, <3>3 DEF StartReserve, TypeOK, Labels
    <2>2. RowsKnown'
      BY <1>18 DEF StartReserve, RowsKnown, TypeOK, MemoryFits
    <2>3. \A q \in Requests : MemoryFits(q)'
      BY <1>18 DEF StartReserve, MemoryFits, Borrowing, TypeOK
    <2> QED BY <2>1, <2>2, <2>3
  <1>19. CASE CheckStock(r)
    <2>1. TypeOK'
      BY <1>19, RefuseWellFormed
      DEF CheckStock, TypeOK, Labels, Request
    <2>2. RowsKnown'
      BY <1>19, RefuseWellFormed DEF CheckStock, RowsKnown, TypeOK, MemoryFits
    <2>3. \A q \in Requests : MemoryFits(q)'
      BY <1>19, RefuseWellFormed DEF CheckStock, MemoryFits, Borrowing, TypeOK
    <2> QED BY <2>1, <2>2, <2>3
  <1>20. CASE Enqueue(r)
    <2>1. TypeOK'
      <3>1. CASE Refuse(r)
        BY <3>1, RefuseWellFormed
      <3>2. CASE ~ Refuse(r)
        <4>1. [state |-> "pending", book |-> req[r].book, member |-> req[r].member,
               lapsed |-> FALSE] \in ReservationRow
          BY <1>20 DEF Enqueue, MemoryFits, ReservationRow, ReservationStatus, OpenReservation
        <4>2. res' \in [Tickets -> ReservationRow]
          BY <1>20, <3>2, <4>1 DEF Enqueue, TypeOK
        <4> QED BY <1>20, <3>2, <4>2, NoRequestType DEF Enqueue, Finish, TypeOK, Labels
      <3> QED BY <3>1, <3>2
    <2>2. RowsKnown'
      BY <1>20, RefuseWellFormed DEF Enqueue, Finish, RowsKnown, TypeOK, MemoryFits
    <2>3. \A q \in Requests : MemoryFits(q)'
      BY <1>20, RefuseWellFormed DEF Enqueue, Finish, MemoryFits, Borrowing, TypeOK
    <2> QED BY <2>1, <2>2, <2>3
  <1>21. CASE Cancel(r)
    <2>0. PICK t \in Tickets :
            /\ res[t].state \in OpenReservation
            /\ res' = [res EXCEPT ![t].state = "cancelled"]
            /\ \/ /\ req' = [req EXCEPT ![r] = [NoRequest EXCEPT !.book = res[t].book]]
                  /\ pc' = [pc EXCEPT ![r] = "promote"]
               \/ UNCHANGED <<pc, req>>
      BY <1>21 DEF Cancel
    <2>1. TypeOK'
      <3>1. res' \in [Tickets -> ReservationRow]
        BY <2>0, ReservationUpdate DEF ReservationStatus
      <3>2. [NoRequest EXCEPT !.book = res[t].book] \in Request
        BY DEF NoRequest, Request, TypeOK, ReservationRow
      <3>3. req' \in [Requests -> Request]
        BY <2>0, <3>2 DEF TypeOK
      <3> QED BY <1>21, <2>0, <3>1, <3>3 DEF Cancel, TypeOK, Labels
    <2>2. RowsKnown'
      BY <1>21, <2>0, ReservationUpdate DEF Cancel, RowsKnown, ReservationStatus, OpenReservation
    <2>3. \A q \in Requests : MemoryFits(q)'
      BY <1>21 DEF Cancel, MemoryFits, Borrowing, TypeOK
    <2> QED BY <2>1, <2>2, <2>3
  <1> QED
    BY <1>1, <1>2, <1>3, <1>4, <1>5, <1>6, <1>7, <1>8, <1>9, <1>10, <1>11, <1>12, <1>13, <1>14, <1>15, <1>16, <1>17, <1>18, <1>19, <1>20, <1>21
    DEF Step, Borrow, Return, EditCopy, Reserve

(* The library's doors, clock and accounts leave it well formed too. *)
LEMMA NextWellFormed ==
  ASSUME WellFormed, [Next]_vars
  PROVE  WellFormed'
  <1> USE CirculationAssumption DEF WellFormed
  <1>1. ASSUME NEW r \in Requests, Step(r) PROVE WellFormed'
    BY <1>1, StepWellFormed
  <1>2. ASSUME NEW r \in Requests, DeadlockVictim(r) \/ Abandon(r) PROVE WellFormed'
    BY <1>2, RefuseWellFormed DEF DeadlockVictim, Abandon
  <1>3. CASE AddCopy
    <2>1. TypeOK'
      BY <1>3 DEF AddCopy, TypeOK, locks, CopyStatus
    <2>2. UNCHANGED <<loans, res, loanLock, pc, req>>
      BY <1>3 DEF AddCopy, locks
    <2> QED BY <2>1, <2>2, SameMemory
  <1>4. CASE HoldLapses
    <2>1. /\ res' \in [Tickets -> ReservationRow]
          /\ \A t \in Tickets :
               /\ res'[t].state = res[t].state
               /\ res'[t].book = res[t].book /\ res'[t].member = res[t].member
      <3>1. PICK t \in Tickets : res' = [res EXCEPT ![t].lapsed = TRUE]
        BY <1>4 DEF HoldLapses
      <3>4. res \in [Tickets -> ReservationRow]
        BY DEF TypeOK
      <3> HIDE DEF WellFormed
      <3>2. res'[t] = [res[t] EXCEPT !.lapsed = TRUE] /\ res[t] \in ReservationRow
        BY <3>1, <3>4
      <3>3. /\ res'[t] \in ReservationRow /\ res'[t].state = res[t].state
            /\ res'[t].book = res[t].book /\ res'[t].member = res[t].member
        BY <3>2 DEF ReservationRow
      <3> QED BY <3>1, <3>3, <3>4
    <2>2. TypeOK'
      BY <1>4, <2>1 DEF HoldLapses, TypeOK, locks
    <2>3. UNCHANGED <<loans, loanLock, pc, req>>
      BY <1>4 DEF HoldLapses, locks
    <2> QED BY <2>1, <2>2, <2>3, SameMemory
  <1>5. CASE ExpireStale
    <2>1. /\ res' \in [Tickets -> ReservationRow]
          /\ \A t \in Tickets :
               /\ res'[t].state # "unused" => res[t].state # "unused"
               /\ res'[t].book = res[t].book /\ res'[t].member = res[t].member
      <3>1. \A t \in Tickets : res'[t] = IF StaleHold(t)
                                         THEN [res[t] EXCEPT !.state = "expired"] ELSE res[t]
        BY <1>5 DEF ExpireStale
      <3>2. \A t \in Tickets : res'[t] \in ReservationRow
        <4>1. \A t \in Tickets : res[t] \in ReservationRow
          BY DEF TypeOK
        <4> HIDE DEF WellFormed
        <4>2. \A row \in ReservationRow : [row EXCEPT !.state = "expired"] \in ReservationRow
          BY DEF ReservationRow, ReservationStatus
        <4> QED BY <3>1, <4>1, <4>2
      <3>3. res' = [t \in Tickets |-> res'[t]]
        BY <1>5 DEF ExpireStale
      <3>4. \A t \in Tickets : res[t] \in ReservationRow /\ (StaleHold(t) => res[t].state # "unused")
        BY DEF StaleHold, TypeOK
      <3>5. \A row \in ReservationRow : LET to == [row EXCEPT !.state = "expired"]
                                        IN  to.book = row.book /\ to.member = row.member
        BY DEF ReservationRow
      <3> HIDE DEF WellFormed
      <3> QED BY <3>1, <3>2, <3>3, <3>4, <3>5
    <2>2. TypeOK'
      BY <1>5, <2>1 DEF ExpireStale, TypeOK, locks
    <2>3. UNCHANGED <<loans, loanLock, pc, req>>
      BY <1>5 DEF ExpireStale, locks
    <2> QED BY <2>1, <2>2, <2>3, SameMemory
  <1>6. CASE SetStatus
    <2>1. TypeOK'
      BY <1>6 DEF SetStatus, TypeOK, locks
    <2>2. UNCHANGED <<loans, res, loanLock, pc, req>>
      BY <1>6 DEF SetStatus, locks
    <2> QED BY <2>1, <2>2, SameMemory
  <1>7. CASE SetCategory
    <2>1. TypeOK'
      BY <1>7 DEF SetCategory, TypeOK, locks
    <2>2. UNCHANGED <<loans, res, loanLock, pc, req>>
      BY <1>7 DEF SetCategory, locks
    <2> QED BY <2>1, <2>2, SameMemory
  <1>8. CASE UNCHANGED vars
    <2>1. TypeOK'
      BY <1>8 DEF TypeOK, vars, tables, locks
    <2>2. UNCHANGED <<loans, res, loanLock, pc, req>>
      BY <1>8 DEF vars, tables, locks
    <2> QED BY <2>1, <2>2, SameMemory
  <1> QED BY <1>1, <1>2, <1>3, <1>4, <1>5, <1>6, <1>7, <1>8 DEF Next

(* An empty desk is well formed. *)
LEMMA InitWellFormed == Init => WellFormed
  <1> SUFFICES ASSUME Init PROVE WellFormed
    OBVIOUS
  <1> USE CirculationAssumption
  <1>1. TypeOK
    <2>1. loans \in [LoanIds -> LoanRow]
      BY DEF Init, NoLoan, LoanRow
    <2>2. res \in [Tickets -> ReservationRow]
      BY DEF Init, NoReservation, ReservationRow
    <2> QED
      BY <2>1, <2>2, NoRequestType
      DEF Init, TypeOK, CopyStatus, LoanPolicy, UserStatus, Labels
  <1>2. RowsKnown
    BY DEF Init, RowsKnown, NoLoan, NoReservation
  <1>3. \A r \in Requests : MemoryFits(r)
    BY DEF Init, MemoryFits, Borrowing
  <1> QED BY <1>1, <1>2, <1>3 DEF WellFormed

(* The desk is well formed in every state it reaches. *)
LEMMA AlwaysWellFormed == Spec => []WellFormed
  BY InitWellFormed, NextWellFormed, PTL DEF Spec

(* The columns and locks of the desk keep their types, whatever is asked of it *)
(* and in whatever order the statements of the requests are executed. *)
THEOREM TypesKept == Spec => []TypeOK
  <1>1. WellFormed => TypeOK
    BY DEF WellFormed
  <1> QED BY <1>1, AlwaysWellFormed, PTL

-----------------------------------------------------------------------------
(* What a step may do to the loans, to the other requests and to their locks. *)

(* A borrow that commits opens one loan, of a copy nobody had open. *)
LEMMA InsertOpens ==
  ASSUME WellFormed, NEW r \in Requests, InsertLoan(r), ~ Refuse(r)
  PROVE  \E l \in LoanIds :
           /\ loans[l].state = "unused" /\ OpenLoansOn(req[r].copy) = {}
           /\ loans'[l] = [state |-> "open", copy |-> req[r].copy, member |-> req[r].member]
           /\ \A k \in LoanIds \ {l} : loans'[k] = loans[k]
  BY DEF WellFormed, TypeOK, InsertLoan, OneActiveLoanPerCopy

(* Any other step leaves a loan as it was or closes it. *)
LEMMA OthersOnlyClose ==
  ASSUME WellFormed, [Next]_vars, \A r \in Requests : InsertLoan(r) => Refuse(r)
  PROVE  \A l \in LoanIds :
           /\ loans'[l].copy = loans[l].copy /\ loans'[l].member = loans[l].member
           /\ loans'[l].state \in {loans[l].state, "closed"}
  <1>1. ASSUME NEW r \in Requests, ShelveCopy(r) \/ MarkLost(r)
        PROVE  \A l \in LoanIds :
                 /\ loans'[l].copy = loans[l].copy /\ loans'[l].member = loans[l].member
                 /\ loans'[l].state \in {loans[l].state, "closed"}
    BY <1>1, LoansClosed
  <1>2. CASE UNCHANGED loans
    BY <1>2
  <1>3. ASSUME NEW r \in Requests, Borrow(r) PROVE UNCHANGED loans
    BY <1>3 DEF Borrow, StartBorrow, CheckHead, ClaimCopy, CheckRetention, LockBorrower,
       CountActiveLoans, InsertLoan, QueueReceipt, Refuse, Start, tables
  <1>4. ASSUME NEW r \in Requests, Return(r) PROVE ShelveCopy(r) \/ UNCHANGED loans
    BY <1>4 DEF Return, StartReturn, CloseLoan, PromoteNext, QueueReady, Refuse, Start, tables
  <1>5. ASSUME NEW r \in Requests, EditCopy(r) PROVE MarkLost(r) \/ UNCHANGED loans
    BY <1>5 DEF EditCopy, StartEdit, CloseLostLoans, WriteCopy, Start, tables
  <1>6. ASSUME NEW r \in Requests, Reserve(r) \/ Cancel(r) PROVE UNCHANGED loans
    BY <1>6 DEF Reserve, StartReserve, CheckStock, Enqueue, Cancel, Refuse, tables
  <1>7. ASSUME NEW r \in Requests, DeadlockVictim(r) \/ Abandon(r) PROVE UNCHANGED loans
    BY <1>7 DEF DeadlockVictim, Abandon, Refuse, tables
  <1>8. CASE AddCopy \/ HoldLapses \/ ExpireStale \/ SetStatus \/ SetCategory \/ UNCHANGED vars
    BY <1>8 DEF AddCopy, HoldLapses, ExpireStale, SetStatus, SetCategory, vars, tables
  <1> QED BY <1>1, <1>2, <1>3, <1>4, <1>5, <1>6, <1>7, <1>8 DEF Next, Step

(* A step of one request changes neither the memory nor the locks of another: *)
(* a lock is taken when it is free and released by its holder. *)
Apart(r, q) ==
  /\ pc'[q] = pc[q] /\ req'[q] = req[q]
  /\ \A c \in Copies : copyLock'[c] = q <=> copyLock[c] = q
  /\ \A l \in LoanIds : loanLock'[l] = q <=> loanLock[l] = q
  /\ \A t \in Tickets : resLock'[t] = q <=> resLock[t] = q
  /\ \A m \in Members : userLock'[m] = q <=> userLock[m] = q

(* A request that is refused leaves the memory and the locks of another alone. *)
LEMMA RefuseApart ==
  ASSUME WellFormed, NEW r \in Requests, NEW q \in Requests \ {r}, Refuse(r)
  PROVE  Apart(r, q)
  BY ReleaseLocksType, CirculationAssumption
  DEF Apart, Refuse, Finish, Goto, WellFormed, TypeOK

(* So does every other step of a request. *)
LEMMA StepApart ==
  ASSUME WellFormed, NEW r \in Requests, NEW q \in Requests \ {r}, Step(r)
  PROVE  Apart(r, q)
  <1> USE RefuseApart, ReleaseLocksType, CirculationAssumption
          DEF WellFormed, TypeOK, Apart, Goto, Finish, locks
  <1>1. CASE StartBorrow(r)
    BY <1>1 DEF StartBorrow, Start
  <1>2. CASE CheckHead(r)
    BY <1>2 DEF CheckHead, LockHead, Free
  <1>3. CASE ClaimCopy(r)
    BY <1>3 DEF ClaimCopy, LockCopy, Free
  <1>4. CASE CheckRetention(r)
    BY <1>4 DEF CheckRetention
  <1>5. CASE LockBorrower(r)
    BY <1>5 DEF LockBorrower, Free
  <1>6. CASE CountActiveLoans(r)
    BY <1>6 DEF CountActiveLoans
  <1>7. CASE InsertLoan(r)
    BY <1>7 DEF InsertLoan
  <1>8. CASE QueueReceipt(r)
    BY <1>8 DEF QueueReceipt
  <1>9. CASE StartReturn(r)
    BY <1>9 DEF StartReturn, Start
  <1>10. CASE CloseLoan(r)
    BY <1>10 DEF CloseLoan, Free
  <1>11. CASE ShelveCopy(r)
    BY <1>11 DEF ShelveCopy
  <1>12. CASE PromoteNext(r)
    BY <1>12 DEF PromoteNext
  <1>13. CASE QueueReady(r)
    BY <1>13 DEF QueueReady
  <1>14. CASE StartEdit(r)
    BY <1>14 DEF StartEdit, Start
  <1>15. CASE CloseLostLoans(r)
    BY <1>15 DEF CloseLostLoans, Free
  <1>16. CASE MarkLost(r)
    BY <1>16 DEF MarkLost
  <1>17. CASE WriteCopy(r)
    BY <1>17 DEF WriteCopy
  <1>18. CASE StartReserve(r)
    BY <1>18 DEF StartReserve
  <1>19. CASE CheckStock(r)
    BY <1>19 DEF CheckStock
  <1>20. CASE Enqueue(r)
    BY <1>20 DEF Enqueue
  <1>21. CASE Cancel(r)
    BY <1>21 DEF Cancel
  <1> QED
    BY <1>1, <1>2, <1>3, <1>4, <1>5, <1>6, <1>7, <1>8, <1>9, <1>10, <1>11, <1>12, <1>13, <1>14, <1>15, <1>16, <1>17, <1>18, <1>19, <1>20, <1>21
    DEF Step, Borrow, Return, EditCopy, Reserve

(* A loan row is never deleted or rewritten and a closed loan never opens     *)
(* again: whichever of a return and a report of loss comes second finds the   *)
(* loan closed and leaves it so. *)
THEOREM HistoryKept == Spec => LoanHistoryKept
  <1>1. ASSUME WellFormed, [Next]_vars, NEW l \in LoanIds, loans[l].state # "unused"
        PROVE  /\ loans'[l].copy = loans[l].copy /\ loans'[l].member = loans[l].member
               /\ loans'[l].state # "unused"
               /\ loans[l].state = "closed" => loans'[l].state = "closed"
    <2>1. CASE \E r \in Requests : InsertLoan(r) /\ ~ Refuse(r)
      BY <1>1, <2>1, InsertOpens
    <2>2. CASE \A r \in Requests : InsertLoan(r) => Refuse(r)
      BY <1>1, <2>2, OthersOnlyClose
    <2> QED BY <2>1, <2>2
  <1>2. WellFormed /\ [Next]_vars =>
          [\A l \in LoanIds :
             loans[l].state # "unused" =>
               /\ loans'[l].copy = loans[l].copy /\ loans'[l].member = loans[l].member
               /\ loans'[l].state # "unused"
               /\ loans[l].state = "closed" => loans'[l].state = "closed"]_vars
    BY <1>1
  <1> QED BY <1>2, AlwaysWellFormed, PTL DEF Spec, LoanHistoryKept

(* I-01, for any number of desks, returns and edits: one open loan of a copy. *)
THEOREM OneOpenLoan == Spec => []OneOpenLoanPerCopy
  <1>1. Init => OneOpenLoanPerCopy
    BY DEF Init, OneOpenLoanPerCopy, OpenLoansOn, OpenLoans, NoLoan
  <1>2. ASSUME WellFormed, OneOpenLoanPerCopy, [Next]_vars PROVE OneOpenLoanPerCopy'
    <2>1. ASSUME NEW r \in Requests, InsertLoan(r), ~ Refuse(r) PROVE OneOpenLoanPerCopy'
      <3>1. PICK l \in LoanIds :
              /\ loans[l].state = "unused" /\ OpenLoansOn(req[r].copy) = {}
              /\ loans'[l] = [state |-> "open", copy |-> req[r].copy, member |-> req[r].member]
              /\ \A k \in LoanIds \ {l} : loans'[k] = loans[k]
        BY <1>2, <2>1, InsertOpens
      <3>2. \A c \in Copies : OpenLoansOn(c)' =
              OpenLoansOn(c) \cup IF c = req[r].copy THEN {l} ELSE {}
        BY <3>1 DEF OpenLoansOn, OpenLoans
      <3> QED BY <1>2, <3>1, <3>2 DEF OneOpenLoanPerCopy
    <2>2. CASE \A r \in Requests : InsertLoan(r) => Refuse(r)
      BY <1>2, <2>2, OthersOnlyClose DEF OneOpenLoanPerCopy, OpenLoansOn, OpenLoans
    <2> QED BY <2>1, <2>2
  <1> QED BY <1>1, <1>2, AlwaysWellFormed, PTL DEF Spec

-----------------------------------------------------------------------------
(* The loan limit.  A borrow counts the member's loans while it holds the     *)
(* member's row, and the count stays good until it commits because nobody     *)
(* else can be past the same row.                                             *)

CountStands(r) ==
  /\ r \in Borrowing => req[r].limit <= peak[req[r].member]
  /\ pc[r] \in {"count", "insert"} => userLock[req[r].member] = r
  /\ pc[r] = "insert" => Cardinality(OpenLoansOf(req[r].member)) < req[r].limit

LimitInv ==
  /\ LoanLimit
  /\ \A m \in Members : MaxLoans[category[m]] <= peak[m]
  /\ \A r \in Requests : CountStands(r)

(* The open loans of a member are finitely many; when loans are only closed   *)
(* they do not become more, and a new loan of the member is one more.         *)
LEMMA OpenLoansFinite ==
  \A m \in Members : IsFiniteSet(OpenLoansOf(m)) /\ Cardinality(OpenLoansOf(m)) \in Nat
  BY CirculationAssumption, FS_Subset, FS_CardinalityType DEF OpenLoansOf, OpenLoans

(* A step that only closes loans does not add to a member's open loans. *)
LEMMA ClosingLowersCount ==
  ASSUME \A l \in LoanIds : /\ loans'[l].member = loans[l].member
                            /\ loans'[l].state \in {loans[l].state, "closed"},
         NEW m \in Members
  PROVE  /\ Cardinality(OpenLoansOf(m)') <= Cardinality(OpenLoansOf(m))
         /\ Cardinality(OpenLoansOf(m)') \in Nat
  <1>1. OpenLoansOf(m)' \subseteq OpenLoansOf(m)
    BY DEF OpenLoansOf, OpenLoans
  <1> QED BY <1>1, OpenLoansFinite, FS_Subset, FS_CardinalityType

(* A step that opens one loan adds it to its member's open loans and to no other's. *)
LEMMA OpeningRaisesCount ==
  ASSUME NEW l \in LoanIds, loans[l].state = "unused", NEW m \in Members,
         loans'[l].state = "open", \A k \in LoanIds \ {l} : loans'[k] = loans[k]
  PROVE  Cardinality(OpenLoansOf(m)') =
           Cardinality(OpenLoansOf(m)) + IF loans'[l].member = m THEN 1 ELSE 0
  <1>1. CASE loans'[l].member = m
    <2>1. OpenLoansOf(m)' = OpenLoansOf(m) \cup {l} /\ l \notin OpenLoansOf(m)
      BY <1>1 DEF OpenLoansOf, OpenLoans
    <2> QED BY <1>1, <2>1, OpenLoansFinite, FS_AddElement
  <1>2. CASE loans'[l].member # m
    <2>1. OpenLoansOf(m)' = OpenLoansOf(m)
      BY <1>2 DEF OpenLoansOf, OpenLoans
    <2> QED BY <1>2, <2>1, OpenLoansFinite
  <1> QED BY <1>1, <1>2

(* A member's largest entitlement covers the present one and never shrinks. *)
LEMMA PeakGrows ==
  ASSUME WellFormed, \A m \in Members : MaxLoans[category[m]] <= peak[m], [Next]_vars
  PROVE  \A m \in Members : peak[m] <= peak'[m] /\ MaxLoans[category'[m]] <= peak'[m]
  <1> USE CirculationAssumption DEF WellFormed, TypeOK
  <1>1. CASE SetCategory
    <2>1. PICK m \in Members, k \in Categories :
            /\ category' = [category EXCEPT ![m] = k]
            /\ peak' = [peak EXCEPT ![m] = IF MaxLoans[k] > @ THEN MaxLoans[k] ELSE @]
      BY <1>1 DEF SetCategory
    <2> QED BY <2>1
  <1>2. CASE UNCHANGED <<category, peak>>
    BY <1>2
  <1>3. ASSUME NEW r \in Requests, Step(r) PROVE UNCHANGED <<category, peak>>
    <2>1. CASE Borrow(r)
      BY <2>1 DEF Borrow, StartBorrow, CheckHead, ClaimCopy, CheckRetention, LockBorrower,
         CountActiveLoans, InsertLoan, QueueReceipt, Refuse, Start, tables
    <2>2. CASE Return(r)
      BY <2>2 DEF Return, StartReturn, CloseLoan, ShelveCopy, PromoteNext, QueueReady,
         Refuse, Start, tables
    <2>3. CASE EditCopy(r)
      BY <2>3 DEF EditCopy, StartEdit, CloseLostLoans, MarkLost, WriteCopy, Start, tables
    <2>4. CASE Reserve(r) \/ Cancel(r)
      BY <2>4 DEF Reserve, StartReserve, CheckStock, Enqueue, Cancel, Refuse, tables
    <2> QED BY <1>3, <2>1, <2>2, <2>3, <2>4 DEF Step
  <1>4. ASSUME NEW r \in Requests, DeadlockVictim(r) \/ Abandon(r)
        PROVE  UNCHANGED <<category, peak>>
    BY <1>4 DEF DeadlockVictim, Abandon, Refuse, tables
  <1>5. CASE AddCopy \/ HoldLapses \/ ExpireStale \/ SetStatus \/ UNCHANGED vars
    BY <1>5 DEF AddCopy, HoldLapses, ExpireStale, SetStatus, vars, tables
  <1> QED BY <1>1, <1>2, <1>3, <1>4, <1>5 DEF Next

(* While nobody opens a loan, what a borrow counted stays good. *)
LEMMA CountOutlivesOthers ==
  ASSUME WellFormed, LimitInv, [Next]_vars, NEW q \in Requests,
         pc'[q] = pc[q], req'[q] = req[q],
         \A m \in Members : userLock[m] = q => userLock'[m] = q,
         \A m \in Members : /\ Cardinality(OpenLoansOf(m)') <= Cardinality(OpenLoansOf(m))
                            /\ Cardinality(OpenLoansOf(m)') \in Nat
  PROVE  CountStands(q)'
  <1>1. pc[q] = "insert" \/ pc[q] \in {"count", "insert"} => q \in Borrowing
    BY DEF Borrowing
  <1>2. CASE q \in Borrowing
    <2>1. req[q].member \in Members /\ req[q].limit \in Nat
      BY <1>2 DEF WellFormed, MemoryFits, TypeOK, Request
    <2>2. /\ peak[req[q].member] <= peak'[req[q].member]
          /\ peak[req[q].member] \in Nat /\ peak'[req[q].member] \in Nat
      BY <2>1, PeakGrows, NextWellFormed DEF LimitInv, WellFormed, TypeOK
    <2>3. Cardinality(OpenLoansOf(req[q].member)) \in Nat
      BY <2>1, OpenLoansFinite
    <2> QED BY <1>2, <2>1, <2>2, <2>3 DEF LimitInv, CountStands, Borrowing
  <1>3. CASE q \notin Borrowing
    BY <1>3 DEF CountStands, Borrowing
  <1> QED BY <1>2, <1>3

(* What each statement of a borrow establishes for the next. *)
LEMMA StepEstablishesCount ==
  ASSUME WellFormed, LimitInv, NEW r \in Requests, Step(r), ~ InsertLoan(r)
  PROVE  CountStands(r)'
  <1> USE DEF Goto, At, Finish
  <1>1. CASE StartBorrow(r)
    <2>1. PICK c \in Copies, m \in Members :
            Start(r, "borrow", "head",
              [NoRequest EXCEPT !.copy = c, !.member = m, !.limit = MaxLoans[category[m]]])
      BY <1>1 DEF StartBorrow
    <2>2. /\ pc'[r] = "head" /\ UNCHANGED peak
          /\ req'[r].limit = MaxLoans[category[m]] /\ req'[r].member = m
      BY <2>1 DEF Start, NoRequest, WellFormed, TypeOK, tables
    <2> QED BY <2>2 DEF LimitInv, CountStands
  <1>2. ASSUME CheckHead(r) \/ ClaimCopy(r) \/ CheckRetention(r), ~ Refuse(r)
        PROVE  CountStands(r)'
    <2>1. /\ pc'[r] \in {"claim", "retain", "borrower"} /\ r \in Borrowing
          /\ req'[r].limit = req[r].limit /\ req'[r].member = req[r].member
          /\ UNCHANGED peak
      BY <1>2 DEF CheckHead, ClaimCopy, CheckRetention, Borrowing, WellFormed, TypeOK,
         Request, tables
    <2> QED BY <2>1 DEF LimitInv, CountStands
  <1>3. CASE LockBorrower(r)
    <2>1. /\ pc'[r] = "count" /\ r \in Borrowing /\ UNCHANGED <<peak, req>>
          /\ userLock'[req[r].member] = r
      BY <1>3 DEF LockBorrower, Borrowing, WellFormed, TypeOK, MemoryFits, tables
    <2> QED BY <2>1 DEF LimitInv, CountStands
  <1>4. ASSUME CountActiveLoans(r), ~ Refuse(r) PROVE CountStands(r)'
    <2>1. /\ pc'[r] = "insert" /\ pc[r] = "count" /\ r \in Borrowing
          /\ UNCHANGED <<peak, req, userLock, loans>>
          /\ ~ Cardinality(OpenLoansOf(req[r].member)) >= req[r].limit
      BY <1>4 DEF CountActiveLoans, LimitReached, Borrowing, WellFormed, TypeOK, tables, locks
    <2>2. /\ Cardinality(OpenLoansOf(req[r].member)) \in Nat
          /\ req[r].limit \in Nat
      BY <2>1, OpenLoansFinite DEF WellFormed, MemoryFits, TypeOK, Request
    <2>3. OpenLoansOf(req[r].member)' = OpenLoansOf(req[r].member)
      BY <2>1 DEF OpenLoansOf, OpenLoans
    <2> QED BY <2>1, <2>2, <2>3 DEF LimitInv, CountStands
  <1>5. CASE Refuse(r)
    BY <1>5 DEF Refuse, CountStands, Borrowing, WellFormed, TypeOK
  <1>6. CASE QueueReceipt(r) \/ Return(r)
    BY <1>5, <1>6 DEF QueueReceipt, Return, StartReturn, CloseLoan, ShelveCopy, PromoteNext,
       QueueReady, Start, CountStands, Borrowing, WellFormed, TypeOK
  <1>7. CASE EditCopy(r)
    BY <1>7 DEF EditCopy, StartEdit, CloseLostLoans, MarkLost, WriteCopy, Start,
       CountStands, Borrowing, WellFormed, TypeOK
  <1>8. CASE Reserve(r) \/ Cancel(r)
    BY <1>5, <1>8 DEF Reserve, StartReserve, CheckStock, Enqueue, Cancel, CountStands,
       Borrowing, WellFormed, TypeOK
  <1> QED BY <1>1, <1>2, <1>3, <1>4, <1>5, <1>6, <1>7, <1>8 DEF Step, Borrow

(* The loan a borrow opens is within the limit it read, and nobody else can be *)
(* counting the same member's loans. *)
LEMMA InsertWithinLimit ==
  ASSUME WellFormed, LimitInv, NEW r \in Requests, InsertLoan(r), ~ Refuse(r), [Next]_vars
  PROVE  LimitInv'
  <1> DEFINE b == req[r].member
  <1>1. /\ r \in Borrowing /\ pc[r] = "insert" /\ b \in Members /\ req[r].limit \in Nat
    BY DEF InsertLoan, At, Borrowing, WellFormed, MemoryFits, TypeOK, Request
  <1>2. PICK l \in LoanIds :
          /\ loans[l].state = "unused" /\ OpenLoansOn(req[r].copy) = {}
          /\ loans'[l] = [state |-> "open", copy |-> req[r].copy, member |-> b]
          /\ \A k \in LoanIds \ {l} : loans'[k] = loans[k]
    BY InsertOpens
  <1>3. \A m \in Members :
          /\ Cardinality(OpenLoansOf(m)) \in Nat
          /\ Cardinality(OpenLoansOf(m)') = Cardinality(OpenLoansOf(m)) + IF b = m THEN 1 ELSE 0
    <2>1. loans'[l].state = "open" /\ loans'[l].member = b
      BY <1>2
    <2> QED BY <1>2, <2>1, OpeningRaisesCount, OpenLoansFinite
  <1>4. \A m \in Members : /\ peak[m] <= peak'[m] /\ MaxLoans[category'[m]] <= peak'[m]
                           /\ peak[m] \in Nat /\ peak'[m] \in Nat
    BY PeakGrows, NextWellFormed DEF LimitInv, WellFormed, TypeOK
  <1>5. LoanLimit'
    <2>1. Cardinality(OpenLoansOf(b)) < req[r].limit /\ req[r].limit <= peak[b]
      BY <1>1 DEF LimitInv, CountStands
    <2> QED BY <1>1, <1>3, <1>4, <2>1 DEF LimitInv, LoanLimit
  <1>6. CountStands(r)'
    <2>1. pc'[r] = "receipt"
      BY DEF InsertLoan, Goto, WellFormed, TypeOK
    <2> QED BY <2>1 DEF CountStands, Borrowing
  <1>7. ASSUME NEW q \in Requests \ {r} PROVE CountStands(q)'
    <2>1. Apart(r, q)
      BY StepApart DEF Step, Borrow
    <2>2. CASE q \in Borrowing
      <3>1. req[q].member \in Members /\ req[q].limit \in Nat
        BY <2>2 DEF WellFormed, MemoryFits, TypeOK, Request
      <3>2. pc[q] \in {"count", "insert"} => req[q].member # b
        BY <1>1, <1>7 DEF LimitInv, CountStands
      <3> QED
        BY <1>3, <1>4, <2>1, <2>2, <3>1, <3>2 DEF Apart, LimitInv, CountStands, Borrowing
    <2>3. CASE q \notin Borrowing
      BY <2>1, <2>3 DEF Apart, CountStands, Borrowing
    <2> QED BY <2>2, <2>3
  <1> QED BY <1>4, <1>5, <1>6, <1>7 DEF LimitInv

(* Every step keeps the limit invariant. *)
LEMMA LimitStep ==
  ASSUME WellFormed, LimitInv, [Next]_vars
  PROVE  LimitInv'
  <1>1. CASE \E r \in Requests : InsertLoan(r) /\ ~ Refuse(r)
    BY <1>1, InsertWithinLimit
  <1>2. CASE \A r \in Requests : InsertLoan(r) => Refuse(r)
    <2>1. \A m \in Members : /\ Cardinality(OpenLoansOf(m)') <= Cardinality(OpenLoansOf(m))
                             /\ Cardinality(OpenLoansOf(m)') \in Nat
      BY <1>2, OthersOnlyClose, ClosingLowersCount
    <2>2. \A m \in Members : /\ peak[m] <= peak'[m] /\ MaxLoans[category'[m]] <= peak'[m]
                             /\ peak[m] \in Nat /\ peak'[m] \in Nat
      BY PeakGrows, NextWellFormed DEF LimitInv, WellFormed, TypeOK
    <2>3. LoanLimit'
      BY <2>1, <2>2, OpenLoansFinite DEF LimitInv, LoanLimit
    <2>4. ASSUME NEW r \in Requests, Step(r) \/ DeadlockVictim(r) \/ Abandon(r),
                 NEW q \in Requests
          PROVE  CountStands(q)'
      <3>1. CASE q # r
        <4>1. Apart(r, q)
          BY <2>4, <3>1, StepApart, RefuseApart DEF DeadlockVictim, Abandon
        <4> QED BY <2>1, <4>1, CountOutlivesOthers DEF Apart
      <3>2. CASE q = r /\ Refuse(r)
        BY <3>2 DEF Refuse, Finish, Goto, CountStands, Borrowing, WellFormed, TypeOK
      <3>3. CASE q = r /\ ~ Refuse(r)
        BY <1>2, <2>4, <3>3, StepEstablishesCount DEF DeadlockVictim, Abandon
      <3> QED BY <3>1, <3>2, <3>3
    <2>5. ASSUME UNCHANGED <<pc, req, userLock>>, NEW q \in Requests PROVE CountStands(q)'
      BY <2>1, <2>5, CountOutlivesOthers
    <2>6. \A q \in Requests : CountStands(q)'
      BY <2>4, <2>5 DEF Next, AddCopy, HoldLapses, ExpireStale, SetStatus, SetCategory,
         vars, locks
    <2> QED BY <2>2, <2>3, <2>6 DEF LimitInv
  <1> QED BY <1>1, <1>2

(* The limit invariant holds in every state the desk reaches. *)
LEMMA AlwaysWithinLimit == Spec => []LimitInv
  <1>1. Init => LimitInv
    <2> SUFFICES ASSUME Init PROVE LimitInv
      OBVIOUS
    <2>1. \A m \in Members : OpenLoansOf(m) = {}
      BY DEF Init, OpenLoansOf, OpenLoans, NoLoan
    <2>2. \A m \in Members : MaxLoans[category[m]] \in Nat /\ peak[m] = MaxLoans[category[m]]
      BY CirculationAssumption DEF Init
    <2>3. LoanLimit
      BY <2>1, <2>2, FS_EmptySet DEF LoanLimit
    <2>4. \A r \in Requests : CountStands(r)
      BY DEF Init, CountStands, Borrowing
    <2>5. \A m \in Members : MaxLoans[category[m]] <= peak[m]
      BY <2>2
    <2> QED BY <2>3, <2>4, <2>5 DEF LimitInv
  <1> QED BY <1>1, LimitStep, AlwaysWellFormed, PTL DEF Spec

(* However many desks lend to one member at once, and whatever happens to the *)
(* member's category meanwhile, no member holds more than the largest         *)
(* entitlement they have had. *)
THEOREM LimitKept == Spec => []LoanLimit
  <1>1. LimitInv => LoanLimit
    BY DEF LimitInv
  <1> QED BY <1>1, AlwaysWithinLimit, PTL

-----------------------------------------------------------------------------
(***************************************************************************)
(* What holds of the reservation queues for every number of requests,       *)
(* titles, members and reservations.                                        *)
(***************************************************************************)

(* A ticket is taken once.  Two reservations being made at the same time hold *)
(* different tickets, and no row has been written under either.               *)

Reserving == {r \in Requests : pc[r] \in {"stock", "enqueue"}}

TicketsFresh ==
  /\ \A t \in Tickets : t >= nextTicket => res[t].state = "unused"
  /\ \A r \in Reserving : /\ req[r].ticket < nextTicket
                          /\ res[req[r].ticket].state = "unused"
  /\ \A r, q \in Reserving : req[r].ticket = req[q].ticket => r = q

(* Where a reservation's row changes, and what it takes: a new row, a borrow  *)
(* that fulfils the head it locked, or a change to a row nobody has locked.   *)
Unchanged(t) ==
  res'[t].state = res[t].state /\ res'[t].book = res[t].book /\ res'[t].member = res[t].member

Enqueued(r, t) ==
  /\ Enqueue(r) /\ t = req[r].ticket
  /\ res'[t].state = "pending"
  /\ res'[t].book = req[r].book /\ res'[t].member = req[r].member
  /\ OneOpenReservation(req[r].book, req[r].member)

Fulfilled(r, t) ==
  /\ InsertLoan(r) /\ t = req[r].ticket
  /\ res[t].state \in OpenReservation /\ res'[t].state = "fulfilled"
  /\ res'[t].book = res[t].book /\ res'[t].member = res[t].member

MovedOn(t) ==
  /\ Free(resLock, t)
  /\ <<res[t].state, res'[t].state>> \in
       {<<"pending", "ready">>, <<"ready", "expired">>} \cup (OpenReservation \X {"cancelled"})
  /\ res'[t].book = res[t].book /\ res'[t].member = res[t].member

(* All that a step can do to one row of the reservations. *)
LEMMA ReservationStep ==
  ASSUME WellFormed, [Next]_vars, NEW t \in Tickets
  PROVE  \/ Unchanged(t) \/ MovedOn(t)
         \/ \E r \in Requests : Enqueued(r, t) \/ Fulfilled(r, t)
  <1> USE DEF WellFormed
  <1>1. CASE UNCHANGED res
    BY <1>1 DEF Unchanged
  <1>2. ASSUME NEW r \in Requests, InsertLoan(r), ~ Refuse(r)
        PROVE  Unchanged(t) \/ Fulfilled(r, t)
    BY <1>2, InsertFulfils DEF Unchanged, Fulfilled
  <1>3. ASSUME NEW r \in Requests, PromoteNext(r) PROVE Unchanged(t) \/ MovedOn(t)
    <2> DEFINE waiting == {u \in PendingOf(req[r].book) : Free(resLock, u)}
               h == First(waiting)
    <2>1. CASE waiting = {}
      BY <1>3, <2>1 DEF PromoteNext, Unchanged, tables
    <2>2. CASE waiting # {}
      <3>1. h \in waiting /\ h \in Tickets
        BY <2>2, FirstOfQueue DEF PendingOf, QueueOf
      <3>2. res' = [res EXCEPT ![h].state = "ready"]
        BY <1>3, <2>2 DEF PromoteNext
      <3>3. "ready" \in ReservationStatus \cup {"unused"}
        BY DEF ReservationStatus, OpenReservation
      <3> QED
        BY <3>1, <3>2, <3>3, ReservationUpdate DEF Unchanged, MovedOn, PendingOf
    <2> QED BY <2>1, <2>2
  <1>4. ASSUME NEW r \in Requests, Enqueue(r), ~ Refuse(r) PROVE Unchanged(t) \/ Enqueued(r, t)
    <2>1. req[r].ticket \in Tickets
      BY <1>4 DEF Enqueue, At, MemoryFits
    <2>2. CASE t = req[r].ticket
      <3>1. res'[t] = [state |-> "pending", book |-> req[r].book, member |-> req[r].member,
                       lapsed |-> FALSE]
        BY <1>4, <2>1, <2>2 DEF Enqueue, TypeOK
      <3> QED BY <1>4, <2>2, <3>1 DEF Enqueued, Enqueue
    <2>3. CASE t # req[r].ticket
      <3>1. res'[t] = res[t]
        BY <1>4, <2>1, <2>3 DEF Enqueue, TypeOK
      <3> QED BY <3>1 DEF Unchanged
    <2> QED BY <2>2, <2>3
  <1>5. ASSUME NEW r \in Requests, Cancel(r) PROVE Unchanged(t) \/ MovedOn(t)
    <2>1. PICK u \in Tickets :
            /\ res[u].state \in OpenReservation /\ Free(resLock, u)
            /\ res' = [res EXCEPT ![u].state = "cancelled"]
      BY <1>5 DEF Cancel
    <2> QED BY <2>1, ReservationUpdate DEF Unchanged, MovedOn, ReservationStatus
  <1>6. CASE HoldLapses
    <2>1. PICK u \in Tickets : res' = [res EXCEPT ![u].lapsed = TRUE]
      BY <1>6 DEF HoldLapses
    <2>2. res'[u] = [res[u] EXCEPT !.lapsed = TRUE] /\ \A v \in Tickets \ {u} : res'[v] = res[v]
      BY <2>1 DEF TypeOK
    <2>3. Unchanged(u)
      BY <2>2 DEF Unchanged, TypeOK, ReservationRow
    <2> QED BY <2>2, <2>3 DEF Unchanged
  <1>7. CASE ExpireStale
    <2>1. res'[t] = IF StaleHold(t) THEN [res[t] EXCEPT !.state = "expired"] ELSE res[t]
      BY <1>7 DEF ExpireStale
    <2>2. StaleHold(t) => Free(resLock, t)
      BY <1>7 DEF ExpireStale
    <2> QED BY <2>1, <2>2 DEF StaleHold, Unchanged, MovedOn, TypeOK, ReservationRow
  <1>8. ASSUME NEW r \in Requests, Refuse(r) \/ Borrow(r) PROVE InsertLoan(r) \/ UNCHANGED res
    BY <1>8 DEF Borrow, StartBorrow, CheckHead, ClaimCopy, CheckRetention, LockBorrower,
       CountActiveLoans, QueueReceipt, Refuse, Start, tables
  <1>9. ASSUME NEW r \in Requests, Return(r) PROVE PromoteNext(r) \/ UNCHANGED res
    BY <1>9 DEF Return, StartReturn, CloseLoan, ShelveCopy, QueueReady, Refuse, Start, tables
  <1>10. ASSUME NEW r \in Requests, EditCopy(r) PROVE UNCHANGED res
    BY <1>10 DEF EditCopy, StartEdit, CloseLostLoans, MarkLost, WriteCopy, Start, tables
  <1>11. ASSUME NEW r \in Requests, Reserve(r) PROVE Enqueue(r) \/ UNCHANGED res
    BY <1>11 DEF Reserve, StartReserve, CheckStock, Refuse, tables
  <1>12. ASSUME NEW r \in Requests, Refuse(r) PROVE UNCHANGED res
    BY <1>12 DEF Refuse, tables
  <1>13. ASSUME NEW r \in Requests, DeadlockVictim(r) \/ Abandon(r) PROVE UNCHANGED res
    BY <1>13 DEF DeadlockVictim, Abandon, Refuse, tables
  <1>14. CASE AddCopy \/ SetStatus \/ SetCategory \/ UNCHANGED vars
    BY <1>14, <1>1 DEF AddCopy, SetStatus, SetCategory, vars, tables
  <1> QED
    BY <1>1, <1>2, <1>3, <1>4, <1>5, <1>6, <1>7, <1>8, <1>9, <1>10, <1>11, <1>12, <1>13, <1>14
    DEF Next, Step

(* Reservations being made stay apart from one another and from the table.    *)
LEMMA TicketsStayFresh ==
  ASSUME WellFormed, TicketsFresh, [Next]_vars
  PROVE  TicketsFresh'
  <1> USE CirculationAssumption DEF WellFormed
  <1>1. /\ nextTicket \in Nat /\ nextTicket' \in Nat /\ nextTicket <= nextTicket'
        /\ nextTicket' # nextTicket => \E r \in Requests : StartReserve(r)
    <2>1. nextTicket' = nextTicket \/ \E r \in Requests : StartReserve(r)
      <3>1. ASSUME NEW r \in Requests, Borrow(r) \/ Return(r) \/ EditCopy(r) \/ Cancel(r)
                                       \/ DeadlockVictim(r) \/ Abandon(r)
            PROVE  UNCHANGED nextTicket
        BY <3>1 DEF Borrow, StartBorrow, CheckHead, ClaimCopy, CheckRetention, LockBorrower,
           CountActiveLoans, InsertLoan, QueueReceipt, Return, StartReturn, CloseLoan,
           ShelveCopy, PromoteNext, QueueReady, EditCopy, StartEdit, CloseLostLoans,
           MarkLost, WriteCopy, Cancel, DeadlockVictim, Abandon, Refuse, Start, tables
      <3>2. ASSUME NEW r \in Requests, Reserve(r) PROVE StartReserve(r) \/ UNCHANGED nextTicket
        BY <3>2 DEF Reserve, CheckStock, Enqueue, Refuse, tables
      <3> QED
        BY <3>1, <3>2 DEF Next, Step, AddCopy, HoldLapses, ExpireStale, SetStatus,
           SetCategory, vars, tables
    <2>2. \A r \in Requests : StartReserve(r) => nextTicket' = nextTicket + 1
      BY DEF StartReserve
    <2>3. nextTicket \in Nat
      BY DEF TypeOK
    <2> QED BY <2>1, <2>2, <2>3
  <1>2. \A q \in Reserving' :
          \/ /\ q \in Reserving /\ req'[q].ticket = req[q].ticket
             /\ \A r \in Requests : ~ StartReserve(r) \/ r # q
          \/ StartReserve(q) /\ req'[q].ticket = nextTicket
    <2> SUFFICES ASSUME NEW q \in Requests, pc'[q] \in {"stock", "enqueue"}
                 PROVE  \/ /\ q \in Reserving /\ req'[q].ticket = req[q].ticket
                           /\ \A r \in Requests : ~ StartReserve(r) \/ r # q
                        \/ StartReserve(q) /\ req'[q].ticket = nextTicket
      BY DEF Reserving
    <2>1. ASSUME NEW r \in Requests \ {q}, Step(r) \/ DeadlockVictim(r) \/ Abandon(r)
          PROVE  pc'[q] = pc[q] /\ req'[q] = req[q]
      BY <2>1, StepApart, RefuseApart DEF Apart, DeadlockVictim, Abandon
    <2>2. ASSUME Step(q) \/ DeadlockVictim(q) \/ Abandon(q), ~ StartReserve(q)
          PROVE  CheckStock(q) /\ ~ Refuse(q)
      <3> USE DEF Goto, Finish, TypeOK
      <3>1. ~ Refuse(q)
        BY DEF Refuse
      <3>2. ~ Borrow(q)
        BY <3>1 DEF Borrow, StartBorrow, CheckHead, ClaimCopy, CheckRetention, LockBorrower,
           CountActiveLoans, InsertLoan, QueueReceipt, Start
      <3>3. ~ Return(q)
        BY <3>1 DEF Return, StartReturn, CloseLoan, ShelveCopy, PromoteNext, QueueReady, Start
      <3>4. ~ EditCopy(q)
        BY DEF EditCopy, StartEdit, CloseLostLoans, MarkLost, WriteCopy, Start
      <3>5. ~ Enqueue(q)
        BY <3>1 DEF Enqueue
      <3>6. Cancel(q) => FALSE
        BY <2>2 DEF Cancel, At
      <3> QED BY <2>2, <3>1, <3>2, <3>3, <3>4, <3>5, <3>6 DEF Step, Reserve, DeadlockVictim, Abandon
    <2>3. ASSUME CheckStock(q), ~ Refuse(q)
          PROVE  pc[q] = "stock" /\ UNCHANGED req
      BY <2>3 DEF CheckStock, At
    <2>4. ASSUME StartReserve(q) PROVE req'[q].ticket = nextTicket /\ pc[q] = "idle"
      BY <2>4 DEF StartReserve, At, NoRequest, TypeOK
    <2>5. ASSUME UNCHANGED <<pc, req>> PROVE q \in Reserving /\ req'[q] = req[q]
      BY <2>5 DEF Reserving
    <2> QED
      BY <2>1, <2>2, <2>3, <2>4, <2>5 DEF Reserving, Next, AddCopy, HoldLapses, ExpireStale,
         SetStatus, SetCategory, vars
  <1>3. \A t \in Tickets : t >= nextTicket' => res'[t].state = "unused"
    <2> SUFFICES ASSUME NEW t \in Tickets, t >= nextTicket' PROVE res'[t].state = "unused"
      OBVIOUS
    <2>1. t \in Nat /\ t >= nextTicket /\ res[t].state = "unused"
      BY <1>1 DEF TicketsFresh, Tickets
    <2>2. ASSUME NEW r \in Requests, Enqueued(r, t) PROVE FALSE
      BY <1>1, <2>1, <2>2 DEF Enqueued, Enqueue, At, Reserving, TicketsFresh, MemoryFits, Tickets
    <2> QED
      BY <2>1, <2>2, ReservationStep DEF Unchanged, MovedOn, Fulfilled, OpenReservation
  <1>4. \A q \in Reserving' : /\ req'[q].ticket < nextTicket'
                              /\ res'[req'[q].ticket].state = "unused"
    <2> SUFFICES ASSUME NEW q \in Reserving'
                 PROVE  /\ req'[q].ticket < nextTicket'
                        /\ res'[req'[q].ticket].state = "unused"
      OBVIOUS
    <2>1. CASE StartReserve(q) /\ req'[q].ticket = nextTicket
      BY <2>1 DEF StartReserve, TicketsFresh, Reserving, Tickets
    <2>2. CASE q \in Reserving /\ req'[q].ticket = req[q].ticket
      <3> DEFINE t == req[q].ticket
      <3>1. t \in Tickets /\ t \in Nat /\ t < nextTicket /\ res[t].state = "unused"
        BY <2>2 DEF TicketsFresh, Reserving, MemoryFits, Tickets
      <3>2. ASSUME NEW r \in Requests, Enqueued(r, t) PROVE FALSE
        <4>1. r = q
          BY <2>2, <3>2 DEF Enqueued, Enqueue, At, Reserving, TicketsFresh
        <4>2. pc'[q] = "idle"
          BY <3>2, <4>1 DEF Enqueued, Enqueue, Finish, Refuse, Goto, TypeOK
        <4> QED BY <4>2 DEF Reserving
      <3>3. res'[t].state = "unused"
        BY <3>1, <3>2, ReservationStep DEF Unchanged, MovedOn, Fulfilled, OpenReservation
      <3> QED BY <1>1, <2>2, <3>1, <3>3
    <2> QED BY <1>2, <2>1, <2>2
  <1>5. \A r, q \in Reserving' : req'[r].ticket = req'[q].ticket => r = q
    <2> SUFFICES ASSUME NEW r \in Reserving', NEW q \in Reserving',
                        req'[r].ticket = req'[q].ticket
                 PROVE  r = q
      OBVIOUS
    <2>1. \A p \in Reserving : req[p].ticket \in Nat /\ req[p].ticket < nextTicket
      BY DEF TicketsFresh, Reserving, MemoryFits, Tickets
    <2>2. ASSUME NEW p \in Reserving, req[p].ticket = nextTicket PROVE FALSE
      BY <1>1, <2>1, <2>2
    <2>3. CASE /\ r \in Reserving /\ req'[r].ticket = req[r].ticket
               /\ q \in Reserving /\ req'[q].ticket = req[q].ticket
      BY <2>3 DEF TicketsFresh
    <2>4. CASE StartReserve(r) /\ StartReserve(q)
      BY <2>4 DEF StartReserve, Goto, At, Reserving, TypeOK
    <2>5. CASE /\ StartReserve(r) /\ req'[r].ticket = nextTicket
               /\ q \in Reserving /\ req'[q].ticket = req[q].ticket
      BY <2>2, <2>5
    <2>6. CASE /\ StartReserve(q) /\ req'[q].ticket = nextTicket
               /\ r \in Reserving /\ req'[r].ticket = req[r].ticket
      BY <2>2, <2>6
    <2> QED BY <1>2, <2>3, <2>4, <2>5, <2>6
  <1> QED BY <1>3, <1>4, <1>5 DEF TicketsFresh

(* The ticket about to be written is unused in every state the desk reaches. *)
LEMMA AlwaysFresh == Spec => []TicketsFresh
  <1>1. Init => TicketsFresh
    BY DEF Init, TicketsFresh, Reserving, NoReservation
  <1> QED BY <1>1, TicketsStayFresh, AlwaysWellFormed, PTL DEF Spec

(* A new row is written under a ticket nothing was written under before.      *)
LEMMA EnqueuedIsNew ==
  ASSUME WellFormed, TicketsFresh, NEW t \in Tickets, NEW r \in Requests, Enqueued(r, t)
  PROVE  res[t].state = "unused"
  BY DEF Enqueued, Enqueue, At, TicketsFresh, Reserving

-----------------------------------------------------------------------------
(* A reservation leaves the queue once: none is fulfilled, promoted or expired *)
(* after it was cancelled, and only a hold expires.                           *)
THEOREM LifecycleKept == Spec => ReservationLifecycle
  <1>1. ASSUME WellFormed, TicketsFresh, [Next]_vars, NEW t \in Tickets
        PROVE  LET old == res[t].state
                   new == res'[t].state
               IN  old = new \/ <<old, new>> \in
                     {<<"unused", "pending">>, <<"pending", "ready">>, <<"ready", "expired">>}
                     \cup (OpenReservation \X {"fulfilled", "cancelled"})
    BY <1>1, ReservationStep, EnqueuedIsNew DEF Unchanged, MovedOn, Enqueued, Fulfilled
  <1>2. WellFormed /\ TicketsFresh /\ [Next]_vars =>
          [\A t \in Tickets :
             LET old == res[t].state
                 new == res'[t].state
             IN  old = new \/ <<old, new>> \in
                   {<<"unused", "pending">>, <<"pending", "ready">>, <<"ready", "expired">>}
                   \cup (OpenReservation \X {"fulfilled", "cancelled"})]_vars
    BY <1>1
  <1> QED BY <1>2, AlwaysWellFormed, AlwaysFresh, PTL DEF Spec, ReservationLifecycle

(* No member has two places in the queue for one title, however many of their *)
(* requests are being served at once.                                         *)
THEOREM OnePlaceKept == Spec => []OnePlacePerMember
  <1>1. Init => OnePlacePerMember
    BY DEF Init, OnePlacePerMember, QueueOf, NoReservation, OpenReservation
  <1>2. ASSUME WellFormed, TicketsFresh, OnePlacePerMember, [Next]_vars
        PROVE  OnePlacePerMember'
    <2> SUFFICES ASSUME NEW b \in Books, NEW t \in QueueOf(b)', NEW u \in QueueOf(b)',
                        res'[t].member = res'[u].member, t # u
                 PROVE  FALSE
      BY DEF OnePlacePerMember
    <2>1. ASSUME NEW v \in QueueOf(b)'
          PROVE  \/ v \in QueueOf(b) /\ res'[v].member = res[v].member
                 \/ \E r \in Requests : Enqueued(r, v) /\ req[r].book = b
      <3>1. v \in Tickets /\ res'[v].state \in OpenReservation /\ res'[v].book = b
        BY DEF QueueOf
      <3>2. CASE Unchanged(v)
        BY <3>1, <3>2 DEF Unchanged, QueueOf
      <3>3. CASE MovedOn(v)
        <4>1. res[v].state \in OpenReservation
          BY <3>1, <3>3 DEF MovedOn, OpenReservation
        <4>2. res'[v].book = res[v].book /\ res'[v].member = res[v].member
          BY <3>3 DEF MovedOn
        <4> QED BY <3>1, <4>1, <4>2 DEF QueueOf
      <3>4. ASSUME NEW r \in Requests, Fulfilled(r, v) PROVE FALSE
        BY <3>1, <3>4 DEF Fulfilled, OpenReservation
      <3>5. ASSUME NEW r \in Requests, Enqueued(r, v) PROVE req[r].book = b
        BY <3>1, <3>5 DEF Enqueued
      <3>6. \/ Unchanged(v) \/ MovedOn(v)
            \/ \E r \in Requests : Enqueued(r, v) \/ Fulfilled(r, v)
        BY <1>2, <3>1, ReservationStep
      <3> QED BY <3>2, <3>3, <3>4, <3>5, <3>6
    <2>2. ASSUME NEW v \in Tickets, NEW w \in Tickets, NEW r \in Requests, NEW q \in Requests,
                 Enqueued(r, v), Enqueued(q, w)
          PROVE  v = w
      <3>1. r = q
        BY <1>2, <2>2 DEF Enqueued, Enqueue, At, Finish, Refuse, Goto, WellFormed, TypeOK
      <3> QED BY <2>2, <3>1 DEF Enqueued
    <2>3. ASSUME NEW v \in QueueOf(b), NEW r \in Requests, NEW w \in Tickets,
                 Enqueued(r, w), req[r].book = b, res'[w].member = res[v].member
          PROVE  FALSE
      BY <2>3 DEF Enqueued, OneOpenReservation
    <2> QED BY <1>2, <2>1, <2>2, <2>3 DEF OnePlacePerMember, QueueOf
  <1> QED BY <1>1, <1>2, AlwaysWellFormed, AlwaysFresh, PTL DEF Spec

-----------------------------------------------------------------------------
(* A borrow that found a reservation at the head of the queue holds its row:  *)
(* until the borrow ends, nobody else can cancel, expire or promote it.       *)
HeadLocked(r) ==
  r \in Borrowing /\ req[r].ticket # None =>
    /\ req[r].ticket \in Tickets
    /\ resLock[req[r].ticket] = r
    /\ res[req[r].ticket].state \in OpenReservation
    /\ res[req[r].ticket].member = req[r].member
    /\ pc[r] # "head"

HeadInv == \A r \in Requests : /\ HeadLocked(r)
                               /\ pc[r] = "head" => req[r].ticket = None

(* A locked reservation is left alone by every other request.                 *)
LEMMA LockedReservationKept ==
  ASSUME WellFormed, TicketsFresh, HeadInv, [Next]_vars, NEW q \in Requests,
         NEW t \in Tickets, resLock[t] = q, res[t].state \in OpenReservation,
         ~ InsertLoan(q)
  PROVE  Unchanged(t)
  <1>1. ~ MovedOn(t)
    BY CirculationAssumption DEF MovedOn, Free
  <1>2. ASSUME NEW r \in Requests, Enqueued(r, t) PROVE FALSE
    BY <1>2, EnqueuedIsNew DEF OpenReservation
  <1>3. ASSUME NEW r \in Requests, Fulfilled(r, t) PROVE FALSE
    <2>1. r \in Borrowing /\ req[r].ticket # None
      BY <1>3, CirculationAssumption DEF Fulfilled, InsertLoan, At, Borrowing, Tickets
    <2>2. resLock[t] = r
      BY <1>3, <2>1 DEF HeadInv, HeadLocked, Fulfilled
    <2> QED BY <1>3, <2>2 DEF Fulfilled
  <1> QED BY <1>1, <1>2, <1>3, ReservationStep

(* A head of the queue a request has locked survives the steps of the others. *)
LEMMA HeadOutlivesOthers ==
  ASSUME WellFormed, TicketsFresh, HeadInv, [Next]_vars, NEW q \in Requests,
         pc'[q] = pc[q], req'[q] = req[q],
         \A t \in Tickets : resLock[t] = q => resLock'[t] = q
  PROVE  HeadLocked(q)' /\ (pc'[q] = "head" => req'[q].ticket = None)
  <1>1. pc'[q] = "head" => req'[q].ticket = None
    BY DEF HeadInv
  <1>2. ~ InsertLoan(q) \/ Refuse(q)
    BY DEF InsertLoan, At, Goto, WellFormed, TypeOK
  <1>3. ~ Refuse(q) \/ pc[q] = "idle"
    BY DEF Refuse, Finish, Goto, WellFormed, TypeOK
  <1>4. ASSUME q \in Borrowing, req[q].ticket # None PROVE HeadLocked(q)'
    <2> DEFINE t == req[q].ticket
    <2>1. /\ t \in Tickets /\ resLock[t] = q /\ res[t].state \in OpenReservation
          /\ res[t].member = req[q].member /\ pc[q] # "head"
      BY <1>4 DEF HeadInv, HeadLocked
    <2>2. Unchanged(t)
      BY <1>2, <1>3, <1>4, <2>1, LockedReservationKept DEF Borrowing
    <2> QED BY <2>1, <2>2 DEF HeadLocked, Unchanged
  <1> QED BY <1>1, <1>4 DEF HeadLocked, Borrowing

(* A request's own step keeps the head it has locked, until it lets go of it. *)
LEMMA StepKeepsHead ==
  ASSUME WellFormed, HeadInv, NEW r \in Requests, Step(r)
  PROVE  HeadLocked(r)' /\ (pc'[r] = "head" => req'[r].ticket = None)
  <1> USE DEF WellFormed, TypeOK, Goto, At, Finish
  <1>1. CASE StartBorrow(r)
    BY <1>1 DEF StartBorrow, Start, NoRequest, HeadLocked
  <1>2. CASE Refuse(r)
    BY <1>2 DEF Refuse, HeadLocked, Borrowing
  <1>3. ASSUME CheckHead(r), ~ Refuse(r)
        PROVE  HeadLocked(r)' /\ (pc'[r] = "head" => req'[r].ticket = None)
    <2> DEFINE queue == QueueOf(BookOf[req[r].copy])
               head  == First(queue)
    <2>1. pc'[r] = "claim" /\ pc[r] = "head" /\ UNCHANGED res /\ req[r].ticket = None
      BY <1>3 DEF CheckHead, HeadInv, tables
    <2>2. CASE queue = {}
      BY <1>3, <2>1, <2>2 DEF CheckHead, HeadLocked
    <2>3. CASE queue # {}
      <3>1. head \in queue /\ head \in Tickets
        BY <2>3, FirstOfQueue DEF QueueOf
      <3>2. /\ req' = [req EXCEPT ![r].ticket = head] /\ resLock' = [resLock EXCEPT ![head] = r]
            /\ res[head].member = req[r].member
        BY <1>3, <2>3 DEF CheckHead, LockHead
      <3>3. req'[r].ticket = head /\ req'[r].member = req[r].member
        BY <3>2 DEF Request
      <3>4. resLock'[head] = r /\ res[head].state \in OpenReservation
        BY <3>1, <3>2 DEF QueueOf
      <3> QED BY <2>1, <3>1, <3>2, <3>3, <3>4 DEF HeadLocked
    <2> QED BY <2>2, <2>3
  <1>4. ASSUME ClaimCopy(r) \/ CheckRetention(r) \/ LockBorrower(r) \/ CountActiveLoans(r),
               ~ Refuse(r)
        PROVE  HeadLocked(r)' /\ (pc'[r] = "head" => req'[r].ticket = None)
    <2>1. /\ r \in Borrowing /\ pc'[r] \in {"retain", "borrower", "count", "insert"}
          /\ UNCHANGED <<req, res, resLock>>
      BY <1>4 DEF ClaimCopy, CheckRetention, LockBorrower, CountActiveLoans, Borrowing,
         tables, locks
    <2> QED BY <2>1 DEF HeadInv, HeadLocked
  <1>5. CASE InsertLoan(r) \/ QueueReceipt(r) \/ Return(r)
    BY <1>2, <1>5 DEF InsertLoan, QueueReceipt, Return, StartReturn, CloseLoan, ShelveCopy,
       PromoteNext, QueueReady, Start, HeadLocked, Borrowing
  <1>6. CASE EditCopy(r)
    <2>1. CASE StartEdit(r)
      BY <2>1 DEF StartEdit, Start, HeadLocked, Borrowing
    <2>2. CASE CloseLostLoans(r) \/ MarkLost(r) \/ WriteCopy(r)
      <3>1. pc'[r] \in {"mark", "idle"}
        BY <2>2 DEF CloseLostLoans, MarkLost, WriteCopy
      <3> QED BY <3>1 DEF HeadLocked, Borrowing
    <2> QED BY <1>6, <2>1, <2>2 DEF EditCopy
  <1>7. CASE Reserve(r)
    BY <1>2, <1>7 DEF Reserve, StartReserve, CheckStock, Enqueue, HeadLocked, Borrowing
  <1>8. CASE Cancel(r)
    BY <1>8 DEF Cancel, HeadLocked, Borrowing
  <1> QED BY <1>1, <1>2, <1>3, <1>4, <1>5, <1>6, <1>7, <1>8 DEF Step, Borrow

(* Every step keeps the locked heads of the queues. *)
LEMMA HeadInvStep ==
  ASSUME WellFormed, TicketsFresh, HeadInv, [Next]_vars
  PROVE  HeadInv'
  <1> SUFFICES ASSUME NEW q \in Requests
               PROVE  HeadLocked(q)' /\ (pc'[q] = "head" => req'[q].ticket = None)
    BY DEF HeadInv
  <1>1. ASSUME NEW r \in Requests \ {q}, Step(r) \/ DeadlockVictim(r) \/ Abandon(r)
        PROVE  HeadLocked(q)' /\ (pc'[q] = "head" => req'[q].ticket = None)
    <2>1. Apart(r, q)
      BY <1>1, StepApart, RefuseApart DEF DeadlockVictim, Abandon
    <2> QED BY <2>1, HeadOutlivesOthers DEF Apart
  <1>2. CASE Step(q)
    BY <1>2, StepKeepsHead
  <1>3. CASE DeadlockVictim(q) \/ Abandon(q)
    BY <1>3 DEF DeadlockVictim, Abandon, Refuse, Finish, Goto, HeadLocked, Borrowing,
       WellFormed, TypeOK
  <1>4. CASE UNCHANGED <<pc, req, resLock>>
    BY <1>4, HeadOutlivesOthers
  <1> QED
    BY <1>1, <1>2, <1>3, <1>4 DEF Next, AddCopy, HoldLapses, ExpireStale, SetStatus,
       SetCategory, vars, locks

(* What a borrow decided about the head of the queue stays true until it      *)
(* commits: the reservation it will fulfil is open and its own borrower's,    *)
(* whatever cancels, expires or promotes meanwhile.                           *)
THEOREM HeadKept == Spec => []HeadStaysMine
  <1>1. Init => HeadInv
    BY DEF Init, HeadInv, HeadLocked, Borrowing
  <1>2. HeadInv => HeadStaysMine
    BY DEF HeadInv, HeadLocked, HeadStaysMine, Borrowing
  <1> QED BY <1>1, <1>2, HeadInvStep, AlwaysFresh, AlwaysWellFormed, PTL DEF Spec

-----------------------------------------------------------------------------
(***************************************************************************)
(* The two tables that say where a copy is, copies and loans, agree at       *)
(* every commit as long as no librarian edits a copy's status by hand, and   *)
(* with edits or without, the desk implements the register of loans.         *)
(***************************************************************************)

(* A borrow past its claim holds the row of a copy that is on the shelf, and  *)
(* a return past its claim holds the row of a loan that is open.              *)

ClaimHeld(r) ==
  /\ pc[r] \in {"retain", "borrower", "count", "insert"} =>
       copyLock[req[r].copy] = r /\ status[req[r].copy] = "available"
  /\ pc[r] = "shelve" => loanLock[req[r].loan] = r /\ loans[req[r].loan].state = "open"
  /\ pc[r] \notin {"edit", "lost", "mark"}

CustodyInv == CustodyMatches /\ \A r \in Requests : ClaimHeld(r)

(* Who may change what the custody of a copy depends on, without edits.       *)
LEMMA QuietSteps ==
  ASSUME WellFormed, NEW r \in Requests,
         Step(r) \/ DeadlockVictim(r) \/ Abandon(r),
         ~ EditCopy(r), ~ ShelveCopy(r), InsertLoan(r) => Refuse(r)
  PROVE  UNCHANGED <<status, loans>>
  <1>1. CASE Borrow(r) \/ Refuse(r)
    BY <1>1 DEF Borrow, StartBorrow, CheckHead, ClaimCopy, CheckRetention, LockBorrower,
       CountActiveLoans, QueueReceipt, Refuse, Start, tables
  <1>2. CASE Return(r)
    BY <1>2 DEF Return, StartReturn, CloseLoan, PromoteNext, QueueReady, Refuse, Start, tables
  <1>3. CASE Reserve(r) \/ Cancel(r)
    BY <1>3 DEF Reserve, StartReserve, CheckStock, Enqueue, Cancel, Refuse, tables
  <1> QED BY <1>1, <1>2, <1>3 DEF Step, DeadlockVictim, Abandon

(* A step of a request that writes neither a loan nor a copy back keeps what that request has claimed. *)
LEMMA QuietClaims ==
  ASSUME WellFormed, CustodyInv, NEW r \in Requests,
         Step(r) \/ DeadlockVictim(r) \/ Abandon(r),
         ~ EditCopy(r), ~ ShelveCopy(r), InsertLoan(r) => Refuse(r)
  PROVE  ClaimHeld(r)'
  <1> USE DEF WellFormed, TypeOK, Goto, At, Finish
  <1>1. UNCHANGED <<status, loans>>
    BY QuietSteps
  <1>2. CASE Refuse(r)
    BY <1>2 DEF Refuse, ClaimHeld
  <1>3. CASE StartBorrow(r) \/ CheckHead(r) \/ QueueReceipt(r)
    BY <1>2, <1>3 DEF StartBorrow, CheckHead, QueueReceipt, Start, ClaimHeld
  <1>4. CASE ClaimCopy(r)
    <2>1. req[r].copy \in Copies
      BY <1>4 DEF ClaimCopy, MemoryFits, Borrowing
    <2> QED BY <1>1, <1>2, <1>4, <2>1 DEF ClaimCopy, LockCopy, ClaimHeld
  <1>5. CASE CheckRetention(r) \/ LockBorrower(r) \/ CountActiveLoans(r)
    BY <1>1, <1>2, <1>5
    DEF CheckRetention, LockBorrower, CountActiveLoans, ClaimHeld, CustodyInv, locks
  <1>6. CASE CloseLoan(r)
    <2>1. req[r].loan \in LoanIds
      BY <1>6 DEF CloseLoan, MemoryFits
    <2> QED BY <1>1, <1>2, <1>6, <2>1 DEF CloseLoan, StillOut, ClaimHeld
  <1>7. CASE StartReturn(r) \/ PromoteNext(r) \/ QueueReady(r)
    BY <1>7 DEF StartReturn, PromoteNext, QueueReady, Start, ClaimHeld
  <1>8. CASE Reserve(r)
    BY <1>2, <1>8 DEF Reserve, StartReserve, CheckStock, Enqueue, ClaimHeld
  <1>9. CASE Cancel(r)
    BY <1>9 DEF Cancel, ClaimHeld
  <1> QED
    BY <1>2, <1>3, <1>4, <1>5, <1>6, <1>7, <1>8, <1>9
    DEF Step, Borrow, Return, DeadlockVictim, Abandon

(* What another request has claimed is kept while its locks and the copies under them are. *)
LEMMA QuietOthers ==
  ASSUME WellFormed, CustodyInv, NEW q \in Requests,
         pc'[q] = pc[q], req'[q] = req[q],
         \A c \in Copies : copyLock[c] = q => copyLock'[c] = q,
         \A l \in LoanIds : loanLock[l] = q => loanLock'[l] = q,
         \A c \in Copies : copyLock[c] = q /\ status[c] = "available" => status'[c] = "available",
         \A l \in LoanIds : loanLock[l] = q /\ loans[l].state = "open" =>
                              loans'[l].state = "open"
  PROVE  ClaimHeld(q)'
  BY DEF WellFormed, MemoryFits, Borrowing, CustodyInv, ClaimHeld

(* Lending opens the loan and takes the copy off the shelf in one step. *)
LEMMA InsertKeepsCustody ==
  ASSUME WellFormed, CustodyInv, NEW r \in Requests, InsertLoan(r), ~ Refuse(r)
  PROVE  CustodyInv'
  <1> DEFINE c == req[r].copy
  <1>1. /\ c \in Copies /\ copyLock[c] = r /\ status[c] = "available"
        /\ status' = [status EXCEPT ![c] = "on_loan"] /\ pc'[r] = "receipt"
    BY DEF InsertLoan, At, Goto, WellFormed, TypeOK, MemoryFits, Borrowing, CustodyInv, ClaimHeld
  <1>2. PICK l \in LoanIds :
          /\ loans[l].state = "unused" /\ OpenLoansOn(c) = {}
          /\ loans'[l] = [state |-> "open", copy |-> c, member |-> req[r].member]
          /\ \A k \in LoanIds \ {l} : loans'[k] = loans[k]
    BY InsertOpens
  <1>3. \A d \in Copies : OpenLoansOn(d)' = OpenLoansOn(d) \cup IF d = c THEN {l} ELSE {}
    BY <1>2 DEF OpenLoansOn, OpenLoans
  <1>4. \A d \in Copies : status'[d] = IF d = c THEN "on_loan" ELSE status[d]
    BY <1>1 DEF WellFormed, TypeOK
  <1>5. CustodyMatches'
    BY <1>2, <1>3, <1>4 DEF CustodyInv, CustodyMatches, OneOpenLoanPerCopy
  <1>6. ClaimHeld(r)'
    BY <1>1 DEF ClaimHeld
  <1>7. ASSUME NEW q \in Requests \ {r} PROVE ClaimHeld(q)'
    <2>1. Apart(r, q)
      BY StepApart DEF Step, Borrow
    <2> QED BY <1>1, <1>2, <1>4, <2>1, QuietOthers DEF Apart
  <1> QED BY <1>5, <1>6, <1>7 DEF CustodyInv

(* A return puts back the copy of the loan it has closed. *)
LEMMA ShelveKeepsCustody ==
  ASSUME WellFormed, CustodyInv, NEW r \in Requests, ShelveCopy(r)
  PROVE  CustodyInv'
  <1> DEFINE l == req[r].loan
             c == loans[l].copy
  <1>1. /\ l \in LoanIds /\ c \in Copies /\ loanLock[l] = r /\ l \in OpenLoansOn(c)
        /\ pc'[r] = "promote"
    BY DEF ShelveCopy, At, Goto, WellFormed, TypeOK, MemoryFits, RowsKnown, CustodyInv,
       ClaimHeld, OpenLoansOn, OpenLoans
  <1>2. status[c] = "on_loan" /\ OpenLoansOn(c) = {l}
    BY <1>1 DEF CustodyInv, CustodyMatches, OneOpenLoanPerCopy
  <1>3. \A d \in Copies : status'[d] = IF d = c THEN "available" ELSE status[d]
    BY <1>1, <1>2 DEF ShelveCopy, WellFormed, TypeOK
  <1>4. \A k \in LoanIds : IF k = l THEN loans'[k].state = "closed" ELSE loans'[k] = loans[k]
    BY LoansClosed
  <1>5. \A d \in Copies : OpenLoansOn(d)' = OpenLoansOn(d) \ {l}
    BY <1>4 DEF OpenLoansOn, OpenLoans
  <1>6. \A d \in Copies \ {c} : l \notin OpenLoansOn(d)
    BY DEF OpenLoansOn
  <1>7. CustodyMatches'
    <2>1. \A d \in Copies : status'[d] = "on_loan" <=> OpenLoansOn(d)' # {}
      BY <1>2, <1>3, <1>5, <1>6 DEF CustodyInv, CustodyMatches
    <2>2. OneOpenLoanPerCopy'
      BY <1>5 DEF CustodyInv, CustodyMatches, OneOpenLoanPerCopy
    <2> QED BY <2>1, <2>2 DEF CustodyMatches
  <1>8. ClaimHeld(r)'
    BY <1>1 DEF ClaimHeld
  <1>9. ASSUME NEW q \in Requests \ {r} PROVE ClaimHeld(q)'
    <2>1. Apart(r, q)
      BY StepApart DEF Step, Return
    <2> QED BY <1>1, <1>3, <1>4, <2>1, QuietOthers DEF Apart
  <1> QED BY <1>7, <1>8, <1>9 DEF CustodyInv

(* Without edits of copies, every step keeps custody. *)
LEMMA CustodyStep ==
  ASSUME "edit" \notin Ops, WellFormed, CustodyInv, [Next]_vars
  PROVE  CustodyInv'
  <1>1. ASSUME NEW r \in Requests, EditCopy(r) PROVE FALSE
    BY <1>1 DEF EditCopy, StartEdit, Start, CloseLostLoans, MarkLost, WriteCopy, At,
       CustodyInv, ClaimHeld
  <1>2. ASSUME NEW r \in Requests, Step(r) \/ DeadlockVictim(r) \/ Abandon(r)
        PROVE  CustodyInv'
    <2>1. CASE InsertLoan(r) /\ ~ Refuse(r)
      BY <2>1, InsertKeepsCustody
    <2>2. CASE ShelveCopy(r)
      BY <2>2, ShelveKeepsCustody
    <2>3. CASE ~ ShelveCopy(r) /\ (InsertLoan(r) => Refuse(r))
      <3>1. UNCHANGED <<status, loans>>
        BY <1>1, <1>2, <2>3, QuietSteps
      <3>2. CustodyMatches'
        BY <3>1 DEF CustodyInv, CustodyMatches, OneOpenLoanPerCopy, OpenLoansOn, OpenLoans
      <3>3. ClaimHeld(r)'
        BY <1>1, <1>2, <2>3, QuietClaims
      <3>4. ASSUME NEW q \in Requests \ {r} PROVE ClaimHeld(q)'
        <4>1. Apart(r, q)
          BY <1>2, StepApart, RefuseApart DEF DeadlockVictim, Abandon
        <4> QED BY <3>1, <4>1, QuietOthers DEF Apart
      <3> QED BY <3>2, <3>3, <3>4 DEF CustodyInv
    <2> QED BY <2>1, <2>2, <2>3
  <1>3. CASE AddCopy
    <2>1. PICK c \in Copies : status[c] = "absent" /\ status' = [status EXCEPT ![c] = "available"]
      BY <1>3 DEF AddCopy
    <2>2. /\ \A d \in Copies : status'[d] = IF d = c THEN "available" ELSE status[d]
          /\ UNCHANGED <<loans, pc, req, copyLock, loanLock>>
      BY <1>3, <2>1 DEF AddCopy, locks, WellFormed, TypeOK
    <2>3. CustodyMatches'
      BY <2>1, <2>2 DEF CustodyInv, CustodyMatches, OneOpenLoanPerCopy, OpenLoansOn, OpenLoans
    <2>4. \A q \in Requests : ClaimHeld(q)'
      BY <2>1, <2>2, QuietOthers
    <2> QED BY <2>3, <2>4 DEF CustodyInv
  <1>4. CASE UNCHANGED <<status, loans, pc, req, copyLock, loanLock>>
    BY <1>4 DEF CustodyInv, CustodyMatches, OneOpenLoanPerCopy, OpenLoansOn, OpenLoans, ClaimHeld
  <1> QED
    BY <1>2, <1>3, <1>4 DEF Next, HoldLapses, ExpireStale, SetStatus, SetCategory,
       vars, tables, locks

LEMMA AlwaysCustody ==
  ASSUME "edit" \notin Ops
  PROVE  Spec => [](WellFormed /\ CustodyInv)
  <1>1. Init => CustodyInv
    <2> SUFFICES ASSUME Init PROVE CustodyInv
      OBVIOUS
    <2>1. \A c \in Copies : status[c] # "on_loan" /\ OpenLoansOn(c) = {}
      BY DEF Init, OpenLoansOn, OpenLoans, NoLoan
    <2> QED BY <2>1 DEF Init, CustodyInv, CustodyMatches, OneOpenLoanPerCopy, ClaimHeld
  <1> QED BY <1>1, CustodyStep, AlwaysWellFormed, PTL DEF Spec

(* While no librarian edits a copy by hand, a copy is on loan exactly while   *)
(* one loan of it is open.                                                    *)
THEOREM CustodyKept ==
  ASSUME "edit" \notin Ops
  PROVE  Spec => []CustodyMatches
  <1>1. CustodyInv => CustodyMatches
    BY DEF CustodyInv
  <1> QED BY <1>1, AlwaysCustody, PTL

(* While no librarian edits a copy by hand, a borrow that has passed every    *)
(* check never meets another open loan of the copy it claimed.                *)
THEOREM ClaimKept ==
  ASSUME "edit" \notin Ops
  PROVE  Spec => []ClaimIsExclusive
  <1>1. WellFormed /\ CustodyInv => ClaimIsExclusive
    BY DEF CustodyInv, CustodyMatches, ClaimIsExclusive, ClaimHeld, At, WellFormed,
       MemoryFits, Borrowing
  <1> QED BY <1>1, AlwaysCustody, PTL

-----------------------------------------------------------------------------
(* The desk implements the register of loans: every committed step of it      *)
(* issues one copy, takes one back, raises one entitlement or shows nothing.  *)

(* Who holds a copy, read from its one open loan.                             *)
LEMMA HolderIs ==
  ASSUME WellFormed, OneOpenLoanPerCopy, NEW c \in Copies
  PROVE  /\ OpenLoansOn(c) = {} => Holder[c] = None
         /\ \A l \in OpenLoansOn(c) : Holder[c] = loans[l].member /\ loans[l].member \in Members
  <1>1. ASSUME NEW l \in OpenLoansOn(c)
        PROVE  Holder[c] = loans[l].member /\ loans[l].member \in Members
    <2>1. (CHOOSE k \in OpenLoansOn(c) : TRUE) = l
      BY <1>1 DEF OneOpenLoanPerCopy
    <2>2. Holder[c] = loans[l].member
      BY <1>1, <2>1 DEF Holder
    <2> QED BY <1>1, <2>2 DEF OpenLoansOn, OpenLoans, WellFormed, RowsKnown
  <1>2. OpenLoansOn(c) = {} => Holder[c] = None
    BY DEF Holder
  <1> QED BY <1>1, <1>2

(* The copies a member holds are no more than the loans they have open.       *)
LEMMA HeldByLoans ==
  ASSUME WellFormed, OneOpenLoanPerCopy, NEW m \in Members
  PROVE  /\ Cardinality(Register!HeldBy(m)) \in Nat
         /\ Cardinality(Register!HeldBy(m)) <= Cardinality(OpenLoansOf(m))
  <1> DEFINE copyOf == [l \in OpenLoansOf(m) |-> loans[l].copy]
             held   == Register!HeldBy(m)
  <1>1. \A l \in OpenLoansOf(m) : loans[l].copy \in held
    <2> SUFFICES ASSUME NEW l \in OpenLoansOf(m) PROVE loans[l].copy \in held
      OBVIOUS
    <2>1. loans[l].copy \in Copies /\ l \in OpenLoansOn(loans[l].copy) /\ loans[l].member = m
      BY DEF WellFormed, RowsKnown, OpenLoansOf, OpenLoansOn, OpenLoans
    <2> QED BY <2>1, HolderIs DEF Register!HeldBy
  <1>2. \A c \in held : \E l \in OpenLoansOf(m) : copyOf[l] = c
    <2> SUFFICES ASSUME NEW c \in held PROVE \E l \in OpenLoansOf(m) : copyOf[l] = c
      OBVIOUS
    <2>1. c \in Copies /\ Holder[c] = m
      BY DEF Register!HeldBy
    <2>2. PICK l \in OpenLoansOn(c) : TRUE
      BY <2>1, HolderIs, CirculationAssumption
    <2>3. l \in OpenLoansOf(m) /\ loans[l].copy = c
      BY <2>1, <2>2, HolderIs DEF OpenLoansOn, OpenLoansOf
    <2> QED BY <2>3
  <1>3. copyOf \in Surjection(OpenLoansOf(m), held)
    BY <1>1, <1>2 DEF Surjection
  <1> QED BY <1>3, FS_Surjection, FS_CardinalityType, OpenLoansFinite

(* The loans a report of loss has locked are loans of its copy.               *)
LostLoansLocked(r) ==
  \A l \in LoanIds : loanLock[l] = r =>
    /\ pc[r] \in {"shelve", "mark"}
    /\ pc[r] = "mark" => loans[l].copy = req[r].copy

LockInv == \A r \in Requests : LostLoansLocked(r)

(* The loan row a request has locked stays the loan of one copy. *)
LEMMA LockedRowsKept ==
  ASSUME WellFormed, [Next]_vars, NEW l \in LoanIds, loanLock[l] # None
  PROVE  loans'[l].copy = loans[l].copy
  <1>1. loans[l].state # "unused"
    BY DEF WellFormed, RowsKnown
  <1> QED BY <1>1, InsertOpens, OthersOnlyClose

(* Every step keeps the loan rows a request has locked to those of its copy. *)
LEMMA LockInvStep ==
  ASSUME WellFormed, LockInv, [Next]_vars
  PROVE  LockInv'
  <1> USE CirculationAssumption DEF WellFormed, TypeOK
  <1>1. ASSUME NEW q \in Requests, pc'[q] = pc[q], req'[q] = req[q],
               \A l \in LoanIds : loanLock'[l] = q => loanLock[l] = q
        PROVE  LostLoansLocked(q)'
    BY <1>1, LockedRowsKept DEF LockInv, LostLoansLocked
  <1>2. ASSUME NEW r \in Requests, Step(r) \/ DeadlockVictim(r) \/ Abandon(r)
        PROVE  LostLoansLocked(r)'
    <2> USE DEF Goto, At, Finish
    <2>1. CASE Refuse(r) \/ InsertLoan(r) \/ ShelveCopy(r) \/ MarkLost(r)
      <3>1. ReleaseLocks(r)
        BY <2>1 DEF Refuse, InsertLoan, ShelveCopy, MarkLost
      <3>2. \A l \in LoanIds : loanLock'[l] # r
        BY <3>1, ReleaseLocksType
      <3> QED BY <3>2 DEF LostLoansLocked
    <2>2. CASE CloseLoan(r)
      BY <2>1, <2>2 DEF CloseLoan, LockInv, LostLoansLocked
    <2>3. CASE CloseLostLoans(r)
      <3>1. /\ pc[r] = "lost" /\ pc'[r] = "mark" /\ UNCHANGED <<req, loans>>
            /\ \A l \in LoanIds : loanLock'[l] = IF l \in OpenLoansOn(req[r].copy)
                                                 THEN r ELSE loanLock[l]
        BY <2>3 DEF CloseLostLoans, tables
      <3> QED BY <3>1 DEF LockInv, LostLoansLocked, OpenLoansOn
    <2>4. ASSUME ~ Refuse(r), UNCHANGED loanLock, pc[r] \notin {"shelve", "mark"}
          PROVE  LostLoansLocked(r)'
      BY <2>4 DEF LockInv, LostLoansLocked
    <2>5. CASE Borrow(r)
      BY <2>1, <2>4, <2>5 DEF Borrow, StartBorrow, CheckHead, ClaimCopy, CheckRetention,
         LockBorrower, CountActiveLoans, QueueReceipt, Start, locks
    <2>6. CASE Return(r)
      BY <2>1, <2>2, <2>4, <2>6 DEF Return, StartReturn, PromoteNext, QueueReady, Start, locks
    <2>7. CASE EditCopy(r)
      BY <2>1, <2>3, <2>4, <2>7 DEF EditCopy, StartEdit, WriteCopy, Start, locks
    <2>8. CASE Reserve(r) \/ Cancel(r)
      BY <2>1, <2>4, <2>8 DEF Reserve, StartReserve, CheckStock, Enqueue, Cancel, locks
    <2> QED
      BY <1>2, <2>1, <2>5, <2>6, <2>7, <2>8 DEF Step, DeadlockVictim, Abandon
  <1>3. ASSUME NEW r \in Requests, Step(r) \/ DeadlockVictim(r) \/ Abandon(r),
               NEW q \in Requests
        PROVE  LostLoansLocked(q)'
    <2>1. CASE q # r
      <3>1. Apart(r, q)
        BY <1>3, <2>1, StepApart, RefuseApart DEF DeadlockVictim, Abandon
      <3> QED BY <1>1, <3>1 DEF Apart
    <2> QED BY <1>2, <1>3, <2>1
  <1>4. CASE UNCHANGED <<pc, req, loanLock>>
    BY <1>1, <1>4 DEF LockInv
  <1> QED
    BY <1>3, <1>4 DEF LockInv, Next, AddCopy, HoldLapses, ExpireStale, SetStatus, SetCategory,
       vars, locks

(* A step that leaves the open loans of a copy alone leaves its holder alone. *)
LEMMA HolderKept ==
  ASSUME WellFormed, OneOpenLoanPerCopy, NEW c \in Copies,
         OpenLoansOn(c)' = OpenLoansOn(c),
         \A l \in OpenLoansOn(c) : loans'[l].member = loans[l].member
  PROVE  Holder'[c] = Holder[c]
  <1>1. CASE OpenLoansOn(c) = {}
    BY <1>1 DEF Holder
  <1>2. ASSUME NEW l \in OpenLoansOn(c) PROVE Holder'[c] = Holder[c]
    <2>1. OpenLoansOn(c) = {l}
      BY <1>2 DEF OneOpenLoanPerCopy
    <2>2. (CHOOSE k \in OpenLoansOn(c)' : TRUE) = l
      BY <2>1
    <2>3. Holder'[c] = loans'[l].member
      BY <1>2, <2>2 DEF Holder
    <2> QED BY <1>2, <2>3, HolderIs
  <1> QED BY <1>1, <1>2

(* The refinement mapping is a function of the copies. *)
LEMMA HolderFunction ==
  Holder = [c \in Copies |-> Holder[c]] /\ Holder' = [c \in Copies |-> Holder'[c]]
  BY DEF Holder

(* The insert of a loan is an issue of the register. *)
LEMMA InsertIssues ==
  ASSUME WellFormed, OneOpenLoanPerCopy, LimitInv, NEW r \in Requests,
         InsertLoan(r), ~ Refuse(r), OneOpenLoanPerCopy'
  PROVE  \E c \in Copies, m \in Members : Register!Issue(c, m)
  <1>1. PICK c \in Copies, m \in Members :
          /\ c = req[r].copy /\ m = req[r].member
          /\ r \in Borrowing /\ pc[r] = "insert" /\ UNCHANGED peak
    BY DEF InsertLoan, At, Borrowing, WellFormed, MemoryFits
  <1>2. PICK l \in LoanIds :
          /\ loans[l].state = "unused" /\ OpenLoansOn(c) = {}
          /\ loans'[l] = [state |-> "open", copy |-> c, member |-> m]
          /\ \A k \in LoanIds \ {l} : loans'[k] = loans[k]
    BY <1>1, InsertOpens
  <1>3. Holder[c] = None
    BY <1>1, <1>2, HolderIs
  <1>4. Cardinality(Register!HeldBy(m)) < peak[m]
    <2>1. /\ Cardinality(OpenLoansOf(m)) < req[r].limit /\ req[r].limit <= peak[m]
          /\ req[r].limit \in Nat /\ peak[m] \in Nat /\ Cardinality(OpenLoansOf(m)) \in Nat
      BY <1>1, OpenLoansFinite DEF LimitInv, CountStands, WellFormed, TypeOK, Request
    <2> QED BY <1>1, <2>1, HeldByLoans
  <1>5. Holder'[c] = m
    <2>1. OpenLoansOn(c)' = {l}
      BY <1>1, <1>2 DEF OpenLoansOn, OpenLoans
    <2>2. (CHOOSE k \in OpenLoansOn(c)' : TRUE) = l
      BY <2>1
    <2> QED BY <1>1, <1>2, <2>1, <2>2 DEF Holder
  <1>6. \A d \in Copies \ {c} : Holder'[d] = Holder[d]
    <2> SUFFICES ASSUME NEW d \in Copies \ {c} PROVE Holder'[d] = Holder[d]
      OBVIOUS
    <2>1. OpenLoansOn(d)' = OpenLoansOn(d) /\ l \notin OpenLoansOn(d)
      BY <1>2 DEF OpenLoansOn, OpenLoans
    <2> QED BY <1>2, <2>1, HolderKept DEF OpenLoansOn, OpenLoans
  <1>7. Holder' = [Holder EXCEPT ![c] = m]
    BY <1>1, <1>5, <1>6, HolderFunction
  <1>8. UNCHANGED peak
    BY <1>1
  <1>9. Register!Issue(c, m)
    BY <1>3, <1>4, <1>7, <1>8 DEF Register!Issue, Register!Cardinality, Cardinality
  <1> QED BY <1>9

(* A return, or a report of loss, takes back the one copy it is about, unless *)
(* its loan was closed already.                                               *)
LEMMA ClosingTakesBack ==
  ASSUME WellFormed, OneOpenLoanPerCopy, LockInv, NEW r \in Requests,
         ShelveCopy(r) \/ MarkLost(r)
  PROVE  \/ UNCHANGED Register!registerVars
         \/ \E c \in Copies : Register!TakeBack(c)
  <1>1. PICK c \in Copies :
          /\ c = IF ShelveCopy(r) THEN loans[req[r].loan].copy ELSE req[r].copy
          /\ UNCHANGED peak
    BY DEF ShelveCopy, MarkLost, At, WellFormed, MemoryFits, RowsKnown
  <1>2. \A l \in LoanIds : loans[l].copy # c => loans'[l] = loans[l]
    <2>1. CASE ShelveCopy(r)
      BY <1>1, <2>1, LoansClosed
    <2>2. CASE MarkLost(r) /\ ~ ShelveCopy(r)
      <3>1. \A l \in LoanIds : loanLock[l] = r => loans[l].copy = c
        BY <1>1, <2>2 DEF MarkLost, At, LockInv, LostLoansLocked
      <3> QED BY <2>2, <3>1, LoansClosed
    <2> QED BY <2>1, <2>2
  <1>3. \A l \in LoanIds : /\ loans'[l].copy = loans[l].copy
                           /\ loans'[l].member = loans[l].member
                           /\ loans'[l].state \in {loans[l].state, "closed"}
    BY LoansClosed
  <1>4. \A d \in Copies \ {c} : OpenLoansOn(d)' = OpenLoansOn(d)
    BY <1>2, <1>3 DEF OpenLoansOn, OpenLoans
  <1>5. OpenLoansOn(c)' \subseteq OpenLoansOn(c)
    BY <1>3 DEF OpenLoansOn, OpenLoans
  <1>6. \A d \in Copies : OpenLoansOn(d)' = OpenLoansOn(d) => Holder'[d] = Holder[d]
    BY <1>3, HolderKept DEF OpenLoansOn, OpenLoans
  <1>7. CASE OpenLoansOn(c)' = OpenLoansOn(c)
    <2>1. \A d \in Copies : Holder'[d] = Holder[d]
      BY <1>4, <1>6, <1>7
    <2> QED BY <1>1, <2>1, HolderFunction DEF Register!registerVars
  <1>8. CASE OpenLoansOn(c)' # OpenLoansOn(c)
    <2>1. PICK l \in OpenLoansOn(c) : l \notin OpenLoansOn(c)'
      BY <1>5, <1>8
    <2>2. OpenLoansOn(c)' = {}
      BY <1>1, <1>5, <2>1 DEF OneOpenLoanPerCopy
    <2>3. Holder[c] # None
      BY <1>1, <2>1, HolderIs, CirculationAssumption
    <2>4. Holder' = [Holder EXCEPT ![c] = None]
      <3>1. Holder'[c] = None
        BY <1>1, <2>2 DEF Holder
      <3>2. \A d \in Copies \ {c} : Holder'[d] = Holder[d]
        BY <1>4, <1>6
      <3> QED BY <1>1, <3>1, <3>2, HolderFunction
    <2> QED BY <1>1, <2>3, <2>4 DEF Register!TakeBack
  <1> QED BY <1>7, <1>8

(* Every step of the desk is a step of the register or a stutter. *)
LEMMA DeskStep ==
  ASSUME WellFormed, OneOpenLoanPerCopy, OneOpenLoanPerCopy', LimitInv, LockInv, [Next]_vars
  PROVE  [Register!RegisterNext]_Register!registerVars
  <1>1. ASSUME NEW r \in Requests, InsertLoan(r), ~ Refuse(r) PROVE Register!RegisterNext
    BY <1>1, InsertIssues DEF Register!RegisterNext
  <1>2. ASSUME NEW r \in Requests, ShelveCopy(r) \/ MarkLost(r)
        PROVE  [Register!RegisterNext]_Register!registerVars
    BY <1>2, ClosingTakesBack DEF Register!RegisterNext
  <1>3. ASSUME UNCHANGED loans PROVE UNCHANGED Holder
    BY <1>3 DEF Holder, OpenLoansOn, OpenLoans
  <1>4. CASE SetCategory
    <2>1. PICK m \in Members, k \in Categories :
            peak' = [peak EXCEPT ![m] = IF MaxLoans[k] > @ THEN MaxLoans[k] ELSE @]
      BY <1>4 DEF SetCategory
    <2>2. UNCHANGED Holder
      BY <1>3, <1>4 DEF SetCategory
    <2>3. CASE MaxLoans[k] > peak[m]
      <3>1. peak' = [peak EXCEPT ![m] = MaxLoans[k]] /\ peak'[m] = MaxLoans[k]
        BY <2>1, <2>3 DEF WellFormed, TypeOK
      <3>2. Register!Raise(m)
        BY <2>2, <2>3, <3>1, CirculationAssumption DEF Register!Raise
      <3> QED BY <3>2 DEF Register!RegisterNext
    <2>4. CASE ~ MaxLoans[k] > peak[m]
      <3>1. UNCHANGED peak
        BY <2>1, <2>4 DEF WellFormed, TypeOK
      <3> QED BY <2>2, <3>1 DEF Register!registerVars
    <2> QED BY <2>3, <2>4
  <1>5. ASSUME UNCHANGED <<loans, peak>> PROVE UNCHANGED Register!registerVars
    BY <1>3, <1>5 DEF Register!registerVars
  <1>6. ASSUME NEW r \in Requests, Step(r) \/ DeadlockVictim(r) \/ Abandon(r)
        PROVE  \/ (InsertLoan(r) /\ ~ Refuse(r)) \/ ShelveCopy(r) \/ MarkLost(r)
               \/ UNCHANGED <<loans, peak>>
    <2>1. CASE Refuse(r)
      BY <2>1 DEF Refuse, tables
    <2>2. CASE Borrow(r)
      BY <2>1, <2>2 DEF Borrow, StartBorrow, CheckHead, ClaimCopy, CheckRetention,
         LockBorrower, CountActiveLoans, QueueReceipt, Start, tables
    <2>3. CASE Return(r)
      BY <2>1, <2>3 DEF Return, StartReturn, CloseLoan, PromoteNext, QueueReady, Start, tables
    <2>4. CASE EditCopy(r)
      BY <2>4 DEF EditCopy, StartEdit, CloseLostLoans, WriteCopy, Start, tables
    <2>5. CASE Reserve(r) \/ Cancel(r)
      BY <2>1, <2>5 DEF Reserve, StartReserve, CheckStock, Enqueue, Cancel, tables
    <2> QED BY <1>6, <2>1, <2>2, <2>3, <2>4, <2>5 DEF Step, DeadlockVictim, Abandon
  <1>7. CASE AddCopy \/ HoldLapses \/ ExpireStale \/ SetStatus \/ UNCHANGED vars
    BY <1>5, <1>7 DEF AddCopy, HoldLapses, ExpireStale, SetStatus, vars, tables
  <1> QED BY <1>1, <1>2, <1>4, <1>5, <1>6, <1>7 DEF Next

(* Every interleaving of borrows, returns and edits looks from outside like   *)
(* copies issued and taken back one at a time, within entitlement.            *)
THEOREM DeskImplementsRegister == Spec => ImplementsRegister
  <1>1. Init => Register!RegisterInit
    <2> SUFFICES ASSUME Init PROVE Register!RegisterInit
      OBVIOUS
    <2>1. Holder = [c \in Copies |-> None]
      BY DEF Init, Holder, OpenLoansOn, OpenLoans, NoLoan
    <2>2. peak \in [Members -> Nat]
      BY InitWellFormed DEF WellFormed, TypeOK
    <2> QED BY <2>1, <2>2 DEF Register!RegisterInit
  <1>2. Init => LockInv
    BY CirculationAssumption DEF Init, LockInv, LostLoansLocked
  <1>3. Spec => []LockInv
    BY <1>2, LockInvStep, AlwaysWellFormed, PTL DEF Spec
  <1> QED
    BY <1>1, <1>3, DeskStep, AlwaysWellFormed, AlwaysWithinLimit, OneOpenLoan, PTL
    DEF Spec, ImplementsRegister, Register!RegisterSpec
=============================================================================
