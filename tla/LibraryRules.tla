---------------------------- MODULE LibraryRules ----------------------------
(***************************************************************************)
(* The rules of the library that hold whatever database or transport is    *)
(* underneath: package domain of the backend.  Every operator here is a    *)
(* pure function of its arguments.                                         *)
(***************************************************************************)
EXTENDS Integers

(* The physical state of one volume. *)
CopyStatus == {"available", "on_loan", "lost", "damaged", "withdrawn"}

(* Why a copy may or may not leave the building. *)
LoanPolicy == {"circulating", "reference_only", "on_display", "restricted"}

IsBorrowable(policy) == policy = "circulating"
IsReservable(policy) == policy \in {"circulating", "on_display"}

(* Whether an account may borrow at all. *)
UserStatus == {"active", "suspended", "inactive"}

CanBorrow(userStatus) == userStatus = "active"

(* The edits of a copy's status a librarian may make; lending and returning *)
(* are not edits and are absent here. *)
CopyTransitions ==
  [ available |-> {"damaged", "lost", "withdrawn"},
    on_loan   |-> {"lost", "damaged"},
    lost      |-> {"available", "withdrawn"},
    damaged   |-> {"available", "withdrawn"},
    withdrawn |-> {} ]

CanTransitionTo(from, to) == from = to \/ to \in CopyTransitions[from]

ClosesAnOpenLoan(to) == to \in {"lost", "damaged"}

(* A title held in two or more lending copies keeps one of them on the shelf. *)
RetainsAShelfCopy(stock) == stock >= 2

BorrowableCount(stock, available) ==
  IF RetainsAShelfCopy(stock)
    THEN IF available <= 1 THEN 0 ELSE available - 1
    ELSE available

(* Reservation states that keep a member in the queue for a title. *)
OpenReservation == {"pending", "ready"}
ReservationStatus == OpenReservation \cup {"fulfilled", "cancelled", "expired"}
=============================================================================
