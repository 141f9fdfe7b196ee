# Formal models of the HOlibrary backend

TLA+ models of the service in `src/`, with the TLC configurations that check
them on small instances and the TLAPS proofs that carry the main results to any
number of requests, copies, members, workers and messages.

The models are written from the Go code and its SQL; documents and comments are
only used as the source of what *ought* to hold. Where code and document
disagree, section 8 says what happens, and which instance shows it.

Contents: [the system](#1-the-system) · [modules](#2-modules) ·
[from code to model](#3-from-code-to-model) · [runs](#4-what-the-runs-check) ·
[bounds](#5-bounds) · [fairness](#6-fairness) · [proofs](#7-what-is-proved) ·
[disagreements](#8-what-the-code-does-not-keep) ·
[outside the models](#9-not-modelled) · [plan](#10-plan)

## 1. The system

One Go process (`src/cmd/api/main.go`) serves HTTP and runs three kinds of
background work: the notification worker, every 30 seconds; an hourly sweep of
expired holds; and reminders for loans that fall due. Several containers may
run against the same PostgreSQL database, if only while one replaces another.
All shared state is in PostgreSQL, at its default isolation, READ COMMITTED;
login counters are in Redis, with an in-memory fallback. There is no shared
state between goroutines of one process apart from that fallback and a cached
FCM access token, so what is hard about the system is the interleaving of SQL
statements.

| Component | State | Operations | Meets | Correct when |
|---|---|---|---|---|
| **Domain rules** `domain/domain.go` | none | borrowable and reservable policies, copy transitions, last-copy retention | called by every service | pure rules |
| **Circulation** `circulation_service.go`, `circulation_repo.go` | `loans`, `copies.status` | borrow, self checkout, return, due reminders | locks reservations, copies, members; return calls the reservation hook; queues notices | one open loan per copy; status and loans agree; nobody exceeds their limit; history is kept |
| **Reservations** `reservation_service.go`, `reservation_repo.go` | `reservations` | create, cancel, promote next, expire | counts copies; promoted by returns; fulfilled by borrows | one place per member and title; a hold is used, cancelled or given up; first come first served |
| **Copy lifecycle** `catalogue_service.go`, `catalogue_repo.go` | `copies` | add, edit, report lost (closes the loan) | races with borrow and return | an edit never contradicts an open loan |
| **Outbox and worker** `outbox_repo.go`, `queue/worker.go` | `outbox`, `device_tokens` | queue, claim, check, send, fan out, retry, retire tokens | every service queues; calls Resend and FCM | one worker per message; nothing sent twice knowingly; retries end; nothing is lost |
| **Invitation deliveries** `invitation_repo.go`, webhook handler | `invitation_deliveries` | create, provider id, events, replace | worker and provider write one row | events never move a record backwards |
| **Members and roles** `member_service.go`, `user_repo.go` | `users` | create, import, status, role, invitation | status and category are read by borrow | there is always an administrator; every member has terms to borrow on; nobody is created twice or without an invitation |
| **Sessions and passwords** `auth_service.go`, `token_repo.go`, `auth/token.go` | `refresh_tokens`, `password_resets`, `users.tokens_invalid_before` | login, refresh, logout, change, reset | checked by the middleware on each request | a token is used once; a password change ends every older session |
| **Rate limiting** `ratelimit.go` | Redis counters, a map per process | allow | login and reset | no more than the limit per window; an outage never locks anybody out for good |
| **Titles and their edits** `catalogue_repo.go`, `book_edit_repo.go` | `books` and link tables | create, edit, archive, search | audit log; bookmarks wait for edits | one title per ISBN; an edit is applied whole and logged exactly; no cycle among headings |
| **Saved searches**, **bookmarks** | one table each | create, list, delete | member row lock | the limit holds; saving is idempotent |
| **Due reminders** `main.go`, `circulation_service.go` | none of its own | an hourly pass over the open loans | reads loans, queues notices, drained by the worker | the late are chased, whoever brought the book back is not |
| **Migrations and bootstrap** `migrate.go`, `cmd/bootstrap` | `schema_migrations` | apply, first administrator | before the service starts | applied once, under one lock |
| **Audit log**, **search**, **external lookup**, **transport**, **simulator** | see section 9 | | | |

The behaviour that is hard to test, and where each model looks for it:

* statements of several transactions interleave, and what one read is stale when
  it acts (`Circulation`);
* row locks are taken in different orders by different operations
  (`Circulation`, the deadlock detector included);
* the process stops between a commit and what should follow it: the promotion
  after a return (`Circulation`), the batch a worker has claimed (`Outbox`);
* a message is sent and the statement that records it fails (`Outbox`);
* provider events come late, twice or out of order (`Outbox`);
* a token is presented twice, or while it is being revoked; a password changes
  while another request issues a session on the old one (`Sessions`);
* administrators demote each other, locking rows one by one (`Roles`);
* a counter is shared, lost, or replaced by one in memory (`RateLimit`);
* edits, searches and imports overlap (`Shelf`, `Enrolment`);
* a queued notice outlives the fact it announces (`Reminders`).

`PROJECT.json` lists each such hazard with its line and the properties that
cover it.

## 2. Modules

| Module | What it is |
|---|---|
| `LibraryRules` | the domain rules as operators |
| `Circulation` | borrow, return, edits of copies, reservations, statement by statement, with row locks |
| `CirculationProperties` | types, invariants, action properties, fairness and liveness of the desk |
| `LoanRegister` | abstract specification: who holds which copy, with issue and return as single steps |
| `CirculationProofs` | types, history, one open loan, the loan limit; the life of a reservation, one place per member, the head of the queue; copies and loans agree; the desk implements the register |
| `MCCirculation` | small instances of the desk |
| `Outbox` | the outbox table, workers, devices, invitation records, faults |
| `OutboxProperties` | types, invariants, fairness and liveness of delivery |
| `Postbox` | abstract specification: a message is posted once, reaches a recipient at most once, and closes |
| `OutboxProofs` | types, exclusive claims, the cap on retries; the outbox implements the postbox |
| `MCOutbox` | small instances of the outbox |
| `Sessions` | sign-in, refresh, sign-out, change and reset of passwords, the check of every request |
| `OneShot` | abstract specification of a token: issued once, presented once, used at most once |
| `SessionProofs` | types, single use, what a change ends, what an access token hides |
| `Roles` | the first administrator, staff accounts, role changes with row locks |
| `RolesProofs` | types, the last administrator, terms of members, no cycle of demotions |
| `Enrolment` | registration at the desk and from spreadsheets, previews, setup links, invitations |
| `EnrolmentProofs` | repeats in a file, sums of an upload, one creation per account |
| `RateLimit` | the Redis counter, the windows in memory, the choice between them |
| `RateLimitProofs` | the limits over every stretch of time, and that nobody stays refused |
| `Shelf` | titles, access points, edits, archive, search; saved searches and bookmarks |
| `ShelfProofs` | types, one title per number, edits, pages, the limit of saved searches, no cycle of headings |
| `Reminders` | the hourly pass composed with the drain loop, faults and restarts |
| `RemindersProofs` | how often a member who has brought the book back is still chased |
| `MCSessions` ... `MCReminders` | small instances of these |

`Circulation` and `Outbox` are joined at the table: what the desk queues is the
variable `mail` of `Circulation`, and `QueueTracked` of `Outbox` is that insert
seen from the other side. `Outdate` of `Outbox` stands for the return, the
cancellation or the expiry that makes a queued notice untrue. They are checked
apart because the worker never writes a table the desk reads. `Reminders`
composes the two ends for one kind of message: loans that come and go, the pass
that queues, the loop that claims, checks and sends. It leaves out the rows,
attempts and devices `Outbox` has, and keeps what `Outbox` has no notion of, the
loan a notice is about.

`Sessions` and `Roles` meet at `users`: a role change stamps the account, which
`Sessions` has as `UpdateRole` and `CommitRole`, with the row locked between the
two; which role may be given, and when it is refused, is in `Roles`.

## 3. From code to model

### The desk

*Requests.* An element of `Requests` is a goroutine serving a handler. `pc[r]`
names the statement it is about to execute, `req[r]` what it holds in Go
variables. The statements of a transaction after the last that can wait are
merged with its COMMIT: no other transaction can tell them apart.

*READ COMMITTED.* The database variables hold committed data only. A row a
transaction has written or locked `FOR UPDATE` is recorded in `copyLock`,
`loanLock`, `resLock`, `userLock`; a statement that needs a locked row is not
enabled until the lock is free, and then sees the committed row, as PostgreSQL
re-evaluates the condition of a statement that waited. Plain SELECTs read
committed data and never wait. Uncommitted work is not visible to others, which
is why the retention count of one borrow cannot see the claim of another.
Where a waiting statement selects one row with an ORDER BY (`CheckHead`) or a
set of rows (`CloseLostLoans`) the model re-evaluates the selection when the
lock is granted; PostgreSQL keeps the rows it first selected and rechecks them.
The two differ only when the selection changed while the statement waited:
PostgreSQL then skips a row that no longer qualifies, and finds none where the
model may select another.

*Deadlock.* `DeadlockVictim` is PostgreSQL's detector: two requests waiting for
each other's rows, one of which is aborted. `Deadlocked` names the cycles the
locking orders make possible.

| Code | Model |
|---|---|
| `CirculationRepo.borrow` | `StartBorrow` (reads in the service), `CheckHead`, `ClaimCopy`, `CheckRetention`, `LockBorrower`, `CountActiveLoans`, `InsertLoan`; then `QueueReceipt` in a transaction of its own |
| `SelfCheckout` | the same: the member is both borrower and issuer; its role check is a guard on who may call and is left out |
| `Return` and `OnCopyReturned` | `StartReturn`, `CloseLoan`, `ShelveCopy`, `PromoteNext`, `QueueReady` |
| `UpdateCopy` | `StartEdit` (reads and checks the transition), then `CloseLostLoans`, `MarkLost`, or `WriteCopy` |
| `AddCopy` | `AddCopy` |
| `ReservationRepo.Create` | `StartReserve`, `CheckStock`, `Enqueue` |
| `Cancel`, `ExpireStale`, the clock | `Cancel`, `ExpireStale`, `HoldLapses` |
| `UpdateStatus`, `UpdateRole` | `SetStatus`, `SetCategory`, as far as borrowing reads them |
| the process stops, or a client gives up | `Abandon` |

History variable: `peak`, the largest entitlement a member has had, because the
limit a borrow applies is read before its transaction.

Left out of the desk: due dates (only lapsed or not is told apart, for holds),
audit rows (written in the same transaction), UUIDs, wording, the issuing
librarian and the key-share lock their foreign key takes.

### The outbox

Each statement outside a transaction is a step; so is each call to a provider.
`Pending` is the single UPDATE that claims a batch; `Answers` allows its result
to be lost after it committed, when the pass ends with an error. A worker is at
`check`, `email`, `devices`, `push`, `revoke`, `track`, `sent`, `failed`,
`superseded` or one of the two notes (the second statement of `MarkFailed` and
of `MarkSuperseded`, which is not in one transaction with the first).

A provider accepts, rejects for good, or fails for now. A message it took
without the answer arriving is a failure for now, so `receipts` counts the
deliveries a provider has *confirmed*: what a worker could know. A reminder that
is both pushed and mailed is two rows. `Stop` is the end of a container, or the
cancelled context: the worker's memory is gone, the rows are as they were.
`DbError` is a statement that fails, after which the code logs and goes on, at
each place where it does. A relevance check that fails is no error to the worker:
`OutboxRepo.StillRelevant` answers "no" (`outbox_repo.go:150-156`, `165-169`), and
the message is superseded.

Left out: `scheduled_at` (every row is due), the text of messages, the
signature check of webhooks (an unsigned event is no step).

### Accounts

| Code | Model |
|---|---|
| `AuthService.Login` | `Login` (reads the row and checks the password), `IssueAccessToken` (the JWT is signed with the time of signing), `SaveRefreshToken` |
| `Refresh` | `ConsumeRefreshToken` (one UPDATE that checks expiry and the account's stamp), `Refresh` (reads the account again), then as a login |
| `Logout`, expiry | `Logout`: both leave the token dead |
| `ChangePassword` | `ChangePassword`, `StartUpdatePassword` (the statement takes its `now()`), `UpdatePassword` (it gets the row), `RevokeAllRefreshTokens`, which answers |
| `RequestPasswordReset`, `ResendInvitation` | `ForgotPassword` or `InvalidatePasswordResets`, then `SavePasswordReset` |
| `ResetPassword` | `ConsumePasswordReset`, `ResetPassword` (the status is checked), then as a change |
| `SessionValid` in the middleware | `Admitted` |
| `UpdateStatus`, `UpdateRole` | `SetStatus`; `UpdateRole` and `CommitRole` |
| `UserRepo.UpdateRole` | `SetRole` (the rows of the administrators are found), `LockAdmin` one after the other, `LockTarget`, `UpdateRole` |
| `cmd/bootstrap`, `MemberService.Create` | `CountAdmins`, `InsertFirstAdmin`; `Create` |
| `CreateMember`, `ImportCSV` | `Create` or `ImportCSV`, then per row `ReadRow`, `InsertUser`, `SavePasswordReset`, `QueueInvitation`; `Preview` for a dry run; `Answer` |
| `ratelimit.go` | `NewLimiter`, `Allow`, `Fallback`, `Sweep`; `Stop` is the end of a container |

A password is its number among those the account has had (`epoch`), and wrong
passwords or unusable tokens are no step. History variables: `answered`, the
password in force when the last change was answered; `used`, how often a token
did what it stands for; `late`, kept on a session that descends from a call
which was already issuing when a change was answered; `voided`, the instants whose
access tokens a written change has voided. The INSERT of a token takes a share
lock on the account and so waits for a role change, but not for a password change,
which leaves the key alone; the row is dated when its statement started, before
the wait. `Create` of `Roles` goes by the role an account has, the code by the one
in the caller's token, which the middleware compared with the account a moment
earlier. In `Enrolment` an
identifier is its spelling, and `Student` maps spellings to people.

### Titles and lists

A title is a record of four fields: the ISBN, the text of the record, authors and
subjects. `CreateBook` is `CreateBook` (normalise, check), `InsertBook`
(the unique index, which makes a second entry wait for the first), one
`LinkAuthor` per author in the order of entry and one `LinkSubject` per heading
in alphabetical order (an upsert, which locks the row), and `CommitBook`; a duplicate goes to `FindByISBN`. `UpdateBook` is `StartEdit`,
`LockBook` (the row is read again under its lock), `UpdateBook`, the links that
changed, `CommitBook` with the audit entry. A search reads its count and its page
in one REPEATABLE READ transaction, which `bookPage` models by using what the
first statement saw; the page of bookmarks is two statements of their own.

### Reminders

`NotifyDueSoon` is one pass: the list of the open loans due first and the time
are read once, and `Queue` inserts one notice at a time. `Pending` claims what is
pending, `Deliver` asks again whether the loan is open, `Send` is the provider's
answer. `Strand` is a check that fails, which drops the notice, or a claim whose
answer is lost, which leaves it claimed. Rows that say the same of one loan are one element of a set: a loan that
is queued again before the last notice went out is the same notice here, though
it is two rows and two messages in the code.

## 4. What the runs check

Passing runs; every property has a mutation of the code under which TLC finds
it violated (`mutants` in `PROJECT.json`).

| Run | States | Shows |
|---|---|---|
| `Lending` | 129,759 | two desks, two titles, one member whose category and status change, new copies, requests given up at any point: `CustodyMatches`, `ClaimIsExclusive`, `LoanLimit`, and the desk implements `LoanRegister` |
| `Queue` | 147,834 | two members, one copy, holds that lapse: `OnePlacePerMember`, `HeadStaysMine`, `ReservationLifecycle` |
| `Progress` | 168,883 | borrow, return, loss, stale edits, reservations under fair locks: `TypeOK`, `OneOpenLoanPerCopy`, `LoanHistoryKept`, `EveryRequestEnds`, `HoldsAreReleased`; the lock cycle between a borrow and a report of loss does occur here |
| `Outbox` | 53,505 | three workers, a message of any kind, two devices, stops and failed statements, fair drain loops: `TypeOK`, `OneWorkerPerMessage`, `RetriesAreCapped`, `EveryMessageSettles`, and the worker implements `Postbox` |
| `Sessions` | 4,034,288 | two calls, one account, two refresh tokens, one link, a change of role and status: `TypeOK`, `OnlyLateSessionsSurvive`, `ConfinedUntilChanged`, `OlderAccessIsRefused`, and the sessions implement `OneShot` |
| `Roles` | 2,148,457 | two role changes or bootstraps, three accounts: `AdministratorRemains`, `MembersHaveTerms`, `DemotionsDoNotDeadlock` |
| `Enrolment` | 126,837 | two uploads or desks, a student in two spellings, unusable rows, previews, failing statements: `SummaryAddsUp`, `RepeatsAreFound`, `CreatedOnceAndInvited` |
| `RateLimit` | 1,672,426 | two containers, one key, Redis coming and going: `RedisLimitHolds`, `MemoryLimitHolds`, `NobodyIsBanned` |
| `Shelf` | 619,883 | two calls, two titles, one ISBN, two authors and two headings: `TypeOK`, `OneTitlePerISBN`, `EditsAreAppliedAndLogged`, `PageAgreesWithCount`, `SavedWithinLimit`, `HeadingsDoNotDeadlock` |
| `Reminders` | 754,698 | two containers, two loans of which a pass looks at one, a fault: `QuietAfterReturn`, `OverdueIsChased` |

Two runs are there to be violated, `Stranded` and `Slipped`: section 8.

What the less obvious properties say:

* **CustodyMatches** relates two tables written by different statements of three
  operations. It holds as long as no copy is edited; with edits, the stale
  edit of section 8 breaks it, so the run and the theorem leave edits out and say
  so, while `OneOpenLoanPerCopy` holds with edits in (`Progress`), and the theorem
  about the register covers them.
* **HeadStaysMine**: what the first statement of a borrow decided is still true
  at its last, because the row lock outlives the decision.
* **LoanLimit** is against `peak`, not the present category: a demotion between
  the service's read and the insert is allowed to lend by the old limit.
* **ImplementsRegister** and **ImplementsPostbox** are refinements: every
  interleaving looks from outside like single steps of a much smaller
  specification.
* **OneWorkerPerMessage** includes that a message in a worker's hands is
  `claimed` in the table: a stop, a lost statement or a second container never
  makes it claimable again while somebody may still send it.
* **RetriesAreCapped** is the promise of the comment at
  `outbox_repo.go:288-289`. The claim and the failure both add to `attempts`,
  so the code in fact gives up after three tries.
* **TokensAreSingleUse** is a refinement of `OneShot`: a token that was presented
  is `held` by one call, and is then `honoured` once or `void`. A call that stops
  between the two has used the token up for nothing, never twice.
* **OnlyLateSessionsSurvive** is about the answer, not the UPDATE: from the moment
  the member is told, every refresh token that rests on an earlier password is of
  no use, except those of calls that were already past their own check. `late`
  marks these and what descends from them, and nothing else. The repository claims
  more, that there are no such tokens: `NoRefreshSlipsThrough` says so, and
  `Slipped` refutes it.
* **OlderAccessIsRefused**: what was signed before a change began is refused once
  the change is written. A statement takes its `now()` when it starts and may wait
  for the row, so stamps are written out of order, and a later write can put an
  earlier stamp in place; access tokens are dated in whole seconds and the stamp is
  not. So what overlapping changes void together is what was signed before all of
  them, which is what the property says, and they stay void. The mutant stores the
  new hash without the stamp.
* **AdministratorRemains** holds although each demotion counts rows one by one: a
  row that is counted is locked, so nobody else can demote it.
* **DemotionsDoNotDeadlock** is about two requests that take the administrator's
  role away. A promotion is not covered: see section 8.
* **RedisLimitHolds** is about the instants of the events Redis allowed, a history:
  of `Limit + 1` in a row, the last comes more than a window after the first. So it
  is over every stretch as long as the window, not only the windows the counter
  happens to start: the expiry is pushed back by each attempt,
  so a key that keeps trying stays refused. The comment calls the window fixed
  (`ratelimit.go`); in the Redis limiter it slides with the last attempt.
* **MemoryLimitHolds** is twice the limit per stretch, for each run of each
  instance, because the windows in memory are fixed.
* **NobodyIsBanned** is what the transaction of INCR and EXPIRE is for: a counter
  without an expiry would refuse the key for ever.
* **EditsAreAppliedAndLogged** relates an answer to the title as it stood when the
  edit was applied, not when the librarian read it, and to one audit entry.
* **QuietAfterReturn**: the check and the send are two steps, so each container
  may send one notice about a loan returned in between, and no more, whatever
  batches and lists were read before the return.
* **OverdueIsChased** is liveness under a fault: a lost batch, a failed send or a
  pass cut short only delays the notice, because the next pass queues it again.

The steps of the `Queue` run include four interleavings that no property here
forbids, because the documents do not clearly do so: a promotion passes over the
oldest member while a borrow by that member, later refused, has their row
locked; a walk-in who saw an empty queue takes the copy after it was promised to
somebody who joined since; the copy is borrowed between the commit of a return
and the promotion, so a member is told of a copy that is gone; and, in
`Lending`, a member suspended after the service read the account is still lent
the copy.

## 5. Bounds

Two concurrent requests, because every rule here relates two transactions. One or two
copies, of one title (for retention and queues) or of two (for limits). Loan
rows (`LoanIds`) and tickets (`MaxTickets`) are the bounds on history: two to
three loans let a copy be lent again after its return, two tickets let a queue
have a head and somebody behind it. `Ops` and `Edits` select the operations an
instance exercises; the passing runs between them take every action. Three
workers let one message pass from hand to hand with another worker always ready to
claim it, over all of its attempts, of which five are the code's own number. In the
code two messages meet only in a batch, which a worker works through one by one;
`Stranded` has two, and the theorems have any number. Two devices make a fan-out
that is partly reached.

*Sessions*: two calls suffice to race any two statements. Two refresh tokens are a
rotation, one link is a reset, `MaxEpoch` of 1 is one change of password, three
instants in seconds of two put a change inside the second of a token and across
its end; the properties speak of one account each. *Roles*: three accounts allow
two administrators and a third who is promoted between. *Enrolment*: a student in
two spellings, another one, two addresses, files of up to three rows. *RateLimit*: a
limit of two, windows of one, four instants: attempts before, at and after the end
of a window, twice. *Shelf*: one ISBN two titles compete for, two headings that
titles by different authors share (behind one author they would queue up before
the first heading), three entries of the audit log, a limit of one saved search. *Reminders*: a list limit of one with two
loans, so that one falls behind it; two containers, one fault of any kind; a loan
is due after a day and the clock goes one beyond. No loan is made that could not
become overdue within the clock.

Symmetry is used over requests, calls, containers, loan rows, members, titles,
tokens and, in `Sessions`, roles, in runs of safety properties only. `Reminders`, `Progress` and `Outbox` have none. `MaxLoans`, `BookOf`, `Offered` and `Undeliverable` are kept symmetric where it is used.

## 6. Fairness

* A request in flight is a goroutine, and PostgreSQL grants a row lock to those
  who queue for it in turn: strong fairness of each request's next statement.
  Nothing makes a client start a request, so `Start...` actions have none.
* The deadline of a hold passes: weak fairness of `HoldLapses`. The hourly sweep
  waits for row locks like everybody else: strong fairness of `ExpireStale`.
* A worker's ticker goes on: weak fairness of `Drain(w)`. Members, devices,
  webhooks and faults have none.
* A container makes passes over the loans and over its queue for as long as it
  runs: weak fairness of `RunSchedule(i)` and `Drain(i)` for each instance in
  `Reminders`. Its faults are bounded by `MaxFaults`, which reads "once faults
  cease": a loop that fails at every pass chases nobody. A restart is one step,
  because a stopped container takes none, and the one that replaces it has an
  empty memory.

`EveryMessageSettles` is checked with faults, and lets off a message that a fault
made its worker forget (`Forgotten`): it is claimed, nobody has it, and it stays so
for good, which is finding `Stranded`. No fairness is asked of the faults: a message
whose worker meets none must settle.

## 7. What is proved

For every value of the constants that satisfies the assumption its module names
(`CirculationAssumption`, `OutboxAssumption`, `SessionsAssumption`,
`RolesAssumption`, `EnrolmentAssumption`, `RateLimitAssumption`,
`ShelfAssumption`, `RemindersAssumption`): finitely many loan rows, titles and
containers; entitlements, limits and windows that are numbers, of any size, zero
included; a batch of at least one; seconds of at least an instant; refresh tokens
that are not links; files that are finite lists of lines, of any length; cards
that fill every field of a title; headings in an order; rows of different tables
distinct; and `None` outside the sets it is used with.

| Theorem | Statement | Argument |
|---|---|---|
| `TypesKept` | `Spec => []TypeOK` | `WellFormed` adds that a request past its first statement has in memory the row that statement was about |
| `HistoryKept` | `Spec => LoanHistoryKept` | only `InsertLoan` opens a row, and only an unused one |
| `OneOpenLoan` | `Spec => []OneOpenLoanPerCopy` | the partial unique index is evaluated in the step that inserts; edits included |
| `LimitKept` | `Spec => []LoanLimit` | between the count and the insert the member's lock keeps every other insert for that member out, and the limit in memory is at most `peak` |
| `LifecycleKept` | `Spec => ReservationLifecycle` | each step's guard on the committed row |
| `OnePlaceKept` | `Spec => []OnePlacePerMember` | the unique index in `Enqueue`; every other step only leaves `OpenReservation` |
| `HeadKept` | `Spec => []HeadStaysMine` | whoever holds a ticket in memory holds its row lock, and cancel, expiry and promotion need that lock |
| `CustodyKept` | without edits, `Spec => []CustodyMatches` | a request past the claim holds the copy's lock and the copy is `available` with no open loan; one past the close holds the loan's |
| `ClaimKept` | without edits, `Spec => []ClaimIsExclusive` | the same invariant |
| `DeskImplementsRegister` | `Spec => ImplementsRegister` | `InsertLoan` is an issue; `ShelveCopy` and `MarkLost` take back at most the one copy; all else stutters |
| `OutboxTypesKept`, `ClaimsExclusive` | `Spec => []TypeOK`, `Spec => []OneWorkerPerMessage` | `DrainInv`: a worker past `idle` has in hand a message that is not in its batch, which makes "done with" the same as "nobody's" |
| `RetriesCapped` | `Spec => []RetriesAreCapped` | `TriesInv`: each claim pays for one try in advance, and the exclusive claim means that only its worker spends it |
| `OutboxImplementsPostbox` | `Spec => ImplementsPostbox` | `PhaseInv`: nothing is confirmed of a message that waits, or that a worker has claimed and not begun, and nothing to the tokens a fan-out has left; so each confirmation is a first one |
| `SessionTypesKept` | `Spec => []TypeOK` | `SessionsInv` adds what a call must have read before each of its statements, and that a live token has an owner |
| `SessionsImplementSingleUse` | `Spec => TokensAreSingleUse` | `UseInv`: whoever holds a token took it out of circulation, holds it alone, and has done nothing with it; each statement then revokes, drops, takes or honours |
| `ChangeKept` | `Spec => []OnlyLateSessionsSurvive` | `EndsInv` counts a session in the making like a stored one: a call that is not late issues on a password at least as recent as the last answer |
| `ConfinementKept` | `Spec => []ConfinedUntilChanged` | the flag of an account only falls, and a call has read it or an earlier, stricter one |
| `OlderAccessRefused` | `Spec => []OlderAccessIsRefused` | `VoidInv`: a voided instant lies before the stamp, and before the `now()` of every change that has started and not yet written, so that whichever is written next leaves it voided |
| `RoleTypesKept`, `TermsKept` | `Spec => []TypeOK` (of `Roles`, used by the others), `Spec => []MembersHaveTerms` | a row is decided on and written under its own lock |
| `AdministratorKept` | `Spec => AdministratorRemains` | `LocksHeld`: what a demotion has counted it holds, and it is still an administrator; of two counted, one is not its target |
| `DemotionsKept` | `Spec => []DemotionsDoNotDeadlock` | `LocksOrdered`: everything a transaction has locked comes before the next administrator it asks for |
| `ShelfTypesKept` | `Spec => []TypeOK` | `Typed` also bounds what a call has in memory at each statement |
| `OneTitleKept` | `Spec => []OneTitlePerISBN` | `Claim`: a number that a call is about to write is locked by it, and no other title has it |
| `EditsKept` | `Spec => EditsAreAppliedAndLogged` | `Owner`: an edit past its first statement holds the row it read the old fields from, so what it compares with is what it replaces |
| `SavedLimitKept` | `Spec => []SavedWithinLimit` | `Counted`: between the count and the insert the call holds the member's row, and so there are no more searches than it counted |
| `PageKept` | `Spec => []PageAgreesWithCount` | `Asked`: both are read in one snapshot, and titles that change afterwards change neither |
| `NoHeadingDeadlock` | `Spec => []HeadingsDoNotDeadlock` | `InOrder`: the headings a call has locked come before all it has left; of two calls, the one that holds the later heading cannot want the earlier |
| `RedisLimitKept`, `MemoryLimitKept` | `Spec => []RedisLimitHolds`, `Spec => []MemoryLimitHolds` | `LimiterInv`: of a history, all but as many of the last as the counter has counted came more than a window earlier (`Apart`, Redis), or all but those of one window before the one under way (`Behind`, memory) |
| `NobodyBanned` | `Spec => []NobodyIsBanned` | `ExpiresInTime`: the step that makes a counter also sets when it ends |
| `RepeatsFound`, `SummaryKept` | `Spec => []RepeatsAreFound`, `Spec => []SummaryAddsUp` | `JobInv`: every identifier reported as new is among those seen, and the four counts are the numbers of the rows so reported |
| `CreatedOnce` | `Spec => []CreatedOnceAndInvited` | `Underway`: of all uploads and desks at most one is past the insert of an identifier, and it has yet to count it |
| `QuietKept` | `Spec => []QuietAfterReturn` | `Spent`: the notices sent after the return, and those a container still holds of a loan it took for open, are together at most the containers |

`OneWorkerPerMessage` is not inductive by itself: without `HandFits` a worker
might hold a message twice, and writing it off would leave it claimed nowhere and
still in the batch. `LoanLimit` needs the lock invariant, `HeadStaysMine` the
ownership of locks. `RedisLimitHolds` speaks of every stretch of time and its
invariant only of the counter that is running and of the instants between two
admissions a limit apart, and `SummaryAddsUp` compares each count with the
cardinality of a set of rows: neither adds up a history, which would take an
induction over data.

Only model-checked: liveness (`EveryRequestEnds`, `HoldsAreReleased`,
`EveryMessageSettles`, `OverdueIsChased`), which needs fairness and enabledness.
Every other property of a passing run is stated by one of these theorems.

## 8. What the code does not keep

`Stranded` and `Slipped` are runs, and TLC finds the sentences false. The others are stated in
the modules, in the sections named so, and no run checks them; each row says
which instance violates it, to be tried by putting the property in a
configuration of that instance.

| Property | Sentence | What happens |
|---|---|---|
| `UnsentStaysPending`, run `Stranded` | `worker.go:101`: "the rest stay pending" | they were claimed with the batch, and claimed rows are never taken up again |
| `NoRefreshSlipsThrough`, run `Slipped` | `auth_service.go:259-262`: "no window for a concurrent refresh to slip through"; `user_repo.go:316-324`: "there is no gap to race"; `docs/SYSTEM_INVARIANTS.md:184-199` (I-14) | a refresh consumes its token, the password is changed, the old tokens are revoked, the change is answered, and then the refresh inserts the next token: it is newer than the stamp, so the stamp does not void it, and it works until it is revoked |
| `UncheckedIsNotSuperseded` | `worker.go:118`: "leave it pending; the next pass will try again" | `Outbox`, one notice: `StillRelevant` turns a failed query into "no longer relevant" and never returns an error, so `worker.go:115-119` is not reached; the message is superseded, and the member is not told |
| `LastCopyStays` | `circulation_repo.go:115-117`: two desks "cannot both pass the check" | two requests, two copies of one title, `Ops` of `borrow` alone: each counts the other's uncommitted claim as still on the shelf; both lend and the shelf is empty |
| `BorrowedNeverEditedBack` | `docs/SYSTEM_INVARIANTS.md:61-63`: a borrowed copy is never edited back | three requests, one copy, `borrow` and `edit` with `lost` and `available`: an edit is checked on a status read before its transaction; a copy found and lent in between becomes available with its loan open |
| `NobodyQueuesForAShelvedBook` | `reservation_repo.go:26-29`: one transaction prevents a queue for a book on the shelf | two requests, `borrow`, `return`, `reserve`: at READ COMMITTED the count locks nothing |
| `ExpiredHoldPassesOn` | `docs/srs.md:210` (REQ-059): an expired hold passes to the next | two members in the queue, `expire`, under `FairSpec`: the sweep only marks it; the next member waits for another return |
| `DeliveredNeverGoesBack` | `invitation_repo.go:68-69`: a late sent event cannot move a delivered invitation backwards | `Outbox` with one invitation: only the last words of the provider are protected |
| `OneAccountPerStudent` | `docs/SYSTEM_INVARIANTS.md:91`: one identifier, one account | the `Enrolment` instance: the unique index compares the spelling, and only a file, or a preview, compares in lower case |
| `NoStaleReminder` | the comment of `NotifyDueSoon`: never "against a stale value" | the `Reminders` instance: true of the pass; a notice that was queued before the due date may go out after it |

Behaviour no document excludes, which the models make visible:

* *Sessions.* A login that had verified the old password when a change is
  answered stores a token after it, just as a refresh does (`Slipped`); the access
  token of either is good too if it is dated after the UPDATE began. A token stored while the UPDATE of the
  password waits is newer than the stamp the UPDATE took, and it is the revocation
  that follows which ends it: the "belt and braces" of `auth_service.go` are both
  needed. Two changes at once can leave the earlier of the two stamps, which gives
  back the access tokens signed between the two. A suspension leaves the sessions
  alone: an access token goes on being admitted until it expires.
* *Roles.* Only role changes protect the last administrator; suspending the
  account is another operation, which does not. A row found as an administrator
  stays locked after it ceased to be one, so a promotion and a demotion can wait
  for each other; PostgreSQL aborts one.
* *Enrolment.* A row whose link or invitation fails is reported invalid, and its
  account exists: the next upload calls it a duplicate, and the member needs a
  new invitation. A preview asks about identifiers only, and says valid where the
  address is taken.
* *RateLimit.* The limit for an account and the limit for a client address are
  separate keys. Containers that have lost Redis each allow the whole limit.
* *Shelf.* Authors are linked in the order of entry, so two titles that name the
  same two in opposite orders can close a cycle, and so can two edits that swap
  ISBNs; the headings, which are sorted, cannot. The page of bookmarks and its
  count are two snapshots. A duplicate may be shown a title that is archived.
* *Outbox.* A message is given up after three tries, since the claim and the
  failure each add to the attempts.
* *Reminders.* An overdue loan is queued anew at every pass; a pass looks at the
  500 loans due first, and those beyond wait.

## 9. Not modelled

* **Migrations**: run before the service does, one process at a time under an
  advisory lock held for the whole run.
* **Discovery**: facets, suggestions and listings are read-only SQL. The count
  and the page of a search are in `Shelf`.
* **External lookup**: a read-only HTTP client with a time limit.
* **Transport**: routing, encoding and configuration. The session check and the
  choice of limiter are in `Sessions` and `RateLimit`.
* **Providers**: their answers are choices; the HTTP calls and the cached access
  token for FCM are left out.
* **Audit log**: written in the transaction it describes; `Shelf` has it for
  titles, elsewhere it commits with its row.
* **Simulator**: a client.
* Hashing, signing and random tokens are taken as perfect: a token or a password
  is presented by somebody who has it, or not at all.
* In the desk, a second librarian as `issued_by`: two librarians who lend to each
  other at the same instant take their two member rows in opposite orders, which
  PostgreSQL breaks as it does the cycle that is modelled.

## 10. Plan

*Done*: the desk, its register and its proofs; the outbox, its postbox and its
proofs; sessions, their abstract token and their proofs; roles and their proofs;
enrolment, rate limits, the shelf, reminders and theirs.

*Left*, in order of what it would add:

1. That `Reminders` implements a projection of `Outbox`: its queue leaves out the
   tokens and the attempts, so the projection needs a history of both.
2. A status change in `Sessions` that competes with an access token in use, if the
   service comes to end sessions on suspension.
3. `Migrations`: only if they come to run beside the service.
