-------------------------------- MODULE Shelf --------------------------------
(***************************************************************************)
(* The catalogue's titles, with their access points, and the lists members  *)
(* keep: saved searches and bookmarks.                                      *)
(*                                                                         *)
(* A call is one request, moving through the statements of its transaction. *)
(* The tables hold committed data; what a transaction has written is known  *)
(* from the rows it has locked.  Author and subject names are upserted, so  *)
(* linking a name locks its row whether or not it was there.                *)
(***************************************************************************)
EXTENDS Integers, Sequences, FiniteSetsExt

CONSTANTS
  Calls,        \* bound: requests served at once
  Titles,       \* bound: rows of books
  ISBNs,
  Authors,      \* names
  Subjects,     \* headings, in alphabetical order
  Cards,        \* bound: the records librarians enter
  Patches,      \* bound: the edits they make, None where a field is left out
  MaxEdits,     \* bound: audit entries, after which no title is edited
  Member,       \* whose lists these are
  SavedLimit,   \* saved searches a member may keep
  None

Fields == {"isbn13", "text", "authors", "subjects"}

ASSUME ShelfAssumption ==
  /\ Subjects \subseteq Int
  /\ MaxEdits \in Nat /\ SavedLimit \in Nat
  /\ IsFiniteSet(Titles)
  /\ \A card \in Cards \cup Patches :
       /\ card = [f \in Fields |-> card[f]]
       /\ card["authors"] = None \/ card["authors"] \in Seq(Authors)
       /\ card["subjects"] = None \/ card["subjects"] \in SUBSET Subjects
  /\ \A card \in Cards, f \in Fields : card[f] # None
  /\ None \notin Calls \cup ISBNs
  /\ \A kind \in {Titles, ISBNs, Authors, Subjects} : Member \notin kind
  /\ Titles \cap (ISBNs \cup Authors \cup Subjects) = {}
  /\ ISBNs \cap (Authors \cup Subjects) = {} /\ Authors \cap Subjects = {}

VARIABLES
  books,      \* the titles
  log,        \* audit_log: what each entry about a title says was changed
  saved,      \* how many saved searches the member has
  marks,      \* the titles the member has bookmarked
  pc,
  req,        \* what each call was asked and has read
  lock        \* the transaction that holds each row or index entry

tables == <<books, log, saved, marks>>
vars == <<tables, pc, req, lock>>

Rows == Titles \cup ISBNs \cup Authors \cup Subjects \cup {Member}

NoCard == [f \in Fields |-> None]
NoBook == [status |-> "none", card |-> NoCard]
NoReq == [op |-> "none", title |-> None, card |-> NoCard, changed |-> {},
          authors |-> <<>>, headings |-> {}, count |-> 0, page |-> {}]

Held == {t \in Titles : books[t].status # "none"}
Card(t) == books[t].card

RoomToEdit == MapThenSumSet(LAMBDA t : Len(log[t]), Titles) < MaxEdits

At(c, label) == pc[c] = label
Goto(c, label) == pc' = [pc EXCEPT ![c] = label]

Begin(c, label, request) ==
  /\ At(c, "idle")
  /\ Goto(c, label)
  /\ req' = [req EXCEPT ![c] = request]
  /\ UNCHANGED <<tables, lock>>

Free(c, row) == lock[row] \in {None, c}
Take(c, held) == lock' = [row \in Rows |-> IF row \in held THEN c ELSE lock[row]]

(* COMMIT or ROLLBACK: the locks go with the transaction. *)
Release(c) == lock' = [row \in Rows |-> IF lock[row] = c THEN None ELSE lock[row]]

Answer(c) == Release(c) /\ Goto(c, "answer") /\ UNCHANGED req

-----------------------------------------------------------------------------
(* Something is supplied, the title and the number if they are, and nobody is *)
(* named twice.  Headings are sorted, so a set is all that matters of them.   *)
validateBookMetadata(card) ==
  /\ \E f \in Fields : card[f] # None
  /\ card["text"] # "" /\ card["isbn13"] \in ISBNs \cup {"", None}
  /\ card["authors"] # None => IsInjective(card["authors"])

(* What is linked: authors in the order of entry, headings in alphabetical *)
(* order.  Mutant: those in any order.                                    *)
linkAuthors(card) == IF card["authors"] = None THEN <<>> ELSE card["authors"]
linkSubjects(card) == IF card["subjects"] = None THEN {} ELSE card["subjects"]

AnyOf(headings) == headings
FirstOf(headings) == {h \in headings : \A s \in headings : h <= s}

(* CreateBook *)
CreateBook(c) ==
  \E card \in Cards :
    /\ validateBookMetadata(card)
    /\ Begin(c, "insert", [NoReq EXCEPT !.op = "create", !.card = card,
                                        !.authors = linkAuthors(card),
                                        !.headings = linkSubjects(card)])

(* books_isbn13_unique: a second entry waits for the transaction that wrote the *)
(* first, and is refused once that has committed.  Mutant: nobody waits. *)
SeeCommitted(c, isbn) == TRUE
IndexFree(c, isbn) == isbn \in ISBNs => Free(c, isbn)

Catalogued(isbn) == {t \in Held : isbn \in ISBNs /\ Card(t)["isbn13"] = isbn}

InsertBook(c) ==
  LET isbn == req[c].card["isbn13"]
  IN  /\ At(c, "insert") /\ IndexFree(c, isbn)
      /\ IF Catalogued(isbn) # {}
           THEN Goto(c, "existing") /\ Release(c) /\ UNCHANGED req
           ELSE \E t \in Titles \ Held :
                  /\ lock[t] = None
                  /\ Take(c, {t} \cup ({isbn} \cap ISBNs))
                  /\ req' = [req EXCEPT ![c].title = t]
                  /\ Goto(c, "names")
      /\ UNCHANGED tables

(* The librarian is shown the title the library already holds, if it still *)
(* has the number. *)
FindByISBN(c) ==
  /\ At(c, "existing")
  /\ req' = [req EXCEPT ![c].page = Catalogued(req[c].card["isbn13"]), ![c].op = "duplicate"]
  /\ Goto(c, "answer")
  /\ UNCHANGED <<tables, lock>>

(* The names are upserted one by one, which locks each. *)
LinkAuthor(c) ==
  LET name == Head(req[c].authors)
  IN  /\ At(c, "names") /\ req[c].authors # <<>>
      /\ Free(c, name)
      /\ Take(c, {name})
      /\ req' = [req EXCEPT ![c].authors = Tail(@)]
      /\ UNCHANGED <<tables, pc>>

LinkSubject(c) ==
  \E heading \in FirstOf(req[c].headings) :
    /\ At(c, "names") /\ req[c].authors = <<>>
    /\ Free(c, heading)
    /\ Take(c, {heading})
    /\ req' = [req EXCEPT ![c].headings = @ \ {heading}]
    /\ UNCHANGED <<tables, pc>>

Patched(card, patch) == [f \in Fields |-> IF patch[f] = None THEN card[f] ELSE patch[f]]

(* The links that changed are written; the columns always are.  Mutant: what *)
(* was left out is written too. *)
Overwritten(card, patch, changed) == patch
Written(card, patch, changed) ==
  [f \in Fields |-> IF f \in changed \cup {"isbn13", "text"} THEN Patched(card, patch)[f]
                                                            ELSE card[f]]

(* The search vector, the audit entry and the commit. *)
CommitBook(c) ==
  LET t == req[c].title
      new == IF req[c].op = "create" THEN req[c].card
             ELSE Written(Card(t), req[c].card, req[c].changed)
      status == IF req[c].op = "create" THEN "active" ELSE books[t].status
  IN  /\ At(c, "names") /\ req[c].authors = <<>> /\ req[c].headings = {}
      /\ books' = [books EXCEPT ![t] = [status |-> status, card |-> new]]
      /\ log' = [log EXCEPT ![t] = Append(@, req[c].changed)]
      /\ Answer(c)
      /\ UNCHANGED <<saved, marks>>

(* One statement, the audit entry and the commit. *)
ArchiveBook(t) ==
  /\ t \in Held /\ lock[t] = None
  /\ RoomToEdit
  /\ books' = [books EXCEPT ![t].status = "archived"]
  /\ log' = [log EXCEPT ![t] = Append(@, {"status"})]
  /\ UNCHANGED <<saved, marks, pc, req, lock>>

-----------------------------------------------------------------------------
(* UpdateBook *)

Changed(card, patch) == {f \in Fields : patch[f] # None /\ patch[f] # card[f]}

StartEdit(c) ==
  \E t \in Held, patch \in Patches :
    /\ RoomToEdit /\ validateBookMetadata(patch)
    /\ Begin(c, "edit", [NoReq EXCEPT !.op = "edit", !.title = t, !.card = patch,
                                      !.changed = Changed(Card(t), patch)])

(* The title is read again once its row is locked; mutant: it is not. *)
ReadBefore(c) == req[c].changed
ReadLocked(c) == Changed(Card(req[c].title), req[c].card)

(* A patch that changes nothing commits at once. *)
LockBook(c) ==
  LET t == req[c].title
      changed == ReadLocked(c)
  IN  /\ At(c, "edit") /\ lock[t] = None
      /\ RoomToEdit
      /\ IF changed = {}
           THEN Answer(c)
           ELSE /\ Take(c, {t})
                /\ req' = [req EXCEPT ![c].changed = changed]
                /\ Goto(c, "write")
      /\ UNCHANGED tables

UpdateBook(c) ==
  LET t == req[c].title
      old == Card(t)["isbn13"]
      new == Patched(Card(t), req[c].card)["isbn13"]
      changed == req[c].changed
  IN  /\ At(c, "write") /\ IndexFree(c, new)
      /\ Catalogued(new) \subseteq {t}
      /\ Take(c, IF old = new THEN {} ELSE {old, new} \cap ISBNs)
      /\ req' = [req EXCEPT
                   ![c].authors = IF "authors" \in changed THEN linkAuthors(req[c].card) ELSE <<>>,
                   ![c].headings = IF "subjects" \in changed THEN linkSubjects(req[c].card) ELSE {}]
      /\ Goto(c, "names")
      /\ UNCHANGED tables

-----------------------------------------------------------------------------
(* Search: whatever the parser lets through, one access point here, the count *)
(* and the page are read in one snapshot. *)

Found(heading) ==
  {t \in Titles : books[t].status = "active" /\ heading \in linkSubjects(Card(t))}

Search(c) ==
  \E heading \in Subjects :
    Begin(c, "page", [NoReq EXCEPT !.op = "search", !.count = Cardinality(Found(heading)),
                                   !.headings = {heading}, !.page = Found(heading)])

(* Mutant: the page sees what has been committed since. *)
CommittedSince(c) == UNION {Found(h) : h \in req[c].headings}
Snapshot(c) == req[c].page

bookPage(c) ==
  /\ At(c, "page") /\ req[c].op = "search"
  /\ req' = [req EXCEPT ![c].page = Snapshot(c)]
  /\ Goto(c, "answer")
  /\ UNCHANGED <<tables, lock>>

-----------------------------------------------------------------------------
(* The member's lists. *)

CreateSearch(c) == Begin(c, "member", [NoReq EXCEPT !.op = "save"])

(* The member's row serialises the creates; mutant: it does not. *)
Unserialised(c) == TRUE
MemberFree(c) == lock[Member] = None

LockMember(c) ==
  /\ At(c, "member") /\ MemberFree(c)
  /\ Take(c, {Member})
  /\ Goto(c, "saved")
  /\ UNCHANGED <<tables, req>>

CountSearches(c) ==
  /\ At(c, "saved")
  /\ req' = [req EXCEPT ![c].count = saved]
  /\ Goto(c, "save")
  /\ UNCHANGED <<tables, lock>>

InsertSearch(c) ==
  /\ At(c, "save") /\ req[c].count < SavedLimit
  /\ saved' = saved + 1
  /\ Answer(c)
  /\ UNCHANGED <<books, log, marks>>

DeleteSearch ==
  /\ saved > 0
  /\ saved' = saved - 1
  /\ UNCHANGED <<books, log, marks, pc, req, lock>>

(* A bookmark waits for an edit of its title, and is saved once. *)
AddBookmark(t) ==
  /\ t \in Held /\ lock[t] = None
  /\ marks' = marks \cup {t}
  /\ UNCHANGED <<books, log, saved, pc, req, lock>>

RemoveBookmark(t) ==
  /\ marks' = marks \ {t}
  /\ UNCHANGED <<books, log, saved, pc, req, lock>>

(* The list's count and page are two statements, and two snapshots. *)
ListBookmarks(c) == Begin(c, "page", [NoReq EXCEPT !.op = "list", !.count = Cardinality(marks)])

PageBookmarks(c) ==
  /\ At(c, "page") /\ req[c].op = "list"
  /\ req' = [req EXCEPT ![c].page = marks]
  /\ Goto(c, "answer")
  /\ UNCHANGED <<tables, lock>>

(* Refused, failed, hung up, or the victim of a deadlock; or answered. *)
End(c) ==
  /\ ~ At(c, "idle")
  /\ Release(c)
  /\ Goto(c, "idle")
  /\ req' = [req EXCEPT ![c] = NoReq]
  /\ UNCHANGED tables

-----------------------------------------------------------------------------
Init ==
  /\ books = [t \in Titles |-> NoBook]
  /\ log = [t \in Titles |-> <<>>]
  /\ saved = 0
  /\ marks = {}
  /\ pc = [c \in Calls |-> "idle"]
  /\ req = [c \in Calls |-> NoReq]
  /\ lock = [row \in Rows |-> None]

Step(c) ==
  \/ CreateBook(c)    \/ InsertBook(c)    \/ FindByISBN(c)    \/ LinkAuthor(c)
  \/ LinkSubject(c)   \/ CommitBook(c)    \/ StartEdit(c)     \/ LockBook(c)
  \/ UpdateBook(c)    \/ Search(c)        \/ bookPage(c)      \/ CreateSearch(c)
  \/ LockMember(c)    \/ CountSearches(c) \/ InsertSearch(c)  \/ ListBookmarks(c)
  \/ PageBookmarks(c) \/ End(c)

Next ==
  \/ \E c \in Calls : Step(c)
  \/ \E t \in Titles : ArchiveBook(t) \/ AddBookmark(t) \/ RemoveBookmark(t)
  \/ DeleteSearch

Spec == Init /\ [][Next]_vars

-----------------------------------------------------------------------------
(* What the shelf promises. *)

Values(f) == {card[f] : card \in Cards \cup Patches} \cup {None}
Labels == {"idle", "insert", "existing", "names", "edit", "write", "page", "member", "saved",
           "save", "answer"}

TitlesTyped ==
  \A t \in Titles : /\ books[t].status \in {"none", "active", "archived"}
                    /\ t \in Held => \A f \in Fields : Card(t)[f] # None
                    /\ \A f \in Fields : Card(t)[f] \in Values(f)
CallsTyped ==
  /\ pc \in [Calls -> Labels]
  /\ \A c \in Calls : /\ req[c].title \in Titles \cup {None}
                      /\ req[c].page \subseteq Titles
                      /\ req[c].changed \subseteq Fields

(* Every column, lock and call keeps its type, and no title misses a column. *)
TypeOK ==
  /\ TitlesTyped /\ CallsTyped
  /\ log \in [Titles -> Seq(SUBSET (Fields \cup {"status"}))]
  /\ saved \in Nat /\ marks \subseteq Held
  /\ lock \in [Rows -> Calls \cup {None}]

(* "One ISBN is one title": creates and edits of the number, in any order, *)
(* leave it with one of them. *)
OneTitlePerISBN ==
  \A t, u \in Held : t # u /\ Card(t)["isbn13"] \in ISBNs => Card(t)["isbn13"] # Card(u)["isbn13"]

(* "UpdateBook serializes edits ..., preserving omitted fields": an edit that *)
(* is answered has put what it supplied into the title as it stood then, left *)
(* the rest alone, and been logged with exactly the fields it changed; one    *)
(* that changes nothing is not logged.                                        *)
EditsAreAppliedAndLogged ==
  [][\A c \in Calls :
       req[c].op = "edit" /\ ~ At(c, "answer") /\ pc'[c] = "answer" =>
         LET t == req[c].title
             now == Patched(Card(t), req[c].card)
             changed == {f \in Fields : now[f] # Card(t)[f]}
         IN  /\ books'[t].card = now
             /\ log'[t] = IF changed = {} THEN log[t] ELSE Append(log[t], changed)]_vars

(* "The count and page share one snapshot": a search that fits one page lists *)
(* as many titles as it counts, whatever is catalogued or archived meanwhile. *)
PageAgreesWithCount ==
  \A c \in Calls :
    At(c, "answer") /\ req[c].op = "search" => Cardinality(req[c].page) = req[c].count

(* "A member row serializes concurrent creates": no number of taps saves more *)
(* searches than the limit. *)
SavedWithinLimit == saved <= SavedLimit

WaitsFor(c, h) == At(c, "names") /\ req[c].authors = <<>> /\ h \in FirstOf(req[c].headings)

(* Headings are linked in alphabetical order: no two transactions wait for each *)
(* other over them. *)
HeadingsDoNotDeadlock ==
  \A c, d \in Calls : \A s, h \in Subjects :
    ~ (c # d /\ WaitsFor(c, s) /\ lock[s] = d /\ WaitsFor(d, h) /\ lock[h] = c)
=============================================================================
