---------------------------- MODULE ShelfProofs ----------------------------
(***************************************************************************)
(* What the shelf promises, for any number of requests, titles, numbers and  *)
(* headings.                                                                *)
(*                                                                         *)
(* A call that writes a title holds its row (Owner), and the number it is    *)
(* about to give it (Claim), which no title has by then.  It holds headings  *)
(* that come before all it has left to link (InOrder), and a call that saves *)
(* a search has counted under the member's lock (Counted).                  *)
(***************************************************************************)
EXTENDS Shelf, FiniteSetTheorems, TLAPS

Statuses == {"none", "active", "archived"}
Ops == {"none", "create", "duplicate", "edit", "search", "save", "list"}
Book == [status : Statuses, card : [Fields -> UNION {Values(f) : f \in Fields}]]
Request == [op : Ops, title : Titles \cup {None}, card : Cards \cup Patches \cup {NoCard},
            changed : SUBSET Fields, authors : Seq(Authors), headings : SUBSET Subjects,
            count : Nat, page : SUBSET Titles]

Typed ==
  /\ TypeOK
  /\ books \in [Titles -> Book]
  /\ req \in [Calls -> Request]

(* What a call at a label was asked. *)
Asked(c) ==
  /\ pc[c] \in {"insert", "existing"} => req[c].op = "create"
  /\ pc[c] \in {"edit", "write"} => req[c].op = "edit"
  /\ pc[c] = "names" => req[c].op \in {"create", "edit"}
  /\ pc[c] \in {"saved", "save", "member"} => req[c].op = "save"
  /\ pc[c] = "insert" \/ (pc[c] = "names" /\ req[c].op = "create") => req[c].card \in Cards
  /\ pc[c] \in {"edit", "write"} \/ (pc[c] = "names" /\ req[c].op = "edit") => req[c].title \in Held
  /\ req[c].op = "search" => Cardinality(req[c].page) = req[c].count

(* A call that writes a title holds its row: a new one, which nobody sees yet, *)
(* or one it has read since, and found something to change in.                *)
Owner(c) ==
  LET t == req[c].title
  IN  pc[c] \in {"write", "names"} =>
        /\ t \in Titles /\ lock[t] = c
        /\ req[c].op = "create" => t \notin Held
        /\ req[c].op = "edit" => /\ req[c].changed = Changed(Card(t), req[c].card)
                                 /\ req[c].changed # {}

(* The number the title is about to have, and whether it is another than now. *)
NewNumber(c) ==
  IF req[c].op = "create" THEN req[c].card["isbn13"]
                          ELSE Patched(Card(req[c].title), req[c].card)["isbn13"]
Moves(c) == req[c].op = "create" \/ Card(req[c].title)["isbn13"] # NewNumber(c)

Claim(c) ==
  pc[c] = "names" /\ Moves(c) /\ NewNumber(c) \in ISBNs =>
    lock[NewNumber(c)] = c /\ Catalogued(NewNumber(c)) = {}

InOrder(c) ==
  \A h \in Subjects : lock[h] = c =>
    /\ pc[c] = "names" /\ req[c].authors = <<>>
    /\ \A s \in req[c].headings : h < s

Counted(c) ==
  /\ pc[c] \in {"saved", "save"} => lock[Member] = c
  /\ pc[c] = "save" => saved <= req[c].count

CallInv(c) == Asked(c) /\ Owner(c) /\ Claim(c) /\ InOrder(c) /\ Counted(c)

ShelfInv ==
  /\ Typed /\ OneTitlePerISBN /\ SavedWithinLimit
  /\ \A c \in Calls : CallInv(c)
-----------------------------------------------------------------------------
(* Lemmas about rows, cards and requests. *)

(* The locks a call relies on: of the numbers, the one it has claimed. *)
ReliesOn(d, row) == row \in ISBNs => pc[d] = "names" /\ Moves(d) /\ row = NewNumber(d)

KeepsIts(d) == \A row \in Rows : ReliesOn(d, row) => (lock'[row] = d <=> lock[row] = d)

(* What a step does to the locks of one call leaves those of the others. *)
KeepsLocks(c) ==
  /\ lock' \in [Rows -> Calls \cup {None}]
  /\ \A d \in Calls \ {c} : KeepsIts(d)

LEMMA TakeKeepsLocks ==
  ASSUME Typed, NEW c \in Calls, NEW held \in SUBSET Rows, Take(c, held),
         \A row \in held : Free(c, row) \/ \A d \in Calls \ {c} : ~ ReliesOn(d, row)
  PROVE  /\ KeepsLocks(c)
         /\ \A row \in Rows : lock'[row] = c <=> lock[row] = c \/ row \in held
<1>1. lock \in [Rows -> Calls \cup {None}] /\ None \notin Calls
  BY ShelfAssumption DEF Typed, TypeOK
<1>2. lock' = [row \in Rows |-> IF row \in held THEN c ELSE lock[row]]
  BY DEF Take
<1> QED BY <1>1, <1>2 DEF KeepsLocks, Free, KeepsIts

LEMMA ReleaseKeepsLocks ==
  ASSUME Typed, NEW c \in Calls, Release(c)
  PROVE  KeepsLocks(c) /\ \A row \in Rows : lock'[row] # c
<1>1. lock \in [Rows -> Calls \cup {None}] /\ None \notin Calls
  BY ShelfAssumption DEF Typed, TypeOK
<1>2. lock' = [row \in Rows |-> IF lock[row] = c THEN None ELSE lock[row]]
  BY DEF Release
<1> QED BY <1>1, <1>2 DEF KeepsLocks, KeepsIts

LEMMA SameLocks ==
  ASSUME Typed, NEW c \in Calls, lock' = lock
  PROVE  KeepsLocks(c)
BY DEF Typed, TypeOK, KeepsLocks, KeepsIts

(* What the columns of a card hold. *)
LEMMA CardsAreTyped ==
  /\ \A card \in Cards \cup Patches \cup {NoCard} :
       /\ card \in [Fields -> UNION {Values(f) : f \in Fields}]
       /\ \A f \in Fields : card[f] \in Values(f)
       /\ linkAuthors(card) \in Seq(Authors)
       /\ linkSubjects(card) \in SUBSET Subjects
  /\ \A card \in Cards, f \in Fields : card[f] # None
  /\ "isbn13" \in Fields /\ "authors" \in Fields /\ "subjects" \in Fields
<1>1. "isbn13" \in Fields /\ "authors" \in Fields /\ "subjects" \in Fields
  BY DEF Fields
<1>2. ASSUME NEW card \in Cards \cup Patches \cup {NoCard}, NEW f \in Fields
      PROVE  card[f] \in Values(f)
  <2>1. CASE card = NoCard
    BY <2>1 DEF NoCard, Values
  <2>2. CASE card \in Cards \cup Patches
    BY <2>2 DEF Values
  <2> QED BY <2>1, <2>2
<1>3. ASSUME NEW card \in Cards \cup Patches \cup {NoCard}
      PROVE  card = [f \in Fields |-> card[f]]
  BY ShelfAssumption DEF NoCard
<1>4. ASSUME NEW card \in Cards \cup Patches \cup {NoCard}
      PROVE  card \in [Fields -> UNION {Values(f) : f \in Fields}]
  <2>1. \A f \in Fields : card[f] \in UNION {Values(g) : g \in Fields}
    BY <1>2
  <2> QED BY <1>3, <2>1
<1>5. ASSUME NEW card \in Cards \cup Patches \cup {NoCard}
      PROVE  linkAuthors(card) \in Seq(Authors) /\ linkSubjects(card) \in SUBSET Subjects
  <2>1. CASE card = NoCard
    BY <1>1, <2>1 DEF NoCard, linkAuthors, linkSubjects
  <2>2. CASE card \in Cards \cup Patches
    BY <2>2, ShelfAssumption DEF linkAuthors, linkSubjects
  <2> QED BY <2>1, <2>2
<1> QED BY <1>1, <1>2, <1>4, <1>5, ShelfAssumption

(* The rows of different tables are different rows. *)
LEMMA RowsDiffer ==
  /\ Titles \subseteq Rows /\ ISBNs \subseteq Rows /\ Authors \subseteq Rows
  /\ Subjects \subseteq Rows /\ Member \in Rows
  /\ \A t \in Titles : t \notin ISBNs /\ t \notin Authors /\ t \notin Subjects /\ t # Member
  /\ \A i \in ISBNs : i \notin Authors /\ i \notin Subjects /\ i # Member
  /\ \A a \in Authors : a \notin Subjects /\ a # Member
  /\ \A h \in Subjects : h # Member
BY ShelfAssumption DEF Rows

(* Finite sets of titles, to be counted. *)
LEMMA TitlesAreCounted ==
  ASSUME NEW S \in SUBSET Titles
  PROVE  Cardinality(S) \in Nat
BY ShelfAssumption, FS_Subset, FS_CardinalityType

(* The request of a call that is idle. *)
LEMMA NoReqIsRequest == NoReq \in Request
BY DEF NoReq, Request, Ops

-----------------------------------------------------------------------------
(* Steps that leave the titles their cards. *)

SameTitles ==
  /\ Held' = Held
  /\ \A t \in Titles : Card(t)' = Card(t)

LEMMA CallKept ==
  ASSUME ShelfInv, NEW d \in Calls, KeepsIts(d),
         pc'[d] = pc[d], req'[d] = req[d], SameTitles,
         saved' <= saved \/ pc[d] # "save", saved' \in Int
  PROVE  CallInv(d)'
<1>1. CallInv(d) /\ Typed /\ req[d] \in Request /\ saved \in Nat
  BY DEF ShelfInv, Typed, TypeOK
<1>2. \A row \in Rows : ReliesOn(d, row) => (lock'[row] = d <=> lock[row] = d)
  BY DEF KeepsIts
<1>3. \A row \in Rows \ ISBNs : lock'[row] = d <=> lock[row] = d
  BY <1>2 DEF ReliesOn
<1>4. Asked(d)'
  BY <1>1 DEF CallInv, Asked, SameTitles
<1>5. Owner(d)'
  BY <1>1, <1>3, RowsDiffer DEF CallInv, Owner, SameTitles
<1>6. ASSUME pc[d] = "names"
      PROVE  req[d].title \in Titles
  BY <1>1, <1>6 DEF CallInv, Owner
<1>7. pc[d] = "names" => NewNumber(d)' = NewNumber(d) /\ Moves(d)' = Moves(d)
  BY <1>6 DEF NewNumber, Moves, SameTitles
<1>8. \A i : Catalogued(i)' = Catalogued(i)
  <2>1. Held \subseteq Titles
    BY DEF Held
  <2> QED BY <2>1 DEF Catalogued, SameTitles
<1>9. Claim(d)'
  BY <1>1, <1>2, <1>7, <1>8, RowsDiffer DEF CallInv, Claim, ReliesOn
<1>10. InOrder(d)'
  BY <1>1, <1>3, RowsDiffer DEF CallInv, InOrder
<1>11. Counted(d)'
  BY <1>1, <1>3, RowsDiffer DEF CallInv, Counted, Request
<1> QED BY <1>4, <1>5, <1>9, <1>10, <1>11 DEF CallInv

(* So a step within a transaction has its own call to answer for. *)
LEMMA OwnStep ==
  ASSUME ShelfInv, NEW c \in Calls, NEW r \in Request, NEW label \in Labels,
         pc' = [pc EXCEPT ![c] = label], req' = [req EXCEPT ![c] = r],
         UNCHANGED tables, KeepsLocks(c), CallInv(c)'
  PROVE  ShelfInv'
<1>1. Typed /\ OneTitlePerISBN /\ SavedWithinLimit
  BY DEF ShelfInv
<1>2. Held' = Held /\ SameTitles /\ books' = books /\ log' = log /\ saved' = saved /\ marks' = marks
  BY DEF tables, Held, Card, SameTitles
<1>3. pc' \in [Calls -> Labels] /\ req' \in [Calls -> Request]
  BY <1>1 DEF Typed, TypeOK, CallsTyped
<1>4. Typed'
  <2>1. \A d \in Calls : req'[d] \in Request
    BY <1>3
  <2>2. CallsTyped'
    BY <1>3, <2>1 DEF CallsTyped, Request
  <2>3. TitlesTyped'
    BY <1>1, <1>2 DEF Typed, TypeOK, TitlesTyped, Card
  <2>4. TypeOK'
    BY <1>1, <1>2, <2>2, <2>3 DEF Typed, TypeOK, KeepsLocks
  <2> QED BY <1>1, <1>2, <1>3, <2>4 DEF Typed
<1>5. OneTitlePerISBN' /\ SavedWithinLimit'
  BY <1>1, <1>2 DEF OneTitlePerISBN, SavedWithinLimit, SameTitles, Held
<1>6. ASSUME NEW d \in Calls, d # c
      PROVE  CallInv(d)'
  <2>1. pc'[d] = pc[d] /\ req'[d] = req[d]
    BY <1>1, <1>6 DEF Typed, TypeOK, CallsTyped
  <2>2. saved' <= saved /\ saved' \in Int
    BY <1>1, <1>2 DEF Typed, TypeOK
  <2> QED BY <1>2, <1>6, <2>1, <2>2, CallKept DEF KeepsLocks
<1> QED BY <1>4, <1>5, <1>6 DEF ShelfInv

(* At these labels a call has no row of its own to answer for. *)
LEMMA QuietStep ==
  ASSUME ShelfInv, NEW c \in Calls, NEW r \in Request,
         NEW label \in {"idle", "insert", "existing", "edit", "page", "member", "answer"},
         pc' = [pc EXCEPT ![c] = label], req' = [req EXCEPT ![c] = r],
         UNCHANGED tables, KeepsLocks(c), \A h \in Subjects : lock'[h] # c, Asked(c)'
  PROVE  ShelfInv'
<1>1. pc'[c] = label /\ label \in Labels
  BY DEF ShelfInv, Typed, TypeOK, CallsTyped, Labels
<1>2. Owner(c)' /\ Claim(c)' /\ InOrder(c)' /\ Counted(c)'
  BY <1>1 DEF Owner, Claim, InOrder, Counted
<1>3. CallInv(c)'
  BY <1>2 DEF CallInv
<1> QED BY <1>1, <1>3, OwnStep

(* A call that links no headings holds none. *)
LEMMA NoHeadings ==
  ASSUME ShelfInv, NEW c \in Calls, pc[c] # "names" \/ req[c].authors # <<>>
  PROVE  \A h \in Subjects : lock[h] # c
BY DEF ShelfInv, CallInv, InOrder

(* What is known of a call. *)
LEMMA CallFacts ==
  ASSUME ShelfInv, NEW c \in Calls
  PROVE  /\ Typed /\ CallInv(c) /\ req[c] \in Request
         /\ \A r \in Request : [req EXCEPT ![c] = r][c] = r
         /\ \A label : [pc EXCEPT ![c] = label][c] = label
BY DEF ShelfInv, Typed, TypeOK, CallsTyped

LEMMA BeginKeeps ==
  ASSUME ShelfInv, NEW c \in Calls, NEW r \in Request,
         NEW label \in {"insert", "edit", "page", "member"}, Begin(c, label, r), Asked(c)'
  PROVE  ShelfInv'
<1>1. /\ pc' = [pc EXCEPT ![c] = label] /\ req' = [req EXCEPT ![c] = r]
      /\ UNCHANGED tables /\ lock' = lock /\ pc[c] = "idle"
  BY DEF Begin, Goto, At
<1>2. Typed
  BY CallFacts
<1>3. KeepsLocks(c) /\ \A h \in Subjects : lock'[h] # c
  BY <1>1, <1>2, SameLocks, NoHeadings
<1> QED BY <1>1, <1>3, QuietStep

-----------------------------------------------------------------------------
(* The calls begin. *)

LEMMA CreateBookKeeps ==
  ASSUME ShelfInv, NEW c \in Calls, CreateBook(c)
  PROVE  ShelfInv'
<1>1. PICK card \in Cards :
        Begin(c, "insert", [NoReq EXCEPT !.op = "create", !.card = card,
                            !.authors = linkAuthors(card), !.headings = linkSubjects(card)])
  BY DEF CreateBook
<1> DEFINE r == [NoReq EXCEPT !.op = "create", !.card = card,
                              !.authors = linkAuthors(card), !.headings = linkSubjects(card)]
<1>2. linkAuthors(card) \in Seq(Authors) /\ linkSubjects(card) \in SUBSET Subjects
  BY CardsAreTyped
<1>3. r \in Request /\ r.op = "create" /\ r.card = card
  BY <1>2, NoReqIsRequest DEF Request, Ops
<1>4. pc'[c] = "insert" /\ req'[c] = r
  BY <1>1, <1>3, CallFacts DEF Begin, Goto
<1>5. Asked(c)'
  BY <1>3, <1>4 DEF Asked
<1> QED BY <1>1, <1>3, <1>5, BeginKeeps

LEMMA StartEditKeeps ==
  ASSUME ShelfInv, NEW c \in Calls, StartEdit(c)
  PROVE  ShelfInv'
<1>1. PICK t \in Held, patch \in Patches :
        Begin(c, "edit", [NoReq EXCEPT !.op = "edit", !.title = t, !.card = patch,
                                       !.changed = Changed(Card(t), patch)])
  BY DEF StartEdit
<1> DEFINE r == [NoReq EXCEPT !.op = "edit", !.title = t, !.card = patch,
                              !.changed = Changed(Card(t), patch)]
<1>2. Changed(Card(t), patch) \in SUBSET Fields /\ t \in Titles
  BY DEF Changed, Held
<1>3. r \in Request /\ r.op = "edit" /\ r.title = t
  BY <1>2, NoReqIsRequest DEF Request, Ops
<1>4. pc'[c] = "edit" /\ req'[c] = r /\ Held' = Held
  BY <1>1, <1>3, CallFacts DEF Begin, Goto, tables, Held
<1>5. Asked(c)'
  BY <1>3, <1>4 DEF Asked
<1> QED BY <1>1, <1>3, <1>5, BeginKeeps

LEMMA SearchKeeps ==
  ASSUME ShelfInv, NEW c \in Calls, Search(c)
  PROVE  ShelfInv'
<1>1. PICK heading \in Subjects :
        Begin(c, "page", [NoReq EXCEPT !.op = "search", !.count = Cardinality(Found(heading)),
                                       !.headings = {heading}, !.page = Found(heading)])
  BY DEF Search
<1> DEFINE r == [NoReq EXCEPT !.op = "search", !.count = Cardinality(Found(heading)),
                              !.headings = {heading}, !.page = Found(heading)]
<1>2. Found(heading) \in SUBSET Titles
  BY DEF Found
<1>3. Cardinality(Found(heading)) \in Nat
  BY <1>2, TitlesAreCounted
<1>4. r \in Request /\ r.count = Cardinality(r.page) /\ r.op = "search"
  BY <1>2, <1>3, NoReqIsRequest DEF Request, Ops
<1>5. pc'[c] = "page" /\ req'[c] = r
  BY <1>1, <1>4, CallFacts DEF Begin, Goto
<1>6. Asked(c)'
  BY <1>4, <1>5 DEF Asked
<1> QED BY <1>1, <1>4, <1>6, BeginKeeps

LEMMA CreateSearchKeeps ==
  ASSUME ShelfInv, NEW c \in Calls, CreateSearch(c)
  PROVE  ShelfInv'
<1> DEFINE r == [NoReq EXCEPT !.op = "save"]
<1>1. r \in Request /\ r.op = "save"
  BY NoReqIsRequest DEF Request, Ops
<1>2. Begin(c, "member", r)
  BY DEF CreateSearch
<1>3. pc'[c] = "member" /\ req'[c] = r
  BY <1>1, <1>2, CallFacts DEF Begin, Goto
<1>4. Asked(c)'
  BY <1>1, <1>3 DEF Asked
<1> QED BY <1>1, <1>2, <1>4, BeginKeeps

LEMMA ListBookmarksKeeps ==
  ASSUME ShelfInv, NEW c \in Calls, ListBookmarks(c)
  PROVE  ShelfInv'
<1> DEFINE r == [NoReq EXCEPT !.op = "list", !.count = Cardinality(marks)]
<1>1. marks \in SUBSET Titles
  BY CallFacts DEF Typed, TypeOK, Held
<1>2. Cardinality(marks) \in Nat
  BY <1>1, TitlesAreCounted
<1>3. r \in Request /\ r.op = "list"
  BY <1>2, NoReqIsRequest DEF Request, Ops
<1>4. Begin(c, "page", r)
  BY DEF ListBookmarks
<1>5. pc'[c] = "page" /\ req'[c] = r
  BY <1>3, <1>4, CallFacts DEF Begin, Goto
<1>6. Asked(c)'
  BY <1>3, <1>5 DEF Asked
<1> QED BY <1>3, <1>4, <1>6, BeginKeeps

-----------------------------------------------------------------------------
(* They answer without a row of their own. *)

LEMMA FindByISBNKeeps ==
  ASSUME ShelfInv, NEW c \in Calls, FindByISBN(c)
  PROVE  ShelfInv'
<1> DEFINE found == Catalogued(req[c].card["isbn13"])
           r == [req[c] EXCEPT !.page = found, !.op = "duplicate"]
<1>1. Typed /\ req[c] \in Request /\ req \in [Calls -> Request]
  BY CallFacts DEF Typed
<1>2. found \in SUBSET Titles
  BY DEF Catalogued, Held
<1>3. r \in Request /\ r.op = "duplicate"
  BY <1>1, <1>2 DEF Request, Ops
<1>4. /\ pc' = [pc EXCEPT ![c] = "answer"] /\ req' = [req EXCEPT ![c] = r]
      /\ UNCHANGED tables /\ lock' = lock /\ pc[c] = "existing"
  BY <1>1 DEF FindByISBN, Goto, At
<1>5. KeepsLocks(c) /\ \A h \in Subjects : lock'[h] # c
  BY <1>1, <1>4, SameLocks, NoHeadings
<1>6. pc'[c] = "answer" /\ req'[c] = r
  BY <1>3, <1>4, CallFacts
<1>7. Asked(c)'
  BY <1>3, <1>6 DEF Asked
<1> QED BY <1>3, <1>4, <1>5, <1>7, QuietStep

LEMMA bookPageKeeps ==
  ASSUME ShelfInv, NEW c \in Calls, bookPage(c)
  PROVE  ShelfInv'
<1>1. Typed /\ req[c] \in Request /\ req \in [Calls -> Request] /\ Asked(c)
  BY CallFacts DEF Typed, CallInv
<1>2. req' = [req EXCEPT ![c] = req[c]]
  BY <1>1 DEF bookPage, Snapshot, Request
<1>3. /\ pc' = [pc EXCEPT ![c] = "answer"]
      /\ UNCHANGED tables /\ lock' = lock /\ pc[c] = "page"
  BY DEF bookPage, Goto, At
<1>4. KeepsLocks(c) /\ \A h \in Subjects : lock'[h] # c
  BY <1>1, <1>3, SameLocks, NoHeadings
<1>5. pc'[c] = "answer" /\ req'[c] = req[c]
  BY <1>1, <1>2, <1>3, CallFacts
<1>6. Asked(c)'
  BY <1>1, <1>5 DEF Asked
<1> QED BY <1>1, <1>2, <1>3, <1>4, <1>6, QuietStep

LEMMA PageBookmarksKeeps ==
  ASSUME ShelfInv, NEW c \in Calls, PageBookmarks(c)
  PROVE  ShelfInv'
<1> DEFINE r == [req[c] EXCEPT !.page = marks]
<1>1. Typed /\ req[c] \in Request /\ req \in [Calls -> Request]
  BY CallFacts DEF Typed
<1>2. marks \in SUBSET Titles
  BY <1>1 DEF Typed, TypeOK, Held
<1>3. /\ pc' = [pc EXCEPT ![c] = "answer"] /\ req' = [req EXCEPT ![c] = r]
      /\ UNCHANGED tables /\ lock' = lock /\ pc[c] = "page" /\ req[c].op = "list"
  BY <1>1 DEF PageBookmarks, Goto, At
<1>4. r \in Request /\ r.op = "list"
  BY <1>1, <1>2, <1>3 DEF Request
<1>5. KeepsLocks(c) /\ \A h \in Subjects : lock'[h] # c
  BY <1>1, <1>3, SameLocks, NoHeadings
<1>6. pc'[c] = "answer" /\ req'[c] = r
  BY <1>3, <1>4, CallFacts
<1>7. Asked(c)'
  BY <1>4, <1>6 DEF Asked
<1> QED BY <1>3, <1>4, <1>5, <1>7, QuietStep

LEMMA EndKeeps ==
  ASSUME ShelfInv, NEW c \in Calls, End(c)
  PROVE  ShelfInv'
<1>1. /\ pc' = [pc EXCEPT ![c] = "idle"] /\ req' = [req EXCEPT ![c] = NoReq]
      /\ UNCHANGED tables /\ Release(c)
  BY DEF End, Goto
<1>2. KeepsLocks(c) /\ \A h \in Subjects : lock'[h] # c
  BY <1>1, CallFacts, ReleaseKeepsLocks, RowsDiffer
<1>3. pc'[c] = "idle" /\ req'[c] = NoReq
  BY <1>1, NoReqIsRequest, CallFacts
<1>4. Asked(c)'
  BY <1>3 DEF Asked, NoReq
<1> QED BY <1>1, <1>2, <1>4, NoReqIsRequest, QuietStep

-----------------------------------------------------------------------------
(* A title is entered, or edited. *)

LEMMA InsertBookKeeps ==
  ASSUME ShelfInv, NEW c \in Calls, InsertBook(c)
  PROVE  ShelfInv'
<1> DEFINE isbn == req[c].card["isbn13"]
<1>1. /\ Typed /\ CallInv(c) /\ req[c] \in Request /\ req \in [Calls -> Request]
      /\ pc[c] = "insert" /\ req[c].op = "create" /\ req[c].card \in Cards
  BY CallFacts DEF Typed, CallInv, Asked, InsertBook, At
<1>2. UNCHANGED tables /\ IndexFree(c, isbn)
  BY DEF InsertBook
<1>3. \A h \in Subjects : lock[h] # c
  BY <1>1, NoHeadings
<1>4. CASE Catalogued(isbn) # {}
  <2>1. pc' = [pc EXCEPT ![c] = "existing"] /\ Release(c) /\ req' = [req EXCEPT ![c] = req[c]]
    BY <1>1, <1>4 DEF InsertBook, Goto
  <2>2. KeepsLocks(c) /\ \A h \in Subjects : lock'[h] # c
    BY <1>1, <2>1, ReleaseKeepsLocks, RowsDiffer
  <2>3. pc'[c] = "existing" /\ req'[c] = req[c]
    BY <1>1, <2>1, CallFacts
  <2>4. Asked(c)'
    BY <1>1, <2>3 DEF Asked
  <2> QED BY <1>1, <1>2, <2>1, <2>2, <2>4, QuietStep
<1>5. CASE Catalogued(isbn) = {}
  <2>1. PICK t \in Titles \ Held :
          /\ lock[t] = None
          /\ Take(c, {t} \cup ({isbn} \cap ISBNs))
          /\ req' = [req EXCEPT ![c].title = t]
          /\ Goto(c, "names")
    BY <1>5 DEF InsertBook
  <2> DEFINE r == [req[c] EXCEPT !.title = t]
             held == {t} \cup ({isbn} \cap ISBNs)
  <2>2. /\ r \in Request /\ r.title = t /\ r.op = "create" /\ r.card = req[c].card
        /\ r.authors = req[c].authors /\ r.headings = req[c].headings
        /\ r.page = req[c].page /\ r.count = req[c].count
    BY <1>1 DEF Request
  <2>3. pc' = [pc EXCEPT ![c] = "names"] /\ req' = [req EXCEPT ![c] = r]
    BY <1>1, <2>1 DEF Goto
  <2>4. pc'[c] = "names" /\ req'[c] = r
    BY <2>2, <2>3, CallFacts
  <2>5. held \in SUBSET Rows /\ \A row \in held : Free(c, row)
    BY <1>2, <2>1, RowsDiffer DEF IndexFree, Free
  <2>6. KeepsLocks(c) /\ \A row \in Rows : lock'[row] = c <=> lock[row] = c \/ row \in held
    BY <1>1, <2>1, <2>5, TakeKeepsLocks
  <2>7. Held' = Held /\ \A i : Catalogued(i)' = Catalogued(i)
    <3>1. books' = books
      BY <1>2 DEF tables
    <3> QED BY <3>1 DEF Catalogued, Held, Card
  <2>8. Asked(c)'
    BY <1>1, <2>2, <2>4, <2>7 DEF Asked
  <2>9. Owner(c)'
    BY <2>2, <2>4, <2>6, <2>7, RowsDiffer DEF Owner
  <2>10. Claim(c)'
    <3>1. NewNumber(c)' = isbn
      BY <2>2, <2>4 DEF NewNumber
    <3>2. isbn \in ISBNs => lock'[isbn] = c
      BY <2>6, RowsDiffer
    <3> QED BY <1>5, <2>7, <3>1, <3>2 DEF Claim
  <2>11. InOrder(c)'
    <3>1. \A h \in Subjects : lock'[h] # c
      BY <1>3, <2>6, RowsDiffer
    <3> QED BY <3>1 DEF InOrder
  <2>12. Counted(c)'
    BY <2>4 DEF Counted
  <2>13. CallInv(c)'
    BY <2>8, <2>9, <2>10, <2>11, <2>12 DEF CallInv
  <2> QED BY <1>2, <2>2, <2>3, <2>6, <2>13, OwnStep DEF Labels
<1> QED BY <1>4, <1>5

LEMMA LockBookKeeps ==
  ASSUME ShelfInv, NEW c \in Calls, LockBook(c)
  PROVE  ShelfInv'
<1> DEFINE t == req[c].title
           changed == Changed(Card(t), req[c].card)
<1>1. /\ Typed /\ CallInv(c) /\ req[c] \in Request /\ req \in [Calls -> Request]
      /\ pc[c] = "edit" /\ req[c].op = "edit" /\ t \in Held /\ t \in Titles
  BY CallFacts DEF Typed, CallInv, Asked, LockBook, At, Held
<1>2. UNCHANGED tables /\ lock[t] = None
  BY DEF LockBook
<1>3. \A h \in Subjects : lock[h] # c
  BY <1>1, NoHeadings
<1>4. CASE changed = {}
  <2>1. pc' = [pc EXCEPT ![c] = "answer"] /\ Release(c) /\ req' = [req EXCEPT ![c] = req[c]]
    BY <1>1, <1>4 DEF LockBook, ReadLocked, Answer, Goto
  <2>2. KeepsLocks(c) /\ \A h \in Subjects : lock'[h] # c
    BY <1>1, <2>1, ReleaseKeepsLocks, RowsDiffer
  <2>3. pc'[c] = "answer" /\ req'[c] = req[c]
    BY <1>1, <2>1, CallFacts
  <2>4. Asked(c)'
    BY <1>1, <2>3 DEF Asked
  <2> QED BY <1>1, <1>2, <2>1, <2>2, <2>4, QuietStep
<1>5. CASE changed # {}
  <2> DEFINE r == [req[c] EXCEPT !.changed = changed]
  <2>1. /\ Take(c, {t}) /\ pc' = [pc EXCEPT ![c] = "write"]
        /\ req' = [req EXCEPT ![c] = r]
    BY <1>1, <1>5 DEF LockBook, ReadLocked, Goto
  <2>2. /\ r \in Request /\ r.changed = changed /\ r.op = "edit" /\ r.title = t
        /\ r.card = req[c].card
    BY <1>1 DEF Request, Changed
  <2>3. pc'[c] = "write" /\ req'[c] = r
    BY <2>1, <2>2, CallFacts
  <2>4. {t} \in SUBSET Rows /\ \A row \in {t} : Free(c, row)
    BY <1>1, <1>2, RowsDiffer DEF Free
  <2>5. KeepsLocks(c) /\ \A row \in Rows : lock'[row] = c <=> lock[row] = c \/ row \in {t}
    BY <1>1, <2>1, <2>4, TakeKeepsLocks
  <2>6. Held' = Held /\ \A u : Card(u)' = Card(u)
    BY <1>2 DEF Held, Card, tables
  <2>7. Asked(c)'
    BY <1>1, <2>2, <2>3, <2>6 DEF Asked
  <2>8. Owner(c)'
    BY <1>1, <1>5, <2>2, <2>3, <2>5, <2>6, RowsDiffer DEF Owner
  <2>9. Claim(c)' /\ Counted(c)'
    BY <2>3 DEF Claim, Counted
  <2>10. InOrder(c)'
    <3>1. \A h \in Subjects : lock'[h] # c
      BY <1>1, <1>3, <2>5, RowsDiffer
    <3> QED BY <3>1 DEF InOrder
  <2>11. CallInv(c)'
    BY <2>7, <2>8, <2>9, <2>10 DEF CallInv
  <2> QED BY <1>2, <2>1, <2>2, <2>5, <2>11, OwnStep DEF Labels
<1> QED BY <1>4, <1>5

(* The old number of an edited title is claimed by nobody, and the new one is *)
(* free: the edit takes both.                                                *)
LEMMA UpdateBookKeeps ==
  ASSUME ShelfInv, NEW c \in Calls, UpdateBook(c)
  PROVE  ShelfInv'
<1> DEFINE t == req[c].title
           old == Card(t)["isbn13"]
           new == Patched(Card(t), req[c].card)["isbn13"]
           authors == IF "authors" \in req[c].changed THEN linkAuthors(req[c].card) ELSE <<>>
           headings == IF "subjects" \in req[c].changed THEN linkSubjects(req[c].card) ELSE {}
           r == [req[c] EXCEPT !.authors = authors, !.headings = headings]
           held == IF old = new THEN {} ELSE {old, new} \cap ISBNs
<1>1. /\ Typed /\ CallInv(c) /\ req[c] \in Request /\ req \in [Calls -> Request]
      /\ pc[c] = "write" /\ req[c].op = "edit" /\ t \in Held /\ t \in Titles
  BY CallFacts DEF Typed, CallInv, Asked, UpdateBook, At, Held
<1>2. /\ UNCHANGED tables /\ IndexFree(c, new) /\ Catalogued(new) \subseteq {t}
      /\ Take(c, held) /\ pc' = [pc EXCEPT ![c] = "names"]
      /\ req' = [req EXCEPT ![c].authors = authors, ![c].headings = headings]
  BY DEF UpdateBook, Goto
<1>3. req' = [req EXCEPT ![c] = r]
  BY <1>1, <1>2
<1>4. authors \in Seq(Authors) /\ headings \in SUBSET Subjects
  <2>1. req[c].card \in Cards \cup Patches \cup {NoCard}
    BY <1>1 DEF Request
  <2>2. linkAuthors(req[c].card) \in Seq(Authors) /\ linkSubjects(req[c].card) \in SUBSET Subjects
    BY <2>1, CardsAreTyped
  <2> QED BY <2>2
<1>5. /\ r \in Request /\ r.op = "edit" /\ r.title = t /\ r.card = req[c].card
      /\ r.changed = req[c].changed
  BY <1>1, <1>4 DEF Request
<1>6. pc'[c] = "names" /\ req'[c] = r
  <2> HIDE DEF r
  <2>1. req'[c] = r
    BY <1>1, <1>3
  <2>2. pc'[c] = "names"
    BY <1>2, CallFacts
  <2> QED BY <2>1, <2>2
<1>7. ASSUME NEW d \in Calls \ {c}, old \in ISBNs
      PROVE  ~ ReliesOn(d, old)
  <2>1. t \in Catalogued(old)
    BY <1>1, <1>7 DEF Catalogued
  <2>2. Claim(d)
    BY DEF ShelfInv, CallInv
  <2> QED BY <1>7, <2>1, <2>2 DEF ReliesOn, Claim
<1>8. /\ held \in SUBSET Rows
      /\ \A row \in held : Free(c, row) \/ \A d \in Calls \ {c} : ~ ReliesOn(d, row)
  BY <1>2, <1>7, RowsDiffer DEF IndexFree
<1>9. KeepsLocks(c) /\ \A row \in Rows : lock'[row] = c <=> lock[row] = c \/ row \in held
  BY <1>1, <1>2, <1>8, TakeKeepsLocks
<1>10. Held' = Held /\ (\A u : Card(u)' = Card(u)) /\ \A i : Catalogued(i)' = Catalogued(i)
  <2>1. books' = books
    BY <1>2 DEF tables
  <2> QED BY <2>1 DEF Catalogued, Held, Card
<1>11. Asked(c)'
  BY <1>1, <1>5, <1>6, <1>10 DEF Asked
<1>12. Owner(c)'
  BY <1>1, <1>5, <1>6, <1>9, <1>10, RowsDiffer DEF CallInv, Owner
<1>13. Claim(c)'
  <2>1. NewNumber(c)' = new /\ Moves(c)' = (old # new)
    BY <1>5, <1>6, <1>10 DEF NewNumber, Moves
  <2>2. old # new /\ new \in ISBNs => lock'[new] = c
    BY <1>9, RowsDiffer
  <2>3. old # new => t \notin Catalogued(new)
    BY DEF Catalogued
  <2> QED BY <1>2, <1>10, <2>1, <2>2, <2>3 DEF Claim
<1>14. InOrder(c)'
  <2>1. \A h \in Subjects : lock'[h] # c
    BY <1>1, <1>9, NoHeadings, RowsDiffer
  <2> QED BY <2>1 DEF InOrder
<1>15. Counted(c)'
  BY <1>6 DEF Counted
<1>16. CallInv(c)'
  BY <1>11, <1>12, <1>13, <1>14, <1>15 DEF CallInv
<1> QED BY <1>2, <1>3, <1>5, <1>9, <1>16, OwnStep DEF Labels

-----------------------------------------------------------------------------
(* Its names are linked. *)

(* A name is taken off those to be linked: the rest of the request stays. *)
LEMMA LinkKeeps ==
  ASSUME ShelfInv, NEW c \in Calls, NEW name \in Authors \cup Subjects,
         NEW authors \in Seq(Authors), NEW headings \in SUBSET Subjects,
         pc[c] = "names", Free(c, name), Take(c, {name}), UNCHANGED <<tables, pc>>,
         req' = [req EXCEPT ![c] = [req[c] EXCEPT !.authors = authors, !.headings = headings]],
         \A h \in Subjects : lock[h] = c \/ h = name =>
           authors = <<>> /\ \A s \in headings : h < s
  PROVE  ShelfInv'
<1> DEFINE r == [req[c] EXCEPT !.authors = authors, !.headings = headings]
<1>1. Typed /\ CallInv(c) /\ req[c] \in Request /\ req \in [Calls -> Request]
  BY CallFacts DEF Typed
<1>2. /\ r \in Request /\ r.op = req[c].op /\ r.title = req[c].title /\ r.card = req[c].card
      /\ r.changed = req[c].changed /\ r.authors = authors /\ r.headings = headings
      /\ r.page = req[c].page /\ r.count = req[c].count
  BY <1>1 DEF Request
<1>3. req' = [req EXCEPT ![c] = r] /\ req'[c] = r /\ pc' = pc
  BY <1>1
<1>4. pc' = [pc EXCEPT ![c] = "names"]
  BY <1>1, <1>3 DEF Typed, TypeOK, CallsTyped
<1>5. {name} \in SUBSET Rows /\ name \notin ISBNs /\ name \notin Titles /\ name # Member
  BY RowsDiffer
<1>6. KeepsLocks(c) /\ \A row \in Rows : lock'[row] = c <=> lock[row] = c \/ row = name
  BY <1>1, <1>5, TakeKeepsLocks
<1>7. Held' = Held /\ (\A u : Card(u)' = Card(u)) /\ \A i : Catalogued(i)' = Catalogued(i)
  <2>1. books' = books
    BY DEF tables
  <2> QED BY <2>1 DEF Catalogued, Held, Card
<1>8. Asked(c)'
  BY <1>1, <1>2, <1>3, <1>7 DEF CallInv, Asked
<1>9. Owner(c)'
  BY <1>1, <1>2, <1>3, <1>6, <1>7, RowsDiffer DEF CallInv, Owner
<1>10. Claim(c)'
  <2>1. NewNumber(c)' = NewNumber(c) /\ Moves(c)' = Moves(c)
    BY <1>2, <1>3, <1>7 DEF NewNumber, Moves
  <2> QED BY <1>1, <1>3, <1>6, <1>7, <2>1, RowsDiffer DEF CallInv, Claim
<1>11. InOrder(c)'
  BY <1>2, <1>3, <1>6, RowsDiffer DEF InOrder
<1>12. Counted(c)'
  BY <1>3 DEF Counted
<1>13. CallInv(c)'
  BY <1>8, <1>9, <1>10, <1>11, <1>12 DEF CallInv
<1> QED BY <1>2, <1>3, <1>4, <1>6, <1>13, OwnStep DEF Labels

LEMMA LinkAuthorKeeps ==
  ASSUME ShelfInv, NEW c \in Calls, LinkAuthor(c)
  PROVE  ShelfInv'
<1> DEFINE name == Head(req[c].authors)
           authors == Tail(req[c].authors)
           headings == req[c].headings
<1>1. req[c] \in Request /\ req \in [Calls -> Request]
  BY CallFacts DEF Typed
<1>2. /\ pc[c] = "names" /\ req[c].authors # <<>> /\ Free(c, name) /\ Take(c, {name})
      /\ UNCHANGED <<tables, pc>> /\ req' = [req EXCEPT ![c].authors = Tail(@)]
  BY DEF LinkAuthor, At
<1>3. req[c].authors \in Seq(Authors) /\ headings \in SUBSET Subjects
  BY <1>1 DEF Request
<1>4. name \in Authors /\ authors \in Seq(Authors)
  BY <1>2, <1>3
<1>5. req' = [req EXCEPT ![c] = [req[c] EXCEPT !.authors = authors, !.headings = headings]]
  BY <1>1, <1>2 DEF Request
<1>6. \A h \in Subjects : lock[h] # c /\ h # name
  BY <1>2, <1>4, NoHeadings, RowsDiffer
<1>7. name \in Authors \cup Subjects /\ authors \in Seq(Authors) /\ headings \in SUBSET Subjects
  BY <1>3, <1>4
<1> HIDE DEF name, authors, headings
<1>8. \A h \in Subjects : lock[h] = c \/ h = name => authors = <<>> /\ \A s \in headings : h < s
  BY <1>6
<1>9. pc[c] = "names" /\ Free(c, name) /\ Take(c, {name}) /\ UNCHANGED <<tables, pc>>
  BY <1>2
<1> QED BY <1>5, <1>7, <1>8, <1>9, LinkKeeps

LEMMA LinkSubjectKeeps ==
  ASSUME ShelfInv, NEW c \in Calls, LinkSubject(c)
  PROVE  ShelfInv'
<1>1. req[c] \in Request /\ req \in [Calls -> Request] /\ InOrder(c)
  BY CallFacts DEF Typed, CallInv
<1>2. PICK heading \in FirstOf(req[c].headings) :
        /\ pc[c] = "names" /\ req[c].authors = <<>> /\ Free(c, heading) /\ Take(c, {heading})
        /\ req' = [req EXCEPT ![c].headings = @ \ {heading}]
        /\ UNCHANGED <<tables, pc>>
  BY DEF LinkSubject, At
<1> DEFINE authors == req[c].authors
           left == req[c].headings \ {heading}
<1>3. heading \in Subjects /\ left \in SUBSET Subjects /\ authors \in Seq(Authors)
  BY <1>1 DEF Request, FirstOf
<1>4. req' = [req EXCEPT ![c] = [req[c] EXCEPT !.authors = authors, !.headings = left]]
  BY <1>1, <1>2 DEF Request
<1>5. \A h \in Subjects : lock[h] = c => \A s \in left : h < s
  BY <1>1 DEF InOrder
<1>6. ASSUME NEW s \in left
      PROVE  heading < s
  <2>1. heading \in Int /\ s \in Int
    BY <1>3, ShelfAssumption
  <2>2. heading <= s /\ heading # s
    BY <1>3 DEF FirstOf
  <2> QED BY <2>1, <2>2
<1>7. authors = <<>> /\ heading \in Authors \cup Subjects
  BY <1>2, <1>3
<1> HIDE DEF authors, left
<1>8. \A h \in Subjects : lock[h] = c \/ h = heading => authors = <<>> /\ \A s \in left : h < s
  BY <1>5, <1>6, <1>7
<1>9. pc[c] = "names" /\ Free(c, heading) /\ Take(c, {heading}) /\ UNCHANGED <<tables, pc>>
  BY <1>2
<1> QED BY <1>3, <1>4, <1>7, <1>8, <1>9, LinkKeeps

-----------------------------------------------------------------------------
(* A search is saved. *)

LEMMA LockMemberKeeps ==
  ASSUME ShelfInv, NEW c \in Calls, LockMember(c)
  PROVE  ShelfInv'
<1>1. Typed /\ CallInv(c) /\ req[c] \in Request /\ req \in [Calls -> Request]
  BY CallFacts DEF Typed
<1>2. /\ pc[c] = "member" /\ lock[Member] = None /\ Take(c, {Member})
      /\ pc' = [pc EXCEPT ![c] = "saved"] /\ req' = req /\ UNCHANGED tables
  BY DEF LockMember, MemberFree, At, Goto
<1>3. pc'[c] = "saved" /\ req' = [req EXCEPT ![c] = req[c]]
  BY <1>1, <1>2, CallFacts
<1>4. {Member} \in SUBSET Rows /\ \A row \in {Member} : Free(c, row)
  BY <1>2, RowsDiffer DEF Free
<1>5. KeepsLocks(c) /\ \A row \in Rows : lock'[row] = c <=> lock[row] = c \/ row \in {Member}
  BY <1>1, <1>2, <1>4, TakeKeepsLocks
<1>6. Asked(c)'
  BY <1>1, <1>2, <1>3 DEF CallInv, Asked
<1>7. Owner(c)' /\ Claim(c)'
  BY <1>3 DEF Owner, Claim
<1>8. InOrder(c)'
  <2>1. \A h \in Subjects : lock'[h] # c
    BY <1>2, <1>5, NoHeadings, RowsDiffer
  <2> QED BY <2>1 DEF InOrder
<1>9. Counted(c)'
  BY <1>3, <1>5, RowsDiffer DEF Counted
<1>10. CallInv(c)'
  BY <1>6, <1>7, <1>8, <1>9 DEF CallInv
<1> QED BY <1>1, <1>2, <1>3, <1>5, <1>10, OwnStep DEF Labels

LEMMA CountSearchesKeeps ==
  ASSUME ShelfInv, NEW c \in Calls, CountSearches(c)
  PROVE  ShelfInv'
<1> DEFINE r == [req[c] EXCEPT !.count = saved]
<1>1. /\ Typed /\ CallInv(c) /\ req[c] \in Request /\ req \in [Calls -> Request] /\ saved \in Nat
  BY CallFacts DEF Typed, TypeOK
<1>2. /\ pc[c] = "saved" /\ pc' = [pc EXCEPT ![c] = "save"] /\ req' = [req EXCEPT ![c] = r]
      /\ UNCHANGED tables /\ lock' = lock /\ saved' = saved
  BY <1>1 DEF CountSearches, At, Goto, tables
<1>3. r \in Request /\ r.count = saved /\ r.op = req[c].op
  BY <1>1 DEF Request
<1>4. pc'[c] = "save" /\ req'[c] = r /\ req[c].op = "save"
  BY <1>1, <1>2, <1>3, CallFacts DEF CallInv, Asked
<1>5. KeepsLocks(c)
  BY <1>1, <1>2, SameLocks
<1>6. Asked(c)'
  BY <1>3, <1>4 DEF Asked
<1>7. Owner(c)' /\ Claim(c)'
  BY <1>4 DEF Owner, Claim
<1>8. InOrder(c)'
  <2>1. \A h \in Subjects : lock'[h] # c
    BY <1>2, NoHeadings
  <2> QED BY <2>1 DEF InOrder
<1>9. Counted(c)'
  BY <1>1, <1>2, <1>3, <1>4 DEF CallInv, Counted
<1>10. CallInv(c)'
  BY <1>6, <1>7, <1>8, <1>9 DEF CallInv
<1> QED BY <1>2, <1>3, <1>5, <1>10, OwnStep DEF Labels

-----------------------------------------------------------------------------
(* Statements of their own: no call is touched. *)

LEMMA StatementKeeps ==
  ASSUME ShelfInv, UNCHANGED <<pc, req, lock>>, SameTitles, TitlesTyped',
         log' \in [Titles -> Seq(SUBSET (Fields \cup {"status"}))], marks' \subseteq Held,
         books' \in [Titles -> Book], saved' \in Nat, saved' <= saved
  PROVE  ShelfInv'
<1>1. Typed /\ OneTitlePerISBN /\ SavedWithinLimit
  BY DEF ShelfInv
<1>2. CallsTyped' /\ lock' \in [Rows -> Calls \cup {None}]
  BY <1>1 DEF Typed, TypeOK, CallsTyped
<1>3. Typed'
  BY <1>1, <1>2 DEF Typed, TypeOK, SameTitles
<1>4. OneTitlePerISBN'
  <2>1. Held \subseteq Titles
    BY DEF Held
  <2> QED BY <1>1, <2>1 DEF OneTitlePerISBN, SameTitles
<1>5. SavedWithinLimit'
  BY <1>1, ShelfAssumption DEF SavedWithinLimit, Typed, TypeOK
<1>6. \A d \in Calls : KeepsIts(d)
  BY DEF KeepsIts
<1>7. \A d \in Calls : CallInv(d)'
  BY <1>6, CallKept
<1> QED BY <1>3, <1>4, <1>5, <1>7 DEF ShelfInv

LEMMA ArchiveBookKeeps ==
  ASSUME ShelfInv, NEW t \in Titles, ArchiveBook(t)
  PROVE  ShelfInv'
<1>1. Typed /\ books \in [Titles -> Book] /\ t \in Held /\ marks \subseteq Held /\ saved \in Nat
  BY DEF ShelfInv, Typed, TypeOK, ArchiveBook
<1>2. /\ books' = [books EXCEPT ![t].status = "archived"]
      /\ log' = [log EXCEPT ![t] = Append(@, {"status"})]
      /\ UNCHANGED <<saved, marks, pc, req, lock>>
  BY DEF ArchiveBook
<1>3. books' \in [Titles -> Book]
  BY <1>1, <1>2 DEF Book, Statuses
<1>4. /\ \A u \in Titles : books'[u].card = books[u].card
      /\ \A u \in Titles \ {t} : books'[u] = books[u]
      /\ books'[t].status = "archived"
  BY <1>1, <1>2 DEF Book
<1>5. SameTitles
  BY <1>1, <1>4 DEF SameTitles, Held, Card
<1>6. TitlesTyped'
  <2>1. \A u \in Titles : books'[u].status \in {"none", "active", "archived"}
    BY <1>3 DEF Book, Statuses
  <2> QED BY <1>1, <1>5, <2>1 DEF Typed, TypeOK, TitlesTyped, SameTitles
<1>7. log' \in [Titles -> Seq(SUBSET (Fields \cup {"status"}))]
  BY <1>1, <1>2 DEF Typed, TypeOK
<1> QED BY <1>1, <1>2, <1>3, <1>5, <1>6, <1>7, StatementKeeps

(* The lists: the titles stay as they are. *)
LEMMA ListsKeep ==
  ASSUME ShelfInv, UNCHANGED <<books, log, pc, req, lock>>,
         marks' \subseteq Held, saved' \in Nat, saved' <= saved
  PROVE  ShelfInv'
<1>1. Typed /\ TitlesTyped
  BY DEF ShelfInv, Typed, TypeOK
<1>2. SameTitles
  BY DEF SameTitles, Held, Card
<1>3. TitlesTyped'
  BY <1>1 DEF TitlesTyped, Held, Card
<1>4. /\ books' \in [Titles -> Book]
      /\ log' \in [Titles -> Seq(SUBSET (Fields \cup {"status"}))]
  BY <1>1 DEF Typed, TypeOK
<1> QED BY <1>2, <1>3, <1>4, StatementKeeps

LEMMA AddBookmarkKeeps ==
  ASSUME ShelfInv, NEW t \in Titles, AddBookmark(t)
  PROVE  ShelfInv'
<1>1. marks \subseteq Held /\ saved \in Nat
  BY DEF ShelfInv, Typed, TypeOK
<1>2. marks' = marks \cup {t} /\ t \in Held /\ UNCHANGED <<books, log, saved, pc, req, lock>>
  BY DEF AddBookmark
<1>3. marks' \subseteq Held
  BY <1>1, <1>2
<1> QED BY <1>1, <1>2, <1>3, ListsKeep

LEMMA RemoveBookmarkKeeps ==
  ASSUME ShelfInv, NEW t \in Titles, RemoveBookmark(t)
  PROVE  ShelfInv'
<1>1. marks \subseteq Held /\ saved \in Nat
  BY DEF ShelfInv, Typed, TypeOK
<1>2. marks' = marks \ {t} /\ UNCHANGED <<books, log, saved, pc, req, lock>>
  BY DEF RemoveBookmark
<1>3. marks' \subseteq Held
  BY <1>1, <1>2
<1> QED BY <1>1, <1>2, <1>3, ListsKeep

LEMMA DeleteSearchKeeps ==
  ASSUME ShelfInv, DeleteSearch
  PROVE  ShelfInv'
<1>1. marks \subseteq Held /\ saved \in Nat
  BY DEF ShelfInv, Typed, TypeOK
<1>2. saved > 0 /\ saved' = saved - 1 /\ UNCHANGED <<books, log, marks, pc, req, lock>>
  BY DEF DeleteSearch
<1>3. saved' \in Nat /\ saved' <= saved /\ marks' \subseteq Held
  BY <1>1, <1>2
<1> QED BY <1>2, <1>3, ListsKeep

-----------------------------------------------------------------------------
(* The commits. *)

(* A call that has answered holds nothing. *)
LEMMA AnswerKeeps ==
  ASSUME ShelfInv, NEW c \in Calls, Answer(c), req[c].op # "search"
  PROVE  /\ CallsTyped' /\ req' = req /\ KeepsLocks(c) /\ CallInv(c)'
         /\ \A d \in Calls \ {c} : pc'[d] = pc[d] /\ req'[d] = req[d] /\ KeepsIts(d)
<1>1. Typed /\ CallsTyped
  BY CallFacts DEF Typed, TypeOK
<1>2. pc' = [pc EXCEPT ![c] = "answer"] /\ req' = req /\ Release(c)
  BY DEF Answer, Goto
<1>3. KeepsLocks(c) /\ \A row \in Rows : lock'[row] # c
  BY <1>1, <1>2, ReleaseKeepsLocks
<1>4. CallsTyped'
  BY <1>1, <1>2 DEF CallsTyped, Labels
<1>5. pc'[c] = "answer" /\ \A d \in Calls \ {c} : pc'[d] = pc[d]
  BY <1>1, <1>2 DEF CallsTyped
<1>6. Asked(c)' /\ Owner(c)' /\ Claim(c)' /\ Counted(c)'
  BY <1>2, <1>5 DEF Asked, Owner, Claim, Counted
<1>7. InOrder(c)'
  BY <1>3, RowsDiffer DEF InOrder
<1> QED BY <1>2, <1>3, <1>4, <1>5, <1>6, <1>7 DEF CallInv, KeepsLocks

(* Only one call has counted the searches: the member's row is its own. *)
LEMMA InsertSearchKeeps ==
  ASSUME ShelfInv, NEW c \in Calls, InsertSearch(c)
  PROVE  ShelfInv'
<1>1. /\ Typed /\ OneTitlePerISBN /\ SavedWithinLimit /\ CallInv(c) /\ saved \in Nat
      /\ req[c] \in Request /\ SavedLimit \in Nat
  BY CallFacts, ShelfAssumption DEF ShelfInv, Typed, TypeOK
<1>2. /\ pc[c] = "save" /\ req[c].count < SavedLimit /\ saved' = saved + 1 /\ Answer(c)
      /\ UNCHANGED <<books, log, marks>>
  BY DEF InsertSearch, At
<1>3. req[c].op = "save" /\ lock[Member] = c /\ saved <= req[c].count /\ req[c].count \in Nat
  BY <1>1, <1>2 DEF CallInv, Asked, Counted, Request
<1>4. /\ CallsTyped' /\ req' = req /\ KeepsLocks(c) /\ CallInv(c)'
      /\ \A d \in Calls \ {c} : pc'[d] = pc[d] /\ req'[d] = req[d] /\ KeepsIts(d)
  BY <1>2, <1>3, AnswerKeeps
<1>5. SameTitles
  BY <1>2 DEF SameTitles, Held, Card
<1>6. saved' \in Nat /\ SavedWithinLimit'
  BY <1>1, <1>2, <1>3 DEF SavedWithinLimit
<1>7. Typed'
  <2>1. TitlesTyped'
    BY <1>1, <1>2 DEF Typed, TypeOK, TitlesTyped, Held, Card
  <2>2. /\ log' \in [Titles -> Seq(SUBSET (Fields \cup {"status"}))] /\ marks' \subseteq Held'
        /\ lock' \in [Rows -> Calls \cup {None}]
    BY <1>1, <1>2, <1>4, <1>5 DEF Typed, TypeOK, SameTitles, KeepsLocks
  <2>3. TypeOK'
    BY <1>4, <1>6, <2>1, <2>2 DEF TypeOK
  <2> QED BY <1>1, <1>2, <1>4, <2>3 DEF Typed
<1>8. OneTitlePerISBN'
  BY <1>1, <1>2 DEF OneTitlePerISBN, Held, Card
<1>9. ASSUME NEW d \in Calls, d # c
      PROVE  CallInv(d)'
  <2>1. Counted(d)
    BY DEF ShelfInv, CallInv
  <2>2. pc[d] # "save"
    BY <1>3, <1>9, <2>1 DEF Counted
  <2> QED BY <1>4, <1>5, <1>6, <1>9, <2>2, CallKept
<1> QED BY <1>4, <1>6, <1>7, <1>8, <1>9 DEF ShelfInv

(* An edit of what changed is the edit of all that was supplied. *)
LEMMA WrittenIsPatched ==
  ASSUME NEW card, NEW patch, card = [f \in Fields |-> card[f]]
  PROVE  /\ Written(card, patch, Changed(card, patch)) = Patched(card, patch)
         /\ \A changed : Written(card, patch, changed)["isbn13"] = Patched(card, patch)["isbn13"]
<1>1. \A f \in Fields : f \in Changed(card, patch) \/ Patched(card, patch)[f] = card[f]
  BY DEF Changed, Patched
<1> QED BY <1>1, CardsAreTyped DEF Written, Patched

(* The card that a commit gives its title. *)
NewCard(c) ==
  IF req[c].op = "create" THEN req[c].card
  ELSE Written(Card(req[c].title), req[c].card, req[c].changed)

LEMMA NewCardIsTyped ==
  ASSUME ShelfInv, NEW c \in Calls, pc[c] = "names"
  PROVE  /\ NewCard(c) \in [Fields -> UNION {Values(f) : f \in Fields}]
         /\ \A f \in Fields : NewCard(c)[f] \in Values(f) /\ NewCard(c)[f] # None
         /\ NewCard(c)["isbn13"] = NewNumber(c)
<1> DEFINE t == req[c].title
           patch == req[c].card
<1>1. /\ Typed /\ TitlesTyped /\ books \in [Titles -> Book] /\ CallInv(c) /\ req[c] \in Request
  BY CallFacts DEF Typed, TypeOK
<1>2. t \in Titles /\ req[c].op \in {"create", "edit"}
  BY <1>1 DEF CallInv, Asked, Owner
<1>3. CASE req[c].op = "create"
  <2>1. patch \in Cards /\ NewCard(c) = patch /\ NewNumber(c) = patch["isbn13"]
    BY <1>1, <1>3 DEF CallInv, Asked, NewCard, NewNumber
  <2> QED BY <2>1, CardsAreTyped
<1>4. CASE req[c].op = "edit"
  <2>1. t \in Held /\ req[c].changed = Changed(Card(t), patch)
    BY <1>1, <1>4 DEF CallInv, Asked, Owner
  <2>2. Card(t) \in [Fields -> UNION {Values(f) : f \in Fields}]
    BY <1>1, <1>2 DEF Book, Card
  <2>3. NewCard(c) = Patched(Card(t), patch) /\ NewNumber(c) = Patched(Card(t), patch)["isbn13"]
    BY <1>4, <2>1, <2>2, WrittenIsPatched DEF NewCard, NewNumber
  <2>4. \A f \in Fields : Card(t)[f] \in Values(f) /\ Card(t)[f] # None
    BY <1>1, <1>2, <2>1 DEF TitlesTyped
  <2>5. patch \in Cards \cup Patches \cup {NoCard}
    BY <1>1 DEF Request
  <2>6. \A f \in Fields : Patched(Card(t), patch)[f] \in Values(f) /\ Patched(Card(t), patch)[f] # None
    BY <2>4, <2>5, CardsAreTyped DEF Patched
  <2>7. Patched(Card(t), patch) \in [Fields -> UNION {Values(f) : f \in Fields}]
    <3>1. \A f \in Fields : Patched(Card(t), patch)[f] \in UNION {Values(g) : g \in Fields}
      BY <2>6
    <3> QED BY <3>1 DEF Patched
  <2> QED BY <2>3, <2>6, <2>7
<1> QED BY <1>2, <1>3, <1>4

(* What a commit does to the titles. *)
LEMMA Committed ==
  ASSUME ShelfInv, NEW c \in Calls, CommitBook(c)
  PROVE  LET t == req[c].title
         IN  /\ pc[c] = "names" /\ Answer(c) /\ UNCHANGED <<saved, marks>>
             /\ t \in Titles /\ lock[t] = c
             /\ log' = [log EXCEPT ![t] = Append(@, req[c].changed)]
             /\ books' \in [Titles -> Book]
             /\ books'[t].status \in {"active", "archived"} /\ books'[t].card = NewCard(c)
             /\ \A u \in Titles \ {t} : books'[u] = books[u]
             /\ Held' = Held \cup {t}
<1> DEFINE t == req[c].title
           status == IF req[c].op = "create" THEN "active" ELSE books[t].status
           entry == [status |-> status, card |-> NewCard(c)]
<1>1. /\ pc[c] = "names" /\ Answer(c) /\ UNCHANGED <<saved, marks>>
      /\ log' = [log EXCEPT ![t] = Append(@, req[c].changed)]
      /\ books' = [books EXCEPT ![t] = entry] /\ req' = req
  BY DEF CommitBook, At, NewCard, Answer
<1>2. /\ CallInv(c) /\ books \in [Titles -> Book]
      /\ NewCard(c) \in [Fields -> UNION {Values(f) : f \in Fields}]
  BY <1>1, CallFacts, NewCardIsTyped DEF Typed
<1>3. t \in Titles /\ lock[t] = c /\ req[c].op \in {"create", "edit"}
  BY <1>1, <1>2 DEF CallInv, Owner, Asked
<1>4. status \in {"active", "archived"}
  BY <1>1, <1>2, <1>3 DEF CallInv, Asked, Held, Book, Statuses
<1>5. entry \in Book /\ entry.status = status /\ entry.card = NewCard(c)
  BY <1>2, <1>4 DEF Book, Statuses
<1> HIDE DEF entry
<1>6. /\ books' \in [Titles -> Book] /\ books'[t] = entry
      /\ \A u \in Titles \ {t} : books'[u] = books[u]
  BY <1>1, <1>2, <1>3, <1>5
<1>7. Held' = Held \cup {t}
  BY <1>3, <1>4, <1>5, <1>6 DEF Held
<1>8. books'[t].card = NewCard(c)
  BY <1>5, <1>6
<1> QED BY <1>1, <1>3, <1>4, <1>5, <1>6, <1>7, <1>8

(* The number a title is given is its own already, or was claimed and free. *)
LEMMA NumberIsFree ==
  ASSUME ShelfInv, NEW c \in Calls, pc[c] = "names", NewNumber(c) \in ISBNs,
         NEW u \in Held, u # req[c].title
  PROVE  Card(u)["isbn13"] # NewNumber(c)
<1> DEFINE t == req[c].title
<1>1. CallInv(c) /\ OneTitlePerISBN /\ u \in Titles
  BY DEF ShelfInv, Held
<1>2. CASE Moves(c)
  <2>1. u \notin Catalogued(NewNumber(c))
    BY <1>1, <1>2 DEF CallInv, Claim
  <2> QED BY <2>1 DEF Catalogued
<1>3. CASE ~ Moves(c)
  <2>1. t \in Held /\ Card(t)["isbn13"] = NewNumber(c)
    BY <1>1, <1>3 DEF CallInv, Asked, Moves
  <2> QED BY <1>1, <2>1 DEF OneTitlePerISBN
<1> QED BY <1>2, <1>3

(* A commit leaves the other calls what they rely on: their titles are others, *)
(* and so are the numbers they have claimed.                                  *)
LEMMA CommitLeavesOthers ==
  ASSUME ShelfInv, NEW c \in Calls, CommitBook(c), NEW d \in Calls, d # c
  PROVE  CallInv(d)'
<1> DEFINE t == req[c].title
<1>1. /\ pc[c] = "names" /\ Answer(c) /\ UNCHANGED <<saved, marks>>
      /\ t \in Titles /\ lock[t] = c /\ books'[t].card = NewCard(c)
      /\ \A u \in Titles \ {t} : books'[u] = books[u]
      /\ Held' = Held \cup {t}
  BY Committed
<1>2. /\ Typed /\ CallInv(c) /\ CallInv(d) /\ req[c].op # "search"
      /\ NewCard(c)["isbn13"] = NewNumber(c)
  BY <1>1, CallFacts, NewCardIsTyped DEF CallInv, Asked, ShelfInv
<1>3. pc'[d] = pc[d] /\ req'[d] = req[d] /\ KeepsIts(d)
  BY <1>1, <1>2, AnswerKeeps
<1>4. \A row \in Rows \ ISBNs : lock'[row] = d <=> lock[row] = d
  BY <1>3 DEF KeepsIts, ReliesOn
<1>5. \A u \in Titles \ {t} : Card(u)' = Card(u)
  BY <1>1 DEF Card
<1>6. ASSUME pc[d] \in {"write", "names"}
      PROVE  req[d].title \in Titles \ {t}
  BY <1>1, <1>2, <1>6 DEF CallInv, Owner
<1>7. Asked(d)'
  BY <1>1, <1>2, <1>3 DEF CallInv, Asked
<1>8. Owner(d)'
  BY <1>1, <1>2, <1>3, <1>4, <1>5, <1>6, RowsDiffer DEF CallInv, Owner
<1>9. Claim(d)'
  <2>1. SUFFICES ASSUME pc[d] = "names", Moves(d)', NewNumber(d)' \in ISBNs
                 PROVE  (lock[NewNumber(d)] = d /\ Catalogued(NewNumber(d)) = {})'
    BY <1>3 DEF Claim
  <2>2. NewNumber(d)' = NewNumber(d) /\ Moves(d)' = Moves(d)
    BY <1>3, <1>5, <1>6, <2>1 DEF NewNumber, Moves
  <2>3. lock[NewNumber(d)] = d /\ Catalogued(NewNumber(d)) = {}
    BY <1>2, <2>1, <2>2 DEF CallInv, Claim
  <2>4. lock'[NewNumber(d)] = d
    BY <1>3, <2>1, <2>2, <2>3, RowsDiffer DEF KeepsIts, ReliesOn
  <2>5. NewNumber(c) # NewNumber(d)
    <3>1. CASE Moves(c)
      BY <1>1, <1>2, <2>1, <2>2, <2>3, <3>1 DEF CallInv, Claim
    <3>2. CASE ~ Moves(c)
      <4>1. t \in Held /\ Card(t)["isbn13"] = NewNumber(c)
        BY <1>1, <1>2, <3>2 DEF CallInv, Asked, Moves
      <4> QED BY <2>1, <2>2, <2>3, <4>1 DEF Catalogued
    <3> QED BY <3>1, <3>2
  <2>6. ASSUME NEW u \in Held'
        PROVE  Card(u)'["isbn13"] # NewNumber(d)
    <3>1. CASE u = t
      BY <1>1, <1>2, <2>5, <3>1 DEF Card
    <3>2. CASE u # t
      <4>1. u \in Held /\ Card(u)' = Card(u)
        BY <1>1, <1>5, <3>2 DEF Held
      <4> QED BY <2>1, <2>2, <2>3, <4>1 DEF Catalogued
    <3> QED BY <3>1, <3>2
  <2>7. \A i : i = NewNumber(d) => Catalogued(i)' = {}
    BY <2>6 DEF Catalogued
  <2> QED BY <2>2, <2>4, <2>7
<1>10. InOrder(d)'
  BY <1>2, <1>3, <1>4, RowsDiffer DEF CallInv, InOrder
<1>11. Counted(d)'
  BY <1>1, <1>2, <1>3, <1>4, RowsDiffer DEF CallInv, Counted
<1> QED BY <1>7, <1>8, <1>9, <1>10, <1>11 DEF CallInv

LEMMA CommitBookKeeps ==
  ASSUME ShelfInv, NEW c \in Calls, CommitBook(c)
  PROVE  ShelfInv'
<1> DEFINE t == req[c].title
<1>1. /\ pc[c] = "names" /\ Answer(c) /\ UNCHANGED <<saved, marks>>
      /\ t \in Titles /\ log' = [log EXCEPT ![t] = Append(@, req[c].changed)]
      /\ books' \in [Titles -> Book] /\ books'[t].card = NewCard(c)
      /\ \A u \in Titles \ {t} : books'[u] = books[u]
      /\ Held' = Held \cup {t}
  BY Committed
<1>2. /\ Typed /\ OneTitlePerISBN /\ SavedWithinLimit /\ req[c] \in Request
      /\ CallInv(c) /\ req[c].op # "search"
  BY <1>1, CallFacts DEF CallInv, Asked, ShelfInv
<1>3. CallsTyped' /\ req' = req /\ KeepsLocks(c) /\ CallInv(c)'
  BY <1>1, <1>2, AnswerKeeps
<1>4. /\ \A f \in Fields : NewCard(c)[f] \in Values(f) /\ NewCard(c)[f] # None
      /\ NewCard(c)["isbn13"] = NewNumber(c)
  BY <1>1, NewCardIsTyped
<1>5. \A u \in Titles \ {t} : Card(u)' = Card(u)
  BY <1>1 DEF Card
<1>6. TitlesTyped'
  <2>1. ASSUME NEW u \in Titles
        PROVE  (/\ books[u].status \in {"none", "active", "archived"}
                /\ u \in Held => \A f \in Fields : Card(u)[f] # None
                /\ \A f \in Fields : Card(u)[f] \in Values(f))'
    <3>1. books'[u].status \in {"none", "active", "archived"}
      BY <1>1 DEF Book, Statuses
    <3>2. CASE u = t
      BY <1>1, <1>4, <3>1, <3>2 DEF Card
    <3>3. CASE u # t
      <4>1. Card(u)' = Card(u) /\ (u \in Held' <=> u \in Held)
        BY <1>1, <1>5, <3>3
      <4> QED BY <1>2, <3>1, <4>1 DEF Typed, TypeOK, TitlesTyped
    <3> QED BY <3>2, <3>3
  <2> QED BY <2>1 DEF TitlesTyped
<1>7. Typed'
  <2>1. log' \in [Titles -> Seq(SUBSET (Fields \cup {"status"}))]
    BY <1>1, <1>2 DEF Typed, TypeOK, Request
  <2>2. saved' \in Nat /\ marks' \subseteq Held' /\ lock' \in [Rows -> Calls \cup {None}]
    BY <1>1, <1>2, <1>3 DEF Typed, TypeOK, KeepsLocks
  <2>3. TypeOK'
    BY <1>3, <1>6, <2>1, <2>2 DEF TypeOK
  <2> QED BY <1>1, <1>2, <1>3, <2>3 DEF Typed
<1>8. OneTitlePerISBN'
  <2>1. ASSUME NEW u \in Held, u # t, NewNumber(c) \in ISBNs
        PROVE  Card(u)["isbn13"] # NewNumber(c)
    BY <1>1, <2>1, NumberIsFree
  <2>2. Held \subseteq Titles
    BY DEF Held
  <2>3. ASSUME NEW u \in Held', NEW v \in Held', u # v, Card(u)'["isbn13"] \in ISBNs
        PROVE  Card(u)'["isbn13"] # Card(v)'["isbn13"]
    <3>1. CASE u = t
      <4>1. v \in Held /\ Card(v)' = Card(v)
        BY <1>1, <1>5, <2>2, <2>3, <3>1
      <4> QED BY <1>1, <1>4, <2>1, <2>3, <3>1, <4>1 DEF Card
    <3>2. CASE v = t
      <4>1. u \in Held /\ Card(u)' = Card(u)
        BY <1>1, <1>5, <2>2, <2>3, <3>2
      <4> QED BY <1>1, <1>4, <2>1, <2>3, <3>2, <4>1 DEF Card
    <3>3. CASE u # t /\ v # t
      <4>1. u \in Held /\ Card(u)' = Card(u) /\ v \in Held /\ Card(v)' = Card(v)
        BY <1>1, <1>5, <2>2, <3>3
      <4> QED BY <1>2, <2>3, <4>1 DEF OneTitlePerISBN
    <3> QED BY <3>1, <3>2, <3>3
  <2> QED BY <2>3 DEF OneTitlePerISBN
<1>9. SavedWithinLimit'
  BY <1>1, <1>2 DEF SavedWithinLimit
<1>10. \A d \in Calls : CallInv(d)'
  BY <1>3, CommitLeavesOthers
<1> QED BY <1>7, <1>8, <1>9, <1>10 DEF ShelfInv

-----------------------------------------------------------------------------
(* The shelf is empty at first, and every step keeps it in order. *)

LEMMA ShelfAtFirst == Init => ShelfInv
<1> SUFFICES ASSUME Init PROVE ShelfInv
  OBVIOUS
<1>1. /\ books = [t \in Titles |-> NoBook] /\ log = [t \in Titles |-> <<>>] /\ saved = 0
      /\ marks = {} /\ pc = [c \in Calls |-> "idle"] /\ req = [c \in Calls |-> NoReq]
      /\ lock = [row \in Rows |-> None]
  BY DEF Init
<1>2. Held = {} /\ \A t \in Titles : books[t].status = "none" /\ Card(t) = NoCard
  BY <1>1 DEF Held, NoBook, Card
<1>3. NoBook \in Book
  BY CardsAreTyped DEF Book, NoBook, Statuses
<1>4. TitlesTyped
  BY <1>2, CardsAreTyped DEF TitlesTyped
<1>5. CallsTyped
  BY <1>1 DEF CallsTyped, NoReq, Labels
<1>6. log \in [Titles -> Seq(SUBSET (Fields \cup {"status"}))]
  BY <1>1
<1>7. Typed
  <2>1. TypeOK
    BY <1>1, <1>4, <1>5, <1>6, ShelfAssumption DEF TypeOK
  <2> QED BY <1>1, <1>3, <2>1, NoReqIsRequest DEF Typed
<1>8. OneTitlePerISBN /\ SavedWithinLimit
  BY <1>1, <1>2, ShelfAssumption DEF OneTitlePerISBN, SavedWithinLimit
<1>9. ASSUME NEW c \in Calls
      PROVE  CallInv(c)
  <2>1. pc[c] = "idle" /\ req[c].op = "none" /\ None \notin Calls
    BY <1>1, ShelfAssumption DEF NoReq
  <2>2. \A h \in Subjects : lock[h] # c
    BY <1>1, <2>1, RowsDiffer
  <2> QED BY <2>1, <2>2 DEF CallInv, Asked, Owner, Claim, InOrder, Counted
<1> QED BY <1>7, <1>8, <1>9 DEF ShelfInv

LEMMA ShelfKept == ShelfInv /\ [Next]_vars => ShelfInv'
<1> SUFFICES ASSUME ShelfInv, [Next]_vars PROVE ShelfInv'
  OBVIOUS
<1>1. ASSUME NEW c \in Calls, Step(c)
      PROVE  ShelfInv'
  <2>1. CASE CreateBook(c) \/ InsertBook(c) \/ FindByISBN(c)
    BY <2>1, CreateBookKeeps, InsertBookKeeps, FindByISBNKeeps
  <2>2. CASE LinkAuthor(c) \/ LinkSubject(c) \/ CommitBook(c)
    BY <2>2, LinkAuthorKeeps, LinkSubjectKeeps, CommitBookKeeps
  <2>3. CASE StartEdit(c) \/ LockBook(c) \/ UpdateBook(c)
    BY <2>3, StartEditKeeps, LockBookKeeps, UpdateBookKeeps
  <2>4. CASE Search(c) \/ bookPage(c) \/ ListBookmarks(c) \/ PageBookmarks(c)
    BY <2>4, SearchKeeps, bookPageKeeps, ListBookmarksKeeps, PageBookmarksKeeps
  <2>5. CASE CreateSearch(c) \/ LockMember(c) \/ CountSearches(c) \/ InsertSearch(c)
    BY <2>5, CreateSearchKeeps, LockMemberKeeps, CountSearchesKeeps, InsertSearchKeeps
  <2>6. CASE End(c)
    BY <2>6, EndKeeps
  <2> QED BY <1>1, <2>1, <2>2, <2>3, <2>4, <2>5, <2>6 DEF Step
<1>2. ASSUME NEW t \in Titles, ArchiveBook(t) \/ AddBookmark(t) \/ RemoveBookmark(t)
      PROVE  ShelfInv'
  BY <1>2, ArchiveBookKeeps, AddBookmarkKeeps, RemoveBookmarkKeeps
<1>3. CASE DeleteSearch
  BY <1>3, DeleteSearchKeeps
<1>4. CASE UNCHANGED vars
  <2>1. UNCHANGED <<books, log, pc, req, lock>> /\ marks' = marks /\ saved' = saved
    BY <1>4 DEF vars, tables
  <2>2. marks' \subseteq Held /\ saved' \in Nat /\ saved' <= saved
    BY <2>1 DEF ShelfInv, Typed, TypeOK
  <2> QED BY <2>1, <2>2, ListsKeep
<1> QED BY <1>1, <1>2, <1>3, <1>4 DEF Next

LEMMA ShelfInOrder == Spec => []ShelfInv
<1>1. Init => ShelfInv
  BY ShelfAtFirst
<1>2. ShelfInv /\ [Next]_vars => ShelfInv'
  BY ShelfKept
<1> QED BY <1>1, <1>2, PTL DEF Spec

-----------------------------------------------------------------------------
(* The theorems. *)

(* Every column, lock and call keeps its type, and no title misses a column *)
(* (book_edit_repo.go, UpdateBook: "preserving omitted fields").            *)
THEOREM ShelfTypesKept == Spec => []TypeOK
<1>1. ShelfInv => TypeOK
  BY DEF ShelfInv, Typed
<1> QED BY <1>1, ShelfInOrder, PTL

(* One ISBN is one title, however creates and edits of the number interleave *)
(* (catalogue_repo.go, CreateBook; books_isbn13_unique).                     *)
THEOREM OneTitleKept == Spec => []OneTitlePerISBN
<1>1. ShelfInv => OneTitlePerISBN
  BY DEF ShelfInv
<1> QED BY <1>1, ShelfInOrder, PTL

(* No number of taps saves more searches than the limit (saved_search_repo.go, *)
(* Create, which counts under the member's lock).                             *)
THEOREM SavedLimitKept == Spec => []SavedWithinLimit
<1>1. ShelfInv => SavedWithinLimit
  BY DEF ShelfInv
<1> QED BY <1>1, ShelfInOrder, PTL

(* A search lists as many titles as it counts (catalogue_repo.go, Search). *)
THEOREM PageKept == Spec => []PageAgreesWithCount
<1>1. ShelfInv => PageAgreesWithCount
  BY DEF ShelfInv, CallInv, Asked, PageAgreesWithCount
<1> QED BY <1>1, ShelfInOrder, PTL

(* No two transactions wait for each other's headings, whatever the headings *)
(* of their titles (catalogue_repo.go, linkSubjects, in the order that        *)
(* book_metadata.go sorts them).                                             *)
THEOREM NoHeadingDeadlock == Spec => []HeadingsDoNotDeadlock
<1>1. ASSUME ShelfInv
      PROVE  HeadingsDoNotDeadlock
  <2>1. SUFFICES ASSUME NEW c \in Calls, NEW d \in Calls, NEW s \in Subjects, NEW h \in Subjects,
                        WaitsFor(c, s), lock[s] = d, WaitsFor(d, h), lock[h] = c
                 PROVE  FALSE
    BY DEF HeadingsDoNotDeadlock
  <2>2. InOrder(c) /\ InOrder(d)
    BY <1>1 DEF ShelfInv, CallInv
  <2>3. s \in req[c].headings /\ h \in req[d].headings
    BY <2>1 DEF WaitsFor, FirstOf
  <2>4. h < s /\ s < h
    BY <2>1, <2>2, <2>3 DEF InOrder
  <2>5. s \in Int /\ h \in Int
    BY ShelfAssumption
  <2> QED BY <2>4, <2>5
<1> QED BY <1>1, ShelfInOrder, PTL

(* The other calls go nowhere while one steps. *)
LEMMA StepIsOne ==
  ASSUME ShelfInv, NEW c \in Calls, NEW d \in Calls, d # c, Step(d)
  PROVE  pc'[c] = pc[c]
<1>1. pc \in [Calls -> Labels]
  BY CallFacts DEF Typed, TypeOK, CallsTyped
<1>2. pc' = pc \/ \E label : Goto(d, label)
  <2>1. CASE CreateBook(d) \/ InsertBook(d) \/ FindByISBN(d) \/ LinkAuthor(d) \/ LinkSubject(d)
    BY <2>1 DEF CreateBook, InsertBook, FindByISBN, LinkAuthor, LinkSubject, Begin
  <2>2. CASE CommitBook(d) \/ StartEdit(d) \/ LockBook(d) \/ UpdateBook(d)
    BY <2>2 DEF CommitBook, StartEdit, LockBook, UpdateBook, Begin, Answer
  <2>3. CASE Search(d) \/ bookPage(d) \/ CreateSearch(d) \/ LockMember(d) \/ CountSearches(d)
    BY <2>3 DEF Search, bookPage, CreateSearch, LockMember, CountSearches, Begin
  <2>4. CASE InsertSearch(d) \/ ListBookmarks(d) \/ PageBookmarks(d) \/ End(d)
    BY <2>4 DEF InsertSearch, ListBookmarks, PageBookmarks, End, Begin, Answer
  <2> QED BY <2>1, <2>2, <2>3, <2>4 DEF Step
<1> QED BY <1>1, <1>2 DEF Goto

(* An edit is answered when its row is locked and it changes nothing, or when *)
(* it commits.                                                                *)
LEMMA EditsAnswer ==
  ASSUME ShelfInv, NEW c \in Calls, Step(c), req[c].op = "edit", pc'[c] = "answer", pc[c] # "answer"
  PROVE  LockBook(c) \/ CommitBook(c)
<1>1. Asked(c) /\ \A label : [pc EXCEPT ![c] = label][c] = label
  BY CallFacts DEF CallInv
<1>2. CASE CreateBook(c) \/ StartEdit(c) \/ Search(c) \/ CreateSearch(c) \/ ListBookmarks(c)
  BY <1>1, <1>2 DEF CreateBook, StartEdit, Search, CreateSearch, ListBookmarks, Begin, Goto
<1>3. CASE InsertBook(c) \/ FindByISBN(c) \/ InsertSearch(c)
  BY <1>1, <1>3 DEF Asked, InsertBook, FindByISBN, InsertSearch, At
<1>4. CASE LinkAuthor(c) \/ LinkSubject(c)
  BY <1>4 DEF LinkAuthor, LinkSubject
<1>5. CASE UpdateBook(c) \/ LockMember(c) \/ CountSearches(c) \/ End(c)
  BY <1>1, <1>5 DEF UpdateBook, LockMember, CountSearches, End, Goto
<1>6. CASE bookPage(c) \/ PageBookmarks(c)
  BY <1>6 DEF bookPage, PageBookmarks
<1> QED BY <1>2, <1>3, <1>4, <1>5, <1>6 DEF Step

Applied(c) ==
  LET t == req[c].title
      now == Patched(Card(t), req[c].card)
      changed == {f \in Fields : now[f] # Card(t)[f]}
  IN  /\ books'[t].card = now
      /\ log'[t] = IF changed = {} THEN log[t] ELSE Append(log[t], changed)

LEMMA EditIsApplied ==
  ASSUME ShelfInv, NEW c \in Calls, req[c].op = "edit", pc'[c] = "answer", pc[c] # "answer",
         LockBook(c) \/ CommitBook(c)
  PROVE  Applied(c)
<1> DEFINE t == req[c].title
           now == Patched(Card(t), req[c].card)
<1>1. /\ CallInv(c) /\ books \in [Titles -> Book]
      /\ log \in [Titles -> Seq(SUBSET (Fields \cup {"status"}))]
  BY CallFacts DEF Typed, TypeOK
<1>2. pc[c] \in {"edit", "names"} /\ t \in Titles
  BY <1>1 DEF LockBook, CommitBook, At, CallInv, Asked, Held
<1>3. Card(t) \in [Fields -> UNION {Values(f) : f \in Fields}]
  BY <1>1, <1>2 DEF Book, Card
<1>4. {f \in Fields : now[f] # Card(t)[f]} = Changed(Card(t), req[c].card)
  BY DEF Patched, Changed
<1>5. CASE LockBook(c)
  <2>1. pc' # [pc EXCEPT ![c] = "write"]
    BY CallFacts
  <2>2. Changed(Card(t), req[c].card) = {} /\ UNCHANGED tables
    BY <1>5, <2>1 DEF LockBook, ReadLocked, Goto
  <2>3. \A f \in Fields : now[f] = Card(t)[f]
    BY <1>4, <2>2
  <2>4. now = Card(t)
    BY <1>3, <2>3 DEF Patched
  <2>5. books'[t].card = Card(t) /\ log'[t] = log[t]
    BY <2>2 DEF tables, Card
  <2> QED BY <1>4, <2>2, <2>4, <2>5 DEF Applied
<1>6. CASE CommitBook(c)
  <2>1. /\ pc[c] = "names" /\ books'[t].card = NewCard(c)
        /\ log' = [log EXCEPT ![t] = Append(@, req[c].changed)]
    BY <1>6, Committed
  <2>2. req[c].changed = Changed(Card(t), req[c].card) /\ req[c].changed # {}
    BY <1>1, <2>1 DEF CallInv, Owner
  <2>3. NewCard(c) = now
    BY <1>3, <2>2, WrittenIsPatched DEF NewCard
  <2>4. log'[t] = Append(log[t], req[c].changed)
    BY <1>1, <1>2, <2>1
  <2> QED BY <1>4, <2>1, <2>2, <2>3, <2>4 DEF Applied
<1> QED BY <1>5, <1>6

(* An edit that is answered has put what it supplied into the title as it    *)
(* stood then, left the rest alone, and been logged with exactly the fields  *)
(* it changed (book_edit_repo.go, UpdateBook).                               *)
THEOREM EditsKept == Spec => EditsAreAppliedAndLogged
<1>1. ASSUME ShelfInv, [Next]_vars, NEW c \in Calls,
             req[c].op = "edit", pc[c] # "answer", pc'[c] = "answer"
      PROVE  Applied(c)
  <2>1. pc' # pc
    BY <1>1
  <2>2. PICK d \in Calls : Step(d)
    BY <1>1, <2>1 DEF Next, ArchiveBook, AddBookmark, RemoveBookmark, DeleteSearch, vars
  <2>3. d = c
    BY <1>1, <2>2, StepIsOne
  <2> QED BY <1>1, <2>2, <2>3, EditsAnswer, EditIsApplied
<1>2. ShelfInv /\ [Next]_vars =>
        [\A c \in Calls :
           req[c].op = "edit" /\ ~ At(c, "answer") /\ pc'[c] = "answer" =>
             LET t == req[c].title
                 now == Patched(Card(t), req[c].card)
                 changed == {f \in Fields : now[f] # Card(t)[f]}
             IN  /\ books'[t].card = now
                 /\ log'[t] = IF changed = {} THEN log[t] ELSE Append(log[t], changed)]_vars
  BY <1>1 DEF At, Applied
<1> QED BY <1>2, ShelfInOrder, PTL DEF Spec, EditsAreAppliedAndLogged
=============================================================================
