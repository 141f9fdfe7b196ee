-------------------------- MODULE EnrolmentProofs --------------------------
(***************************************************************************)
(* Enrolment adds up and creates nobody twice, for any number of calls,     *)
(* identifiers and spreadsheets of any length.                              *)
(*                                                                         *)
(* A job has seen every student its rows reported as new (JobInv), and an    *)
(* account whose creation is under way belongs to one call and has not been  *)
(* counted yet (Underway).                                                  *)
(***************************************************************************)
EXTENDS Enrolment, FiniteSetTheorems, SequenceTheorems, TLAPS

Outcomes == {"created", "valid", "duplicate", "invalid", "pending"}
Fresh == {"created", "valid", "pending"}
Counts == [valid : Nat, created : Nat, duplicate : Nat, invalid : Nat]
Job == [lines : Seq(Line), dry : BOOLEAN, seen : SUBSET {Student[i] : i \in Ids},
        rows : Seq(Outcomes), counts : Counts]

Labels == {"idle", "read", "insert", "link", "queue"}
Writing == {"insert", "link", "queue"}
Creating(c) == pc[c] \in {"link", "queue"}

NextLine(j) == j.lines[Len(j.rows) + 1]

(* The rows of a job that were reported as new. *)
FreshRows(j) == {k \in DOMAIN j.rows : j.rows[k] \in Fresh}

Distinct(j) ==
  \A k, l \in FreshRows(j) : k # l => Student[j.lines[k].id] # Student[j.lines[l].id]

RowsSeen(j) == \A k \in FreshRows(j) : Student[j.lines[k].id] \in j.seen

(* The next line is of a student the job has seen, and not among those rows. *)
NextIsFresh(j) ==
  /\ Student[NextLine(j).id] \in j.seen
  /\ \A k \in FreshRows(j) : Student[j.lines[k].id] # Student[NextLine(j).id]

(* The counts are those of the rows, and a preview has created none. *)
NumberOf(rows, outcome) == Cardinality({k \in DOMAIN rows : rows[k] = outcome})

AddsUp(j) ==
  /\ j.counts.created = NumberOf(j.rows, "created")
  /\ j.counts.valid = NumberOf(j.rows, "valid") + NumberOf(j.rows, "created")
  /\ j.counts.duplicate = NumberOf(j.rows, "duplicate")
  /\ j.counts.invalid = NumberOf(j.rows, "invalid")
  /\ j.dry => j.counts.created = 0

(* A job at a label of the call that works through it. *)
JobInv(j, label) ==
  /\ j \in Job /\ label \in Labels /\ Len(j.rows) <= Len(j.lines)
  /\ Distinct(j) /\ RowsSeen(j) /\ AddsUp(j)
  /\ label \in Writing => Len(j.rows) < Len(j.lines) /\ ~ j.dry /\ NextIsFresh(j)

TypeOK ==
  /\ roll \in [Ids -> Emails \cup {None}]
  /\ setup \in [Ids -> {"none", "saved", "queued"}]
  /\ pc \in [Calls -> Labels]
  /\ job \in [Calls -> Job]
  /\ credited \in [Ids -> Nat]

Underway ==
  /\ \A c \in Calls : Creating(c) => /\ Current(c).id \in Taken
                                     /\ credited[Current(c).id] = 0
  /\ \A c, d \in Calls : c # d /\ Creating(c) /\ Creating(d) => Current(c).id # Current(d).id
  /\ \A i \in Ids : i \notin Taken => credited[i] = 0

EnrolmentInv ==
  /\ TypeOK /\ Underway /\ CreatedOnceAndInvited
  /\ \A c \in Calls : JobInv(job[c], pc[c])

-----------------------------------------------------------------------------
(* Lemmas about jobs. *)

(* One more outcome at the end of the rows. *)
LEMMA RecordIsJob ==
  ASSUME NEW j \in Job, NEW o \in Outcomes
  PROVE  LET r == Record(j, o)
         IN  /\ r \in Job
             /\ r.lines = j.lines /\ r.dry = j.dry /\ r.seen = j.seen
             /\ r.counts = Count(j.counts, o)
             /\ Len(r.rows) = Len(j.rows) + 1 /\ DOMAIN r.rows = 1 .. Len(j.rows) + 1
             /\ \A k \in 1 .. Len(j.rows) : r.rows[k] = j.rows[k]
             /\ r.rows[Len(j.rows) + 1] = o
<1> DEFINE r == Record(j, o)
<1>1. j.rows \in Seq(Outcomes) /\ j.counts \in Counts
  BY DEF Job
<1>2. r = [j EXCEPT !.rows = Append(@, o), !.counts = Count(@, o)]
  BY DEF Record
<1>3. Count(j.counts, o) \in Counts
  <2>1. CASE o = "created"
    <3>1. j.counts.created + 1 \in Nat /\ j.counts.valid + 1 \in Nat
      BY <1>1 DEF Counts
    <3>2. Count(j.counts, o) = [j.counts EXCEPT !.created = @ + 1, !.valid = @ + 1]
      BY <2>1 DEF Count
    <3> QED BY <1>1, <3>1, <3>2 DEF Counts
  <2>3. CASE o = "pending"
    BY <1>1, <2>3 DEF Count
  <2>2. CASE o \in {"valid", "duplicate", "invalid"}
    BY <1>1, <2>2 DEF Count, Counts
  <2> QED BY <2>1, <2>2, <2>3 DEF Outcomes
<1>4. /\ Append(j.rows, o) \in Seq(Outcomes) /\ Len(Append(j.rows, o)) = Len(j.rows) + 1
      /\ \A k \in 1 .. Len(j.rows) : Append(j.rows, o)[k] = j.rows[k]
      /\ Append(j.rows, o)[Len(j.rows) + 1] = o
  BY <1>1, AppendProperties
<1>5. r.rows = Append(j.rows, o) /\ r.counts = Count(j.counts, o)
  BY <1>2 DEF Job
<1>6. r \in Job
  BY <1>2, <1>3, <1>4 DEF Job
<1>7. r.lines = j.lines /\ r.dry = j.dry /\ r.seen = j.seen
  BY <1>2 DEF Job
<1>8. DOMAIN r.rows = 1 .. Len(j.rows) + 1
  BY <1>4, <1>5
<1> QED BY <1>4, <1>5, <1>6, <1>7, <1>8

(* A number of rows with an outcome is a natural number. *)
LEMMA NumberIsNat ==
  ASSUME NEW rows \in Seq(Outcomes), NEW o
  PROVE  NumberOf(rows, o) \in Nat
<1>1. Len(rows) \in Nat /\ DOMAIN rows = 1 .. Len(rows)
  OBVIOUS
<1>2. IsFiniteSet(1 .. Len(rows))
  BY <1>1, FS_Interval
<1>3. {k \in DOMAIN rows : rows[k] = o} \subseteq 1 .. Len(rows)
  BY <1>1
<1>4. IsFiniteSet({k \in DOMAIN rows : rows[k] = o})
  BY <1>2, <1>3, FS_Subset
<1> QED BY <1>4, FS_CardinalityType DEF NumberOf

(* Sets with nothing in common add up. *)
LEMMA DisjointUnion ==
  ASSUME NEW S, NEW T, IsFiniteSet(S), IsFiniteSet(T), S \cap T = {}
  PROVE  Cardinality(S \cup T) = Cardinality(S) + Cardinality(T)
<1>1. Cardinality(S) \in Nat /\ Cardinality(T) \in Nat /\ Cardinality({}) = 0
  BY FS_CardinalityType, FS_EmptySet
<1>2. Cardinality(S \cup T) = Cardinality(S) + Cardinality(T) - Cardinality(S \cap T)
  BY FS_Union
<1>3. Cardinality(S \cap T) = 0
  BY <1>1, Zenon
<1> QED BY <1>1, <1>2, <1>3

(* A row more of one outcome is one more of that outcome only. *)
LEMMA NumberRecorded ==
  ASSUME NEW j \in Job, NEW o \in Outcomes, NEW q
  PROVE  NumberOf(Record(j, o).rows, q) = NumberOf(j.rows, q) + IF o = q THEN 1 ELSE 0
<1> DEFINE n == Len(j.rows)
           before == {k \in DOMAIN j.rows : j.rows[k] = q}
           after == {k \in DOMAIN Record(j, o).rows : Record(j, o).rows[k] = q}
<1>1. j.rows \in Seq(Outcomes) /\ n \in Nat /\ DOMAIN j.rows = 1 .. n
  BY DEF Job
<1>2. /\ DOMAIN Record(j, o).rows = 1 .. n + 1
      /\ \A k \in 1 .. n : Record(j, o).rows[k] = j.rows[k]
      /\ Record(j, o).rows[n + 1] = o
  BY RecordIsJob
<1>3. IsFiniteSet(before) /\ n + 1 \notin before /\ Cardinality(before) \in Nat
  <2>1. IsFiniteSet(1 .. n)
    BY <1>1, FS_Interval
  <2>2. before \subseteq 1 .. n /\ n + 1 \notin 1 .. n
    BY <1>1
  <2>3. IsFiniteSet(before)
    BY <2>1, <2>2, FS_Subset
  <2> QED BY <2>2, <2>3, FS_CardinalityType
<1>4. 1 .. n + 1 = (1 .. n) \cup {n + 1} /\ n + 1 \notin 1 .. n
  BY <1>1
<1> HIDE DEF n
<1>5. CASE o = q
  <2>1. after = before \cup {n + 1}
    BY <1>1, <1>2, <1>4, <1>5
  <2>2. Cardinality(before \cup {n + 1}) = Cardinality(before) + 1
    BY <1>3, FS_AddElement
  <2>3. Cardinality(after) = Cardinality(before) + 1
    BY <2>1, <2>2
  <2> QED BY <1>5, <2>3 DEF NumberOf
<1>6. CASE o # q
  <2>1. after = before
    BY <1>1, <1>2, <1>4, <1>6
  <2>2. Cardinality(after) = Cardinality(before) + 0
    <3> HIDE DEF before, after
    <3> QED BY <1>3, <2>1
  <2> QED BY <1>6, <2>2 DEF NumberOf
<1> QED BY <1>5, <1>6

(* Reporting a row keeps the counts those of the rows. *)
LEMMA RecordAddsUp ==
  ASSUME NEW j \in Job, NEW o \in {"created", "duplicate", "invalid", "pending"}, AddsUp(j),
         j.dry => o # "created"
  PROVE  AddsUp(Record(j, o))
<1> DEFINE r == Record(j, o)
<1>1. j.counts \in Counts /\ j.rows \in Seq(Outcomes) /\ o \in Outcomes
  BY DEF Job, Outcomes
<1>2. r.counts = Count(j.counts, o) /\ r.dry = j.dry
  BY <1>1, RecordIsJob
<1>3. \A q \in Outcomes : /\ NumberOf(r.rows, q) = NumberOf(j.rows, q) + IF o = q THEN 1 ELSE 0
                          /\ NumberOf(j.rows, q) \in Nat
  BY <1>1, NumberRecorded, NumberIsNat
<1>4. {"created", "valid", "duplicate", "invalid"} \subseteq Outcomes
  BY DEF Outcomes
<1> HIDE DEF r
<1>5. CASE o = "created"
  <2>1. /\ r.counts.created = j.counts.created + 1 /\ r.counts.valid = j.counts.valid + 1
        /\ r.counts.duplicate = j.counts.duplicate /\ r.counts.invalid = j.counts.invalid
    BY <1>1, <1>2, <1>5 DEF Count, Counts
  <2> QED BY <1>2, <1>3, <1>4, <1>5, <2>1 DEF AddsUp, r
<1>6. CASE o = "duplicate"
  <2>1. /\ r.counts.created = j.counts.created /\ r.counts.valid = j.counts.valid
        /\ r.counts.duplicate = j.counts.duplicate + 1 /\ r.counts.invalid = j.counts.invalid
    BY <1>1, <1>2, <1>6 DEF Count, Counts
  <2> QED BY <1>2, <1>3, <1>4, <1>6, <2>1 DEF AddsUp, r
<1>7. CASE o = "invalid"
  <2>1. /\ r.counts.created = j.counts.created /\ r.counts.valid = j.counts.valid
        /\ r.counts.duplicate = j.counts.duplicate /\ r.counts.invalid = j.counts.invalid + 1
    BY <1>1, <1>2, <1>7 DEF Count, Counts
  <2> QED BY <1>2, <1>3, <1>4, <1>7, <2>1 DEF AddsUp, r
<1>8. CASE o = "pending"
  <2>1. r.counts = j.counts
    BY <1>2, <1>8 DEF Count
  <2> QED BY <1>2, <1>3, <1>4, <1>8, <2>1 DEF AddsUp, r
<1> QED BY <1>5, <1>6, <1>7, <1>8

(* Reporting the next line. *)
LEMMA RecordKeeps ==
  ASSUME NEW j, NEW l, JobInv(j, l), Len(j.rows) < Len(j.lines),
         NEW o \in {"created", "duplicate", "invalid", "pending"}, j.dry => o # "created",
         o \in Fresh => NextIsFresh(j)
  PROVE  JobInv(Record(j, o), "read")
<1> DEFINE r == Record(j, o)
           n == Len(j.rows)
<1>1. j \in Job /\ o \in Outcomes /\ n \in Nat /\ Len(j.lines) \in Nat /\ DOMAIN j.rows = 1 .. n
  BY DEF JobInv, Job, Outcomes
<1>2. /\ r \in Job /\ r.lines = j.lines /\ r.dry = j.dry /\ r.seen = j.seen
      /\ Len(r.rows) = n + 1 /\ DOMAIN r.rows = 1 .. n + 1
      /\ \A k \in 1 .. n : r.rows[k] = j.rows[k]
      /\ r.rows[n + 1] = o
  BY <1>1, RecordIsJob
<1>3. AddsUp(r)
  BY <1>1, RecordAddsUp DEF JobInv
<1> HIDE DEF r
<1>4. ASSUME NEW k \in FreshRows(r)
      PROVE  k \in FreshRows(j) \/ (k = n + 1 /\ o \in Fresh)
  BY <1>1, <1>2, <1>4 DEF FreshRows
<1>5. RowsSeen(r)
  <2> SUFFICES ASSUME NEW k \in FreshRows(r) PROVE Student[j.lines[k].id] \in j.seen
    BY <1>2 DEF RowsSeen
  <2> QED BY <1>4 DEF JobInv, RowsSeen, NextIsFresh, NextLine
<1>6. Distinct(r)
  <2> SUFFICES ASSUME NEW k \in FreshRows(r), NEW m \in FreshRows(r), k # m
               PROVE  Student[j.lines[k].id] # Student[j.lines[m].id]
    BY <1>2 DEF Distinct
  <2>1. CASE k \in FreshRows(j) /\ m \in FreshRows(j)
    BY <2>1 DEF JobInv, Distinct
  <2>2. CASE k \in FreshRows(j) /\ m = n + 1 /\ o \in Fresh
    BY <2>2 DEF NextIsFresh, NextLine
  <2>3. CASE m \in FreshRows(j) /\ k = n + 1 /\ o \in Fresh
    BY <2>3 DEF NextIsFresh, NextLine
  <2> QED BY <1>4, <2>1, <2>2, <2>3
<1>7. "read" \in Labels /\ "read" \notin Writing /\ Len(r.rows) <= Len(r.lines)
  BY <1>1, <1>2 DEF Labels, Writing
<1>8. JobInv(r, "read")
  BY <1>2, <1>3, <1>5, <1>6, <1>7 DEF JobInv
<1> QED BY <1>8 DEF r

(* A student the job had not seen. *)
LEMMA SeeKeeps ==
  ASSUME NEW j, JobInv(j, "read"), Len(j.rows) < Len(j.lines),
         Student[NextLine(j).id] \notin j.seen
  PROVE  LET s == See(j, NextLine(j).id)
         IN  /\ s.dry = j.dry /\ s.lines = j.lines /\ s.rows = j.rows
             /\ NextIsFresh(s) /\ JobInv(s, "read")
             /\ ~ j.dry => JobInv(s, "insert")
<1> DEFINE s == See(j, NextLine(j).id)
<1>1. j \in Job /\ Len(j.rows) \in Nat /\ Len(j.lines) \in Nat
  BY DEF JobInv, Job
<1>2. NextLine(j).id \in Ids
  <2>1. j.lines \in Seq(Line) /\ Len(j.rows) + 1 \in 1 .. Len(j.lines)
    BY <1>1 DEF Job
  <2>2. NextLine(j) \in Line
    BY <2>1 DEF NextLine
  <2> QED BY <2>2 DEF Line
<1>3. /\ s.dry = j.dry /\ s.lines = j.lines /\ s.rows = j.rows /\ s.counts = j.counts
      /\ s.seen = j.seen \cup {Student[NextLine(j).id]} /\ s \in Job
  BY <1>1, <1>2 DEF Job, See, Folded
<1> HIDE DEF s
<1>4. FreshRows(s) = FreshRows(j) /\ NextLine(s) = NextLine(j)
  BY <1>3 DEF FreshRows, NextLine
<1>5. Distinct(s) /\ RowsSeen(s) /\ AddsUp(s)
  BY <1>3, <1>4 DEF JobInv, Distinct, RowsSeen, AddsUp
<1>6. NextIsFresh(s)
  <2>1. \A k \in FreshRows(j) : Student[j.lines[k].id] \in j.seen
    BY DEF JobInv, RowsSeen
  <2> QED BY <1>3, <1>4, <2>1 DEF NextIsFresh
<1>7. /\ "read" \in Labels /\ "insert" \in Labels /\ "read" \notin Writing
      /\ Len(s.rows) < Len(s.lines) /\ Len(s.rows) <= Len(s.lines)
  BY <1>1, <1>3 DEF Labels, Writing
<1>8. JobInv(s, "read") /\ (~ j.dry => JobInv(s, "insert"))
  BY <1>3, <1>5, <1>6, <1>7 DEF JobInv
<1> QED BY <1>3, <1>6, <1>8 DEF s

(* The rows that waited for the preview's statement are settled. *)
Waiting(j) == {k \in DOMAIN j.rows : j.rows[k] = "pending"}
FoundOf(j) == {k \in Waiting(j) : Settle(j, k) = "duplicate"}
Settled(j) ==
  [j EXCEPT !.rows = [k \in DOMAIN j.rows |-> Settle(j, k)],
            !.counts = [j.counts EXCEPT
                          !.duplicate = @ + Cardinality(FoundOf(j)),
                          !.valid = @ + Cardinality(Waiting(j) \ FoundOf(j))]]

LEMMA SettleKeeps ==
  ASSUME NEW j, JobInv(j, "read")
  PROVE  JobInv(Settled(j), "read")
<1> DEFINE r == Settled(j)
           n == Len(j.rows)
           old(o) == {k \in DOMAIN j.rows : j.rows[k] = o}
           new(o) == {k \in DOMAIN j.rows : Settle(j, k) = o}
<1>1. j \in Job /\ j.rows \in Seq(Outcomes) /\ n \in Nat /\ DOMAIN j.rows = 1 .. n
      /\ j.counts \in Counts
  BY DEF JobInv, Job
<1>2. \A k \in DOMAIN j.rows :
        /\ j.rows[k] # "pending" => Settle(j, k) = j.rows[k]
        /\ j.rows[k] = "pending" => Settle(j, k) \in {"duplicate", "valid"}
        /\ Settle(j, k) \in Outcomes
  BY <1>1 DEF Settle, Outcomes
<1>3. /\ IsFiniteSet(FoundOf(j)) /\ IsFiniteSet(Waiting(j) \ FoundOf(j))
      /\ \A o : IsFiniteSet(old(o))
  <2>1. IsFiniteSet(1 .. n)
    <3> HIDE DEF n
    <3> QED BY <1>1, FS_Interval
  <2>2. FoundOf(j) \subseteq 1 .. n /\ Waiting(j) \ FoundOf(j) \subseteq 1 .. n
    BY <1>1 DEF FoundOf, Waiting
  <2>3. \A o : old(o) \subseteq 1 .. n
    BY <1>1
  <2> QED BY <2>1, <2>2, <2>3, FS_Subset
<1>4. /\ Cardinality(FoundOf(j)) \in Nat /\ Cardinality(Waiting(j) \ FoundOf(j)) \in Nat
      /\ \A o : Cardinality(old(o)) \in Nat
  BY <1>3, FS_CardinalityType
<1>5. [k \in DOMAIN j.rows |-> Settle(j, k)] \in Seq(Outcomes)
  BY <1>1, <1>2
<1>6. /\ r \in Job /\ r.lines = j.lines /\ r.dry = j.dry /\ r.seen = j.seen
      /\ r.rows = [k \in DOMAIN j.rows |-> Settle(j, k)]
      /\ r.counts.created = j.counts.created /\ r.counts.invalid = j.counts.invalid
      /\ r.counts.duplicate = j.counts.duplicate + Cardinality(FoundOf(j))
      /\ r.counts.valid = j.counts.valid + Cardinality(Waiting(j) \ FoundOf(j))
  <2> DEFINE found == Cardinality(FoundOf(j))
             others == Cardinality(Waiting(j) \ FoundOf(j))
             counts == [j.counts EXCEPT !.duplicate = @ + found, !.valid = @ + others]
  <2>1. /\ counts \in Counts
        /\ counts.created = j.counts.created /\ counts.invalid = j.counts.invalid
        /\ counts.duplicate = j.counts.duplicate + found
        /\ counts.valid = j.counts.valid + others
    <3>1. found \in Nat /\ others \in Nat
      BY <1>4
    <3>2. j.counts.duplicate + found \in Nat /\ j.counts.valid + others \in Nat
      BY <1>1, <3>1 DEF Counts
    <3> HIDE DEF found, others
    <3> QED BY <1>1, <3>2 DEF Counts
  <2>2. r = [j EXCEPT !.rows = [k \in DOMAIN j.rows |-> Settle(j, k)], !.counts = counts]
    BY DEF Settled
  <2> HIDE DEF counts
  <2>3. r \in Job
    BY <1>1, <1>5, <2>1, <2>2 DEF Job
  <2>4. r.lines = j.lines /\ r.dry = j.dry /\ r.seen = j.seen /\ r.counts = counts
        /\ r.rows = [k \in DOMAIN j.rows |-> Settle(j, k)]
    BY <1>1, <2>2 DEF Job
  <2> QED BY <2>1, <2>3, <2>4
<1> HIDE DEF r
<1>7. Len(r.rows) = n /\ DOMAIN r.rows = 1 .. n
  BY <1>1, <1>5, <1>6
<1>8. AddsUp(r)
  <2>1. \A o : NumberOf(r.rows, o) = Cardinality(new(o)) /\ NumberOf(j.rows, o) = Cardinality(old(o))
    <3>1. \A o : {k \in DOMAIN r.rows : r.rows[k] = o} = new(o)
      BY <1>1, <1>6, <1>7
    <3> QED BY <3>1 DEF NumberOf
  <2>2. new("created") = old("created") /\ new("invalid") = old("invalid")
    BY <1>2
  <2>3. /\ new("duplicate") = old("duplicate") \cup FoundOf(j)
        /\ old("duplicate") \cap FoundOf(j) = {}
    BY <1>2 DEF FoundOf, Waiting
  <2>4. /\ new("valid") = old("valid") \cup (Waiting(j) \ FoundOf(j))
        /\ old("valid") \cap (Waiting(j) \ FoundOf(j)) = {}
    BY <1>2 DEF FoundOf, Waiting
  <2> HIDE DEF old, new
  <2>5. Cardinality(new("duplicate")) = Cardinality(old("duplicate")) + Cardinality(FoundOf(j))
    BY <1>3, <2>3, DisjointUnion
  <2>6. Cardinality(new("valid"))
          = Cardinality(old("valid")) + Cardinality(Waiting(j) \ FoundOf(j))
    BY <1>3, <2>4, DisjointUnion
  <2>7. AddsUp(j)
    BY DEF JobInv
  <2>8. r.counts.created = NumberOf(r.rows, "created") /\ r.counts.invalid = NumberOf(r.rows, "invalid")
    BY <1>6, <2>1, <2>2, <2>7 DEF AddsUp
  <2>9. r.counts.duplicate = NumberOf(r.rows, "duplicate")
    BY <1>6, <2>1, <2>5, <2>7 DEF AddsUp
  <2>10. r.counts.valid = NumberOf(r.rows, "valid") + NumberOf(r.rows, "created")
    BY <1>4, <1>6, <2>1, <2>2, <2>6, <2>7 DEF AddsUp
  <2> QED BY <1>6, <2>7, <2>8, <2>9, <2>10 DEF AddsUp
<1>9. FreshRows(r) \subseteq FreshRows(j)
  BY <1>1, <1>2, <1>6, <1>7 DEF FreshRows, Fresh
<1>10. Distinct(r) /\ RowsSeen(r)
  BY <1>6, <1>9 DEF JobInv, Distinct, RowsSeen
<1>11. Len(r.rows) <= Len(r.lines) /\ "read" \in Labels /\ "read" \notin Writing
  BY <1>6, <1>7 DEF JobInv, Labels, Writing
<1>12. JobInv(r, "read")
  BY <1>6, <1>8, <1>10, <1>11 DEF JobInv
<1> QED BY <1>12 DEF r

-----------------------------------------------------------------------------
(* The steps of a call, as its job sees them. *)

LEMMA FirstJob ==
  ASSUME NEW lines \in Seq(Line), NEW dry \in BOOLEAN
  PROVE  /\ JobInv([NoJob EXCEPT !.lines = lines, !.dry = dry], "read")
         /\ JobInv(NoJob, "idle")
<1>1. ASSUME NEW j, NEW l \in {"read", "idle"}, j.rows = <<>>, j.counts = NoCounts,
             j.lines \in Seq(Line), j \in Job
      PROVE  JobInv(j, l)
  <2>1. DOMAIN j.rows = {} /\ Len(j.rows) = 0 /\ Len(j.rows) <= Len(j.lines)
    BY <1>1
  <2>2. FreshRows(j) = {}
    BY <2>1 DEF FreshRows
  <2>3. \A o : NumberOf(j.rows, o) = 0
    <3>1. \A o : {k \in DOMAIN j.rows : j.rows[k] = o} = {}
      BY <2>1
    <3> QED BY <3>1, FS_EmptySet DEF NumberOf
  <2>4. AddsUp(j)
    BY <1>1, <2>3 DEF AddsUp, NoCounts
  <2> QED BY <1>1, <2>1, <2>2, <2>4 DEF JobInv, Distinct, RowsSeen, Labels, Writing
<1>2. <<>> \in Seq(Outcomes) /\ <<>> \in Seq(Line) /\ NoCounts \in Counts
  BY DEF NoCounts, Counts
<1>3. NoJob \in Job /\ NoJob.rows = <<>> /\ NoJob.counts = NoCounts /\ NoJob.lines = <<>>
  BY <1>2 DEF NoJob, Job
<1> DEFINE b == [NoJob EXCEPT !.lines = lines, !.dry = dry]
<1>4. b \in Job /\ b.rows = <<>> /\ b.counts = NoCounts /\ b.lines = lines
  BY <1>2 DEF NoJob, Job
<1> HIDE DEF b
<1>5. JobInv(b, "read") /\ JobInv(NoJob, "idle")
  BY <1>1, <1>2, <1>3, <1>4
<1> QED BY <1>5 DEF b

(* The lines a call works through are those of a file or of the desk's form. *)
LEMMA BeginKeeps ==
  ASSUME EnrolmentInv, NEW c \in Calls, Create(c) \/ ImportCSV(c)
  PROVE  JobInv(job'[c], pc'[c]) /\ pc'[c] = "read"
<1>1. PICK lines \in Seq(Line), dry \in BOOLEAN : Begin(c, lines, dry)
  <2>1. CASE Create(c)
    <3>1. PICK i \in Ids, e \in Emails :
            Begin(c, <<[shape |-> "good", id |-> i, email |-> e]>>, FALSE)
      BY <2>1 DEF Create
    <3> DEFINE line == [shape |-> "good", id |-> i, email |-> e]
    <3>2. line \in Line
      BY DEF Line, Shapes
    <3> HIDE DEF line
    <3>3. <<line>> \in Seq(Line) /\ FALSE \in BOOLEAN
      BY <3>2
    <3>4. Begin(c, <<line>>, FALSE)
      BY <3>1 DEF line
    <3> QED BY <3>3, <3>4
  <2>2. CASE ImportCSV(c)
    <3>1. PICK f \in Files, dry \in BOOLEAN : Begin(c, f.lines, dry)
      BY <2>2 DEF ImportCSV
    <3>2. f \in File
      BY EnrolmentAssumption
    <3>3. f.lines \in Seq(Line)
      BY <3>2 DEF File
    <3> QED BY <3>1, <3>3
  <2> QED BY <2>1, <2>2
<1>2. /\ job'[c] = [NoJob EXCEPT !.lines = lines, !.dry = dry]
      /\ pc'[c] = "read"
  BY <1>1 DEF Begin, Goto, EnrolmentInv, TypeOK
<1> QED BY <1>2, FirstJob

LEMMA ReportKeeps ==
  ASSUME EnrolmentInv, NEW c \in Calls, NEW o \in {"created", "duplicate", "invalid"},
         Report(c, o), Len(job[c].rows) < Len(job[c].lines), job[c].dry => o # "created",
         o = "created" => NextIsFresh(job[c])
  PROVE  JobInv(job'[c], pc'[c]) /\ pc'[c] = "read"
<1>1. job'[c] = Record(job[c], o) /\ pc'[c] = "read"
  BY DEF Report, Goto, EnrolmentInv, TypeOK
<1>2. JobInv(job[c], pc[c])
  BY DEF EnrolmentInv
<1> QED BY <1>1, <1>2, RecordKeeps DEF Fresh

LEMMA ReadKeeps ==
  ASSUME EnrolmentInv, NEW c \in Calls, ReadRow(c)
  PROVE  JobInv(job'[c], pc'[c]) /\ pc'[c] \in {"read", "insert"}
<1> DEFINE j == job[c]
           s == See(j, NextLine(j).id)
<1>1. /\ JobInv(j, "read") /\ pc[c] = "read" /\ Len(j.rows) < Len(j.lines)
      /\ job \in [Calls -> Job] /\ pc \in [Calls -> Labels] /\ Current(c) = NextLine(j)
  BY DEF EnrolmentInv, TypeOK, ReadRow, At, AtEnd, JobInv, Job, Current, NextLine
<1>2. CASE ~ validateNewMember(Current(c))
  BY <1>1, <1>2, ReportKeeps DEF ReadRow
<1>3. CASE validateNewMember(Current(c)) /\ Folded(Current(c).id) \in j.seen
  BY <1>1, <1>3, ReportKeeps DEF ReadRow
<1>4. CASE validateNewMember(Current(c)) /\ Folded(Current(c).id) \notin j.seen
  <2>1. /\ s.dry = j.dry /\ s.lines = j.lines /\ s.rows = j.rows
        /\ NextIsFresh(s) /\ JobInv(s, "read")
        /\ ~ j.dry => JobInv(s, "insert")
    BY <1>1, <1>4, SeeKeeps DEF Folded
  <2>2. CASE j.dry
    <3>1. job' = [job EXCEPT ![c] = Record(s, "pending")] /\ pc' = pc
      BY <1>1, <1>4, <2>2 DEF ReadRow
    <3>2. job'[c] = Record(s, "pending") /\ pc'[c] = "read"
      BY <1>1, <3>1
    <3> HIDE DEF s
    <3> QED BY <1>1, <2>1, <3>2, RecordKeeps
  <2>3. CASE ~ j.dry
    <3>1. job' = [job EXCEPT ![c] = s] /\ pc' = [pc EXCEPT ![c] = "insert"]
      BY <1>1, <1>4, <2>3 DEF ReadRow, Goto
    <3>2. job'[c] = s /\ pc'[c] = "insert"
      BY <1>1, <3>1
    <3> HIDE DEF s
    <3> QED BY <2>1, <2>3, <3>2
  <2> QED BY <2>2, <2>3
<1> QED BY <1>2, <1>3, <1>4

(* At work on a line, the job stays; otherwise the line is reported. *)
LEMMA WriteKeeps ==
  ASSUME EnrolmentInv, NEW c \in Calls,
         \/ InsertUser(c) \/ SavePasswordReset(c) \/ QueueInvitation(c) \/ StatementFails(c)
  PROVE  JobInv(job'[c], pc'[c])
<1>1. /\ JobInv(job[c], pc[c]) /\ pc[c] \in Writing
      /\ job \in [Calls -> Job] /\ pc \in [Calls -> Labels]
      /\ Len(job[c].rows) < Len(job[c].lines) /\ ~ job[c].dry /\ NextIsFresh(job[c])
  BY DEF EnrolmentInv, TypeOK, InsertUser, SavePasswordReset, QueueInvitation,
         StatementFails, At, Writing, JobInv
<1>2. ASSUME job' = job, NEW l \in {"link", "queue"}, Goto(c, l)
      PROVE  JobInv(job'[c], pc'[c])
  <2>1. pc'[c] = l /\ l \in Labels
    BY <1>1, <1>2 DEF Goto, Labels
  <2> QED BY <1>1, <1>2, <2>1 DEF JobInv
<1>3. CASE InsertUser(c)
  BY <1>1, <1>2, <1>3, ReportKeeps DEF InsertUser
<1>4. CASE SavePasswordReset(c)
  BY <1>2, <1>4 DEF SavePasswordReset
<1>5. CASE QueueInvitation(c)
  BY <1>1, <1>5, ReportKeeps DEF QueueInvitation
<1>6. CASE StatementFails(c)
  BY <1>1, <1>6, ReportKeeps DEF StatementFails
<1> QED BY <1>3, <1>4, <1>5, <1>6

LEMMA PreviewKeeps ==
  ASSUME EnrolmentInv, NEW c \in Calls, Preview(c)
  PROVE  JobInv(job'[c], pc'[c]) /\ pc' = pc
<1> DEFINE j == job[c]
<1>1. /\ JobInv(j, "read") /\ pc[c] = "read" /\ pc' = pc
      /\ job \in [Calls -> Job]
  BY DEF EnrolmentInv, TypeOK, Preview, At
<1>2. job'[c] = Settled(j)
  BY <1>1 DEF Preview, Settled, FoundOf, Waiting
<1> QED BY <1>1, <1>2, SettleKeeps

(* The calls do not touch each other's jobs. *)
LEMMA OwnJob ==
  ASSUME TypeOK, NEW c \in Calls, Step(c)
  PROVE  /\ \A d \in Calls \ {c} : job'[d] = job[d] /\ pc'[d] = pc[d]
         /\ DOMAIN job' = Calls /\ DOMAIN pc' = Calls
         /\ job' = [d \in Calls |-> job'[d]] /\ pc' = [d \in Calls |-> pc'[d]]
<1>1. CASE Create(c) \/ ImportCSV(c)
  BY <1>1 DEF Create, ImportCSV, Begin, Goto, TypeOK
<1>2. CASE ReadRow(c)
  BY <1>2 DEF ReadRow, Report, Goto, TypeOK
<1>3. CASE InsertUser(c) \/ SavePasswordReset(c) \/ QueueInvitation(c) \/ StatementFails(c)
  BY <1>3 DEF InsertUser, SavePasswordReset, QueueInvitation, StatementFails, Report, Goto, TypeOK
<1>4. CASE Preview(c)
  BY <1>4 DEF Preview, TypeOK
<1>5. CASE Answer(c)
  BY <1>5 DEF Answer, Goto, TypeOK
<1> QED BY <1>1, <1>2, <1>3, <1>4, <1>5 DEF Step

LEMMA JobsKept ==
  ASSUME EnrolmentInv, NEW c \in Calls, Step(c)
  PROVE  \A d \in Calls : JobInv(job'[d], pc'[d])
<1>1. JobInv(job'[c], pc'[c])
  <2>1. CASE Answer(c)
    <3>1. job'[c] = NoJob /\ pc'[c] = "idle"
      BY <2>1 DEF Answer, Goto, EnrolmentInv, TypeOK
    <3>2. JobInv(NoJob, "idle")
      <4>1. <<>> \in Seq(Line) /\ FALSE \in BOOLEAN
        OBVIOUS
      <4> QED BY <4>1, FirstJob
    <3> QED BY <3>1, <3>2
  <2> QED BY <2>1, BeginKeeps, ReadKeeps, WriteKeeps, PreviewKeeps DEF Step
<1>2. TypeOK
  BY DEF EnrolmentInv
<1>3. \A d \in Calls \ {c} : job'[d] = job[d] /\ pc'[d] = pc[d]
  BY <1>2, OwnJob
<1> QED BY <1>1, <1>3 DEF EnrolmentInv

-----------------------------------------------------------------------------
(* The accounts. *)

LEMMA CurrentIsAnAccount ==
  ASSUME EnrolmentInv, NEW c \in Calls, pc[c] \in Writing
  PROVE  Current(c).id \in Ids /\ Current(c).email \in Emails
<1>1. /\ job[c].lines \in Seq(Line) /\ Len(job[c].rows) \in Nat
      /\ Len(job[c].rows) < Len(job[c].lines)
  BY DEF EnrolmentInv, JobInv, Job
<1>2. Len(job[c].rows) + 1 \in 1 .. Len(job[c].lines)
  BY <1>1
<1>3. Current(c) \in Line
  BY <1>1, <1>2 DEF Current
<1> QED BY <1>3 DEF Line

(* A call that ends up creating nobody leaves the accounts alone. *)
LEMMA AccountsRest ==
  ASSUME EnrolmentInv, NEW c \in Calls, UNCHANGED <<roll, setup, credited>>,
         pc'[c] \notin {"link", "queue"},
         \A d \in Calls \ {c} : job'[d] = job[d] /\ pc'[d] = pc[d]
  PROVE  Underway' /\ CreatedOnceAndInvited'
<1>1. \A d \in Calls : Creating(d)' => d # c /\ Creating(d) /\ Current(d)' = Current(d)
  BY DEF Creating, Current
<1>2. Taken' = Taken
  BY DEF Taken
<1> QED BY <1>1, <1>2 DEF EnrolmentInv, Underway, CreatedOnceAndInvited

LEMMA InsertIsNew ==
  ASSUME EnrolmentInv, NEW c \in Calls, InsertUser(c), ~ Conflict(Current(c))
  PROVE  Underway' /\ CreatedOnceAndInvited' /\ roll' \in [Ids -> Emails \cup {None}]
<1> DEFINE i == Current(c).id
<1>1. pc[c] = "insert" /\ roll \in [Ids -> Emails \cup {None}] /\ pc \in [Calls -> Labels]
  BY DEF InsertUser, At, EnrolmentInv, TypeOK
<1>2. i \in Ids /\ i \notin Taken /\ Current(c).email \in Emails /\ Current(c).email # None
  BY <1>1, CurrentIsAnAccount, EnrolmentAssumption DEF Conflict, Writing
<1>3. /\ roll' = [roll EXCEPT ![i] = Current(c).email] /\ Goto(c, "link")
      /\ UNCHANGED <<setup, job, credited>>
  BY DEF InsertUser
<1>4. Taken' = Taken \cup {i}
  BY <1>1, <1>2, <1>3 DEF Taken
<1>5. \A d \in Calls : Current(d)' = Current(d) /\ (d # c => pc'[d] = pc[d])
  BY <1>1, <1>3 DEF Current, Goto
<1>6. \A d \in Calls \ {c} : Creating(d) => Current(d).id # i /\ credited[Current(d).id] = 0
                                             /\ Current(d).id \in Taken
  BY <1>2 DEF EnrolmentInv, Underway
<1>7. credited[i] = 0
  BY <1>2 DEF EnrolmentInv, Underway
<1> HIDE DEF i
<1>8. \A d \in Calls : Creating(d)' => Current(d).id \in Taken' /\ credited[Current(d).id] = 0
  BY <1>4, <1>5, <1>6, <1>7 DEF Creating, i
<1>9. ASSUME NEW d \in Calls, NEW e \in Calls, d # e, Creating(d)', Creating(e)'
      PROVE  Current(d).id # Current(e).id
  <2>1. CASE d = c
    BY <1>5, <1>6, <1>9, <2>1 DEF Creating, i
  <2>2. CASE e = c
    BY <1>5, <1>6, <1>9, <2>2 DEF Creating, i
  <2>3. CASE d # c /\ e # c
    BY <1>5, <1>9, <2>3 DEF Creating, EnrolmentInv, Underway
  <2> QED BY <2>1, <2>2, <2>3
<1>10. Underway'
  BY <1>3, <1>4, <1>5, <1>8, <1>9 DEF EnrolmentInv, Underway
<1>11. CreatedOnceAndInvited'
  BY <1>3, <1>4 DEF EnrolmentInv, CreatedOnceAndInvited
<1> QED BY <1>1, <1>2, <1>3, <1>10, <1>11

LEMMA LinkIsSaved ==
  ASSUME EnrolmentInv, NEW c \in Calls, SavePasswordReset(c)
  PROVE  Underway' /\ CreatedOnceAndInvited' /\ setup' \in [Ids -> {"none", "saved", "queued"}]
<1>1. /\ pc[c] = "link" /\ setup \in [Ids -> {"none", "saved", "queued"}]
      /\ pc \in [Calls -> Labels]
      /\ setup' = [setup EXCEPT ![Current(c).id] = "saved"]
      /\ pc' = [pc EXCEPT ![c] = "queue"] /\ UNCHANGED <<roll, job, credited>>
  BY DEF SavePasswordReset, At, Goto, EnrolmentInv, TypeOK
<1>2. Current(c).id \in Ids /\ credited[Current(c).id] = 0
  BY <1>1, CurrentIsAnAccount DEF EnrolmentInv, Underway, Creating, Writing
<1>3. /\ Taken' = Taken
      /\ \A d \in Calls : Current(d)' = Current(d) /\ (Creating(d)' <=> Creating(d))
  BY <1>1 DEF Taken, Current, Creating
<1>4. Underway'
  BY <1>1, <1>3 DEF EnrolmentInv, Underway
<1>5. \A i \in Ids : credited[i] > 0 => setup'[i] = setup[i]
  BY <1>1, <1>2
<1>6. CreatedOnceAndInvited'
  BY <1>1, <1>3, <1>5 DEF EnrolmentInv, CreatedOnceAndInvited
<1> QED BY <1>1, <1>4, <1>6

LEMMA InvitationIsQueued ==
  ASSUME EnrolmentInv, NEW c \in Calls, QueueInvitation(c)
  PROVE  /\ Underway' /\ CreatedOnceAndInvited'
         /\ setup' \in [Ids -> {"none", "saved", "queued"}] /\ credited' \in [Ids -> Nat]
<1> DEFINE i == Current(c).id
<1>1. /\ pc[c] = "queue" /\ setup \in [Ids -> {"none", "saved", "queued"}]
      /\ pc \in [Calls -> Labels] /\ job \in [Calls -> Job] /\ credited \in [Ids -> Nat]
      /\ setup' = [setup EXCEPT ![i] = "queued"]
      /\ credited' = [credited EXCEPT ![i] = @ + 1]
      /\ Report(c, "created") /\ UNCHANGED roll
  BY DEF QueueInvitation, At, EnrolmentInv, TypeOK
<1>2. /\ i \in Ids /\ credited[i] = 0 /\ i \in Taken
      /\ \A d \in Calls \ {c} : Creating(d) => Current(d).id # i
  BY <1>1, CurrentIsAnAccount DEF EnrolmentInv, Underway, Creating, Writing
<1>3. /\ pc'[c] = "read" /\ Taken' = Taken
      /\ \A d \in Calls \ {c} : pc'[d] = pc[d] /\ job'[d] = job[d]
  BY <1>1 DEF Report, Goto, Taken
<1>4. \A d \in Calls : Creating(d)' => d # c /\ Creating(d) /\ Current(d)' = Current(d)
  BY <1>3 DEF Creating, Current
<1> HIDE DEF i
<1>5. \A k \in Ids : credited'[k] = IF k = i THEN 1 ELSE credited[k]
  BY <1>1, <1>2
<1>6. \A d \in Calls : Creating(d)' => /\ Current(d)'.id \in Taken'
                                       /\ credited'[Current(d)'.id] = 0
  <2> SUFFICES ASSUME NEW d \in Calls, Creating(d)'
               PROVE  Current(d).id \in Taken /\ credited'[Current(d).id] = 0
    BY <1>3, <1>4
  <2>1. d # c /\ Creating(d) /\ Current(d).id # i /\ Current(d).id \in Taken
        /\ credited[Current(d).id] = 0
    BY <1>2, <1>4 DEF EnrolmentInv, Underway
  <2>2. Current(d).id \in Ids
    BY <2>1 DEF Taken
  <2> QED BY <1>5, <2>1, <2>2
<1>7. Underway'
  BY <1>2, <1>3, <1>4, <1>5, <1>6 DEF EnrolmentInv, Underway
<1>8. CreatedOnceAndInvited'
  BY <1>1, <1>2, <1>3, <1>5 DEF EnrolmentInv, CreatedOnceAndInvited
<1>9. credited' \in [Ids -> Nat] /\ setup' \in [Ids -> {"none", "saved", "queued"}]
  BY <1>1, <1>2
<1> QED BY <1>7, <1>8, <1>9

-----------------------------------------------------------------------------
(* Enrolment. *)

LEMMA EnrolmentAtFirst == Init => EnrolmentInv
<1> SUFFICES ASSUME Init PROVE EnrolmentInv
  OBVIOUS
<1>1. JobInv(NoJob, "idle")
  <2>1. <<>> \in Seq(Line) /\ FALSE \in BOOLEAN
    OBVIOUS
  <2> QED BY <2>1, FirstJob
<1>2. NoJob \in Job
  BY <1>1 DEF JobInv
<1>3. TypeOK
  BY <1>2 DEF Init, TypeOK, Labels
<1>4. Underway /\ CreatedOnceAndInvited
  BY DEF Init, Underway, CreatedOnceAndInvited, Creating
<1>5. \A c \in Calls : JobInv(job[c], pc[c])
  BY <1>1 DEF Init
<1> QED BY <1>3, <1>4, <1>5 DEF EnrolmentInv

LEMMA EnrolmentKept == EnrolmentInv /\ [Next]_vars => EnrolmentInv'
<1>1. ASSUME EnrolmentInv, UNCHANGED vars
      PROVE  EnrolmentInv'
  BY <1>1 DEF EnrolmentInv, vars, TypeOK, Underway, CreatedOnceAndInvited, Creating, Current, Taken
<1>2. ASSUME EnrolmentInv, NEW c \in Calls, Step(c)
      PROVE  EnrolmentInv'
  <2>1. \A d \in Calls : JobInv(job'[d], pc'[d])
    BY <1>2, JobsKept
  <2>2. /\ \A d \in Calls \ {c} : job'[d] = job[d] /\ pc'[d] = pc[d]
        /\ job' = [d \in Calls |-> job'[d]] /\ pc' = [d \in Calls |-> pc'[d]]
    BY <1>2, OwnJob DEF EnrolmentInv
  <2>3. job' \in [Calls -> Job] /\ pc' \in [Calls -> Labels]
    BY <2>1, <2>2 DEF JobInv
  <2>4. /\ Underway' /\ CreatedOnceAndInvited' /\ roll' \in [Ids -> Emails \cup {None}]
        /\ setup' \in [Ids -> {"none", "saved", "queued"}] /\ credited' \in [Ids -> Nat]
    <3> DEFINE Rest == UNCHANGED <<roll, setup, credited>> /\ pc'[c] \notin {"link", "queue"}
    <3>1. CASE Rest
      BY <1>2, <2>2, <3>1, AccountsRest DEF EnrolmentInv, TypeOK
    <3>2. CASE Create(c) \/ ImportCSV(c)
      <4>1. UNCHANGED <<roll, setup, credited>>
        BY <3>2 DEF Create, ImportCSV, Begin
      <4> QED BY <1>2, <3>1, <3>2, <4>1, BeginKeeps
    <3>3. CASE ReadRow(c)
      <4>1. UNCHANGED <<roll, setup, credited>>
        BY <3>3 DEF ReadRow
      <4>2. pc'[c] \in {"read", "insert"}
        BY <1>2, <3>3, ReadKeeps
      <4> QED BY <3>1, <4>1, <4>2
    <3>4. CASE InsertUser(c)
      <4>1. CASE Conflict(Current(c))
        <5>1. Report(c, "duplicate") /\ UNCHANGED <<roll, setup, credited>>
          BY <3>4, <4>1 DEF InsertUser
        <5>2. pc'[c] = "read"
          BY <1>2, <5>1 DEF Report, Goto, EnrolmentInv, TypeOK
        <5> QED BY <3>1, <5>1, <5>2
      <4>2. CASE ~ Conflict(Current(c))
        <5>1. UNCHANGED <<setup, credited>>
          BY <3>4 DEF InsertUser
        <5> QED BY <1>2, <3>4, <4>2, <5>1, InsertIsNew DEF EnrolmentInv, TypeOK
      <4> QED BY <4>1, <4>2
    <3>5. CASE SavePasswordReset(c)
      <4>1. UNCHANGED <<roll, credited>>
        BY <3>5 DEF SavePasswordReset
      <4> QED BY <1>2, <3>5, <4>1, LinkIsSaved DEF EnrolmentInv, TypeOK
    <3>6. CASE QueueInvitation(c)
      <4>1. UNCHANGED roll
        BY <3>6 DEF QueueInvitation
      <4> QED BY <1>2, <3>6, <4>1, InvitationIsQueued DEF EnrolmentInv, TypeOK
    <3>7. CASE StatementFails(c)
      <4>1. UNCHANGED <<roll, setup, credited>> /\ pc'[c] = "read"
        BY <1>2, <3>7 DEF StatementFails, Report, Goto, EnrolmentInv, TypeOK
      <4> QED BY <3>1, <4>1
    <3>8. CASE Preview(c)
      <4>1. UNCHANGED <<roll, setup, credited>> /\ pc'[c] = "read"
        BY <3>8 DEF Preview, At
      <4> QED BY <3>1, <4>1
    <3>9. CASE Answer(c)
      <4>1. UNCHANGED <<roll, setup, credited>> /\ pc'[c] = "idle"
        BY <1>2, <3>9 DEF Answer, Goto, EnrolmentInv, TypeOK
      <4> QED BY <3>1, <4>1
    <3> HIDE DEF Rest
    <3> QED BY <1>2, <3>2, <3>3, <3>4, <3>5, <3>6, <3>7, <3>8, <3>9 DEF Step
  <2> QED BY <2>1, <2>3, <2>4 DEF EnrolmentInv, TypeOK
<1> QED BY <1>1, <1>2 DEF Next

LEMMA Enrolments == Spec => []EnrolmentInv
BY EnrolmentAtFirst, EnrolmentKept, PTL DEF Spec

-----------------------------------------------------------------------------
(* Of the rows an upload reports as new, no two are the same student, however *)
(* the file spells them and however long it is                               *)
(* (member_service.go, the seen identifiers of ImportCSV).                    *)
THEOREM RepeatsFound == Spec => []RepeatsAreFound
<1>1. ASSUME EnrolmentInv
      PROVE  RepeatsAreFound
  <2>1. \A c \in Calls : Distinct(job[c])
    BY <1>1 DEF EnrolmentInv, JobInv
  <2> QED BY <2>1 DEF Distinct, FreshRows, Fresh, RepeatsAreFound
<1> QED BY <1>1, Enrolments, PTL

(* The summary of an upload adds up, whatever fails in it, and a preview *)
(* reports nothing as created (member_service.go, ImportResult).         *)
THEOREM SummaryKept == Spec => []SummaryAddsUp
<1>1. EnrolmentInv => SummaryAddsUp
  BY DEF EnrolmentInv, JobInv, AddsUp, NumberOf, SummaryAddsUp, Reported
<1> QED BY <1>1, Enrolments, PTL

(* However many uploads and desks create the same account at once, it is *)
(* counted as created once, and then its invitation is queued            *)
(* (member_service.go, Create; the unique index on users.identifier).    *)
THEOREM CreatedOnce == Spec => []CreatedOnceAndInvited
<1>1. EnrolmentInv => CreatedOnceAndInvited
  BY DEF EnrolmentInv
<1> QED BY <1>1, Enrolments, PTL
=============================================================================
