----------------------------- MODULE Enrolment -----------------------------
(***************************************************************************)
(* Enrolment: members registered at the desk one by one, or imported from a *)
(* spreadsheet, by several members of staff at once.                        *)
(*                                                                         *)
(* An account is known by its identifier as it was spelled.  Inserting it,  *)
(* saving its setup link and queueing the invitation are three statements.  *)
(***************************************************************************)
EXTENDS Naturals, Sequences, FiniteSets

CONSTANTS
  Calls,     \* bound: requests under way
  Ids,       \* identifiers, as they are spelled
  Student,   \* the identifier in lower case, by spelling
  Emails,
  Files,     \* bound: the spreadsheets uploaded
  Faults,    \* bound: whether statements fail in this instance
  None

Fields == {"identifier", "email", "full_name", "first_name"}
Shapes == {"good", "incomplete", "malformed"}
Line == [shape : Shapes, id : Ids, email : Emails]
File == [columns : SUBSET Fields, lines : Seq(Line)]

ASSUME EnrolmentAssumption ==
  /\ Files \subseteq File
  /\ Faults \in BOOLEAN
  /\ None \notin Emails

VARIABLES
  roll,      \* users: the email of each identifier that has an account
  setup,     \* the setup link of an account: none, saved, or queued as well
  pc,
  job,       \* the upload each call works through
  credited   \* history: how many calls counted the account as created

vars == <<roll, setup, pc, job, credited>>

NoCounts == [valid |-> 0, created |-> 0, duplicate |-> 0, invalid |-> 0]
NoJob == [lines |-> <<>>, dry |-> FALSE, seen |-> {}, rows |-> <<>>, counts |-> NoCounts]

Taken == {i \in Ids : roll[i] # None}

At(c, label) == pc[c] = label
Goto(c, label) == pc' = [pc EXCEPT ![c] = label]

(* The line being read is the one after those that have an outcome. *)
Current(c) == job[c].lines[Len(job[c].rows) + 1]
AtEnd(c) == Len(job[c].rows) = Len(job[c].lines)

(* Mutant: a row that is created is not counted as valid. *)
Uncounted(counts, outcome) == [counts EXCEPT ![outcome] = @ + 1]
Count(counts, outcome) ==
  IF outcome = "created" THEN [counts EXCEPT !.created = @ + 1, !.valid = @ + 1]
  ELSE IF outcome = "pending" THEN counts
  ELSE [counts EXCEPT ![outcome] = @ + 1]

Record(j, outcome) == [j EXCEPT !.rows = Append(@, outcome), !.counts = Count(@, outcome)]

(* The row is reported, and the next one is read. *)
Report(c, outcome) ==
  /\ job' = [job EXCEPT ![c] = Record(@, outcome)]
  /\ Goto(c, "read")

-----------------------------------------------------------------------------
(* The desk registers one member; a spreadsheet needs its columns. *)

columnIndex(columns) ==
  /\ {"identifier", "email"} \subseteq columns
  /\ {"full_name", "first_name"} \cap columns # {}

Begin(c, lines, dry) ==
  /\ At(c, "idle")
  /\ job' = [job EXCEPT ![c] = [NoJob EXCEPT !.lines = lines, !.dry = dry]]
  /\ Goto(c, "read")
  /\ UNCHANGED <<roll, setup, credited>>

Create(c) ==
  \E i \in Ids, e \in Emails :
    Begin(c, <<[shape |-> "good", id |-> i, email |-> e]>>, FALSE)

ImportCSV(c) ==
  \E f \in Files, dry \in BOOLEAN : columnIndex(f.columns) /\ Begin(c, f.lines, dry)

(* Malformed for the reader, or refused by validateNewMember. *)
validateNewMember(line) == line.shape = "good"

(* Mutant: identifiers of the file are compared as they are spelled. *)
Spelled(id) == id
Folded(id) == Student[id]

See(j, id) == [j EXCEPT !.seen = @ \cup {Folded(id)}]

ReadRow(c) ==
  LET line == Current(c)
  IN  /\ At(c, "read") /\ ~ AtEnd(c)
      /\ IF ~ validateNewMember(line)
           THEN Report(c, "invalid")
         ELSE IF Folded(line.id) \in job[c].seen
           THEN Report(c, "duplicate")
         ELSE IF job[c].dry
           THEN /\ job' = [job EXCEPT ![c] = Record(See(@, line.id), "pending")]
                /\ UNCHANGED pc
         ELSE /\ job' = [job EXCEPT ![c] = See(@, line.id)]
              /\ Goto(c, "insert")
      /\ UNCHANGED <<roll, setup, credited>>

(* users.identifier and users.email are unique; mutant: only the email is. *)
EmailTaken(line) == \E i \in Ids : roll[i] = line.email
Conflict(line) == line.id \in Taken \/ EmailTaken(line)

InsertUser(c) ==
  LET line == Current(c)
  IN  /\ At(c, "insert")
      /\ IF Conflict(line)
           THEN Report(c, "duplicate") /\ UNCHANGED roll
           ELSE /\ roll' = [roll EXCEPT ![line.id] = line.email]
                /\ Goto(c, "link")
                /\ UNCHANGED job
      /\ UNCHANGED <<setup, credited>>

SavePasswordReset(c) ==
  /\ At(c, "link")
  /\ setup' = [setup EXCEPT ![Current(c).id] = "saved"]
  /\ Goto(c, "queue")
  /\ UNCHANGED <<roll, job, credited>>

QueueInvitation(c) ==
  /\ At(c, "queue")
  /\ setup' = [setup EXCEPT ![Current(c).id] = "queued"]
  /\ credited' = [credited EXCEPT ![Current(c).id] = @ + 1]
  /\ Report(c, "created")
  /\ UNCHANGED roll

(* A statement fails: the row is reported invalid, whatever it has written. *)
StatementFails(c) ==
  /\ Faults
  /\ pc[c] \in {"insert", "link", "queue"}
  /\ Report(c, "invalid")
  /\ UNCHANGED <<roll, setup, credited>>

(* ExistingIdentifiers compares in lower case. *)
Registered(id) == \E i \in Taken : Student[i] = Student[id]

Settle(j, k) == IF j.rows[k] # "pending" THEN j.rows[k]
                ELSE IF Registered(j.lines[k].id) THEN "duplicate" ELSE "valid"

(* The preview asks for all its rows in one statement. *)
Preview(c) ==
  LET j == job[c]
      waiting == {k \in DOMAIN j.rows : j.rows[k] = "pending"}
      found == {k \in waiting : Settle(j, k) = "duplicate"}
  IN  /\ At(c, "read") /\ AtEnd(c) /\ waiting # {}
      /\ job' = [job EXCEPT
                   ![c].rows = [k \in DOMAIN j.rows |-> Settle(j, k)],
                   ![c].counts = [j.counts EXCEPT
                                    !.duplicate = @ + Cardinality(found),
                                    !.valid = @ + Cardinality(waiting \ found)]]
      /\ UNCHANGED <<roll, setup, pc, credited>>

(* The answer, or the caller or the process is gone: what was inserted stays. *)
Answer(c) ==
  /\ ~ At(c, "idle")
  /\ Goto(c, "idle")
  /\ job' = [job EXCEPT ![c] = NoJob]
  /\ UNCHANGED <<roll, setup, credited>>

-----------------------------------------------------------------------------
Init ==
  /\ roll = [i \in Ids |-> None]
  /\ setup = [i \in Ids |-> "none"]
  /\ pc = [c \in Calls |-> "idle"]
  /\ job = [c \in Calls |-> NoJob]
  /\ credited = [i \in Ids |-> 0]

Step(c) ==
  \/ Create(c)           \/ ImportCSV(c)       \/ ReadRow(c)        \/ InsertUser(c)
  \/ SavePasswordReset(c) \/ QueueInvitation(c) \/ StatementFails(c) \/ Preview(c)
  \/ Answer(c)

Next == \E c \in Calls : Step(c)

Spec == Init /\ [][Next]_vars

-----------------------------------------------------------------------------
(* What enrolment promises. *)

Reported(c, outcome) == Cardinality({k \in DOMAIN job[c].rows : job[c].rows[k] = outcome})

(* "Every row's outcome is reported": the counts of a summary are those of its *)
(* rows, a created row is a valid one, and a preview creates none. *)
SummaryAddsUp ==
  \A c \in Calls :
    /\ job[c].counts.created = Reported(c, "created")
    /\ job[c].counts.valid = Reported(c, "valid") + Reported(c, "created")
    /\ job[c].counts.duplicate = Reported(c, "duplicate")
    /\ job[c].counts.invalid = Reported(c, "invalid")
    /\ job[c].dry => job[c].counts.created = 0

(* "CSV detects in-file repeats": of the rows a summary reports as new, no two *)
(* are the same student, however they are spelled. *)
RepeatsAreFound ==
  \A c \in Calls : \A k, l \in DOMAIN job[c].rows :
    /\ k # l
    /\ {job[c].rows[k], job[c].rows[l]} \subseteq {"created", "valid", "pending"}
    => Student[job[c].lines[k].id] # Student[job[c].lines[l].id]

(* However many imports and desks register the same people at once, an *)
(* account is counted as created at most once, and one that is has its *)
(* invitation queued. *)
CreatedOnceAndInvited ==
  \A i \in Ids : credited[i] > 0 => credited[i] = 1 /\ i \in Taken /\ setup[i] = "queued"

-----------------------------------------------------------------------------
(* Statements of the documents that the code does not keep. *)

(* "One matriculation number, one account", and "sen/2025/001" is the same *)
(* student as "SEN/2025/001". *)
OneAccountPerStudent == \A i, k \in Taken : Student[i] = Student[k] => i = k
=============================================================================
