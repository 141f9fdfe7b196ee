-------------------------- MODULE OutboxProperties --------------------------
(***************************************************************************)
(* What the outbox and its workers promise.                                 *)
(***************************************************************************)
EXTENDS Outbox

Labels == {"idle", "check", "email", "devices", "push", "revoke", "track", "sent",
           "failed", "superseded", "note_failed", "note_superseded"}

OutboxRow == [state : {"unused", "pending", "claimed"} \cup Settled,
        attempts : 0 .. (MaxAttempts + 1), kind : Kinds \cup {None},
        channel : Channels \cup {None}, member : Members \cup {None}]

Hand == [msg : Messages \cup {None}, tokens : SUBSET Tokens, token : Tokens \cup {None},
         reached : BOOLEAN, failed : BOOLEAN]

(* Every column, and every worker's memory, keeps its type. *)
TypeOK ==
  /\ box \in [Messages -> OutboxRow]
  /\ outdated \subseteq Messages
  /\ delivery \in [Messages -> EventTypes \cup {"none", "queued", "superseded"}]
  /\ tracked \subseteq Messages
  /\ device \in [Tokens -> Members \cup {None}]
  /\ pc \in [Workers -> Labels]
  /\ batch \in [Workers -> SUBSET Messages]
  /\ hand \in [Workers -> Hand]
  /\ tries \in [Messages -> Nat]
  /\ receipts \in [Messages -> [Recipients -> Nat]]

(* The messages a worker has claimed and not yet written off. *)
Delivering(w) == pc[w] \notin {"idle", "note_failed", "note_superseded"}
Holds(w) == batch[w] \cup IF Delivering(w) THEN {Msg(w)} ELSE {}

(* Pending: "two workers, or two container instances, never pick up the same *)
(* row", and what a worker holds stays claimed until that worker marks it, *)
(* restarts and failed statements included. *)
OneWorkerPerMessage ==
  \A w \in Workers : \A m \in Holds(w) :
    /\ box[m].state = "claimed"
    /\ \A v \in Workers \ {w} : m \notin Holds(v)

(* A message outside, seen without rows or workers. *)
Stage == [m \in Messages |->
            IF box[m].state = "unused" THEN "blank"
            ELSE IF box[m].state \in Settled THEN "closed" ELSE "open"]

Letters == INSTANCE Postbox WITH stage <- Stage, delivered <- receipts

(* Whatever workers claim, retry, push to several devices, stop and lose *)
(* statements, no recipient is known to have had one message twice, and a *)
(* message that was settled is never delivered or queued again. *)
ImplementsPostbox == Letters!PostboxSpec

(* "A permanently bad address does not spin forever": no message is handed to *)
(* a provider more than five times. *)
RetriesAreCapped == \A m \in Messages : tries[m] <= MaxAttempts

-----------------------------------------------------------------------------
(* A worker that runs keeps making passes; nothing makes members or the *)
(* provider act. *)
Fairness == \A w \in Workers : WF_vars(Drain(w))

FairSpec == Spec /\ Fairness

(* A claimed message that no worker has any more: its worker stopped, or a *)
(* statement failed. *)
Forgotten(m) == box[m].state = "claimed" /\ \A w \in Workers : m \notin Holds(w)

(* "Nothing is lost": with a provider for every channel, every message queued *)
(* is sent, superseded or given up in the end, unless a fault has its worker *)
(* forget it. *)
EveryMessageSettles ==
  \A m \in Messages : box[m].state = "pending" ~> box[m].state \in Settled \/ Forgotten(m)

-----------------------------------------------------------------------------
(* Statements of the comments that the code does not keep. *)

(* "Shutting down; the rest stay pending": what a worker dropped without *)
(* having handed it to a provider is there for the next pass. *)
UnsentStaysPending ==
  \A m \in Messages :
    /\ tries[m] = 0 /\ box[m].state \notin Settled \cup {"unused"}
    /\ \A w \in Workers : m \notin Holds(w)
    => box[m].state = "pending"

(* Of a check that fails, "leave it pending; the next pass will try again": no *)
(* message is written off as superseded while what it says still holds. *)
UncheckedIsNotSuperseded ==
  [][\A w \in Workers :
       At(w, "check") /\ pc'[w] = "superseded"
         => Msg(w) \in outdated \/ Row(w).member \in Undeliverable]_vars

(* ApplyEvent "is idempotent and monotonic: a late sent event cannot move a *)
(* delivered or bounced invitation backwards". *)
DeliveredNeverGoesBack ==
  [][\A m \in tracked :
       delivery[m] \in {"delivered", "opened"} => delivery'[m] # "sent"]_vars
=============================================================================
