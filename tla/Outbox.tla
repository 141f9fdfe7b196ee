------------------------------- MODULE Outbox -------------------------------
(***************************************************************************)
(* Notifications: the outbox table, the workers that drain it, the devices  *)
(* they push to and the delivery records of invitations, which the mail     *)
(* provider's webhooks update.                                              *)
(*                                                                         *)
(* Each database statement a worker makes outside a transaction is a step   *)
(* of its own, and so is each call to a provider, so that another worker, a *)
(* webhook, a device or a restart can come between any two.                 *)
(***************************************************************************)
EXTENDS Naturals, FiniteSets

CONSTANTS
  Workers,        \* drain loops, one in every running container
  Messages,       \* bound: rows the outbox can hold
  Members,        \* recipients
  Undeliverable,  \* members whose address is in a reserved domain
  Tokens,         \* device registrations
  Senders,        \* the channels a provider is configured for
  BatchSize,      \* how many messages one pass may claim
  Offered,        \* bound: the <<kind, channel>> pairs that are queued
  Faults,         \* bound: the faults this instance exercises
  None

Channels == {"email", "push"}

(* A notice may become untrue before it is sent, a receipt may not, and an *)
(* invitation has a delivery record. *)
Kinds == {"notice", "receipt", "invitation"}

AllFaults == {"stop", "db_error"}

ASSUME OutboxAssumption ==
  /\ Undeliverable \subseteq Members
  /\ Senders \subseteq Channels
  /\ BatchSize \in Nat \ {0}
  /\ Offered \subseteq Kinds \X Channels
  /\ <<"invitation", "push">> \notin Offered
  /\ Faults \subseteq AllFaults
  /\ None \notin Workers \cup Messages \cup Members \cup Tokens

MaxAttempts == 5

VARIABLES
  box,        \* the outbox table
  outdated,   \* notices whose loan is back or whose hold is over
  delivery,   \* invitation_deliveries.status, by outbox row
  tracked,    \* rows whose resend_message_id is stored
  device,     \* device_tokens: the owner of a live registration, else None
  pc,         \* what each worker is about to do
  batch,      \* the messages a pass has claimed and not begun
  hand,       \* the message a worker is delivering, and the push fan-out
  tries,      \* history: how often a message was handed to a provider
  receipts    \* history: deliveries a provider has confirmed to a worker

rows   == <<box, outdated, delivery, tracked, device>>
memory == <<pc, batch, hand>>
past   == <<tries, receipts>>
vars   == <<rows, memory, past>>

Mailbox == "mailbox"
Recipients == Tokens \cup {Mailbox}

NoRow == [state |-> "unused", attempts |-> 0, kind |-> None, channel |-> None, member |-> None]
EmptyHand == [msg |-> None, tokens |-> {}, token |-> None, reached |-> FALSE, failed |-> FALSE]

Settled == {"sent", "failed", "superseded"}

(* A bounce, a complaint and a failure are the last word of the provider. *)
LastWord == {"bounced", "complained", "failed"}
EventTypes == {"sent", "delivered", "opened"} \cup LastWord

-----------------------------------------------------------------------------
(* Services queue, members act, the provider reports. *)

QueueTracked(m) ==
  /\ box[m].state = "unused"
  /\ \E offer \in Offered, u \in Members :
       /\ box' = [box EXCEPT ![m] = [state |-> "pending", attempts |-> 0, kind |-> offer[1],
                                     channel |-> offer[2], member |-> u]]
       /\ delivery' = [delivery EXCEPT ![m] = IF offer[1] = "invitation" THEN "queued" ELSE @]
  /\ UNCHANGED <<outdated, tracked, device, memory, past>>

(* The loan is returned, or the hold is cancelled, collected or expired. *)
Outdate(m) ==
  /\ box[m].kind = "notice"
  /\ m \notin outdated
  /\ outdated' = outdated \cup {m}
  /\ UNCHANGED <<box, delivery, tracked, device, memory, past>>

(* INSERT ... ON CONFLICT (token) DO UPDATE: the registration moves. *)
RegisterDevice(t, u) ==
  /\ device[t] # u
  /\ device' = [device EXCEPT ![t] = u]
  /\ UNCHANGED <<box, outdated, delivery, tracked, memory, past>>

RevokeOwnDeviceToken(t) ==
  /\ device[t] # None
  /\ device' = [device EXCEPT ![t] = None]
  /\ UNCHANGED <<box, outdated, delivery, tracked, memory, past>>

(* A newer invitation replaces the member's earlier ones. *)
InvalidateInvitations(u) ==
  LET replaced == {m \in Messages : /\ box[m].member = u
                                    /\ delivery[m] \in {"queued", "sent", "delivered", "opened"}}
  IN  /\ replaced # {}
      /\ delivery' = [m \in Messages |-> IF m \in replaced THEN "superseded" ELSE delivery[m]]
      /\ UNCHANGED <<box, outdated, tracked, device, memory, past>>

(* A webhook finds its row by the provider's message id; events may repeat, *)
(* and come in any order. *)
ApplyEvent(m) ==
  /\ m \in tracked
  /\ delivery[m] \notin LastWord
  /\ \E event \in EventTypes : delivery' = [delivery EXCEPT ![m] = event]
  /\ UNCHANGED <<box, outdated, tracked, device, memory, past>>

-----------------------------------------------------------------------------
(* A worker's pass. *)

At(w, label) == pc[w] = label
Msg(w) == hand[w].msg
Row(w) == box[Msg(w)]

Goto(w, label) == pc' = [pc EXCEPT ![w] = label]

(* The worker turns to the next message of its batch. *)
Done(w) ==
  /\ Goto(w, "idle")
  /\ hand' = [hand EXCEPT ![w] = EmptyHand]
  /\ UNCHANGED batch

(* The claim; mutant: the row keeps its status. *)
Looked(row) == [row EXCEPT !.attempts = @ + 1]
Claimed(row) == [row EXCEPT !.state = "claimed", !.attempts = @ + 1]

(* UPDATE ... WHERE status = 'pending' AND attempts < 5 FOR UPDATE SKIP LOCKED *)
Due == {m \in Messages : box[m].state = "pending" /\ box[m].attempts < MaxAttempts}

(* The claim stands once the statement has committed, even when its answer is *)
(* lost and the pass ends with an error.  With no sender there are no passes. *)
Answers(claim) == {claim} \cup IF "db_error" \in Faults THEN {{}} ELSE {}

Pending(w) ==
  /\ Senders # {}
  /\ At(w, "idle") /\ batch[w] = {}
  /\ \E claim \in SUBSET Due :
       /\ claim # {}
       /\ Cardinality(claim) <= BatchSize
       /\ claim = Due \/ Cardinality(claim) = BatchSize
       /\ box' = [m \in Messages |-> IF m \in claim THEN Claimed(box[m]) ELSE box[m]]
       /\ \E got \in Answers(claim) : batch' = [batch EXCEPT ![w] = got]
  /\ UNCHANGED <<outdated, delivery, tracked, device, pc, hand, past>>

Take(w) ==
  /\ At(w, "idle")
  /\ \E m \in batch[w] :
       /\ batch' = [batch EXCEPT ![w] = @ \ {m}]
       /\ hand' = [hand EXCEPT ![w] = [EmptyHand EXCEPT !.msg = m]]
  /\ Goto(w, "check")
  /\ UNCHANGED <<rows, past>>

(* What deliver decides once it knows whether the message still holds. *)
Route(w) ==
  IF Msg(w) \in outdated                          THEN "superseded"
  ELSE IF Row(w).channel = "push"                 THEN "devices"
  ELSE IF Row(w).member \in Undeliverable         THEN "superseded"
  ELSE                                                 "email"

(* A channel with no sender is passed over: the row stays as it is. *)
StillRelevant(w) ==
  /\ At(w, "check")
  /\ IF Msg(w) \notin outdated /\ Row(w).channel \notin Senders
       THEN Done(w)
       ELSE Goto(w, Route(w)) /\ UNCHANGED <<batch, hand>>
  /\ UNCHANGED <<rows, past>>

Tried(w) == tries' = [tries EXCEPT ![Msg(w)] = @ + 1]
Confirm(w, d) == receipts' = [receipts EXCEPT ![Msg(w)][d] = @ + 1]

(* The provider accepts, rejects the address for good, or fails for now; a *)
(* message it took without the answer arriving counts as a failure for now. *)
SendEmail(w) ==
  /\ At(w, "email")
  /\ Tried(w)
  /\ \/ Goto(w, "track") /\ Confirm(w, Mailbox)
     \/ Goto(w, "superseded") /\ UNCHANGED receipts
     \/ Goto(w, "failed") /\ UNCHANGED receipts
  /\ UNCHANGED <<rows, batch, hand>>

DeviceTokens(w) ==
  LET live == {t \in Tokens : device[t] = Row(w).member}
  IN  /\ At(w, "devices")
      /\ IF live = {}
           THEN Goto(w, "superseded") /\ UNCHANGED <<hand, tries>>
           ELSE /\ hand' = [hand EXCEPT ![w].tokens = live]
                /\ Goto(w, "push")
                /\ Tried(w)
      /\ UNCHANGED <<rows, batch, receipts>>

(* One token of the fan-out: reached, dead, or failing for now. *)
PushToken(w) ==
  /\ At(w, "push")
  /\ \E t \in hand[w].tokens :
       \/ /\ hand' = [hand EXCEPT ![w].tokens = @ \ {t}, ![w].reached = TRUE]
          /\ Confirm(w, t)
          /\ UNCHANGED pc
       \/ /\ hand' = [hand EXCEPT ![w].tokens = @ \ {t}, ![w].token = t]
          /\ Goto(w, "revoke")
          /\ UNCHANGED receipts
       \/ /\ hand' = [hand EXCEPT ![w].tokens = @ \ {t}, ![w].failed = TRUE]
          /\ UNCHANGED <<pc, receipts>>
  /\ UNCHANGED <<rows, batch, tries>>

(* The token is retired whoever owns it by now. *)
RevokeDeviceToken(w) ==
  /\ At(w, "revoke")
  /\ device' = [device EXCEPT ![hand[w].token] = None]
  /\ hand' = [hand EXCEPT ![w].token = None]
  /\ Goto(w, "push")
  /\ UNCHANGED <<box, outdated, delivery, tracked, batch, past>>

(* One device reached is a delivered message; mutant: one failure fails it. *)
AnyFailure(h) == IF h.failed THEN "failed" ELSE IF h.reached THEN "sent" ELSE "superseded"
Verdict(h) == IF h.reached THEN "sent" ELSE IF h.failed THEN "failed" ELSE "superseded"

PushDone(w) ==
  /\ At(w, "push") /\ hand[w].tokens = {}
  /\ Goto(w, Verdict(hand[w]))
  /\ UNCHANGED <<rows, batch, hand, past>>

(* UpdateProviderID *)
Track(w) ==
  /\ At(w, "track")
  /\ IF delivery[Msg(w)] # "none"
       THEN /\ delivery' = [delivery EXCEPT ![Msg(w)] = "sent"]
            /\ tracked' = tracked \cup {Msg(w)}
       ELSE UNCHANGED <<delivery, tracked>>
  /\ Goto(w, "sent")
  /\ UNCHANGED <<box, outdated, device, batch, hand, past>>

MarkSent(w) ==
  /\ At(w, "sent")
  /\ box' = [box EXCEPT ![Msg(w)].state = "sent"]
  /\ delivery' = [delivery EXCEPT ![Msg(w)] = IF @ = "queued" THEN "sent" ELSE @]
  /\ Done(w)
  /\ UNCHANGED <<outdated, tracked, device, past>>

(* Five attempts and the message is given up; mutants: it never is, and the *)
(* count starts again. *)
AlwaysRetry(row) == [row EXCEPT !.attempts = @ + 1, !.state = "pending"]
StartOver(row) == [row EXCEPT !.attempts = 0, !.state = "pending"]
Retry(row) == [row EXCEPT !.attempts = @ + 1,
                          !.state = IF row.attempts + 1 >= MaxAttempts THEN "failed" ELSE "pending"]

MarkFailed(w) ==
  /\ At(w, "failed")
  /\ box' = [box EXCEPT ![Msg(w)] = Retry(@)]
  /\ Goto(w, "note_failed")
  /\ UNCHANGED <<outdated, delivery, tracked, device, batch, hand, past>>

MarkSuperseded(w) ==
  /\ At(w, "superseded")
  /\ box' = [box EXCEPT ![Msg(w)].state = "superseded"]
  /\ Goto(w, "note_superseded")
  /\ UNCHANGED <<outdated, delivery, tracked, device, batch, hand, past>>

(* The second statement of both: the delivery record of an invitation. *)
Note(w, label, status) ==
  /\ At(w, label)
  /\ delivery' = [delivery EXCEPT ![Msg(w)] = IF @ = "none" THEN @ ELSE status]
  /\ Done(w)
  /\ UNCHANGED <<box, outdated, tracked, device, past>>

NoteFailed(w) == Note(w, "note_failed", "failed")
NoteSuperseded(w) == Note(w, "note_superseded", "superseded")

-----------------------------------------------------------------------------
(* Faults. *)

(* The container stops, or its context is cancelled: the batch is forgotten. *)
Stop(w) ==
  /\ "stop" \in Faults
  /\ ~ At(w, "idle") \/ batch[w] # {}
  /\ Goto(w, "idle")
  /\ hand' = [hand EXCEPT ![w] = EmptyHand]
  /\ batch' = [batch EXCEPT ![w] = {}]
  /\ UNCHANGED <<rows, past>>

(* A statement fails: the worker logs it and turns to the next message, or, *)
(* where the code carries on, to what follows.  A check that fails is taken *)
(* for a notice that no longer holds. *)
DbError(w) ==
  /\ "db_error" \in Faults
  /\ \/ /\ pc[w] \in {"devices", "sent", "failed", "superseded",
                      "note_failed", "note_superseded"}
        /\ Done(w)
     \/ /\ At(w, "check") /\ Row(w).kind = "notice"
        /\ Goto(w, "superseded")
        /\ UNCHANGED <<batch, hand>>
     \/ At(w, "track") /\ Goto(w, "sent") /\ UNCHANGED <<batch, hand>>
     \/ /\ At(w, "revoke") /\ Goto(w, "push")
        /\ hand' = [hand EXCEPT ![w].token = None]
        /\ UNCHANGED batch
  /\ UNCHANGED <<rows, past>>

-----------------------------------------------------------------------------
Init ==
  /\ box = [m \in Messages |-> NoRow]
  /\ outdated = {}
  /\ delivery = [m \in Messages |-> "none"]
  /\ tracked = {}
  /\ device = [t \in Tokens |-> None]
  /\ pc = [w \in Workers |-> "idle"]
  /\ batch = [w \in Workers |-> {}]
  /\ hand = [w \in Workers |-> EmptyHand]
  /\ tries = [m \in Messages |-> 0]
  /\ receipts = [m \in Messages |-> [d \in Recipients |-> 0]]

Drain(w) ==
  \/ Pending(w)     \/ Take(w)       \/ StillRelevant(w)      \/ SendEmail(w)
  \/ DeviceTokens(w) \/ PushToken(w) \/ RevokeDeviceToken(w)  \/ PushDone(w)
  \/ Track(w)       \/ MarkSent(w)   \/ MarkFailed(w)         \/ MarkSuperseded(w)
  \/ NoteFailed(w)  \/ NoteSuperseded(w)

World ==
  \/ \E m \in Messages : QueueTracked(m) \/ Outdate(m) \/ ApplyEvent(m)
  \/ \E t \in Tokens : RevokeOwnDeviceToken(t) \/ \E u \in Members : RegisterDevice(t, u)
  \/ \E u \in Members : InvalidateInvitations(u)

Next ==
  \/ \E w \in Workers : Drain(w) \/ Stop(w) \/ DbError(w)
  \/ World

Spec == Init /\ [][Next]_vars
=============================================================================
