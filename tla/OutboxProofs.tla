---------------------------- MODULE OutboxProofs -----------------------------
(***************************************************************************)
(* Proofs about the outbox.  DrainInv is what every step keeps: the types,  *)
(* that a worker past "idle" has a message in hand, that a message in the    *)
(* hands of a worker is claimed and in nobody else's, and that a claimed     *)
(* message has used at most five attempts.  TriesInv adds that each claim    *)
(* pays for one try, and PhaseInv what has been delivered at each point of a *)
(* worker's pass: from it, that the outbox implements the postbox.           *)
(***************************************************************************)
EXTENDS OutboxProperties, TLAPS

HandFits ==
  \A w \in Workers :
    /\ pc[w] # "idle" => Msg(w) \in Messages \ batch[w]
    /\ pc[w] = "revoke" => hand[w].token \in Tokens

ClaimsCapped == \A m \in Messages : box[m].state = "claimed" => box[m].attempts <= MaxAttempts

DrainInv == TypeOK /\ HandFits /\ OneWorkerPerMessage /\ ClaimsCapped

(* Services, members and the provider take nothing out of a worker's hands. *)
LEMMA WorldKeeps ==
  ASSUME DrainInv, World
  PROVE  DrainInv'
<1> USE OutboxAssumption
<1>1. CASE \E m \in Messages : QueueTracked(m)
  <2> PICK m \in Messages : QueueTracked(m)
    BY <1>1
  <2> PICK offer \in Offered, u \in Members :
        /\ box' = [box EXCEPT ![m] = [state |-> "pending", attempts |-> 0, kind |-> offer[1],
                                      channel |-> offer[2], member |-> u]]
        /\ delivery' = [delivery EXCEPT ![m] = IF offer[1] = "invitation" THEN "queued" ELSE @]
    BY DEF QueueTracked
  <2> offer[1] \in Kinds /\ offer[2] \in Channels
    OBVIOUS
  <2>1. TypeOK'
    BY DEF DrainInv, TypeOK, OutboxRow, QueueTracked, memory, past, EventTypes, LastWord, MaxAttempts
  <2>2. HandFits' /\ ClaimsCapped'
    BY DEF DrainInv, HandFits, ClaimsCapped, TypeOK, OutboxRow, Msg, QueueTracked, memory, MaxAttempts
  <2>3. OneWorkerPerMessage'
    BY DEF DrainInv, OneWorkerPerMessage, TypeOK, OutboxRow, Holds, Delivering, Msg, QueueTracked, memory
  <2> QED
    BY <2>1, <2>2, <2>3 DEF DrainInv
<1>2. CASE UNCHANGED <<box, memory, past>> /\ TypeOK'
  <2>1. HandFits' /\ ClaimsCapped'
    BY <1>2 DEF DrainInv, HandFits, ClaimsCapped, Msg, memory
  <2>2. OneWorkerPerMessage'
    BY <1>2 DEF DrainInv, OneWorkerPerMessage, Holds, Delivering, Msg, memory
  <2> QED
    BY <1>2, <2>1, <2>2 DEF DrainInv
<1>3. ASSUME NEW m \in Messages, Outdate(m) \/ ApplyEvent(m)
      PROVE  UNCHANGED <<box, memory, past>> /\ TypeOK'
  BY <1>3 DEF DrainInv, TypeOK, Outdate, ApplyEvent, memory, past, EventTypes, LastWord
<1>4. ASSUME NEW t \in Tokens, RevokeOwnDeviceToken(t) \/ \E u \in Members : RegisterDevice(t, u)
      PROVE  UNCHANGED <<box, memory, past>> /\ TypeOK'
  BY <1>4 DEF DrainInv, TypeOK, RevokeOwnDeviceToken, RegisterDevice, memory, past
<1>5. ASSUME NEW u \in Members, InvalidateInvitations(u)
      PROVE  UNCHANGED <<box, memory, past>> /\ TypeOK'
  BY <1>5 DEF DrainInv, TypeOK, InvalidateInvitations, memory, past
<1> QED
  BY <1>1, <1>2, <1>3, <1>4, <1>5 DEF World

(* A step that leaves the rows alone and takes no message up lets every claim *)
(* stand. *)
LEMMA LettingGo ==
  ASSUME DrainInv, UNCHANGED box, \A v \in Workers : Holds(v)' \subseteq Holds(v)
  PROVE  OneWorkerPerMessage' /\ ClaimsCapped'
BY DEF DrainInv, OneWorkerPerMessage, ClaimsCapped

(* What the claim and the retry make of a row. *)
LEMMA RowsAfter ==
  ASSUME NEW row \in OutboxRow, row.attempts <= MaxAttempts
  PROVE  /\ Retry(row) \in OutboxRow /\ Retry(row).state \in {"failed", "pending"}
         /\ Retry(row).attempts = row.attempts + 1
         /\ Claimed(row) \in OutboxRow /\ Claimed(row).state = "claimed"
         /\ Claimed(row).attempts = row.attempts + 1
<1>1. row.attempts \in 0 .. (MaxAttempts + 1)
  BY DEF OutboxRow
<1>2. row.attempts + 1 \in 0 .. (MaxAttempts + 1)
  BY <1>1 DEF MaxAttempts
<1>3. ASSUME NEW s \in {"failed", "pending", "claimed"}
      PROVE  LET after == [row EXCEPT !.attempts = row.attempts + 1, !.state = s]
             IN  after \in OutboxRow /\ after.state = s /\ after.attempts = row.attempts + 1
  BY <1>2 DEF OutboxRow, Settled
<1>4. PICK s \in {"failed", "pending"} : Retry(row) = [row EXCEPT !.attempts = row.attempts + 1, !.state = s]
  BY DEF Retry
<1>5. Claimed(row) = [row EXCEPT !.attempts = row.attempts + 1, !.state = "claimed"]
  BY DEF Claimed, OutboxRow
<1> QED
  BY <1>3, <1>4, <1>5

(* One more confirmed delivery keeps the type of the history. *)
LEMMA ConfirmTyped ==
  ASSUME TypeOK, NEW w \in Workers, Msg(w) \in Messages, NEW d \in Recipients, Confirm(w, d)
  PROVE  receipts' \in [Messages -> [Recipients -> Nat]]
<1>1. receipts[Msg(w)] \in [Recipients -> Nat]
  BY DEF TypeOK
<1>2. [receipts[Msg(w)] EXCEPT ![d] = @ + 1] \in [Recipients -> Nat]
  BY <1>1
<1>3. receipts' = [receipts EXCEPT ![Msg(w)] = [receipts[Msg(w)] EXCEPT ![d] = @ + 1]]
  BY DEF Confirm
<1> QED
  BY <1>2, <1>3 DEF TypeOK

(* A worker at rest, or writing a note, holds only what it has still to take up. *)
LEMMA DonePuts ==
  ASSUME TypeOK, HandFits, NEW w \in Workers, Done(w)
  PROVE  /\ pc' \in [Workers -> Labels] /\ hand' \in [Workers -> Hand]
         /\ HandFits'
         /\ \A v \in Workers : Holds(v)' \subseteq Holds(v)
<1>1. EmptyHand \in Hand
  BY DEF EmptyHand, Hand
<1>2. pc' = [pc EXCEPT ![w] = "idle"] /\ hand' = [hand EXCEPT ![w] = EmptyHand] /\ batch' = batch
  BY DEF Done, Goto
<1>3. pc' \in [Workers -> Labels] /\ hand' \in [Workers -> Hand]
  BY <1>1, <1>2 DEF TypeOK, Labels
<1>4. pc'[w] = "idle" /\ \A v \in Workers \ {w} : pc'[v] = pc[v] /\ hand'[v] = hand[v]
  BY <1>2 DEF TypeOK
<1>5. HandFits'
  BY <1>2, <1>4 DEF HandFits, Msg
<1>6. \A v \in Workers : Holds(v)' \subseteq Holds(v)
  BY <1>2, <1>4 DEF Holds, Delivering, Msg
<1> QED
  BY <1>3, <1>5, <1>6

(* A worker that goes on with the message in hand holds what it held. *)
LEMMA MoveOn ==
  ASSUME TypeOK, HandFits, NEW w \in Workers, Delivering(w),
         NEW label \in Labels \ {"idle"}, Goto(w, label), UNCHANGED batch,
         hand' \in [Workers -> Hand],
         \A v \in Workers : Msg(v)' = Msg(v) /\ (v # w => hand'[v] = hand[v]),
         label = "revoke" => hand'[w].token \in Tokens
  PROVE  /\ pc' \in [Workers -> Labels]
         /\ HandFits'
         /\ \A v \in Workers : Holds(v)' \subseteq Holds(v)
<1>1. pc' = [pc EXCEPT ![w] = label] /\ pc' \in [Workers -> Labels]
  BY DEF Goto, TypeOK
<1>2. pc'[w] = label /\ \A v \in Workers \ {w} : pc'[v] = pc[v]
  BY <1>1 DEF TypeOK
<1>3. pc[w] # "idle"
  BY DEF Delivering
<1>4. HandFits'
  BY <1>2, <1>3 DEF HandFits
<1>5. \A v \in Workers : Holds(v)' \subseteq Holds(v)
  BY <1>2 DEF Holds, Delivering
<1> QED
  BY <1>1, <1>4, <1>5

(* The steps of a pass that write no row of the outbox. *)
LEMMA PassKeeps ==
  ASSUME DrainInv, NEW w \in Workers,
         \/ Take(w)         \/ StillRelevant(w)      \/ SendEmail(w)  \/ DeviceTokens(w)
         \/ PushToken(w)    \/ RevokeDeviceToken(w)  \/ PushDone(w)   \/ Track(w)
         \/ NoteFailed(w)   \/ NoteSuperseded(w)     \/ Stop(w)       \/ DbError(w)
  PROVE  DrainInv'
<1>0. TypeOK /\ HandFits
  BY DEF DrainInv
<1> USE <1>0
<1> DEFINE Kept == TypeOK' /\ HandFits' /\ UNCHANGED box /\ \A v \in Workers : Holds(v)' \subseteq Holds(v)
<1> SUFFICES Kept
  BY LettingGo DEF DrainInv
<1>1. ASSUME UNCHANGED <<box, outdated, past>>, Done(w),
             UNCHANGED <<delivery, tracked, device>> \/ NoteFailed(w) \/ NoteSuperseded(w)
      PROVE  Kept
  <2>1. UNCHANGED <<box, outdated, tracked, device, batch, past>>
    BY <1>1 DEF NoteFailed, NoteSuperseded, Note, Done
  <2>2. delivery' \in [Messages -> EventTypes \cup {"none", "queued", "superseded"}]
    BY <1>1 DEF NoteFailed, NoteSuperseded, Note, TypeOK, EventTypes, LastWord
  <2> QED
    BY <1>1, <2>1, <2>2, DonePuts DEF TypeOK, past
<1>2. ASSUME NEW label \in Labels \ {"idle", "revoke"}, UNCHANGED <<rows, past, batch, hand>>,
             Goto(w, label), Delivering(w)
      PROVE  Kept
  <2>1. \A v \in Workers : Msg(v)' = Msg(v)
    BY <1>2 DEF Msg
  <2> QED
    BY <1>2, <2>1, MoveOn DEF TypeOK, rows, past
<1>3. CASE Take(w)
  <2>1. PICK m \in batch[w] :
          /\ batch' = [batch EXCEPT ![w] = @ \ {m}]
          /\ hand' = [hand EXCEPT ![w] = [EmptyHand EXCEPT !.msg = m]]
    BY <1>3 DEF Take
  <2>2. /\ pc[w] = "idle" /\ pc' = [pc EXCEPT ![w] = "check"]
        /\ UNCHANGED <<rows, past>>
    BY <1>3 DEF Take, At, Goto
  <2>3. m \in Messages /\ [EmptyHand EXCEPT !.msg = m] \in Hand /\ [EmptyHand EXCEPT !.msg = m].msg = m
    BY DEF TypeOK, EmptyHand, Hand
  <2>4. pc' \in [Workers -> Labels] /\ hand' \in [Workers -> Hand] /\ batch' \in [Workers -> SUBSET Messages]
    BY <2>1, <2>2, <2>3 DEF TypeOK, Labels
  <2>5. /\ pc'[w] = "check" /\ hand'[w].msg = m /\ batch'[w] = batch[w] \ {m}
        /\ \A v \in Workers \ {w} : pc'[v] = pc[v] /\ hand'[v] = hand[v] /\ batch'[v] = batch[v]
    BY <2>1, <2>2, <2>3 DEF TypeOK
  <2>6. HandFits'
    BY <2>3, <2>5 DEF HandFits, Msg
  <2>7. \A v \in Workers : Holds(v)' \subseteq Holds(v)
    BY <2>5 DEF Holds, Delivering, Msg
  <2> QED
    BY <2>2, <2>4, <2>6, <2>7 DEF TypeOK, rows, past
<1>4. CASE StillRelevant(w)
  <2>1. Route(w) \in {"superseded", "devices", "email"}
    BY DEF Route
  <2> QED
    BY <1>4, <1>1, <1>2, <2>1 DEF StillRelevant, At, Delivering, Labels, rows
<1>5. CASE SendEmail(w)
  <2>1. Delivering(w) /\ Msg(w) \in Messages
    BY <1>5 DEF SendEmail, At, Delivering, HandFits
  <2>2. tries' \in [Messages -> Nat]
    BY <1>5, <2>1 DEF SendEmail, Tried, TypeOK
  <2>3. receipts' \in [Messages -> [Recipients -> Nat]]
    BY <1>5, <2>1, ConfirmTyped DEF SendEmail, Recipients, TypeOK
  <2>4. PICK label \in {"track", "superseded", "failed"} : Goto(w, label)
    BY <1>5 DEF SendEmail
  <2>5. label \in Labels \ {"idle", "revoke"} /\ UNCHANGED <<rows, batch, hand>>
    BY <1>5 DEF SendEmail, Labels
  <2>6. \A v \in Workers : Msg(v)' = Msg(v)
    BY <2>5 DEF Msg
  <2>7. hand' \in [Workers -> Hand]
    BY <2>5 DEF TypeOK
  <2>8. pc' \in [Workers -> Labels] /\ HandFits' /\ \A v \in Workers : Holds(v)' \subseteq Holds(v)
    BY <2>1, <2>4, <2>5, <2>6, <2>7, MoveOn
  <2> QED
    BY <2>2, <2>3, <2>5, <2>8 DEF TypeOK, rows
<1>6. CASE DeviceTokens(w)
  <2> DEFINE live == {t \in Tokens : device[t] = Row(w).member}
  <2>1. Delivering(w) /\ Msg(w) \in Messages /\ UNCHANGED <<rows, batch, receipts>>
    BY <1>6 DEF DeviceTokens, At, Delivering, HandFits
  <2>2. CASE live = {}
    BY <1>6, <2>2, <1>2, <2>1 DEF DeviceTokens, Labels, past
  <2>3. CASE live # {}
    <3>1. hand' = [hand EXCEPT ![w].tokens = live] /\ Goto(w, "push") /\ Tried(w)
      BY <1>6, <2>3 DEF DeviceTokens
    <3>2. hand[w] \in Hand
      BY DEF TypeOK
    <3>3. hand' = [hand EXCEPT ![w] = [hand[w] EXCEPT !.tokens = live]]
      BY <3>1
    <3>4. [hand[w] EXCEPT !.tokens = live] \in Hand /\ [hand[w] EXCEPT !.tokens = live].msg = hand[w].msg
      BY <3>2 DEF Hand
    <3> HIDE DEF live
    <3>5. hand' \in [Workers -> Hand] /\ \A v \in Workers : Msg(v)' = Msg(v) /\ (v # w => hand'[v] = hand[v])
      BY <3>3, <3>4 DEF Msg, TypeOK
    <3>6. tries' \in [Messages -> Nat]
      BY <3>1, <2>1 DEF Tried, TypeOK
    <3>7. pc' \in [Workers -> Labels] /\ HandFits' /\ \A v \in Workers : Holds(v)' \subseteq Holds(v)
      BY <2>1, <3>1, <3>5, MoveOn DEF Labels
    <3> QED
      BY <2>1, <3>5, <3>6, <3>7 DEF TypeOK, rows
  <2> QED
    BY <2>2, <2>3
<1>7. CASE PushToken(w)
  <2>1. /\ pc[w] = "push" /\ Delivering(w) /\ Msg(w) \in Messages
        /\ UNCHANGED <<rows, batch, tries>>
    BY <1>7 DEF PushToken, At, Delivering, HandFits
  <2>2. hand[w] \in Hand
    BY DEF TypeOK
  <2>3. PICK t \in hand[w].tokens :
          \/ /\ hand' = [hand EXCEPT ![w].tokens = @ \ {t}, ![w].reached = TRUE]
             /\ Confirm(w, t)
             /\ UNCHANGED pc
          \/ /\ hand' = [hand EXCEPT ![w].tokens = @ \ {t}, ![w].token = t]
             /\ Goto(w, "revoke")
             /\ UNCHANGED receipts
          \/ /\ hand' = [hand EXCEPT ![w].tokens = @ \ {t}, ![w].failed = TRUE]
             /\ UNCHANGED <<pc, receipts>>
    BY <1>7 DEF PushToken
  <2>4. t \in Tokens /\ t \in Recipients
    BY <2>2 DEF Hand, Recipients
  <2>5. PICK h \in Hand, label \in {"push", "revoke"} :
          /\ hand' = [hand EXCEPT ![w] = h] /\ h.msg = hand[w].msg
          /\ Goto(w, label)
          /\ label = "revoke" => h.token = t
    <3>1. UNCHANGED pc => Goto(w, "push")
      BY <2>1 DEF Goto, TypeOK
    <3>2. CASE /\ hand' = [hand EXCEPT ![w].tokens = @ \ {t}, ![w].reached = TRUE]
               /\ UNCHANGED pc
      <4> [hand[w] EXCEPT !.tokens = @ \ {t}, !.reached = TRUE] \in Hand
        BY <2>2 DEF Hand
      <4> QED
        BY <3>1, <3>2, <2>2 DEF Hand
    <3>3. CASE /\ hand' = [hand EXCEPT ![w].tokens = @ \ {t}, ![w].token = t]
               /\ Goto(w, "revoke")
      <4> [hand[w] EXCEPT !.tokens = @ \ {t}, !.token = t] \in Hand
        BY <2>2, <2>4 DEF Hand
      <4> QED
        BY <3>3, <2>2 DEF Hand
    <3>4. CASE /\ hand' = [hand EXCEPT ![w].tokens = @ \ {t}, ![w].failed = TRUE]
               /\ UNCHANGED pc
      <4> [hand[w] EXCEPT !.tokens = @ \ {t}, !.failed = TRUE] \in Hand
        BY <2>2 DEF Hand
      <4> QED
        BY <3>1, <3>4, <2>2 DEF Hand
    <3> QED
      BY <2>3, <3>2, <3>3, <3>4
  <2>6. receipts' \in [Messages -> [Recipients -> Nat]]
    BY <2>1, <2>3, <2>4, ConfirmTyped DEF TypeOK
  <2>7. /\ hand' \in [Workers -> Hand] /\ hand'[w] = h
        /\ \A v \in Workers : Msg(v)' = Msg(v) /\ (v # w => hand'[v] = hand[v])
    BY <2>5 DEF TypeOK, Msg
  <2>8. label \in Labels \ {"idle"} /\ (label = "revoke" => hand'[w].token \in Tokens)
    BY <2>4, <2>5, <2>7 DEF Labels
  <2>9. pc' \in [Workers -> Labels] /\ HandFits' /\ \A v \in Workers : Holds(v)' \subseteq Holds(v)
    BY <2>1, <2>5, <2>7, <2>8, MoveOn
  <2> QED
    BY <2>1, <2>6, <2>7, <2>9 DEF TypeOK, rows
<1>8. ASSUME At(w, "revoke"), Goto(w, "push"), hand' = [hand EXCEPT ![w].token = None],
             UNCHANGED <<box, outdated, delivery, tracked, batch, past>>,
             device' = device \/ device' = [device EXCEPT ![hand[w].token] = None]
      PROVE  Kept
  <2>1. Delivering(w) /\ hand[w] \in Hand
    BY <1>8 DEF At, Delivering, TypeOK
  <2>2. [hand[w] EXCEPT !.token = None] \in Hand /\ [hand[w] EXCEPT !.token = None].msg = hand[w].msg
    BY <2>1 DEF Hand
  <2>3. hand' = [hand EXCEPT ![w] = [hand[w] EXCEPT !.token = None]]
    BY <1>8
  <2>4. hand' \in [Workers -> Hand] /\ \A v \in Workers : Msg(v)' = Msg(v) /\ (v # w => hand'[v] = hand[v])
    BY <2>2, <2>3 DEF TypeOK, Msg
  <2>5. device' \in [Tokens -> Members \cup {None}]
    BY <1>8 DEF TypeOK
  <2>6. pc' \in [Workers -> Labels] /\ HandFits' /\ \A v \in Workers : Holds(v)' \subseteq Holds(v)
    BY <1>8, <2>1, <2>4, MoveOn DEF Labels
  <2> QED
    BY <1>8, <2>4, <2>5, <2>6 DEF TypeOK, past
<1>9. CASE RevokeDeviceToken(w)
  BY <1>8, <1>9 DEF RevokeDeviceToken
<1>10. CASE PushDone(w)
  <2>1. Verdict(hand[w]) \in {"sent", "failed", "superseded"}
    BY DEF Verdict
  <2> QED
    BY <1>10, <1>2, <2>1 DEF PushDone, At, Delivering, Labels
<1>11. CASE Track(w)
  <2>1. delivery' \in [Messages -> EventTypes \cup {"none", "queued", "superseded"}]
    BY <1>11 DEF Track, TypeOK, EventTypes
  <2>2. tracked' \subseteq Messages
    BY <1>11 DEF Track, At, HandFits, TypeOK
  <2>3. UNCHANGED <<box, outdated, device, batch, hand, past>> /\ Goto(w, "sent") /\ Delivering(w)
    BY <1>11 DEF Track, At, Delivering
  <2>4. \A v \in Workers : Msg(v)' = Msg(v)
    BY <2>3 DEF Msg
  <2>5. pc' \in [Workers -> Labels] /\ HandFits' /\ \A v \in Workers : Holds(v)' \subseteq Holds(v)
    BY <2>3, <2>4, MoveOn DEF Labels, TypeOK
  <2> QED
    BY <2>1, <2>2, <2>3, <2>5 DEF TypeOK, past
<1>12. CASE NoteFailed(w) \/ NoteSuperseded(w)
  BY <1>1, <1>12 DEF NoteFailed, NoteSuperseded, Note
<1>13. CASE Stop(w)
  <2>1. EmptyHand \in Hand
    BY DEF EmptyHand, Hand
  <2>2. /\ pc' = [pc EXCEPT ![w] = "idle"] /\ hand' = [hand EXCEPT ![w] = EmptyHand]
        /\ batch' = [batch EXCEPT ![w] = {}] /\ UNCHANGED <<rows, past>>
    BY <1>13 DEF Stop, Goto
  <2>3. TypeOK'
    BY <2>1, <2>2 DEF TypeOK, rows, past, Labels
  <2>4. /\ pc'[w] = "idle" /\ batch'[w] = {}
        /\ \A v \in Workers \ {w} : pc'[v] = pc[v] /\ hand'[v] = hand[v] /\ batch'[v] = batch[v]
    BY <2>2 DEF TypeOK
  <2>5. HandFits'
    BY <2>4 DEF HandFits, Msg
  <2>6. \A v \in Workers : Holds(v)' \subseteq Holds(v)
    BY <2>4 DEF Holds, Delivering, Msg
  <2> QED
    BY <2>2, <2>3, <2>5, <2>6 DEF rows
<1>14. CASE DbError(w)
  <2>1. CASE Done(w) /\ UNCHANGED <<rows, past>>
    BY <1>1, <2>1 DEF rows
  <2>2. CASE At(w, "track") /\ Goto(w, "sent") /\ UNCHANGED <<rows, past, batch, hand>>
    BY <1>2, <2>2 DEF At, Delivering, Labels
  <2>3. CASE /\ At(w, "revoke") /\ Goto(w, "push") /\ hand' = [hand EXCEPT ![w].token = None]
             /\ UNCHANGED <<rows, past, batch>>
    BY <1>8, <2>3 DEF rows
  <2>4. CASE At(w, "check") /\ Goto(w, "superseded") /\ UNCHANGED <<rows, past, batch, hand>>
    BY <1>2, <2>4 DEF At, Delivering, Labels
  <2> QED
    BY <1>14, <2>1, <2>2, <2>3, <2>4 DEF DbError
<1> QED
  BY <1>3, <1>4, <1>5, <1>6, <1>7, <1>9, <1>10, <1>11, <1>12, <1>13, <1>14

(* A worker writes off only the message it has in hand, which nobody else has. *)
LEMMA MarkKeeps ==
  ASSUME DrainInv, NEW w \in Workers, MarkSent(w) \/ MarkFailed(w) \/ MarkSuperseded(w)
  PROVE  DrainInv'
<1>0. TypeOK /\ HandFits
  BY DEF DrainInv
<1> USE <1>0
<1> DEFINE m == Msg(w)
<1>1. /\ Delivering(w)
      /\ m \in Holds(w) /\ m \in Messages \ batch[w]
  BY DEF MarkSent, MarkFailed, MarkSuperseded, At, Holds, Delivering, HandFits
<1>2. box[m].state = "claimed" /\ box[m].attempts <= MaxAttempts /\ box[m] \in OutboxRow
  BY <1>1 DEF DrainInv, OneWorkerPerMessage, ClaimsCapped, TypeOK
<1>3. PICK row \in OutboxRow : box' = [box EXCEPT ![m] = row] /\ row.state # "claimed"
  <2>1. CASE MarkSent(w)
    <3> [box[m] EXCEPT !.state = "sent"] \in OutboxRow
      BY <1>2 DEF OutboxRow, Settled
    <3> QED
      BY <2>1, <1>2 DEF MarkSent, OutboxRow
  <2>2. CASE MarkFailed(w)
    <3> Retry(box[m]) \in OutboxRow /\ Retry(box[m]).state # "claimed"
      BY <1>2, RowsAfter
    <3> QED
      BY <2>2 DEF MarkFailed
  <2>3. CASE MarkSuperseded(w)
    <3> [box[m] EXCEPT !.state = "superseded"] \in OutboxRow
      BY <1>2 DEF OutboxRow, Settled
    <3> QED
      BY <2>3, <1>2 DEF MarkSuperseded, OutboxRow
  <2> QED
    BY <2>1, <2>2, <2>3
<1> HIDE DEF m
<1>4. /\ box' \in [Messages -> OutboxRow] /\ box'[m].state # "claimed"
      /\ \A n \in Messages \ {m} : box'[n] = box[n]
  BY <1>1, <1>3 DEF TypeOK
<1>5. /\ HandFits' /\ pc' \in [Workers -> Labels] /\ hand' \in [Workers -> Hand]
      /\ \A v \in Workers : Holds(v)' \subseteq Holds(v)
  <2>1. CASE MarkSent(w)
    BY <2>1, DonePuts DEF MarkSent
  <2>2. CASE MarkFailed(w) \/ MarkSuperseded(w)
    <3>1. PICK label \in Labels \ {"idle", "revoke"} : Goto(w, label)
      BY <2>2 DEF MarkFailed, MarkSuperseded, Labels
    <3>2. UNCHANGED <<batch, hand>> /\ (\A v \in Workers : Msg(v)' = Msg(v)) /\ hand' \in [Workers -> Hand]
      BY <2>2 DEF MarkFailed, MarkSuperseded, Msg, TypeOK
    <3> QED
      BY <1>1, <3>1, <3>2, MoveOn
  <2> QED
    BY <2>1, <2>2
<1>6. batch' = batch /\ pc' = [pc EXCEPT ![w] = pc'[w]] /\ pc'[w] \in {"idle", "note_failed", "note_superseded"}
  BY DEF MarkSent, MarkFailed, MarkSuperseded, Done, Goto, TypeOK
<1>7. delivery' \in [Messages -> EventTypes \cup {"none", "queued", "superseded"}]
  BY DEF MarkSent, MarkFailed, MarkSuperseded, TypeOK, EventTypes
<1>8. TypeOK'
  BY <1>4, <1>5, <1>6, <1>7 DEF MarkSent, MarkFailed, MarkSuperseded, TypeOK, past
<1>9. \A v \in Workers : m \notin Holds(v)'
  <2>1. Holds(w)' = batch[w]
    BY <1>6 DEF Holds, Delivering
  <2>2. \A v \in Workers \ {w} : m \notin Holds(v)
    BY <1>1 DEF DrainInv, OneWorkerPerMessage
  <2> QED
    BY <1>1, <1>5, <2>1, <2>2
<1>10. \A v \in Workers : Holds(v) \subseteq Messages
  BY DEF Holds, Delivering, TypeOK, HandFits
<1>11. OneWorkerPerMessage'
  BY <1>4, <1>5, <1>9, <1>10 DEF DrainInv, OneWorkerPerMessage
<1>12. ClaimsCapped'
  BY <1>4 DEF DrainInv, ClaimsCapped
<1> QED
  BY <1>5, <1>8, <1>11, <1>12 DEF DrainInv

(* SKIP LOCKED and the change of status in one statement: what a pass claims *)
(* was pending, so nobody had it. *)
LEMMA ClaimKeeps ==
  ASSUME DrainInv, NEW w \in Workers, Pending(w)
  PROVE  DrainInv'
<1> TypeOK /\ HandFits
  BY DEF DrainInv
<1> PICK claim \in SUBSET Due :
       /\ box' = [m \in Messages |-> IF m \in claim THEN Claimed(box[m]) ELSE box[m]]
       /\ \E got \in Answers(claim) : batch' = [batch EXCEPT ![w] = got]
  BY DEF Pending
<1> PICK got \in SUBSET claim : batch' = [batch EXCEPT ![w] = got]
  BY DEF Answers
<1> pc[w] = "idle" /\ batch[w] = {} /\ UNCHANGED <<outdated, delivery, tracked, device, pc, hand, past>>
  BY DEF Pending, At
<1>1. claim \subseteq Messages /\ \A m \in claim : box[m].state = "pending" /\ box[m].attempts < MaxAttempts
  BY DEF Due
<1>0. ASSUME NEW m \in claim
      PROVE  /\ Claimed(box[m]) \in OutboxRow
             /\ Claimed(box[m]).state = "claimed" /\ Claimed(box[m]).attempts <= MaxAttempts
  <2>1. box[m] \in OutboxRow /\ box[m].attempts < MaxAttempts
    BY <1>1 DEF TypeOK
  <2>2. box[m].attempts \in Nat
    BY <2>1 DEF OutboxRow, MaxAttempts
  <2> QED
    BY <2>1, <2>2, RowsAfter DEF MaxAttempts
<1>2. \A m \in claim : box'[m].state = "claimed" /\ box'[m].attempts <= MaxAttempts
  BY <1>0, <1>1
<1>3. \A m \in Messages \ claim : box'[m] = box[m]
  OBVIOUS
<1>4. box' \in [Messages -> OutboxRow]
  BY <1>0, <1>1 DEF TypeOK
<1>5. TypeOK' /\ HandFits'
  BY <1>1, <1>4 DEF TypeOK, HandFits, past, Msg
<1>6. \A v \in Workers : claim \cap Holds(v) = {}
  BY <1>1 DEF DrainInv, OneWorkerPerMessage
<1>7. Holds(w)' \subseteq claim /\ \A v \in Workers \ {w} : Holds(v)' = Holds(v)
  BY DEF Holds, Delivering, Msg, TypeOK
<1>8. \A v \in Workers : Holds(v) \subseteq Messages
  BY DEF Holds, Delivering, TypeOK, HandFits
<1>9. OneWorkerPerMessage'
  BY <1>2, <1>3, <1>6, <1>7, <1>8 DEF DrainInv, OneWorkerPerMessage
<1>10. ClaimsCapped'
  BY <1>2, <1>3 DEF DrainInv, ClaimsCapped
<1> QED
  BY <1>5, <1>9, <1>10 DEF DrainInv

(* The invariant, for any number of workers, messages and faults. *)
LEMMA AlwaysDrainInv == Spec => []DrainInv
<1>1. Init => DrainInv
  BY OutboxAssumption DEF Init, DrainInv, TypeOK, OutboxRow, NoRow, Hand, EmptyHand, Labels, HandFits,
     OneWorkerPerMessage, Holds, Delivering, ClaimsCapped, Settled, MaxAttempts
<1>2. DrainInv /\ [Next]_vars => DrainInv'
  <2> SUFFICES ASSUME DrainInv, [Next]_vars PROVE DrainInv'
    OBVIOUS
  <2>1. CASE World
    BY <2>1, WorldKeeps
  <2>2. ASSUME NEW w \in Workers, Drain(w) \/ Stop(w) \/ DbError(w)
        PROVE  DrainInv'
    BY <2>2, PassKeeps, MarkKeeps, ClaimKeeps DEF Drain
  <2>3. CASE UNCHANGED vars
    BY <2>3 DEF vars, rows, memory, past, DrainInv, TypeOK, HandFits, OneWorkerPerMessage,
                ClaimsCapped, Holds, Delivering, Msg
  <2> QED
    BY <2>1, <2>2, <2>3 DEF Next
<1> QED
  BY <1>1, <1>2, PTL DEF Spec

(* Every column and every worker keeps its type. *)
THEOREM OutboxTypesKept == Spec => []TypeOK
BY AlwaysDrainInv, PTL DEF DrainInv

(* No message is in the hands of two workers, whatever stops and fails. *)
THEOREM ClaimsExclusive == Spec => []OneWorkerPerMessage
BY AlwaysDrainInv, PTL DEF DrainInv

-----------------------------------------------------------------------------
(***************************************************************************)
(* Proofs about what the workers hand to the providers.  TriesInv bounds     *)
(* the tries of a message by the attempts its row has used: every claim      *)
(* pays for one try in advance, and only the worker that holds the claim     *)
(* spends it.                                                               *)
(***************************************************************************)

(* The messages a worker has claimed and not tried. *)
Unspent(w) == batch[w] \cup IF pc[w] \in {"check", "email", "devices"} THEN {Msg(w)} ELSE {}

TriesInv ==
  /\ \A m \in Messages :
       /\ tries[m] <= box[m].attempts /\ tries[m] <= MaxAttempts
       /\ box[m].state = "unused" => tries[m] = 0
  /\ \A w \in Workers : \A m \in Unspent(w) : tries[m] < box[m].attempts

(* A message whose try is paid for and not spent is held by the worker that claimed it. *)
LEMMA UnspentHeld ==
  ASSUME DrainInv, NEW w \in Workers
  PROVE  Unspent(w) \subseteq Holds(w) /\ Holds(w) \subseteq Messages
BY DEF DrainInv, TypeOK, HandFits, Unspent, Holds, Delivering

(* Attempts and tries are numbers. *)
LEMMA CountsTyped ==
  ASSUME TypeOK, NEW m \in Messages
  PROVE  box[m].attempts \in Nat /\ tries[m] \in Nat
<1>1. box[m] \in OutboxRow /\ tries[m] \in Nat
  BY DEF TypeOK
<1> QED
  BY <1>1 DEF OutboxRow, MaxAttempts

(* Steps that try nothing, take no attempt back and take nothing up. *)
LEMMA NothingTried ==
  ASSUME DrainInv, DrainInv', TriesInv, UNCHANGED tries,
         \A m \in Messages : /\ box'[m].attempts >= box[m].attempts
                             /\ box'[m].state = "unused" => box[m].state = "unused",
         \A w \in Workers : Unspent(w)' \subseteq Unspent(w)
  PROVE  TriesInv'
<1>1. \A m \in Messages : /\ box[m].attempts \in Nat /\ tries[m] \in Nat
                          /\ box'[m].attempts \in Nat
  <2>1. \A m \in Messages : box'[m] \in OutboxRow
    BY DEF DrainInv, TypeOK
  <2>2. \A row \in OutboxRow : row.attempts \in Nat
    BY DEF OutboxRow, MaxAttempts
  <2> QED
    BY <2>1, <2>2, CountsTyped DEF DrainInv
<1>2. ASSUME NEW m \in Messages
      PROVE  /\ tries'[m] <= box'[m].attempts /\ tries'[m] <= MaxAttempts
             /\ box'[m].state = "unused" => tries'[m] = 0
  BY <1>1 DEF TriesInv, MaxAttempts
<1>3. ASSUME NEW w \in Workers, NEW m \in Unspent(w)'
      PROVE  tries'[m] < box'[m].attempts
  <2>1. m \in Unspent(w) /\ m \in Messages
    BY UnspentHeld
  <2> QED
    BY <1>1, <2>1 DEF TriesInv
<1> QED
  BY <1>2, <1>3 DEF TriesInv

(* The one place a try is spent: SendEmail and DeviceTokens. *)
LEMMA OneTried ==
  ASSUME DrainInv, DrainInv', TriesInv, NEW w \in Workers, UNCHANGED box,
         pc[w] \in {"email", "devices"}, Tried(w),
         Unspent(w)' \subseteq batch[w],
         \A v \in Workers \ {w} : Unspent(v)' \subseteq Unspent(v)
  PROVE  TriesInv'
<1> DEFINE m == Msg(w)
<1>1. m \in Unspent(w) /\ m \in Messages \ batch[w]
  BY DEF Unspent, DrainInv, HandFits
<1>2. \A v \in Workers : Unspent(v) \subseteq Holds(v) /\ Holds(v) \subseteq Messages
  BY UnspentHeld
<1>3. box[m].state = "claimed" /\ \A v \in Workers \ {w} : m \notin Holds(v)
  BY <1>1, <1>2 DEF DrainInv, OneWorkerPerMessage
<1>4. \A n \in Messages : box[n].attempts \in Nat /\ tries[n] \in Nat
  BY CountsTyped DEF DrainInv
<1>5. tries'[m] = tries[m] + 1 /\ \A n \in Messages \ {m} : tries'[n] = tries[n]
  BY <1>1 DEF Tried, DrainInv, TypeOK
<1>6. tries[m] < box[m].attempts /\ box[m].attempts <= MaxAttempts
  BY <1>1, <1>3 DEF TriesInv, DrainInv, ClaimsCapped
<1>7. tries'[m] <= box[m].attempts /\ tries'[m] <= MaxAttempts
  BY <1>1, <1>4, <1>5, <1>6 DEF MaxAttempts
<1> HIDE DEF m
<1>8. ASSUME NEW n \in Messages
      PROVE  /\ tries'[n] <= box'[n].attempts /\ tries'[n] <= MaxAttempts
             /\ box'[n].state = "unused" => tries'[n] = 0
  BY <1>3, <1>5, <1>7 DEF TriesInv
<1>9. ASSUME NEW v \in Workers, NEW n \in Unspent(v)'
      PROVE  tries'[n] < box'[n].attempts
  <2>1. n \in Unspent(v) /\ n \in Messages /\ n # m
    BY <1>1, <1>2, <1>3 DEF Unspent
  <2> QED
    BY <1>5, <2>1 DEF TriesInv
<1> QED
  BY <1>8, <1>9 DEF TriesInv

(* Every step keeps the tries of a message within what its claims have paid for. *)
LEMMA TriesStep ==
  ASSUME DrainInv, DrainInv', TriesInv, [Next]_vars
  PROVE  TriesInv'
<1>0. TypeOK /\ TypeOK' /\ HandFits
  BY DEF DrainInv
<1>1. \A m \in Messages : box[m].attempts \in Nat /\ tries[m] \in Nat
  BY <1>0, CountsTyped
<1>2. ASSUME UNCHANGED <<box, tries>>, \A w \in Workers : Unspent(w)' \subseteq Unspent(w)
      PROVE  TriesInv'
  BY <1>1, <1>2, NothingTried
<1>3. CASE World
  <2>1. CASE UNCHANGED box
    <3>1. UNCHANGED <<memory, tries>>
      BY <1>3 DEF World, QueueTracked, Outdate, ApplyEvent, RevokeOwnDeviceToken, RegisterDevice,
                  InvalidateInvitations, past
    <3> QED
      BY <1>2, <2>1, <3>1 DEF Unspent, Msg, memory
  <2>2. CASE \E m \in Messages : QueueTracked(m)
    <3> PICK m \in Messages : QueueTracked(m)
      BY <2>2
    <3>1. /\ box[m].state = "unused" /\ box'[m].attempts = 0 /\ box'[m].state = "pending"
          /\ \A n \in Messages \ {m} : box'[n] = box[n]
          /\ UNCHANGED <<memory, tries>>
      BY <1>0 DEF QueueTracked, past, TypeOK
    <3>2. tries'[m] = 0
      BY <3>1 DEF TriesInv
    <3>3. ASSUME NEW n \in Messages
          PROVE  /\ tries'[n] <= box'[n].attempts /\ tries'[n] <= MaxAttempts
                 /\ box'[n].state = "unused" => tries'[n] = 0
      BY <3>1, <3>2 DEF TriesInv, MaxAttempts
    <3>4. ASSUME NEW w \in Workers, NEW n \in Unspent(w)'
          PROVE  tries'[n] < box'[n].attempts
      <4>1. n \in Unspent(w) /\ n \in Messages
        BY <3>1, UnspentHeld DEF Unspent, Msg, memory
      <4>2. box[n].state = "claimed"
        BY <4>1, UnspentHeld DEF DrainInv, OneWorkerPerMessage
      <4> QED
        BY <3>1, <4>1, <4>2 DEF TriesInv
    <3> QED
      BY <3>3, <3>4 DEF TriesInv
  <2> QED
    BY <1>3, <2>1, <2>2 DEF World, Outdate, ApplyEvent, RevokeOwnDeviceToken, RegisterDevice,
                            InvalidateInvitations
<1>4. ASSUME NEW w \in Workers, Pending(w) PROVE TriesInv'
  <2> PICK claim \in SUBSET Due :
       /\ box' = [m \in Messages |-> IF m \in claim THEN Claimed(box[m]) ELSE box[m]]
       /\ \E got \in Answers(claim) : batch' = [batch EXCEPT ![w] = got]
    BY <1>4 DEF Pending
  <2> PICK got \in SUBSET claim : batch' = [batch EXCEPT ![w] = got]
    BY DEF Answers
  <2>1. pc[w] = "idle" /\ UNCHANGED <<pc, hand, tries>>
    BY <1>4 DEF Pending, At, past
  <2>2. ASSUME NEW m \in claim
        PROVE  m \in Messages /\ box'[m].attempts = box[m].attempts + 1 /\ box'[m].state = "claimed"
    <3>1. m \in Messages /\ box[m] \in OutboxRow /\ box[m].attempts < MaxAttempts
      BY <1>0 DEF Due, TypeOK
    <3> QED
      BY <1>1, <3>1, RowsAfter DEF MaxAttempts
  <2>3. \A m \in Messages \ claim : box'[m] = box[m]
    OBVIOUS
  <2>4. ASSUME NEW m \in Messages
        PROVE  /\ tries'[m] <= box'[m].attempts /\ tries'[m] <= MaxAttempts
               /\ box'[m].state = "unused" => tries'[m] = 0
    <3>1. /\ tries'[m] = tries[m] /\ tries[m] \in Nat /\ box[m].attempts \in Nat
          /\ tries[m] <= box[m].attempts /\ tries[m] <= MaxAttempts
          /\ box[m].state = "unused" => tries[m] = 0
      BY <1>1, <2>1 DEF TriesInv
    <3>2. CASE m \in claim
      <4>1. box'[m].attempts = box[m].attempts + 1 /\ box'[m].state = "claimed"
        BY <2>2, <3>2
      <4>2. tries[m] <= box[m].attempts + 1
        BY <3>1
      <4> QED BY <3>1, <4>1, <4>2
    <3>3. CASE m \notin claim
      BY <2>3, <3>1, <3>3
    <3> QED BY <3>2, <3>3
  <2>5. ASSUME NEW v \in Workers, NEW m \in Unspent(v)'
        PROVE  tries'[m] < box'[m].attempts
    <3>1. m \in claim \/ (m \in Unspent(v) /\ m \in Messages)
      BY <1>0, <2>1, UnspentHeld DEF Unspent, Msg, TypeOK
    <3> QED
      BY <1>1, <2>1, <2>2, <2>3, <3>1 DEF TriesInv
  <2> QED
    BY <2>4, <2>5 DEF TriesInv
<1>5. ASSUME NEW w \in Workers, MarkSent(w) \/ MarkFailed(w) \/ MarkSuperseded(w) PROVE TriesInv'
  <2> DEFINE m == Msg(w)
  <2>1. /\ m \in Messages /\ m \in Holds(w)
        /\ UNCHANGED <<batch, tries>>
        /\ pc' = [pc EXCEPT ![w] = pc'[w]] /\ pc'[w] \in {"idle", "note_failed", "note_superseded"}
        /\ \A v \in Workers \ {w} : Msg(v)' = Msg(v)
    BY <1>0, <1>5 DEF MarkSent, MarkFailed, MarkSuperseded, At, Done, Goto, past, TypeOK, HandFits,
                      Holds, Delivering, Msg
  <2>2. box[m].state = "claimed" /\ box[m].attempts <= MaxAttempts /\ box[m] \in OutboxRow
    BY <1>0, <2>1 DEF DrainInv, OneWorkerPerMessage, ClaimsCapped, TypeOK
  <2>3. box'[m].attempts >= box[m].attempts /\ box'[m].state # "unused"
    <3>1. CASE MarkFailed(w)
      <4>1. box'[m] = Retry(box[m])
        BY <1>0, <2>1, <3>1 DEF MarkFailed, TypeOK
      <4> QED
        BY <1>1, <2>1, <2>2, <4>1, RowsAfter
    <3>2. CASE MarkSent(w) \/ MarkSuperseded(w)
      <4>1. PICK s \in {"sent", "superseded"} : box' = [box EXCEPT ![m] = [box[m] EXCEPT !.state = s]]
        BY <3>2 DEF MarkSent, MarkSuperseded
      <4>2. [box[m] EXCEPT !.state = s].attempts = box[m].attempts /\ [box[m] EXCEPT !.state = s].state = s
        BY <2>2 DEF OutboxRow
      <4>3. box'[m] = [box[m] EXCEPT !.state = s]
        BY <1>0, <2>1, <4>1 DEF TypeOK
      <4> QED
        BY <1>1, <2>1, <4>2, <4>3
    <3> QED
      BY <1>5, <3>1, <3>2
  <2>4. \A n \in Messages \ {m} : box'[n] = box[n]
    BY <1>0, <1>5 DEF MarkSent, MarkFailed, MarkSuperseded, TypeOK
  <2>5. \A v \in Workers : Unspent(v)' \subseteq Unspent(v)
    BY <1>0, <2>1 DEF Unspent, TypeOK
  <2> HIDE DEF m
  <2> QED
    BY <1>1, <2>1, <2>3, <2>4, <2>5, NothingTried
<1>6. ASSUME NEW w \in Workers, SendEmail(w) \/ (DeviceTokens(w) /\ Tried(w)) PROVE TriesInv'
  <2>1. /\ pc[w] \in {"email", "devices"} /\ Tried(w) /\ UNCHANGED <<box, batch>>
        /\ pc' = [pc EXCEPT ![w] = pc'[w]] /\ pc'[w] \in {"track", "superseded", "failed", "push"}
        /\ \A v \in Workers \ {w} : Msg(v)' = Msg(v)
    <3>1. CASE SendEmail(w)
      BY <1>0, <3>1 DEF SendEmail, At, Goto, rows, TypeOK, Msg
    <3>2. CASE DeviceTokens(w) /\ Tried(w)
      BY <1>0, <3>2 DEF DeviceTokens, At, Goto, rows, TypeOK, Msg
    <3> QED
      BY <1>6, <3>1, <3>2
  <2>2. Unspent(w)' \subseteq batch[w] /\ \A v \in Workers \ {w} : Unspent(v)' \subseteq Unspent(v)
    BY <1>0, <2>1 DEF Unspent, TypeOK
  <2> QED
    BY <2>1, <2>2, OneTried
<1>7. ASSUME NEW w \in Workers, UNCHANGED <<box, tries>>,
             batch' = batch, pc' = [pc EXCEPT ![w] = pc'[w]],
             pc'[w] \in {"email", "devices"} => pc[w] = "check",
             pc'[w] # "check", \A v \in Workers : Msg(v)' = Msg(v) \/ (v = w /\ pc'[v] = "idle")
      PROVE  TriesInv'
  <2>1. \A v \in Workers : Unspent(v)' \subseteq Unspent(v)
    BY <1>0, <1>7 DEF Unspent, TypeOK
  <2> QED
    BY <1>2, <1>7, <2>1
<1>8. ASSUME NEW w \in Workers, Done(w), UNCHANGED <<box, past>> PROVE TriesInv'
  BY <1>0, <1>7, <1>8 DEF Done, Goto, TypeOK, Msg, past
<1>9. ASSUME NEW w \in Workers, UNCHANGED <<box, tries>>, hand' = hand, batch' = batch,
             NEW label \in {"superseded", "failed", "sent", "push", "revoke"}, Goto(w, label)
      PROVE  TriesInv'
  BY <1>0, <1>7, <1>9 DEF Goto, TypeOK, Msg
<1>10. ASSUME NEW w \in Workers, Take(w) PROVE TriesInv'
  <2>1. PICK m \in batch[w] :
          /\ batch' = [batch EXCEPT ![w] = @ \ {m}]
          /\ hand' = [hand EXCEPT ![w] = [EmptyHand EXCEPT !.msg = m]]
    BY <1>10 DEF Take
  <2>2. pc' = [pc EXCEPT ![w] = "check"] /\ UNCHANGED <<box, tries>>
    BY <1>10 DEF Take, Goto, rows, past
  <2>3. [EmptyHand EXCEPT !.msg = m].msg = m
    BY DEF EmptyHand
  <2>4. /\ hand'[w].msg = m /\ batch'[w] = batch[w] \ {m} /\ pc'[w] = "check"
        /\ \A v \in Workers \ {w} : hand'[v] = hand[v] /\ batch'[v] = batch[v] /\ pc'[v] = pc[v]
    BY <1>0, <2>1, <2>2, <2>3 DEF TypeOK
  <2>5. \A v \in Workers : Unspent(v)' \subseteq Unspent(v)
    BY <2>4 DEF Unspent, Msg
  <2> QED
    BY <1>2, <2>2, <2>5
<1>11. ASSUME NEW w \in Workers, StillRelevant(w) PROVE TriesInv'
  <2>1. CASE Done(w)
    BY <1>8, <1>11, <2>1 DEF StillRelevant, rows
  <2>2. CASE Goto(w, Route(w)) /\ UNCHANGED <<batch, hand>>
    <3>1. Route(w) \in {"superseded", "devices", "email"} /\ pc[w] = "check" /\ UNCHANGED <<box, tries>>
      BY <1>11 DEF Route, StillRelevant, At, rows, past
    <3> QED
      BY <1>0, <1>7, <2>2, <3>1 DEF Goto, TypeOK, Msg
  <2> QED
    BY <1>11, <2>1, <2>2 DEF StillRelevant
<1>12. ASSUME NEW w \in Workers, DeviceTokens(w), ~ Tried(w) PROVE TriesInv'
  BY <1>9, <1>12 DEF DeviceTokens, rows
<1>13. ASSUME NEW w \in Workers, PushToken(w) PROVE TriesInv'
  <2>1. /\ UNCHANGED <<box, tries, batch>>
        /\ pc[w] = "push" /\ pc' = [pc EXCEPT ![w] = pc'[w]] /\ pc'[w] \in {"push", "revoke"}
    BY <1>0, <1>13 DEF PushToken, At, Goto, rows, TypeOK
  <2>2. \A v \in Workers \ {w} : Msg(v)' = Msg(v)
    BY <1>0, <1>13 DEF PushToken, TypeOK, Msg
  <2>3. \A v \in Workers : Unspent(v)' \subseteq Unspent(v)
    BY <1>0, <2>1, <2>2 DEF Unspent, TypeOK
  <2> QED
    BY <1>2, <2>1, <2>3
<1>14. ASSUME NEW w \in Workers, UNCHANGED <<box, past, batch>>, Goto(w, "push"),
              hand' = [hand EXCEPT ![w].token = None]
       PROVE  TriesInv'
  <2>1. hand[w] \in Hand
    BY <1>0 DEF TypeOK
  <2>2. [hand[w] EXCEPT !.token = None].msg = hand[w].msg
    BY <2>1 DEF Hand
  <2>3. hand' = [hand EXCEPT ![w] = [hand[w] EXCEPT !.token = None]]
    BY <1>14
  <2>4. \A v \in Workers : Msg(v)' = Msg(v)
    BY <1>0, <2>2, <2>3 DEF TypeOK, Msg
  <2>5. /\ pc' = [pc EXCEPT ![w] = "push"] /\ pc \in [Workers -> Labels]
        /\ UNCHANGED <<box, tries, batch>>
    BY <1>0, <1>14 DEF Goto, TypeOK, past
  <2> QED
    BY <1>7, <2>4, <2>5
<1>15. ASSUME NEW w \in Workers, RevokeDeviceToken(w) PROVE TriesInv'
  BY <1>14, <1>15 DEF RevokeDeviceToken
<1>16. ASSUME NEW w \in Workers, PushDone(w) PROVE TriesInv'
  <2>1. Verdict(hand[w]) \in {"sent", "failed", "superseded"}
    BY DEF Verdict
  <2> QED
    BY <1>9, <1>16, <2>1 DEF PushDone, rows, past
<1>17. ASSUME NEW w \in Workers, Track(w) PROVE TriesInv'
  BY <1>9, <1>17 DEF Track, past
<1>18. ASSUME NEW w \in Workers, NoteFailed(w) \/ NoteSuperseded(w) PROVE TriesInv'
  BY <1>8, <1>18 DEF NoteFailed, NoteSuperseded, Note
<1>19. ASSUME NEW w \in Workers, Stop(w) PROVE TriesInv'
  <2>1. /\ pc' = [pc EXCEPT ![w] = "idle"] /\ hand' = [hand EXCEPT ![w] = EmptyHand]
        /\ batch' = [batch EXCEPT ![w] = {}] /\ UNCHANGED <<box, tries>>
    BY <1>19 DEF Stop, Goto, rows, past
  <2>2. \A v \in Workers : Unspent(v)' \subseteq Unspent(v)
    BY <1>0, <2>1 DEF Unspent, Msg, TypeOK
  <2> QED
    BY <1>2, <2>1, <2>2
<1>20. ASSUME NEW w \in Workers, DbError(w) PROVE TriesInv'
  BY <1>8, <1>9, <1>14, <1>20 DEF DbError, rows, past
<1>21. CASE UNCHANGED vars
  BY <1>2, <1>21 DEF vars, rows, memory, past, Unspent, Msg
<1> QED
  BY <1>3, <1>4, <1>5, <1>6, <1>10, <1>11, <1>12, <1>13, <1>15, <1>16, <1>17, <1>18, <1>19, <1>20, <1>21
  DEF Next, Drain

(* No message is handed to a provider more than five times. *)
THEOREM RetriesCapped == Spec => []RetriesAreCapped
<1>1. Init => TriesInv
  BY DEF Init, TriesInv, Unspent, NoRow, MaxAttempts
<1>2. TriesInv => RetriesAreCapped
  BY DEF TriesInv, RetriesAreCapped
<1> QED
  BY <1>1, <1>2, TriesStep, AlwaysDrainInv, PTL DEF Spec

-----------------------------------------------------------------------------
(***************************************************************************)
(* Proof that the outbox implements the postbox.  PhaseInv says what has     *)
(* been delivered at each point of a pass: nothing of a message that may     *)
(* still be claimed, or that a worker has claimed and not begun to send;     *)
(* and in a push fan-out, nothing to the tokens that are left.               *)
(***************************************************************************)

Fresh(m) == \A d \in Recipients : receipts[m][d] = 0

Waiting == {m \in Messages : box[m].state \in {"unused", "pending"}}

(* The messages a worker has in hand and has delivered to nobody. *)
Untold(w) ==
  batch[w] \cup IF \/ pc[w] \in {"check", "email", "devices", "failed"}
                   \/ pc[w] \in {"push", "revoke"} /\ ~ hand[w].reached
                  THEN {Msg(w)} ELSE {}

(* The tokens a fan-out has still to try. *)
Left(w) == IF pc[w] \in {"push", "revoke"} THEN hand[w].tokens ELSE {}

PhaseInv ==
  /\ \A m \in Waiting : Fresh(m)
  /\ \A w \in Workers : \A m \in Untold(w) : Fresh(m)
  /\ \A w \in Workers : \A t \in Left(w) : receipts[Msg(w)][t] = 0

(* What a worker has yet to deliver, it holds. *)
LEMMA UntoldHeld ==
  ASSUME DrainInv, NEW w \in Workers
  PROVE  /\ Untold(w) \subseteq Holds(w) /\ Holds(w) \subseteq Messages
         /\ Left(w) \subseteq Tokens
         /\ Left(w) # {} => Msg(w) \in Holds(w)
<1>1. hand[w].tokens \subseteq Tokens
  <2>1. hand[w] \in Hand
    BY DEF DrainInv, TypeOK
  <2> QED
    BY <2>1 DEF Hand
<1>2. batch[w] \subseteq Messages
  BY DEF DrainInv, TypeOK
<1> QED
  BY <1>1, <1>2 DEF DrainInv, HandFits, Untold, Left, Holds, Delivering

(* Steps that confirm no delivery. *)
LEMMA NothingTold ==
  ASSUME DrainInv, DrainInv', PhaseInv, UNCHANGED receipts,
         Waiting' \subseteq Waiting \cup {m \in Messages : Fresh(m)},
         \A w \in Workers : Untold(w)' \subseteq Untold(w) \cup Waiting,
         \A w \in Workers : Left(w)' # {} =>
            Msg(w)' = Msg(w) /\ (Left(w)' \subseteq Left(w) \/ Msg(w) \in Untold(w))
  PROVE  PhaseInv'
<1>1. \A m : Fresh(m)' <=> Fresh(m)
  BY DEF Fresh
<1>2. \A m \in Waiting' : Fresh(m)'
  BY <1>1 DEF PhaseInv
<1>3. \A w \in Workers : \A m \in Untold(w)' : Fresh(m)'
  BY <1>1 DEF PhaseInv
<1>4. ASSUME NEW w \in Workers, NEW t \in Left(w)'
      PROVE  receipts'[Msg(w)'][t] = 0
  <2>1. t \in Tokens
    <3>1. hand'[w] \in Hand
      BY DEF DrainInv, TypeOK
    <3> QED
      BY <1>4, <3>1 DEF Left, Hand
  <2>2. Msg(w)' = Msg(w) /\ (t \in Left(w) \/ Fresh(Msg(w)))
    BY DEF PhaseInv
  <2> QED
    BY <2>1, <2>2 DEF PhaseInv, Fresh, Recipients
<1> QED
  BY <1>2, <1>3, <1>4 DEF PhaseInv

(* What a confirmed delivery changes. *)
LEMMA Told ==
  ASSUME TypeOK, NEW m \in Messages, NEW d \in Recipients,
         receipts' = [receipts EXCEPT ![m][d] = @ + 1]
  PROVE  /\ receipts'[m][d] = receipts[m][d] + 1
         /\ \A e \in Recipients \ {d} : receipts'[m][e] = receipts[m][e]
         /\ \A n \in Messages \ {m} : receipts'[n] = receipts[n]
BY DEF TypeOK

(* The two steps that confirm one: the message is in this worker's hands only, *)
(* and the recipient is not tried again. *)
LEMMA OneTold ==
  ASSUME DrainInv, DrainInv', PhaseInv, NEW w \in Workers, NEW d \in Recipients,
         UNCHANGED <<box, batch>>, Confirm(w, d), Delivering(w),
         Untold(w)' \subseteq batch[w],
         Msg(w)' = Msg(w), Left(w)' \subseteq Left(w) \ {d},
         \A v \in Workers \ {w} : pc'[v] = pc[v] /\ hand'[v] = hand[v]
  PROVE  PhaseInv'
<1> DEFINE m == Msg(w)
<1>1. m \in Messages \ batch[w] /\ m \in Holds(w)
  BY DEF Delivering, DrainInv, HandFits, Holds
<1>2. box[m].state = "claimed" /\ \A v \in Workers \ {w} : m \notin Holds(v)
  BY <1>1 DEF DrainInv, OneWorkerPerMessage
<1>3. /\ \A e \in Recipients \ {d} : receipts'[m][e] = receipts[m][e]
      /\ \A n \in Messages \ {m} : receipts'[n] = receipts[n]
  BY <1>1, Told DEF Confirm, DrainInv
<1> HIDE DEF m
<1>4. \A n \in Messages \ {m} : Fresh(n) => Fresh(n)'
  BY <1>3 DEF Fresh
<1>5. \A n \in Waiting' : Fresh(n)'
  BY <1>2, <1>4 DEF Waiting, PhaseInv
<1>6. \A v \in Workers \ {w} : Untold(v)' = Untold(v) /\ Left(v)' = Left(v) /\ Msg(v)' = Msg(v)
  BY DEF Untold, Left, Msg
<1>7. ASSUME NEW v \in Workers, NEW n \in Untold(v)'
      PROVE  Fresh(n)'
  <2>1. n \in Untold(v)
    BY <1>6 DEF Untold
  <2>2. n \in Messages \ {m}
    BY <1>1, <1>2, <1>6, <2>1, UntoldHeld
  <2> QED
    BY <1>4, <2>1, <2>2 DEF PhaseInv
<1>8. ASSUME NEW v \in Workers, NEW t \in Left(v)'
      PROVE  receipts'[Msg(v)'][t] = 0
  <2>1. CASE v = w
    <3>1. t \in Left(w) /\ t # d /\ t \in Recipients
      BY <1>8, <2>1, UntoldHeld DEF Recipients
    <3> QED
      BY <1>3, <2>1, <3>1 DEF PhaseInv, m
  <2>2. CASE v # w
    <3>1. t \in Left(v) /\ Msg(v)' = Msg(v)
      BY <1>6, <1>8, <2>2
    <3>2. Msg(v) \in Messages \ {m}
      BY <1>2, <2>2, <3>1, UntoldHeld
    <3> QED
      BY <1>3, <3>1, <3>2 DEF PhaseInv
  <2> QED
    BY <2>1, <2>2
<1> QED
  BY <1>5, <1>7, <1>8 DEF PhaseInv

(* What a worker writes over the message in its hands. *)
LEMMA MarkWrites ==
  ASSUME DrainInv, NEW w \in Workers, MarkSent(w) \/ MarkFailed(w) \/ MarkSuperseded(w)
  PROVE  /\ Msg(w) \in Messages /\ box[Msg(w)].state = "claimed"
         /\ box'[Msg(w)].state \in Settled \cup {"pending"}
         /\ box'[Msg(w)].state = "pending" => MarkFailed(w)
         /\ \A n \in Messages \ {Msg(w)} : box'[n] = box[n]
<1> DEFINE m == Msg(w)
<1>1. m \in Messages /\ m \in Holds(w)
  BY DEF MarkSent, MarkFailed, MarkSuperseded, At, Holds, Delivering, HandFits, DrainInv
<1>2. box[m].state = "claimed" /\ box[m].attempts <= MaxAttempts /\ box[m] \in OutboxRow
  BY <1>1 DEF DrainInv, OneWorkerPerMessage, ClaimsCapped, TypeOK
<1>3. PICK row : /\ box' = [box EXCEPT ![m] = row] /\ row.state \in Settled \cup {"pending"}
                 /\ row.state = "pending" => MarkFailed(w)
  <2>1. CASE MarkFailed(w)
    BY <1>2, <2>1, RowsAfter DEF MarkFailed, Settled
  <2>2. CASE MarkSent(w) \/ MarkSuperseded(w)
    <3>1. PICK s \in {"sent", "superseded"} : box' = [box EXCEPT ![m] = [box[m] EXCEPT !.state = s]]
      BY <2>2 DEF MarkSent, MarkSuperseded
    <3>2. [box[m] EXCEPT !.state = s].state = s
      BY <1>2 DEF OutboxRow
    <3> QED
      BY <3>1, <3>2 DEF Settled
  <2> QED
    BY <2>1, <2>2
<1> HIDE DEF m
<1>4. box'[m] = row /\ \A n \in Messages \ {m} : box'[n] = box[n]
  BY <1>1, <1>3 DEF DrainInv, TypeOK
<1> QED
  BY <1>1, <1>2, <1>3, <1>4 DEF m

(* The claim takes messages that wait, and only that. *)
LEMMA ClaimTakes ==
  ASSUME DrainInv, NEW w \in Workers, Pending(w)
  PROVE  /\ Waiting' \subseteq Waiting /\ batch'[w] \subseteq Waiting
         /\ \A v \in Workers \ {w} : batch'[v] = batch[v]
         /\ \A m \in Messages : box'[m].state = box[m].state
                                \/ (box[m].state = "pending" /\ box'[m].state = "claimed")
<1>1. PICK claim \in SUBSET Due :
       /\ box' = [m \in Messages |-> IF m \in claim THEN Claimed(box[m]) ELSE box[m]]
       /\ \E got \in Answers(claim) : batch' = [batch EXCEPT ![w] = got]
  BY DEF Pending
<1>2. PICK got \in SUBSET claim : batch' = [batch EXCEPT ![w] = got]
  BY <1>1 DEF Answers
<1>3. batch'[w] = got /\ \A v \in Workers \ {w} : batch'[v] = batch[v]
  BY <1>2 DEF DrainInv, TypeOK
<1>4. ASSUME NEW m \in claim
      PROVE  m \in Messages /\ box[m].state = "pending" /\ box'[m].state = "claimed"
  <2>1. m \in Messages /\ box[m] \in OutboxRow /\ box[m].attempts < MaxAttempts /\ box[m].state = "pending"
    BY DEF Due, DrainInv, TypeOK
  <2>2. box[m].attempts \in Nat
    BY <2>1 DEF OutboxRow, MaxAttempts
  <2> QED
    BY <1>1, <2>1, <2>2, RowsAfter DEF MaxAttempts
<1>5. \A m \in Messages : m \in claim \/ box'[m] = box[m]
  BY <1>1
<1>6. \A m \in Messages : box'[m].state = box[m].state
                          \/ (box[m].state = "pending" /\ box'[m].state = "claimed")
  BY <1>4, <1>5
<1> QED
  BY <1>2, <1>3, <1>4, <1>6 DEF Waiting

(* Every step of every worker, and of the world around them, keeps PhaseInv. *)
LEMMA PhaseStep ==
  ASSUME DrainInv, DrainInv', PhaseInv, [Next]_vars
  PROVE  PhaseInv'
<1>0. TypeOK /\ HandFits
  BY DEF DrainInv
<1>1. ASSUME UNCHANGED <<box, receipts>>,
             \A v \in Workers : Untold(v)' \subseteq Untold(v),
             \A v \in Workers : Left(v)' # {} =>
               Msg(v)' = Msg(v) /\ (Left(v)' \subseteq Left(v) \/ Msg(v) \in Untold(v))
      PROVE  PhaseInv'
  <2>1. Waiting' = Waiting
    BY <1>1 DEF Waiting
  <2> QED
    BY <1>1, <2>1, NothingTold
<1>2. ASSUME UNCHANGED memory
      PROVE  \A v \in Workers : Untold(v)' = Untold(v) /\ Left(v)' = Left(v) /\ Msg(v)' = Msg(v)
  BY <1>2 DEF Untold, Left, Msg, memory
<1>3. CASE World
  <2>1. UNCHANGED <<memory, receipts>>
    BY <1>3 DEF World, QueueTracked, Outdate, ApplyEvent, RevokeOwnDeviceToken, RegisterDevice,
                InvalidateInvitations, past
  <2>2. Waiting' \subseteq Waiting
    <3>1. CASE UNCHANGED box
      BY <3>1 DEF Waiting
    <3>2. CASE \E m \in Messages : QueueTracked(m)
      <4> PICK m \in Messages : QueueTracked(m)
        BY <3>2
      <4>1. box[m].state = "unused" /\ \A n \in Messages \ {m} : box'[n] = box[n]
        BY <1>0 DEF QueueTracked, TypeOK
      <4> QED
        BY <4>1 DEF Waiting
    <3> QED
      BY <1>3, <3>1, <3>2 DEF World, Outdate, ApplyEvent, RevokeOwnDeviceToken, RegisterDevice,
                              InvalidateInvitations
  <2> QED
    BY <1>2, <2>1, <2>2, NothingTold
<1>4. ASSUME NEW w \in Workers, Pending(w) PROVE PhaseInv'
  <2>1. pc[w] = "idle" /\ UNCHANGED <<pc, hand, receipts>>
    BY <1>4 DEF Pending, At, past
  <2>2. \A v \in Workers : Left(v)' = Left(v) /\ Msg(v)' = Msg(v) /\ Untold(v)' \subseteq Untold(v) \cup Waiting
    BY <1>4, <2>1, ClaimTakes DEF Left, Msg, Untold
  <2> QED
    BY <1>4, <2>1, <2>2, ClaimTakes, NothingTold
<1>5. ASSUME NEW w \in Workers, MarkSent(w) \/ MarkFailed(w) \/ MarkSuperseded(w) PROVE PhaseInv'
  <2>1. /\ UNCHANGED <<batch, receipts>>
        /\ pc' = [pc EXCEPT ![w] = pc'[w]] /\ pc'[w] \in {"idle", "note_failed", "note_superseded"}
        /\ \A v \in Workers \ {w} : hand'[v] = hand[v]
    BY <1>0, <1>5 DEF MarkSent, MarkFailed, MarkSuperseded, Done, Goto, past, TypeOK
  <2>2. \A v \in Workers \ {w} : pc'[v] = pc[v]
    BY <1>0, <2>1 DEF TypeOK
  <2>3. \A v \in Workers \ {w} : Untold(v)' = Untold(v) /\ Left(v)' = Left(v) /\ Msg(v)' = Msg(v)
    BY <2>1, <2>2 DEF Untold, Left, Msg
  <2>4. Untold(w)' \subseteq Untold(w) /\ Left(w)' = {}
    BY <2>1 DEF Untold, Left
  <2>5. MarkFailed(w) => Fresh(Msg(w))
    BY DEF MarkFailed, At, PhaseInv, Untold
  <2>6. Waiting' \subseteq Waiting \cup {m \in Messages : Fresh(m)}
    BY <1>5, <2>5, MarkWrites DEF Waiting, Settled
  <2> QED
    BY <2>1, <2>3, <2>4, <2>6, NothingTold
<1>6. ASSUME NEW w \in Workers, UNCHANGED <<box, receipts, batch>>,
             \A v \in Workers \ {w} : pc'[v] = pc[v] /\ hand'[v] = hand[v],
             Untold(w)' \subseteq Untold(w),
             Left(w)' # {} => Msg(w)' = Msg(w) /\ (Left(w)' \subseteq Left(w) \/ Msg(w) \in Untold(w))
      PROVE  PhaseInv'
  <2>1. \A v \in Workers \ {w} : Untold(v)' = Untold(v) /\ Left(v)' = Left(v) /\ Msg(v)' = Msg(v)
    BY <1>6 DEF Untold, Left, Msg
  <2> QED
    BY <1>1, <1>6, <2>1
<1>7. ASSUME NEW w \in Workers, NEW label \in Labels, Goto(w, label)
      PROVE  pc'[w] = label /\ \A v \in Workers \ {w} : pc'[v] = pc[v]
  BY <1>0, <1>7 DEF Goto, TypeOK
<1>8. ASSUME NEW w \in Workers, Done(w), UNCHANGED <<box, past>> PROVE PhaseInv'
  <2>1. /\ pc'[w] = "idle" /\ batch' = batch
        /\ \A v \in Workers \ {w} : pc'[v] = pc[v] /\ hand'[v] = hand[v]
    BY <1>0, <1>8 DEF Done, Goto, TypeOK
  <2>2. Untold(w)' \subseteq Untold(w) /\ Left(w)' = {}
    BY <2>1 DEF Untold, Left
  <2> QED
    BY <1>6, <1>8, <2>1, <2>2 DEF past
<1>9. ASSUME NEW w \in Workers, UNCHANGED <<box, receipts, hand, batch>>,
             NEW label \in {"superseded", "sent", "failed", "devices", "email"}, Goto(w, label),
             label \in {"failed", "devices", "email"} => Msg(w) \in Untold(w)
      PROVE  PhaseInv'
  <2>1. pc'[w] = label /\ \A v \in Workers \ {w} : pc'[v] = pc[v]
    BY <1>7, <1>9 DEF Labels
  <2>2. Untold(w)' \subseteq Untold(w) /\ Left(w)' = {}
    BY <1>9, <2>1 DEF Untold, Left, Msg
  <2> QED
    BY <1>6, <1>9, <2>1, <2>2
<1>10. ASSUME NEW w \in Workers, Take(w) PROVE PhaseInv'
  <2>1. PICK m \in batch[w] :
          /\ batch' = [batch EXCEPT ![w] = @ \ {m}]
          /\ hand' = [hand EXCEPT ![w] = [EmptyHand EXCEPT !.msg = m]]
    BY <1>10 DEF Take
  <2>2. pc' = [pc EXCEPT ![w] = "check"] /\ UNCHANGED <<box, receipts>>
    BY <1>10 DEF Take, Goto, rows, past
  <2>3. [EmptyHand EXCEPT !.msg = m].msg = m
    BY DEF EmptyHand
  <2>4. /\ hand'[w].msg = m /\ batch'[w] = batch[w] \ {m} /\ pc'[w] = "check"
        /\ \A v \in Workers \ {w} : hand'[v] = hand[v] /\ batch'[v] = batch[v] /\ pc'[v] = pc[v]
    BY <1>0, <2>1, <2>2, <2>3 DEF TypeOK
  <2>5. Untold(w)' \subseteq Untold(w) /\ Left(w)' = {}
    BY <2>4 DEF Untold, Left, Msg
  <2>6. \A v \in Workers \ {w} : Untold(v)' = Untold(v) /\ Left(v)' = Left(v) /\ Msg(v)' = Msg(v)
    BY <2>4 DEF Untold, Left, Msg
  <2> QED
    BY <1>1, <2>2, <2>5, <2>6
<1>11. ASSUME NEW w \in Workers, StillRelevant(w) PROVE PhaseInv'
  <2>1. CASE Done(w)
    BY <1>8, <1>11, <2>1 DEF StillRelevant, rows
  <2>2. CASE Goto(w, Route(w)) /\ UNCHANGED <<batch, hand>>
    <3>1. /\ Route(w) \in {"superseded", "devices", "email"} /\ Msg(w) \in Untold(w)
          /\ UNCHANGED <<box, receipts>>
      BY <1>11 DEF Route, StillRelevant, At, rows, past, Untold
    <3> QED
      BY <1>9, <2>2, <3>1
  <2> QED
    BY <1>11, <2>1, <2>2 DEF StillRelevant
<1>12. ASSUME NEW w \in Workers, SendEmail(w) PROVE PhaseInv'
  <2>1. /\ pc[w] = "email" /\ Delivering(w) /\ Msg(w) \in Untold(w)
        /\ UNCHANGED <<box, hand, batch>>
    BY <1>12 DEF SendEmail, At, Delivering, Untold, rows
  <2>2. CASE Goto(w, "track") /\ Confirm(w, Mailbox)
    <3>1. pc'[w] = "track" /\ \A v \in Workers \ {w} : pc'[v] = pc[v] /\ hand'[v] = hand[v]
      BY <1>7, <2>1, <2>2 DEF Labels
    <3>2. Untold(w)' \subseteq batch[w] /\ Left(w)' = {} /\ Msg(w)' = Msg(w) /\ Mailbox \in Recipients
      BY <2>1, <3>1 DEF Untold, Left, Msg, Recipients
    <3> QED
      BY <2>1, <2>2, <3>1, <3>2, OneTold
  <2>3. CASE (Goto(w, "superseded") \/ Goto(w, "failed")) /\ UNCHANGED receipts
    BY <1>9, <2>1, <2>3
  <2> QED
    BY <1>12, <2>2, <2>3 DEF SendEmail
<1>13. ASSUME NEW w \in Workers, DeviceTokens(w) PROVE PhaseInv'
  <2>1. pc[w] = "devices" /\ UNCHANGED <<box, batch, receipts>> /\ Msg(w) \in Untold(w)
    BY <1>13 DEF DeviceTokens, At, rows, Untold
  <2>2. CASE Goto(w, "superseded") /\ UNCHANGED hand
    BY <1>9, <2>1, <2>2
  <2>3. CASE /\ Goto(w, "push")
             /\ hand' = [hand EXCEPT ![w].tokens = {t \in Tokens : device[t] = Row(w).member}]
    <3>1. hand[w] \in Hand
      BY <1>0 DEF TypeOK
    <3>2. /\ hand'[w] = [hand[w] EXCEPT !.tokens = {t \in Tokens : device[t] = Row(w).member}]
          /\ \A v \in Workers \ {w} : hand'[v] = hand[v]
      BY <1>0, <2>3 DEF TypeOK
    <3>3. hand'[w].msg = hand[w].msg
      BY <3>1, <3>2 DEF Hand
    <3>4. pc'[w] = "push" /\ \A v \in Workers \ {w} : pc'[v] = pc[v]
      BY <1>7, <2>3 DEF Labels
    <3>5. Msg(w)' = Msg(w) /\ Untold(w)' \subseteq Untold(w)
      BY <2>1, <3>3, <3>4 DEF Msg, Untold
    <3> QED
      BY <1>6, <2>1, <3>2, <3>4, <3>5
  <2> QED
    BY <1>13, <2>2, <2>3 DEF DeviceTokens
<1>14. ASSUME NEW w \in Workers, PushToken(w) PROVE PhaseInv'
  <2>1. pc[w] = "push" /\ Delivering(w) /\ UNCHANGED <<box, batch>> /\ hand[w] \in Hand
    BY <1>0, <1>14 DEF PushToken, At, Delivering, rows, TypeOK
  <2>2. PICK t \in hand[w].tokens :
          \/ /\ hand' = [hand EXCEPT ![w].tokens = @ \ {t}, ![w].reached = TRUE]
             /\ Confirm(w, t)
             /\ UNCHANGED pc
          \/ /\ hand' = [hand EXCEPT ![w].tokens = @ \ {t}, ![w].token = t]
             /\ Goto(w, "revoke")
             /\ UNCHANGED receipts
          \/ /\ hand' = [hand EXCEPT ![w].tokens = @ \ {t}, ![w].failed = TRUE]
             /\ UNCHANGED <<pc, receipts>>
    BY <1>14 DEF PushToken
  <2>3. t \in Recipients
    BY <2>1 DEF Hand, Recipients
  <2>4. ASSUME hand' = [hand EXCEPT ![w].tokens = @ \ {t}, ![w].reached = TRUE], Confirm(w, t), UNCHANGED pc
        PROVE  PhaseInv'
    <3>1. hand'[w] = [hand[w] EXCEPT !.tokens = @ \ {t}, !.reached = TRUE]
          /\ \A v \in Workers \ {w} : hand'[v] = hand[v]
      BY <1>0, <2>4 DEF TypeOK
    <3>2. hand'[w].msg = hand[w].msg /\ hand'[w].tokens = hand[w].tokens \ {t} /\ hand'[w].reached = TRUE
      BY <2>1, <3>1 DEF Hand
    <3>3. Untold(w)' \subseteq batch[w] /\ Left(w)' \subseteq Left(w) \ {t} /\ Msg(w)' = Msg(w)
      BY <2>1, <2>4, <3>2 DEF Untold, Left, Msg
    <3> QED
      BY <2>1, <2>3, <2>4, <3>1, <3>3, OneTold
  <2>5. ASSUME \/ /\ hand' = [hand EXCEPT ![w].tokens = @ \ {t}, ![w].token = t]
                  /\ Goto(w, "revoke")
               \/ /\ hand' = [hand EXCEPT ![w].tokens = @ \ {t}, ![w].failed = TRUE]
                  /\ UNCHANGED pc,
               UNCHANGED receipts
        PROVE  PhaseInv'
    <3>1. /\ \/ hand'[w] = [hand[w] EXCEPT !.tokens = @ \ {t}, !.token = t]
             \/ hand'[w] = [hand[w] EXCEPT !.tokens = @ \ {t}, !.failed = TRUE]
          /\ \A v \in Workers \ {w} : hand'[v] = hand[v]
      BY <1>0, <2>5 DEF TypeOK
    <3>2. hand'[w].msg = hand[w].msg /\ hand'[w].tokens = hand[w].tokens \ {t} /\ hand'[w].reached = hand[w].reached
      <4>1. hand[w] \in Hand
        BY <2>1
      <4>2. CASE hand'[w] = [hand[w] EXCEPT !.tokens = @ \ {t}, !.token = t]
        BY <4>1, <4>2 DEF Hand
      <4>3. CASE hand'[w] = [hand[w] EXCEPT !.tokens = @ \ {t}, !.failed = TRUE]
        BY <4>1, <4>3 DEF Hand
      <4> QED BY <3>1, <4>2, <4>3
    <3>3. pc'[w] \in {"push", "revoke"} /\ \A v \in Workers \ {w} : pc'[v] = pc[v]
      BY <1>7, <2>1, <2>5 DEF Labels
    <3>4. Untold(w)' \subseteq Untold(w) /\ Left(w)' \subseteq Left(w) /\ Msg(w)' = Msg(w)
      BY <2>1, <3>2, <3>3 DEF Untold, Left, Msg
    <3> QED
      BY <1>6, <2>1, <2>5, <3>1, <3>3, <3>4
  <2> QED
    BY <2>2, <2>4, <2>5
<1>15. ASSUME NEW w \in Workers, At(w, "revoke"), Goto(w, "push"),
              hand' = [hand EXCEPT ![w].token = None], UNCHANGED <<box, batch, past>>
       PROVE  PhaseInv'
  <2>1. hand[w] \in Hand
    BY <1>0 DEF TypeOK
  <2>2. hand'[w] = [hand[w] EXCEPT !.token = None] /\ \A v \in Workers \ {w} : hand'[v] = hand[v]
    BY <1>0, <1>15 DEF TypeOK
  <2>3. hand'[w].msg = hand[w].msg /\ hand'[w].tokens = hand[w].tokens /\ hand'[w].reached = hand[w].reached
    BY <2>1, <2>2 DEF Hand
  <2>4. pc[w] = "revoke" /\ pc'[w] = "push" /\ \A v \in Workers \ {w} : pc'[v] = pc[v]
    BY <1>7, <1>15 DEF Labels, At
  <2>5. Untold(w)' \subseteq Untold(w) /\ Left(w)' \subseteq Left(w) /\ Msg(w)' = Msg(w)
    BY <1>15, <2>3, <2>4 DEF Untold, Left, Msg
  <2> QED
    BY <1>6, <1>15, <2>2, <2>4, <2>5 DEF past
<1>16. ASSUME NEW w \in Workers, PushDone(w) PROVE PhaseInv'
  <2>1. /\ Verdict(hand[w]) \in {"sent", "failed", "superseded"}
        /\ Verdict(hand[w]) = "failed" => Msg(w) \in Untold(w)
    BY <1>16 DEF Verdict, PushDone, At, Untold
  <2> QED
    BY <1>9, <1>16, <2>1 DEF PushDone, rows, past
<1>17. ASSUME NEW w \in Workers, Track(w) PROVE PhaseInv'
  BY <1>9, <1>17 DEF Track, past
<1>18. ASSUME NEW w \in Workers, RevokeDeviceToken(w) PROVE PhaseInv'
  BY <1>15, <1>18 DEF RevokeDeviceToken
<1>19. ASSUME NEW w \in Workers, NoteFailed(w) \/ NoteSuperseded(w) PROVE PhaseInv'
  BY <1>8, <1>19 DEF NoteFailed, NoteSuperseded, Note
<1>20. ASSUME NEW w \in Workers, Stop(w) PROVE PhaseInv'
  <2>1. /\ pc' = [pc EXCEPT ![w] = "idle"] /\ hand' = [hand EXCEPT ![w] = EmptyHand]
        /\ batch' = [batch EXCEPT ![w] = {}] /\ UNCHANGED <<box, receipts>>
    BY <1>20 DEF Stop, Goto, rows, past
  <2>2. /\ pc'[w] = "idle" /\ batch'[w] = {}
        /\ \A v \in Workers \ {w} : hand'[v] = hand[v] /\ batch'[v] = batch[v] /\ pc'[v] = pc[v]
    BY <1>0, <2>1 DEF TypeOK
  <2>3. Untold(w)' = {} /\ Left(w)' = {}
    BY <2>2 DEF Untold, Left
  <2>4. \A v \in Workers \ {w} : Untold(v)' = Untold(v) /\ Left(v)' = Left(v) /\ Msg(v)' = Msg(v)
    BY <2>2 DEF Untold, Left, Msg
  <2> QED
    BY <1>1, <2>1, <2>3, <2>4
<1>21. ASSUME NEW w \in Workers, DbError(w) PROVE PhaseInv'
  BY <1>8, <1>9, <1>15, <1>21 DEF DbError, rows, past
<1>22. CASE UNCHANGED vars
  BY <1>1, <1>2, <1>22 DEF vars, rows, memory, past
<1> QED
  BY <1>3, <1>4, <1>5, <1>10, <1>11, <1>12, <1>13, <1>14, <1>16, <1>17, <1>18, <1>19, <1>20, <1>21, <1>22
  DEF Next, Drain

-----------------------------------------------------------------------------
(* A confirmed delivery is the postbox delivering. *)
LEMMA ConfirmDelivers ==
  ASSUME DrainInv, NEW w \in Workers, Delivering(w), NEW d \in Recipients,
         receipts[Msg(w)][d] = 0, Confirm(w, d), UNCHANGED box
  PROVE  Letters!PostboxNext
<1> DEFINE m == Msg(w)
<1>1. m \in Messages /\ m \in Holds(w)
  BY DEF Delivering, DrainInv, HandFits, Holds
<1>2. box[m].state = "claimed"
  BY <1>1 DEF DrainInv, OneWorkerPerMessage
<1>3. Stage[m] = "open" /\ UNCHANGED Stage
  BY <1>1, <1>2 DEF Stage, Settled
<1>4. receipts' = [receipts EXCEPT ![m][d] = 1]
  BY DEF Confirm
<1>5. Letters!Deliver(m, d)
  BY <1>3, <1>4 DEF Letters!Deliver
<1> QED
  BY <1>1, <1>5 DEF Letters!PostboxNext

(* Every step posts, delivers, closes, or changes nothing the postbox sees. *)
LEMMA OutboxStep ==
  ASSUME DrainInv, PhaseInv, [Next]_vars
  PROVE  [Letters!PostboxNext]_Letters!postboxVars
<1>0. TypeOK /\ HandFits
  BY DEF DrainInv
<1>1. ASSUME UNCHANGED receipts, \A m \in Messages : Stage'[m] = Stage[m]
      PROVE  UNCHANGED Letters!postboxVars
  BY <1>1 DEF Letters!postboxVars, Stage
<1>2. ASSUME UNCHANGED <<box, receipts>> PROVE UNCHANGED Letters!postboxVars
  BY <1>2 DEF Letters!postboxVars, Stage
<1>3. CASE World
  <2>1. CASE UNCHANGED box
    BY <1>2, <1>3, <2>1 DEF World, QueueTracked, Outdate, ApplyEvent, RevokeOwnDeviceToken,
                            RegisterDevice, InvalidateInvitations, past
  <2>2. CASE \E m \in Messages : QueueTracked(m)
    <3> PICK m \in Messages : QueueTracked(m)
      BY <2>2
    <3>1. /\ box[m].state = "unused" /\ box'[m].state = "pending"
          /\ \A n \in Messages \ {m} : box'[n] = box[n]
          /\ UNCHANGED receipts
      BY <1>0 DEF QueueTracked, TypeOK, past
    <3>2. Stage[m] = "blank" /\ Stage'[m] = "open" /\ \A n \in Messages \ {m} : Stage'[n] = Stage[n]
      BY <3>1 DEF Stage, Settled
    <3>3. Stage' = [Stage EXCEPT ![m] = "open"]
      BY <3>2 DEF Stage
    <3>4. Letters!Post(m)
      BY <3>1, <3>2, <3>3 DEF Letters!Post
    <3> QED
      BY <3>4 DEF Letters!PostboxNext
  <2> QED
    BY <1>3, <2>1, <2>2 DEF World, Outdate, ApplyEvent, RevokeOwnDeviceToken, RegisterDevice,
                            InvalidateInvitations
<1>4. ASSUME NEW w \in Workers, Pending(w) PROVE UNCHANGED Letters!postboxVars
  <2>1. \A m \in Messages : Stage'[m] = Stage[m]
    BY <1>4, ClaimTakes DEF Stage, Settled
  <2> QED
    BY <1>1, <1>4, <2>1 DEF Pending, past
<1>5. ASSUME NEW w \in Workers, MarkSent(w) \/ MarkFailed(w) \/ MarkSuperseded(w)
      PROVE  Letters!PostboxNext \/ UNCHANGED Letters!postboxVars
  <2> DEFINE m == Msg(w)
  <2>1. /\ m \in Messages /\ box[m].state = "claimed"
        /\ box'[m].state \in Settled \cup {"pending"}
        /\ \A n \in Messages \ {m} : box'[n] = box[n]
    BY <1>5, MarkWrites
  <2>2. UNCHANGED receipts
    BY <1>5 DEF MarkSent, MarkFailed, MarkSuperseded, past
  <2> HIDE DEF m
  <2>3. Stage[m] = "open" /\ Stage'[m] \in {"open", "closed"} /\ \A n \in Messages \ {m} : Stage'[n] = Stage[n]
    BY <2>1 DEF Stage, Settled
  <2>4. CASE Stage'[m] = "open"
    BY <1>1, <2>2, <2>3, <2>4
  <2>5. CASE Stage'[m] = "closed"
    <3>1. Stage' = [Stage EXCEPT ![m] = "closed"]
      BY <2>3, <2>5 DEF Stage
    <3>2. Letters!Close(m)
      BY <2>2, <2>3, <3>1 DEF Letters!Close
    <3> QED
      BY <2>1, <3>2 DEF Letters!PostboxNext
  <2> QED
    BY <2>3, <2>4, <2>5
<1>6. ASSUME NEW w \in Workers, SendEmail(w)
      PROVE  Letters!PostboxNext \/ UNCHANGED Letters!postboxVars
  <2>1. CASE Confirm(w, Mailbox)
    <3>1. Delivering(w) /\ Msg(w) \in Untold(w) /\ UNCHANGED box /\ Mailbox \in Recipients
      BY <1>6 DEF SendEmail, At, Delivering, Untold, rows, Recipients
    <3>2. receipts[Msg(w)][Mailbox] = 0
      BY <3>1 DEF PhaseInv, Fresh
    <3> QED
      BY <2>1, <3>1, <3>2, ConfirmDelivers
  <2>2. CASE UNCHANGED receipts
    BY <1>2, <1>6, <2>2 DEF SendEmail, rows
  <2> QED
    BY <1>6, <2>1, <2>2 DEF SendEmail
<1>7. ASSUME NEW w \in Workers, PushToken(w)
      PROVE  Letters!PostboxNext \/ UNCHANGED Letters!postboxVars
  <2>1. Delivering(w) /\ Left(w) = hand[w].tokens /\ UNCHANGED box
    BY <1>7 DEF PushToken, At, Delivering, Left, rows
  <2>2. PICK t \in hand[w].tokens : Confirm(w, t) \/ UNCHANGED receipts
    BY <1>7 DEF PushToken
  <2>3. t \in Recipients /\ receipts[Msg(w)][t] = 0
    BY <2>1, UntoldHeld DEF Recipients, PhaseInv
  <2> QED
    BY <1>2, <2>1, <2>2, <2>3, ConfirmDelivers
<1>8. ASSUME NEW w \in Workers,
             \/ Take(w) \/ StillRelevant(w) \/ DeviceTokens(w) \/ RevokeDeviceToken(w) \/ PushDone(w)
             \/ Track(w) \/ NoteFailed(w) \/ NoteSuperseded(w) \/ Stop(w) \/ DbError(w)
      PROVE  UNCHANGED Letters!postboxVars
  <2>1. UNCHANGED <<box, receipts>>
    BY <1>8 DEF Take, StillRelevant, DeviceTokens, RevokeDeviceToken, PushDone, Track, NoteFailed,
                NoteSuperseded, Note, Stop, DbError, rows, past
  <2> QED
    BY <1>2, <2>1
<1>9. CASE UNCHANGED vars
  BY <1>2, <1>9 DEF vars, rows, past
<1> QED
  BY <1>3, <1>4, <1>5, <1>6, <1>7, <1>8, <1>9 DEF Next, Drain

(* Whatever workers claim, retry, stop and lose, a recipient is known to have *)
(* had a message once at most, and a settled message never moves again. *)
THEOREM OutboxImplementsPostbox == Spec => ImplementsPostbox
<1>1. Init => PhaseInv /\ Letters!PostboxInit
  <2> SUFFICES ASSUME Init PROVE PhaseInv /\ Letters!PostboxInit
    OBVIOUS
  <2>1. \A m \in Messages : Fresh(m) /\ Stage[m] = "blank"
    BY DEF Init, Fresh, Stage, NoRow
  <2>2. \A w \in Workers : Untold(w) = {} /\ Left(w) = {}
    BY DEF Init, Untold, Left
  <2>3. Stage = [m \in Messages |-> "blank"]
    BY <2>1 DEF Stage
  <2>4. receipts = [m \in Messages |-> [d \in Recipients |-> 0]]
    BY DEF Init
  <2> QED
    BY <2>1, <2>2, <2>3, <2>4 DEF PhaseInv, Waiting, Letters!PostboxInit
<1>2. Spec => []PhaseInv
  BY <1>1, PhaseStep, AlwaysDrainInv, PTL DEF Spec
<1> QED
  BY <1>1, <1>2, OutboxStep, AlwaysDrainInv, PTL DEF Spec, ImplementsPostbox, Letters!PostboxSpec
=============================================================================
