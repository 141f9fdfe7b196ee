--------------------------- MODULE SessionProofs ---------------------------
(***************************************************************************)
(* Proofs about the sessions, for any number of calls, accounts, tokens and *)
(* instants.                                                                *)
(*                                                                         *)
(* TypeOK is not inductive by itself: what a step writes is taken from what *)
(* its call has read, so SessionsInv adds what a call must have read before *)
(* each of its statements (Fits), and that a live token has an owner.        *)
(***************************************************************************)
EXTENDS Sessions, Integers, TLAPS

(* What a call about to make the statement label has read. *)
Fits(label, r) ==
  /\ label # "idle" => r.user \in Accounts
  /\ label \in {"sign", "save", "promote"} => r.role \in Roles
  /\ label = "reload" => r.token \in Refreshes
  /\ label \in {"sign", "save"} => r.token \in Refreshes \cup {None}
  /\ label = "holder" => r.token \in Resets
  /\ label \in {"change", "update"} => r.token \in Resets \cup {None}
  /\ label \in {"idle", "link", "promote", "revoke"} => r.token = None

CallsFit == \A c \in Calls : Fits(pc[c], call[c])

LiveAreOwned ==
  /\ \A t \in Refreshes : refresh[t].state = "live" => refresh[t].owner \in Accounts
  /\ \A k \in Resets : reset[k].state = "live" => reset[k].owner \in Accounts

SessionsInv == TypeOK /\ CallsFit /\ LiveAreOwned

-----------------------------------------------------------------------------
(* The parts of TypeOK that a call's own step changes. *)
CallTypes == pc \in [Calls -> Labels] /\ call \in [Calls -> Request] /\ CallsFit
TokenTypes ==
  /\ refresh \in [Refreshes -> RefreshRow]
  /\ reset \in [Resets -> ResetRow]
  /\ LiveAreOwned
OtherTypes ==
  /\ account \in [Accounts -> AccountRow]
  /\ access \subseteq AccessToken
  /\ clock \in 0 .. MaxClock
  /\ answered \in [Accounts -> 0 .. MaxEpoch]
  /\ used \in [Tokens -> Nat]
  /\ voided \in [Accounts -> SUBSET (0 .. MaxClock)]

LEMMA InParts ==
  /\ SessionsInv <=> CallTypes /\ TokenTypes /\ OtherTypes
  /\ SessionsInv' <=> CallTypes' /\ TokenTypes' /\ OtherTypes'
BY DEF SessionsInv, TypeOK, CallTypes, TokenTypes, OtherTypes

LEMMA NoneIsNoName == None \notin Accounts /\ None \notin Tokens
BY SessionsAssumption DEF Tokens

LEMMA NoCallFits == NoCall \in Request /\ Fits("idle", NoCall)
<1>1. 0 \in 0 .. MaxClock /\ 0 \in 0 .. MaxEpoch
  BY SessionsAssumption
<1> QED
  BY <1>1 DEF NoCall, Request, Fits

(* One call goes on to another statement with what it has read by then. *)
LEMMA CallGoesOn ==
  ASSUME CallTypes, NEW c \in Calls, NEW label \in Labels, NEW r \in Request, Fits(label, r),
         pc' = [pc EXCEPT ![c] = label], call' = [call EXCEPT ![c] = r]
  PROVE  CallTypes'
<1>1. pc' \in [Calls -> Labels] /\ call' \in [Calls -> Request]
  BY DEF CallTypes
<1>2. ASSUME NEW d \in Calls PROVE Fits(pc'[d], call'[d])
  BY DEF CallTypes, CallsFit
<1> QED
  BY <1>1, <1>2 DEF CallTypes, CallsFit

LEMMA CallGoesOnAsItIs ==
  ASSUME CallTypes, NEW c \in Calls, NEW label \in Labels, Fits(label, call[c]),
         pc' = [pc EXCEPT ![c] = label], UNCHANGED call
  PROVE  CallTypes'
<1>1. pc' \in [Calls -> Labels] /\ call' \in [Calls -> Request]
  BY DEF CallTypes
<1>2. ASSUME NEW d \in Calls PROVE Fits(pc'[d], call'[d])
  BY DEF CallTypes, CallsFit
<1> QED
  BY <1>1, <1>2 DEF CallTypes, CallsFit

LEMMA CallEnds ==
  ASSUME CallTypes, NEW c \in Calls, Done(c)
  PROVE  CallTypes'
<1>1. "idle" \in Labels
  BY DEF Labels
<1> QED
  BY <1>1, NoCallFits, CallGoesOn DEF Done, Goto

LEMMA VoidedTyped ==
  ASSUME OtherTypes, NEW u \in Accounts, Voids(u)
  PROVE  voided' \in [Accounts -> SUBSET (0 .. MaxClock)]
BY DEF OtherTypes, Voids

LEMMA CallsStay == CallTypes /\ UNCHANGED <<pc, call>> => CallTypes'
BY DEF CallTypes, CallsFit

LEMMA TokensStay == TokenTypes /\ UNCHANGED <<refresh, reset>> => TokenTypes'
BY DEF TokenTypes, LiveAreOwned

LEMMA OthersStay ==
  OtherTypes /\ UNCHANGED <<account, access, clock, answered, used, voided>> => OtherTypes'
BY DEF OtherTypes

(* What a call is known to have read at a statement. *)
LEMMA CallRead ==
  ASSUME CallTypes, NEW c \in Calls
  PROVE  /\ call[c] \in Request /\ Fits(pc[c], call[c]) /\ pc[c] \in Labels
         /\ pc[c] # "idle" => call[c].user \in Accounts
BY DEF CallTypes, CallsFit, Fits

(* Tokens are spent, never changed otherwise. *)
LEMMA RefreshesSpent ==
  ASSUME TokenTypes, NEW S \in SUBSET Refreshes, UNCHANGED reset,
         refresh' = [t \in Refreshes |-> IF t \in S THEN Spent(refresh[t]) ELSE refresh[t]]
  PROVE  TokenTypes'
<1>1. \A t \in Refreshes : refresh'[t] \in RefreshRow
  BY DEF TokenTypes, Spent, RefreshRow
<1>2. \A t \in Refreshes : refresh'[t].state = "live" => refresh'[t] = refresh[t]
  BY DEF TokenTypes, Spent, RefreshRow
<1> QED
  BY <1>1, <1>2 DEF TokenTypes, LiveAreOwned

LEMMA ResetsSpent ==
  ASSUME TokenTypes, NEW S \in SUBSET Resets, UNCHANGED refresh,
         reset' = [k \in Resets |-> IF k \in S THEN Spent(reset[k]) ELSE reset[k]]
  PROVE  TokenTypes'
<1>1. \A k \in Resets : reset'[k] \in ResetRow
  BY DEF TokenTypes, Spent, ResetRow
<1>2. \A k \in Resets : reset'[k].state = "live" => reset'[k] = reset[k]
  BY DEF TokenTypes, Spent, ResetRow
<1> QED
  BY <1>1, <1>2 DEF TokenTypes, LiveAreOwned

LEMMA RefreshSpent ==
  ASSUME TokenTypes, NEW t \in Refreshes, UNCHANGED reset,
         refresh' = [refresh EXCEPT ![t] = Spent(@)]
  PROVE  TokenTypes'
<1>1. refresh' = [s \in Refreshes |-> IF s \in {t} THEN Spent(refresh[s]) ELSE refresh[s]]
  BY DEF TokenTypes
<1> QED
  BY <1>1, RefreshesSpent

LEMMA ResetSpent ==
  ASSUME TokenTypes, NEW k \in Resets, UNCHANGED refresh,
         reset' = [reset EXCEPT ![k] = Spent(@)]
  PROVE  TokenTypes'
<1>1. reset' = [s \in Resets |-> IF s \in {k} THEN Spent(reset[s]) ELSE reset[s]]
  BY DEF TokenTypes
<1> QED
  BY <1>1, ResetsSpent

-----------------------------------------------------------------------------
(* The invariant is kept, action by action. *)

LEMMA LoginTypes ==
  ASSUME SessionsInv, NEW c \in Calls, Login(c) PROVE SessionsInv'
<1> USE InParts
<1>1. PICK u \in Accounts :
        Begin(c, "sign", [NoCall EXCEPT !.user = u, !.role = account[u].role,
                                        !.pending = account[u].mustChange,
                                        !.epoch = account[u].epoch])
  BY DEF Login
<1> DEFINE r == [NoCall EXCEPT !.user = u, !.role = account[u].role,
                               !.pending = account[u].mustChange, !.epoch = account[u].epoch]
<1>2. account[u] \in AccountRow
  BY DEF OtherTypes
<1>3. r \in Request /\ Fits("sign", r)
  BY <1>2, NoCallFits DEF AccountRow, NoCall, Request, Fits
<1>4. CallTypes'
  BY <1>1, <1>3, CallGoesOn DEF Begin, Goto, Labels
<1>5. TokenTypes' /\ OtherTypes'
  BY TokensStay, OthersStay DEF Login, rows, past
<1> QED
  BY <1>4, <1>5

LEMMA IssueTypes ==
  ASSUME SessionsInv, NEW c \in Calls, IssueAccessToken(c) PROVE SessionsInv'
<1> USE InParts
<1> DEFINE r == [call[c] EXCEPT !.at = clock]
<1>1. call[c] \in Request /\ Fits("sign", call[c])
  BY CallRead DEF IssueAccessToken, At
<1>2. r \in Request /\ Fits("save", r)
  BY <1>1 DEF OtherTypes, Request, Fits
<1>3. call' = [call EXCEPT ![c] = r]
  BY DEF IssueAccessToken, CallTypes
<1>4. CallTypes'
  BY <1>2, <1>3, CallGoesOn DEF IssueAccessToken, Goto, Labels
<1>5. TokenTypes' /\ OtherTypes'
  BY TokensStay, OthersStay DEF IssueAccessToken, rows, past
<1> QED
  BY <1>4, <1>5

LEMMA SaveTypes ==
  ASSUME SessionsInv, NEW c \in Calls, SaveRefreshToken(c) PROVE SessionsInv'
<1> USE InParts
<1>1. call[c] \in Request /\ Fits("save", call[c])
  BY CallRead DEF SaveRefreshToken, At
<1>2. call[c].user \in Accounts /\ call[c].role \in Roles
  BY <1>1 DEF Fits
<1>3. CallTypes'
  BY CallEnds DEF SaveRefreshToken
<1>4. TokenTypes'
  <2>1. PICK t \in Refreshes, started \in call[c].at .. clock :
          refresh' = [refresh EXCEPT ![t] =
                        [state |-> "live", owner |-> call[c].user, created |-> started,
                         epoch |-> call[c].epoch, late |-> call[c].late]]
    BY DEF SaveRefreshToken
  <2>6. started \in 0 .. MaxClock
    BY <1>1, SessionsAssumption DEF OtherTypes, Request
  <2>2. refresh'[t] \in RefreshRow /\ refresh'[t].owner \in Accounts
    BY <1>1, <1>2, <2>1, <2>6 DEF TokenTypes, Request, RefreshRow
  <2>3. \A s \in Refreshes \ {t} : refresh'[s] = refresh[s]
    BY <2>1 DEF TokenTypes
  <2>4. refresh' \in [Refreshes -> RefreshRow]
    BY <2>1, <2>2, <2>3 DEF TokenTypes
  <2>5. UNCHANGED reset
    BY DEF SaveRefreshToken
  <2> QED
    BY <2>2, <2>3, <2>4, <2>5 DEF TokenTypes, LiveAreOwned
<1>5. OtherTypes'
  <2>1. [user |-> call[c].user, role |-> call[c].role, pending |-> call[c].pending,
         signed |-> call[c].at] \in AccessToken
    BY <1>1, <1>2 DEF Request, AccessToken
  <2>2. access' \subseteq AccessToken
    BY <2>1 DEF SaveRefreshToken, OtherTypes
  <2>3. used' \in [Tokens -> Nat]
    BY DEF SaveRefreshToken, Honour, OtherTypes
  <2> QED
    BY <2>2, <2>3 DEF SaveRefreshToken, OtherTypes
<1> QED
  BY <1>3, <1>4, <1>5

LEMMA ConsumeTypes ==
  ASSUME SessionsInv, NEW c \in Calls, ConsumeRefreshToken(c) PROVE SessionsInv'
<1> USE InParts
<1>1. PICK t \in Refreshes :
        /\ Usable(t)
        /\ refresh' = [refresh EXCEPT ![t] = Spent(@)]
        /\ Begin(c, "reload", [NoCall EXCEPT !.user = refresh[t].owner, !.token = t,
                                             !.epoch = refresh[t].epoch,
                                             !.late = refresh[t].late])
  BY DEF ConsumeRefreshToken
<1> DEFINE r == [NoCall EXCEPT !.user = refresh[t].owner, !.token = t,
                               !.epoch = refresh[t].epoch, !.late = refresh[t].late]
<1>2. refresh[t] \in RefreshRow /\ refresh[t].owner \in Accounts
  BY <1>1 DEF Usable, TokenTypes, LiveAreOwned
<1>3. r \in Request /\ Fits("reload", r)
  BY <1>2, NoCallFits DEF RefreshRow, NoCall, Request, Fits, Tokens
<1>4. CallTypes'
  BY <1>1, <1>3, CallGoesOn DEF Begin, Goto, Labels
<1>5. TokenTypes'
  BY <1>1, RefreshSpent DEF ConsumeRefreshToken
<1>6. OtherTypes'
  BY OthersStay DEF ConsumeRefreshToken, past
<1> QED
  BY <1>4, <1>5, <1>6

LEMMA RefreshTypes ==
  ASSUME SessionsInv, NEW c \in Calls, Refresh(c) PROVE SessionsInv'
<1> USE InParts
<1> DEFINE r == WithRow(call[c], User(c))
<1>1. call[c] \in Request /\ Fits("reload", call[c])
  BY CallRead DEF Refresh, At
<1>2. User(c) \in AccountRow
  BY <1>1 DEF Fits, User, OtherTypes
<1>3. r \in Request /\ Fits("sign", r)
  BY <1>1, <1>2 DEF WithRow, Request, AccountRow, Fits
<1>4. CallTypes'
  <2>1. CASE Goto(c, "sign") /\ call' = [call EXCEPT ![c] = WithRow(@, User(c))]
    <3>1. call' = [call EXCEPT ![c] = r]
      BY <2>1 DEF CallTypes
    <3> QED
      BY <2>1, <3>1, <1>3, CallGoesOn DEF Goto, Labels
  <2>2. CASE Done(c)
    BY <2>2, CallEnds
  <2> QED
    BY <2>1, <2>2 DEF Refresh
<1>5. TokenTypes' /\ OtherTypes'
  BY TokensStay, OthersStay DEF Refresh, rows, past
<1> QED
  BY <1>4, <1>5

LEMMA ChangeTypes ==
  ASSUME SessionsInv, NEW c \in Calls, ChangePassword(c) PROVE SessionsInv'
<1> USE InParts
<1>1. PICK j \in access : Begin(c, "change", [NoCall EXCEPT !.user = j.user])
  BY DEF ChangePassword
<1>2. j.user \in Accounts
  BY DEF OtherTypes, AccessToken
<1>3. [NoCall EXCEPT !.user = j.user] \in Request
      /\ Fits("change", [NoCall EXCEPT !.user = j.user])
  BY <1>2, NoCallFits DEF NoCall, Request, Fits
<1>4. CallTypes'
  BY <1>1, <1>3, CallGoesOn DEF Begin, Goto, Labels
<1>5. TokenTypes' /\ OtherTypes'
  BY TokensStay, OthersStay DEF ChangePassword, rows, past
<1> QED
  BY <1>4, <1>5

(* A link is asked for, by the holder or by a librarian. *)
LEMMA LinkBegins ==
  ASSUME CallTypes, NEW c \in Calls, NEW u \in Accounts,
         Begin(c, "link", [NoCall EXCEPT !.user = u])
  PROVE  CallTypes'
<1>1. [NoCall EXCEPT !.user = u] \in Request /\ Fits("link", [NoCall EXCEPT !.user = u])
  BY NoCallFits DEF NoCall, Request, Fits
<1> QED
  BY <1>1, CallGoesOn DEF Begin, Goto, Labels

LEMMA ForgotTypes ==
  ASSUME SessionsInv, NEW c \in Calls, ForgotPassword(c) PROVE SessionsInv'
<1> USE InParts
<1>1. CallTypes'
  BY LinkBegins DEF ForgotPassword
<1>2. TokenTypes' /\ OtherTypes'
  BY TokensStay, OthersStay DEF ForgotPassword, rows, past
<1> QED
  BY <1>1, <1>2

LEMMA InvalidateTypes ==
  ASSUME SessionsInv, NEW c \in Calls, InvalidatePasswordResets(c) PROVE SessionsInv'
<1> USE InParts
<1>1. PICK u \in Accounts :
        /\ reset' = [k \in Resets |-> IF reset[k].state = "live" /\ reset[k].owner = u
                                      THEN Spent(reset[k]) ELSE reset[k]]
        /\ Begin(c, "link", [NoCall EXCEPT !.user = u])
  BY DEF InvalidatePasswordResets
<1>2. CallTypes'
  BY <1>1, LinkBegins
<1>3. TokenTypes'
  <2> DEFINE S == {k \in Resets : reset[k].state = "live" /\ reset[k].owner = u}
  <2>1. reset' = [k \in Resets |-> IF k \in S THEN Spent(reset[k]) ELSE reset[k]]
    BY <1>1
  <2>2. S \in SUBSET Resets
    OBVIOUS
  <2> HIDE DEF S
  <2> QED
    BY <2>1, <2>2, ResetsSpent DEF InvalidatePasswordResets
<1>4. OtherTypes'
  BY OthersStay DEF InvalidatePasswordResets, past
<1> QED
  BY <1>2, <1>3, <1>4

LEMMA SaveResetTypes ==
  ASSUME SessionsInv, NEW c \in Calls, SavePasswordReset(c) PROVE SessionsInv'
<1> USE InParts
<1>1. call[c].user \in Accounts
  BY CallRead DEF SavePasswordReset, At
<1>2. CallTypes'
  BY CallEnds DEF SavePasswordReset
<1>3. TokenTypes'
  <2>1. PICK k \in Resets :
          reset' = [reset EXCEPT ![k] = [state |-> "live", owner |-> call[c].user]]
    BY DEF SavePasswordReset
  <2>2. reset'[k] \in ResetRow /\ reset'[k].owner \in Accounts
    BY <1>1, <2>1 DEF TokenTypes, ResetRow
  <2>3. \A s \in Resets \ {k} : reset'[s] = reset[s]
    BY <2>1 DEF TokenTypes
  <2>4. reset' \in [Resets -> ResetRow]
    BY <2>1, <2>2, <2>3 DEF TokenTypes
  <2>5. UNCHANGED refresh
    BY DEF SavePasswordReset
  <2> QED
    BY <2>2, <2>3, <2>4, <2>5 DEF TokenTypes, LiveAreOwned
<1>4. OtherTypes'
  BY OthersStay DEF SavePasswordReset, past
<1> QED
  BY <1>2, <1>3, <1>4

LEMMA ConsumeResetTypes ==
  ASSUME SessionsInv, NEW c \in Calls, ConsumePasswordReset(c) PROVE SessionsInv'
<1> USE InParts
<1>1. PICK k \in Resets :
        /\ reset[k].state = "live"
        /\ reset' = [reset EXCEPT ![k] = Spent(@)]
        /\ Begin(c, "holder", [NoCall EXCEPT !.user = reset[k].owner, !.token = k])
  BY DEF ConsumePasswordReset
<1> DEFINE r == [NoCall EXCEPT !.user = reset[k].owner, !.token = k]
<1>2. reset[k].owner \in Accounts
  BY <1>1 DEF TokenTypes, LiveAreOwned
<1>3. r \in Request /\ Fits("holder", r)
  BY <1>2, NoCallFits DEF NoCall, Request, Fits, Tokens
<1>4. CallTypes'
  BY <1>1, <1>3, CallGoesOn DEF Begin, Goto, Labels
<1>5. TokenTypes'
  BY <1>1, ResetSpent DEF ConsumePasswordReset
<1>6. OtherTypes'
  BY OthersStay DEF ConsumePasswordReset, past
<1> QED
  BY <1>4, <1>5, <1>6

LEMMA ResetTypes ==
  ASSUME SessionsInv, NEW c \in Calls, ResetPassword(c) PROVE SessionsInv'
<1> USE InParts
<1>1. Fits("holder", call[c])
  BY CallRead DEF ResetPassword, At
<1>2. Fits("change", call[c])
  BY <1>1 DEF Fits
<1>3. CallTypes'
  <2>1. CASE Goto(c, "change") /\ UNCHANGED call
    BY <1>2, <2>1, CallGoesOnAsItIs DEF Goto, Labels
  <2>2. CASE Done(c)
    BY <2>2, CallEnds
  <2> QED
    BY <2>1, <2>2 DEF ResetPassword
<1>4. TokenTypes' /\ OtherTypes'
  BY TokensStay, OthersStay DEF ResetPassword, rows, past
<1> QED
  BY <1>3, <1>4

LEMMA StartUpdateTypes ==
  ASSUME SessionsInv, NEW c \in Calls, StartUpdatePassword(c) PROVE SessionsInv'
<1> USE InParts
<1> DEFINE r == [call[c] EXCEPT !.at = clock]
<1>1. call[c] \in Request /\ Fits("change", call[c])
  BY CallRead DEF StartUpdatePassword, At
<1>2. r \in Request /\ Fits("update", r)
  BY <1>1 DEF OtherTypes, Request, Fits
<1>3. call' = [call EXCEPT ![c] = r]
  BY DEF StartUpdatePassword, CallTypes
<1>4. CallTypes'
  BY <1>2, <1>3, CallGoesOn DEF StartUpdatePassword, Goto, Labels
<1>5. TokenTypes' /\ OtherTypes'
  BY TokensStay, OthersStay DEF StartUpdatePassword, rows, past
<1> QED
  BY <1>4, <1>5

LEMMA UpdateTypes ==
  ASSUME SessionsInv, NEW c \in Calls, UpdatePassword(c) PROVE SessionsInv'
<1> USE InParts
<1> DEFINE u == call[c].user
           r == [call[c] EXCEPT !.token = None]
<1>1. call[c] \in Request /\ Fits("update", call[c])
  BY CallRead DEF UpdatePassword, At
<1>2. r \in Request /\ Fits("revoke", r)
  BY <1>1 DEF Request, Fits
<1>3. call' = [call EXCEPT ![c] = r]
  BY DEF UpdatePassword, CallTypes
<1>4. CallTypes'
  BY <1>2, <1>3, CallGoesOn DEF UpdatePassword, Goto, Labels
<1>5. TokenTypes'
  BY TokensStay DEF UpdatePassword
<1>6. OtherTypes'
  <2>1. u \in Accounts
    BY <1>1 DEF Fits
  <2>2. account[u] \in AccountRow /\ account[u].epoch + 1 \in 0 .. MaxEpoch /\ call[c].at \in 0 .. MaxClock
    BY <1>1, <2>1, SessionsAssumption DEF OtherTypes, UpdatePassword, RoomForPassword, AccountRow, Request
  <2>3. account' \in [Accounts -> AccountRow]
    BY <2>1, <2>2 DEF UpdatePassword, Changed, OtherTypes, AccountRow
  <2>4. used' \in [Tokens -> Nat]
    BY DEF UpdatePassword, Honour, OtherTypes
  <2>5. voided' \in [Accounts -> SUBSET (0 .. MaxClock)]
    BY <2>1, VoidedTyped DEF UpdatePassword
  <2> QED
    BY <2>3, <2>4, <2>5 DEF UpdatePassword, OtherTypes
<1> QED
  BY <1>4, <1>5, <1>6

LEMMA RevokeTypes ==
  ASSUME SessionsInv, NEW c \in Calls, RevokeAllRefreshTokens(c) PROVE SessionsInv'
<1> USE InParts
<1> DEFINE u == call[c].user
           S == {t \in Refreshes : refresh[t].state = "live" /\ refresh[t].owner = u}
           mark(d) == call[d].late \/ /\ Issuing(d) /\ call[d].user = u
                                      /\ call[d].epoch < account[u].epoch
<1>1. u \in Accounts
  BY CallRead DEF RevokeAllRefreshTokens, At
<1>2. TokenTypes'
  <2>1. refresh' = [t \in Refreshes |-> IF t \in S THEN Spent(refresh[t]) ELSE refresh[t]]
    BY DEF RevokeAllRefreshTokens, Revoked
  <2>2. S \in SUBSET Refreshes /\ UNCHANGED reset
    BY DEF RevokeAllRefreshTokens
  <2> HIDE DEF S
  <2> QED
    BY <2>1, <2>2, RefreshesSpent
<1>3. OtherTypes'
  <2>1. account[u].epoch \in 0 .. MaxEpoch
    BY <1>1 DEF OtherTypes, AccountRow
  <2> QED
    BY <1>1, <2>1 DEF RevokeAllRefreshTokens, OtherTypes
<1>4. CallTypes'
  <2>1. call' = [d \in Calls |-> IF d = c THEN NoCall ELSE [call[d] EXCEPT !.late = mark(d)]]
    BY DEF RevokeAllRefreshTokens
  <2>2. pc' = [pc EXCEPT ![c] = "idle"]
    BY DEF RevokeAllRefreshTokens, Goto
  <2>3. ASSUME NEW d \in Calls \ {c}
        PROVE  call'[d] \in Request /\ Fits(pc'[d], call'[d])
    <3>1. call[d] \in Request /\ Fits(pc[d], call[d])
      BY CallRead
    <3>2. mark(d) \in BOOLEAN
      BY <3>1 DEF Request
    <3> HIDE DEF mark
    <3>3. [call[d] EXCEPT !.late = mark(d)] \in Request
          /\ Fits(pc[d], [call[d] EXCEPT !.late = mark(d)])
      BY <3>1, <3>2 DEF Request, Fits
    <3> QED
      BY <2>1, <2>2, <3>3 DEF CallTypes
  <2>4. call'[c] = NoCall /\ pc'[c] = "idle"
    BY <2>1, <2>2 DEF CallTypes
  <2>5. pc' \in [Calls -> Labels]
    BY <2>2 DEF CallTypes, Labels
  <2> HIDE DEF mark
  <2>6. \A d \in Calls : call'[d] \in Request /\ Fits(pc'[d], call'[d])
    BY <2>3, <2>4, NoCallFits
  <2> QED
    BY <2>1, <2>5, <2>6 DEF CallTypes, CallsFit
<1> QED
  BY <1>2, <1>3, <1>4

LEMMA RoleTypes ==
  ASSUME SessionsInv, NEW c \in Calls, UpdateRole(c) PROVE SessionsInv'
<1> USE InParts
<1>1. PICK u \in Accounts, role \in Roles :
        Begin(c, "promote", [NoCall EXCEPT !.user = u, !.role = role, !.at = clock])
  BY DEF UpdateRole
<1> DEFINE r == [NoCall EXCEPT !.user = u, !.role = role, !.at = clock]
<1>2. r \in Request /\ Fits("promote", r)
  BY NoCallFits DEF NoCall, Request, Fits, OtherTypes
<1>3. CallTypes'
  BY <1>1, <1>2, CallGoesOn DEF Begin, Goto, Labels
<1>4. TokenTypes' /\ OtherTypes'
  BY TokensStay, OthersStay DEF UpdateRole, rows, past
<1> QED
  BY <1>3, <1>4

LEMMA CommitTypes ==
  ASSUME SessionsInv, NEW c \in Calls, CommitRole(c) PROVE SessionsInv'
<1> USE InParts
<1> DEFINE u == call[c].user
<1>1. call[c] \in Request /\ Fits("promote", call[c])
  BY CallRead DEF CommitRole, At
<1>2. u \in Accounts /\ call[c].role \in Roles /\ call[c].at \in 0 .. MaxClock
  BY <1>1 DEF Fits, Request
<1>3. CallTypes'
  BY CallEnds DEF CommitRole
<1>4. TokenTypes'
  BY TokensStay DEF CommitRole
<1>5. OtherTypes'
  <2>1. account' \in [Accounts -> AccountRow]
    BY <1>2 DEF CommitRole, OtherTypes, AccountRow
  <2>2. voided' \in [Accounts -> SUBSET (0 .. MaxClock)]
    BY <1>2, VoidedTyped DEF CommitRole
  <2> QED
    BY <2>1, <2>2 DEF CommitRole, OtherTypes
<1> QED
  BY <1>3, <1>4, <1>5

(* Steps of nobody's call, and calls given up. *)
LEMMA OtherTypesKept ==
  ASSUME SessionsInv,
         \/ \E t \in Refreshes : Logout(t)
         \/ \E u \in Accounts : SetStatus(u)
         \/ \E k \in Resets : ExpireReset(k)
         \/ Tick
         \/ \E c \in Calls : Abandon(c)
         \/ UNCHANGED vars
  PROVE  SessionsInv'
<1> USE InParts
<1>1. ASSUME NEW t \in Refreshes, Logout(t) PROVE SessionsInv'
  BY <1>1, CallsStay, OthersStay, RefreshSpent DEF Logout, past
<1>2. ASSUME NEW u \in Accounts, SetStatus(u) PROVE SessionsInv'
  <2>1. OtherTypes'
    BY <1>2 DEF SetStatus, OtherTypes, AccountRow, past
  <2> QED
    BY <1>2, <2>1, CallsStay, TokensStay DEF SetStatus
<1>3. ASSUME NEW k \in Resets, ExpireReset(k) PROVE SessionsInv'
  BY <1>3, CallsStay, OthersStay, ResetSpent DEF ExpireReset, past
<1>4. CASE Tick
  <2>1. OtherTypes'
    BY <1>4, SessionsAssumption DEF Tick, OtherTypes, rows, past
  <2> QED
    BY <1>4, <2>1, CallsStay, TokensStay DEF Tick, rows
<1>5. ASSUME NEW c \in Calls, Abandon(c) PROVE SessionsInv'
  BY <1>5, CallEnds, TokensStay, OthersStay DEF Abandon, rows, past
<1>6. CASE UNCHANGED vars
  BY <1>6, CallsStay, TokensStay, OthersStay DEF vars, rows, past
<1> QED
  BY <1>1, <1>2, <1>3, <1>4, <1>5, <1>6

LEMMA SessionsStep == SessionsInv /\ [Next]_vars => SessionsInv'
<1> SUFFICES ASSUME SessionsInv, [Next]_vars PROVE SessionsInv'
  OBVIOUS
<1>1. ASSUME NEW c \in Calls, Serve(c) PROVE SessionsInv'
  BY <1>1, LoginTypes, IssueTypes, SaveTypes, ConsumeTypes, RefreshTypes, ChangeTypes, ForgotTypes,
     InvalidateTypes, SaveResetTypes, ConsumeResetTypes, ResetTypes, StartUpdateTypes, UpdateTypes,
     RevokeTypes, RoleTypes, CommitTypes, OtherTypesKept DEF Serve
<1> QED
  BY <1>1, OtherTypesKept DEF Next

LEMMA SessionsStart == Init => SessionsInv
<1> SUFFICES ASSUME Init PROVE SessionsInv
  OBVIOUS
<1>1. CallTypes
  BY NoCallFits DEF Init, CallTypes, CallsFit, Labels
<1>2. 0 \in 0 .. MaxClock /\ 0 \in 0 .. MaxEpoch
  BY SessionsAssumption
<1>3. TokenTypes
  BY <1>2 DEF Init, TokenTypes, LiveAreOwned, NoRefresh, NoReset, RefreshRow, ResetRow
<1>4. OtherTypes
  <2>1. \A u \in Accounts : account[u] \in AccountRow
    BY <1>2 DEF Init, AccountRow
  <2> QED
    BY <1>2, <2>1 DEF Init, OtherTypes
<1> QED
  BY <1>1, <1>3, <1>4, InParts

LEMMA AlwaysSessionsInv == Spec => []SessionsInv
BY SessionsStart, SessionsStep, PTL DEF Spec

(* Every column, token and call keeps its type, whatever calls interleave. *)
THEOREM SessionTypesKept == Spec => []TypeOK
<1>1. SessionsInv => TypeOK
  BY DEF SessionsInv
<1> QED
  BY <1>1, AlwaysSessionsInv, PTL

-----------------------------------------------------------------------------
(* The date of a token. *)

LEMMA SecondsRoundDown ==
  ASSUME NEW instant \in Nat PROVE Second(instant) \in Int /\ Second(instant) <= instant
<1>1. instant % SecondLength \in 0 .. SecondLength - 1
  BY SessionsAssumption
<1> QED
  BY <1>1, SessionsAssumption DEF Second

-----------------------------------------------------------------------------
(* What the steps do to the calls that are issuing a session. *)

(* Another statement of call c leaves the other calls as they were. *)
LEMMA OthersWait ==
  ASSUME CallTypes, NEW c \in Calls, NEW label, NEW r, Goto(c, label), call' = [call EXCEPT ![c] = r]
  PROVE  /\ pc'[c] = label /\ call'[c] = r
         /\ \A d \in Calls \ {c} : pc'[d] = pc[d] /\ call'[d] = call[d]
BY DEF CallTypes, Goto

LEMMA OthersWaitToo ==
  ASSUME CallTypes, NEW c \in Calls, NEW label, Goto(c, label), UNCHANGED call
  PROVE  /\ pc'[c] = label
         /\ \A d \in Calls : call'[d] = call[d]
         /\ \A d \in Calls \ {c} : pc'[d] = pc[d]
BY DEF CallTypes, Goto

Signing(d) == pc[d] \in {"sign", "save"}

(* A call that is issuing a session has been at it, with the same data but for *)
(* the instant and what history says of it, or has just begun. *)
GoesOn(d) ==
  /\ Issuing(d)
  /\ (pc'[d] = "reload" <=> pc[d] = "reload")
  /\ call'[d].user = call[d].user
  /\ call'[d].token = call[d].token
  /\ call'[d].pending = call[d].pending
  /\ call'[d].epoch = call[d].epoch
  /\ call[d].late => call'[d].late

Verified(d) ==
  /\ pc'[d] = "sign"
  /\ call'[d].token = None
  /\ call'[d].pending = account[call'[d].user].mustChange
  /\ call'[d].epoch = account[call'[d].user].epoch

Reread(d) ==
  /\ pc[d] = "reload" /\ pc'[d] = "sign"
  /\ call'[d].user = call[d].user
  /\ call'[d].token = call[d].token
  /\ call'[d].epoch = call[d].epoch
  /\ call'[d].late = call[d].late
  /\ call'[d].pending = account[call[d].user].mustChange

Exchanges(d) ==
  /\ pc'[d] = "reload"
  /\ \E t \in Refreshes :
       /\ Usable(t)
       /\ call'[d].user = refresh[t].owner
       /\ call'[d].token = t
       /\ call'[d].epoch = refresh[t].epoch
       /\ call'[d].late = refresh[t].late

IssuingMoves ==
  \A d \in Calls : Issuing(d)' => GoesOn(d) \/ Verified(d) \/ Reread(d) \/ Exchanges(d)

(* A step of one call that is not about to issue. *)
LEMMA NotIssuing ==
  ASSUME CallTypes, NEW c \in Calls, NEW label \in Labels \ {"reload", "sign", "save"}, Goto(c, label),
         \/ UNCHANGED call
         \/ \E r : call' = [call EXCEPT ![c] = r]
  PROVE  IssuingMoves
<1>1. ASSUME NEW d \in Calls \ {c} PROVE pc'[d] = pc[d] /\ call'[d] = call[d]
  BY <1>1, OthersWait, OthersWaitToo
<1>2. pc'[c] = label
  BY DEF CallTypes, Goto
<1> QED
  BY <1>1, <1>2 DEF IssuingMoves, GoesOn, Issuing

LEMMA CallsIssue ==
  ASSUME SessionsInv, [Next]_vars PROVE IssuingMoves
<1> USE InParts
<1>1. ASSUME NEW c \in Calls, Login(c) PROVE IssuingMoves
  <2>1. PICK u \in Accounts :
          Begin(c, "sign", [NoCall EXCEPT !.user = u, !.role = account[u].role,
                                          !.pending = account[u].mustChange,
                                          !.epoch = account[u].epoch])
    BY <1>1 DEF Login
  <2> DEFINE q == [NoCall EXCEPT !.user = u, !.role = account[u].role,
                                 !.pending = account[u].mustChange, !.epoch = account[u].epoch]
  <2>4. call'[c] = q /\ pc'[c] = "sign"
    BY <2>1 DEF Begin, Goto, CallTypes
  <2>5. /\ q.user = u /\ q.token = None
        /\ q.pending = account[u].mustChange /\ q.epoch = account[u].epoch
    BY DEF NoCall
  <2> HIDE DEF q
  <2>2. Verified(c)
    BY <2>4, <2>5 DEF Verified
  <2>3. ASSUME NEW d \in Calls \ {c} PROVE pc'[d] = pc[d] /\ call'[d] = call[d]
    BY <2>1, <2>3, OthersWait DEF Begin
  <2> QED
    BY <2>2, <2>3 DEF IssuingMoves, GoesOn, Issuing
<1>2. ASSUME NEW c \in Calls, IssueAccessToken(c) PROVE IssuingMoves
  <2>1. call[c] \in Request
    BY CallRead
  <2>2. call'[c] = [call[c] EXCEPT !.at = clock] /\ pc'[c] = "save" /\ pc[c] = "sign"
    BY <1>2 DEF IssueAccessToken, Goto, At, CallTypes
  <2>3. GoesOn(c)
    BY <2>1, <2>2 DEF GoesOn, Issuing, Request
  <2>4. ASSUME NEW d \in Calls \ {c} PROVE pc'[d] = pc[d] /\ call'[d] = call[d]
    BY <1>2, <2>4 DEF IssueAccessToken, Goto, CallTypes
  <2> QED
    BY <2>3, <2>4 DEF IssuingMoves, GoesOn, Issuing
<1>3. ASSUME NEW c \in Calls, ConsumeRefreshToken(c) PROVE IssuingMoves
  <2>1. PICK t \in Refreshes :
          /\ Usable(t)
          /\ Begin(c, "reload", [NoCall EXCEPT !.user = refresh[t].owner, !.token = t,
                                               !.epoch = refresh[t].epoch,
                                               !.late = refresh[t].late])
    BY <1>3 DEF ConsumeRefreshToken
  <2> DEFINE q == [NoCall EXCEPT !.user = refresh[t].owner, !.token = t,
                                 !.epoch = refresh[t].epoch, !.late = refresh[t].late]
  <2>4. call'[c] = q /\ pc'[c] = "reload"
    BY <2>1 DEF Begin, Goto, CallTypes
  <2>5. /\ q.user = refresh[t].owner /\ q.token = t
        /\ q.epoch = refresh[t].epoch /\ q.late = refresh[t].late
    BY DEF NoCall
  <2> HIDE DEF q
  <2>2. Exchanges(c)
    BY <2>1, <2>4, <2>5 DEF Exchanges
  <2>3. ASSUME NEW d \in Calls \ {c} PROVE pc'[d] = pc[d] /\ call'[d] = call[d]
    BY <2>1, <2>3, OthersWait DEF Begin
  <2> QED
    BY <2>2, <2>3 DEF IssuingMoves, GoesOn, Issuing
<1>4. ASSUME NEW c \in Calls, Refresh(c) PROVE IssuingMoves
  <2>1. CASE Goto(c, "sign") /\ call' = [call EXCEPT ![c] = WithRow(@, User(c))]
    <3>1. call[c] \in Request
      BY CallRead
    <3>2. call'[c] = WithRow(call[c], User(c)) /\ pc'[c] = "sign" /\ pc[c] = "reload"
      BY <1>4, <2>1 DEF Refresh, Goto, At, CallTypes
    <3>3. Reread(c)
      BY <3>1, <3>2 DEF Reread, WithRow, User, Request
    <3>4. ASSUME NEW d \in Calls \ {c} PROVE pc'[d] = pc[d] /\ call'[d] = call[d]
      BY <2>1, <3>4 DEF Goto, CallTypes
    <3> QED
      BY <3>3, <3>4 DEF IssuingMoves, GoesOn, Issuing
  <2>2. CASE Done(c)
    BY <2>2, NotIssuing DEF Done, Labels
  <2> QED
    BY <1>4, <2>1, <2>2 DEF Refresh
<1>5. ASSUME NEW c \in Calls, RevokeAllRefreshTokens(c) PROVE IssuingMoves
  <2> DEFINE mark(d) == call[d].late \/ /\ Issuing(d) /\ call[d].user = call[c].user
                                        /\ call[d].epoch < account[call[c].user].epoch
  <2>0. call' = [d \in Calls |-> IF d = c THEN NoCall ELSE [call[d] EXCEPT !.late = mark(d)]]
    BY <1>5 DEF RevokeAllRefreshTokens
  <2>4. \A d \in Calls : call[d].late => mark(d)
    OBVIOUS
  <2> HIDE DEF mark
  <2>1. ASSUME NEW d \in Calls \ {c}
        PROVE  pc'[d] = pc[d] /\ call'[d] = [call[d] EXCEPT !.late = mark(d)]
    BY <1>5, <2>0 DEF RevokeAllRefreshTokens, Goto, CallTypes
  <2>2. pc'[c] = "idle"
    BY <1>5 DEF RevokeAllRefreshTokens, Goto, CallTypes
  <2>3. ASSUME NEW d \in Calls \ {c}, Issuing(d)' PROVE GoesOn(d)
    <3>1. call[d] \in Request
      BY CallRead
    <3> QED
      BY <2>1, <2>3, <2>4, <3>1 DEF GoesOn, Issuing, Request
  <2> QED
    BY <2>2, <2>3 DEF IssuingMoves, Issuing
<1>6. ASSUME NEW c \in Calls,
             \/ ChangePassword(c) \/ ForgotPassword(c) \/ InvalidatePasswordResets(c)
             \/ ConsumePasswordReset(c) \/ UpdateRole(c)
      PROVE  IssuingMoves
  <2>1. \E label \in {"change", "link", "holder", "promote"} :
          Goto(c, label) /\ \E r : call' = [call EXCEPT ![c] = r]
    BY <1>6 DEF ChangePassword, ForgotPassword, InvalidatePasswordResets, ConsumePasswordReset,
                UpdateRole, Begin
  <2> QED
    BY <2>1, NotIssuing DEF Labels
<1>7. ASSUME NEW c \in Calls,
             \/ SaveRefreshToken(c) \/ SavePasswordReset(c) \/ CommitRole(c) \/ Abandon(c)
      PROVE  IssuingMoves
  BY <1>7, NotIssuing DEF SaveRefreshToken, SavePasswordReset, CommitRole, Abandon, Done, Labels
<1>8. ASSUME NEW c \in Calls, StartUpdatePassword(c) \/ UpdatePassword(c) PROVE IssuingMoves
  <2>1. \E label \in {"update", "revoke"} : Goto(c, label) /\ \E r : call' = [call EXCEPT ![c] = r]
    BY <1>8 DEF StartUpdatePassword, UpdatePassword
  <2> QED
    BY <2>1, NotIssuing DEF Labels
<1>9. ASSUME NEW c \in Calls, ResetPassword(c) PROVE IssuingMoves
  <2>1. CASE Goto(c, "change") /\ UNCHANGED call
    BY <2>1, NotIssuing DEF Labels
  <2>2. CASE Done(c)
    BY <2>2, NotIssuing DEF Done, Labels
  <2> QED
    BY <1>9, <2>1, <2>2 DEF ResetPassword
<1>10. ASSUME UNCHANGED <<pc, call>> PROVE IssuingMoves
  BY <1>10 DEF IssuingMoves, GoesOn, Issuing
<1>11. ASSUME NEW c \in Calls, Serve(c) PROVE IssuingMoves
  BY <1>11, <1>1, <1>2, <1>3, <1>4, <1>5, <1>6, <1>7, <1>8, <1>9 DEF Serve
<1>12. ASSUME ~ \E c \in Calls : Serve(c) PROVE UNCHANGED <<pc, call>>
  BY <1>12 DEF Next, vars, Logout, SetStatus, ExpireReset, Tick
<1> QED
  BY <1>10, <1>11, <1>12

-----------------------------------------------------------------------------
(* What the steps do to the accounts and to the tokens. *)

AccountsMove ==
  \A u \in Accounts :
    /\ account'[u].mustChange => account[u].mustChange
    /\ account'[u].epoch >= account[u].epoch

(* Call c stores the session it is issuing as row t, and hands it out as j. *)
Stores(c, t) ==
  /\ pc[c] = "save"
  /\ refresh[t].state = "unused"
  /\ refresh'[t].owner = call[c].user
  /\ refresh'[t].epoch = call[c].epoch
  /\ refresh'[t].late = call[c].late

HandsOut(c, j) == pc[c] = "save" /\ j.user = call[c].user /\ j.pending = call[c].pending

TokensMove ==
  /\ \A t \in Refreshes :
       refresh'[t].state = "live" => refresh'[t] = refresh[t] \/ \E c \in Calls : Stores(c, t)
  /\ \A j \in access' : j \in access \/ \E c \in Calls : HandsOut(c, j)

LEMMA AccountsStay == UNCHANGED account /\ OtherTypes => AccountsMove
BY SessionsAssumption DEF AccountsMove, OtherTypes, AccountRow

LEMMA AccountsAdvance ==
  ASSUME SessionsInv, [Next]_vars PROVE AccountsMove
<1> USE InParts
<1>1. ASSUME NEW c \in Calls, UpdatePassword(c) PROVE AccountsMove
  <2>1. \A u \in Accounts : account[u] \in AccountRow
    BY DEF OtherTypes
  <2>2. call[c].user \in Accounts
    BY <1>1, CallRead DEF UpdatePassword, At
  <2>3. \A u \in Accounts \ {call[c].user} : account'[u] = account[u]
    BY <1>1 DEF UpdatePassword, OtherTypes
  <2>4. /\ account'[call[c].user].mustChange = FALSE
        /\ account'[call[c].user].epoch = account[call[c].user].epoch + 1
    BY <1>1, <2>1, <2>2 DEF UpdatePassword, Changed, OtherTypes, AccountRow
  <2>5. \A u \in Accounts : account[u].epoch \in Nat
    BY <2>1, SessionsAssumption DEF AccountRow
  <2> QED
    BY <2>3, <2>4, <2>5 DEF AccountsMove
<1>2. ASSUME NEW c \in Calls, CommitRole(c) PROVE AccountsMove
  <2>1. \A u \in Accounts : account[u] \in AccountRow
    BY DEF OtherTypes
  <2>2. \A u \in Accounts : account'[u].mustChange = account[u].mustChange
                            /\ account'[u].epoch = account[u].epoch
    BY <1>2, <2>1 DEF CommitRole, OtherTypes, AccountRow
  <2>3. \A u \in Accounts : account[u].epoch \in Nat
    BY <2>1, SessionsAssumption DEF AccountRow
  <2> QED
    BY <2>2, <2>3 DEF AccountsMove
<1>3. ASSUME NEW v \in Accounts, SetStatus(v) PROVE AccountsMove
  <2>1. \A u \in Accounts : account[u] \in AccountRow
    BY DEF OtherTypes
  <2>2. \A u \in Accounts : account'[u].mustChange = account[u].mustChange
                            /\ account'[u].epoch = account[u].epoch
    BY <1>3, <2>1 DEF SetStatus, OtherTypes, AccountRow
  <2>3. \A u \in Accounts : account[u].epoch \in Nat
    BY <2>1, SessionsAssumption DEF AccountRow
  <2> QED
    BY <2>2, <2>3 DEF AccountsMove
<1>4. CASE UNCHANGED account
  BY <1>4, AccountsStay
<1>5. ASSUME NEW c \in Calls, Serve(c) PROVE AccountsMove
  BY <1>5, <1>1, <1>2, <1>4
  DEF Serve, rows, Login, IssueAccessToken, SaveRefreshToken, ConsumeRefreshToken, Refresh,
      ChangePassword, ForgotPassword, InvalidatePasswordResets, SavePasswordReset,
      ConsumePasswordReset, ResetPassword, StartUpdatePassword, RevokeAllRefreshTokens, UpdateRole,
      Abandon
<1> QED
  BY <1>3, <1>4, <1>5 DEF Next, vars, rows, Logout, ExpireReset, Tick

LEMMA TokensAdvance ==
  ASSUME SessionsInv, [Next]_vars PROVE TokensMove
<1> USE InParts
<1>1. ASSUME NEW c \in Calls, SaveRefreshToken(c) PROVE TokensMove
  <2>1. PICK t \in Refreshes, started \in call[c].at .. clock :
          /\ refresh[t].state = "unused"
          /\ refresh' = [refresh EXCEPT ![t] =
                           [state |-> "live", owner |-> call[c].user, created |-> started,
                            epoch |-> call[c].epoch, late |-> call[c].late]]
    BY <1>1 DEF SaveRefreshToken
  <2>2. Stores(c, t)
    BY <1>1, <2>1 DEF Stores, SaveRefreshToken, At, TokenTypes
  <2>3. \A s \in Refreshes \ {t} : refresh'[s] = refresh[s]
    BY <2>1 DEF TokenTypes
  <2>4. ASSUME NEW j \in access' PROVE j \in access \/ HandsOut(c, j)
    BY <1>1 DEF SaveRefreshToken, At, HandsOut
  <2> QED
    BY <2>2, <2>3, <2>4 DEF TokensMove
<1>2. ASSUME UNCHANGED access,
             \A t \in Refreshes : refresh'[t] = refresh[t] \/ refresh'[t] = Spent(refresh[t])
      PROVE  TokensMove
  <2>1. \A t \in Refreshes : Spent(refresh[t]).state = "dead"
    BY DEF TokenTypes, Spent, RefreshRow
  <2> QED
    BY <1>2, <2>1 DEF TokensMove
<1>3. CASE UNCHANGED <<refresh, access>>
  BY <1>2, <1>3
<1>4. ASSUME NEW c \in Calls, ConsumeRefreshToken(c) PROVE TokensMove
  BY <1>2, <1>4 DEF ConsumeRefreshToken, TokenTypes
<1>5. ASSUME NEW c \in Calls, RevokeAllRefreshTokens(c) PROVE TokensMove
  BY <1>2, <1>5 DEF RevokeAllRefreshTokens, Revoked
<1>6. ASSUME NEW t \in Refreshes, Logout(t) PROVE TokensMove
  BY <1>2, <1>6 DEF Logout, TokenTypes
<1>7. ASSUME NEW c \in Calls, Serve(c) PROVE TokensMove
  BY <1>7, <1>1, <1>3, <1>4, <1>5
  DEF Serve, rows, Login, IssueAccessToken, Refresh, ChangePassword, ForgotPassword,
      InvalidatePasswordResets, SavePasswordReset, ConsumePasswordReset, ResetPassword,
      StartUpdatePassword, UpdatePassword, UpdateRole, CommitRole, Abandon
<1> QED
  BY <1>3, <1>6, <1>7 DEF Next, vars, rows, SetStatus, ExpireReset, Tick

-----------------------------------------------------------------------------
(* What a change has voided stays void.  The instants voided so far are past, *)
(* they lie before the stamp, and no change still under way began as early as *)
(* one of them: so none can put the stamp back to it. *)
VoidInv ==
  /\ \A u \in Accounts : \A i \in voided[u] : i < clock /\ i < account[u].stamp
  /\ \A u \in Accounts : \A d \in Changing(u) :
       call[d].at <= clock /\ \A i \in voided[u] : i < call[d].at

LEMMA VoidNumbers ==
  ASSUME SessionsInv
  PROVE  /\ clock \in Nat
         /\ \A u \in Accounts : voided[u] \subseteq Nat /\ account[u].stamp \in Nat
         /\ \A c \in Calls : call[c].at \in Nat
BY SessionsAssumption DEF SessionsInv, TypeOK, AccountRow, Request

(* A change under way was under way before, or its statement starts now. *)
ChangesStart ==
  \A u \in Accounts : \A d \in Changing(u)' :
    \/ d \in Changing(u) /\ call'[d].at = call[d].at
    \/ call'[d].at = clock

(* A statement of one call that is not a change. *)
LEMMA NotChanging ==
  ASSUME CallTypes, NEW c \in Calls, NEW label \in Labels \ {"update", "promote"}, Goto(c, label),
         \/ UNCHANGED call
         \/ \E r : call' = [call EXCEPT ![c] = r]
  PROVE  ChangesStart
<1>1. ASSUME NEW d \in Calls \ {c} PROVE pc'[d] = pc[d] /\ call'[d] = call[d]
  BY <1>1, OthersWait, OthersWaitToo
<1>2. pc'[c] = label
  BY DEF CallTypes, Goto
<1> QED
  BY <1>1, <1>2 DEF ChangesStart, Changing

LEMMA ChangesMove ==
  ASSUME SessionsInv, [Next]_vars PROVE ChangesStart
<1> USE InParts
<1>1. ASSUME NEW c \in Calls, StartUpdatePassword(c) PROVE ChangesStart
  <2>1. call'[c].at = clock
    BY <1>1 DEF StartUpdatePassword, CallTypes, Request
  <2>2. ASSUME NEW d \in Calls \ {c} PROVE pc'[d] = pc[d] /\ call'[d] = call[d]
    BY <1>1, <2>2 DEF StartUpdatePassword, Goto, CallTypes
  <2> QED
    BY <2>1, <2>2 DEF ChangesStart, Changing
<1>2. ASSUME NEW c \in Calls, UpdateRole(c) PROVE ChangesStart
  <2>1. PICK u \in Accounts, role \in Roles :
          Begin(c, "promote", [NoCall EXCEPT !.user = u, !.role = role, !.at = clock])
    BY <1>2 DEF UpdateRole
  <2> DEFINE q == [NoCall EXCEPT !.user = u, !.role = role, !.at = clock]
  <2>2. q.at = clock
    BY DEF NoCall
  <2>3. call'[c] = q
    BY <2>1 DEF Begin, CallTypes
  <2> HIDE DEF q
  <2>4. ASSUME NEW d \in Calls \ {c} PROVE pc'[d] = pc[d] /\ call'[d] = call[d]
    BY <2>1, <2>4, OthersWait DEF Begin
  <2> QED
    BY <2>2, <2>3, <2>4 DEF ChangesStart, Changing
<1>3. ASSUME NEW c \in Calls, RevokeAllRefreshTokens(c) PROVE ChangesStart
  <2> DEFINE mark(d) == call[d].late \/ /\ Issuing(d) /\ call[d].user = call[c].user
                                        /\ call[d].epoch < account[call[c].user].epoch
  <2>1. call' = [d \in Calls |-> IF d = c THEN NoCall ELSE [call[d] EXCEPT !.late = mark(d)]]
    BY <1>3 DEF RevokeAllRefreshTokens
  <2> HIDE DEF mark
  <2>2. pc'[c] = "idle" /\ \A d \in Calls \ {c} : pc'[d] = pc[d]
    BY <1>3 DEF RevokeAllRefreshTokens, Goto, CallTypes
  <2>3. \A d \in Calls \ {c} : call'[d].user = call[d].user /\ call'[d].at = call[d].at
    BY <2>1 DEF CallTypes, Request
  <2> QED
    BY <2>2, <2>3 DEF ChangesStart, Changing
<1>4. ASSUME NEW c \in Calls,
             \/ Login(c) \/ ConsumeRefreshToken(c) \/ ChangePassword(c) \/ ForgotPassword(c)
             \/ InvalidatePasswordResets(c) \/ ConsumePasswordReset(c)
      PROVE  ChangesStart
  <2>1. \E label \in {"sign", "reload", "change", "link", "holder"} :
          Goto(c, label) /\ \E r : call' = [call EXCEPT ![c] = r]
    BY <1>4 DEF Login, ConsumeRefreshToken, ChangePassword, ForgotPassword,
                InvalidatePasswordResets, ConsumePasswordReset, Begin
  <2> QED
    BY <2>1, NotChanging DEF Labels
<1>5. ASSUME NEW c \in Calls,
             \/ SaveRefreshToken(c) \/ SavePasswordReset(c) \/ CommitRole(c) \/ Abandon(c)
      PROVE  ChangesStart
  BY <1>5, NotChanging DEF SaveRefreshToken, SavePasswordReset, CommitRole, Abandon, Done, Labels
<1>6. ASSUME NEW c \in Calls, IssueAccessToken(c) \/ UpdatePassword(c) PROVE ChangesStart
  <2>1. \E label \in {"save", "revoke"} : Goto(c, label) /\ \E r : call' = [call EXCEPT ![c] = r]
    BY <1>6 DEF IssueAccessToken, UpdatePassword
  <2> QED
    BY <2>1, NotChanging DEF Labels
<1>7. ASSUME NEW c \in Calls, Refresh(c) PROVE ChangesStart
  <2>1. CASE Goto(c, "sign") /\ call' = [call EXCEPT ![c] = WithRow(@, User(c))]
    BY <2>1, NotChanging DEF Labels
  <2>2. CASE Done(c)
    BY <2>2, NotChanging DEF Done, Labels
  <2> QED
    BY <1>7, <2>1, <2>2 DEF Refresh
<1>8. ASSUME NEW c \in Calls, ResetPassword(c) PROVE ChangesStart
  <2>1. CASE Goto(c, "change") /\ UNCHANGED call
    BY <2>1, NotChanging DEF Labels
  <2>2. CASE Done(c)
    BY <2>2, NotChanging DEF Done, Labels
  <2> QED
    BY <1>8, <2>1, <2>2 DEF ResetPassword
<1>9. ASSUME UNCHANGED <<pc, call>> PROVE ChangesStart
  BY <1>9 DEF ChangesStart, Changing
<1>10. ASSUME NEW c \in Calls, Serve(c) PROVE ChangesStart
  BY <1>10, <1>1, <1>2, <1>3, <1>4, <1>5, <1>6, <1>7, <1>8 DEF Serve
<1>11. ASSUME ~ \E c \in Calls : Serve(c) PROVE UNCHANGED <<pc, call>>
  BY <1>11 DEF Next, vars, Logout, SetStatus, ExpireReset, Tick
<1> QED
  BY <1>9, <1>10, <1>11

(* A change is written: its call was under way, and its start is the stamp. *)
Writes(c) ==
  LET u == call[c].user
  IN  /\ u \in Accounts /\ c \in Changing(u)
      /\ Voids(u)
      /\ account'[u].stamp = call[c].at
      /\ \A v \in Accounts \ {u} : account'[v].stamp = account[v].stamp
      /\ UNCHANGED clock

KeepsStamps ==
  /\ UNCHANGED voided
  /\ \A u \in Accounts : account'[u].stamp = account[u].stamp
  /\ clock' >= clock

LEMMA StampsMove ==
  ASSUME SessionsInv, [Next]_vars PROVE KeepsStamps \/ \E c \in Calls : Writes(c)
<1> USE InParts
<1>1. ASSUME NEW c \in Calls, UpdatePassword(c) \/ CommitRole(c) PROVE Writes(c)
  <2>1. call[c].user \in Accounts /\ c \in Changing(call[c].user)
    BY <1>1, CallRead DEF UpdatePassword, CommitRole, At, Changing
  <2>2. account'[call[c].user].stamp = call[c].at
    <3>1. account[call[c].user] \in AccountRow
      BY <2>1 DEF OtherTypes
    <3>2. Changed(account[call[c].user], call[c].at).stamp = call[c].at
      BY <3>1 DEF Changed, AccountRow
    <3>3. CASE UpdatePassword(c)
      BY <2>1, <3>2, <3>3 DEF UpdatePassword, OtherTypes
    <3>4. CASE CommitRole(c)
      BY <2>1, <3>1, <3>4 DEF CommitRole, OtherTypes, AccountRow
    <3> QED
      BY <1>1, <3>3, <3>4
  <2>3. \A v \in Accounts \ {call[c].user} : account'[v].stamp = account[v].stamp
    BY <1>1, <2>1 DEF UpdatePassword, CommitRole, OtherTypes
  <2> QED
    BY <1>1, <2>1, <2>2, <2>3 DEF Writes, UpdatePassword, CommitRole
<1>2. clock \in Nat
  BY VoidNumbers
<1>3. ASSUME UNCHANGED <<account, voided, clock>> PROVE KeepsStamps
  BY <1>2, <1>3 DEF KeepsStamps
<1>4. ASSUME NEW u \in Accounts, SetStatus(u) PROVE KeepsStamps
  BY <1>2, <1>4 DEF KeepsStamps, SetStatus, OtherTypes, AccountRow, past
<1>5. CASE Tick
  BY <1>2, <1>5 DEF KeepsStamps, Tick, rows, past
<1>6. ASSUME NEW c \in Calls, Serve(c) PROVE Writes(c) \/ KeepsStamps
  BY <1>6, <1>1, <1>3
  DEF Serve, rows, past, Login, IssueAccessToken, SaveRefreshToken, ConsumeRefreshToken, Refresh,
      ChangePassword, ForgotPassword, InvalidatePasswordResets, SavePasswordReset,
      ConsumePasswordReset, ResetPassword, StartUpdatePassword, RevokeAllRefreshTokens, UpdateRole,
      Abandon
<1> QED
  BY <1>3, <1>4, <1>5, <1>6 DEF Next, vars, rows, past, Logout, ExpireReset

LEMMA VoidStep == SessionsInv /\ VoidInv /\ [Next]_vars => VoidInv'
<1> SUFFICES ASSUME SessionsInv, VoidInv, [Next]_vars PROVE VoidInv'
  OBVIOUS
<1>1. SessionsInv' /\ ChangesStart
  BY SessionsStep, ChangesMove
<1>4. ASSUME NEW u \in Accounts, NEW d \in Changing(u)' PROVE call'[d].at <= clock'
  <2>1. clock \in Nat /\ clock' \in Nat /\ clock' >= clock
    BY <1>1, VoidNumbers, StampsMove DEF KeepsStamps, Writes, SessionsInv, TypeOK
  <2>2. d \in Calls
    BY <1>4 DEF Changing
  <2> QED
    BY <1>1, <1>4, <2>1, <2>2, VoidNumbers DEF ChangesStart, VoidInv
<1>2. CASE KeepsStamps
  <2>1. ASSUME NEW u \in Accounts, NEW i \in voided'[u]
        PROVE  i < clock' /\ i < account'[u].stamp
    <3>1. i \in voided[u] /\ i \in Nat /\ i < clock /\ i < account[u].stamp
      BY <1>2, <2>1, VoidNumbers DEF KeepsStamps, VoidInv
    <3>2. clock \in Nat /\ clock' \in Nat
      BY <1>1, VoidNumbers DEF SessionsInv, TypeOK
    <3> QED
      BY <1>2, <3>1, <3>2 DEF KeepsStamps
  <2>2. ASSUME NEW u \in Accounts, NEW d \in Changing(u)', NEW i \in voided'[u]
        PROVE  i < call'[d].at
    BY <1>1, <1>2, <2>2 DEF KeepsStamps, ChangesStart, VoidInv
  <2> QED
    BY <1>4, <2>1, <2>2 DEF VoidInv
<1>3. ASSUME NEW c \in Calls, Writes(c) PROVE VoidInv'
  <2> DEFINE u == call[c].user
             N == {i \in 0 .. MaxClock : \A d \in Changing(u) : i < call[d].at}
  <2>1. /\ u \in Accounts /\ c \in Changing(u)
        /\ voided' = [voided EXCEPT ![u] = @ \cup N]
        /\ account'[u].stamp = call[c].at
        /\ \A v \in Accounts \ {u} : account'[v].stamp = account[v].stamp
        /\ clock' = clock
    BY <1>3 DEF Writes, Voids
  <2>2. /\ voided'[u] = voided[u] \cup N
        /\ \A v \in Accounts \ {u} : voided'[v] = voided[v]
    BY <2>1 DEF SessionsInv, TypeOK
  <2>3. \A i \in voided'[u] : i \in Nat /\ \A d \in Changing(u) : i < call[d].at
    BY <2>1, <2>2, VoidNumbers DEF VoidInv
  <2>4. call[c].at \in Nat /\ call[c].at <= clock
    BY <2>1, VoidNumbers DEF VoidInv
  <2> HIDE DEF N
  <2>5. \A i \in voided'[u] : i < clock /\ i < account'[u].stamp
    BY <2>1, <2>3, <2>4, VoidNumbers
  <2>6. ASSUME NEW v \in Accounts, NEW i \in voided'[v]
        PROVE  i < clock' /\ i < account'[v].stamp
    BY <2>1, <2>2, <2>5, <2>6 DEF VoidInv
  <2>7. ASSUME NEW v \in Accounts, NEW d \in Changing(v)', NEW i \in voided'[v]
        PROVE  i < call'[d].at
    <3>1. i < clock
      BY <2>1, <2>6, <2>7
    <3>2. ASSUME d \in Changing(v) PROVE i < call[d].at
      BY <2>2, <2>3, <2>7, <3>2 DEF VoidInv
    <3> QED
      BY <1>1, <2>7, <3>1, <3>2 DEF ChangesStart
  <2> QED
    BY <1>4, <2>6, <2>7 DEF VoidInv
<1> QED
  BY <1>2, <1>3, StampsMove

(* An access token signed before a change of its account began, and before those *)
(* it overlaps, is never admitted again once the change is written: however many *)
(* changes wait for one another's locks and write their stamps out of order. *)
THEOREM OlderAccessRefused == Spec => []OlderAccessIsRefused
<1>1. Init => VoidInv
  BY DEF Init, VoidInv, Changing
<1>2. SessionsInv /\ VoidInv => OlderAccessIsRefused
  <2> SUFFICES ASSUME SessionsInv, VoidInv, NEW j \in access, j.signed \in voided[j.user], Admitted(j)
               PROVE  FALSE
    BY DEF OlderAccessIsRefused
  <2>1. j.user \in Accounts /\ j.signed \in Nat
    BY SessionsAssumption DEF SessionsInv, TypeOK, AccessToken
  <2>2. j.signed < account[j.user].stamp /\ account[j.user].stamp \in Nat
    BY <2>1, VoidNumbers DEF VoidInv
  <2>3. Second(j.signed) <= j.signed /\ account[j.user].stamp <= Second(j.signed)
    BY <2>1, SecondsRoundDown DEF Admitted
  <2> QED
    BY <2>1, <2>2, <2>3, SecondsRoundDown
<1> QED
  BY <1>1, <1>2, VoidStep, AlwaysSessionsInv, PTL DEF Spec

-----------------------------------------------------------------------------
(* The password issued at the desk.  A call that is about to hand out an access *)
(* token has the flag of its account, or an earlier one, which was stricter. *)
ConfinedInv ==
  /\ ConfinedUntilChanged
  /\ \A c \in Calls : Signing(c) /\ account[call[c].user].mustChange => call[c].pending

LEMMA ConfinedStep == SessionsInv /\ ConfinedInv /\ [Next]_vars => ConfinedInv'
<1> SUFFICES ASSUME SessionsInv, ConfinedInv, [Next]_vars PROVE ConfinedInv'
  OBVIOUS
<1>1. IssuingMoves /\ AccountsMove /\ TokensMove /\ SessionsInv'
  BY CallsIssue, AccountsAdvance, TokensAdvance, SessionsStep
<1>2. ASSUME NEW c \in Calls, Signing(c)', account'[call'[c].user].mustChange
      PROVE  call'[c].pending
  <2>1. Issuing(c)' /\ pc'[c] # "reload" /\ call'[c].user \in Accounts
    BY <1>1, <1>2 DEF Signing, Issuing, SessionsInv, CallsFit, Fits
  <2>2. account[call'[c].user].mustChange
    BY <1>1, <1>2, <2>1 DEF AccountsMove
  <2>3. GoesOn(c) \/ Verified(c) \/ Reread(c)
    BY <1>1, <2>1 DEF IssuingMoves, Exchanges
  <2>4. CASE GoesOn(c)
    BY <2>1, <2>2, <2>4 DEF GoesOn, ConfinedInv, Signing, Issuing
  <2> QED
    BY <2>2, <2>3, <2>4 DEF Verified, Reread
<1>3. ASSUME NEW j \in access', account'[j.user].mustChange
      PROVE  j.pending
  <2>1. j.user \in Accounts
    BY <1>1 DEF SessionsInv, TypeOK, AccessToken
  <2>2. account[j.user].mustChange
    BY <1>1, <1>3, <2>1 DEF AccountsMove
  <2>3. CASE j \in access
    BY <2>2, <2>3 DEF ConfinedInv, ConfinedUntilChanged
  <2>4. ASSUME NEW c \in Calls, HandsOut(c, j) PROVE j.pending
    BY <2>2, <2>4 DEF ConfinedInv, HandsOut, Signing
  <2> QED
    BY <1>1, <2>3, <2>4 DEF TokensMove
<1> QED
  BY <1>2, <1>3 DEF ConfinedInv, ConfinedUntilChanged

(* Whatever sign-ins, refreshes and changes are under way, an account whose *)
(* password is still the one issued at the desk has no access token that says *)
(* otherwise. *)
THEOREM ConfinementKept == Spec => []ConfinedUntilChanged
<1>1. Init => ConfinedInv
  BY DEF Init, ConfinedInv, ConfinedUntilChanged, Signing
<1>2. ConfinedInv => ConfinedUntilChanged
  BY DEF ConfinedInv
<1> QED
  BY <1>1, <1>2, ConfinedStep, AlwaysSessionsInv, PTL DEF Spec

-----------------------------------------------------------------------------
(* What rests on an earlier password.  A session in the making counts as much *)
(* as a stored one: a call that is neither late nor about to be is issuing on *)
(* a password at least as recent as the last change that was answered. *)
EndsInv ==
  /\ \A u \in Accounts : answered[u] <= account[u].epoch
  /\ \A t \in Refreshes :
       refresh[t].state = "live" /\ ~ refresh[t].late
         => answered[refresh[t].owner] <= refresh[t].epoch
  /\ \A c \in Calls :
       Issuing(c) /\ ~ call[c].late => answered[call[c].user] <= call[c].epoch

LEMMA Numbers ==
  ASSUME SessionsInv
  PROVE  /\ \A u \in Accounts : answered[u] \in Nat /\ account[u].epoch \in Nat
         /\ \A t \in Refreshes : refresh[t].epoch \in Nat
         /\ \A c \in Calls : call[c].epoch \in Nat
         /\ \A t \in Refreshes : refresh[t].state = "live" => refresh[t].owner \in Accounts
         /\ \A c \in Calls : pc[c] # "idle" => call[c].user \in Accounts
BY SessionsAssumption
   DEF SessionsInv, TypeOK, CallsFit, Fits, LiveAreOwned, AccountRow, RefreshRow, Request

(* Every step but the answer to a change. *)
LEMMA EndsElsewhere ==
  ASSUME SessionsInv, EndsInv, SessionsInv', IssuingMoves, AccountsMove, TokensMove,
         UNCHANGED answered
  PROVE  EndsInv'
<1>1. ASSUME NEW u \in Accounts PROVE answered'[u] <= account'[u].epoch
  BY <1>1, Numbers DEF EndsInv, AccountsMove, SessionsInv, TypeOK, AccountRow
<1>2. ASSUME NEW t \in Refreshes, refresh'[t].state = "live", ~ refresh'[t].late
      PROVE  answered'[refresh'[t].owner] <= refresh'[t].epoch
  <2>1. ASSUME NEW c \in Calls, Stores(c, t)
        PROVE  answered'[refresh'[t].owner] <= refresh'[t].epoch
    BY <1>2, <2>1 DEF Stores, EndsInv, Issuing
  <2> QED
    BY <1>2, <2>1 DEF TokensMove, EndsInv
<1>3. ASSUME NEW c \in Calls, Issuing(c)', ~ call'[c].late
      PROVE  answered'[call'[c].user] <= call'[c].epoch
  <2>1. CASE GoesOn(c)
    BY <1>3, <2>1 DEF GoesOn, EndsInv
  <2>2. CASE Verified(c)
    <3>1. call'[c].user \in Accounts
      BY <1>3 DEF Issuing, SessionsInv, CallsFit, Fits
    <3> QED
      BY <2>2, <3>1 DEF Verified, EndsInv
  <2>3. CASE Reread(c)
    BY <1>3, <2>3 DEF Reread, EndsInv, Issuing
  <2>4. CASE Exchanges(c)
    BY <1>3, <2>4 DEF Exchanges, Usable, EndsInv
  <2> QED
    BY <1>3, <2>1, <2>2, <2>3, <2>4 DEF IssuingMoves
<1> QED
  BY <1>1, <1>2, <1>3 DEF EndsInv

(* The answer: the account's tokens are revoked, and history marks the calls *)
(* that were late. *)
LEMMA EndsAtAnswer ==
  ASSUME SessionsInv, EndsInv, NEW c \in Calls, RevokeAllRefreshTokens(c)
  PROVE  EndsInv'
<1> DEFINE u == call[c].user
           mark(d) == call[d].late \/ /\ Issuing(d) /\ call[d].user = u
                                      /\ call[d].epoch < account[u].epoch
<1>1. u \in Accounts /\ account[u].epoch \in Nat
  BY Numbers DEF RevokeAllRefreshTokens, At
<1>2. /\ answered' = [answered EXCEPT ![u] = account[u].epoch]
      /\ account' = account
      /\ answered'[u] = account[u].epoch
      /\ \A v \in Accounts \ {u} : answered'[v] = answered[v]
  BY <1>1 DEF RevokeAllRefreshTokens, SessionsInv, TypeOK
<1>3. ASSUME NEW v \in Accounts PROVE answered'[v] <= account'[v].epoch
  BY <1>1, <1>2, <1>3 DEF EndsInv
<1>4. ASSUME NEW t \in Refreshes, refresh'[t].state = "live", ~ refresh'[t].late
      PROVE  answered'[refresh'[t].owner] <= refresh'[t].epoch
  <2>1. refresh'[t] = IF refresh[t].state = "live" /\ refresh[t].owner = u
                      THEN Spent(refresh[t]) ELSE refresh[t]
    BY DEF RevokeAllRefreshTokens, Revoked
  <2>2. Spent(refresh[t]).state = "dead"
    BY DEF SessionsInv, TypeOK, Spent, RefreshRow
  <2>3. refresh'[t] = refresh[t] /\ refresh[t].owner # u
    BY <1>4, <2>1, <2>2
  <2>4. refresh[t].owner \in Accounts
    BY <1>4, <2>3, Numbers
  <2> QED
    BY <1>2, <1>4, <2>3, <2>4 DEF EndsInv
<1>5. ASSUME NEW d \in Calls, Issuing(d)', ~ call'[d].late
      PROVE  answered'[call'[d].user] <= call'[d].epoch
  <2>1. call' = [b \in Calls |-> IF b = c THEN NoCall ELSE [call[b] EXCEPT !.late = mark(b)]]
    BY DEF RevokeAllRefreshTokens
  <2>2. pc'[c] = "idle" /\ \A b \in Calls \ {c} : pc'[b] = pc[b]
    BY DEF RevokeAllRefreshTokens, Goto, SessionsInv, TypeOK
  <2>3. d # c /\ Issuing(d)
    BY <1>5, <2>2 DEF Issuing
  <2>4. call[d] \in Request
    BY DEF SessionsInv, TypeOK
  <2> HIDE DEF mark
  <2>5. /\ call'[d].user = call[d].user
        /\ call'[d].epoch = call[d].epoch
        /\ call'[d].late = mark(d)
    BY <2>1, <2>3, <2>4 DEF Request
  <2> USE DEF mark
  <2>6. ~ call[d].late /\ (call[d].user = u => ~ (call[d].epoch < account[u].epoch))
    BY <1>5, <2>3, <2>5
  <2>7. call[d].user \in Accounts /\ call[d].epoch \in Nat
    BY <2>3, Numbers DEF Issuing
  <2>8. CASE call[d].user = u
    BY <1>1, <1>2, <2>5, <2>6, <2>7, <2>8
  <2>9. CASE call[d].user # u
    BY <1>2, <2>3, <2>5, <2>6, <2>7, <2>9 DEF EndsInv
  <2> QED
    BY <2>8, <2>9
<1> QED
  BY <1>3, <1>4, <1>5 DEF EndsInv

LEMMA EndsStep == SessionsInv /\ EndsInv /\ [Next]_vars => EndsInv'
<1> SUFFICES ASSUME SessionsInv, EndsInv, [Next]_vars PROVE EndsInv'
  OBVIOUS
<1>1. IssuingMoves /\ AccountsMove /\ TokensMove /\ SessionsInv'
  BY CallsIssue, AccountsAdvance, TokensAdvance, SessionsStep
<1>2. (\E c \in Calls : RevokeAllRefreshTokens(c)) \/ UNCHANGED answered
  <2>1. ASSUME NEW c \in Calls, Serve(c) PROVE RevokeAllRefreshTokens(c) \/ UNCHANGED answered
    BY <2>1
    DEF Serve, past, Login, IssueAccessToken, SaveRefreshToken, ConsumeRefreshToken, Refresh,
        ChangePassword, ForgotPassword, InvalidatePasswordResets, SavePasswordReset,
        ConsumePasswordReset, ResetPassword, StartUpdatePassword, UpdatePassword, UpdateRole,
        CommitRole, Abandon
  <2> QED
    BY <2>1 DEF Next, vars, past, Logout, SetStatus, ExpireReset, Tick
<1> QED
  BY <1>1, <1>2, EndsElsewhere, EndsAtAnswer

(* The extent of what a change of password ends: once it has been answered, a *)
(* refresh token that rests on an earlier password is of no use, but for those *)
(* that descend from a call which was already issuing one at the answer, with *)
(* any number of calls, tokens and changes. *)
THEOREM ChangeKept == Spec => []OnlyLateSessionsSurvive
<1>1. Init => EndsInv
  <2> SUFFICES ASSUME Init PROVE EndsInv
    OBVIOUS
  <2>1. \A u \in Accounts : account[u].epoch = 0 /\ answered[u] = 0
    BY DEF Init
  <2>2. \A t \in Refreshes : refresh[t].state = "unused"
    BY DEF Init, NoRefresh
  <2>3. \A c \in Calls : ~ Issuing(c)
    BY DEF Init, Issuing
  <2> QED
    BY <2>1, <2>2, <2>3 DEF EndsInv
<1>2. SessionsInv /\ EndsInv => OnlyLateSessionsSurvive
  BY Numbers DEF EndsInv, OnlyLateSessionsSurvive, Usable
<1> QED
  BY <1>1, <1>2, EndsStep, AlwaysSessionsInv, PTL DEF Spec

-----------------------------------------------------------------------------
(* Tokens are used once.  Whoever holds a token has taken it out of circulation, *)
(* holds it alone and has done nothing with it yet. *)
UseInv ==
  /\ \A t \in Tokens : Held(t) => Row(t) = "dead" /\ used[t] = 0
  /\ \A c, d \in Calls : c # d /\ call[c].token # None => call[c].token # call[d].token
  /\ \A t \in Tokens : Row(t) # "dead" => used[t] = 0

(* The four ways a step meets the tokens. *)
HeldAs(c, k) == call'[c].token = k /\ \A d \in Calls \ {c} : call'[d].token = call[d].token

Revokes ==
  /\ UNCHANGED used
  /\ \A c \in Calls : call'[c].token = call[c].token
  /\ \A t \in Tokens : Row(t)' = Row(t) \/ (Row(t) = "live" /\ Row(t)' = "dead")

Drops(c) ==
  /\ UNCHANGED used
  /\ HeldAs(c, None)
  /\ \A t \in Tokens : Row(t)' = Row(t)

Takes(c, k) ==
  /\ UNCHANGED used
  /\ call[c].token = None /\ HeldAs(c, k)
  /\ Row(k) = "live" /\ Row(k)' = "dead"
  /\ \A t \in Tokens \ {k} : Row(t)' = Row(t)

Honours(c) ==
  /\ Honour(c)
  /\ HeldAs(c, None)
  /\ \A t \in Tokens : Row(t)' = Row(t) \/ (Row(t) = "unused" /\ Row(t)' = "live")

LEMMA UsedIsNumber == SessionsInv => /\ used \in [Tokens -> Nat]
                                     /\ \A t \in Tokens : Row(t) \in {"unused", "live", "dead"}
                                     /\ \A c \in Calls : call[c].token \in Tokens \cup {None}
BY DEF SessionsInv, TypeOK, Tokens, Row, RefreshRow, ResetRow, Request

(* One token's move is one the abstract token may make. *)
TokenMoves(t) ==
  /\ Stage'[t] \in SingleUse!Stages
  /\ Stage'[t] # Stage[t] => <<Stage[t], Stage'[t]>> \in SingleUse!Moves
  /\ used'[t] = used[t] + IF Stage[t] = "held" /\ Stage'[t] = "honoured" THEN 1 ELSE 0

LEMMA TokensMoveTogether ==
  ASSUME SessionsInv', \A t \in Tokens : TokenMoves(t) PROVE SingleUse!OneShotNext
<1>1. used' = [t \in Tokens |-> used'[t]]
  BY UsedIsNumber DEF SessionsInv, TypeOK
<1>2. used' = [t \in Tokens |->
                 used[t] + IF Stage[t] = "held" /\ Stage'[t] = "honoured" THEN 1 ELSE 0]
  BY <1>1 DEF TokenMoves
<1>3. Stage' = [t \in Tokens |-> Stage'[t]]
  BY DEF Stage
<1>4. Stage' \in [Tokens -> SingleUse!Stages]
  BY <1>3 DEF TokenMoves
<1> QED
  BY <1>2, <1>4 DEF TokenMoves, SingleUse!OneShotNext

LEMMA OneTokenMoves ==
  ASSUME SessionsInv, SessionsInv', NEW t \in Tokens,
         \/ Row(t)' = Row(t) /\ Held(t)' = Held(t) /\ used'[t] = used[t]
         \/ Row(t) = "unused" /\ Row(t)' = "live" /\ used'[t] = used[t]
         \/ Row(t) = "live" /\ Row(t)' = "dead" /\ used[t] = 0 /\ used'[t] = 0
         \/ Row(t) = "dead" /\ Row(t)' = "dead" /\ Held(t) /\ ~ Held(t)' /\ used[t] = 0 /\ used'[t] = 0
         \/ Row(t) = "dead" /\ Row(t)' = "dead" /\ Held(t) /\ used[t] = 0 /\ used'[t] = 1
  PROVE  TokenMoves(t)
<1>1. Stage[t] = IF Row(t) = "unused" THEN "blank"
                 ELSE IF Row(t) = "live" THEN "live"
                 ELSE IF used[t] > 0 THEN "honoured"
                 ELSE IF Held(t) THEN "held" ELSE "void"
  BY DEF Stage
<1>2. Stage'[t] = IF Row(t)' = "unused" THEN "blank"
                  ELSE IF Row(t)' = "live" THEN "live"
                  ELSE IF used'[t] > 0 THEN "honoured"
                  ELSE IF Held(t)' THEN "held" ELSE "void"
  BY DEF Stage
<1>3. used[t] \in Nat
  BY UsedIsNumber
<1> QED
  BY <1>1, <1>2, <1>3 DEF TokenMoves, SingleUse!Stages, SingleUse!Moves

LEMMA RevokesOnce ==
  ASSUME SessionsInv, SessionsInv', UseInv, Revokes PROVE UseInv' /\ SingleUse!OneShotNext
<1>1. \A t \in Tokens : Held(t)' = Held(t)
  BY DEF Revokes, Held
<1>2. UseInv'
  BY <1>1, UsedIsNumber DEF UseInv, Revokes
<1>3. ASSUME NEW t \in Tokens PROVE TokenMoves(t)
  BY <1>1, OneTokenMoves DEF UseInv, Revokes
<1> QED
  BY <1>2, <1>3, TokensMoveTogether

LEMMA DropsOnce ==
  ASSUME SessionsInv, SessionsInv', UseInv, NEW c \in Calls, Drops(c)
  PROVE  UseInv' /\ SingleUse!OneShotNext
<1>1. \A d \in Calls : call'[d].token # None => d # c /\ call'[d].token = call[d].token
  BY DEF Drops, HeldAs
<1>4. \A t \in Tokens : Held(t)' => Held(t)
  BY <1>1, NoneIsNoName DEF Held
<1>2. UseInv'
  BY <1>1, <1>4, UsedIsNumber DEF UseInv, Drops
<1>3. ASSUME NEW t \in Tokens PROVE TokenMoves(t)
  <2>1. Row(t)' = Row(t) /\ used'[t] = used[t] /\ Row(t) \in {"unused", "live", "dead"}
    BY UsedIsNumber DEF Drops
  <2>2. CASE Held(t)' = Held(t)
    BY <2>1, <2>2, OneTokenMoves
  <2>3. CASE Held(t) /\ ~ Held(t)'
    BY <2>1, <2>3, OneTokenMoves DEF UseInv
  <2> QED
    BY <1>4, <2>2, <2>3 DEF Held
<1> QED
  BY <1>2, <1>3, TokensMoveTogether

LEMMA TakesOnce ==
  ASSUME SessionsInv, SessionsInv', UseInv, NEW c \in Calls, NEW k \in Tokens, Takes(c, k)
  PROVE  UseInv' /\ SingleUse!OneShotNext
<1>1. /\ call'[c].token = k
      /\ \A d \in Calls \ {c} : call'[d].token = call[d].token
      /\ call[c].token = None
  BY DEF Takes, HeldAs
<1>2. \A d \in Calls : call[d].token # k
  BY DEF UseInv, Takes, Held
<1>3. used[k] = 0
  BY DEF UseInv, Takes
<1>6. \A t \in Tokens \ {k} : Held(t)' => Held(t)
  BY <1>1, NoneIsNoName DEF Held
<1>4. UseInv'
  <2>1. ASSUME NEW t \in Tokens, Held(t)' PROVE Row(t)' = "dead" /\ used'[t] = 0
    BY <1>3, <1>6, <2>1 DEF Takes, UseInv
  <2>2. \A a, b \in Calls : a # b /\ call'[a].token # None => call'[a].token # call'[b].token
    BY <1>1, <1>2 DEF UseInv
  <2>3. ASSUME NEW t \in Tokens, Row(t)' # "dead" PROVE used'[t] = 0
    BY <1>3, <2>3 DEF Takes, UseInv
  <2> QED
    BY <2>1, <2>2, <2>3 DEF UseInv
<1>5. ASSUME NEW t \in Tokens PROVE TokenMoves(t)
  <2>1. CASE t = k
    BY <1>3, <2>1, OneTokenMoves DEF Takes
  <2>2. CASE t # k
    <3>1. Held(t)' = Held(t)
      BY <1>1, <2>2, NoneIsNoName DEF Held
    <3> QED
      BY <2>2, <3>1, OneTokenMoves DEF Takes
  <2> QED
    BY <2>1, <2>2
<1> QED
  BY <1>4, <1>5, TokensMoveTogether

LEMMA HonoursOnce ==
  ASSUME SessionsInv, SessionsInv', UseInv, NEW c \in Calls, Honours(c)
  PROVE  UseInv' /\ SingleUse!OneShotNext
<1>1. /\ call'[c].token = None
      /\ \A d \in Calls \ {c} : call'[d].token = call[d].token
  BY DEF Honours, HeldAs
<1>2. \A t \in Tokens : used'[t] = used[t] + IF t = call[c].token THEN 1 ELSE 0
  BY DEF Honours, Honour
<1>3. \A t \in Tokens : t # call[c].token => used'[t] = used[t]
  BY <1>2, UsedIsNumber
<1>4. \A d \in Calls \ {c} : call[d].token # None => call[d].token # call[c].token
  BY DEF UseInv
<1>5. UseInv'
  <2>1. ASSUME NEW t \in Tokens, Held(t)' PROVE Row(t)' = "dead" /\ used'[t] = 0
    <3>1. Held(t) /\ t # call[c].token
      BY <1>1, <1>4, <2>1, NoneIsNoName DEF Held
    <3>2. Row(t) = "dead" /\ used[t] = 0
      BY <3>1 DEF UseInv
    <3> QED
      BY <1>3, <3>1, <3>2 DEF Honours
  <2>2. \A a, b \in Calls : a # b /\ call'[a].token # None => call'[a].token # call'[b].token
    BY <1>1 DEF UseInv
  <2>3. ASSUME NEW t \in Tokens, Row(t)' # "dead" PROVE used'[t] = 0
    <3>1. Row(t) # "dead"
      BY <2>3 DEF Honours
    <3>2. used[t] = 0 /\ t # call[c].token
      BY <3>1 DEF UseInv, Held
    <3> QED
      BY <1>3, <3>2
  <2> QED
    BY <2>1, <2>2, <2>3 DEF UseInv
<1>6. ASSUME NEW t \in Tokens PROVE TokenMoves(t)
  <2>1. CASE t = call[c].token
    <3>1. Held(t)
      BY <2>1 DEF Held
    <3>2. Row(t) = "dead" /\ used[t] = 0 /\ used'[t] = 1
      BY <1>2, <2>1, <3>1 DEF UseInv
    <3>3. Row(t)' = "dead"
      BY <3>2 DEF Honours
    <3> QED
      BY <3>1, <3>2, <3>3, OneTokenMoves
  <2>2. CASE t # call[c].token
    <3>1. Held(t)' = Held(t)
      BY <1>1, <2>2, NoneIsNoName DEF Held
    <3> QED
      BY <1>3, <2>2, <3>1, OneTokenMoves DEF Honours
  <2> QED
    BY <2>1, <2>2
<1> QED
  BY <1>5, <1>6, TokensMoveTogether

-----------------------------------------------------------------------------
(* Each statement is one of the four. *)

LEMMA RowsOfTokens ==
  /\ \A t \in Refreshes : Row(t) = refresh[t].state /\ Row(t)' = refresh'[t].state
  /\ \A k \in Resets : Row(k) = reset[k].state /\ Row(k)' = reset'[k].state
  /\ \A t \in Tokens : t \in Refreshes \/ (t \in Resets /\ t \notin Refreshes)
BY SessionsAssumption DEF Row, Tokens

LEMMA RowsStay ==
  UNCHANGED <<refresh, reset>> => \A t \in Tokens : Row(t)' = Row(t)
BY DEF Row

(* A request that begins without a token, or whose token stays what it was. *)
LEMMA BeginsBare ==
  ASSUME SessionsInv, NEW c \in Calls, NEW label, NEW r, Begin(c, label, r), r.token = None
  PROVE  \A d \in Calls : call'[d].token = call[d].token
<1>1. call[c].token = None
  BY DEF Begin, At, SessionsInv, CallsFit, Fits
<1>2. call' = [call EXCEPT ![c] = r] /\ call \in [Calls -> Request]
  BY DEF Begin, SessionsInv, TypeOK
<1> QED
  BY <1>1, <1>2

LEMMA EndsBare ==
  ASSUME SessionsInv, NEW c \in Calls, Done(c) PROVE HeldAs(c, None)
<1>1. call' = [call EXCEPT ![c] = NoCall] /\ call \in [Calls -> Request]
  BY DEF Done, SessionsInv, TypeOK
<1> QED
  BY <1>1 DEF HeldAs, NoCall

LEMMA SpentIsDead ==
  ASSUME SessionsInv
  PROVE  /\ \A t \in Refreshes : Spent(refresh[t]).state = "dead"
         /\ \A k \in Resets : Spent(reset[k]).state = "dead"
BY DEF SessionsInv, TypeOK, Spent, RefreshRow, ResetRow

UsesTokens == Revokes \/ \E c \in Calls : Drops(c) \/ Honours(c) \/ \E k \in Tokens : Takes(c, k)

(* Statements that write no token. *)
LEMMA RequestsLeaveTokens ==
  ASSUME SessionsInv, NEW c \in Calls,
         \/ Login(c) \/ ChangePassword(c) \/ ForgotPassword(c) \/ UpdateRole(c)
  PROVE  Revokes
<1>1. UNCHANGED <<refresh, reset, used>>
  BY DEF Login, ChangePassword, ForgotPassword, UpdateRole, rows, past
<1>2. \E label, r : Begin(c, label, r) /\ r.token = None
  <2>1. CASE Login(c)
    <3>1. PICK u \in Accounts :
            Begin(c, "sign", [NoCall EXCEPT !.user = u, !.role = account[u].role,
                                            !.pending = account[u].mustChange,
                                            !.epoch = account[u].epoch])
      BY <2>1 DEF Login
    <3>2. [NoCall EXCEPT !.user = u, !.role = account[u].role, !.pending = account[u].mustChange,
                         !.epoch = account[u].epoch].token = None
      BY DEF NoCall
    <3> QED
      BY <3>1, <3>2
  <2>2. CASE ChangePassword(c)
    <3>1. PICK j \in access : Begin(c, "change", [NoCall EXCEPT !.user = j.user])
      BY <2>2 DEF ChangePassword
    <3>2. [NoCall EXCEPT !.user = j.user].token = None
      BY DEF NoCall
    <3> QED
      BY <3>1, <3>2
  <2>3. CASE ForgotPassword(c)
    <3>1. PICK u \in Accounts : Begin(c, "link", [NoCall EXCEPT !.user = u])
      BY <2>3 DEF ForgotPassword
    <3>2. [NoCall EXCEPT !.user = u].token = None
      BY DEF NoCall
    <3> QED
      BY <3>1, <3>2
  <2>4. CASE UpdateRole(c)
    <3>1. PICK u \in Accounts, role \in Roles :
            Begin(c, "promote", [NoCall EXCEPT !.user = u, !.role = role, !.at = clock])
      BY <2>4 DEF UpdateRole
    <3>2. [NoCall EXCEPT !.user = u, !.role = role, !.at = clock].token = None
      BY DEF NoCall
    <3> QED
      BY <3>1, <3>2
  <2> QED
    BY <2>1, <2>2, <2>3, <2>4
<1> QED
  BY <1>1, <1>2, BeginsBare, RowsStay DEF Revokes

LEMMA CallsKeepTokens ==
  ASSUME SessionsInv, NEW c \in Calls,
         \/ IssueAccessToken(c) \/ StartUpdatePassword(c) \/ Refresh(c) \/ ResetPassword(c)
         \/ CommitRole(c) \/ Abandon(c)
  PROVE  Revokes \/ Drops(c)
<1>1. UNCHANGED <<refresh, reset, used>>
  BY DEF IssueAccessToken, StartUpdatePassword, Refresh, ResetPassword, CommitRole, Abandon,
         rows, past
<1>2. call \in [Calls -> Request]
  BY DEF SessionsInv, TypeOK
<1>3. \/ Done(c)
      \/ \A d \in Calls : call'[d].token = call[d].token
  <2>1. CASE IssueAccessToken(c) \/ StartUpdatePassword(c)
    <3>1. call' = [call EXCEPT ![c].at = clock]
      BY <2>1 DEF IssueAccessToken, StartUpdatePassword
    <3> QED
      BY <1>2, <3>1 DEF Request
  <2>2. CASE Refresh(c)
    <3>1. CASE call' = [call EXCEPT ![c] = WithRow(@, User(c))]
      <4>1. WithRow(call[c], User(c)).token = call[c].token
        BY <1>2 DEF WithRow, Request
      <4> QED
        BY <1>2, <3>1, <4>1
    <3> QED
      BY <2>2, <3>1 DEF Refresh
  <2>3. CASE ResetPassword(c)
    BY <2>3 DEF ResetPassword
  <2>4. CASE CommitRole(c) \/ Abandon(c)
    BY <2>4 DEF CommitRole, Abandon
  <2> QED
    BY <2>1, <2>2, <2>3, <2>4
<1> QED
  BY <1>1, <1>3, EndsBare, RowsStay DEF Revokes, Drops

(* Statements that write one or several. *)
LEMMA ExchangesTake ==
  ASSUME SessionsInv, NEW c \in Calls, ConsumeRefreshToken(c) PROVE \E k \in Tokens : Takes(c, k)
<1>1. PICK t \in Refreshes :
        /\ Usable(t)
        /\ refresh' = [refresh EXCEPT ![t] = Spent(@)]
        /\ Begin(c, "reload", [NoCall EXCEPT !.user = refresh[t].owner, !.token = t,
                                             !.epoch = refresh[t].epoch,
                                             !.late = refresh[t].late])
  BY DEF ConsumeRefreshToken
<1> DEFINE r == [NoCall EXCEPT !.user = refresh[t].owner, !.token = t,
                               !.epoch = refresh[t].epoch, !.late = refresh[t].late]
<1>2. r.token = t
  BY DEF NoCall
<1>3. call' = [call EXCEPT ![c] = r] /\ call \in [Calls -> Request] /\ call[c].token = None
  BY <1>1 DEF Begin, At, SessionsInv, TypeOK, CallsFit, Fits
<1> HIDE DEF r
<1>4. call[c].token = None /\ HeldAs(c, t)
  BY <1>2, <1>3 DEF HeldAs
<1>5. refresh \in [Refreshes -> RefreshRow]
  BY DEF SessionsInv, TypeOK
<1>6. Row(t) = "live" /\ Row(t)' = "dead"
  BY <1>1, <1>5, RowsOfTokens, SpentIsDead DEF Usable
<1>7. \A s \in Tokens \ {t} : Row(s)' = Row(s)
  BY <1>1, <1>5, RowsOfTokens DEF ConsumeRefreshToken
<1>8. UNCHANGED used
  BY DEF ConsumeRefreshToken, past
<1> QED
  BY <1>4, <1>6, <1>7, <1>8 DEF Takes, Tokens

LEMMA LinksTake ==
  ASSUME SessionsInv, NEW c \in Calls, ConsumePasswordReset(c) PROVE \E k \in Tokens : Takes(c, k)
<1>1. PICK k \in Resets :
        /\ reset[k].state = "live"
        /\ reset' = [reset EXCEPT ![k] = Spent(@)]
        /\ Begin(c, "holder", [NoCall EXCEPT !.user = reset[k].owner, !.token = k])
  BY DEF ConsumePasswordReset
<1> DEFINE r == [NoCall EXCEPT !.user = reset[k].owner, !.token = k]
<1>2. r.token = k
  BY DEF NoCall
<1>3. call' = [call EXCEPT ![c] = r] /\ call \in [Calls -> Request] /\ call[c].token = None
  BY <1>1 DEF Begin, At, SessionsInv, TypeOK, CallsFit, Fits
<1> HIDE DEF r
<1>4. call[c].token = None /\ HeldAs(c, k)
  BY <1>2, <1>3 DEF HeldAs
<1>5. reset \in [Resets -> ResetRow]
  BY DEF SessionsInv, TypeOK
<1>6. Row(k) = "live" /\ Row(k)' = "dead"
  BY <1>1, <1>5, RowsOfTokens, SpentIsDead
<1>7. \A s \in Tokens \ {k} : Row(s)' = Row(s)
  BY <1>1, <1>5, RowsOfTokens DEF ConsumePasswordReset
<1>8. UNCHANGED used
  BY DEF ConsumePasswordReset, past
<1> QED
  BY <1>4, <1>6, <1>7, <1>8 DEF Takes, Tokens

LEMMA RowsAreRevoked ==
  ASSUME SessionsInv, UNCHANGED used,
         \A c \in Calls : call'[c].token = call[c].token,
         \A t \in Refreshes : \/ refresh'[t] = refresh[t]
                              \/ refresh[t].state = "live" /\ refresh'[t] = Spent(refresh[t]),
         \A k \in Resets : \/ reset'[k] = reset[k]
                           \/ reset[k].state = "live" /\ reset'[k] = Spent(reset[k])
  PROVE  Revokes
BY RowsOfTokens, SpentIsDead DEF Revokes

LEMMA RevocationsRevoke ==
  ASSUME SessionsInv,
         \/ \E t \in Refreshes : Logout(t)
         \/ \E k \in Resets : ExpireReset(k)
         \/ \E c \in Calls : InvalidatePasswordResets(c)
         \/ \E c \in Calls : RevokeAllRefreshTokens(c)
  PROVE  Revokes
<1>1. refresh \in [Refreshes -> RefreshRow] /\ reset \in [Resets -> ResetRow] /\ call \in [Calls -> Request]
  BY DEF SessionsInv, TypeOK
<1>2. ASSUME NEW t \in Refreshes, Logout(t) PROVE Revokes
  BY <1>1, <1>2, RowsAreRevoked DEF Logout, past
<1>3. ASSUME NEW k \in Resets, ExpireReset(k) PROVE Revokes
  BY <1>1, <1>3, RowsAreRevoked DEF ExpireReset, past
<1>4. ASSUME NEW c \in Calls, InvalidatePasswordResets(c) PROVE Revokes
  <2>1. PICK u \in Accounts :
          /\ reset' = [k \in Resets |-> IF reset[k].state = "live" /\ reset[k].owner = u
                                        THEN Spent(reset[k]) ELSE reset[k]]
          /\ Begin(c, "link", [NoCall EXCEPT !.user = u])
    BY <1>4 DEF InvalidatePasswordResets
  <2>2. [NoCall EXCEPT !.user = u].token = None
    BY DEF NoCall
  <2>3. \A d \in Calls : call'[d].token = call[d].token
    BY <2>1, <2>2, BeginsBare
  <2> QED
    BY <1>4, <2>1, <2>3, RowsAreRevoked DEF InvalidatePasswordResets, past
<1>5. ASSUME NEW c \in Calls, RevokeAllRefreshTokens(c) PROVE Revokes
  <2> DEFINE mark(d) == call[d].late \/ /\ Issuing(d) /\ call[d].user = call[c].user
                                        /\ call[d].epoch < account[call[c].user].epoch
  <2>1. call' = [d \in Calls |-> IF d = c THEN NoCall ELSE [call[d] EXCEPT !.late = mark(d)]]
    BY <1>5 DEF RevokeAllRefreshTokens
  <2>2. call[c].token = None
    BY <1>5 DEF RevokeAllRefreshTokens, At, SessionsInv, CallsFit, Fits
  <2> HIDE DEF mark
  <2>3. \A d \in Calls : call'[d].token = call[d].token
    BY <1>1, <2>1, <2>2 DEF NoCall, Request
  <2> QED
    BY <1>5, <2>3, RowsAreRevoked DEF RevokeAllRefreshTokens, Revoked
<1> QED
  BY <1>2, <1>3, <1>4, <1>5

LEMMA SavesHonour ==
  ASSUME SessionsInv, NEW c \in Calls, SaveRefreshToken(c) \/ SavePasswordReset(c) \/ UpdatePassword(c)
  PROVE  Honours(c)
<1>1. refresh \in [Refreshes -> RefreshRow] /\ reset \in [Resets -> ResetRow] /\ call \in [Calls -> Request]
  BY DEF SessionsInv, TypeOK
<1>2. CASE SaveRefreshToken(c)
  <2>1. PICK t \in Refreshes, started \in call[c].at .. clock :
          /\ refresh[t].state = "unused"
          /\ refresh' = [refresh EXCEPT ![t] =
                           [state |-> "live", owner |-> call[c].user, created |-> started,
                            epoch |-> call[c].epoch, late |-> call[c].late]]
    BY <1>2 DEF SaveRefreshToken
  <2>2. refresh'[t].state = "live" /\ \A s \in Refreshes \ {t} : refresh'[s] = refresh[s]
    BY <1>1, <2>1
  <2>3. UNCHANGED reset /\ Honour(c) /\ HeldAs(c, None)
    BY <1>2, EndsBare DEF SaveRefreshToken
  <2> QED
    BY <2>1, <2>2, <2>3, RowsOfTokens DEF Honours
<1>3. CASE SavePasswordReset(c)
  <2>1. PICK k \in Resets :
          /\ reset[k].state = "unused"
          /\ reset' = [reset EXCEPT ![k] = [state |-> "live", owner |-> call[c].user]]
    BY <1>3 DEF SavePasswordReset
  <2>2. reset'[k].state = "live" /\ \A s \in Resets \ {k} : reset'[s] = reset[s]
    BY <1>1, <2>1
  <2>3. UNCHANGED <<refresh, used>> /\ HeldAs(c, None)
    BY <1>3, EndsBare DEF SavePasswordReset, past
  <2>4. call[c].token = None /\ used \in [Tokens -> Nat]
    BY <1>3, UsedIsNumber DEF SavePasswordReset, At, SessionsInv, CallsFit, Fits
  <2>5. used' = [t \in Tokens |-> used[t] + IF t = call[c].token THEN 1 ELSE 0]
    BY <2>3, <2>4, NoneIsNoName
  <2> QED
    BY <2>1, <2>2, <2>3, <2>5, RowsOfTokens DEF Honours, Honour
<1>4. CASE UpdatePassword(c)
  <2>1. call' = [call EXCEPT ![c].token = None]
    BY <1>4 DEF UpdatePassword
  <2>2. HeldAs(c, None)
    BY <1>1, <2>1 DEF HeldAs, Request
  <2> QED
    BY <1>4, <2>2, RowsStay DEF UpdatePassword, Honours
<1> QED
  BY <1>2, <1>3, <1>4

LEMMA UseStep ==
  SessionsInv /\ UseInv /\ [Next]_vars
    => UseInv' /\ [SingleUse!OneShotNext]_(SingleUse!oneShotVars)
<1> SUFFICES ASSUME SessionsInv, UseInv, [Next]_vars
             PROVE  UseInv' /\ SingleUse!OneShotNext
  OBVIOUS
<1>1. SessionsInv'
  BY SessionsStep
<1>2. ASSUME NEW c \in Calls, Serve(c) PROVE UsesTokens
  BY <1>2, RequestsLeaveTokens, CallsKeepTokens, ExchangesTake, LinksTake, RevocationsRevoke,
     SavesHonour DEF Serve, UsesTokens
<1>3. ASSUME UNCHANGED <<refresh, reset, call, used>> PROVE UsesTokens
  BY <1>3, RowsStay DEF UsesTokens, Revokes
<1>4. UsesTokens
  BY <1>2, <1>3, RevocationsRevoke DEF Next, vars, rows, past, SetStatus, Tick, UsesTokens
<1> QED
  BY <1>1, <1>4, RevokesOnce, DropsOnce, TakesOnce, HonoursOnce DEF UsesTokens

(* A refresh token is exchanged, and a link sets a password, at most once, *)
(* whatever calls present, revoke, replace or abandon it at the same moment: *)
(* the sessions implement the single-use token. *)
THEOREM SessionsImplementSingleUse == Spec => TokensAreSingleUse
<1>1. Init => UseInv /\ SingleUse!OneShotInit
  <2> SUFFICES ASSUME Init PROVE UseInv /\ SingleUse!OneShotInit
    OBVIOUS
  <2>1. \A t \in Tokens : Row(t) = "unused" /\ used[t] = 0
    BY RowsOfTokens DEF Init, NoRefresh, NoReset
  <2>2. \A c \in Calls : call[c].token = None
    BY DEF Init, NoCall
  <2>3. \A t \in Tokens : ~ Held(t)
    BY <2>2, NoneIsNoName DEF Held
  <2>4. Stage = [t \in Tokens |-> "blank"]
    BY <2>1 DEF Stage
  <2>5. used = [t \in Tokens |-> 0]
    BY DEF Init
  <2> QED
    BY <2>1, <2>2, <2>3, <2>4, <2>5 DEF UseInv, SingleUse!OneShotInit
<1> QED
  BY <1>1, UseStep, AlwaysSessionsInv, PTL DEF Spec, TokensAreSingleUse, SingleUse!OneShotSpec
=============================================================================
