------------------------------ MODULE Sessions ------------------------------
(***************************************************************************)
(* Sessions: sign-in, refresh, sign-out, password changes and resets.       *)
(*                                                                         *)
(* A call is a request the API is serving.  Each of its database statements *)
(* is a step of its own, so that another call can come between any two.     *)
(* A password is known by its number: the n-th one the account has had.     *)
(* Whoever presents a wrong password or an unusable token, or is over a     *)
(* rate limit, changes nothing and is not modelled.                         *)
(***************************************************************************)
EXTENDS Naturals

CONSTANTS
  Calls,         \* bound: requests served at once
  Accounts,
  Roles,         \* bound: the roles an administrator hands out
  Refreshes,     \* bound: rows of refresh_tokens
  Resets,        \* bound: rows of password_resets
  MaxClock,      \* bound: the last instant
  SecondLength,  \* instants in a second: access tokens are dated in seconds
  MaxEpoch,      \* bound: passwords an account goes through
  None

ASSUME SessionsAssumption ==
  /\ MaxClock \in Nat
  /\ SecondLength \in Nat \ {0}
  /\ MaxEpoch \in Nat
  /\ Roles # {}
  /\ None \notin Accounts \cup Refreshes \cup Resets
  /\ Refreshes \cap Resets = {}

VARIABLES
  account,   \* users: password, must_change_password, role, status, tokens_invalid_before
  refresh,   \* refresh_tokens
  reset,     \* password_resets
  access,    \* access tokens handed out, the expired ones included
  clock,
  pc,        \* the statement each call is about to make
  call,      \* what each call has read so far
  answered,  \* history: the password in force when a change was last answered
  used,      \* history: how often each token did what it stands for
  voided     \* history: the instants whose access tokens a change has voided

rows == <<account, refresh, reset>>
past == <<answered, used, voided>>
vars == <<rows, access, clock, pc, call, past>>

Tokens == Refreshes \cup Resets

NoRefresh == [state |-> "unused", owner |-> None, created |-> 0, epoch |-> 0, late |-> FALSE]
NoReset == [state |-> "unused", owner |-> None]
NoCall == [user |-> None, token |-> None, role |-> None, pending |-> FALSE, at |-> 0,
           epoch |-> 0, late |-> FALSE]

At(c, label) == pc[c] = label
User(c) == account[call[c].user]

Goto(c, label) == pc' = [pc EXCEPT ![c] = label]

(* A handler takes up a request it could decode, and answers it at the end. *)
Begin(c, label, request) ==
  /\ At(c, "idle")
  /\ Goto(c, label)
  /\ call' = [call EXCEPT ![c] = request]

Done(c) ==
  /\ Goto(c, "idle")
  /\ call' = [call EXCEPT ![c] = NoCall]

(* Bounds: a call begins only while the rows it will write are there. *)
RoomForSession == \E t \in Refreshes : refresh[t].state = "unused"
RoomForLink == \E k \in Resets : reset[k].state = "unused"
RoomForPassword(u) == account[u].epoch < MaxEpoch

(* A role change holds the account's row from its statement to its commit; an *)
(* update of the row waits for it, and so does a new row that refers to it. *)
Locked(u) == \E d \in Calls : At(d, "promote") /\ call[d].user = u

(* The token the call consumed has done what it stands for. *)
Honour(c) == used' = [t \in Tokens |-> used[t] + IF t = call[c].token THEN 1 ELSE 0]

-----------------------------------------------------------------------------
(* Sign-in.  The password is checked, and the status, on the row as read. *)

Login(c) ==
  /\ RoomForSession
  /\ \E u \in Accounts :
       /\ account[u].status = "active"
       /\ Begin(c, "sign", [NoCall EXCEPT !.user = u, !.role = account[u].role,
                                          !.pending = account[u].mustChange,
                                          !.epoch = account[u].epoch])
  /\ UNCHANGED <<rows, access, clock, past>>

IssueAccessToken(c) ==
  /\ At(c, "sign")
  /\ call' = [call EXCEPT ![c].at = clock]
  /\ Goto(c, "save")
  /\ UNCHANGED <<rows, access, clock, past>>

(* Both tokens are handed out once the refresh token is stored.  The row is *)
(* dated when its statement starts, and the statement may then wait. *)
SaveRefreshToken(c) ==
  LET me == call[c]
  IN  /\ At(c, "save")
      /\ ~ Locked(me.user)
      /\ \E t \in Refreshes, started \in me.at .. clock :
           /\ refresh[t].state = "unused"
           /\ refresh' = [refresh EXCEPT ![t] =
                            [state |-> "live", owner |-> me.user, created |-> started,
                             epoch |-> me.epoch, late |-> me.late]]
      /\ access' = access \cup {[user |-> me.user, role |-> me.role,
                                 pending |-> me.pending, signed |-> me.at]}
      /\ Honour(c)
      /\ Done(c)
      /\ UNCHANGED <<account, reset, clock, answered, voided>>

(* The consuming statement compares the row's age with the account's stamp. *)
Usable(t) ==
  /\ refresh[t].state = "live"
  /\ refresh[t].created >= account[refresh[t].owner].stamp

(* Mutant: the row is found and not marked. *)
Found(row) == row
Spent(row) == [row EXCEPT !.state = "dead"]

ConsumeRefreshToken(c) ==
  /\ RoomForSession
  /\ \E t \in Refreshes :
       /\ Usable(t)
       /\ refresh' = [refresh EXCEPT ![t] = Spent(@)]
       /\ Begin(c, "reload", [NoCall EXCEPT !.user = refresh[t].owner, !.token = t,
                                            !.epoch = refresh[t].epoch,
                                            !.late = refresh[t].late])
  /\ UNCHANGED <<account, reset, access, clock, past>>

(* What a refresh takes from the row it reads; mutants: not the flag, and *)
(* the columns in another order. *)
Misread(me, row) == [me EXCEPT !.role = row.status, !.pending = row.mustChange]
WithRole(me, row) == [me EXCEPT !.role = row.role]
WithRow(me, row) == [me EXCEPT !.role = row.role, !.pending = row.mustChange]

(* FindByID: an account that is not active has lost the token it presented. *)
Refresh(c) ==
  /\ At(c, "reload")
  /\ IF User(c).status = "active"
       THEN Goto(c, "sign") /\ call' = [call EXCEPT ![c] = WithRow(@, User(c))]
       ELSE Done(c)
  /\ UNCHANGED <<rows, access, clock, past>>

Logout(t) ==
  /\ refresh[t].state = "live"
  /\ refresh' = [refresh EXCEPT ![t] = Spent(@)]
  /\ UNCHANGED <<account, reset, access, clock, pc, call, past>>

-----------------------------------------------------------------------------
(* Password changes. *)

(* A JWT is dated in whole seconds, rounded down. *)
Second(instant) == instant - (instant % SecondLength)

(* SessionValid, after the signature and the expiry of the token. *)
Admitted(j) ==
  /\ account[j.user].role = j.role
  /\ account[j.user].stamp <= Second(j.signed)

(* With a token that is admitted and the current password, which the call *)
(* reads before it hashes the new one. *)
ChangePassword(c) ==
  /\ \E j \in access :
       /\ Admitted(j)
       /\ RoomForPassword(j.user)
       /\ Begin(c, "change", [NoCall EXCEPT !.user = j.user])
  /\ UNCHANGED <<rows, access, clock, past>>

(* RequestPasswordReset, for the address of an account. *)
ForgotPassword(c) ==
  /\ RoomForLink
  /\ \E u \in Accounts : Begin(c, "link", [NoCall EXCEPT !.user = u])
  /\ UNCHANGED <<rows, access, clock, past>>

(* ResendInvitation: the account's earlier links end, and a new one follows. *)
InvalidatePasswordResets(c) ==
  /\ RoomForLink
  /\ \E u \in Accounts :
       /\ reset' = [k \in Resets |->
                      IF reset[k].state = "live" /\ reset[k].owner = u
                      THEN Spent(reset[k]) ELSE reset[k]]
       /\ Begin(c, "link", [NoCall EXCEPT !.user = u])
  /\ UNCHANGED <<account, refresh, access, clock, past>>

SavePasswordReset(c) ==
  /\ At(c, "link")
  /\ ~ Locked(call[c].user)
  /\ \E k \in Resets :
       /\ reset[k].state = "unused"
       /\ reset' = [reset EXCEPT ![k] = [state |-> "live", owner |-> call[c].user]]
  /\ Done(c)
  /\ UNCHANGED <<account, refresh, access, clock, past>>

ConsumePasswordReset(c) ==
  /\ \E k \in Resets :
       /\ reset[k].state = "live"
       /\ reset' = [reset EXCEPT ![k] = Spent(@)]
       /\ Begin(c, "holder", [NoCall EXCEPT !.user = reset[k].owner, !.token = k])
  /\ UNCHANGED <<account, refresh, access, clock, past>>

(* A reset must not resurrect a suspended account. *)
ResetPassword(c) ==
  /\ At(c, "holder")
  /\ IF User(c).status = "active"
       THEN Goto(c, "change") /\ UNCHANGED call
       ELSE Done(c)
  /\ UNCHANGED <<rows, access, clock, past>>

(* History: a change that is written voids what was signed before it began.  *)
(* Of changes that overlap any stamp may be written last, so what they void *)
(* together is what was signed before all of them. *)
Changing(u) == {d \in Calls : pc[d] \in {"update", "promote"} /\ call[d].user = u}
Voids(u) ==
  voided' = [voided EXCEPT ![u] =
               @ \cup {i \in 0 .. MaxClock : \A d \in Changing(u) : i < call[d].at}]

(* UpdatePassword takes its now() when it starts, and may then wait. *)
StartUpdatePassword(c) ==
  /\ At(c, "change")
  /\ call' = [call EXCEPT ![c].at = clock]
  /\ Goto(c, "update")
  /\ UNCHANGED <<rows, access, clock, past>>

(* What the statement writes; mutant: the new hash without the stamp. *)
Unstamped(row, instant) == [row EXCEPT !.epoch = @ + 1, !.mustChange = FALSE]
Changed(row, instant) == [row EXCEPT !.epoch = @ + 1, !.mustChange = FALSE, !.stamp = instant]

UpdatePassword(c) ==
  LET u == call[c].user
  IN  /\ At(c, "update")
      /\ ~ Locked(u)
      /\ RoomForPassword(u)
      /\ account' = [account EXCEPT ![u] = Changed(@, call[c].at)]
      /\ Voids(u)
      /\ Honour(c)
      /\ Goto(c, "revoke")
      /\ call' = [call EXCEPT ![c].token = None]
      /\ UNCHANGED <<refresh, reset, access, clock, answered>>

(* Mutant: the account's tokens are left to the stamp. *)
LeftToStamp(u) == refresh
Revoked(u) == [t \in Refreshes |->
                 IF refresh[t].state = "live" /\ refresh[t].owner = u
                 THEN Spent(refresh[t]) ELSE refresh[t]]

Issuing(d) == pc[d] \in {"reload", "sign", "save"}

(* The answer.  A call that was already issuing a session on an earlier *)
(* password is late: history follows it and the tokens that descend from it. *)
RevokeAllRefreshTokens(c) ==
  LET u == call[c].user
  IN  /\ At(c, "revoke")
      /\ refresh' = Revoked(u)
      /\ answered' = [answered EXCEPT ![u] = account[u].epoch]
      /\ Goto(c, "idle")
      /\ call' = [d \in Calls |->
                    IF d = c THEN NoCall
                    ELSE [call[d] EXCEPT !.late = @ \/ /\ Issuing(d) /\ call[d].user = u
                                                       /\ call[d].epoch < account[u].epoch]]
      /\ UNCHANGED <<account, reset, access, clock, used, voided>>

-----------------------------------------------------------------------------
(* Staff, time and failures. *)

(* Another role, or the same one with another category. *)
UpdateRole(c) ==
  /\ \E u \in Accounts, r \in Roles :
       /\ ~ Locked(u)
       /\ Begin(c, "promote", [NoCall EXCEPT !.user = u, !.role = r, !.at = clock])
  /\ UNCHANGED <<rows, access, clock, past>>

CommitRole(c) ==
  /\ At(c, "promote")
  /\ account' = [account EXCEPT ![call[c].user].role = call[c].role,
                                ![call[c].user].stamp = call[c].at]
  /\ Voids(call[c].user)
  /\ Done(c)
  /\ UNCHANGED <<refresh, reset, access, clock, answered, used>>

(* UpdateStatus waits for the row too, and leaves the sessions alone. *)
SetStatus(u) ==
  /\ ~ Locked(u)
  /\ account' = [account EXCEPT ![u].status = IF @ = "active" THEN "suspended" ELSE "active"]
  /\ UNCHANGED <<refresh, reset, access, clock, pc, call, past>>

(* A refresh token that expires is gone as if its holder had signed out. *)
ExpireReset(k) ==
  /\ reset[k].state = "live"
  /\ reset' = [reset EXCEPT ![k] = Spent(@)]
  /\ UNCHANGED <<account, refresh, access, clock, pc, call, past>>

Tick ==
  /\ clock < MaxClock
  /\ clock' = clock + 1
  /\ UNCHANGED <<rows, access, pc, call, past>>

(* A statement fails, the caller hangs up or the process stops. *)
Abandon(c) ==
  /\ ~ At(c, "idle")
  /\ Done(c)
  /\ UNCHANGED <<rows, access, clock, past>>

-----------------------------------------------------------------------------
(* Accounts start with the password the desk issued. *)
Init ==
  /\ account \in [Accounts -> [epoch : {0}, mustChange : {TRUE}, role : Roles,
                               status : {"active"}, stamp : {0}]]
  /\ refresh = [t \in Refreshes |-> NoRefresh]
  /\ reset = [k \in Resets |-> NoReset]
  /\ access = {}
  /\ clock = 0
  /\ pc = [c \in Calls |-> "idle"]
  /\ call = [c \in Calls |-> NoCall]
  /\ answered = [u \in Accounts |-> 0]
  /\ used = [t \in Tokens |-> 0]
  /\ voided = [u \in Accounts |-> {}]

Serve(c) ==
  \/ Login(c)               \/ IssueAccessToken(c)          \/ SaveRefreshToken(c)
  \/ ConsumeRefreshToken(c) \/ Refresh(c)                   \/ ChangePassword(c)
  \/ ForgotPassword(c)      \/ InvalidatePasswordResets(c)  \/ SavePasswordReset(c)
  \/ ConsumePasswordReset(c) \/ ResetPassword(c)            \/ StartUpdatePassword(c)
  \/ UpdatePassword(c)      \/ RevokeAllRefreshTokens(c)    \/ UpdateRole(c)
  \/ CommitRole(c)          \/ Abandon(c)

Next ==
  \/ \E c \in Calls : Serve(c)
  \/ \E t \in Refreshes : Logout(t)
  \/ \E u \in Accounts : SetStatus(u)
  \/ \E k \in Resets : ExpireReset(k)
  \/ Tick

Spec == Init /\ [][Next]_vars

-----------------------------------------------------------------------------
(* What sessions promise. *)

AccountRow == [epoch : 0 .. MaxEpoch, mustChange : BOOLEAN, role : Roles,
               status : {"active", "suspended"}, stamp : 0 .. MaxClock]
RefreshRow == [state : {"unused", "live", "dead"}, owner : Accounts \cup {None},
               created : 0 .. MaxClock, epoch : 0 .. MaxEpoch, late : BOOLEAN]
ResetRow == [state : {"unused", "live", "dead"}, owner : Accounts \cup {None}]
AccessToken == [user : Accounts, role : Roles, pending : BOOLEAN, signed : 0 .. MaxClock]
Request == [user : Accounts \cup {None}, token : Tokens \cup {None}, role : Roles \cup {None},
            pending : BOOLEAN, at : 0 .. MaxClock, epoch : 0 .. MaxEpoch, late : BOOLEAN]
Labels == {"idle", "sign", "save", "reload", "change", "link", "holder", "update",
           "revoke", "promote"}

(* Every column, token and call keeps its type. *)
TypeOK ==
  /\ account \in [Accounts -> AccountRow]
  /\ refresh \in [Refreshes -> RefreshRow]
  /\ reset \in [Resets -> ResetRow]
  /\ access \subseteq AccessToken
  /\ clock \in 0 .. MaxClock
  /\ pc \in [Calls -> Labels]
  /\ call \in [Calls -> Request]
  /\ answered \in [Accounts -> 0 .. MaxEpoch]
  /\ used \in [Tokens -> Nat]
  /\ voided \in [Accounts -> SUBSET (0 .. MaxClock)]

(* Where a token is in its life. *)
Row(t) == IF t \in Refreshes THEN refresh[t].state ELSE reset[t].state
Held(t) == \E c \in Calls : call[c].token = t
Stage == [t \in Tokens |->
            IF Row(t) = "unused" THEN "blank"
            ELSE IF Row(t) = "live" THEN "live"
            ELSE IF used[t] > 0 THEN "honoured"
            ELSE IF Held(t) THEN "held" ELSE "void"]

SingleUse == INSTANCE OneShot WITH stage <- Stage

(* "A stolen token is good for one call at most", "single-use under *)
(* concurrency": whatever calls refresh, reset, sign out and change passwords *)
(* at once, a refresh token is exchanged, and a link sets a password, once. *)
TokensAreSingleUse == SingleUse!OneShotSpec

(* How far "a credential that may have been compromised cannot keep a session *)
(* alive behind the change" goes: once a change has been answered, a refresh *)
(* token that rests on an earlier password is of no use, whatever overlapped *)
(* the change, unless a call that was already issuing when the change was *)
(* answered stands at the head of its line (NoRefreshSlipsThrough). *)
OnlyLateSessionsSurvive ==
  \A t \in Refreshes :
    Usable(t) /\ ~ refresh[t].late => refresh[t].epoch >= answered[refresh[t].owner]

(* "The access token carries the flag": an account that still has the *)
(* password issued at the desk has no access token that says otherwise. *)
ConfinedUntilChanged ==
  \A j \in access : account[j.user].mustChange => j.pending

(* "Every session issued before that instant is void by comparison": an access *)
(* token signed before a change of the account began, and before those it *)
(* overlaps, is never admitted again once the change is written, although *)
(* statements wait for the row and write their stamps out of order, and only *)
(* whole seconds are compared. *)
OlderAccessIsRefused ==
  \A j \in access : j.signed \in voided[j.user] => ~ Admitted(j)

-----------------------------------------------------------------------------
(* What the repository says of sessions and the code does not keep. *)

(* "With no window for a concurrent refresh to slip through", "there is no gap *)
(* to race": no exchange of a refresh token leaves a usable one behind a change *)
(* of password that has been answered. *)
NoRefreshSlipsThrough ==
  [][\A t, s \in Refreshes :
       used'[t] > used[t] /\ ~ Usable(s) /\ Usable(s)'
         => refresh'[s].epoch >= answered[refresh'[s].owner]]_vars
=============================================================================
