------------------------------- MODULE Sessions -------------------------------
(***************************************************************************)
(* The refresh-token store of q-iam (table q_iam_refresh_tokens) and every *)
(* operation that changes it: login and registration, rotation with replay *)
(* detection, logout, password change and reset, disabling and deleting an *)
(* account, the lazy purge and the history cleanup.  Source: logic/auth.go,*)
(* logic/account.go, logic/cleanup.go.                                     *)
(*                                                                         *)
(* An HTTP request runs in its own goroutine.  Each database statement or  *)
(* transaction and each call to the shared cache is one atomic step; what  *)
(* a handler read before a step is kept in request[q], so that every other *)
(* handler can run in between.  A request may be abandoned between any two *)
(* steps: its context is cancelled with the client's connection, and the   *)
(* process may stop.                                                       *)
(*                                                                         *)
(* Assumed of the database: a transaction is atomic, and an account-wide   *)
(* revocation sees every committed row of the account (SQLite, the default *)
(* driver; MySQL's locking reads).                                         *)
(***************************************************************************)
EXTENDS Naturals

CONSTANTS
  Accounts,     \* ordinary accounts (the built-in administrator is never deleted)
  NoAccount,
  Tokens,       \* the jti values that can be drawn
  NoToken,
  Requests,     \* the goroutines serving login, register and refresh requests
  RefreshTTL,   \* jwt.refresh_token_expire, in ticks
  ReuseWindow,  \* reuseGraceWindow, in ticks
  MaxTime,      \* bound on the clock
  MaxPassword   \* bound on the number of password changes

ASSUME SessionsAssumption ==
  /\ NoAccount \notin Accounts
  /\ NoToken \notin Tokens
  /\ RefreshTTL \in Nat
  /\ ReuseWindow \in Nat \ {0}
  /\ MaxTime \in Nat
  /\ MaxPassword \in Nat

VARIABLES
  account,     \* account[a]: "absent", "enabled", "disabled" or "deleted"
  password,    \* password[a]: how often the password of a has been replaced
  row,         \* row[t]: "unissued", "live", a revoke_reason, or "purged"
  expires,     \* expires[t]: expires_at of the row
  owner,       \* owner[t]: account_id, in the row and in the signed claims
  reuse,       \* reuse[a]: the replay counter in the shared cache
  request,     \* request[q]: progress and local variables of a handler
  now,
  \* History, read by no step of the code:
  family,      \* family[t]: the token issued at the login t descends from
  started      \* started[t]: password[a] when the first row of the family was inserted

accountVars == <<account, password>>
tokenVars   == <<row, expires, owner, family, started>>
vars == <<accountVars, tokenVars, reuse, request, now>>

-----------------------------------------------------------------------------
\* revoked_at IS NOT NULL exactly when revoke_reason is one of these.
RevokeReasons == {"rotated", "logout", "reuse", "revoke"}
RowStates == {"unissued", "live", "purged"} \cup RevokeReasons
AccountStates == {"absent", "enabled", "disabled", "deleted"}

reuseGraceThreshold == 2

\* A missing key of the cache, and a key without TTL, are both until = 0.
NoCounter == [n |-> 0, until |-> 0]
Counter == [n : 0..reuseGraceThreshold, until : Nat]

\* Where a handler stands: "issue" ends Login and Register; "account" to
\* "purge" are Refresh; "count" to "fallback" are what Refresh does after its
\* transaction has committed with reuseDetected set.  "revoke" and "fallback"
\* differ in why: the count said so, or a call to the cache failed.
Steps == {"idle", "issue", "account", "find", "consume", "purge",
          "count", "window", "decide", "revoke", "fallback"}
Request == [pc : Steps, acct : Accounts \cup {NoAccount},
            tok : Tokens \cup {NoToken}, at : Nat]
Idle == [pc |-> "idle", acct |-> NoAccount, tok |-> NoToken, at |-> 0]

Issued(t) == row[t] # "unissued"
Stored(t) == row[t] \notin {"unissued", "purged"}
Live(t)   == row[t] = "live"

At(q, pc) == request[q].pc = pc
Goto(q, pc) == request' = [request EXCEPT ![q].pc = pc]
Finish(q) == request' = [request EXCEPT ![q] = Idle]
Hold(q, pc, a, t, time) ==
  request' = [request EXCEPT ![q] = [pc |-> pc, acct |-> a, tok |-> t, at |-> time]]

Init ==
  /\ account \in [Accounts -> {"absent", "enabled"}]
  /\ password = [a \in Accounts |-> 0]
  /\ row = [t \in Tokens |-> "unissued"]
  /\ expires = [t \in Tokens |-> 0]
  /\ owner = [t \in Tokens |-> NoAccount]
  /\ reuse = [a \in Accounts |-> NoCounter]
  /\ request = [q \in Requests |-> Idle]
  /\ now = 0
  /\ family = [t \in Tokens |-> NoToken]
  /\ started = [t \in Tokens |-> 0]

-----------------------------------------------------------------------------
\* issueTokenPair: a fresh jti and a new row.  rows is the table the insert
\* runs on: the current one, or the one the transaction has already changed.
issueTokenPair(rows, n, a, root, begun) ==
  /\ row' = [rows EXCEPT ![n] = "live"]
  /\ expires' = [expires EXCEPT ![n] = now + RefreshTTL]
  /\ owner' = [owner EXCEPT ![n] = a]
  /\ family' = [family EXCEPT ![n] = root]
  /\ started' = [started EXCEPT ![n] = begun]

\* Variant: revoked_at is set and the reason forgotten.
Variant_RevokeWithoutReason(a, reason) ==
  [t \in Tokens |-> IF Live(t) /\ owner[t] = a THEN "" ELSE row[t]]

\* Variant: no row is touched.
Variant_RevokeNothing(a, reason) == [t \in Tokens |-> row[t]]

\* The table after all valid rows of an account have been revoked.
revokeAccountTokens(a, reason) ==
  [t \in Tokens |-> IF Live(t) /\ owner[t] = a THEN reason ELSE row[t]]

\* Variant: expires_at <= cutoff.
Variant_ExpiredAtCutoff(cutoff) == {t \in Tokens : Stored(t) /\ expires[t] <= cutoff}

\* The rows of DELETE ... WHERE expires_at < cutoff.
ExpiredBefore(cutoff) == {t \in Tokens : Stored(t) /\ expires[t] < cutoff}

DeleteRows(S) == row' = [t \in Tokens |-> IF t \in S THEN "purged" ELSE row[t]]

-----------------------------------------------------------------------------
(* Login and registration.  The failure counter and the lock are in        *)
(* LoginLockout; here the account has passed them.                         *)

\* The account is read, found enabled, and its password hash compared.
LoginVerify(q, a) ==
  /\ At(q, "idle")
  /\ account[a] = "enabled"
  /\ Hold(q, "issue", a, NoToken, 0)
  /\ UNCHANGED <<accountVars, tokenVars, reuse, now>>

\* The account row is created; the token pair is issued afterwards, outside
\* any transaction.
Register(q, a) ==
  /\ At(q, "idle")
  /\ account[a] = "absent"
  /\ account' = [account EXCEPT ![a] = "enabled"]
  /\ Hold(q, "issue", a, NoToken, 0)
  /\ UNCHANGED <<password, tokenVars, reuse, now>>

\* The row of a new session is inserted.  Nothing is read again first.
LoginIssue(q, n) ==
  /\ At(q, "issue")
  /\ ~Issued(n)
  /\ LET a == request[q].acct
     IN  issueTokenPair(row, n, a, n, password[a])
  /\ Finish(q)
  /\ UNCHANGED <<accountVars, reuse, now>>

-----------------------------------------------------------------------------
(* Refresh *)

\* The signature and exp of the presented token are checked.
RefreshParse(q, t) ==
  /\ At(q, "idle")
  /\ Issued(t) /\ now <= expires[t]
  /\ Hold(q, "account", owner[t], t, 0)
  /\ UNCHANGED <<accountVars, tokenVars, reuse, now>>

\* Variant: the account of the claims is not looked at.
Variant_RefreshAccount(q) ==
  /\ At(q, "account")
  /\ Hold(q, "find", request[q].acct, request[q].tok, now)
  /\ UNCHANGED <<accountVars, tokenVars, reuse, now>>

\* The account must exist and be enabled; `now` of the handler is read.
RefreshAccount(q) ==
  /\ At(q, "account")
  /\ \/ /\ account[request[q].acct] = "enabled"
        /\ Hold(q, "find", request[q].acct, request[q].tok, now)
     \/ /\ account[request[q].acct] # "enabled"
        /\ Finish(q)
  /\ UNCHANGED <<accountVars, tokenVars, reuse, now>>

\* The transaction ends with reuseDetected: the handler goes on to count it.
DetectReuse(q) == Hold(q, "count", request[q].acct, NoToken, 0)

\* A refused token: the row is gone, expired by the handler's clock, or was
\* logged out.
Refused(q) ==
  LET t == request[q].tok
  IN  \/ ~Stored(t)
      \/ request[q].at > expires[t]
      \/ row[t] = "logout"

\* First statement of the transaction: find the row by jti and classify it.
RefreshFind(q) ==
  /\ At(q, "find")
  /\ \/ /\ Refused(q)
        /\ Hold(q, "purge", request[q].acct, NoToken, request[q].at)
     \/ /\ ~Refused(q) /\ ~Live(request[q].tok)
        /\ DetectReuse(q)
     \/ /\ ~Refused(q) /\ Live(request[q].tok)
        /\ Hold(q, "consume", request[q].acct, request[q].tok, 0)
  /\ UNCHANGED <<accountVars, tokenVars, reuse, now>>

\* Variant: UPDATE ... WHERE token_id = ? without AND revoked_at IS NULL.
Variant_Consumable(t) == Stored(t)

\* The row the conditional update matches.
Consumable(t) == Live(t)

\* Variant: the new pair is issued although the old row stays valid.
Variant_Consumed(t) == row

\* The table after the old row has been marked as rotated.
Consumed(t) == [row EXCEPT ![t] = "rotated"]

\* Rest of the transaction: consume the old row and insert its successor,
\* which inherits the business claims; or RowsAffected = 0.
RefreshConsume(q, n) ==
  LET t == request[q].tok
  IN  /\ At(q, "consume")
      /\ \/ /\ Consumable(t)
            /\ ~Issued(n)
            /\ issueTokenPair(Consumed(t), n, request[q].acct,
                              family[t], started[t])
            /\ Finish(q)
         \/ /\ ~Consumable(t)
            /\ DetectReuse(q)
            /\ UNCHANGED tokenVars
      /\ UNCHANGED <<accountVars, reuse, now>>

\* After a failed transaction the expired rows of the account are deleted,
\* with the cutoff read before the transaction.
RefreshPurge(q) ==
  /\ At(q, "purge")
  /\ DeleteRows({t \in ExpiredBefore(request[q].at) : owner[t] = request[q].acct})
  /\ Finish(q)
  /\ UNCHANGED <<accountVars, reuse, now,
                 expires, owner, family, started>>

-----------------------------------------------------------------------------
(* After the transaction: shouldRevokeAllOnReuse, three calls to the       *)
(* shared cache, and the account-wide revocation it may decide.            *)

\* The call fails: the handler falls back to revoking at once.
CacheFails(q) == Goto(q, "fallback") /\ UNCHANGED reuse

\* Increment.  Only n >= reuseGraceThreshold is tested, so n saturates there.
ReuseCount(q) ==
  LET a == request[q].acct
  IN  /\ At(q, "count")
      /\ \/ /\ reuse' = [reuse EXCEPT ![a].n =
                 IF @ < reuseGraceThreshold THEN @ + 1 ELSE @]
            /\ Goto(q, "window")
         \/ CacheFails(q)
      /\ UNCHANGED <<accountVars, tokenVars, now>>

\* Expire: every detection restarts the window; a key that is gone stays gone.
ReuseExpire(q) ==
  LET a == request[q].acct
  IN  /\ At(q, "window")
      /\ \/ /\ reuse' = [reuse EXCEPT ![a].until =
                 IF reuse[a].n = 0 THEN 0 ELSE now + ReuseWindow]
            /\ Goto(q, "decide")
         \/ CacheFails(q)
      /\ UNCHANGED <<accountVars, tokenVars, now>>

\* Variant: the first detection already counts as the threshold.
Variant_RevokeAllAt(n) == n >= 1 \/ n = 0

\* The count read back: at the threshold, or the key has expired meanwhile.
RevokeAllAt(n) == n >= reuseGraceThreshold \/ n = 0

ReuseDecide(q) ==
  LET n == reuse[request[q].acct].n
  IN  /\ At(q, "decide")
      /\ \/ RevokeAllAt(n) /\ Goto(q, "revoke") /\ UNCHANGED reuse
         \/ ~RevokeAllAt(n) /\ Finish(q) /\ UNCHANGED reuse
         \/ CacheFails(q)
      /\ UNCHANGED <<accountVars, tokenVars, now>>

ReuseRevoke(q) ==
  /\ At(q, "revoke") \/ At(q, "fallback")
  /\ row' = revokeAccountTokens(request[q].acct, "reuse")
  /\ Finish(q)
  /\ UNCHANGED <<accountVars, reuse, now,
                 expires, owner, family, started>>

\* The request context is cancelled, or the process stops: the remaining
\* statements of the handler are not executed.
Abandon(q) ==
  /\ ~At(q, "idle")
  /\ Finish(q)
  /\ UNCHANGED <<accountVars, tokenVars, reuse, now>>

-----------------------------------------------------------------------------
(* Operations that are one statement or one transaction *)

\* Logout is not conditional on revoked_at: a revoked row gets the new reason.
Logout(t) ==
  /\ Stored(t) /\ now <= expires[t]
  /\ row' = [row EXCEPT ![t] = "logout"]
  /\ UNCHANGED <<accountVars, reuse, request, now,
                 expires, owner, family, started>>

\* New hash and account-wide revocation in one transaction.
SetPassword(a) ==
  /\ password[a] < MaxPassword
  /\ password' = [password EXCEPT ![a] = @ + 1]
  /\ row' = revokeAccountTokens(a, "revoke")
  /\ UNCHANGED <<account, reuse, request, now,
                 expires, owner, family, started>>

\* LoadAccount lets only an enabled account reach its own password form.
ChangeOwnPassword(a) == account[a] = "enabled" /\ SetPassword(a)

\* An administrator resets the password of any existing account.
ResetPassword(a) == account[a] \in {"enabled", "disabled"} /\ SetPassword(a)

\* Account update with status = false.
Disable(a) ==
  /\ account[a] \in {"enabled", "disabled"}
  /\ account' = [account EXCEPT ![a] = "disabled"]
  /\ row' = revokeAccountTokens(a, "revoke")
  /\ UNCHANGED <<password, reuse, request, now,
                 expires, owner, family, started>>

\* Account update with status = true.
Enable(a) ==
  /\ account[a] = "disabled"
  /\ account' = [account EXCEPT ![a] = "enabled"]
  /\ UNCHANGED <<password, tokenVars, reuse, request, now>>

\* The account was deleted between the handler's read and the transaction of a
\* password change or of Disable: only the revocation still finds rows.
LateRevoke(a) ==
  /\ account[a] = "deleted"
  /\ row' = revokeAccountTokens(a, "revoke")
  /\ UNCHANGED <<accountVars, reuse, request, now,
                 expires, owner, family, started>>

\* The account row and all its token rows are deleted in one transaction; the
\* handler may have read the account before another one deleted it.
Delete(a) ==
  /\ account[a] # "absent"
  /\ account' = [account EXCEPT ![a] = "deleted"]
  /\ DeleteRows({t \in Tokens : Stored(t) /\ owner[t] = a})
  /\ UNCHANGED <<password, reuse, request, now,
                 expires, owner, family, started>>

\* One batch of the history cleanup.
CleanupBatch ==
  \E S \in SUBSET ExpiredBefore(now) :
    /\ S # {}
    /\ DeleteRows(S)
    /\ UNCHANGED <<accountVars, reuse, request, now,
                   expires, owner, family, started>>

\* Time passes, and cache keys whose TTL is over disappear.
Tick ==
  /\ now < MaxTime
  /\ now' = now + 1
  /\ reuse' = [a \in Accounts |->
       IF reuse[a].until # 0 /\ reuse[a].until <= now + 1
       THEN NoCounter ELSE reuse[a]]
  /\ UNCHANGED <<accountVars, tokenVars, request>>

-----------------------------------------------------------------------------
RequestStep(q) ==
  \/ \E a \in Accounts : LoginVerify(q, a) \/ Register(q, a)
  \/ \E n \in Tokens : LoginIssue(q, n)
  \/ \E t \in Tokens : RefreshParse(q, t)
  \/ RefreshAccount(q)
  \/ RefreshFind(q)
  \/ \E n \in Tokens : RefreshConsume(q, n)
  \/ RefreshPurge(q)
  \/ ReuseCount(q)
  \/ ReuseExpire(q)
  \/ ReuseDecide(q)
  \/ ReuseRevoke(q)
  \/ Abandon(q)

AccountStep(a) ==
  \/ ChangeOwnPassword(a)
  \/ ResetPassword(a)
  \/ Disable(a)
  \/ Enable(a)
  \/ LateRevoke(a)
  \/ Delete(a)

Next ==
  \/ \E q \in Requests : RequestStep(q)
  \/ \E a \in Accounts : AccountStep(a)
  \/ \E t \in Tokens : Logout(t)
  \/ CleanupBatch
  \/ Tick

Spec == Init /\ [][Next]_vars

-----------------------------------------------------------------------------
(* Properties *)

TypeOK ==
  /\ account \in [Accounts -> AccountStates]
  /\ password \in [Accounts -> Nat]
  /\ row \in [Tokens -> RowStates]
  /\ expires \in [Tokens -> Nat]
  /\ owner \in [Tokens -> Accounts \cup {NoAccount}]
  /\ reuse \in [Accounts -> Counter]
  /\ request \in [Requests -> Request]
  /\ now \in Nat
  /\ family \in [Tokens -> Tokens \cup {NoToken}]
  /\ started \in [Tokens -> Nat]

\* However many requests present the tokens of one login, in whatever order,
\* at most one of them can be exchanged: rotation consumes the old row and
\* inserts the new one (auth.go Refresh steps 4 and 5).
SingleLivePerSession ==
  \A t, u \in Tokens :
    Live(t) /\ Live(u) /\ family[t] = family[u] => t = u

\* A session that is alive was started after the last password change of its
\* account: no rotation in flight carries a session across the change
\* (auth.go ChangeOwnPassword and account.go ResetPassword revoke in the
\* transaction that stores the new hash).
StartedUnderCurrentPassword ==
  \A t \in Tokens : Live(t) => started[t] = password[owner[t]]

\* While an account is not enabled, none of its sessions is continued by a
\* refresh: what can be alive is only the first token of a login that was
\* already verified when the account was disabled or deleted.
DisabledSessionsNotContinued ==
  \A t \in Tokens :
    Live(t) /\ account[owner[t]] # "enabled" => family[t] = t

\* The rows replay detection needs are there when it needs them: as long as a
\* token is not expired, its row exists unless its account was deleted,
\* whatever purges and cleanups ran (cleanup.go:45-46).
ReplayEvidenceKept ==
  \A t \in Tokens :
    row[t] = "purged" => expires[t] < now \/ account[owner[t]] = "deleted"

\* Seen from outside, the token table implements SessionSpec: a login starts
\* a session, rotation does not disturb it, and an ended session stays ended.
SessionOf(s) ==
  IF family[s] # s THEN "none"
  ELSE IF \E t \in Tokens : family[t] = s /\ Live(t) THEN "active"
  ELSE "ended"

Abstract == INSTANCE SessionSpec WITH
  Sessions <- Tokens,
  session  <- [s \in Tokens |-> SessionOf(s)]

ImplementsSessionSpec == Abstract!Spec

=============================================================================
