----------------------------- MODULE AccountAccess -----------------------------
(***************************************************************************)
(* What decides whether a request is let in as an account: the account row *)
(* and its changes, the account cache of the middleware, and access tokens *)
(* with the blacklist of logged-out ones.  Source: logic/account.go,       *)
(* logic/auth.go, middleware/auth.go, middleware/load_account.go,          *)
(* handler/auth.go.                                                        *)
(*                                                                         *)
(* A change of an account reads the row, commits one transaction and       *)
(* deletes the cache key; a visit checks its token, reads the cache or the *)
(* row, fills the cache, and is let in or not.  Queries, transactions and  *)
(* calls to the cache are steps, and requests interleave.  Refresh tokens, *)
(* which the same transactions revoke, are in Sessions; a change of the    *)
(* password also deletes the key, but no entry holds the password.         *)
(***************************************************************************)
EXTENDS Naturals

CONSTANTS
  Accounts,      \* ids, never used again after a deletion
  Tokens,        \* access tokens, by jti
  Changes,       \* goroutines that change an account
  Visits,        \* goroutines that serve a request with an access token
  NoAccount,
  AccessTTL,     \* jwt.access_token_expire, in ticks
  MaxTime,       \* bound on the clock
  MaxOps,        \* bound on the number of changes
  MaxFaults      \* bound on failed cache calls and changes cut off

ASSUME AccountAccessAssumption ==
  /\ NoAccount \notin Accounts
  /\ AccessTTL \in Nat
  /\ MaxTime \in Nat
  /\ MaxOps \in Nat
  /\ MaxFaults \in Nat

VARIABLES
  standing,   \* standing[a]: status and allow_console of the row, or that it is gone
  cache,      \* cache[a]: the entry acct:<a>
  owner,      \* owner[t]: the account in the claims of t
  expires,    \* expires[t]: its exp; 0 when it has not been issued
  blacklist,  \* blacklist[t]: when the key oauth:access:revoked:<t> ends; 0: no key
  change,     \* change[c]: progress and local variables of a change
  visit,      \* visit[v]: progress and local variables of a visit
  now,
  ops,        \* changes so far
  faults,     \* failed calls and changes cut off so far
  loggedOut   \* history, read by no step: the tokens that were blacklisted

tokenVars == <<owner, expires, blacklist, loggedOut>>
vars == <<standing, cache, tokenVars, change, visit, now, ops, faults>>

-----------------------------------------------------------------------------
\* "user": enabled, without the console.  What a disabled account may do besides
\* does not matter.
Rows == {"console", "user", "disabled"}
Enabled(s) == s \in {"console", "user"}
Present(a) == standing[a] \in Rows

\* calm, a history field: no change of the account was committed between the
\* read of the row and the write of the entry.
Entry == [standing : Rows, calm : BOOLEAN, expires : BOOLEAN]
NoEntry == [standing |-> "none", calm |-> FALSE, expires |-> FALSE]

\* to: what the row is to become.
ChangeRecord == [pc : {"idle", "commit", "invalidate"},
                 account : Accounts \cup {NoAccount}, to : Rows \cup {"deleted", "none"}]
NoChange == [pc |-> "idle", account |-> NoAccount, to |-> "none"]

\* late, a history field: the token had been blacklisted before Auth asked, and
\* the blacklist answered.
VisitRecord == [pc : {"idle", "load", "row", "store", "inside"},
                account : Accounts \cup {NoAccount}, seen : Rows \cup {"none"},
                calm : BOOLEAN, late : BOOLEAN]
NoVisit == [pc |-> "idle", account |-> NoAccount, seen |-> "none",
            calm |-> FALSE, late |-> FALSE]

\* A call fails, or a change is cut off.
Fault == faults < MaxFaults /\ faults' = faults + 1

Init ==
  /\ standing = [a \in Accounts |-> "absent"]
  /\ cache = [a \in Accounts |-> NoEntry]
  /\ owner = [t \in Tokens |-> NoAccount]
  /\ expires = [t \in Tokens |-> 0]
  /\ blacklist = [t \in Tokens |-> 0]
  /\ change = [c \in Changes |-> NoChange]
  /\ visit = [v \in Visits |-> NoVisit]
  /\ now = 0
  /\ ops = 0
  /\ faults = 0
  /\ loggedOut = {}

-----------------------------------------------------------------------------
(* The account row *)

Insert(a, s) ==
  /\ standing[a] = "absent"
  /\ standing' = [standing EXCEPT ![a] = s]
  /\ UNCHANGED <<cache, tokenVars, change, visit, now, ops, faults>>

\* An administrator creates an account, with or without the console.  Status
\* has the column default TRUE, which GORM also writes when the field is FALSE:
\* the account is enabled whatever the request says.
Create(a) == \E s \in {"console", "user"} : Insert(a, s)

\* Registration gives no access to the console.
Register(a) == Insert(a, "user")

\* The request finds the account, or ends with an error.
Begin(c, a, s) ==
  /\ change[c].pc = "idle" /\ ops < MaxOps
  /\ Present(a)
  /\ ops' = ops + 1
  /\ change' = [change EXCEPT ![c] = [pc |-> "commit", account |-> a, to |-> s]]
  /\ UNCHANGED <<standing, cache, tokenVars, visit, now, faults>>

Update(c, a) == \E s \in Rows : Begin(c, a, s)

Delete(c, a) == Begin(c, a, "deleted")

\* Variant: nothing follows the transaction.
Variant_Committed(c) == [change EXCEPT ![c] = NoChange]

Committed(c) == [change EXCEPT ![c].pc = "invalidate"]

\* The transaction.  An UPDATE finds no row of an account that was deleted
\* meanwhile.
Commit(c) ==
  LET a == change[c].account
  IN  /\ change[c].pc = "commit"
      /\ standing' = [standing EXCEPT ![a] = IF Present(a) THEN change[c].to ELSE @]
      /\ change' = Committed(c)
      /\ visit' = [v \in Visits |->
           IF visit[v].account = a THEN [visit[v] EXCEPT !.calm = FALSE] ELSE visit[v]]
      /\ UNCHANGED <<cache, tokenVars, now, ops, faults>>

\* InvalidateAccountCache; a failure is only logged.
Invalidate(c) ==
  /\ change[c].pc = "invalidate"
  /\ \/ cache' = [cache EXCEPT ![change[c].account] = NoEntry] /\ UNCHANGED faults
     \/ Fault /\ UNCHANGED cache
  /\ change' = [change EXCEPT ![c] = NoChange]
  /\ UNCHANGED <<standing, tokenVars, visit, now, ops>>

\* The request's context is cancelled, or the process stops.
Abandon(c) ==
  /\ change[c].pc # "idle"
  /\ Fault
  /\ change' = [change EXCEPT ![c] = NoChange]
  /\ UNCHANGED <<standing, cache, tokenVars, visit, now, ops>>

-----------------------------------------------------------------------------
(* Access tokens *)

\* Login, registration or refresh issues a token.  The account was enabled when
\* that request looked; it may have changed since (Sessions has the details).
Issue(t, a) ==
  /\ expires[t] = 0
  /\ standing[a] # "absent"
  /\ owner' = [owner EXCEPT ![t] = a]
  /\ expires' = [expires EXCEPT ![t] = now + AccessTTL]
  /\ UNCHANGED <<standing, cache, blacklist, loggedOut, change, visit, now, ops, faults>>

Valid(t) == now < expires[t]

\* Variant: the key lives for a tick, not for what the token has left.
Variant_KeyTTL(t) == 1

\* time.Until(exp)
KeyTTL(t) == expires[t] - now

\* Logout blacklists the presented token.  If SetEx fails, nothing changes.
RevokeAccessToken(t) ==
  /\ Valid(t)
  /\ blacklist' = [blacklist EXCEPT ![t] = now + KeyTTL(t)]
  /\ loggedOut' = loggedOut \cup {t}
  /\ UNCHANGED <<standing, cache, owner, expires, change, visit, now, ops, faults>>

-----------------------------------------------------------------------------
(* Visits *)

IsAccessTokenRevoked(t) == blacklist[t] > now

\* Auth: signature, exp, blacklist.  A blacklist that does not answer has nothing.
Auth(v, t) ==
  /\ visit[v].pc = "idle"
  /\ Valid(t)
  /\ \/ ~IsAccessTokenRevoked(t) /\ UNCHANGED faults
     \/ IsAccessTokenRevoked(t) /\ Fault
  /\ visit' = [visit EXCEPT ![v] = [NoVisit EXCEPT
       !.pc = "load", !.account = owner[t],
       !.late = (t \in loggedOut /\ ~IsAccessTokenRevoked(t))]]
  /\ UNCHANGED <<standing, cache, tokenVars, change, now, ops>>

\* LoadAccount's decision on what it got.
Decide(v, s) ==
  visit' = [visit EXCEPT ![v] =
    IF Enabled(s) THEN [@ EXCEPT !.pc = "inside", !.seen = s] ELSE NoVisit]

\* The cache has the account.
Hit(v) ==
  LET a == visit[v].account
  IN  /\ visit[v].pc = "load"
      /\ cache[a] # NoEntry
      /\ Decide(v, cache[a].standing)
      /\ UNCHANGED <<standing, cache, tokenVars, change, now, ops, faults>>

\* It has not, or does not answer.
Miss(v) ==
  /\ visit[v].pc = "load"
  /\ \/ cache[visit[v].account] = NoEntry /\ UNCHANGED faults
     \/ cache[visit[v].account] # NoEntry /\ Fault
  /\ visit' = [visit EXCEPT ![v].pc = "row"]
  /\ UNCHANGED <<standing, cache, tokenVars, change, now, ops>>

\* Variant: an account that is not there is taken like any other.
Variant_Found(a) == TRUE

Found(a) == Present(a)

\* GetAccountByID reads the row.
ReadRow(v) ==
  LET a == visit[v].account
  IN  /\ visit[v].pc = "row"
      /\ visit' = [visit EXCEPT ![v] =
           IF Found(a)
           THEN [@ EXCEPT !.pc = "store", !.seen = standing[a], !.calm = TRUE]
           ELSE NoVisit]
      /\ UNCHANGED <<standing, cache, tokenVars, change, now, ops, faults>>

\* Variant: the entry is written without accountCacheTTL.
Variant_HasTTL == FALSE

HasTTL == TRUE

\* SetEx; when it fails the account is used and not cached.
Store(v) ==
  /\ visit[v].pc = "store"
  /\ \/ cache' = [cache EXCEPT ![visit[v].account] =
            [standing |-> visit[v].seen, calm |-> visit[v].calm, expires |-> HasTTL]]
     \/ UNCHANGED cache
  /\ Decide(v, visit[v].seen)
  /\ UNCHANGED <<standing, tokenVars, change, now, ops, faults>>

\* The handler has answered.
Leave(v) ==
  /\ visit[v].pc = "inside"
  /\ visit' = [visit EXCEPT ![v] = NoVisit]
  /\ UNCHANGED <<standing, cache, tokenVars, change, now, ops, faults>>

\* The TTL of an entry is over.
Expire(a) ==
  /\ cache[a].expires
  /\ cache' = [cache EXCEPT ![a] = NoEntry]
  /\ UNCHANGED <<standing, tokenVars, change, visit, now, ops, faults>>

\* Time passes; keys of the blacklist whose TTL is over disappear.
Tick ==
  /\ now < MaxTime
  /\ now' = now + 1
  /\ blacklist' = [t \in Tokens |-> IF blacklist[t] <= now + 1 THEN 0 ELSE blacklist[t]]
  /\ UNCHANGED <<standing, cache, owner, expires, loggedOut, change, visit, ops, faults>>

-----------------------------------------------------------------------------
Request(c) == \E a \in Accounts : Update(c, a) \/ Delete(c, a)

ChangeStep(c) == Commit(c) \/ Invalidate(c)

VisitStep(v) == Hit(v) \/ Miss(v) \/ ReadRow(v) \/ Store(v) \/ Leave(v)

Next ==
  \/ \E a \in Accounts : Create(a) \/ Register(a) \/ Expire(a)
  \/ \E c \in Changes : Request(c) \/ ChangeStep(c) \/ Abandon(c)
  \/ \E t \in Tokens : RevokeAccessToken(t) \/ \E a \in Accounts : Issue(t, a)
  \/ \E v \in Visits : VisitStep(v) \/ \E t \in Tokens : Auth(v, t)
  \/ Tick

Spec == Init /\ [][Next]_vars

\* A request that has begun goes on, and an entry with a TTL expires.
Fairness ==
  /\ \A c \in Changes : WF_vars(ChangeStep(c))
  /\ \A v \in Visits : WF_vars(VisitStep(v))
  /\ \A a \in Accounts : WF_vars(Expire(a))

FairSpec == Spec /\ Fairness

-----------------------------------------------------------------------------
(* Properties *)

TypeOK ==
  /\ standing \in [Accounts -> Rows \cup {"absent", "deleted"}]
  /\ cache \in [Accounts -> Entry \cup {NoEntry}]
  /\ owner \in [Tokens -> Accounts \cup {NoAccount}]
  /\ expires \in [Tokens -> Nat]
  /\ blacklist \in [Tokens -> Nat]
  /\ change \in [Changes -> ChangeRecord]
  /\ visit \in [Visits -> VisitRecord]
  /\ now \in 0..MaxTime
  /\ ops \in 0..MaxOps
  /\ faults \in 0..MaxFaults
  /\ loggedOut \subseteq Tokens

Invalidating(a) ==
  \E c \in Changes : change[c].pc = "invalidate" /\ change[c].account = a

\* After a change of an account has deleted the cache key, no entry from before
\* it is there (auth.go:161-162), unless a fill overlapped a commit or a call
\* failed.
CachedAccountRight ==
  faults = 0 =>
    \A a \in Accounts :
      cache[a].calm /\ ~Invalidating(a) => cache[a].standing = standing[a]

\* The TTL is the fallback (auth.go:153): whatever the races and failures, an
\* account that stays disabled or deleted is in the end not let in any more.
EventuallyRefused ==
  \A a \in Accounts :
    <>[](Enabled(standing[a])
         \/ /\ ~Enabled(cache[a].standing)
            /\ \A v \in Visits : ~(visit[v].pc = "inside" /\ visit[v].account = a))

\* Auth lets no token past that was blacklisted at logout, until it expires by
\* itself (handler/auth.go:92-93), unless the cache does not answer.
LoggedOutStaysOut == \A v \in Visits : ~visit[v].late
=============================================================================
