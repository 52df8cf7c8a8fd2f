# q-iam: TLA+ models, model-checking runs and proofs

q-iam is an identity and access management service: accounts, groups and
policies, login with JWTs and rotating refresh tokens, OAuth2 for applications,
permission decisions with wildcards and data scopes, and an audit log. It is one
Go program (Gin, GORM, a cache that is local memory or Redis) with a web
console. This directory holds models of its stateful parts, the TLC runs that
check them, and machine-checked proofs, for every number of requests, rows and
records, of every safety property that a passing run checks.

All paths below are relative to `src/`.

## 1. The system

| Part | Source | State | Operations |
|---|---|---|---|
| Refresh-token sessions | `logic/auth.go`, `logic/account.go`, `logic/cleanup.go` | table `q_iam_refresh_tokens`, account status and password, replay counter in the cache | Login, Register, Refresh, Logout, ChangePassword, ResetPassword, Update (disable, enable), Delete, CleanupHistory |
| Login lockout | `logic/auth.go` | `login_fail_count`, `locked_until` | Login, recordLoginFailure, ResetPassword |
| Audit log queue | `logic/audit.go` | channel, batch, list of failed batches | Record, Close, flushLoop |
| OAuth authorization codes | `logic/oauth.go`, `logic/app.go` | signed codes, consume counter in the cache, apps | Authorize, IssueToken (authorization_code) |
| Permission sets and their cache | `logic/permission.go`, `grant.go`, `group.go`, `policy.go`, `statement.go` | statements, policies, attachments, groups, members, cached sets | LoadPermissionSet, grant, revoke, and every update and deletion with its invalidation |
| Wildcard matching | `logic/permission.go` | none (a loop) | globMatch |
| Permission decisions, data scopes, visibility | `logic/permission.go`, list and detail functions of each resource | the request's rule set, loop state and scope | LoadPermissionSet, CheckResource, DataScopeForAction, merge, CanAccessPrincipal, CanAccessPolicy, CanManage, list filters |
| Account cache, access-token blacklist | `logic/auth.go`, `logic/account.go`, `middleware/auth.go`, `middleware/load_account.go` | account row, cache keys with TTL | GetAccountByID, InvalidateAccountCache, RevokeAccessToken, Auth, LoadAccount, and what changes the row |
| Directory | `logic/account.go`, `group.go`, `policy.go`, `statement.go`, `grant.go`, `app.go` | the tables | create, update, delete, grant, revoke |
| Password policy and history | `logic/password.go`, `account.go`, `auth.go` | password, `q_iam_password_history` | CheckPasswordReuse, RememberPassword, three requests that change a password |
| OAuth user info, data permissions | `logic/oauth.go` | none | UserInfo, DataPermissions, scope filters |
| Secret encryption | `logic/crypto.go`, `app.go`, `svc/servicecontext.go` | keys, column `app_secret` | Encrypt, Decrypt with a previous key, ResetSecret, VerifyCredential, restart with a new key |
| Audit middleware, handlers, routes, start-up, web console | `middleware/`, `handler/`, `route/`, `svc/`, `db/`, `ui/` | none, or fixed at start | decode, call one logic function, encode |

How they interact. Every HTTP request is a goroutine; goroutines share the
database and the cache and nothing else, except the audit channel and its one
worker. No handler holds a lock across two statements: each statement or
transaction is atomic and anything may happen between two of them. A request's
context is cancelled when the client goes away, so a handler may end between any
two steps. Login and Refresh read the account that account administration
changes; account administration revokes the tokens that Login and Refresh
insert. Every change of a grant, group, policy or statement deletes cached
permission sets which loads in flight may be about to write. Apps are changed
while their codes are being exchanged. Every request with an access token reads an
account through a cache that account administration invalidates. Requests on
policies link statements that other requests delete, and grants attach policies to
principals that go away.

What is hard: check-then-act across statements (Login, Refresh, recordLoginFailure,
Grant), cache-aside reads racing invalidations, an optimistic `UPDATE ... WHERE
revoked_at IS NULL` that has to resolve concurrent rotations, counters in a cache
whose keys expire, retries on a bounded queue, and shutdown. `PROJECT.json` lists
these hazards at their lines with the properties that cover each of them; section 4
names those that no property covers, because the code lets them happen.

What makes each part correct:

* sessions: one usable refresh token per session; no session outlives a password
  change; a disabled account's session is not continued; replay evidence is kept
  as long as it matters, and a single replay does not sign everybody out;
* lockout: the passwords that can be tried before the lock closes are bounded by the
  threshold and the guesses in flight; the count before an expired lock does not lock
  again; the threshold leads to a lock; a lock is not prolonged;
* audit: a queued record is stored or given up after its retries, never twice,
  memory stays bounded, shutdown ends;
* codes: one exchange per code, by the app it was issued to; a lone request is not
  refused;
* permission cache: a change reaches every cached set it concerns; stale sets are
  temporary;
* wildcards: what a pattern covers is matched;
* account access: an invalidation leaves no old entry, a logged-out token is not let
  in, a disabled account is in the end refused;
* directory: without foreign keys, references refer to rows unless a check was
  overtaken;
* password history: none of the last passwords comes back;
* app secrets: what was handed out is accepted, across a rotation of the key too;
* decisions and visibility: a denial wins wherever it stands, scopes merge to the same
  result in every order, and the pages that ask for the scope answer with the rows of the
  lists.

## 2. Modules

| Module | Models | Notes |
|---|---|---|
| `SessionSpec` | what the token store promises | sessions start once, are active, end for good |
| `Sessions` | the token store, all operations | implements `SessionSpec` (`ImplementsSessionSpec`) |
| `SessionsHistory` | `Sessions` with history variables | which detections happened, and without a count |
| `SessionsProofs` | proofs about `Sessions` and `SessionsHistory` | section 5 |
| `PermissionCheck` | rules, decision, merging of data scopes | |
| `Visibility` | `PermissionCheck` and then the list filters and single-row checks | extends `PermissionCheck` |
| `GlobMatch` | globMatch and its reference definition | |
| `PermissionProofs` | proofs about `PermissionCheck`, `Visibility` and `GlobMatch` | section 5 |
| `LoginLockout` | counter and lock of one account | |
| `PasswordHistory` | password and history of one account | |
| `CredentialProofs` | proofs about `LoginLockout` and `PasswordHistory` | section 5 |
| `AuditQueue` | channel, worker, retries, Close | |
| `AuditQueueProofs` | proofs about `AuditQueue` | section 5 |
| `OAuthCodes` | codes, consume counter, apps | |
| `OAuthCodesProofs` | proofs about `OAuthCodes` | section 5 |
| `PermissionCache` | tables, invalidations, loads, cache | |
| `PermissionCacheProofs` | proofs about `PermissionCache` | section 5 |
| `AccountAccess` | account row, account cache, access tokens, blacklist | |
| `AccountAccessProofs` | proofs about `AccountAccess` | section 5 |
| `Directory` | rows and references of statements, policies, principals | |
| `DirectoryProofs` | proofs about `Directory` | section 5 |
| `AppSecrets` | app secrets, keys, rotation | |
| `MC...` | instances for TLC | symmetry sets, small patterns |

A proof module about two models extends both, and so do `CredentialProofs` and
`PermissionProofs`. The specification of the second model then carries the model's name
(`LockoutSpec`, `LockoutTypeOK`, `GlobSpec`, ...), and in `GlobMatch` the code's `s` and `i`
are `subject` and `part`.

Definitions named `Variant_...` stand before the definition they vary and are not
part of the model: each is the form a plausible bug of the code would take, and
replacing the definition by its variant makes the run named in `PROJECT.json`
under "mutants" report the property as violated.

### Sessions

A row of the table is `row[t]`, one per token: `unissued`, `live`
(`revoked_at IS NULL`), one of the four revoke reasons, or `purged`. `account[a]`
and `password[a]` are the account's status and the number of its password changes.
`request[q]` holds where the handler in goroutine `q` stands and the locals it has
read (account, token, its clock reading). `reuse[a]` is the replay counter.

`LoginVerify` is Login up to the password comparison, `LoginIssue` the insert.
Refresh is `RefreshParse`, `RefreshAccount`, then its transaction (`RefreshFind`,
`RefreshConsume`, `RefreshPurge`), then `ReuseCount`, `ReuseExpire`, `ReuseDecide`,
`ReuseRevoke` after it, one action for every statement or cache call. The
transaction's read, update and insert are separate steps where another handler
may run between them (the read takes no lock), and one step where the database
orders them (the update locks the row until the commit). `LateRevoke` is a
password change or disabling whose account has been deleted meanwhile: only the
revocation has an effect. `Abandon` ends a handler anywhere: cancellation or crash.

A cache call that fails sends the handler to `fallback`, which revokes like `revoke`
does; the two names keep apart why the revocation happens.

`SessionsHistory` conjoins `Next` with history variables: how many replays were
detected, and whether a detection went without a count.

`family` and `started` are history: the login a token descends from, and the
password count at that login's insert. No step of the code reads them.

### LoginLockout, AuditQueue, OAuthCodes

`LoginLockout` has one account, because the counter and the lock are columns of
its row and no statement touches two accounts. Any statement may fail
(`MaxFaults`); what a handler does then is in the action. `tries` is history: the wrong
passwords compared since a lock was last set, or the counter was last cleared by a right
password or an administrator. Clearing an expired lock does not reset it, so a second
clearing of the counter, or an increment that is lost, shows as a password too many.

`AuditQueue` has the senders blocked on the channel (`waiting`, in arrival order,
as the runtime keeps them), the channel, the worker's batch and its list of failed
batches with their retries. `Flush` is insertBatch with its outcome. The batches that a
round of retries keeps, in their order, are given as the positions of the old list in
ascending order (`Ascending`), without a recursive definition. The worker's
`select` is `Receive`, `TickerFires` and `Drained`; every turn of the loop starts
with `Retry`, because retryPending is called there.

`OAuthCodes` has the codes as signed grants, the consume counter with its TTL, and
three handlers. Increment, Expire and Get of consumeCode are three steps.
`UpdateApp` lets an app change between working, client-credentials only, and off
(deleted or disabled) in every direction, which is more than the code allows.

### PermissionCache

The tables are functions and relations (`member`, `attached`, `linked`, `text`). A
permission set is the set of rules (policy, statement, text) it was built from;
`Rules(a)` is what the tables say now. An administration request is `Begin` (the
reads and checks before its transaction, with whatever list it reads there),
`Commit` (the transaction) and the invalidation (`ListReferences`, `ListKeys`,
`DeleteKeys`), whose queries run against the tables as they are by then.
Group.Delete is the one request that invalidates first. LoadPermissionSet is
`LoadAccount`, `LoadPolicies`, `LoadRules`, `Store`. There is no clock: an entry
with a TTL may expire at any moment, and one without never does.

### AccountAccess

`standing[a]` is what LoadAccount looks at in the row. A change of an account is
`Begin` (Update or Delete has found the row), `Commit` and `Invalidate`. A request
with an access token is `Auth` (signature, expiry, blacklist), `Hit` or `Miss`,
`ReadRow`, `Store`, and `inside` means that its handler runs. The refresh tokens that the
same transactions revoke are in `Sessions`. Access tokens may be issued at any time
to any account there has been, because Login and Refresh look at the account before they
issue. `calm` (an entry, or a visit on its way to write one) says that no commit
overlapped the fill; `late` that the blacklist answered and did not have a logged-out
token. Both are history: no step of the code reads them. Entries have no clock, they
may expire at any moment; tokens and the blacklist have one, because one expiry has
to be compared with the other.

### PasswordHistory

One account, as no statement concerns two. Passwords are values, and comparing a hash
is equality. A request is `ChangeOwnPassword` or `SetPassword` (the read of the row), the
two queries of CheckPasswordReuse (`CheckCurrent`, `CheckHistory`) and the transaction
(`Commit`, or `CommitDeleted` when the row is gone). What it remembers is what it read
at its beginning. `past` and `since` are history: every password so far, and from where on
no change has overlapped another.

### Directory

Principals are accounts, groups and apps: the same checks, the same attachments, the
same cleaning up. A request that checks first is `Begin` with what `Checks` finds, and
`Commit`, one transaction; `Link` is GORM's Append and Replace, which insert the
associated statements where they are missing. `overtaken` is history: whether a
transaction ran when its checks no longer held.

### AppSecrets

A ciphertext is its version prefix, the key it was made with (which it does not say)
and the secret. A rotation is a restart with the old key as `previous_key`. Tables start as
an earlier release leaves them: plain or `enc:v1`.

### GlobMatch

The loop as it is, from a pattern already split at its stars. The reference is
`Matches`: the parts can be placed one after the other in the subject.

### PermissionCheck and Visibility

One request of one account that is not the built-in administrator. The loops of
CheckResource and aggregateDataScopes are loops of the model, one rule or one scope
row a step, with their early exits; a rule has the set of actions its patterns match.
As in the code, a rule loaded from the database does not carry the resource of its
statement, and rules of both effects contribute to the data scope. `TurnAway` is every
refusal of the middleware before the decision (account disabled, no console access, rules
not loaded). The handler loads the same cache key again; here it gets the same rules, as
changes in between are the subject of `PermissionCache`.

Then the tables are queried (`Query`), in any state other requests may have left them.
What lists and checks return are state functions over scope and tables, named like the
Go functions (`applyGroupScope`, `CanAccessPrincipal`, ...), so that the property
can compare a list with a check under the same scope. `Detail` is what the pages answer and
`Update` what may be changed or deleted, by row: the page of a statement asks nothing, and of
the changes only those of a statement ask, who created it. `ScopeFails` is the error path: lists
fall back to the viewer's own rows, checks fail. Key words, status filters and paging
only narrow a list and are left out.

## 3. Runs

States are distinct states found by TLC.

| Run | Bounds | What it shows |
|---|---|---|
| `sessions` (287,086) | 3 tokens, 2 handlers, 1 account; the clock may tick when no request is under way (`QuietTicks`) | `SingleLivePerSession`, `StartedUnderCurrentPassword`, `DisabledSessionsNotContinued` and the refinement of `SessionSpec` hold in every interleaving |
| `sessions_replay` (1,720,357) | 2 tokens, 2 handlers, clock of 2 ticks, purge, cleanup, replay counter | `ReplayEvidenceKept`, `ReuseNeedsTwoDetections` |
| `login_lockout` (64,917) | 3 logins, threshold 2, lock of 2 ticks, 2 faults | `TriesBounded`, `CountedWereTried`, `ThresholdLocks`, `LockNotExtended` |
| `audit_queue` (75,380) | 4 records, channel of 1, batches of 2, 3 retries | `InOnePlace`, `PendingBounded`, `GivenUpAfterAttempts`; `QueuedIsSettled` and `CloseReturns` under fairness |
| `oauth_codes` (563,280) | 2 apps, 1 code, 3 requests, 1 fault | `ExchangedOnce`, `RefusedOnlyIfUsed`, `TokenForAuthorizedApp` |
| `permission_cache` (453,159) | 1 account, group, policy, statement with 2 texts; 2 administrators, 2 requests, 1 load, 1 fault | `InvalidationReaches`; `EventuallyRight` under fairness |
| `visibility` (1,021,324) | 2 statements, 2 actions, 2 groups, lists of up to 2 scopes; 2 accounts, 1 app, policy and pool row | `DecisionRight`, `ScopeRight`, `PagesFollowLists` |
| `glob_match` (198,654) | every pattern of up to 4 parts of up to 2 symbols, every subject of up to 4 symbols | `NoMatchMissed`, `MatchIsRight` |
| `account_access` (857,175) | 1 account, 1 token, 2 changes, 2 visits, clock of 2 ticks, 1 fault | `CachedAccountRight`, `LoggedOutStaysOut`; `EventuallyRefused` under fairness |
| `password_history` (350,994) | 4 passwords, 3 requests, history of 2, 4 changes | `NoRecentReuse` |
| `directory` (598,616) | 2 statements, 2 policies, 2 principals, 2 administrators, 4 requests, every start | `ReferencesHold` |
| `secret_rotation` | 2 apps, 2 secrets, 3 keys, 1 rotation, 3 secrets handed out | violation: section 4 |

Why the bounds are enough. A rotation race needs two handlers and three tokens (the
one both present, the winner's successor, and one more for the next rotation or a
new login); replay detection needs the same, plus a clock that passes an expiry and
a counter window. The lockout needs three handlers: one to count, one to
lock and one that decided earlier; with them and two faults the bounds of `TriesBounded`
and `CountedWereTried` are reached. In the audit queue four records with a batch of
two and a channel of one give a full channel, a blocked sender, two failed batches
and a partly filled one at the same time. Two administrators with one request each
give every pair of overlapping requests, and a group of one member gives every way a
set depends on a row (directly, through the group, through policy and statement).
Two statements are enough to have every pair of effects, matches and scopes in both
orders.
One change is enough to make an entry old and a second one to overlap it; a
second visit is there to be served from what the first has written. Four changes
with a history of two let a pruned password come back and a remembered one be tried,
and three requests let a change overlap two others. Two of each kind in the directory give a
policy that shares a statement with another, and deletions on either side of every relation.
The theorems of section 5 settle the safety properties for every number.
The clocks (`MaxTime`), password changes (`MaxPassword`), requests (`MaxOps`, `MaxChanges`, `MaxResets`), rotations (`MaxRotations`),
failures (`MaxFaults`), pattern length (`MaxParts`) and statements (`MaxStatements`) are the named bounds.

`CHECK_DEADLOCK FALSE` is set where the system may stop: all tokens are used up, all
codes exchanged, all records settled, the requests of the bound made, the one request
of `Visibility` answered.

Fairness. `AuditQueue`: the worker goroutine runs (weak fairness on its
unconditional steps), and Go's `select` picks at random among ready cases, so a
receive that is ready again and again is taken (strong fairness on `Receive` and
`Drained`). Records need not arrive, and Close need not be called. `PermissionCache`:
a handler that has begun goes on, and an entry with a TTL expires; no
administrator, and no load, has to start. `AccountAccess`: likewise for changes and
visits that have begun, and for entries; the clock need not move. The other modules have safety properties only.

## 4. Findings

Each is a disagreement between a comment or document and the code. With a run that
shows it:

* `secret_rotation`: Encrypt writes enc:v2 before and after a rotation, and Decrypt
  opens enc:v2 with the current key only (crypto.go:108), so every secret of this release is
  lost at the rotation that crypto.go:20 calls smooth; `previous_key` helps only enc:v1.

Met while modelling, without a run:

* Login reads the account, compares the password and inserts the session later, without
  looking again (auth.go:219-267). A password change in between revokes the rows that exist
  and not this one; auth.go:778 says old sessions are all invalid afterwards;
* the loaded rules do not carry the resource of their statement (permission.go:231), so
  a statement limited to a resource is in force everywhere; permission.go:44 says it takes no
  part where no resource is given;
* lists of groups and apps show the viewer's own rows, whose pages are then refused
  (permission.go:476-495); permission.go:392 says one's own can be viewed;
* of two password changes that overlap, the second remembers what both have read
  (account.go:476), so the password in between can be used again; one that overlaps a deletion
  leaves a history row behind, which account.go:415 means to avoid;
* an account read before a change and cached after its invalidation is let in for up to a
  minute (auth.go:726), which auth.go:162 means to avoid;
* `status: false` in a request that creates an account, group, policy or app is replaced by
  the column default TRUE (account.go:269, model/account.go:21);
* a statement deleted while a policy request is about to link it comes back without its data
  scopes (policy.go:212, 278), as an unlimited one; handler/statement.go:14 says that a policy
  only links statements;
* data scopes concern the lists and most pages, not every request for a row: the page of a
  statement (handler/statement.go:59) reads rows that its list leaves out, and Update and Delete of
  accounts, groups, apps and policies ask for the permission only; model/policy.go:89 says a
  scope is what can be seen or operated on. README.md:238 promises the lists;
* a row revoked by a password change counts as a replayed one when it is presented
  (auth.go:554-560), so two leftover requests of signed-out devices end the new
  sessions; auth.go:551 names only rotated and reuse;
* the lock is set by a statement that does not look at the counter any more
  (auth.go:462), so it may follow a success or a reset that cleared it;
* at shutdown a batch that fails twice is neither stored nor reported
  (audit.go:193-199);
* Group.Delete invalidates before its transaction (group.go:237); a set loaded in
  between keeps the group's rules for up to a minute;
* `ab*ba` matches `aba` (permission.go:588, see `MatchIsRight`);
* Logout relabels a rotated row (auth.go:649);
* the replay window restarts at every detection (auth.go:387).

What no property covers, because the code lets it happen. A property that holds has to leave such
a case out, and those nearby do; they are not listed with it in `PROJECT.json`:

| Hazard | Property nearby, and what it leaves out |
|---|---|
| a login that compared the password before a change (auth.go:267) | `StartedUnderCurrentPassword`: speaks of the password at the insert |
| leftover tokens of a password change count as replays (auth.go:555) | none |
| the replay counter's key expires between Expire and Get (auth.go:392) | `ReuseNeedsTwoDetections`: exempts a detection without a count |
| the retries of a batch are used up within a few turns (audit.go:190) | `GivenUpAfterAttempts`: counts attempts, not the time between them |
| a prefix and a suffix that overlap (permission.go:601) | `MatchIsRight`: leaves that case out; `NoMatchMissed` covers the other direction |
| Group.Delete invalidates too early (group.go:235) | `EventuallyRight`: the TTL heals it |
| rules lose their resource (permission.go:231) | `DecisionRight`: stated over the loaded rules |
| a statement or a policy goes while the other's request is under way (statement.go:246), a principal or a policy while it is granted (grant.go:41) | `ReferencesHold`: exempts checks that were overtaken |
| two password changes overlap (account.go:462) | `NoRecentReuse`: counts from the last overlap |
| requests that do not ask for the scope (handler/statement.go:59) | `PagesFollowLists`: speaks of the pages that ask |

A revocation on READ COMMITTED (auth.go:603) is outside the model (section 6).

## 5. Proofs

`SessionsProofs` proves about `Sessions`, for every set of accounts, tokens and
requests and every value of the other constants allowed by `SessionsAssumption`:

| Theorem | Statement |
|---|---|
| `InductiveInvariant` | `Spec => []IInv` |
| `TypeCorrect` | `Spec => []TypeOK` |
| `SingleUse` | `Spec => []SingleLivePerSession` |
| `PasswordChangeEndsSessions` | `Spec => []StartedUnderCurrentPassword` |
| `DisablingStopsRenewal` | `Spec => []DisabledSessionsNotContinued` |
| `Refinement` | `Spec => ImplementsSessionSpec` |
| `EvidenceKept` | `Spec => []ReplayEvidenceKept` |
| `TwoDetections` | `HistorySpec => []ReuseNeedsTwoDetections` |

The inductive invariant. The three safety invariants are not inductive: whether a
rotation may insert a successor depends on what the handler holds. `IInv` adds three
things. `FamilyOK`: every issued token has an owner and descends from an issued
token. `HandlerOK`: a handler past its first step works for an account, and the
token it holds was issued to that account. `InFlight`: once a refresh has found its
account enabled, its token can be live only while the account still is enabled,
because disabling and deleting revoke every live row in the same transaction; a
stale status check is therefore harmless, and this is the fact that makes it so.

The argument. Every step does one of three things to the table (`TableStep`):
inserts nothing, begins a session under a fresh family, or replaces one live
token by a fresh one of the same family. What the invariant says about the table
follows from that alone. What it says about handlers follows from how one
handler moves (`OneHandlerMoves`, `MovedHandler`) while no other does. The
refinement maps a family to a session: beginning starts it, rotation leaves it as
it is, and everything else ends a set of them.

`ReplayEvidenceKept` needs one more fact (`ClockOK`): a handler deletes by the time it read
when it began, which never lies ahead of the clock, so what it takes for expired is
(`PurgeStep`). `TwoDetections` is about `SessionsHistory`, which only watches
(lemma `HistoryIsSessions`), so that the invariants of `Sessions` can be used for it. `HistoryInv` relates
the counter to the detections (`CounterOK`: the counter and the handlers about to count never
run ahead of them) and the handlers to both (`DecisionOK`: one about to revoke has read the
threshold, or the cache has failed). Nothing is claimed of the counter once the cache
has failed.

`PermissionProofs` proves about `Visibility`, and so about `PermissionCheck`, for every
set of actions, scopes, accounts, groups, apps, policies and rows, for any number of
statements and of scopes per statement (from `PermissionCheckAssumption`: the lists are
lists of scopes, and `VisibilityAssumption`: the viewer is an account, and rows of different
tables are different):

| Theorem | Statement |
|---|---|
| `InductiveInvariant` | `Spec => []IInv` |
| `TypeCorrect` | `Spec => []TypeOK` |
| `DenialWins` | `Spec => []DecisionRight` |
| `ScopeIndependentOfOrder` | `Spec => []ScopeRight` |
| `PagesAnswerAsListed` | `Spec => []PagesFollowLists` |

The argument is that of two loops. `Deciding` is the loop invariant of CheckResource: no
rule before `i` denies, and `allowed` says whether one allows; at the end of the loop this
is `DecisionRight`, and leaving it early means that rule `i` denies. `Gathering` is that
of the merge: either everything is visible and some rule says so, or what has been merged is
exactly the groups of the rows passed (`Seen`), none of them "all". An early exit can
only happen in the first case, where the rest of the rows makes no difference. `OwnVisible`
(a finished scope is never empty) is what the comparison of lists with checks needs: the check
for an account does not look at `SelfOnly`, the list does.

And about `GlobMatch`, for every set of symbols, every pattern and every subject
(`GlobMatchAssumption`):

| Theorem | Statement |
|---|---|
| `GlobInvariant` | `GlobSpec => []GlobInv` |
| `NothingMissed` | `GlobSpec => []NoMatchMissed` |
| `MatchCovered` | `GlobSpec => []MatchIsRight` |

The argument is that of a greedy search. The parts found so far follow one another from the
start of the subject and end at `pos` (`Laid`), and in no placement of the whole pattern
do they end earlier (`Earliest`). So a part that is not found from `pos` on has no place in any
match; and when the loop ends with room for the last part, its place at the end of the
subject completes a placement (`RoomMatches`). The loop is a sequence of steps, so the
invariant takes the place of an induction over the pattern.

`CredentialProofs` proves about `LoginLockout`, for any finite number of concurrent
logins and any threshold, lock duration and number of faults (`LoginLockoutAssumption`):

| Theorem | Statement |
|---|---|
| `LockoutInvariant` | `LockoutSpec => []LockoutInv` |
| `LockoutTypeCorrect` | `LockoutSpec => []LockoutTypeOK` |
| `GuessesAreBounded` | `LockoutSpec => []TriesBounded` |
| `CountStartsAnew` | `LockoutSpec => []CountedWereTried` |
| `ThresholdLeadsToLock` | `LockoutSpec => []ThresholdLocks` |
| `LockStands` | `LockoutSpec => LockNotExtended` |

The bound on the passwords tried is not inductive: what can still be tried depends on where the
handlers stand. `Accounted` keeps the balance of tries, counter and handlers, in three cases.
Without a lock, every wrong password is in the counter, with a handler on its way to it
(`Trying`) or lost to a fault; every count from the threshold on belongs to a handler that has
counted and not yet decided (`Deciding`), or to a fault; and what is counted or on its way was
tried, but for the handlers on their way when the counter was last cleared. When a lock is set
the tries start at zero, and nobody new gets past the check while it is in force. Under an expired
lock newcomers do get past, but with the lock in hand (`Resetting`), and the first of
them that goes on clears lock and counter before it counts; the others then find no lock to
clear, which is what the condition of that UPDATE is for. `Recounted` says how a step of one
handler changes the three numbers, `TryingOrDeciding` that nobody is in two of the sets at once.

And about `PasswordHistory`, for every set of passwords and of
requests and any `history_count` (`PasswordHistoryAssumption`):

| Theorem | Statement |
|---|---|
| `TypeCorrect` | `Spec => []TypeOK` |
| `HistoryKeepsPasswordsNew` | `Spec => []NoRecentReuse` |

`IInv` relates the table to the sequence of all passwords so far: the history ends with those before
the current one, as far back as the last overlap (`Remembered`). What a request that nobody
has overtaken has checked is still so when it commits (`Known`): every other commit ends
that state. `KeptIsTail` is the lemma about pruning.

`AccountAccessProofs` proves about `AccountAccess`, for every set of accounts, tokens,
changes and visits and any lifetime and number of faults (`AccountAccessAssumption`):

| Theorem | Statement |
|---|---|
| `TypeCorrect` | `Spec => []TypeOK` |
| `LogoutIsFinal` | `Spec => []LoggedOutStaysOut` |
| `CacheFollowsChanges` | `Spec => []CachedAccountRight` |

`TypeOK` is proved together with what local variables hold (`Typed`). `Blacklisted` is why
the first property holds: the key of a logged-out token ends exactly when the token does.
`CacheInv` is the invariant of the second: what a calm visit has read is still so when it is
about to write it (`ReadRight`), because a commit makes every visit to that account not
calm; and a calm entry is right, or some change is on its way to delete it (`CalmRight`).

`DirectoryProofs` proves about `Directory`, for every set of statements, policies,
principals and administrators:

| Theorem | Statement |
|---|---|
| `TypeCorrect` | `Spec => []TypeOK` |
| `ReferencesAreWhole` | `Spec => []ReferencesHold` |

`ReferencesHold` is inductive with `TypeOK`: `CommitKeepsWhole` shows, one transaction at a
time, that one whose checks still hold keeps every reference whole, the rows other requests
have added since the checks included.

`OAuthCodesProofs` proves about `OAuthCodes`, for every set of apps, codes and requests, any
life of a code and any number of cache failures (`OAuthCodesAssumption`):

| Theorem | Statement |
|---|---|
| `TypeCorrect` | `Spec => []TypeOK` |
| `TokenGoesToAuthorizedApp` | `Spec => []TokenForAuthorizedApp` |
| `RefusalIsRight` | `Spec => []RefusedOnlyIfUsed` |
| `ExchangeOnce` | `Spec => []ExchangedOnce` |

`ExchangeInv` is the invariant of the last. The counter is made no earlier than the
code and lives as long, so it is not forgotten while the code is valid (`CounterKept`).
A handler that then reads 1 is therefore the only one that counts, and nobody
has passed before it but the unchecked (`OneAtATime`). A request that reads the counter after
the code has expired may find a new one; those are among the unchecked.

`AuditQueueProofs` proves about `AuditQueue`, for any finite set of records, any sizes of the
channel and of a batch and any number of retries (`AuditQueueAssumption`):

| Theorem | Statement |
|---|---|
| `InductiveInvariant` | `Spec => []IInv` |
| `TypeCorrect` | `Spec => []TypeOK` |
| `NeitherLostNorDoubled` | `Spec => []InOnePlace` |
| `MemoryBounded` | `Spec => []PendingBounded` |
| `NotGivenUpEarly` | `Spec => []GivenUpAfterAttempts` |

`InOnePlace` counts occurrences; the invariant says instead that there is a function from
records to places (`PlacesOK`), that no list repeats a record (`NoneTwice`) and no two failed
batches share one (`PendingApart`), which a step that moves records changes in an obvious
way. `PendingBounded` is not inductive: a full list of batches that have all failed only once
would break it at the next failure. There is no such list, because every new batch that fails
comes after a round of retries of the older ones: a batch with n younger ones after it has
had at least n attempts more than its first (`OldestFirst`), so the oldest is given up
in time. That a round keeps this order whichever batches it drops is `AscendingRoom`, a count of the positions between
two numbers of an ascending sequence.

`PermissionCacheProofs` proves about `PermissionCache`, for every set of accounts, groups,
policies, statements, texts, administrators and loads (`PermissionCacheAssumption`; there
is at least one text, as a statement has one):

| Theorem | Statement |
|---|---|
| `InductiveInvariant` | `Spec => []IInv` |
| `TypeCorrect` | `Spec => []TypeOK` |
| `EveryChangeReaches` | `Spec => []InvalidationReaches` |

`InvalidationReaches` is about the moment when all requests are done. In between, a cached
set may be out of date, and its owner may already be on a list of keys, or still be on
no list because the query for references comes later. The invariant says that there is one
state of the tables, the snapshot, from which every set that was cached undisturbed is
built, but for those some request is about to delete; and that wherever today's tables
differ from it, some request still owes the invalidation of whom the difference concerns
(`BuiltFrom`). The snapshot is the tables when a load that nobody disturbed last stored its
set; it is not a variable, so the invariant claims only that there is one (`HasSnapshot`).
`OwesOK` says what a request has on its lists when it commits, `LoadOK` what an undisturbed
load has read. When a call has failed the snapshot is not claimed, as the property is not.

Only model-checked. The liveness properties `QueuedIsSettled`, `CloseReturns`, `EventuallyRight`
and `EventuallyRefused`: liveness under fairness is outside what the proof system
handles. `AppSecrets`, whose one run shows a violation.

## 6. Assumptions and omissions

* Database: a transaction is atomic. An account-wide revocation sees every committed
  row, which is so on SQLite (the default) and MySQL; on PostgreSQL with READ
  COMMITTED a revocation may miss a row that a concurrent rotation inserts.
* `Sessions`: a statement does not fail by itself; `Abandon` ends the handler before
  any of them, which leaves the same rows.
* `AuditQueue`: an insert stores its whole batch or nothing. A timeout whose insert was
  committed is not modelled; it would store the batch twice.
* `PermissionCache`: one policy per grant or revoke request and one account per
  member request; application principals behave as accounts without groups; the
  queries of a preload are one step; rows are not created. The association saves of
  GORM insert an account that was deleted meanwhile (`TxMembers`).
* `Visibility`: one data scope per request, so ListPrincipals, which asks for the policy
  scope and the principal scope, has the same for both; no administrator, who sees
  everything. CheckResource with a resource is called by no handler.
* `AccountAccess`: account ids are not used again; a request without a token, or
  with an app's, is refused or served without an account and reads none of this.
  An account that a group request inserts again is in `PermissionCache`.
* `PasswordHistory`: the strength rules and the expiry hint are data checks without state.
* `Directory`: a transaction is one step; one policy per grant; statuses, names and
  built-in rows are left out (a disabled policy cannot be granted, a built-in row not be
  deleted; an update that names no statements changes none of this). References nobody checks,
  the owner of an app and the group of a data scope, are not in `Whole`.
* `AppSecrets`: two secrets drawn are different, a wrong key is always noticed.
* Not modelled: what section 1 lists without a module (see `PROJECT.json`,
  "components"). Handlers, routes and start-up keep no state; rate limiters and
  AES-GCM are libraries; the web console is a client.

## 7. Plan

In this order; each with an instance for TLC.

1. `ScopeFilter`: scopeAllowsAction and filterPermissionsByScope; two scopes in
   ListPrincipals.
2. An abstract specification of the account cache (an entry is some value the row has
   had since the last invalidation) and the proof that `AccountAccess` implements it.
3. A revocation on READ COMMITTED in `Sessions`.
