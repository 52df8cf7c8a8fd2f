----------------------------- MODULE LoginLockout -----------------------------
(***************************************************************************)
(* Failed logins of one account: the failure counter, the lock and the     *)
(* operations that clear them.  Source: logic/auth.go (Login,              *)
(* recordLoginFailure), logic/account.go (ResetPassword).                  *)
(*                                                                         *)
(* A login handler reads the account row once and then sends up to four    *)
(* separate statements; each is one step, and any number of handlers       *)
(* interleave.  A statement may fail, and a handler may be cut off between *)
(* two statements.                                                         *)
(***************************************************************************)
EXTENDS Naturals, FiniteSets

CONSTANTS
  Requests,      \* the goroutines serving logins of this account
  MaxFailCount,  \* security.login.max_fail_count
  LockDuration,  \* security.login.lock_duration, in ticks
  MaxTime,       \* bound on the clock
  MaxFaults      \* bound on failed statements and handlers cut off

ASSUME LoginLockoutAssumption ==
  /\ IsFiniteSet(Requests)
  /\ MaxFailCount \in Nat \ {0}   \* with 0 the whole mechanism is switched off
  /\ LockDuration \in Nat \ {0}
  /\ MaxTime \in Nat
  /\ MaxFaults \in Nat

VARIABLES
  failCount,    \* login_fail_count
  lockedUntil,  \* locked_until; None is NULL
  handler,      \* handler[q]: where the login in q stands, and whether the row
                \* it read carried a lock (then an expired one)
  now,
  \* History, read by no step of the code but bounded by MaxFaults:
  faults,       \* statements that failed and handlers that were cut off
  tries         \* wrong passwords tried since a lock was last set, a right
                \* password last cleared the counter or an administrator did

lockoutVars == <<failCount, lockedUntil, handler, now, faults, tries>>

None == 0

Steps == {"idle", "clear", "reset", "increment", "reload", "lock"}
Idle == [pc |-> "idle", sawLock |-> FALSE]

LoginAt(q, pc) == handler[q].pc = pc
Goto(q, pc) == handler' = [handler EXCEPT ![q].pc = pc]
Finish(q) == handler' = [handler EXCEPT ![q] = Idle]

Locked == lockedUntil # None /\ lockedUntil > now

LockoutInit ==
  /\ failCount = 0
  /\ lockedUntil = None
  /\ handler = [q \in Requests |-> Idle]
  /\ now = 1
  /\ faults = 0
  /\ tries = 0

\* A statement fails; what the handler does then is up to the caller.
Fault == faults < MaxFaults /\ faults' = faults + 1

-----------------------------------------------------------------------------
\* Variant: a success takes back one failure.
Variant_ClearFailures == failCount' = failCount - 1 /\ lockedUntil' = None

\* login_fail_count = 0 and locked_until = NULL, in one UPDATE.
ClearFailures == failCount' = 0 /\ lockedUntil' = None

\* The row is read, the lock checked and the password compared with the hash
\* that was read: right, or wrong.
Login(q) ==
  /\ LoginAt(q, "idle")
  /\ ~Locked
  /\ \/ /\ Goto(q, "clear")
        /\ UNCHANGED tries
     \/ /\ handler' = [handler EXCEPT ![q] =
             [pc |-> "reset", sawLock |-> lockedUntil # None]]
        /\ tries' = tries + 1
  /\ UNCHANGED <<failCount, lockedUntil, now, faults>>

\* Right password: counter and lock are cleared, and the login goes on to its
\* token pair; an error here is only logged.
ClearAfterSuccess(q) ==
  /\ LoginAt(q, "clear")
  /\ \/ /\ ClearFailures
        /\ tries' = 0
        /\ UNCHANGED faults
     \/ /\ Fault
        /\ UNCHANGED <<failCount, lockedUntil, tries>>
  /\ Finish(q)
  /\ UNCHANGED now

-----------------------------------------------------------------------------
(* recordLoginFailure *)

\* Variant: UPDATE ... WHERE id = ?, whatever became of the lock meanwhile.
Variant_ResetExpiredLock(q) ==
  /\ LoginAt(q, "reset")
  /\ \/ handler[q].sawLock /\ ClearFailures
     \/ ~handler[q].sawLock /\ UNCHANGED <<failCount, lockedUntil>>
  /\ Goto(q, "increment")
  /\ UNCHANGED <<now, faults, tries>>

\* Variant: the lock is cleared and the old count is kept.
Variant_KeepCount(q) ==
  /\ LoginAt(q, "reset")
  /\ \/ /\ handler[q].sawLock /\ lockedUntil # None /\ lockedUntil <= now
        /\ lockedUntil' = None
     \/ /\ ~handler[q].sawLock \/ lockedUntil = None \/ lockedUntil > now
        /\ UNCHANGED lockedUntil
  /\ Goto(q, "increment")
  /\ UNCHANGED <<failCount, now, faults, tries>>

\* A handler that read an expired lock clears it and the counter, unless the
\* lock has been replaced meanwhile.
ResetExpiredLock(q) ==
  /\ LoginAt(q, "reset")
  /\ \/ /\ handler[q].sawLock /\ lockedUntil # None /\ lockedUntil <= now
        /\ ClearFailures
        /\ UNCHANGED faults
     \/ /\ ~handler[q].sawLock \/ lockedUntil = None \/ lockedUntil > now
        /\ UNCHANGED <<failCount, lockedUntil, faults>>
     \/ /\ handler[q].sawLock /\ Fault
        /\ UNCHANGED <<failCount, lockedUntil>>
  /\ Goto(q, "increment")
  /\ UNCHANGED <<now, tries>>

\* Variant: one more than the count a request has read, which others may have
\* raised since.
Variant_IncrementFailCount(q) ==
  /\ LoginAt(q, "increment")
  /\ failCount' \in 1..(failCount + 1)
  /\ Goto(q, "reload")
  /\ UNCHANGED <<lockedUntil, now, faults, tries>>

\* login_fail_count + 1 in the database.
IncrementFailCount(q) ==
  /\ LoginAt(q, "increment")
  /\ \/ /\ failCount' = failCount + 1
        /\ Goto(q, "reload")
        /\ UNCHANGED faults
     \/ /\ Fault /\ Finish(q)
        /\ UNCHANGED failCount
  /\ UNCHANGED <<lockedUntil, now, tries>>

\* Variant: the threshold is off by one.
Variant_AtThreshold(n) == n > MaxFailCount

AtThreshold(n) == n >= MaxFailCount

\* The counter is read back and compared with the threshold.
ReloadFailCount(q) ==
  /\ LoginAt(q, "reload")
  /\ \/ ~AtThreshold(failCount) /\ Finish(q) /\ UNCHANGED faults
     \/ AtThreshold(failCount) /\ Goto(q, "lock") /\ UNCHANGED faults
     \/ Fault /\ Finish(q)
  /\ UNCHANGED <<failCount, lockedUntil, now, tries>>

\* Variant: UPDATE ... WHERE id = ?
Variant_MayLock == TRUE

\* UPDATE ... WHERE id = ? AND locked_until IS NULL
MayLock == lockedUntil = None

LockAccount(q) ==
  /\ LoginAt(q, "lock")
  /\ \/ /\ MayLock
        /\ lockedUntil' = now + LockDuration
        /\ tries' = 0
        /\ UNCHANGED faults
     \/ /\ ~MayLock
        /\ UNCHANGED <<lockedUntil, faults, tries>>
     \/ /\ Fault
        /\ UNCHANGED <<lockedUntil, tries>>
  /\ Finish(q)
  /\ UNCHANGED <<failCount, now>>

\* The client goes away or the process stops: the rest is not executed.
AbandonLogin(q) ==
  /\ ~LoginAt(q, "idle")
  /\ Fault
  /\ Finish(q)
  /\ UNCHANGED <<failCount, lockedUntil, now, tries>>

-----------------------------------------------------------------------------
\* An administrator resets the password, which also clears counter and lock.
ResetPassword ==
  /\ ClearFailures
  /\ tries' = 0
  /\ UNCHANGED <<handler, now, faults>>

Tick ==
  /\ now < MaxTime
  /\ now' = now + 1
  /\ UNCHANGED <<failCount, lockedUntil, handler, faults, tries>>

RequestStep(q) ==
  \/ Login(q)
  \/ ClearAfterSuccess(q)
  \/ ResetExpiredLock(q)
  \/ IncrementFailCount(q)
  \/ ReloadFailCount(q)
  \/ LockAccount(q)
  \/ AbandonLogin(q)

LockoutNext ==
  \/ \E q \in Requests : RequestStep(q)
  \/ ResetPassword
  \/ Tick

LockoutSpec == LockoutInit /\ [][LockoutNext]_lockoutVars

-----------------------------------------------------------------------------
LockoutTypeOK ==
  /\ failCount \in Nat
  /\ lockedUntil \in Nat
  /\ handler \in [Requests -> [pc : Steps, sawLock : BOOLEAN]]
  /\ now \in Nat
  /\ faults \in 0..MaxFaults
  /\ tries \in Nat

\* Failures on their way from the increment to the lock.
Deciding == {q \in Requests : LoginAt(q, "reload") \/ LoginAt(q, "lock")}

\* However many logins run at once, the wrong passwords tried before the lock
\* closes are bounded: the threshold, those already past the lock check, and
\* what a failing database let through.  This is what the increment in the
\* database is for (auth.go:441-443), and why an expired lock is cleared only
\* while it is still there (auth.go:434): a failure that was lost from the
\* counter, or a second clearing of it, would be one more password to try.
TriesBounded ==
  tries < MaxFailCount + Cardinality(Requests) + faults

\* Nothing is counted that was not tried since the counter was last cleared, but
\* for the handlers that were on their way then: after a lock has expired the
\* old count does not lock the account at the next failure (auth.go:429-431).
CountedWereTried ==
  lockedUntil = None => failCount <= tries + Cardinality(Requests)

\* When the counter has reached the threshold and nobody is still deciding, the
\* lock has been set; only a fault can have prevented it.
ThresholdLocks ==
  failCount >= MaxFailCount /\ Deciding = {} =>
    lockedUntil # None \/ faults > 0

\* Concurrent failures do not prolong a lock that is in force (auth.go:459).
LockNotExtended ==
  [][Locked => lockedUntil' \in {lockedUntil, None}]_lockoutVars
=============================================================================
