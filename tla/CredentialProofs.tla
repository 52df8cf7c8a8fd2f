---------------------------- MODULE CredentialProofs ----------------------------
(***************************************************************************)
(* Proofs about what guards the password of one account: LoginLockout, for *)
(* any number of concurrent logins, any threshold, lock duration and       *)
(* number of faults; and PasswordHistory, for any passwords, number of     *)
(* concurrent changes and history_count.                                   *)
(***************************************************************************)
EXTENDS LoginLockout, PasswordHistory, FiniteSetTheorems, TLAPS

-----------------------------------------------------------------------------
(* LoginLockout: the inductive invariant *)

\* Logins past the lock check whose failure is not counted yet.
Trying == {q \in Requests : LoginAt(q, "reset") \/ LoginAt(q, "increment")}

\* Of these, the ones that read an expired lock and have not cleared it yet.
Resetting == {q \in Requests : LoginAt(q, "reset") /\ handler[q].sawLock}

\* Without a lock every wrong password is in the counter, on its way there, or
\* lost to a fault; every count from the threshold on has left its handler
\* deciding, or a fault; and what is in the counter or on its way was tried, but
\* for those on their way when it was cleared.  A lock in force lets nobody new
\* past the check.  One that has expired lets handlers past that clear it before
\* they count: these start the counter anew, so until then nobody is further.
Accounted ==
  /\ lockedUntil = None =>
       /\ failCount < MaxFailCount + Cardinality(Deciding) + faults
       /\ tries <= failCount + Cardinality(Trying) + faults
       /\ tries < MaxFailCount + Cardinality(Deciding) + Cardinality(Trying) + faults
       /\ failCount + Cardinality(Trying) <= tries + Cardinality(Requests)
  /\ Locked => tries = 0
  /\ lockedUntil # None /\ ~Locked => tries <= Cardinality(Resetting) + faults

LockoutInv == LockoutTypeOK /\ Accounted

-----------------------------------------------------------------------------
(* Types *)

Handler == [pc : Steps, sawLock : BOOLEAN]

\* The ways to move a handler, as one.
Move(q, h) == handler' = [handler EXCEPT ![q] = h]

LEMMA Moves ==
  ASSUME LockoutTypeOK, NEW q \in Requests
  PROVE  /\ \A pc \in Steps : Goto(q, pc) => Move(q, [pc |-> pc, sawLock |-> handler[q].sawLock])
         /\ \A pc \in Steps : [pc |-> pc, sawLock |-> handler[q].sawLock] \in Handler
         /\ Finish(q) => Move(q, Idle)
         /\ Idle \in Handler
BY DEF LockoutTypeOK, Goto, Finish, Idle, Handler, Steps, Move

LEMMA MoveType ==
  ASSUME LockoutTypeOK, NEW q \in Requests, NEW h \in Handler, Move(q, h)
  PROVE  handler' \in [Requests -> Handler]
BY DEF LockoutTypeOK, Move, Handler

LEMMA GotoType ==
  ASSUME LockoutTypeOK, NEW q \in Requests
  PROVE  /\ \A pc \in Steps : Goto(q, pc) => handler' \in [Requests -> Handler]
         /\ Finish(q) => handler' \in [Requests -> Handler]
BY Moves, MoveType

LEMMA InitTypeOK == LockoutInit => LockoutTypeOK
BY LoginLockoutAssumption DEF LockoutInit, LockoutTypeOK, Idle, Steps, None

LEMMA StepTypeOK ==
  ASSUME LockoutTypeOK, NEW q \in Requests, RequestStep(q)
  PROVE  LockoutTypeOK'
<1> SUFFICES /\ handler' \in [Requests -> Handler]
             /\ failCount' \in Nat /\ lockedUntil' \in Nat
             /\ now' \in Nat /\ faults' \in 0..MaxFaults /\ tries' \in Nat
  BY DEF LockoutTypeOK, Handler
<1>0. /\ failCount \in Nat /\ lockedUntil \in Nat /\ now \in Nat /\ faults \in 0..MaxFaults
      /\ tries \in Nat
  BY DEF LockoutTypeOK
<1> USE DEF Fault, Steps
<1>1. CASE Login(q)
  <2>1. CASE handler' = [handler EXCEPT ![q] = [pc |-> "reset", sawLock |-> lockedUntil # None]]
    <3>1. [pc |-> "reset", sawLock |-> lockedUntil # None] \in Handler
      <4>1. (lockedUntil # None) \in BOOLEAN
        BY Zenon
      <4> QED  BY <4>1 DEF Handler
    <3>2. handler' \in [Requests -> Handler]
      BY <2>1, <3>1, MoveType DEF Move
    <3>3. UNCHANGED <<failCount, lockedUntil, now, faults>> /\ tries' \in {tries, tries + 1}
      BY <1>1 DEF Login
    <3> QED  BY <1>0, <3>2, <3>3
  <2> QED  BY <1>0, <1>1, <2>1, GotoType DEF Login
<1>2. CASE ClearAfterSuccess(q)
  BY <1>0, <1>2, GotoType, LoginLockoutAssumption DEF ClearAfterSuccess, ClearFailures, None
<1>3. CASE ResetExpiredLock(q)
  BY <1>0, <1>3, GotoType, LoginLockoutAssumption DEF ResetExpiredLock, ClearFailures, None
<1>4. CASE IncrementFailCount(q)
  BY <1>0, <1>4, GotoType, LoginLockoutAssumption DEF IncrementFailCount
<1>5. CASE ReloadFailCount(q)
  BY <1>0, <1>5, GotoType, LoginLockoutAssumption DEF ReloadFailCount
<1>6. CASE LockAccount(q)
  BY <1>0, <1>6, GotoType, LoginLockoutAssumption DEF LockAccount
<1>7. CASE AbandonLogin(q)
  BY <1>0, <1>7, GotoType, LoginLockoutAssumption DEF AbandonLogin
<1> QED
  BY <1>1, <1>2, <1>3, <1>4, <1>5, <1>6, <1>7 DEF RequestStep

LEMMA TypeStep == LockoutTypeOK /\ [LockoutNext]_lockoutVars => LockoutTypeOK'
<1> SUFFICES ASSUME LockoutTypeOK, [LockoutNext]_lockoutVars PROVE LockoutTypeOK'
  OBVIOUS
<1>1. CASE ResetPassword
  BY <1>1 DEF ResetPassword, ClearFailures, None, LockoutTypeOK
<1>2. CASE Tick
  BY <1>2 DEF Tick, LockoutTypeOK
<1>3. CASE UNCHANGED lockoutVars
  BY <1>3 DEF lockoutVars, LockoutTypeOK
<1> QED  BY <1>1, <1>2, <1>3, StepTypeOK DEF LockoutNext

\* The counters, the lock and the state of every handler have their types.
THEOREM LockoutTypeCorrect == LockoutSpec => []LockoutTypeOK
BY InitTypeOK, TypeStep, PTL DEF LockoutSpec

-----------------------------------------------------------------------------
(* Counting handlers *)

LEMMA Recount ==
  ASSUME NEW S \in SUBSET Requests, NEW q \in Requests
  PROVE  /\ Cardinality(S) \in Nat
         /\ Cardinality(S) <= Cardinality(Requests)
         /\ Cardinality(Requests) \in Nat
         /\ Cardinality(S \cup {q}) = IF q \in S THEN Cardinality(S) ELSE Cardinality(S) + 1
         /\ Cardinality(S \ {q}) = IF q \in S THEN Cardinality(S) - 1 ELSE Cardinality(S)
<1>1. IsFiniteSet(Requests) /\ IsFiniteSet(S)
  BY LoginLockoutAssumption, FS_Subset
<1> QED
  BY <1>1, FS_CardinalityType, FS_Subset, FS_AddElement, FS_RemoveElement

\* Nobody is trying and deciding at once.
LEMMA TryingOrDeciding ==
  Cardinality(Trying) + Cardinality(Deciding) <= Cardinality(Requests)
<1>1. /\ IsFiniteSet(Requests) /\ Trying \in SUBSET Requests /\ Deciding \in SUBSET Requests
      /\ Trying \cap Deciding = {}
  BY LoginLockoutAssumption DEF Trying, Deciding, LoginAt
<1>2. IsFiniteSet(Trying) /\ IsFiniteSet(Deciding)
  BY <1>1, FS_Subset
<1>3. Cardinality(Trying \cup Deciding) = Cardinality(Trying) + Cardinality(Deciding)
  <2>1. Cardinality(Trying \cap Deciding) = 0
    BY <1>1, FS_EmptySet
  <2>2. Cardinality(Trying) \in Nat /\ Cardinality(Deciding) \in Nat
    BY <1>2, FS_CardinalityType
  <2>3. Cardinality(Trying \cup Deciding)
          = Cardinality(Trying) + Cardinality(Deciding) - Cardinality(Trying \cap Deciding)
    BY <1>2, FS_Union, Zenon
  <2> QED  BY <2>1, <2>2, <2>3
<1>4. Cardinality(Trying \cup Deciding) <= Cardinality(Requests)
  BY <1>1, FS_Subset
<1> QED  BY <1>3, <1>4

\* What the sets are after q has moved to h.
LEMMA Regroup ==
  ASSUME LockoutTypeOK, NEW q \in Requests, NEW h \in Handler,
         Move(q, h)
  PROVE  /\ Deciding' = IF h.pc \in {"reload", "lock"} THEN Deciding \cup {q} ELSE Deciding \ {q}
         /\ Trying' = IF h.pc \in {"reset", "increment"} THEN Trying \cup {q} ELSE Trying \ {q}
         /\ Resetting' = IF h.pc = "reset" /\ h.sawLock
                           THEN Resetting \cup {q} ELSE Resetting \ {q}
<1>1. handler'[q] = h /\ \A r \in Requests \ {q} : handler'[r] = handler[r]
  BY DEF LockoutTypeOK, Move
<1>2. h.pc \in Steps /\ h.sawLock \in BOOLEAN
  BY DEF Handler
<1> QED  BY <1>1, <1>2 DEF Deciding, Trying, Resetting, LoginAt

-----------------------------------------------------------------------------
(* Every failure is accounted for *)

LEMMA InitAccounted == LockoutInit => Accounted
<1> SUFFICES ASSUME LockoutInit PROVE Accounted
  OBVIOUS
<1>1. /\ Cardinality(Deciding) \in Nat /\ Cardinality(Trying) \in Nat
      /\ Cardinality(Requests) \in Nat /\ Cardinality(Trying) <= Cardinality(Requests)
  BY LoginLockoutAssumption, FS_Subset, FS_CardinalityType DEF Deciding, Trying
<1> QED  BY <1>1, LoginLockoutAssumption DEF LockoutInit, Accounted, Locked, None

\* The counts are natural numbers, and related.
Counts ==
  /\ Cardinality(Requests) \in Nat
  /\ Cardinality(Deciding) \in Nat
  /\ Cardinality(Trying) \in Nat
  /\ Cardinality(Resetting) \in Nat
  /\ Cardinality(Resetting) <= Cardinality(Trying)
  /\ Cardinality(Trying) + Cardinality(Deciding) <= Cardinality(Requests)

LEMMA CountsHold == Counts
<1>1. /\ IsFiniteSet(Requests) /\ Trying \in SUBSET Requests
      /\ Deciding \in SUBSET Requests /\ Resetting \in SUBSET Trying
  BY LoginLockoutAssumption DEF Trying, Deciding, Resetting, LoginAt
<1>2. IsFiniteSet(Trying) /\ IsFiniteSet(Deciding) /\ IsFiniteSet(Resetting)
  BY <1>1, FS_Subset
<1>3. Cardinality(Resetting) <= Cardinality(Trying)
  BY <1>1, <1>2, FS_Subset
<1> QED  BY <1>1, <1>2, <1>3, FS_CardinalityType, TryingOrDeciding DEF Counts

\* How the counts change when q moves to h.
LEMMA Recounted ==
  ASSUME LockoutTypeOK, NEW q \in Requests, NEW h \in Handler, Move(q, h)
  PROVE  /\ Cardinality(Deciding') =
              Cardinality(Deciding) - (IF q \in Deciding THEN 1 ELSE 0)
              + (IF h.pc \in {"reload", "lock"} THEN 1 ELSE 0)
         /\ Cardinality(Trying') =
              Cardinality(Trying) - (IF q \in Trying THEN 1 ELSE 0)
              + (IF h.pc \in {"reset", "increment"} THEN 1 ELSE 0)
         /\ Cardinality(Resetting') =
              Cardinality(Resetting) - (IF q \in Resetting THEN 1 ELSE 0)
              + (IF h.pc = "reset" /\ h.sawLock THEN 1 ELSE 0)
<1>1. Deciding \in SUBSET Requests /\ Trying \in SUBSET Requests /\ Resetting \in SUBSET Requests
  BY DEF Deciding, Trying, Resetting
<1>2. \A S \in SUBSET Requests :
        /\ Cardinality(S) \in Nat
        /\ Cardinality(S \cup {q}) = Cardinality(S) - (IF q \in S THEN 1 ELSE 0) + 1
        /\ Cardinality(S \ {q}) = Cardinality(S) - (IF q \in S THEN 1 ELSE 0) + 0
  <2> SUFFICES ASSUME NEW S \in SUBSET Requests
               PROVE  /\ Cardinality(S) \in Nat
                      /\ Cardinality(S \cup {q}) = Cardinality(S) - (IF q \in S THEN 1 ELSE 0) + 1
                      /\ Cardinality(S \ {q}) = Cardinality(S) - (IF q \in S THEN 1 ELSE 0) + 0
    OBVIOUS
  <2>1. /\ Cardinality(S) \in Nat
        /\ Cardinality(S \cup {q}) = IF q \in S THEN Cardinality(S) ELSE Cardinality(S) + 1
        /\ Cardinality(S \ {q}) = IF q \in S THEN Cardinality(S) - 1 ELSE Cardinality(S)
    BY Recount, Zenon
  <2> QED  BY <2>1
<1>3. /\ Deciding' = IF h.pc \in {"reload", "lock"} THEN Deciding \cup {q} ELSE Deciding \ {q}
      /\ Trying' = IF h.pc \in {"reset", "increment"} THEN Trying \cup {q} ELSE Trying \ {q}
      /\ Resetting' = IF h.pc = "reset" /\ h.sawLock
                        THEN Resetting \cup {q} ELSE Resetting \ {q}
  BY Regroup
<1> HIDE DEF Deciding, Trying, Resetting
<1>4. Cardinality(Deciding') =
        Cardinality(Deciding) - (IF q \in Deciding THEN 1 ELSE 0)
        + (IF h.pc \in {"reload", "lock"} THEN 1 ELSE 0)
  BY <1>1, <1>2, <1>3
<1>5. Cardinality(Trying') =
        Cardinality(Trying) - (IF q \in Trying THEN 1 ELSE 0)
        + (IF h.pc \in {"reset", "increment"} THEN 1 ELSE 0)
  BY <1>1, <1>2, <1>3
<1>6. Cardinality(Resetting') =
        Cardinality(Resetting) - (IF q \in Resetting THEN 1 ELSE 0)
        + (IF h.pc = "reset" /\ h.sawLock THEN 1 ELSE 0)
  BY <1>1, <1>2, <1>3
<1> QED  BY <1>4, <1>5, <1>6

\* What the counts allow in each state of the lock, from the lock, the counter,
\* the passwords tried, the handlers deciding, trying and resetting, and the
\* faults and all requests.
Balanced(locked, expired, fails, tried, d, t, r, u, n) ==
  /\ ~locked /\ ~expired =>
       /\ fails < MaxFailCount + d + u
       /\ tried <= fails + t + u
       /\ tried < MaxFailCount + d + t + u
       /\ fails + t <= tried + n
  /\ locked => tried = 0
  /\ expired => tried <= r + u

\* A fault makes up for the handler it takes from the counts.
LEMMA FaultBalanced ==
  ASSUME NEW locked \in BOOLEAN, NEW expired \in BOOLEAN,
         NEW fails \in Nat, NEW tried \in Nat, NEW u \in Nat,
         NEW d \in Nat, NEW t \in Nat, NEW r \in Nat,
         NEW d2 \in Nat, NEW t2 \in Nat, NEW r2 \in Nat, NEW n \in Nat,
         Balanced(locked, expired, fails, tried, d, t, r, u, n),
         d2 >= d - 1, t2 >= t - 1, t2 <= t, d2 + t2 >= d + t - 1, r2 >= r - 1
  PROVE  Balanced(locked, expired, fails, tried, d2, t2, r2, u + 1, n)
BY LoginLockoutAssumption DEF Balanced

\* A handler that ends leaves one of two groups at most.
LEMMA OneLeaves ==
  ASSUME NEW d \in Nat, NEW t \in Nat, NEW r \in Nat,
         NEW d1 \in Nat, NEW t1 \in Nat, NEW r1 \in Nat,
         d1 \in {d, d - 1}, t1 \in {t, t - 1}, r1 \in {r, r - 1},
         d1 = d \/ t1 = t
  PROVE  d1 >= d - 1 /\ t1 >= t - 1 /\ t1 <= t /\ d1 + t1 >= d + t - 1 /\ r1 >= r - 1
OBVIOUS

\* One step of a login keeps the accounts.
LEMMA StepAccounted ==
  ASSUME LockoutInv, NEW q \in Requests, RequestStep(q)
  PROVE  Accounted'
<1> DEFINE d == Cardinality(Deciding)
           t == Cardinality(Trying)
           r == Cardinality(Resetting)
           n == Cardinality(Requests)
           expired == lockedUntil # None /\ ~Locked
<1>0. /\ failCount \in Nat /\ lockedUntil \in Nat /\ now \in Nat /\ faults \in Nat
      /\ tries \in Nat
      /\ MaxFailCount \in Nat /\ MaxFailCount > 0
      /\ LockDuration \in Nat /\ LockDuration > 0
  BY LoginLockoutAssumption DEF LockoutInv, LockoutTypeOK
<1>T. LockoutTypeOK
  BY DEF LockoutInv
<1>1. /\ d \in Nat /\ t \in Nat /\ r \in Nat /\ n \in Nat /\ r <= t /\ t <= n
      /\ d' \in Nat /\ t' \in Nat /\ r' \in Nat /\ r' <= t' /\ t' <= n
  <2>1. Counts
    BY CountsHold
  <2>2. Counts'
    BY CountsHold, PTL
  <2> QED  BY <2>1, <2>2 DEF Counts
<1>n. now' = now
  BY DEF RequestStep, Login, ClearAfterSuccess, ResetExpiredLock, IncrementFailCount,
         ReloadFailCount, LockAccount, AbandonLogin
<1>l. /\ Locked <=> (lockedUntil # None /\ lockedUntil > now)
      /\ Locked' <=> (lockedUntil' # None /\ lockedUntil' > now)
      /\ Locked \in BOOLEAN /\ expired \in BOOLEAN
  BY <1>n DEF Locked
<1>2. /\ lockedUntil = None =>
           /\ failCount < MaxFailCount + d + faults
           /\ tries <= failCount + t + faults
           /\ tries < MaxFailCount + d + t + faults
           /\ failCount + t <= tries + n
      /\ Locked => tries = 0
      /\ expired => tries <= r + faults
  BY DEF LockoutInv, Accounted
<1>3. SUFFICES /\ lockedUntil' = None =>
                    /\ failCount' < MaxFailCount + d' + faults'
                    /\ tries' <= failCount' + t' + faults'
                    /\ tries' < MaxFailCount + d' + t' + faults'
                    /\ failCount' + t' <= tries' + n
               /\ Locked' => tries' = 0
               /\ lockedUntil' # None /\ ~Locked' => tries' <= r' + faults'
  BY DEF Accounted
<1>4. ASSUME NEW h \in Handler, Move(q, h)
      PROVE  /\ d' = d - (IF LoginAt(q, "reload") \/ LoginAt(q, "lock") THEN 1 ELSE 0)
                     + (IF h.pc \in {"reload", "lock"} THEN 1 ELSE 0)
             /\ t' = t - (IF LoginAt(q, "reset") \/ LoginAt(q, "increment") THEN 1 ELSE 0)
                     + (IF h.pc \in {"reset", "increment"} THEN 1 ELSE 0)
             /\ r' = r - (IF LoginAt(q, "reset") /\ handler[q].sawLock THEN 1 ELSE 0)
                     + (IF h.pc = "reset" /\ h.sawLock THEN 1 ELSE 0)
  <2>1. /\ q \in Deciding <=> LoginAt(q, "reload") \/ LoginAt(q, "lock")
        /\ q \in Trying <=> LoginAt(q, "reset") \/ LoginAt(q, "increment")
        /\ q \in Resetting <=> LoginAt(q, "reset") /\ handler[q].sawLock
    BY DEF Deciding, Trying, Resetting, LoginAt
  <2> QED  BY <1>T, <1>4, <2>1, Recounted
<1> HIDE DEF d, t, r, n
<1>5. ASSUME NEW pc \in Steps, Goto(q, pc)
      PROVE  /\ d' = d - (IF LoginAt(q, "reload") \/ LoginAt(q, "lock") THEN 1 ELSE 0)
                     + (IF pc \in {"reload", "lock"} THEN 1 ELSE 0)
             /\ t' = t - (IF LoginAt(q, "reset") \/ LoginAt(q, "increment") THEN 1 ELSE 0)
                     + (IF pc \in {"reset", "increment"} THEN 1 ELSE 0)
             /\ r' = r - (IF LoginAt(q, "reset") /\ handler[q].sawLock THEN 1 ELSE 0)
                     + (IF pc = "reset" /\ handler[q].sawLock THEN 1 ELSE 0)
  <2> DEFINE h == [pc |-> pc, sawLock |-> handler[q].sawLock]
  <2>1. h \in Handler /\ Move(q, h)
    BY <1>T, <1>5, Moves
  <2>2. h.pc = pc /\ h.sawLock = handler[q].sawLock
    OBVIOUS
  <2> HIDE DEF h
  <2> QED  BY <1>4, <2>1, <2>2
<1>6. ASSUME Finish(q)
      PROVE  /\ d' = d - (IF LoginAt(q, "reload") \/ LoginAt(q, "lock") THEN 1 ELSE 0)
             /\ t' = t - (IF LoginAt(q, "reset") \/ LoginAt(q, "increment") THEN 1 ELSE 0)
             /\ r' = r - (IF LoginAt(q, "reset") /\ handler[q].sawLock THEN 1 ELSE 0)
  <2>1. Idle \in Handler /\ Move(q, Idle) /\ Idle.pc = "idle"
    BY <1>T, <1>6, Moves DEF Idle
  <2> QED  BY <1>1, <1>4, <2>1
<1>7. ASSUME Finish(q)
      PROVE  d' >= d - 1 /\ t' >= t - 1 /\ t' <= t /\ d' + t' >= d + t - 1 /\ r' >= r - 1
  <2> DEFINE a == LoginAt(q, "reload") \/ LoginAt(q, "lock")
             b == LoginAt(q, "reset") \/ LoginAt(q, "increment")
             c == LoginAt(q, "reset") /\ handler[q].sawLock
  <2>1. ~(a /\ b)
    BY DEF LoginAt
  <2>2. /\ d' = d - (IF a THEN 1 ELSE 0)
        /\ t' = t - (IF b THEN 1 ELSE 0)
        /\ r' = r - (IF c THEN 1 ELSE 0)
    BY <1>6, <1>7
  <2> HIDE DEF a, b, c
  <2>3. /\ d' \in {d, d - 1} /\ t' \in {t, t - 1} /\ r' \in {r, r - 1}
        /\ d' = d \/ t' = t
    BY <1>1, <2>1, <2>2
  <2> QED  BY <1>1, <2>3, OneLeaves
<1>8. ASSUME UNCHANGED <<failCount, lockedUntil, tries>>, Fault,
             d' >= d - 1, t' >= t - 1, t' <= t, d' + t' >= d + t - 1, r' >= r - 1
      PROVE  /\ lockedUntil' = None =>
                  /\ failCount' < MaxFailCount + d' + faults'
                  /\ tries' <= failCount' + t' + faults'
                  /\ tries' < MaxFailCount + d' + t' + faults'
                  /\ failCount' + t' <= tries' + n
             /\ Locked' => tries' = 0
             /\ lockedUntil' # None /\ ~Locked' => tries' <= r' + faults'
  <2>1. failCount' = failCount /\ lockedUntil' = lockedUntil /\ tries' = tries
        /\ faults' = faults + 1 /\ (Locked' <=> Locked)
    BY <1>8, <1>l DEF Fault
  <2>2. Balanced(Locked, expired, failCount, tries, d, t, r, faults, n)
    BY <1>2 DEF Balanced, Locked
  <2>3. Balanced(Locked, expired, failCount, tries, d', t', r', faults + 1, n)
    BY <1>0, <1>1, <1>l, <1>8, <2>2, FaultBalanced
  <2> QED  BY <2>1, <2>3, <1>l DEF Balanced
<1>a. CASE Login(q)
  <2>1. LoginAt(q, "idle") /\ ~Locked /\ failCount' = failCount /\ lockedUntil' = lockedUntil
        /\ ~Locked' /\ faults' = faults
    BY <1>a DEF Login, Locked
  <2>2. CASE Goto(q, "clear") /\ UNCHANGED tries
    <3>1. d' = d /\ t' = t /\ r' = r
      BY <1>1, <1>5, <2>1, <2>2 DEF LoginAt, Steps
    <3> QED  BY <1>2, <2>1, <2>2, <3>1
  <2>3. CASE /\ handler' = [handler EXCEPT ![q] = [pc |-> "reset", sawLock |-> lockedUntil # None]]
             /\ tries' = tries + 1
    <3> DEFINE h == [pc |-> "reset", sawLock |-> lockedUntil # None]
    <3>1. h \in Handler
      <4>1. (lockedUntil # None) \in BOOLEAN
        BY Zenon
      <4> QED  BY <4>1 DEF Handler, Steps
    <3>2. Move(q, h) /\ h.pc = "reset" /\ (h.sawLock <=> lockedUntil # None)
      BY <2>3 DEF Move
    <3> HIDE DEF h
    <3>3. d' = d /\ t' = t + 1 /\ (lockedUntil # None => r' = r + 1)
      BY <1>1, <1>4, <2>1, <3>1, <3>2 DEF LoginAt
    <3>4. CASE lockedUntil = None
      BY <1>0, <1>1, <1>2, <2>1, <2>3, <3>3, <3>4
    <3>5. CASE expired
      BY <1>0, <1>1, <1>2, <2>1, <2>3, <3>3, <3>5
    <3> QED  BY <2>1, <3>4, <3>5
  <2> QED  BY <1>a, <2>2, <2>3 DEF Login
<1>b. CASE ClearAfterSuccess(q)
  <2>1. d' = d /\ t' = t /\ r' = r
    BY <1>b, <1>1, <1>6 DEF ClearAfterSuccess, LoginAt
  <2>2. CASE ClearFailures /\ tries' = 0 /\ UNCHANGED faults
    BY <1>0, <1>1, <2>1, <2>2 DEF ClearFailures, Locked
  <2>3. CASE Fault /\ UNCHANGED <<failCount, lockedUntil, tries>>
    BY <1>1, <1>8, <2>1, <2>3
  <2> QED  BY <1>b, <2>2, <2>3 DEF ClearAfterSuccess
<1>c. CASE ResetExpiredLock(q)
  <2>1. /\ LoginAt(q, "reset") /\ tries' = tries /\ d' = d /\ t' = t
        /\ r' = r - (IF handler[q].sawLock THEN 1 ELSE 0)
    BY <1>c, <1>1, <1>5 DEF ResetExpiredLock, LoginAt, Steps
  <2>2. CASE lockedUntil # None /\ lockedUntil <= now /\ ClearFailures /\ UNCHANGED faults
    <3>1. expired /\ failCount' = 0 /\ lockedUntil' = None /\ ~Locked' /\ faults' = faults
      BY <1>0, <1>l, <2>2 DEF ClearFailures
    <3> QED  BY <1>0, <1>1, <1>2, <2>1, <3>1
  <2>3. CASE /\ ~handler[q].sawLock \/ lockedUntil = None \/ lockedUntil > now
             /\ UNCHANGED <<failCount, lockedUntil, faults>>
    <3>1. failCount' = failCount /\ lockedUntil' = lockedUntil /\ faults' = faults
          /\ (Locked' <=> Locked) /\ (expired => r' = r)
      BY <1>1, <1>l, <2>1, <2>3
    <3> QED  BY <1>2, <2>1, <3>1
  <2>4. CASE Fault /\ UNCHANGED <<failCount, lockedUntil>>
    BY <1>1, <1>8, <2>1, <2>4
  <2> QED  BY <1>c, <2>2, <2>3, <2>4 DEF ResetExpiredLock
<1>d. CASE IncrementFailCount(q)
  <2>0. LoginAt(q, "increment") /\ lockedUntil' = lockedUntil /\ (Locked' <=> Locked)
        /\ tries' = tries
    BY <1>d, <1>l DEF IncrementFailCount
  <2>1. CASE Goto(q, "reload") /\ failCount' = failCount + 1 /\ faults' = faults
    <3>1. d' = d + 1 /\ t' = t - 1 /\ r' = r
      BY <1>1, <1>5, <2>0, <2>1 DEF LoginAt, Steps
    <3> QED  BY <1>0, <1>1, <1>2, <2>0, <2>1, <3>1
  <2>2. CASE Fault /\ Finish(q) /\ failCount' = failCount
    BY <1>7, <1>8, <2>0, <2>2
  <2> QED  BY <1>d, <2>1, <2>2 DEF IncrementFailCount
<1>e. CASE ReloadFailCount(q)
  <2>0. LoginAt(q, "reload") /\ UNCHANGED <<failCount, lockedUntil, tries>> /\ (Locked' <=> Locked)
    BY <1>e, <1>l DEF ReloadFailCount
  <2>1. CASE Goto(q, "lock") /\ faults' = faults
    <3>1. d' = d /\ t' = t /\ r' = r
      BY <1>1, <1>5, <2>0, <2>1 DEF LoginAt, Steps
    <3> QED  BY <1>2, <2>0, <2>1, <3>1
  <2>2. CASE ~AtThreshold(failCount) /\ Finish(q) /\ faults' = faults
    <3>1. d' = d - 1 /\ t' = t /\ r' = r
      BY <1>1, <1>6, <2>0, <2>2 DEF LoginAt
    <3>2. failCount < MaxFailCount
      BY <1>0, <2>2 DEF AtThreshold
    <3> QED  BY <1>0, <1>1, <1>2, <2>0, <2>2, <3>1, <3>2
  <2>3. CASE Fault /\ Finish(q)
    BY <1>7, <1>8, <2>0, <2>3
  <2> QED  BY <1>e, <2>1, <2>2, <2>3 DEF ReloadFailCount
<1>f. CASE LockAccount(q)
  <2>1. LoginAt(q, "lock") /\ Finish(q) /\ UNCHANGED failCount
    BY <1>f DEF LockAccount
  <2>2. d' = d - 1 /\ t' = t /\ r' = r
    BY <1>1, <1>6, <2>1 DEF LoginAt
  <2>3. CASE MayLock /\ lockedUntil' = now + LockDuration /\ tries' = 0 /\ faults' = faults
    <3>1. lockedUntil' # None /\ Locked'
      BY <1>0, <1>l, <2>3 DEF None
    <3> QED  BY <2>3, <3>1
  <2>4. CASE ~MayLock /\ UNCHANGED <<lockedUntil, faults, tries>>
    <3>1. lockedUntil # None /\ lockedUntil' = lockedUntil /\ (Locked' <=> Locked)
      BY <1>l, <2>4 DEF MayLock
    <3> QED  BY <1>2, <2>2, <2>4, <3>1
  <2>5. CASE Fault /\ UNCHANGED <<lockedUntil, tries>>
    BY <1>7, <1>8, <2>1, <2>5
  <2> QED  BY <1>f, <2>3, <2>4, <2>5 DEF LockAccount
<1>g. CASE AbandonLogin(q)
  <2>1. Finish(q) /\ Fault /\ UNCHANGED <<failCount, lockedUntil, tries>>
    BY <1>g DEF AbandonLogin
  <2> QED  BY <1>7, <1>8, <2>1
<1> QED
  BY <1>a, <1>b, <1>c, <1>d, <1>e, <1>f, <1>g DEF RequestStep

LEMMA InvStep == LockoutInv /\ [LockoutNext]_lockoutVars => LockoutInv'
<1> SUFFICES ASSUME LockoutInv, [LockoutNext]_lockoutVars PROVE LockoutInv'
  OBVIOUS
<1>0. LockoutTypeOK' /\ Counts
  BY TypeStep, CountsHold DEF LockoutInv
<1>1. ASSUME NEW q \in Requests, RequestStep(q) PROVE Accounted'
  BY <1>1, StepAccounted
<1>2. ASSUME handler' = handler
      PROVE  Deciding' = Deciding /\ Trying' = Trying /\ Resetting' = Resetting
  BY <1>2 DEF Deciding, Trying, Resetting, LoginAt
<1>t. failCount \in Nat /\ faults \in Nat /\ tries \in Nat /\ MaxFailCount \in Nat \ {0}
  BY LoginLockoutAssumption DEF LockoutInv, LockoutTypeOK
<1>3. CASE ResetPassword
  <2>1. /\ Deciding' = Deciding /\ Trying' = Trying /\ failCount' = 0 /\ lockedUntil' = None
        /\ faults' = faults /\ tries' = 0 /\ ~Locked'
    BY <1>2, <1>3 DEF ResetPassword, ClearFailures, Locked
  <2>2. /\ 0 < MaxFailCount + Cardinality(Deciding) + faults
        /\ 0 <= 0 + Cardinality(Trying) + faults
        /\ 0 < MaxFailCount + Cardinality(Deciding) + Cardinality(Trying) + faults
        /\ 0 + Cardinality(Trying) <= 0 + Cardinality(Requests)
    BY <1>0, <1>t DEF Counts
  <2> QED  BY <1>0, <2>1, <2>2 DEF LockoutInv, Accounted
<1>4. CASE Tick
  <2>1. /\ Deciding' = Deciding /\ Trying' = Trying /\ Resetting' = Resetting
        /\ UNCHANGED <<failCount, lockedUntil, faults, tries>> /\ (Locked' => Locked)
    BY <1>2, <1>4 DEF Tick, Locked, LockoutInv, LockoutTypeOK
  <2> QED  BY <1>0, <1>t, <2>1 DEF Accounted, Counts, LockoutInv
<1>5. CASE UNCHANGED lockoutVars
  <2>1. Deciding' = Deciding /\ Trying' = Trying /\ Resetting' = Resetting
        /\ UNCHANGED <<failCount, lockedUntil, faults, now, tries>>
    BY <1>2, <1>5 DEF lockoutVars
  <2> QED  BY <2>1, <1>0 DEF LockoutInv, Accounted, Locked
<1> QED  BY <1>0, <1>1, <1>3, <1>4, <1>5 DEF LockoutNext, LockoutInv

\* The strengthening the invariants below follow from.
THEOREM LockoutInvariant == LockoutSpec => []LockoutInv
<1>1. LockoutInit => LockoutInv
  BY InitTypeOK, InitAccounted DEF LockoutInv
<1> QED  BY <1>1, InvStep, PTL DEF LockoutSpec

\* However many wrong passwords are tried at once, no more are tried before the
\* lock closes than the threshold, the logins that run at once and the faults
\* allow: no failure is lost from the counter (auth.go:441-443).
THEOREM GuessesAreBounded == LockoutSpec => []TriesBounded
<1>1. LockoutInv => TriesBounded
  <2> SUFFICES ASSUME LockoutInv PROVE TriesBounded
    OBVIOUS
  <2>1. Counts
    BY CountsHold
  <2>2. tries \in Nat /\ faults \in Nat /\ MaxFailCount \in Nat /\ MaxFailCount > 0
    BY LoginLockoutAssumption DEF LockoutInv, LockoutTypeOK
  <2>3. CASE lockedUntil = None
    BY <2>1, <2>2, <2>3 DEF LockoutInv, Accounted, Counts, TriesBounded
  <2>4. CASE Locked
    BY <2>1, <2>2, <2>4 DEF LockoutInv, Accounted, Counts, TriesBounded
  <2>5. CASE lockedUntil # None /\ ~Locked
    BY <2>1, <2>2, <2>5 DEF LockoutInv, Accounted, Counts, TriesBounded
  <2> QED  BY <2>3, <2>4, <2>5
<1> QED  BY <1>1, LockoutInvariant, PTL

\* What a handler finds in the counter after an expired lock was cleared are
\* failures since, or of handlers on their way then, and not the old count.
THEOREM CountStartsAnew == LockoutSpec => []CountedWereTried
<1>1. LockoutInv => CountedWereTried
  <2> SUFFICES ASSUME LockoutInv, lockedUntil = None
               PROVE  failCount <= tries + Cardinality(Requests)
    BY DEF CountedWereTried
  <2>1. Counts
    BY CountsHold
  <2>2. failCount \in Nat /\ tries \in Nat
    BY DEF LockoutInv, LockoutTypeOK
  <2> QED  BY <2>1, <2>2 DEF LockoutInv, Accounted, Counts
<1> QED  BY <1>1, LockoutInvariant, PTL

\* A counter at the threshold that nobody is deciding about has led to a lock,
\* unless a statement failed.
THEOREM ThresholdLeadsToLock == LockoutSpec => []ThresholdLocks
<1>1. LockoutInv => ThresholdLocks
  <2> SUFFICES ASSUME LockoutInv, failCount >= MaxFailCount, Deciding = {}, lockedUntil = None
               PROVE  faults > 0
    BY DEF ThresholdLocks
  <2>1. Cardinality(Deciding) = 0
    BY FS_EmptySet
  <2>2. failCount \in Nat /\ faults \in Nat /\ MaxFailCount \in Nat
    BY LoginLockoutAssumption DEF LockoutInv, LockoutTypeOK
  <2> QED  BY <2>1, <2>2 DEF LockoutInv, Accounted
<1> QED  BY <1>1, LockoutInvariant, PTL

\* No step of any login moves the end of a lock that is in force.
THEOREM LockStands == LockoutSpec => LockNotExtended
<1>1. LockoutTypeOK /\ [LockoutNext]_lockoutVars => [Locked => lockedUntil' \in {lockedUntil, None}]_lockoutVars
  <2> SUFFICES ASSUME Locked, LockoutNext PROVE lockedUntil' \in {lockedUntil, None}
    BY DEF lockoutVars
  <2>1. ASSUME NEW q \in Requests, RequestStep(q) PROVE lockedUntil' \in {lockedUntil, None}
    BY <2>1 DEF RequestStep, Login, ClearAfterSuccess, ResetExpiredLock, IncrementFailCount,
                ReloadFailCount, LockAccount, AbandonLogin, ClearFailures, MayLock, Locked
  <2>2. CASE ResetPassword \/ Tick
    BY <2>2 DEF ResetPassword, Tick, ClearFailures
  <2> QED  BY <2>1, <2>2 DEF LockoutNext
<1> QED  BY <1>1, LockoutTypeCorrect, PTL DEF LockoutSpec, LockNotExtended

-----------------------------------------------------------------------------
(* PasswordHistory *)

\* Kept returns the end of its argument, HistoryCount long at most.
LEMMA KeptIsTail ==
  ASSUME NEW h \in Seq(Passwords)
  PROVE  /\ Kept(h) \in Seq(Passwords)
         /\ Len(Kept(h)) <= HistoryCount
         /\ \A d \in 1..HistoryCount :
              d <= Len(h) => /\ d <= Len(Kept(h))
                             /\ Kept(h)[Len(Kept(h)) + 1 - d] = h[Len(h) + 1 - d]
  <1> USE PasswordHistoryAssumption
  <1>1. CASE Len(h) <= HistoryCount
    BY <1>1 DEF Kept
  <1>2. CASE Len(h) > HistoryCount
    <2>1. /\ Kept(h) = SubSeq(h, Len(h) - HistoryCount + 1, Len(h))
          /\ Len(h) - HistoryCount + 1 \in 1..Len(h) + 1
      BY <1>2 DEF Kept
    <2>2. Kept(h) \in Seq(Passwords) /\ Len(Kept(h)) = HistoryCount
      BY <1>2, <2>1
    <2>3. \A i \in 1..HistoryCount : Kept(h)[i] = h[Len(h) - HistoryCount + i]
      BY <1>2, <2>1
    <2> QED
      BY <1>2, <2>2, <2>3
  <1> QED
    BY <1>1, <1>2

-----------------------------------------------------------------------------
(* The inductive invariant *)

\* The password of the row is the last one, and a request holds two passwords.
Readings ==
  /\ password = past[Len(past)]
  /\ \A c \in Changes : ~At(c, "idle") =>
       change[c].old \in Passwords /\ change[c].new \in Passwords

\* The history ends with the passwords before the current one, as far back as
\* the last overlapping change.
Remembered ==
  Present => \A d \in 1..HistoryCount : Len(past) - d >= since =>
    d <= Len(history) /\ history[Len(history) + 1 - d] = past[Len(past) - d]

\* What a request knows that nobody has overtaken: the current password, that
\* the new one is another, and is none of those before it.
KnowsOld(c) == change[c].fresh /\ ~At(c, "idle") => change[c].old = password

KnowsCurrent(c) ==
  change[c].fresh /\ (At(c, "history") \/ At(c, "commit")) =>
    change[c].new # password \/ HistoryCount = 0

KnowsHistory(c) ==
  Present /\ change[c].fresh /\ At(c, "commit") =>
    \A d \in 1..HistoryCount :
      Len(past) - d >= since => change[c].new # past[Len(past) - d]

Known == \A c \in Changes : KnowsOld(c) /\ KnowsCurrent(c) /\ KnowsHistory(c)

IInv == TypeOK /\ Readings /\ Remembered /\ Known /\ NoRecentReuse

-----------------------------------------------------------------------------
LEMMA InitIInv == Init => IInv
  <1> SUFFICES ASSUME Init
               PROVE  IInv
    OBVIOUS
  <1> USE PasswordHistoryAssumption DEF Init, At, NoChange
  <1>1. TypeOK
    BY DEF TypeOK, ChangeRecord
  <1>2. Readings /\ Remembered /\ NoRecentReuse
    BY DEF Readings, Remembered, NoRecentReuse
  <1>3. Known
    BY DEF Known, KnowsOld, KnowsCurrent, KnowsHistory
  <1> QED
    BY <1>1, <1>2, <1>3 DEF IInv

\* A step that leaves the passwords and the history alone.
LEMMA QuietIInv ==
  ASSUME IInv, UNCHANGED <<password, history, past, since>>,
         standing' \in {"enabled", "disabled", "deleted"}, Present' => Present,
         change' \in [Changes -> ChangeRecord],
         \A c \in Changes : ~At(c, "idle")' =>
           change[c].old' \in Passwords /\ change[c].new' \in Passwords,
         Known'
  PROVE  IInv'
  <1>1. TypeOK'
    BY DEF IInv, TypeOK
  <1>2. Readings'
    BY DEF IInv, Readings
  <1>3. Remembered' /\ NoRecentReuse'
    BY DEF IInv, Remembered, NoRecentReuse
  <1> QED
    BY <1>1, <1>2, <1>3 DEF IInv

\* The beginning of a request reads the current password.
LEMMA BeginIInv ==
  ASSUME IInv, NEW c \in Changes, NEW p \in Passwords, Begin(c, p)
  PROVE  IInv'
  <1> USE DEF IInv, TypeOK
  <1>1. change' \in [Changes -> ChangeRecord]
    BY DEF Begin, ChangeRecord
  <1>2. \A d \in Changes : ~At(d, "idle")' =>
          change[d].old' \in Passwords /\ change[d].new' \in Passwords
    BY DEF Begin, Readings, At
  <1>3. ASSUME NEW d \in Changes
        PROVE  KnowsOld(d)' /\ KnowsCurrent(d)' /\ KnowsHistory(d)'
    BY PasswordHistoryAssumption
       DEF Begin, At, Known, KnowsOld, KnowsCurrent, KnowsHistory, Present
  <1> QED
    BY <1>1, <1>2, <1>3, QuietIInv DEF Begin, Known, Present

\* A query of CheckPasswordReuse.
LEMMA GoOnIInv ==
  ASSUME IInv, NEW c \in Changes, CheckCurrent(c) \/ CheckHistory(c)
  PROVE  IInv'
  <1> USE DEF IInv, TypeOK
  <1>1. PICK passes \in BOOLEAN, pc \in {"history", "commit"} :
          /\ GoOnIf(c, passes, pc) /\ ~At(c, "idle")
          /\ pc = "history" /\ passes => password # change[c].new
          /\ pc = "commit" => At(c, "history")
          /\ pc = "commit" /\ passes =>
               \A i \in DOMAIN history : history[i] # change[c].new
    BY DEF CheckCurrent, CheckHistory, At
  <1>2. change' \in [Changes -> ChangeRecord]
    BY <1>1 DEF GoOnIf, ChangeRecord, NoChange
  <1>3. \A d \in Changes : ~At(d, "idle")' =>
          change[d].old' \in Passwords /\ change[d].new' \in Passwords
    BY <1>1 DEF GoOnIf, Readings, At, NoChange
  <1>4. ASSUME NEW d \in Changes
        PROVE  KnowsOld(d)' /\ KnowsCurrent(d)'
    BY <1>1 DEF GoOnIf, NoChange, At, Known, KnowsOld, KnowsCurrent
  <1>5. ASSUME NEW d \in Changes
        PROVE  KnowsHistory(d)'
    <2>1. CASE d # c \/ ~passes \/ pc = "history"
      BY <1>1, <2>1 DEF GoOnIf, NoChange, At, Known, KnowsHistory, Present
    <2>2. CASE d = c /\ passes /\ pc = "commit"
      <3>1. \A i \in 1..Len(history) : history[i] # change[c].new
        BY <1>1, <2>2
      <3>2. Present => \A k \in 1..HistoryCount : Len(past) - k >= since =>
              change[c].new # past[Len(past) - k]
        <4> SUFFICES ASSUME Present, NEW k \in 1..HistoryCount, Len(past) - k >= since
                     PROVE  change[c].new # past[Len(past) - k]
          OBVIOUS
        <4>1. /\ k <= Len(history)
              /\ history[Len(history) + 1 - k] = past[Len(past) - k]
          BY DEF Remembered
        <4>2. Len(history) + 1 - k \in 1..Len(history)
          BY <4>1, PasswordHistoryAssumption
        <4> QED
          BY <3>1, <4>1, <4>2
      <3>3. change'[c].new = change[c].new
        BY <1>1, <2>2 DEF GoOnIf
      <3> QED
        BY <1>1, <2>2, <3>2, <3>3 DEF GoOnIf, KnowsHistory, Present
    <2> QED
      BY <1>1, <2>1, <2>2
  <1> QED
    BY <1>1, <1>2, <1>3, <1>4, <1>5, QuietIInv DEF GoOnIf, Known, Present

\* What done leaves of the requests: the one is over, the others are overtaken.
LEMMA DoneKnown ==
  ASSUME IInv, NEW c \in Changes, Done(c)
  PROVE  /\ change' \in [Changes -> ChangeRecord]
         /\ Known'
         /\ \A d \in Changes : ~At(d, "idle")' =>
              change[d].old' \in Passwords /\ change[d].new' \in Passwords
  <1> USE DEF IInv, TypeOK, Done, NoChange
  <1>1. change' \in [Changes -> ChangeRecord]
    BY DEF ChangeRecord
  <1>2. \A d \in Changes : change'[d].fresh = FALSE
    BY DEF ChangeRecord
  <1>3. Known'
    BY <1>2 DEF Known, KnowsOld, KnowsCurrent, KnowsHistory
  <1>4. \A d \in Changes : ~At(d, "idle")' =>
          change[d].old' \in Passwords /\ change[d].new' \in Passwords
    BY DEF At, Readings
  <1> QED
    BY <1>1, <1>3, <1>4

\* The transaction of a change.
LEMMA CommitIInv ==
  ASSUME IInv, NEW c \in Changes, Commit(c)
  PROVE  IInv'
  <1> DEFINE h == Append(history, change[c].old)
             n == Len(past)
             new == change[c].new
  <1> USE PasswordHistoryAssumption
  <1>0. /\ history \in Seq(Passwords) /\ past \in Seq(Passwords) /\ n \in Nat \ {0}
        /\ since \in 1..n /\ change[c].old \in Passwords /\ new \in Passwords
    BY DEF IInv, TypeOK, Readings, Commit, At
  <1>1. /\ history' \in Seq(Passwords) /\ Len(history') <= HistoryCount
        /\ \A d \in 1..HistoryCount : d <= Len(h) =>
             d <= Len(history') /\ history'[Len(history') + 1 - d] = h[Len(h) + 1 - d]
    <2>1. h \in Seq(Passwords) /\ history' = Kept(h)
      BY <1>0 DEF Commit
    <2> QED
      BY <2>1, KeptIsTail
  <1>2. /\ past' \in Seq(Passwords) /\ Len(past') = n + 1 /\ past'[n + 1] = new
        /\ \A i \in 1..n : past'[i] = past[i]
    BY <1>0 DEF Commit
  <1>3. since' = IF change[c].fresh THEN since ELSE n + 1
    BY DEF Commit
  <1>4. TypeOK'
    <2>1. password' \in Passwords /\ standing' \in {"enabled", "disabled", "deleted"}
      BY <1>0 DEF IInv, TypeOK, Commit
    <2>2. past' \in Seq(Passwords) \ {<<>>} /\ since' \in 1..Len(past')
      BY <1>0, <1>2, <1>3
    <2> QED
      BY <1>1, <2>1, <2>2, DoneKnown DEF TypeOK, Commit
  <1>5. Readings'
    BY <1>2, DoneKnown DEF Readings, Commit
  <1>6. Remembered'
    <2> SUFFICES ASSUME NEW d \in 1..HistoryCount, n + 1 - d >= since'
                 PROVE  /\ d <= Len(history')
                        /\ history'[Len(history') + 1 - d] = past'[n + 1 - d]
      BY <1>2 DEF Remembered
    <2>1. change[c].fresh /\ d <= n /\ n + 1 - d >= since
      BY <1>0, <1>3
    <2>2. Len(h) = Len(history) + 1
      BY <1>0
    <2>3. CASE d = 1
      <3>1. h[Len(h)] = past[n]
        BY <1>0, <2>1 DEF IInv, Known, KnowsOld, Readings, Commit, At
      <3>2. 1 <= Len(h) /\ Len(h) + 1 - 1 = Len(h) /\ n + 1 - 1 = n /\ n \in 1..n
        BY <1>0, <2>2
      <3>3. 1 <= Len(history') /\ history'[Len(history') + 1 - 1] = past[n]
        BY <1>1, <2>3, <3>1, <3>2
      <3> QED
        BY <1>2, <2>3, <3>2, <3>3
    <2>4. CASE d > 1
      <3>1. /\ d - 1 \in 1..HistoryCount /\ n - (d - 1) >= since
            /\ n - (d - 1) = n + 1 - d
        BY <1>0, <2>1, <2>4
      <3>2. /\ d - 1 <= Len(history)
            /\ history[Len(history) + 1 - (d - 1)] = past[n + 1 - d]
        BY <3>1 DEF IInv, Remembered, Commit
      <3>3. h[Len(h) + 1 - d] = past[n + 1 - d]
        BY <1>0, <2>2, <2>4, <3>2
      <3>4. d <= Len(h) /\ n + 1 - d \in 1..n
        BY <1>0, <2>1, <2>2, <2>4, <3>2
      <3>5. d <= Len(history') /\ history'[Len(history') + 1 - d] = past[n + 1 - d]
        BY <1>1, <3>3, <3>4
      <3> QED
        BY <1>2, <3>4, <3>5
    <2> QED
      BY <2>3, <2>4
  <1>7. NoRecentReuse'
    <2> SUFFICES ASSUME NEW i \in since'..(n + 1), NEW j \in since'..(n + 1),
                        HistoryCount > 0, i < j, j <= i + HistoryCount + 1
                 PROVE  past'[i] # past'[j]
      BY <1>2 DEF NoRecentReuse
    <2>1. change[c].fresh /\ since' = since /\ i \in since..n
      BY <1>0, <1>3
    <2>2. CASE j <= n
      BY <1>0, <1>2, <2>1, <2>2 DEF IInv, NoRecentReuse
    <2>3. CASE j = n + 1
      <3>1. new # past[n]
        BY <2>1 DEF IInv, Known, KnowsCurrent, Readings, Commit
      <3>2. \A d \in 1..HistoryCount : n - d >= since => new # past[n - d]
        BY <2>1 DEF IInv, Known, KnowsHistory, Commit
      <3>3. i = n \/ (n - i \in 1..HistoryCount /\ n - (n - i) = i)
        BY <1>0, <2>1, <2>3
      <3>4. n - i \in 1..HistoryCount => n - (n - i) >= since
        BY <1>0, <2>1, <3>3
      <3>5. new # past[i]
        BY <3>1, <3>2, <3>3, <3>4
      <3>6. i \in 1..n
        BY <1>0, <2>1
      <3>7. past'[i] = past[i] /\ past'[j] = new
        BY <1>2, <2>3, <3>6
      <3> QED
        BY <3>5, <3>7
    <2> QED
      BY <1>0, <2>2, <2>3
  <1> QED
    BY <1>4, <1>5, <1>6, <1>7, DoneKnown DEF IInv, Commit

\* The transaction of a change that finds the account deleted.
LEMMA CommitDeletedIInv ==
  ASSUME IInv, NEW c \in Changes, CommitDeleted(c)
  PROVE  IInv'
  <1>1. Append(history, change[c].old) \in Seq(Passwords)
    BY DEF IInv, TypeOK, Readings, CommitDeleted, At
  <1>2. history' \in Seq(Passwords) /\ Len(history') <= HistoryCount
    BY <1>1, KeptIsTail DEF CommitDeleted
  <1>3. TypeOK'
    BY <1>2, DoneKnown DEF CommitDeleted, IInv, TypeOK
  <1>4. Readings' /\ NoRecentReuse'
    BY DoneKnown DEF CommitDeleted, IInv, Readings, NoRecentReuse
  <1>5. Remembered'
    BY DEF CommitDeleted, Present, Remembered
  <1> QED
    BY <1>3, <1>4, <1>5, DoneKnown DEF CommitDeleted, IInv

LEMMA NextIInv == IInv /\ [Next]_vars => IInv'
  <1> SUFFICES ASSUME IInv, [Next]_vars
               PROVE  IInv'
    OBVIOUS
  <1>1. ASSUME NEW c \in Changes, NEW p \in Passwords,
               ChangeOwnPassword(c, p) \/ SetPassword(c, p)
        PROVE  IInv'
    BY <1>1, BeginIInv DEF ChangeOwnPassword, SetPassword
  <1>2. ASSUME NEW c \in Changes, Abandon(c)
        PROVE  IInv'
    <2>1. change' \in [Changes -> ChangeRecord]
      BY <1>2 DEF Abandon, IInv, TypeOK, ChangeRecord, NoChange
    <2>2. \A d \in Changes : d # c => change'[d] = change[d]
      BY <1>2 DEF Abandon, IInv, TypeOK
    <2>3. change'[c].pc = "idle" /\ ~change'[c].fresh
      BY <1>2 DEF Abandon, IInv, TypeOK, NoChange
    <2>4. \A d \in Changes : ~At(d, "idle")' =>
            change[d].old' \in Passwords /\ change[d].new' \in Passwords
      BY <2>2, <2>3 DEF At, IInv, Readings
    <2>5. Known'
      BY <1>2, <2>2, <2>3
         DEF Abandon, IInv, Known, KnowsOld, KnowsCurrent, KnowsHistory, At, Present
    <2> QED
      BY <1>2, <2>1, <2>4, <2>5, QuietIInv DEF Abandon, IInv, TypeOK, Present
  <1>3. ASSUME NEW s \in {"enabled", "disabled"}, SetStatus(s)
        PROVE  IInv'
    BY <1>3, QuietIInv
       DEF SetStatus, IInv, TypeOK, Readings, Known, KnowsOld, KnowsCurrent,
           KnowsHistory, At, Present
  <1>4. CASE Delete
    <2>1. TypeOK'
      BY <1>4, PasswordHistoryAssumption DEF Delete, IInv, TypeOK
    <2>2. Readings' /\ NoRecentReuse' /\ Remembered'
      BY <1>4 DEF Delete, IInv, Readings, NoRecentReuse, Remembered, Present, At
    <2>3. Known'
      BY <1>4 DEF Delete, IInv, Known, KnowsOld, KnowsCurrent, KnowsHistory, Present, At
    <2> QED
      BY <2>1, <2>2, <2>3 DEF IInv
  <1>5. CASE UNCHANGED vars
    BY <1>5, QuietIInv
       DEF vars, IInv, TypeOK, Readings, Known, KnowsOld, KnowsCurrent, KnowsHistory,
           At, Present
  <1> QED
    BY <1>1, <1>2, <1>3, <1>4, <1>5, GoOnIInv, CommitIInv, CommitDeletedIInv
       DEF Next, ChangeStep

LEMMA SpecIInv == Spec => []IInv
  BY InitIInv, NextIInv, PTL DEF Spec

\* The variables keep their types; the history keeps history_count rows at most.
THEOREM TypeCorrect == Spec => []TypeOK
  BY SpecIInv, PTL DEF IInv

\* As long as changes do not overlap, none of the last history_count + 1
\* passwords is used again; and after an overlap, from there on.
THEOREM HistoryKeepsPasswordsNew == Spec => []NoRecentReuse
  BY SpecIInv, PTL DEF IInv
=============================================================================
