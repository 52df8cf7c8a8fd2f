---------------------------- MODULE SessionsProofs ----------------------------
(***************************************************************************)
(* Proofs about Sessions, for every set of accounts, tokens and requests   *)
(* and every value of the bounds.                                          *)
(*                                                                         *)
(* None of the safety properties is inductive by itself.  What they rest   *)
(* on is what a handler may still assume about the token it holds while    *)
(* the other handlers run (InFlight), and that family[t] names an issued   *)
(* token (FamilyOK).  That expired rows alone are purged rests on the times *)
(* handlers carry (ClockOK), and that one replay revokes nothing on which   *)
(* detections the counter may already hold (CounterOK).                     *)
(***************************************************************************)
EXTENDS SessionsHistory, TLAPS

-----------------------------------------------------------------------------
(* The inductive invariant *)

\* A token without a row belongs to no family; every other one descends from
\* a token that was issued, and belongs to an account.
FamilyOK ==
  \A t \in Tokens :
    /\ ~Issued(t) => family[t] = NoToken
    /\ Issued(t) => /\ owner[t] \in Accounts
                    /\ family[t] \in Tokens
                    /\ Issued(family[t])

\* A handler past its first step works for an account; while it holds a token,
\* that token has been issued to that account.
HandlerOK ==
  \A q \in Requests :
    /\ request[q].pc # "idle" => request[q].acct \in Accounts
    /\ request[q].pc \in {"account", "find", "consume"} =>
         /\ request[q].tok \in Tokens
         /\ Issued(request[q].tok)
         /\ owner[request[q].tok] = request[q].acct

\* Once a refresh has found its account enabled, its token can be valid only
\* while the account still is.
InFlight ==
  \A q \in Requests :
    /\ request[q].pc \in {"find", "consume"}
    /\ Live(request[q].tok)
    => account[request[q].acct] = "enabled"

IInv ==
  /\ TypeOK
  /\ FamilyOK
  /\ HandlerOK
  /\ InFlight
  /\ SingleLivePerSession
  /\ StartedUnderCurrentPassword
  /\ DisabledSessionsNotContinued

-----------------------------------------------------------------------------
(* Type correctness *)

LEMMA InitTypeOK == Init => TypeOK
BY SessionsAssumption
   DEF Init, TypeOK, AccountStates, RowStates, RevokeReasons, Request, Idle,
       Steps, Counter, NoCounter, reuseGraceThreshold

\* The three ways to update the local variables of a handler keep their type.
LEMMA HoldTypeOK ==
  ASSUME request \in [Requests -> Request], NEW q \in Requests, NEW pc \in Steps,
         NEW a \in Accounts \cup {NoAccount}, NEW t \in Tokens \cup {NoToken},
         NEW time \in Nat, Hold(q, pc, a, t, time)
  PROVE  request' \in [Requests -> Request]
BY DEF Hold, Request

LEMMA GotoTypeOK ==
  ASSUME request \in [Requests -> Request], NEW q \in Requests,
         NEW pc \in Steps, Goto(q, pc)
  PROVE  request' \in [Requests -> Request]
BY DEF Goto, Request

LEMMA FinishTypeOK ==
  ASSUME request \in [Requests -> Request], NEW q \in Requests, Finish(q)
  PROVE  request' \in [Requests -> Request]
BY DEF Finish, Request, Idle, Steps

\* Every step of a handler keeps the types, given what a handler holds.
LEMMA RequestStepTypeOK ==
  ASSUME TypeOK, FamilyOK, HandlerOK, NEW q \in Requests, RequestStep(q)
  PROVE  TypeOK'
<1> USE DEF TypeOK, accountVars, tokenVars, At
<1>r. request[q] \in Request /\ request[q].acct \in Accounts \cup {NoAccount}
      /\ request[q].tok \in Tokens \cup {NoToken} /\ request[q].at \in Nat
  BY DEF Request
<1>a. request[q].pc # "idle" => request[q].acct \in Accounts
  BY DEF HandlerOK
<1>1. ASSUME NEW a \in Accounts, LoginVerify(q, a) PROVE TypeOK'
  BY <1>1, HoldTypeOK DEF LoginVerify, Steps
<1>2. ASSUME NEW a \in Accounts, Register(q, a) PROVE TypeOK'
  BY <1>2, HoldTypeOK DEF Register, Steps, AccountStates
<1>3. ASSUME NEW n \in Tokens, LoginIssue(q, n) PROVE TypeOK'
  BY <1>3, <1>a, FinishTypeOK, SessionsAssumption
     DEF LoginIssue, issueTokenPair, RowStates
<1>4. ASSUME NEW t \in Tokens, RefreshParse(q, t) PROVE TypeOK'
  BY <1>4, HoldTypeOK DEF RefreshParse, Steps
<1>5. CASE RefreshAccount(q)
  BY <1>5, <1>r, HoldTypeOK, FinishTypeOK DEF RefreshAccount, Steps
<1>6. CASE RefreshFind(q)
  BY <1>6, <1>r, HoldTypeOK DEF RefreshFind, DetectReuse, Steps
<1>7. ASSUME NEW n \in Tokens, RefreshConsume(q, n) PROVE TypeOK'
  <2>1. request' \in [Requests -> Request]
    BY <1>7, <1>r, HoldTypeOK, FinishTypeOK DEF RefreshConsume, DetectReuse, Steps
  <2>2. request[q].acct \in Accounts /\ request[q].tok \in Tokens
    BY <1>7 DEF RefreshConsume, HandlerOK
  <2> QED
    BY <1>7, <2>1, <2>2, SessionsAssumption
    DEF RefreshConsume, issueTokenPair, Consumed, RowStates, RevokeReasons
<1>8. CASE RefreshPurge(q)
  BY <1>8, FinishTypeOK DEF RefreshPurge, DeleteRows, RowStates
<1>9. CASE ReuseCount(q)
  <2>1. request' \in [Requests -> Request]
    BY <1>9, GotoTypeOK DEF ReuseCount, CacheFails, Steps
  <2>2. reuse' \in [Accounts -> Counter]
    BY <1>9, <1>a DEF ReuseCount, CacheFails, Counter, reuseGraceThreshold
  <2> QED  BY <1>9, <2>1, <2>2 DEF ReuseCount
<1>10. CASE ReuseExpire(q)
  <2>1. request' \in [Requests -> Request]
    BY <1>10, GotoTypeOK DEF ReuseExpire, CacheFails, Steps
  <2>2. reuse' \in [Accounts -> Counter]
    BY <1>10, <1>a, SessionsAssumption DEF ReuseExpire, CacheFails, Counter
  <2> QED  BY <1>10, <2>1, <2>2 DEF ReuseExpire
<1>11. CASE ReuseDecide(q)
  BY <1>11, GotoTypeOK, FinishTypeOK DEF ReuseDecide, CacheFails, Steps
<1>12. CASE ReuseRevoke(q)
  BY <1>12, FinishTypeOK DEF ReuseRevoke, revokeAccountTokens, RowStates, RevokeReasons
<1>13. CASE Abandon(q)
  BY <1>13, FinishTypeOK DEF Abandon
<1> QED
  BY <1>1, <1>2, <1>3, <1>4, <1>5, <1>6, <1>7, <1>8, <1>9, <1>10, <1>11,
     <1>12, <1>13 DEF RequestStep

\* The other operations keep the types as well.
LEMMA NextTypeOK ==
  ASSUME TypeOK, FamilyOK, HandlerOK, [Next]_vars
  PROVE  TypeOK'
<1> USE DEF TypeOK, accountVars, tokenVars, revokeAccountTokens, DeleteRows
<1>1. ASSUME NEW q \in Requests, RequestStep(q) PROVE TypeOK'
  BY <1>1, RequestStepTypeOK
<1>2. ASSUME NEW a \in Accounts, AccountStep(a) PROVE TypeOK'
  <2>1. CASE SetPassword(a)
    BY <2>1 DEF SetPassword, RowStates, RevokeReasons
  <2>2. CASE Disable(a)
    BY <2>2 DEF Disable, RowStates, RevokeReasons, AccountStates
  <2>3. CASE Enable(a)
    BY <2>3 DEF Enable, AccountStates
  <2>4. CASE Delete(a)
    BY <2>4 DEF Delete, RowStates, AccountStates
  <2>5. CASE LateRevoke(a)
    BY <2>5 DEF LateRevoke, RowStates, RevokeReasons
  <2> QED
    BY <1>2, <2>1, <2>2, <2>3, <2>4, <2>5 DEF AccountStep, ChangeOwnPassword, ResetPassword
<1>3. ASSUME NEW t \in Tokens, Logout(t) PROVE TypeOK'
  BY <1>3 DEF Logout, RowStates, RevokeReasons
<1>4. CASE CleanupBatch
  BY <1>4 DEF CleanupBatch, RowStates
<1>5. CASE Tick
  BY <1>5 DEF Tick, Counter, NoCounter, reuseGraceThreshold
<1>6. CASE UNCHANGED vars
  BY <1>6 DEF vars
<1> QED
  BY <1>1, <1>2, <1>3, <1>4, <1>5, <1>6 DEF Next

-----------------------------------------------------------------------------
(* What one step does to the token table, whichever operation takes it.    *)

\* An issued token keeps its row identity and its expiry; if it is valid after the step it was
\* valid before, and its account was neither disabled nor given a password.
Kept(t) ==
  /\ Issued(t)'
  /\ owner'[t] = owner[t] /\ family'[t] = family[t] /\ started'[t] = started[t]
  /\ expires'[t] = expires[t]
  /\ Live(t)' => /\ Live(t)
                 /\ password'[owner[t]] = password[owner[t]]
                 /\ account[owner[t]] = "enabled" => account'[owner[t]] = "enabled"

\* The step inserts the first token of a session.
Begins(n) ==
  /\ Live(n)' /\ owner'[n] \in Accounts
  /\ family'[n] = n
  /\ started'[n] = password'[owner'[n]]
  /\ \A u \in Tokens \ {n} : Live(u)' = Live(u)

\* The step exchanges the valid token t for n.
Rotates(t, n) ==
  /\ Live(t) /\ ~Live(t)'
  /\ Live(n)' /\ owner'[n] = owner[t]
  /\ family'[n] = family[t] /\ started'[n] = started[t]
  /\ password'[owner[t]] = password[owner[t]]
  /\ account'[owner[t]] = "enabled"
  /\ \A u \in Tokens \ {t, n} : Live(u)' = Live(u)

\* n is the only token inserted, and the others are kept.
Inserts(n) ==
  /\ ~Issued(n)
  /\ \A t \in Tokens \ {n} : IF Issued(t) THEN Kept(t)
                             ELSE ~Issued(t)' /\ family'[t] = family[t]
  /\ Begins(n) \/ \E t \in Tokens : Rotates(t, n)

NoInsert ==
  \A t \in Tokens : IF Issued(t) THEN Kept(t)
                   ELSE ~Issued(t)' /\ family'[t] = family[t]

LEMMA LoginIssueInserts ==
  ASSUME IInv, NEW q \in Requests, NEW n \in Tokens, LoginIssue(q, n)
  PROVE  Inserts(n) /\ Begins(n)
<1>1. request[q].acct \in Accounts
  BY DEF IInv, HandlerOK, LoginIssue, At
<1> QED
  BY <1>1 DEF IInv, TypeOK, LoginIssue, issueTokenPair, Inserts, Begins, Kept,
              Issued, Live, accountVars

LEMMA RefreshConsumeInserts ==
  ASSUME IInv, NEW q \in Requests, NEW n \in Tokens, RefreshConsume(q, n)
  PROVE  \/ Inserts(n) /\ \E t \in Tokens : Rotates(t, n)
         \/ NoInsert
<1>0. PICK t \in Tokens : t = request[q].tok
  BY DEF IInv, HandlerOK, RefreshConsume, At
<1>1. t \in Tokens /\ Issued(t) /\ owner[t] = request[q].acct
  BY <1>0 DEF IInv, HandlerOK, RefreshConsume, At
<1>2. Live(t) => account[owner[t]] = "enabled"
  BY <1>0, <1>1 DEF IInv, InFlight, RefreshConsume, At
<1>3. ASSUME Consumable(t), ~Issued(n),
             issueTokenPair(Consumed(t), n, request[q].acct, family[t], started[t])
      PROVE  Inserts(n) /\ Rotates(t, n)
  <2>1. t # n /\ Live(t) /\ ~Live(n)
    BY <1>1, <1>3 DEF Consumable, Issued, Live
  <2>2. /\ row' = [row EXCEPT ![t] = "rotated", ![n] = "live"]
        /\ owner' = [owner EXCEPT ![n] = owner[t]]
        /\ family' = [family EXCEPT ![n] = family[t]]
        /\ started' = [started EXCEPT ![n] = started[t]]
        /\ expires' = [expires EXCEPT ![n] = now + RefreshTTL]
    BY <1>1, <1>3 DEF issueTokenPair, Consumed
  <2>3. UNCHANGED <<account, password>>
    BY DEF RefreshConsume, accountVars
  <2>4. Rotates(t, n)
    <3>1. row'[t] = "rotated" /\ row'[n] = "live"
      BY <1>1, <2>1, <2>2 DEF IInv, TypeOK
    <3>2. owner'[n] = owner[t] /\ family'[n] = family[t] /\ started'[n] = started[t]
      BY <2>2 DEF IInv, TypeOK
    <3>3. \A u \in Tokens \ {t, n} : row'[u] = row[u]
      BY <2>2 DEF IInv, TypeOK
    <3> QED  BY <1>1, <1>2, <2>1, <2>3, <3>1, <3>2, <3>3 DEF Rotates, Live
  <2>5. \A u \in Tokens \ {n} : IF Issued(u) THEN Kept(u)
                                ELSE ~Issued(u)' /\ family'[u] = family[u]
    BY <1>1, <2>1, <2>2, <2>3 DEF IInv, TypeOK, Kept, Issued, Live
  <2> QED
    BY <1>1, <1>3, <2>4, <2>5 DEF Inserts
<1>4. CASE UNCHANGED tokenVars
  BY <1>4 DEF RefreshConsume, NoInsert, Kept, Issued, Live, accountVars, tokenVars
<1> QED
  BY <1>0, <1>1, <1>3, <1>4 DEF RefreshConsume

\* Every other step inserts nothing.
LEMMA OtherStepsInsertNothing ==
  ASSUME IInv, [Next]_vars,
         ~ \E q \in Requests, n \in Tokens : LoginIssue(q, n) \/ RefreshConsume(q, n)
  PROVE  NoInsert
<1> USE DEF NoInsert, Kept, Issued, Live, Stored, accountVars, tokenVars,
            revokeAccountTokens, DeleteRows, ExpiredBefore
<1>1. TypeOK /\ \A t \in Tokens : Issued(t) => owner[t] \in Accounts
  BY DEF IInv, FamilyOK
<1>2. ASSUME NEW q \in Requests, RequestStep(q) PROVE NoInsert
  <2>1. CASE RefreshPurge(q)
    BY <1>1, <2>1 DEF TypeOK, RefreshPurge
  <2>2. CASE ReuseRevoke(q)
    BY <1>1, <2>2 DEF TypeOK, ReuseRevoke
  <2>3. ASSUME NEW a \in Accounts, Register(q, a) PROVE NoInsert
    BY <1>1, <2>3 DEF TypeOK, Register
  <2>4. CASE UNCHANGED <<accountVars, tokenVars>>
    BY <2>4
  <2> QED
    BY <1>2, <2>1, <2>2, <2>3, <2>4
    DEF RequestStep, LoginVerify, RefreshParse, RefreshAccount,
        RefreshFind, ReuseCount, ReuseExpire, ReuseDecide, Abandon
<1>3. ASSUME NEW a \in Accounts, AccountStep(a) PROVE NoInsert
  <2>1. CASE SetPassword(a)
    BY <1>1, <2>1 DEF TypeOK, SetPassword
  <2>2. CASE Disable(a)
    BY <1>1, <2>2 DEF TypeOK, Disable
  <2>3. CASE Enable(a)
    BY <1>1, <2>3 DEF TypeOK, Enable
  <2>4. CASE Delete(a)
    BY <1>1, <2>4 DEF TypeOK, Delete
  <2>5. CASE LateRevoke(a)
    BY <1>1, <2>5 DEF TypeOK, LateRevoke
  <2> QED
    BY <1>3, <2>1, <2>2, <2>3, <2>4, <2>5 DEF AccountStep, ChangeOwnPassword, ResetPassword
<1>4. ASSUME NEW t \in Tokens, Logout(t) PROVE NoInsert
  BY <1>1, <1>4 DEF TypeOK, Logout
<1>5. CASE CleanupBatch
  BY <1>1, <1>5 DEF TypeOK, CleanupBatch
<1>6. CASE Tick
  BY <1>6 DEF Tick
<1>7. CASE UNCHANGED vars
  BY <1>7 DEF vars
<1> QED
  BY <1>2, <1>3, <1>4, <1>5, <1>6, <1>7 DEF Next

LEMMA TableStep ==
  ASSUME IInv, [Next]_vars
  PROVE  NoInsert \/ \E n \in Tokens : Inserts(n)
BY LoginIssueInserts, RefreshConsumeInserts, OtherStepsInsertNothing

-----------------------------------------------------------------------------
(* The invariant is inductive *)

LEMMA InitIInv == Init => IInv
<1> SUFFICES ASSUME Init PROVE IInv
  OBVIOUS
<1>1. TypeOK
  BY InitTypeOK
<1> QED
  BY <1>1 DEF Init, IInv, FamilyOK, HandlerOK, InFlight, Idle, Issued, Live,
     SingleLivePerSession, StartedUnderCurrentPassword, DisabledSessionsNotContinued

\* What the invariant says about the table follows from what a step does to it.
LEMMA TableInvariantStep ==
  ASSUME IInv, [Next]_vars
  PROVE  FamilyOK' /\ SingleLivePerSession' /\ StartedUnderCurrentPassword'
         /\ DisabledSessionsNotContinued'
<1> USE DEF IInv
<1>1. CASE NoInsert
  <2>1. FamilyOK'
    BY <1>1 DEF NoInsert, Kept, FamilyOK
  <2>2. \A t \in Tokens : Live(t)' => Kept(t) /\ Live(t)
    BY <1>1 DEF NoInsert, Kept, Issued, Live
  <2> QED
    BY <2>1, <2>2 DEF Kept, SingleLivePerSession, StartedUnderCurrentPassword,
                      DisabledSessionsNotContinued
<1>2. ASSUME NEW n \in Tokens, Inserts(n)
      PROVE  FamilyOK' /\ SingleLivePerSession' /\ StartedUnderCurrentPassword'
             /\ DisabledSessionsNotContinued'
  <2>1. \A t \in Tokens \ {n} : Live(t)' => Kept(t) /\ Live(t) /\ Issued(t)
    BY <1>2 DEF Inserts, Kept, Issued, Live
  <2>2. \A t \in Tokens : Live(t) => t # n /\ Issued(t) /\ family[t] # n
    BY <1>2 DEF Inserts, FamilyOK, Issued, Live
  <2>3. \A t \in Tokens \ {n} : IF Issued(t) THEN Kept(t)
                                ELSE ~Issued(t)' /\ family'[t] = family[t]
    BY <1>2 DEF Inserts
  <2>4. Issued(n)' /\ Live(n)'
    BY <1>2 DEF Inserts, Begins, Rotates, Issued, Live
  <2>5. CASE Begins(n)
    <3>1. FamilyOK'
      BY <2>3, <2>4, <2>5 DEF Kept, Begins, FamilyOK
    <3>2. SingleLivePerSession'
      BY <2>1, <2>2, <2>5 DEF Kept, Begins, SingleLivePerSession
    <3>3. StartedUnderCurrentPassword' /\ DisabledSessionsNotContinued'
      BY <2>1, <2>5 DEF Kept, Begins, StartedUnderCurrentPassword,
                        DisabledSessionsNotContinued
    <3> QED  BY <3>1, <3>2, <3>3
  <2>6. ASSUME NEW t \in Tokens, Rotates(t, n)
        PROVE  FamilyOK' /\ SingleLivePerSession' /\ StartedUnderCurrentPassword'
               /\ DisabledSessionsNotContinued'
    <3>0. t # n /\ Issued(t)
      BY <2>2, <2>6 DEF Rotates
    <3>1. FamilyOK'
      <4>1. owner[t] \in Accounts /\ family[t] \in Tokens /\ Issued(family[t])
        BY <3>0 DEF FamilyOK
      <4>2. Issued(family[t])'
        BY <2>3, <2>4, <3>0, <4>1 DEF Kept, Issued
      <4> QED  BY <2>3, <2>4, <2>6, <4>1, <4>2 DEF Kept, Rotates, FamilyOK
    <3>2. SingleLivePerSession'
      BY <2>1, <2>6, <3>0 DEF Kept, Rotates, SingleLivePerSession
    <3>3. StartedUnderCurrentPassword' /\ DisabledSessionsNotContinued'
      BY <2>1, <2>6 DEF Kept, Rotates, StartedUnderCurrentPassword,
                        DisabledSessionsNotContinued
    <3> QED  BY <3>1, <3>2, <3>3
  <2> QED
    BY <1>2, <2>5, <2>6 DEF Inserts
<1> QED
  BY <1>1, <1>2, TableStep

\* A step of q leaves the variables of every other handler alone, and no other
\* operation touches a handler.
LEMMA OneHandlerMoves ==
  ASSUME TypeOK, [Next]_vars
  PROVE  \/ request' = request
         \/ \E q \in Requests :
              /\ RequestStep(q)
              /\ \A p \in Requests \ {q} : request'[p] = request[p]
<1>1. ASSUME NEW q \in Requests, RequestStep(q)
      PROVE  \A p \in Requests \ {q} : request'[p] = request[p]
  BY <1>1 DEF TypeOK, RequestStep, LoginVerify, Register, LoginIssue, RefreshParse,
     RefreshAccount, RefreshFind, RefreshConsume, RefreshPurge, ReuseCount,
     ReuseExpire, ReuseDecide, ReuseRevoke, Abandon, CacheFails, DetectReuse,
     Hold, Goto, Finish
<1>2. ASSUME NEW a \in Accounts, AccountStep(a) PROVE request' = request
  BY <1>2 DEF AccountStep, ChangeOwnPassword, ResetPassword, SetPassword,
              Disable, Enable, LateRevoke, Delete
<1> QED
  BY <1>1, <1>2 DEF Next, vars, Logout, CleanupBatch, Tick

\* What a handler step leaves in q is still justified after the step.
LEMMA MovedHandler ==
  ASSUME IInv, NEW q \in Requests, RequestStep(q)
  PROVE  /\ request'[q].pc # "idle" => request'[q].acct \in Accounts
         /\ request'[q].pc \in {"account", "find", "consume"} =>
              /\ request'[q].tok \in Tokens
              /\ Issued(request'[q].tok)
              /\ owner[request'[q].tok] = request'[q].acct
         /\ request'[q].pc \in {"find", "consume"} /\ Live(request'[q].tok) =>
              account[request'[q].acct] = "enabled"
<1> USE DEF At, Hold, Goto, Finish, Idle
<1>1. /\ request \in [Requests -> Request]
      /\ request[q].pc # "idle" => request[q].acct \in Accounts
      /\ request[q].pc \in {"account", "find", "consume"} =>
           /\ request[q].tok \in Tokens
           /\ Issued(request[q].tok)
           /\ owner[request[q].tok] = request[q].acct
      /\ request[q].pc = "find" /\ Live(request[q].tok) =>
           account[request[q].acct] = "enabled"
  BY DEF IInv, TypeOK, HandlerOK, InFlight
<1>2. ASSUME NEW a \in Accounts, LoginVerify(q, a) \/ Register(q, a)
      PROVE  request'[q].pc = "issue" /\ request'[q].acct \in Accounts
  BY <1>1, <1>2 DEF LoginVerify, Register
<1>3. ASSUME NEW t \in Tokens, RefreshParse(q, t)
      PROVE  /\ request'[q].pc = "account" /\ request'[q].acct \in Accounts
             /\ request'[q].tok = t /\ Issued(t) /\ request'[q].acct = owner[t]
  BY <1>1, <1>3 DEF IInv, FamilyOK, RefreshParse
<1>4. CASE RefreshAccount(q)
  BY <1>1, <1>4 DEF RefreshAccount
<1>5. CASE RefreshFind(q)
  BY <1>1, <1>5 DEF RefreshFind, DetectReuse
<1>6. ASSUME NEW n \in Tokens, LoginIssue(q, n) \/ RefreshConsume(q, n)
      PROVE  \/ request'[q].pc = "idle"
             \/ request'[q].pc = "count" /\ request'[q].acct \in Accounts
  BY <1>1, <1>6 DEF LoginIssue, RefreshConsume, DetectReuse
<1>7. CASE RefreshPurge(q) \/ ReuseRevoke(q) \/ Abandon(q)
  BY <1>1, <1>7 DEF RefreshPurge, ReuseRevoke, Abandon
<1>8. CASE ReuseCount(q) \/ ReuseExpire(q) \/ ReuseDecide(q)
  <2>1. \/ request'[q].pc = "idle"
        \/ /\ request'[q].pc \in {"window", "decide", "revoke", "fallback"}
           /\ request'[q].acct \in Accounts
    BY <1>1, <1>8 DEF ReuseCount, ReuseExpire, ReuseDecide, CacheFails, Request
  <2> QED  BY <2>1
<1> QED
  BY <1>2, <1>3, <1>4, <1>5, <1>6, <1>7, <1>8 DEF RequestStep

LEMMA HandlerInvariantStep ==
  ASSUME IInv, [Next]_vars
  PROVE  HandlerOK' /\ InFlight'
<1>1. \A t \in Tokens : Issued(t) => Kept(t)
  BY TableStep DEF NoInsert, Inserts
<1>2. ASSUME NEW p \in Requests, request'[p] = request[p]
      PROVE  /\ HandlerOK!(p)'
             /\ InFlight!(p)'
  BY <1>1, <1>2 DEF IInv, HandlerOK, InFlight, Kept
<1> QED
  BY <1>1, <1>2, OneHandlerMoves, MovedHandler DEF IInv, HandlerOK, InFlight, Kept

\* The inductive invariant holds in every reachable state.
THEOREM InductiveInvariant == Spec => []IInv
<1>1. IInv /\ [Next]_vars => IInv'
  BY NextTypeOK, TableInvariantStep, HandlerInvariantStep DEF IInv
<1> QED
  BY InitIInv, <1>1, PTL DEF Spec

-----------------------------------------------------------------------------
(* Theorems *)

\* All variables keep their types under every interleaving of handlers.
THEOREM TypeCorrect == Spec => []TypeOK
BY InductiveInvariant, PTL DEF IInv

\* Rotation is single use: of the tokens that descend from one login, never two
\* are valid, however many refreshes of them overlap (auth.go Refresh).
THEOREM SingleUse == Spec => []SingleLivePerSession
BY InductiveInvariant, PTL DEF IInv

\* No session outlives a change of its account's password (auth.go
\* ChangeOwnPassword, account.go ResetPassword).
THEOREM PasswordChangeEndsSessions == Spec => []StartedUnderCurrentPassword
BY InductiveInvariant, PTL DEF IInv

\* Disabling or deleting an account stops the renewal of its sessions, the ones
\* with a refresh in flight included (auth.go Refresh, account.go Update).
THEOREM DisablingStopsRenewal == Spec => []DisabledSessionsNotContinued
BY InductiveInvariant, PTL DEF IInv

-----------------------------------------------------------------------------
(* Sessions implements SessionSpec *)

sessions == [s \in Tokens |-> SessionOf(s)]

\* Revoking and deleting rows ends a set of sessions, perhaps an empty one.
LEMMA NoInsertRefines ==
  ASSUME IInv, NoInsert
  PROVE  (\E S \in SUBSET Tokens : Abstract!End(S)) \/ sessions' = sessions
<1> DEFINE E == {s \in Tokens : SessionOf(s) # SessionOf(s)'}
<1>1. \A t \in Tokens : family'[t] = family[t] /\ (Live(t)' => Live(t))
  BY DEF NoInsert, Kept, Issued, Live
<1>2. \A s \in Tokens :
        SessionOf(s)' = SessionOf(s) \/ (SessionOf(s) = "active" /\ SessionOf(s)' = "ended")
  BY <1>1 DEF SessionOf
<1>3. PICK S \in SUBSET Tokens : S = E
  OBVIOUS
<1>4. CASE S = {}
  BY <1>3, <1>4 DEF sessions
<1>5. CASE S # {}
  <2>1. \A s \in S : sessions[s] = "active"
    BY <1>2, <1>3 DEF sessions
  <2>2. sessions' = [s \in Tokens |-> IF s \in S THEN "ended" ELSE sessions[s]]
    BY <1>2, <1>3 DEF sessions
  <2> QED  BY <1>5, <2>1, <2>2 DEF Abstract!End, sessions
<1> QED
  BY <1>4, <1>5

\* Inserting the first token of a session starts it.
LEMMA BeginsRefines ==
  ASSUME IInv, NEW n \in Tokens, Inserts(n), Begins(n)
  PROVE  Abstract!Start(n)
<1>1. family[n] # n /\ \A t \in Tokens : Issued(t) => family[t] # n
  BY SessionsAssumption DEF IInv, FamilyOK, Inserts
<1>2. \A t \in Tokens \ {n} : family'[t] = family[t] /\ Live(t)' = Live(t)
  BY DEF Inserts, Kept, Begins
<1>3. \A s \in Tokens \ {n} : SessionOf(s)' = SessionOf(s)
  <2>1. ~Live(n)
    BY DEF Inserts, Issued, Live
  <2> QED  BY <1>2, <2>1 DEF SessionOf, Begins, Issued
<1>4. SessionOf(n) = "none" /\ SessionOf(n)' = "active"
  BY <1>1 DEF SessionOf, Begins
<1> QED
  BY <1>3, <1>4 DEF Abstract!Start, sessions

\* Exchanging a token for its successor is invisible.
LEMMA RotatesRefines ==
  ASSUME IInv, NEW n \in Tokens, Inserts(n), NEW t \in Tokens, Rotates(t, n)
  PROVE  sessions' = sessions
<1>1. t # n /\ Issued(t) /\ family[t] \in Tokens /\ family[t] # n /\ family[n] = NoToken
  BY DEF IInv, FamilyOK, Inserts, Rotates, Issued, Live
<1>2. \A u \in Tokens \ {n} : family'[u] = family[u]
  BY DEF Inserts, Kept
<1>3. \A s \in Tokens : (\E u \in Tokens : family[u] = s /\ Live(u))
                      <=> (\E u \in Tokens : family'[u] = s /\ Live(u)')
  <2>1. \A u \in Tokens \ {t, n} : family'[u] = family[u] /\ Live(u)' = Live(u)
    BY <1>2 DEF Rotates
  <2>2. Live(t) /\ ~Live(t)' /\ ~Live(n) /\ Live(n)' /\ family'[n] = family[t]
    BY DEF Rotates, Inserts, Issued, Live
  <2> QED  BY <2>1, <2>2
<1>4. \A s \in Tokens : family[s] = s <=> family'[s] = s
  BY <1>1, <1>2, SessionsAssumption DEF Rotates
<1> QED
  BY <1>3, <1>4 DEF sessions, SessionOf

\* Seen through SessionOf, the token table behaves as SessionSpec: one start per
\* login, rotation invisible, and an ended session never resumed.
THEOREM Refinement == Spec => ImplementsSessionSpec
<1>1. Init => Abstract!Init
  <2> SUFFICES ASSUME Init PROVE Abstract!Init
    OBVIOUS
  <2>1. \A s \in Tokens : SessionOf(s) = "none"
    BY SessionsAssumption DEF Init, SessionOf
  <2> QED  BY <2>1 DEF Abstract!Init
<1>2. IInv /\ [Next]_vars => [Abstract!Next]_sessions
  <2> SUFFICES ASSUME IInv, [Next]_vars PROVE Abstract!Next \/ sessions' = sessions
    OBVIOUS
  <2>1. CASE NoInsert
    BY <2>1, NoInsertRefines DEF Abstract!Next
  <2>2. ASSUME NEW n \in Tokens, Inserts(n)
        PROVE  Abstract!Next \/ sessions' = sessions
    BY <2>2, BeginsRefines, RotatesRefines DEF Inserts, Abstract!Next
  <2> QED  BY <2>1, <2>2, TableStep
<1> QED
  BY <1>1, <1>2, InductiveInvariant, PTL
  DEF Spec, ImplementsSessionSpec, Abstract!Spec, sessions
-----------------------------------------------------------------------------
(* The evidence of replay detection is kept *)

\* No handler works with a time that has not come yet.
ClockOK == \A q \in Requests : request[q].at <= now

EvidenceInv == IInv /\ ClockOK /\ ReplayEvidenceKept

\* Neither the clock nor the deletion of an account is ever undone.
LEMMA OnlyForward ==
  ASSUME IInv, [Next]_vars
  PROVE  /\ now <= now'
         /\ \A a \in Accounts : account[a] = "deleted" => account'[a] = "deleted"
<1> USE DEF accountVars
<1>1. /\ now \in Nat
      /\ account \in [Accounts -> AccountStates]
  BY DEF IInv, TypeOK
<1>2. now' = now \/ now' = now + 1
  <2>1. ASSUME NEW q \in Requests, RequestStep(q) PROVE now' = now
    BY <2>1 DEF RequestStep, LoginVerify, Register, LoginIssue, RefreshParse,
       RefreshAccount, RefreshFind, RefreshConsume, RefreshPurge, ReuseCount,
       ReuseExpire, ReuseDecide, ReuseRevoke, Abandon
  <2>2. ASSUME NEW a \in Accounts, AccountStep(a) PROVE now' = now
    BY <2>2 DEF AccountStep, ChangeOwnPassword, ResetPassword, SetPassword,
                Disable, Enable, LateRevoke, Delete
  <2> QED
    BY <2>1, <2>2 DEF Next, vars, Logout, CleanupBatch, Tick
<1>3. ASSUME NEW a \in Accounts, account[a] = "deleted" PROVE account'[a] = "deleted"
  <2>1. ASSUME NEW q \in Requests, RequestStep(q) PROVE account'[a] = "deleted"
    BY <1>1, <1>3, <2>1 DEF RequestStep, LoginVerify, Register, LoginIssue, RefreshParse,
       RefreshAccount, RefreshFind, RefreshConsume, RefreshPurge, ReuseCount,
       ReuseExpire, ReuseDecide, ReuseRevoke, Abandon
  <2>2. ASSUME NEW b \in Accounts, AccountStep(b) PROVE account'[a] = "deleted"
    BY <1>1, <1>3, <2>2 DEF AccountStep, ChangeOwnPassword, ResetPassword, SetPassword,
                Disable, Enable, LateRevoke, Delete
  <2> QED
    BY <1>3, <2>1, <2>2 DEF Next, vars, Logout, CleanupBatch, Tick
<1> QED
  BY <1>1, <1>2, <1>3

LEMMA ClockStep ==
  ASSUME IInv, ClockOK, [Next]_vars
  PROVE  ClockOK'
<1>1. /\ now \in Nat /\ now' \in Nat /\ now <= now'
      /\ request \in [Requests -> Request]
      /\ \A q \in Requests : request[q].at \in Nat
  BY OnlyForward, NextTypeOK DEF IInv, TypeOK, Request
<1>2. ASSUME NEW q \in Requests, RequestStep(q)
      PROVE  request'[q].at \in {0, now, request[q].at}
  <2> USE DEF Hold, Goto, Finish, Idle, DetectReuse, CacheFails
  <2>1. ASSUME NEW a \in Accounts, LoginVerify(q, a) \/ Register(q, a)
        PROVE  request'[q].at = 0
    BY <1>1, <2>1 DEF LoginVerify, Register
  <2>2. ASSUME NEW n \in Tokens, LoginIssue(q, n) \/ RefreshConsume(q, n)
        PROVE  request'[q].at = 0
    BY <1>1, <2>2 DEF LoginIssue, RefreshConsume
  <2>3. ASSUME NEW t \in Tokens, RefreshParse(q, t) PROVE request'[q].at = 0
    BY <1>1, <2>3 DEF RefreshParse
  <2>4. CASE RefreshAccount(q)
    BY <1>1, <2>4 DEF RefreshAccount
  <2>5. CASE RefreshFind(q)
    BY <1>1, <2>5 DEF RefreshFind
  <2>6. CASE RefreshPurge(q) \/ ReuseRevoke(q) \/ Abandon(q)
    BY <1>1, <2>6 DEF RefreshPurge, ReuseRevoke, Abandon
  <2>7. CASE ReuseCount(q) \/ ReuseExpire(q) \/ ReuseDecide(q)
    <3>1. Finish(q) \/ \E pc \in Steps : Goto(q, pc)
      BY <2>7 DEF ReuseCount, ReuseExpire, ReuseDecide, Steps
    <3>2. ASSUME NEW pc \in Steps, Goto(q, pc) PROVE request'[q].at = request[q].at
      BY <1>1, <3>2 DEF Request
    <3> QED  BY <1>1, <3>1, <3>2
  <2> QED
    BY <1>2, <2>1, <2>2, <2>3, <2>4, <2>5, <2>6, <2>7 DEF RequestStep
<1>3. ASSUME NEW q \in Requests, request'[q].at \in {0, now, request[q].at}
      PROVE  request'[q].at <= now'
  BY <1>1, <1>3 DEF ClockOK
<1>4. \A q \in Requests : request'[q].at \in {0, now, request[q].at}
  BY <1>2, OneHandlerMoves DEF IInv
<1> QED
  BY <1>3, <1>4 DEF ClockOK

\* Every way a row is deleted: it has expired by the clock of the one who
\* deletes it, or its account goes.
LEMMA PurgeStep ==
  ASSUME IInv, ClockOK, [Next]_vars,
         NEW t \in Tokens, row[t] # "purged", row'[t] = "purged"
  PROVE  /\ Issued(t)
         /\ expires[t] < now \/ account'[owner[t]] = "deleted"
<1> USE DEF Issued, Stored, ExpiredBefore, DeleteRows, accountVars, tokenVars,
            revokeAccountTokens
<1>1. /\ TypeOK /\ now \in Nat /\ expires[t] \in Nat
      /\ \A q \in Requests : request[q].at \in Nat /\ request[q].at <= now
  BY DEF IInv, TypeOK, ClockOK, Request
<1>2. ASSUME NEW q \in Requests, RequestStep(q)
      PROVE  Issued(t) /\ expires[t] < now
  <2>1. CASE RefreshPurge(q)
    <3>1. Issued(t) /\ expires[t] < request[q].at
      BY <2>1 DEF RefreshPurge
    <3> QED  BY <1>1, <3>1
  <2>2. ASSUME NEW n \in Tokens, LoginIssue(q, n) \/ RefreshConsume(q, n) PROVE FALSE
    BY <1>1, <2>2 DEF TypeOK, LoginIssue, RefreshConsume, issueTokenPair, Consumed
  <2>3. CASE ReuseRevoke(q)
    BY <2>3 DEF ReuseRevoke
  <2>4. CASE UNCHANGED row
    BY <2>4
  <2> QED
    BY <1>2, <2>1, <2>2, <2>3, <2>4
    DEF RequestStep, LoginVerify, Register, RefreshParse, RefreshAccount,
        RefreshFind, ReuseCount, ReuseExpire, ReuseDecide, Abandon
<1>3. ASSUME NEW a \in Accounts, AccountStep(a)
      PROVE  Issued(t) /\ account'[owner[t]] = "deleted"
  <2>1. CASE Delete(a)
    BY <1>1, <2>1 DEF TypeOK, Delete
  <2> QED
    BY <1>3, <2>1 DEF AccountStep, ChangeOwnPassword, ResetPassword, SetPassword,
                      Disable, Enable, LateRevoke
<1>4. CASE CleanupBatch
  BY <1>4 DEF CleanupBatch
<1>5. ASSUME NEW u \in Tokens, Logout(u) PROVE FALSE
  BY <1>1, <1>5 DEF TypeOK, Logout
<1> QED
  BY <1>2, <1>3, <1>4, <1>5 DEF Next, vars, Tick

\* What replay detection looks for is there: no purge and no cleanup removes the
\* row of a token that has not expired (auth.go Refresh step 6, cleanup.go).
THEOREM EvidenceKept == Spec => []ReplayEvidenceKept
<1>1. Init => EvidenceInv
  <2> SUFFICES ASSUME Init PROVE EvidenceInv
    OBVIOUS
  <2>1. ClockOK /\ ReplayEvidenceKept
    BY DEF Init, ClockOK, Idle, ReplayEvidenceKept
  <2> QED  BY <2>1, InitIInv DEF EvidenceInv
<1>2. EvidenceInv /\ [Next]_vars => EvidenceInv'
  <2> SUFFICES ASSUME EvidenceInv, [Next]_vars PROVE EvidenceInv'
    OBVIOUS
  <2>1. IInv /\ ClockOK /\ ReplayEvidenceKept
    BY DEF EvidenceInv
  <2>2. IInv' /\ ClockOK'
    BY <2>1, ClockStep, NextTypeOK, TableInvariantStep, HandlerInvariantStep DEF IInv
  <2>3. \A t \in Tokens : Issued(t) =>
          owner'[t] = owner[t] /\ expires'[t] = expires[t] /\ owner[t] \in Accounts
    BY <2>1, TableStep DEF NoInsert, Inserts, Kept, IInv, FamilyOK
  <2>4. now \in Nat /\ now' \in Nat /\ now <= now' /\ \A t \in Tokens : expires[t] \in Nat
    BY <2>1, <2>2, OnlyForward DEF IInv, TypeOK
  <2>5. ASSUME NEW t \in Tokens, row'[t] = "purged"
        PROVE  expires'[t] < now' \/ account'[owner'[t]] = "deleted"
    <3>1. Issued(t) /\ (expires[t] < now \/ account'[owner[t]] = "deleted")
      <4>1. CASE row[t] # "purged"
        BY <2>1, <2>5, <4>1, PurgeStep
      <4>2. CASE row[t] = "purged"
        BY <2>1, <2>3, <4>2, OnlyForward DEF ReplayEvidenceKept, Issued
      <4> QED  BY <4>1, <4>2
    <3> QED  BY <2>3, <2>4, <3>1
  <2> QED  BY <2>2, <2>5 DEF EvidenceInv, ReplayEvidenceKept
<1> QED
  BY <1>1, <1>2, PTL DEF Spec, EvidenceInv

-----------------------------------------------------------------------------
(* A revocation for reuse needs two detections, unless the counter failed  *)

Counting(q, a) == request[q].pc = "count" /\ request[q].acct = a

\* The counter never runs ahead of the detections: a detection is either still
\* carried by its handler or counted, and no detection is both.
CounterOK ==
  \A a \in Accounts :
    /\ reuse[a].n >= 1 => detections[a] >= 1
    /\ reuse[a].n >= 2 => detections[a] >= 2
    /\ \A q \in Requests :
         Counting(q, a) =>
           /\ detections[a] >= 1
           /\ reuse[a].n >= 1 => detections[a] >= 2
           /\ \A p \in Requests \ {q} : Counting(p, a) => detections[a] >= 2

\* A handler about to revoke has either read the threshold, or guessed.
DecisionOK ==
  \A q \in Requests :
    /\ request[q].pc = "revoke" =>
         counterLost \/ detections[request[q].acct] >= 2
    /\ request[q].pc = "fallback" => counterLost

HistoryTypeOK ==
  /\ detections \in [Accounts -> 0..2]
  /\ counterLost \in BOOLEAN

HistoryInv ==
  /\ IInv
  /\ HistoryTypeOK
  /\ ~counterLost => CounterOK
  /\ DecisionOK
  /\ ReuseNeedsTwoDetections

\* What a step of a handler can do to the counter and to its own place.
LEMMA CounterMoves ==
  ASSUME IInv, NEW q \in Requests, RequestStep(q)
  PROVE  /\ request'[q].pc \in {"count", "revoke", "fallback"} =>
              request'[q].acct = request[q].acct /\ request[q].acct \in Accounts
         /\ request'[q].pc = "count" => Detects(q) /\ reuse' = reuse
         /\ request'[q].pc = "revoke" => Guesses(q) \/ reuse[request[q].acct].n >= 2
         /\ request'[q].pc = "fallback" => Guesses(q)
         /\ \A a \in Accounts :
              \/ reuse'[a].n = reuse[a].n
              \/ Counting(q, a) /\ request'[q].pc # "count" /\ reuse'[a].n = reuse[a].n + 1
<1> USE DEF At, Hold, Goto, Finish, Idle, DetectReuse, CacheFails, Counting,
            Guesses, Detects, Moves
<1>1. /\ request \in [Requests -> Request]
      /\ reuse \in [Accounts -> Counter]
      /\ request[q].pc # "idle" => request[q].acct \in Accounts
  BY DEF IInv, TypeOK, HandlerOK
<1>2. ASSUME NEW a \in Accounts, LoginVerify(q, a) \/ Register(q, a)
      PROVE  request'[q].pc = "issue" /\ reuse' = reuse
  BY <1>1, <1>2 DEF LoginVerify, Register
<1>3. ASSUME NEW t \in Tokens, RefreshParse(q, t)
      PROVE  request'[q].pc = "account" /\ reuse' = reuse
  BY <1>1, <1>3 DEF RefreshParse
<1>4. CASE RefreshAccount(q)
  BY <1>1, <1>4 DEF RefreshAccount
<1>5. CASE RefreshFind(q)
  BY <1>1, <1>5 DEF RefreshFind
<1>6. ASSUME NEW n \in Tokens, LoginIssue(q, n) \/ RefreshConsume(q, n)
      PROVE  /\ reuse' = reuse
             /\ \/ request'[q].pc = "idle"
                \/ Detects(q) /\ request'[q].pc = "count" /\ request'[q].acct = request[q].acct
             /\ request[q].acct \in Accounts
  BY <1>1, <1>6 DEF LoginIssue, RefreshConsume
<1>7. CASE RefreshPurge(q) \/ ReuseRevoke(q) \/ Abandon(q)
  BY <1>1, <1>7 DEF RefreshPurge, ReuseRevoke, Abandon
<1>8. CASE ReuseCount(q)
  <2>1. /\ request[q].pc = "count" /\ request[q].acct \in Accounts
        /\ request'[q].acct = request[q].acct
        /\ request'[q].pc \in {"window", "fallback"}
    BY <1>1, <1>8 DEF ReuseCount, Request
  <2>2. \A a \in Accounts : \/ reuse'[a].n = reuse[a].n
                            \/ a = request[q].acct /\ reuse'[a].n = reuse[a].n + 1
    <3>1. CASE reuse' = [reuse EXCEPT ![request[q].acct].n =
                           IF @ < reuseGraceThreshold THEN @ + 1 ELSE @]
      BY <1>1, <3>1 DEF Counter
    <3>2. CASE reuse' = reuse
      BY <3>2
    <3> QED  BY <1>8, <3>1, <3>2 DEF ReuseCount
  <2> QED  BY <2>1, <2>2
<1>9. CASE ReuseExpire(q)
  <2>1. /\ request[q].pc = "window" /\ request[q].acct \in Accounts
        /\ request'[q].acct = request[q].acct
        /\ request'[q].pc \in {"decide", "fallback"}
    BY <1>1, <1>9 DEF ReuseExpire, Request
  <2>2. \A a \in Accounts : reuse'[a].n = reuse[a].n
    BY <1>1, <1>9 DEF ReuseExpire, Counter
  <2> QED  BY <2>1, <2>2
<1>10. CASE ReuseDecide(q)
  <2>1. /\ request[q].pc = "decide" /\ request[q].acct \in Accounts
        /\ request'[q].pc \in {"idle", "revoke", "fallback"}
        /\ request'[q].pc # "idle" => request'[q].acct = request[q].acct
        /\ reuse' = reuse
    BY <1>1, <1>10 DEF ReuseDecide, Request
  <2>2. request'[q].pc = "revoke" => RevokeAllAt(reuse[request[q].acct].n)
    BY <1>1, <1>10 DEF ReuseDecide, Request
  <2> QED  BY <2>1, <2>2 DEF RevokeAllAt, reuseGraceThreshold
<1> QED
  BY <1>2, <1>3, <1>4, <1>5, <1>6, <1>7, <1>8, <1>9, <1>10 DEF RequestStep

\* The other operations touch no handler, and can only drop counters.
LEMMA CounterDrops ==
  ASSUME IInv, [Next]_vars, ~ \E q \in Requests : RequestStep(q)
  PROVE  /\ request' = request
         /\ \A a \in Accounts : reuse'[a].n \in {0, reuse[a].n}
         /\ \A t \in Tokens : row'[t] = "reuse" => row[t] = "reuse"
<1> USE DEF revokeAccountTokens, DeleteRows, tokenVars
<1>1. TypeOK
  BY DEF IInv
<1>2. ASSUME NEW a \in Accounts, AccountStep(a)
      PROVE  request' = request /\ reuse' = reuse
             /\ \A t \in Tokens : row'[t] = "reuse" => row[t] = "reuse"
  BY <1>2 DEF AccountStep, ChangeOwnPassword, ResetPassword, SetPassword,
              Disable, Enable, LateRevoke, Delete
<1>3. ASSUME NEW t \in Tokens, Logout(t)
      PROVE  request' = request /\ reuse' = reuse
             /\ \A u \in Tokens : row'[u] = "reuse" => row[u] = "reuse"
  BY <1>1, <1>3 DEF TypeOK, Logout
<1>4. CASE CleanupBatch
  BY <1>4 DEF CleanupBatch
<1>5. CASE Tick
  BY <1>1, <1>5 DEF TypeOK, Tick, NoCounter
<1>6. CASE UNCHANGED vars
  BY <1>6 DEF vars
<1> QED
  BY <1>2, <1>3, <1>4, <1>5, <1>6 DEF Next

\* Only a handler that has decided so marks rows as revoked for reuse, and only
\* rows of its own account.
LEMMA ReuseRows ==
  ASSUME IInv, NEW q \in Requests, RequestStep(q),
         NEW t \in Tokens, row[t] # "reuse", row'[t] = "reuse"
  PROVE  /\ request[q].pc \in {"revoke", "fallback"}
         /\ owner[t] = request[q].acct /\ owner' = owner
<1> USE DEF revokeAccountTokens, DeleteRows, tokenVars, issueTokenPair, Consumed, At
<1>1. row \in [Tokens -> RowStates]
  BY DEF IInv, TypeOK
<1>2. CASE ReuseRevoke(q)
  BY <1>1, <1>2 DEF ReuseRevoke
<1>3. ASSUME NEW n \in Tokens, LoginIssue(q, n) \/ RefreshConsume(q, n) PROVE FALSE
  BY <1>1, <1>3 DEF LoginIssue, RefreshConsume
<1> QED
  BY <1>1, <1>2, <1>3
  DEF RequestStep, LoginVerify, Register, RefreshParse, RefreshAccount, RefreshFind,
      RefreshPurge, ReuseCount, ReuseExpire, ReuseDecide, Abandon

\* What the history records of a step.
LEMMA HistoryMoves ==
  ASSUME HistoryTypeOK, HistoryNext
  PROVE  /\ HistoryTypeOK'
         /\ counterLost => counterLost'
         /\ \A q \in Requests : Guesses(q) => counterLost'
         /\ \A a \in Accounts :
              /\ detections'[a] \in 0..2 /\ detections[a] <= detections'[a]
              /\ \A q \in Requests : Detects(q) /\ request[q].acct = a =>
                   /\ detections'[a] >= 1
                   /\ detections[a] >= 1 => detections'[a] >= 2
<1>1. HistoryTypeOK'
  <2>1. detections' \in [Accounts -> 0..2]
    BY DEF HistoryTypeOK, HistoryNext, reuseGraceThreshold
  <2>2. counterLost' \in BOOLEAN
    BY DEF HistoryNext
  <2> QED  BY <2>1, <2>2 DEF HistoryTypeOK
<1>2. counterLost' = (counterLost \/ \E q \in Requests : Guesses(q))
  BY DEF HistoryNext
<1>3. ASSUME NEW a \in Accounts
      PROVE  /\ detections'[a] \in 0..2 /\ detections[a] <= detections'[a]
             /\ \A q \in Requests : Detects(q) /\ request[q].acct = a =>
                  /\ detections'[a] >= 1
                  /\ detections[a] >= 1 => detections'[a] >= 2
  BY DEF HistoryTypeOK, HistoryNext, reuseGraceThreshold
<1> QED
  BY <1>1, <1>2, <1>3

LEMMA CounterStep ==
  ASSUME HistoryInv, [Next]_vars, HistoryNext, ~counterLost'
  PROVE  CounterOK'
<1>1. /\ IInv /\ HistoryTypeOK /\ ~counterLost /\ CounterOK
      /\ \A a \in Accounts : detections[a] \in 0..2 /\ reuse[a].n \in Nat
      /\ request \in [Requests -> Request]
  BY HistoryMoves DEF HistoryInv, HistoryTypeOK, IInv, TypeOK, Counter, reuseGraceThreshold
<1>2. CASE ~ \E q \in Requests : RequestStep(q)
  <2>1. /\ request' = request
        /\ \A a \in Accounts : reuse'[a].n \in {0, reuse[a].n}
    BY <1>1, <1>2, CounterDrops
  <2>2. \A a \in Accounts : detections'[a] \in 0..2 /\ detections[a] <= detections'[a]
    BY <1>1, HistoryMoves
  <2> QED  BY <1>1, <2>1, <2>2 DEF CounterOK, Counting
<1>3. ASSUME NEW r \in Requests, RequestStep(r),
             \A p \in Requests \ {r} : request'[p] = request[p]
      PROVE  CounterOK'
  <2> SUFFICES ASSUME NEW a \in Accounts PROVE CounterOK!(a)'
    BY DEF CounterOK
  <2>1. \/ reuse'[a].n = reuse[a].n
        \/ Counting(r, a) /\ request'[r].pc # "count" /\ reuse'[a].n = reuse[a].n + 1
    BY <1>1, <1>3, CounterMoves
  <2>2. Counting(r, a)' =>
          Detects(r) /\ request[r].acct = a /\ reuse'[a].n = reuse[a].n
    BY <1>1, <1>3, CounterMoves DEF Counting
  <2>3. /\ detections'[a] \in 0..2 /\ detections[a] <= detections'[a]
        /\ Counting(r, a)' => /\ detections'[a] >= 1
                              /\ detections[a] >= 1 => detections'[a] >= 2
    BY <1>1, <2>2, HistoryMoves
  <2>4. \A p \in Requests \ {r} : Counting(p, a)' <=> Counting(p, a)
    BY <1>3 DEF Counting
  <2>5. /\ reuse[a].n >= 1 => detections[a] >= 1
        /\ reuse[a].n >= 2 => detections[a] >= 2
        /\ \A q \in Requests :
             Counting(q, a) =>
               /\ detections[a] >= 1
               /\ reuse[a].n >= 1 => detections[a] >= 2
               /\ \A p \in Requests \ {q} : Counting(p, a) => detections[a] >= 2
    BY <1>1 DEF CounterOK
  <2>6. /\ reuse'[a].n >= 1 => detections'[a] >= 1
        /\ reuse'[a].n >= 2 => detections'[a] >= 2
    BY <1>1, <2>1, <2>3, <2>5
  <2>7. ASSUME NEW q \in Requests, Counting(q, a)'
        PROVE  /\ detections'[a] >= 1
               /\ reuse'[a].n >= 1 => detections'[a] >= 2
               /\ \A p \in Requests \ {q} : Counting(p, a)' => detections'[a] >= 2
    <3>1. CASE q = r
      BY <1>1, <2>2, <2>3, <2>4, <2>5, <2>7, <3>1
    <3>2. CASE q # r
      BY <1>1, <2>1, <2>3, <2>4, <2>5, <2>7, <3>2
    <3> QED  BY <3>1, <3>2
  <2> QED  BY <2>6, <2>7
<1> QED
  BY <1>1, <1>2, <1>3, OneHandlerMoves, CounterDrops DEF IInv

LEMMA DecisionStep ==
  ASSUME HistoryInv, [Next]_vars, HistoryNext
  PROVE  DecisionOK'
<1>1. /\ IInv /\ HistoryTypeOK /\ DecisionOK
      /\ \A a \in Accounts : detections[a] \in 0..2 /\ reuse[a].n \in Nat
      /\ \A a \in Accounts : detections'[a] \in 0..2 /\ detections[a] <= detections'[a]
      /\ \A q \in Requests : request[q].pc # "idle" => request[q].acct \in Accounts
  BY HistoryMoves DEF HistoryInv, HistoryTypeOK, IInv, TypeOK, Counter,
                      reuseGraceThreshold, HandlerOK
<1>2. ASSUME NEW p \in Requests, request'[p] = request[p]
      PROVE  DecisionOK!(p)'
  BY <1>1, <1>2, HistoryMoves DEF DecisionOK
<1>3. ASSUME NEW q \in Requests, RequestStep(q)
      PROVE  DecisionOK!(q)'
  <2>1. CASE request'[q].pc = "revoke"
    <3>1. /\ request'[q].acct = request[q].acct /\ request[q].acct \in Accounts
          /\ Guesses(q) \/ reuse[request[q].acct].n >= 2
      BY <1>1, <1>3, <2>1, CounterMoves
    <3>2. Guesses(q) => counterLost'
      BY <1>1, HistoryMoves
    <3>3. counterLost \/ (reuse[request[q].acct].n >= 2 => detections[request[q].acct] >= 2)
      BY <3>1 DEF HistoryInv, CounterOK
    <3> QED  BY <1>1, <2>1, <3>1, <3>2, <3>3, HistoryMoves
  <2>2. CASE request'[q].pc = "fallback"
    <3>1. Guesses(q)
      BY <1>1, <1>3, <2>2, CounterMoves
    <3> QED  BY <1>1, <2>2, <3>1, HistoryMoves
  <2> QED  BY <2>1, <2>2
<1> QED
  BY <1>1, <1>2, <1>3, OneHandlerMoves DEF DecisionOK, IInv

LEMMA ReuseRowStep ==
  ASSUME HistoryInv, [Next]_vars, HistoryNext
  PROVE  ReuseNeedsTwoDetections'
<1> SUFFICES ASSUME NEW t \in Tokens, row'[t] = "reuse", ~counterLost'
             PROVE  detections'[owner'[t]] >= 2
  BY DEF ReuseNeedsTwoDetections, reuseGraceThreshold
<1>1. /\ IInv /\ HistoryTypeOK /\ ~counterLost
      /\ \A a \in Accounts : detections[a] \in 0..2 /\ detections'[a] \in 0..2
      /\ \A a \in Accounts : detections[a] <= detections'[a]
  BY HistoryMoves DEF HistoryInv, HistoryTypeOK
<1>2. CASE row[t] = "reuse"
  <2>1. owner'[t] = owner[t] /\ owner[t] \in Accounts
    BY <1>1, <1>2, TableStep DEF NoInsert, Inserts, Kept, Issued, IInv, FamilyOK
  <2>2. detections[owner[t]] >= 2
    BY <1>1, <1>2 DEF HistoryInv, ReuseNeedsTwoDetections, reuseGraceThreshold
  <2> QED  BY <1>1, <2>1, <2>2
<1>3. CASE row[t] # "reuse"
  <2>1. PICK q \in Requests : RequestStep(q)
    BY <1>1, <1>3, CounterDrops
  <2>2. /\ request[q].pc \in {"revoke", "fallback"}
        /\ owner[t] = request[q].acct /\ owner' = owner
    BY <1>1, <1>3, <2>1, ReuseRows
  <2>3. owner[t] \in Accounts
    BY <1>1, <2>2 DEF IInv, HandlerOK
  <2>4. detections[owner[t]] >= 2
    BY <1>1, <2>2 DEF HistoryInv, DecisionOK
  <2> QED  BY <1>1, <2>2, <2>3, <2>4
<1> QED
  BY <1>2, <1>3

\* The history variables only watch: every behaviour with history is one of
\* Sessions.
LEMMA HistoryIsSessions == HistorySpec => Spec
<1>1. [Next /\ HistoryNext]_<<vars, historyVars>> => [Next]_vars
  BY DEF vars
<1> QED
  BY <1>1, PTL DEF HistorySpec, Spec

\* However detections, expiries of the counter and handlers interleave, one
\* replay alone revokes nothing while the counter can be read (auth.go
\* shouldRevokeAllOnReuse).
THEOREM TwoDetections == HistorySpec => []ReuseNeedsTwoDetections
<1>1. Init /\ HistoryInit => HistoryInv
  <2> SUFFICES ASSUME Init, HistoryInit PROVE HistoryInv
    OBVIOUS
  <2>1. IInv
    BY InitIInv
  <2>2. HistoryTypeOK
    <3>1. detections \in [Accounts -> 0..2]
      BY DEF HistoryInit
    <3>2. counterLost \in BOOLEAN
      BY DEF HistoryInit
    <3> QED  BY <3>1, <3>2 DEF HistoryTypeOK
  <2>3. CounterOK /\ DecisionOK /\ ReuseNeedsTwoDetections
    BY DEF Init, NoCounter, Idle, CounterOK, Counting, DecisionOK, ReuseNeedsTwoDetections
  <2> QED  BY <2>1, <2>2, <2>3 DEF HistoryInv
<1>2. HistoryInv /\ [Next /\ HistoryNext]_<<vars, historyVars>> => HistoryInv'
  <2> SUFFICES ASSUME HistoryInv, [Next /\ HistoryNext]_<<vars, historyVars>>
               PROVE  HistoryInv'
    OBVIOUS
  <2>1. CASE Next /\ HistoryNext
    <3>1. IInv'
      BY <2>1, NextTypeOK, TableInvariantStep, HandlerInvariantStep DEF IInv, HistoryInv
    <3>2. HistoryTypeOK'
      BY <2>1, HistoryMoves DEF HistoryInv
    <3>3. ~counterLost' => CounterOK'
      BY <2>1, CounterStep
    <3>4. DecisionOK' /\ ReuseNeedsTwoDetections'
      BY <2>1, DecisionStep, ReuseRowStep
    <3> QED  BY <3>1, <3>2, <3>3, <3>4 DEF HistoryInv
  <2>2. CASE UNCHANGED <<vars, historyVars>>
    <3>1. IInv'
      BY <2>2, NextTypeOK, TableInvariantStep, HandlerInvariantStep DEF IInv, HistoryInv
    <3>2. CounterOK' <=> CounterOK
      BY <2>2 DEF CounterOK, Counting, vars, historyVars
    <3>3. DecisionOK' <=> DecisionOK
      BY <2>2 DEF DecisionOK, vars, historyVars
    <3>4. ReuseNeedsTwoDetections' <=> ReuseNeedsTwoDetections
      BY <2>2 DEF ReuseNeedsTwoDetections, vars, tokenVars, historyVars
    <3>5. HistoryTypeOK' /\ counterLost' = counterLost
      BY <2>2 DEF HistoryInv, HistoryTypeOK, historyVars
    <3> QED  BY <3>1, <3>2, <3>3, <3>4, <3>5 DEF HistoryInv
  <2> QED  BY <2>1, <2>2
<1> QED
  BY <1>1, <1>2, PTL DEF HistorySpec, HistoryInv

=============================================================================
