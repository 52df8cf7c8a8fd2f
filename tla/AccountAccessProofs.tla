-------------------------- MODULE AccountAccessProofs --------------------------
(***************************************************************************)
(* Proofs about AccountAccess, for any accounts, tokens, concurrent        *)
(* changes and visits, lifetimes and numbers of faults.                    *)
(***************************************************************************)
EXTENDS AccountAccess, TLAPS

-----------------------------------------------------------------------------
(* Types, and what the local variables of a request hold *)

ChangeSound(c) ==
  change[c].pc # "idle" => change[c].account \in Accounts /\ change[c].to # "none"

VisitSound(v) ==
  /\ visit[v].pc # "idle" => visit[v].account \in Accounts
  /\ visit[v].pc = "store" => visit[v].seen \in Rows

TokenSound(t) == expires[t] # 0 => owner[t] \in Accounts

Typed ==
  /\ TypeOK
  /\ \A c \in Changes : ChangeSound(c)
  /\ \A v \in Visits : VisitSound(v)
  /\ \A t \in Tokens : TokenSound(t)

LEMMA InitTyped == Init => Typed
  BY AccountAccessAssumption
     DEF Init, Typed, TypeOK, ChangeSound, VisitSound, TokenSound, NoChange, NoVisit,
         ChangeRecord, VisitRecord

\* The history field of a visit says nothing of the others.
LEMMA CalmField ==
  ASSUME NEW r \in VisitRecord, NEW calm \in BOOLEAN, NEW s, s = [r EXCEPT !.calm = calm]
  PROVE  /\ s \in VisitRecord /\ s.calm = calm
         /\ s.pc = r.pc /\ s.account = r.account /\ s.seen = r.seen /\ s.late = r.late
  BY DEF VisitRecord

\* A step of a change, or its beginning.
LEMMA ChangeTyped ==
  ASSUME Typed, NEW c \in Changes, Request(c) \/ ChangeStep(c) \/ Abandon(c)
  PROVE  Typed'
  <1> USE AccountAccessAssumption
          DEF Typed, TypeOK, ChangeRecord, VisitRecord, ChangeSound, VisitSound, TokenSound, NoChange,
              tokenVars
  <1>1. ASSUME NEW a \in Accounts, NEW s \in Rows \cup {"deleted"}, Begin(c, a, s)
        PROVE  Typed'
    BY <1>1 DEF Begin, Rows
  <1>2. CASE Commit(c)
    <2>1. \A v \in Visits : \/ visit'[v] = visit[v]
                             \/ visit'[v] = [visit[v] EXCEPT !.calm = FALSE]
      BY ONLY <1>2 DEF Commit
    <2>4. visit' \in [Visits -> VisitRecord] /\ \A v \in Visits : VisitSound(v)'
      <3>1. visit' = [v \in Visits |-> visit'[v]]
        BY ONLY <1>2, Zenon DEF Commit
      <3>2. ASSUME NEW v \in Visits
            PROVE  visit'[v] \in VisitRecord /\ VisitSound(v)'
        <4>1. CASE visit'[v] = visit[v]
          BY <4>1
        <4>2. CASE visit'[v] = [visit[v] EXCEPT !.calm = FALSE]
          <5>1. FALSE \in BOOLEAN /\ visit[v] \in VisitRecord
            BY Zenon
          <5>2. /\ visit'[v] \in VisitRecord /\ visit'[v].pc = visit[v].pc
                /\ visit'[v].account = visit[v].account /\ visit'[v].seen = visit[v].seen
            BY ONLY <4>2, <5>1, CalmField, Zenon
          <5> QED
            BY ONLY <5>2, Typed, Zenon DEF Typed, VisitSound
        <4> QED
          BY <2>1, <4>1, <4>2
      <3> QED
        BY <3>1, <3>2
    <2>2. standing' \in [Accounts -> Rows \cup {"absent", "deleted"}]
      BY <1>2 DEF Commit
    <2>3. change' \in [Changes -> ChangeRecord] /\ \A d \in Changes : ChangeSound(d)'
      BY <1>2 DEF Commit, Committed
    <2> QED
      BY <1>2, <2>2, <2>3, <2>4 DEF Commit
  <1>3. CASE Invalidate(c)
    BY <1>3 DEF Invalidate, Fault
  <1>4. CASE Abandon(c)
    BY <1>4 DEF Abandon, Fault
  <1> QED
    BY <1>1, <1>2, <1>3, <1>4 DEF Request, Update, Delete, ChangeStep

\* A token, a row, or an entry whose time is over.
LEMMA TableTyped ==
  ASSUME Typed,
         \/ \E a \in Accounts : Create(a) \/ Register(a) \/ Expire(a)
         \/ \E t \in Tokens : RevokeAccessToken(t) \/ \E a \in Accounts : Issue(t, a)
         \/ Tick
  PROVE  Typed'
  <1> USE AccountAccessAssumption
          DEF Typed, TypeOK, ChangeSound, VisitSound, TokenSound, tokenVars
  <1>1. ASSUME NEW a \in Accounts, NEW s \in {"console", "user"}, Insert(a, s)
        PROVE  Typed'
    BY <1>1 DEF Insert, Rows
  <1>2. ASSUME NEW a \in Accounts, Expire(a)
        PROVE  Typed'
    BY <1>2 DEF Expire
  <1>3. ASSUME NEW t \in Tokens, RevokeAccessToken(t)
        PROVE  Typed'
    BY <1>3 DEF RevokeAccessToken, KeyTTL, Valid
  <1>4. ASSUME NEW t \in Tokens, NEW a \in Accounts, Issue(t, a)
        PROVE  Typed'
    BY <1>4 DEF Issue
  <1>5. CASE Tick
    BY <1>5 DEF Tick
  <1> QED
    BY <1>1, <1>2, <1>3, <1>4, <1>5 DEF Create, Register

\* A step of a visit.
LEMMA VisitTyped ==
  ASSUME Typed, NEW v \in Visits, VisitStep(v) \/ \E t \in Tokens : Auth(v, t)
  PROVE  Typed'
  <1> USE AccountAccessAssumption
          DEF Typed, TypeOK, VisitRecord, ChangeSound, VisitSound, TokenSound, NoVisit,
              tokenVars
  <1>1. ASSUME NEW t \in Tokens, Auth(v, t)
        PROVE  Typed'
    <2>1. PICK late \in BOOLEAN :
            visit' = [visit EXCEPT ![v] = [NoVisit EXCEPT
              !.pc = "load", !.account = owner[t], !.late = late]]
      BY ONLY <1>1, Zenon DEF Auth
    <2>0. /\ now < expires[t]
          /\ UNCHANGED <<standing, cache, tokenVars, change, now, ops>>
          /\ UNCHANGED faults \/ Fault
      BY ONLY <1>1, Zenon DEF Auth, Valid
    <2>2. owner[t] \in Accounts
      BY <2>0
    <2>3. visit' \in [Visits -> VisitRecord] /\ \A w \in Visits : VisitSound(w)'
      BY <2>1, <2>2
    <2> QED
      BY <2>0, <2>3 DEF Fault
  <1>2. CASE Hit(v)
    BY <1>2 DEF Hit, Decide, Entry, NoEntry
  <1>3. CASE Miss(v)
    BY <1>3 DEF Miss, Fault
  <1>4. CASE ReadRow(v)
    BY <1>4 DEF ReadRow, Found, Present
  <1>5. CASE Store(v)
    <2>1. visit[v].account \in Accounts /\ visit[v].seen \in Rows /\ visit[v].calm \in BOOLEAN
      BY <1>5 DEF Store
    <2>2. [standing |-> visit[v].seen, calm |-> visit[v].calm, expires |-> HasTTL] \in Entry
      BY ONLY <2>1, Zenon DEF Entry, HasTTL
    <2>3. cache' \in [Accounts -> Entry \cup {NoEntry}]
      BY <1>5, <2>1, <2>2 DEF Store
    <2>4. visit' \in [Visits -> VisitRecord] /\ \A w \in Visits : VisitSound(w)'
      BY <1>5, <2>1 DEF Store, Decide
    <2> QED
      BY <1>5, <2>3, <2>4 DEF Store
  <1>6. CASE Leave(v)
    BY <1>6 DEF Leave
  <1> QED
    BY <1>1, <1>2, <1>3, <1>4, <1>5, <1>6 DEF VisitStep

LEMMA NextTyped == Typed /\ [Next]_vars => Typed'
  <1> SUFFICES ASSUME Typed, [Next]_vars
               PROVE  Typed'
    OBVIOUS
  <1>1. CASE UNCHANGED vars
    BY <1>1 DEF vars, tokenVars, Typed, TypeOK, ChangeSound, VisitSound, TokenSound
  <1> QED
    BY <1>1, ChangeTyped, TableTyped, VisitTyped DEF Next

\* Rows, entries, tokens and the local variables of requests keep their types.
THEOREM TypeCorrect == Spec => []TypeOK
  BY InitTyped, NextTyped, PTL DEF Spec, Typed

LEMMA SpecTyped == Spec => []Typed
  BY InitTyped, NextTyped, PTL DEF Spec

-----------------------------------------------------------------------------
(* Logged-out tokens *)

\* The key of a token that was blacklisted ends when the token does, and not
\* before.
Blacklisted ==
  \A t \in loggedOut :
    expires[t] # 0 /\ (now < expires[t] => blacklist[t] = expires[t])

LEMMA NextBlacklisted == Typed /\ Blacklisted /\ [Next]_vars => Blacklisted'
  <1> SUFFICES ASSUME Typed, Blacklisted, [Next]_vars
               PROVE  Blacklisted'
    OBVIOUS
  <1>1. CASE UNCHANGED <<tokenVars, now>>
    BY <1>1 DEF Blacklisted, tokenVars
  <1>2. ASSUME NEW t \in Tokens, RevokeAccessToken(t)
        PROVE  Blacklisted'
    BY <1>2 DEF RevokeAccessToken, KeyTTL, Valid, Blacklisted, Typed, TypeOK
  <1>3. ASSUME NEW t \in Tokens, NEW a \in Accounts, Issue(t, a)
        PROVE  Blacklisted'
    BY <1>3 DEF Issue, Blacklisted, Typed, TypeOK
  <1>4. CASE Tick
    <2>1. \A t \in loggedOut : /\ t \in Tokens /\ expires[t] \in Nat /\ blacklist[t] \in Nat
      BY DEF Typed, TypeOK
    <2>2. now \in Nat
      BY AccountAccessAssumption DEF Typed, TypeOK
    <2> QED
      BY <1>4, <2>1, <2>2 DEF Tick, Blacklisted
  <1>5. ASSUME NEW v \in Visits, VisitStep(v) \/ \E t \in Tokens : Auth(v, t)
        PROVE  UNCHANGED <<tokenVars, now>>
    BY ONLY <1>5, Zenon
       DEF VisitStep, Hit, Miss, ReadRow, Store, Leave, Auth
  <1>6. ASSUME NEW c \in Changes, Request(c) \/ ChangeStep(c) \/ Abandon(c)
        PROVE  UNCHANGED <<tokenVars, now>>
    BY ONLY <1>6, Zenon
       DEF Request, Update, Delete, Begin, ChangeStep, Commit, Invalidate, Abandon
  <1>7. ASSUME NEW a \in Accounts, Create(a) \/ Register(a) \/ Expire(a)
        PROVE  UNCHANGED <<tokenVars, now>>
    BY ONLY <1>7, Zenon DEF Create, Register, Insert, Expire
  <1>8. CASE UNCHANGED vars
    <2>1. UNCHANGED <<tokenVars, now>>
      BY ONLY <1>8, Zenon DEF vars
    <2> QED
      BY <1>1, <2>1
  <1> QED
    BY <1>1, <1>2, <1>3, <1>4, <1>5, <1>6, <1>7, <1>8 DEF Next

\* The steps of a visit: it begins, or it ends, or its history field late stays.
LEMMA VisitFields ==
  ASSUME Typed, NEW v \in Visits, VisitStep(v)
  PROVE  /\ \A w \in Visits : w # v => visit'[w] = visit[w]
         /\ visit'[v] = NoVisit \/ visit'[v].late = visit[v].late
  <1> USE DEF Typed, TypeOK, VisitRecord
  <1>1. CASE Hit(v)
    BY <1>1 DEF Hit, Decide
  <1>2. CASE Miss(v)
    BY <1>2 DEF Miss
  <1>3. CASE ReadRow(v)
    BY <1>3, FALSE \in BOOLEAN, TRUE \in BOOLEAN DEF ReadRow
  <1>4. CASE Store(v)
    BY <1>4 DEF Store, Decide
  <1>5. CASE Leave(v)
    BY <1>5 DEF Leave
  <1> QED
    BY <1>1, <1>2, <1>3, <1>4, <1>5 DEF VisitStep

LEMMA AuthNotLate ==
  ASSUME Typed, Blacklisted, NEW v \in Visits, NEW t \in Tokens, Auth(v, t)
  PROVE  /\ \A w \in Visits : w # v => visit'[w] = visit[w]
         /\ visit'[v].pc = "load" /\ visit'[v].late = FALSE
  <1> DEFINE late == t \in loggedOut /\ ~IsAccessTokenRevoked(t)
  <1>1. late = FALSE
    <2>1. Valid(t)
      BY ONLY Auth(v, t), Zenon DEF Auth
    <2> QED
      BY <2>1 DEF Blacklisted, IsAccessTokenRevoked, Valid
  <1>2. visit' = [visit EXCEPT ![v] = [NoVisit EXCEPT
          !.pc = "load", !.account = owner[t], !.late = late]]
    BY ONLY Auth(v, t), Zenon DEF Auth
  <1> HIDE DEF late
  <1>3. visit'[v] = [NoVisit EXCEPT !.pc = "load", !.account = owner[t], !.late = late]
    BY <1>2, Zenon DEF Typed, TypeOK
  <1>4. \A w \in Visits : w # v => visit'[w] = visit[w]
    BY <1>2, Zenon DEF Typed, TypeOK
  <1>5. late \in BOOLEAN
    BY <1>1, Zenon
  <1>6. visit'[v].pc = "load" /\ visit'[v].late = late
    BY ONLY <1>3, <1>5 DEF NoVisit
  <1> QED
    BY ONLY <1>1, <1>4, <1>6, Zenon

LEMMA NextLate == Typed /\ Blacklisted /\ LoggedOutStaysOut /\ [Next]_vars => LoggedOutStaysOut'
  <1> SUFFICES ASSUME Typed, Blacklisted, LoggedOutStaysOut, [Next]_vars, NEW v \in Visits
               PROVE  ~visit'[v].late
    BY DEF LoggedOutStaysOut
  <1>1. CASE visit'[v] = visit[v] \/ visit'[v].late = visit[v].late
    BY <1>1, Zenon DEF LoggedOutStaysOut
  <1>2. CASE visit'[v] = NoVisit
    BY <1>2 DEF NoVisit
  <1>3. ASSUME NEW w \in Visits, VisitStep(w)
        PROVE  ~visit'[v].late
    BY <1>1, <1>2, <1>3, VisitFields, Zenon
  <1>4. ASSUME NEW w \in Visits, NEW t \in Tokens, Auth(w, t)
        PROVE  ~visit'[v].late
    BY <1>1, <1>4, AuthNotLate, Zenon
  <1>5. ASSUME NEW c \in Changes, Commit(c)
        PROVE  ~visit'[v].late
    <2>1. visit'[v] = visit[v] \/ visit'[v] = [visit[v] EXCEPT !.calm = FALSE]
      BY ONLY <1>5 DEF Commit
    <2>2. visit[v] \in VisitRecord /\ FALSE \in BOOLEAN
      BY Zenon DEF Typed, TypeOK
    <2> QED
      BY ONLY <1>1, <2>1, <2>2, CalmField, Zenon
  <1>6. CASE UNCHANGED visit
    BY <1>1, <1>6
  <1>7. ASSUME NEW c \in Changes, Request(c) \/ Invalidate(c) \/ Abandon(c)
        PROVE  UNCHANGED visit
    BY ONLY <1>7, Zenon DEF Request, Update, Delete, Begin, Invalidate, Abandon
  <1>8. ASSUME NEW a \in Accounts, Create(a) \/ Register(a) \/ Expire(a)
        PROVE  UNCHANGED visit
    BY ONLY <1>8, Zenon DEF Create, Register, Insert, Expire
  <1>9. ASSUME NEW t \in Tokens, RevokeAccessToken(t) \/ \E a \in Accounts : Issue(t, a)
        PROVE  UNCHANGED visit
    BY ONLY <1>9, Zenon DEF RevokeAccessToken, Issue
  <1>10. Tick \/ UNCHANGED vars => UNCHANGED visit
    BY Zenon DEF Tick, vars
  <1> QED
    BY <1>3, <1>4, <1>5, <1>6, <1>7, <1>8, <1>9, <1>10 DEF Next, ChangeStep

\* No request gets past Auth with a token that was blacklisted at logout, unless
\* the blacklist does not answer.
THEOREM LogoutIsFinal == Spec => []LoggedOutStaysOut
  <1>1. Init => Blacklisted /\ LoggedOutStaysOut
    BY DEF Init, Blacklisted, LoggedOutStaysOut, NoVisit
  <1> QED
    BY <1>1, SpecTyped, NextBlacklisted, NextLate, PTL DEF Spec

-----------------------------------------------------------------------------
(* The account cache *)

\* A row that a calm visit has read is still as it was read.
ReadRight(v) ==
  visit[v].pc = "store" /\ visit[v].calm => visit[v].seen = standing[visit[v].account]

\* A calm entry is of a row that was inserted, and right or about to be deleted.
CalmRight(a) ==
  cache[a].calm =>
    /\ standing[a] # "absent"
    /\ Invalidating(a) \/ cache[a].standing = standing[a]

CacheInv ==
  faults = 0 =>
    (\A v \in Visits : ReadRight(v)) /\ \A a \in Accounts : CalmRight(a)

LEMMA NoEntryNotCalm == ~NoEntry.calm
  BY DEF NoEntry

\* Steps of requests that neither write an entry nor a row.
LEMMA ReadRightStep ==
  ASSUME Typed, NEW v \in Visits, NEW w \in Visits, ReadRight(w), UNCHANGED standing,
         VisitStep(v) \/ \E t \in Tokens : Auth(v, t), Blacklisted
  PROVE  ReadRight(w)'
  <1> USE DEF Typed, TypeOK, VisitRecord, ReadRight
  <1>1. CASE visit'[w] = visit[w]
    BY <1>1
  <1>2. CASE visit'[w].pc # "store"
    BY <1>2
  <1>3. ASSUME NEW t \in Tokens, Auth(v, t)
        PROVE  ReadRight(w)'
    BY ONLY <1>1, <1>2, <1>3, AuthNotLate, Typed, Blacklisted, Zenon
  <1>4. CASE Hit(v) \/ Store(v)
    <2>1. PICK s : Decide(v, s)
      BY ONLY <1>4, Zenon DEF Hit, Store
    <2>2. w = v => visit'[w].pc # "store"
      BY <2>1 DEF Decide, NoVisit
    <2>3. w # v => visit'[w] = visit[w]
      BY <2>1 DEF Decide
    <2> QED
      BY <1>1, <1>2, <2>2, <2>3, Zenon
  <1>5. CASE Miss(v)
    BY <1>1, <1>2, <1>5 DEF Miss
  <1>6. CASE Leave(v)
    BY <1>1, <1>2, <1>6 DEF Leave, NoVisit
  <1>7. CASE ReadRow(v)
    <2>1. CASE w # v \/ ~Found(visit[v].account)
      BY <1>1, <1>2, <1>7, <2>1 DEF ReadRow, NoVisit
    <2>2. CASE w = v /\ Found(visit[v].account)
      BY <1>7, <2>2, TRUE \in BOOLEAN DEF ReadRow
    <2> QED
      BY <2>1, <2>2
  <1> QED
    BY <1>3, <1>4, <1>5, <1>6, <1>7 DEF VisitStep

\* A transaction makes every visit that has read the row not calm, and is
\* followed by an invalidation.
LEMMA CommitCacheInv ==
  ASSUME Typed, CacheInv, NEW c \in Changes, Commit(c)
  PROVE  CacheInv'
  <1> DEFINE a == change[c].account
  <1> SUFFICES ASSUME faults' = 0
               PROVE  (\A v \in Visits : ReadRight(v)') /\ \A b \in Accounts : CalmRight(b)'
    BY Zenon DEF CacheInv
  <1>1. faults = 0 /\ UNCHANGED cache
    BY DEF Commit
  <1>2. a \in Accounts /\ \A b \in Accounts : b # a => standing'[b] = standing[b]
    BY DEF Commit, Typed, TypeOK, ChangeSound
  <1>3. ASSUME NEW v \in Visits
        PROVE  ReadRight(v)'
    <2>1. CASE visit[v].account = a
      <3>1. visit'[v] = [visit[v] EXCEPT !.calm = FALSE]
        BY ONLY <2>1, Commit(c) DEF Commit
      <3>2. visit[v] \in VisitRecord /\ FALSE \in BOOLEAN
        BY Zenon DEF Typed, TypeOK
      <3>3. visit'[v].calm = FALSE
        BY ONLY <3>1, <3>2, CalmField, Zenon
      <3> QED
        BY <3>3, Zenon DEF ReadRight
    <2>2. CASE visit[v].account # a
      <3>1. visit'[v] = visit[v]
        BY ONLY <2>2, Commit(c) DEF Commit
      <3>2. visit[v].pc = "store" => visit[v].account \in Accounts
        BY DEF Typed, VisitSound
      <3> QED
        BY <1>1, <1>2, <2>2, <3>1, <3>2, Zenon DEF CacheInv, ReadRight
    <2> QED
      BY <2>1, <2>2
  <1>4. ASSUME NEW b \in Accounts
        PROVE  CalmRight(b)'
    <2>1. Invalidating(b) => Invalidating(b)'
      BY DEF Invalidating, Commit, Committed, Typed, TypeOK
    <2>2. b = a => Invalidating(b)'
      BY DEF Invalidating, Commit, Committed, Typed, TypeOK
    <2>3. standing[b] # "absent" => standing'[b] # "absent"
      BY DEF Commit, Typed, TypeOK, ChangeSound, ChangeRecord, Rows
    <2> QED
      BY <1>1, <1>2, <2>1, <2>2, <2>3, Zenon DEF CacheInv, CalmRight
  <1> QED
    BY <1>3, <1>4

\* An invalidation that succeeds leaves nothing behind.
LEMMA InvalidateCacheInv ==
  ASSUME Typed, CacheInv, NEW c \in Changes, Invalidate(c), faults' = 0
  PROVE  CacheInv'
  <1> DEFINE a == change[c].account
  <1>1. faults = 0 /\ cache' = [cache EXCEPT ![a] = NoEntry] /\ UNCHANGED <<standing, visit>>
    BY DEF Invalidate, Fault, Typed, TypeOK
  <1>2. a \in Accounts
    BY DEF Invalidate, Typed, ChangeSound
  <1>3. ASSUME NEW b \in Accounts
        PROVE  CalmRight(b)'
    <2>1. CASE b = a
      <3>1. cache'[b] = NoEntry
        BY <1>1, <1>2, <2>1, Zenon DEF Typed, TypeOK
      <3> QED
        BY <3>1, NoEntryNotCalm, Zenon DEF CalmRight
    <2>2. CASE b # a
      <3>1. cache'[b] = cache[b]
        BY <1>1, <1>2, <2>2, Zenon DEF Typed, TypeOK
      <3>2. Invalidating(b) => Invalidating(b)'
        BY <2>2 DEF Invalidating, Invalidate, NoChange, Typed, TypeOK
      <3> QED
        BY <1>1, <3>1, <3>2, Zenon DEF CacheInv, CalmRight
    <2> QED
      BY <2>1, <2>2
  <1> QED
    BY <1>1, <1>3, Zenon DEF CacheInv, ReadRight

\* A fill writes what the visit has read.
LEMMA StoreCacheInv ==
  ASSUME Typed, CacheInv, NEW v \in Visits, Store(v), NEW a \in Accounts, faults = 0
  PROVE  CalmRight(a)'
  <1>1. UNCHANGED <<standing, change>> /\ (Invalidating(a) => Invalidating(a)')
    BY Zenon DEF Store, Invalidating
  <1>2. CASE cache'[a] = cache[a]
    BY <1>1, <1>2, Zenon DEF CacheInv, CalmRight
  <1>3. CASE cache'[a] # cache[a]
    <2>1. /\ a = visit[v].account
          /\ cache'[a] = [standing |-> visit[v].seen, calm |-> visit[v].calm,
                          expires |-> HasTTL]
      BY <1>3, Zenon DEF Store, Typed, TypeOK
    <2>2. cache'[a].calm = visit[v].calm /\ cache'[a].standing = visit[v].seen
      <3>1. visit[v].calm \in BOOLEAN /\ HasTTL \in BOOLEAN
        BY DEF Typed, TypeOK, VisitRecord, HasTTL
      <3> QED
        BY ONLY <2>1, <3>1
    <2>3. visit[v].pc = "store" /\ visit[v].seen \in Rows
      BY Zenon DEF Store, Typed, VisitSound
    <2>4. visit[v].seen # "absent"
      BY <2>3 DEF Rows
    <2> QED
      BY <1>1, <2>1, <2>2, <2>3, <2>4, Zenon DEF CacheInv, ReadRight, CalmRight
  <1> QED
    BY <1>2, <1>3

LEMMA NextCacheInv == Typed /\ Blacklisted /\ CacheInv /\ [Next]_vars => CacheInv'
  <1> SUFFICES ASSUME Typed, Blacklisted, CacheInv, [Next]_vars, faults' = 0
               PROVE  CacheInv'
    BY Zenon DEF CacheInv
  <1>1. CASE UNCHANGED <<standing, cache, change, visit, faults>>
    BY <1>1, Zenon DEF CacheInv, ReadRight, CalmRight, Invalidating
  <1>2. ASSUME NEW v \in Visits, VisitStep(v) \/ \E t \in Tokens : Auth(v, t)
        PROVE  CacheInv'
    <2>1. UNCHANGED <<standing, change>>
      BY ONLY <1>2, Zenon DEF VisitStep, Hit, Miss, ReadRow, Store, Leave, Auth
    <2>2. faults = 0
      <3>1. UNCHANGED faults \/ Fault
        BY ONLY <1>2, Zenon DEF VisitStep, Hit, Miss, ReadRow, Store, Leave, Auth
      <3> QED
        BY <3>1 DEF Fault, Typed, TypeOK
    <2>3. Store(v) \/ UNCHANGED cache
      BY ONLY <1>2, Zenon DEF VisitStep, Hit, Miss, ReadRow, Store, Leave, Auth
    <2>4. \A w \in Visits : ReadRight(w)'
      BY <1>2, <2>1, <2>2, ReadRightStep, Zenon DEF CacheInv
    <2>5. ASSUME NEW a \in Accounts
          PROVE  CalmRight(a)'
      <3>1. CASE UNCHANGED cache
        BY <2>1, <2>2, <3>1, Zenon DEF CacheInv, CalmRight, Invalidating
      <3> QED
        BY <2>2, <2>3, <3>1, StoreCacheInv
    <2> QED
      BY <2>4, <2>5, Zenon DEF CacheInv
  <1>3. ASSUME NEW c \in Changes, NEW a \in Accounts, NEW s \in Rows \cup {"deleted"},
               Begin(c, a, s)
        PROVE  CacheInv'
    <2>1. ASSUME NEW b \in Accounts
          PROVE  Invalidating(b) => Invalidating(b)'
      BY <1>3 DEF Begin, Invalidating, Typed, TypeOK
    <2> QED
      BY <1>3, <2>1, Zenon DEF Begin, CacheInv, ReadRight, CalmRight
  <1>4. ASSUME NEW c \in Changes, Abandon(c)
        PROVE  FALSE
    BY <1>4 DEF Abandon, Fault, Typed, TypeOK
  <1>5. ASSUME NEW a \in Accounts, NEW s \in {"console", "user"}, Insert(a, s)
        PROVE  CacheInv'
    <2>1. /\ standing[a] = "absent" /\ UNCHANGED <<cache, change, visit, faults>>
          /\ \A b \in Accounts : b # a => standing'[b] = standing[b]
      BY <1>5 DEF Insert, Typed, TypeOK
    <2>2. ASSUME NEW b \in Accounts
          PROVE  CalmRight(b)'
      BY <2>1, Zenon DEF CacheInv, CalmRight, Invalidating
    <2>3. ASSUME NEW v \in Visits
          PROVE  ReadRight(v)'
      <3>1. visit[v].pc = "store" => visit[v].account \in Accounts /\ visit[v].seen # "absent"
        BY DEF Typed, VisitSound, Rows
      <3> QED
        BY <2>1, <3>1, Zenon DEF CacheInv, ReadRight
    <2> QED
      BY <2>2, <2>3, Zenon DEF CacheInv
  <1>6. ASSUME NEW a \in Accounts, Expire(a)
        PROVE  CacheInv'
    <2>1. UNCHANGED <<standing, change, visit, faults>>
      BY <1>6, Zenon DEF Expire
    <2>2. ASSUME NEW b \in Accounts
          PROVE  CalmRight(b)'
      <3>1. cache'[b] = cache[b] \/ cache'[b] = NoEntry
        BY <1>6, Zenon DEF Expire, Typed, TypeOK
      <3> QED
        BY <2>1, <3>1, NoEntryNotCalm, Zenon DEF CacheInv, CalmRight, Invalidating
    <2> QED
      BY <2>1, <2>2, Zenon DEF CacheInv, ReadRight
  <1>7. ASSUME NEW t \in Tokens, RevokeAccessToken(t) \/ \E a \in Accounts : Issue(t, a)
        PROVE  CacheInv'
    BY <1>1, <1>7, Zenon DEF RevokeAccessToken, Issue
  <1>8. Tick \/ UNCHANGED vars => CacheInv'
    BY <1>1, Zenon DEF Tick, vars
  <1> QED
    BY <1>2, <1>3, <1>4, <1>5, <1>6, <1>7, <1>8, CommitCacheInv, InvalidateCacheInv
       DEF Next, Request, Update, Delete, ChangeStep, Create, Register

\* Without failed calls, an entry that no commit overlapped is right as soon as
\* the changes of its account have deleted the key.
THEOREM CacheFollowsChanges == Spec => []CachedAccountRight
  <1>1. Init => Blacklisted /\ CacheInv
    BY DEF Init, Blacklisted, CacheInv, ReadRight, CalmRight, NoVisit, NoEntry
  <1>2. CacheInv => CachedAccountRight
    BY Zenon DEF CacheInv, CalmRight, CachedAccountRight
  <1> QED
    BY <1>1, <1>2, SpecTyped, NextBlacklisted, NextCacheInv, PTL DEF Spec
=============================================================================
