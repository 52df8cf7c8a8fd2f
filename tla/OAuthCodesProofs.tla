---------------------------- MODULE OAuthCodesProofs ----------------------------
(***************************************************************************)
(* Proofs about OAuthCodes, for any apps, codes and requests, life of a    *)
(* code, length of the behaviour and number of failed cache calls.         *)
(***************************************************************************)
EXTENDS OAuthCodes, FiniteSetTheorems, TLAPS

-----------------------------------------------------------------------------
(* Types, and what a handler that has begun holds *)

Sound(q) ==
  ~At(q, "idle") =>
    request[q].app \in Apps /\ request[q].code \in Codes /\ Issued(request[q].code)

Typed == TypeOK /\ \A q \in Requests : Sound(q)

LEMMA InitTyped == Init => Typed
  BY OAuthCodesAssumption
     DEF Init, Typed, TypeOK, Sound, At, NoGrant, Grant, NoCounter, Counter, Idle,
         Request, Steps

\* What a handler that has passed the credential check holds.
LEMMA Holds ==
  ASSUME Typed, NEW q \in Requests, ~At(q, "idle")
  PROVE  /\ request[q].code \in Codes
         /\ request[q].app \in Apps
         /\ Issued(request[q].code)
  BY DEF Typed, Sound

\* A step moves one request and nothing else.
LEMMA Moved ==
  ASSUME Typed, NEW q \in Requests, NEW pc \in Steps, Goto(q, pc)
  PROVE  /\ request' \in [Requests -> Request]
         /\ request'[q] = [pc |-> pc, app |-> request[q].app, code |-> request[q].code]
         /\ \A r \in Requests \ {q} : request'[r] = request[r]
  BY DEF Typed, TypeOK, Request, Goto

\* Codes keep their claims, and a handler its code, while requests move.
LEMMA StaysSound ==
  ASSUME Typed, NEW q \in Requests, ~At(q, "idle"), NEW pc \in Steps, Goto(q, pc),
         UNCHANGED code
  PROVE  /\ request' \in [Requests -> Request]
         /\ \A r \in Requests : Sound(r)'
  <1>1. /\ request' \in [Requests -> Request]
        /\ request'[q] = [pc |-> pc, app |-> request[q].app, code |-> request[q].code]
        /\ \A r \in Requests \ {q} : request'[r] = request[r]
    BY Moved
  <1>2. request[q].code \in Codes /\ request[q].app \in Apps /\ Issued(request[q].code)
    BY Holds
  <1>3. Sound(q)'
    BY <1>1, <1>2 DEF Sound, At, Issued
  <1>4. ASSUME NEW r \in Requests \ {q}
        PROVE  Sound(r)'
    BY <1>1, <1>4 DEF Typed, Sound, At, Issued
  <1> QED
    BY <1>1, <1>3, <1>4

\* A handler that has passed the credential check.
LEMMA HandlerTyped ==
  ASSUME Typed, NEW q \in Requests, RequestStep(q)
  PROVE  Typed'
  <1> DEFINE c == request[q].code
  <1>0. ~At(q, "idle") => c \in Codes
    BY Holds
  <1>1. ASSUME NEW a \in Apps, NEW d \in Codes, VerifyCredential(q, a, d)
        PROVE  Typed'
    BY <1>1 DEF VerifyCredential, Typed, TypeOK, Sound, At, Issued, Request, Steps
  <1>2. CASE CountUse(q)
    <2>1. ~At(q, "idle") /\ UNCHANGED code
      BY <1>2 DEF CountUse, At
    <2>2. PICK pc \in Steps : Goto(q, pc)
      BY <1>2 DEF CountUse, LetThrough, Steps
    <2>3. consumed' \in [Codes -> Counter]
      BY <1>0, <1>2, <2>1 DEF CountUse, Typed, TypeOK, Counter
    <2>4. spent' \in [Codes -> Nat]
      BY <1>0, <1>2, <2>1 DEF CountUse, Typed, TypeOK
    <2>5. unchecked' \in [Codes -> Nat]
      BY <1>0, <1>2, <2>1 DEF CountUse, LetThrough, Typed, TypeOK
    <2>6. faults' \in 0..MaxFaults
      BY <1>2, OAuthCodesAssumption DEF CountUse, Fault, Typed, TypeOK
    <2> QED
      BY <1>2, <2>1, <2>2, <2>3, <2>4, <2>5, <2>6, StaysSound DEF CountUse, Typed, TypeOK
  <1>3. CASE ExpireCounter(q)
    <2>1. ~At(q, "idle") /\ UNCHANGED code /\ Goto(q, "read")
      BY <1>3 DEF ExpireCounter, At
    <2>2. consumed' \in [Codes -> Counter] /\ faults' \in 0..MaxFaults
      BY <1>0, <1>3, <2>1, OAuthCodesAssumption
         DEF ExpireCounter, KeyLifetime, Fault, Typed, TypeOK, Counter
    <2> QED
      BY <1>3, <2>1, <2>2, StaysSound DEF ExpireCounter, Typed, TypeOK, Steps
  <1>4. CASE ReadCounter(q)
    <2>1. ~At(q, "idle") /\ UNCHANGED code
      BY <1>4 DEF ReadCounter, At
    <2>2. PICK pc \in Steps : Goto(q, pc)
      BY <1>4 DEF ReadCounter, LetThrough, Steps
    <2>3. unchecked' \in [Codes -> Nat] /\ faults' \in 0..MaxFaults
      BY <1>0, <1>4, <2>1, OAuthCodesAssumption
         DEF ReadCounter, LetThrough, Fault, Typed, TypeOK
    <2> QED
      BY <1>4, <2>1, <2>2, <2>3, StaysSound DEF ReadCounter, Typed, TypeOK
  <1>5. CASE IssueToken(q)
    <2>1. ~At(q, "idle") /\ UNCHANGED code /\ Goto(q, "done")
      BY <1>5 DEF IssueToken, At, Finish
    <2>2. tokens' \in [Codes -> SUBSET Requests]
      BY <1>0, <1>5, <2>1 DEF IssueToken, Typed, TypeOK
    <2> QED
      BY <1>5, <2>1, <2>2, StaysSound DEF IssueToken, Typed, TypeOK, Steps
  <1>6. CASE Abandon(q)
    BY <1>6, StaysSound DEF Abandon, Finish, At, Typed, TypeOK, Steps
  <1> QED
    BY <1>1, <1>2, <1>3, <1>4, <1>5, <1>6 DEF RequestStep

LEMMA StepTyped ==
  ASSUME Typed, [Next]_vars
  PROVE  Typed'
  <1> USE OAuthCodesAssumption DEF Typed, TypeOK, Sound, At, Issued, Grant, Counter
  <1>1. ASSUME NEW a \in Apps, NEW c \in Codes, Authorize(a, c)
        PROVE  Typed'
    BY <1>1 DEF Authorize
  <1>2. ASSUME NEW q \in Requests, RequestStep(q)
        PROVE  Typed'
    BY <1>2, HandlerTyped
  <1>3. ASSUME NEW a \in Apps, NEW state \in {"code", "client", "off"},
               UpdateApp(a, state)
        PROVE  Typed'
    BY <1>3 DEF UpdateApp
  <1>4. CASE Tick
    BY <1>4 DEF Tick, NoCounter
  <1>5. CASE UNCHANGED vars
    BY <1>5 DEF vars
  <1> QED
    BY <1>1, <1>2, <1>3, <1>4, <1>5 DEF Next

\* Every variable has its type in every reachable state.
THEOREM TypeCorrect == Spec => []TypeOK
  <1>1. Spec => []Typed
    BY InitTyped, StepTyped, PTL DEF Spec
  <1>2. Typed => TypeOK
    BY DEF Typed
  <1> QED
    BY <1>1, <1>2, PTL

-----------------------------------------------------------------------------
(* Who holds a token, and who was refused *)

\* A handler that issued a token is over, and was the app of the code.
TokensRight ==
  \A c \in Codes : \A q \in tokens[c] :
    At(q, "done") /\ request[q].code = c /\ request[q].app = code[c].app

\* The counter never runs ahead of the handlers, whatever the cache forgets.
CountsReal ==
  /\ \A c \in Codes : consumed[c].n <= spent[c]
  /\ RefusedOnlyIfUsed

Answered == Typed /\ TokensRight /\ CountsReal

LEMMA InitAnswered == Init => Answered
  <1> SUFFICES ASSUME Init PROVE Answered
    OBVIOUS
  <1>1. Typed
    BY InitTyped
  <1>2. TokensRight
    BY DEF Init, TokensRight
  <1>3. CountsReal
    BY DEF Init, CountsReal, RefusedOnlyIfUsed, At, Idle, NoCounter
  <1> QED
    BY <1>1, <1>2, <1>3 DEF Answered

\* A request moves on before its answer, and counters may only grow.
LEMMA Moving ==
  ASSUME Typed, TokensRight, RefusedOnlyIfUsed,
         NEW q \in Requests, ~At(q, "idle"), ~At(q, "done"),
         NEW pc \in Steps \ {"refused"}, Goto(q, pc), UNCHANGED <<code, tokens>>,
         spent' \in [Codes -> Nat], \A c \in Codes : spent[c] <= spent'[c]
  PROVE  TokensRight' /\ RefusedOnlyIfUsed'
  <1>1. /\ request'[q].pc # "refused"
        /\ \A r \in Requests \ {q} : request'[r] = request[r]
    <2>1. /\ request'[q] = [pc |-> pc, app |-> request[q].app, code |-> request[q].code]
          /\ \A r \in Requests \ {q} : request'[r] = request[r]
      BY Moved
    <2> QED
      BY <2>1
  <1>2. ASSUME NEW c \in Codes, NEW r \in tokens[c]
        PROVE  request'[r] = request[r]
    BY <1>1, <1>2 DEF Typed, TypeOK, TokensRight, At
  <1>3. TokensRight'
    BY <1>2 DEF TokensRight, At
  <1>4. ASSUME NEW r \in Requests, At(r, "refused")'
        PROVE  spent'[request'[r].code] >= 2
    <2>1. request'[r] = request[r] /\ At(r, "refused")
      BY <1>1, <1>4 DEF At
    <2>2. request[r].code \in Codes
      BY <2>1, Holds DEF At
    <2>3. spent[request[r].code] >= 2
      BY <2>1 DEF RefusedOnlyIfUsed
    <2> QED
      BY <2>1, <2>2, <2>3 DEF Typed, TypeOK
  <1> QED
    BY <1>3, <1>4 DEF RefusedOnlyIfUsed

LEMMA HandlerAnswered ==
  ASSUME Answered, NEW q \in Requests, RequestStep(q)
  PROVE  TokensRight' /\ CountsReal'
  <1> DEFINE c == request[q].code
  <1>0. Typed /\ TokensRight /\ CountsReal /\ RefusedOnlyIfUsed
    BY DEF Answered, CountsReal
  <1>a. spent \in [Codes -> Nat] /\ \A d \in Codes : spent[d] <= spent[d]
    BY <1>0 DEF Typed, TypeOK
  <1>1. ASSUME NEW a \in Apps, NEW d \in Codes, VerifyCredential(q, a, d)
        PROVE  TokensRight' /\ CountsReal'
    BY <1>0, <1>1 DEF VerifyCredential, Typed, TypeOK, At, TokensRight, CountsReal,
                      RefusedOnlyIfUsed
  <1>2. ASSUME NEW pc \in Steps \ {"refused"}, Goto(q, pc), ~At(q, "idle"), ~At(q, "done"),
               UNCHANGED <<code, tokens, spent>>,
               \A d \in Codes : consumed'[d].n = consumed[d].n
        PROVE  TokensRight' /\ CountsReal'
    <2>1. TokensRight' /\ RefusedOnlyIfUsed'
      BY <1>0, <1>2, <1>a, Moving
    <2> QED
      BY <1>0, <1>2, <2>1 DEF CountsReal
  <1>3. CASE CountUse(q)
    <2>0. At(q, "count") /\ UNCHANGED <<code, tokens>>
      BY <1>3 DEF CountUse
    <2>1. CASE UNCHANGED <<consumed, spent>> /\ Goto(q, "check")
      BY <1>2, <2>0, <2>1 DEF At, Steps
    <2>2. CASE /\ consumed' = [consumed EXCEPT ![c].n = @ + 1]
               /\ spent' = [spent EXCEPT ![c] = @ + 1]
               /\ Goto(q, "expire")
      <3>1. c \in Codes
        BY <1>0, <2>0, Holds DEF At
      <3>2. /\ spent' \in [Codes -> Nat]
            /\ \A d \in Codes : spent[d] <= spent'[d]
            /\ \A d \in Codes : consumed'[d].n <= spent'[d]
        BY <1>0, <2>2, <3>1 DEF CountsReal, Typed, TypeOK, Counter
      <3>3. "expire" \in Steps \ {"refused"} /\ ~At(q, "idle") /\ ~At(q, "done")
        BY <2>0 DEF Steps, At
      <3>4. TokensRight' /\ RefusedOnlyIfUsed'
        BY <1>0, <2>0, <2>2, <3>2, <3>3, Moving
      <3> QED
        BY <3>2, <3>4 DEF CountsReal
    <2> QED
      BY <1>3, <2>1, <2>2 DEF CountUse, LetThrough
  <1>4. CASE ExpireCounter(q)
    <2>1. \A d \in Codes : consumed'[d].n = consumed[d].n
      BY <1>0, <1>4 DEF ExpireCounter, Typed, TypeOK, Counter
    <2> QED
      BY <1>2, <1>4, <2>1 DEF ExpireCounter, At, Steps
  <1>5. CASE ReadCounter(q)
    <2>0. At(q, "read") /\ UNCHANGED <<code, tokens, consumed, spent>>
      BY <1>5 DEF ReadCounter
    <2>1. CASE Goto(q, "check")
      BY <1>2, <2>0, <2>1 DEF At, Steps
    <2>2. CASE consumed[c].n # 0 /\ ~FirstUse(consumed[c].n) /\ Goto(q, "refused")
      <3>1. c \in Codes
        BY <1>0, <2>0, Holds DEF At
      <3>2. consumed[c].n \in Nat /\ spent[c] \in Nat
        BY <1>0, <3>1 DEF Typed, TypeOK, Counter
      <3>3. consumed[c].n <= spent[c] /\ consumed[c].n # 0 /\ consumed[c].n # 1
        BY <1>0, <2>2, <3>1 DEF CountsReal, FirstUse
      <3>4. spent[c] >= 2
        BY <3>2, <3>3
      <3>5. /\ request'[q] = [pc |-> "refused", app |-> request[q].app, code |-> c]
            /\ \A r \in Requests \ {q} : request'[r] = request[r]
        <4>1. "refused" \in Steps
          BY DEF Steps
        <4> QED
          BY <1>0, <2>2, <4>1, Moved
      <3>6. RefusedOnlyIfUsed'
        BY <1>0, <2>0, <3>4, <3>5 DEF RefusedOnlyIfUsed, At
      <3>7. TokensRight'
        BY <1>0, <2>0, <3>5 DEF TokensRight, At, Typed, TypeOK
      <3> QED
        BY <1>0, <2>0, <3>6, <3>7 DEF CountsReal
    <2> QED
      BY <1>5, <2>1, <2>2 DEF ReadCounter, LetThrough
  <1>6. CASE IssueToken(q)
    <2>1. At(q, "check") /\ Goto(q, "done") /\ UNCHANGED <<code, consumed, spent>>
      BY <1>6 DEF IssueToken, Finish
    <2>2. c \in Codes
      BY <1>0, <2>1, Holds DEF At
    <2>3. \A d \in Codes : \A r \in tokens'[d] :
            r \in tokens[d] \/ (r = q /\ d = c /\ request[q].app = code[c].app)
      <3>1. \/ UNCHANGED tokens
            \/ /\ tokens' = [tokens EXCEPT ![c] = @ \cup {q}]
               /\ request[q].app = code[c].app
        BY <1>6 DEF IssueToken, Granted
      <3> QED
        BY <1>0, <2>2, <3>1 DEF Typed, TypeOK
    <2>4. /\ request'[q] = [pc |-> "done", app |-> request[q].app, code |-> c]
          /\ \A r \in Requests \ {q} : request'[r] = request[r]
      <3>1. "done" \in Steps
        BY DEF Steps
      <3> QED
        BY <1>0, <2>1, <3>1, Moved
    <2>5. TokensRight'
      BY <1>0, <2>1, <2>3, <2>4 DEF TokensRight, At, Typed, TypeOK
    <2>6. RefusedOnlyIfUsed'
      BY <1>0, <2>1, <2>4 DEF RefusedOnlyIfUsed, At
    <2> QED
      BY <1>0, <2>1, <2>5, <2>6 DEF CountsReal
  <1>7. CASE Abandon(q)
    BY <1>2, <1>7 DEF Abandon, Finish, At, Steps
  <1> QED
    BY <1>1, <1>3, <1>4, <1>5, <1>6, <1>7 DEF RequestStep

LEMMA StepAnswered ==
  ASSUME Answered, [Next]_vars
  PROVE  Answered'
  <1> USE DEF Answered, Typed, TypeOK, Sound, TokensRight, CountsReal,
              RefusedOnlyIfUsed, At, Issued, Grant, Counter
  <1>0. Typed'
    BY StepTyped
  <1>1. ASSUME NEW a \in Apps, NEW c \in Codes, Authorize(a, c)
        PROVE  TokensRight' /\ CountsReal'
    BY <1>1 DEF Authorize
  <1>2. ASSUME NEW q \in Requests, RequestStep(q)
        PROVE  TokensRight' /\ CountsReal'
    BY <1>2, HandlerAnswered
  <1>3. ASSUME NEW a \in Apps, NEW state \in {"code", "client", "off"},
               UpdateApp(a, state)
        PROVE  TokensRight' /\ CountsReal'
    BY <1>3 DEF UpdateApp
  <1>4. CASE Tick
    BY <1>4 DEF Tick, NoCounter
  <1>5. CASE UNCHANGED vars
    BY <1>5 DEF vars
  <1> QED
    BY <1>0, <1>1, <1>2, <1>3, <1>4, <1>5 DEF Next

LEMMA AlwaysAnswered == Spec => []Answered
  BY InitAnswered, StepAnswered, PTL DEF Spec

\* Only the app a user authorized comes out of an exchange with a token,
\* whichever apps present the code, in whatever order.
THEOREM TokenGoesToAuthorizedApp == Spec => []TokenForAuthorizedApp
  <1>1. Answered => TokenForAuthorizedApp
    BY DEF Answered, TokensRight, TokenForAuthorizedApp
  <1> QED
    BY <1>1, AlwaysAnswered, PTL

\* Nobody is told that a code is used before two handlers have counted it.
THEOREM RefusalIsRight == Spec => []RefusedOnlyIfUsed
  <1>1. Answered => RefusedOnlyIfUsed
    BY DEF Answered, CountsReal
  <1> QED
    BY <1>1, AlwaysAnswered, PTL

-----------------------------------------------------------------------------
(* One exchange *)

\* Requests the counter has let pass.
Passed(c) == {q \in Requests : request[q].code = c /\ At(q, "check")} \cup tokens[c]

\* q has counted c and not read the counter yet.
Counting(q, c) == request[q].code = c /\ (At(q, "expire") \/ At(q, "read"))

\* Why a code is exchanged once.  While it is valid its counter is not forgotten
\* (CounterKept): it is made no earlier than the code and lives as long.  So a
\* handler that reads 1 is the first and only one that counts, and nobody has
\* passed before it but the unchecked (OneAtATime).
CounterKept(c) ==
  /\ consumed[c].until = 0 \/ code[c].expires <= consumed[c].until
  /\ \A q \in Requests : Counting(q, c) => consumed[c].n >= 1

OneAtATime(c) ==
  /\ consumed[c].n = 0 => Cardinality(Passed(c)) <= unchecked[c]
  /\ consumed[c].n = 1 =>
       \A q, r \in Requests :
         Counting(q, c) /\ Counting(r, c) =>
           q = r /\ Cardinality(Passed(c)) <= unchecked[c]

CodeInv(c) ==
  /\ IsFiniteSet(Passed(c))
  /\ Cardinality(Passed(c)) <= 1 + unchecked[c]
  /\ code[c].expires <= now + CodeTTL
  /\ ~Issued(c) => consumed[c] = NoCounter /\ Passed(c) = {}
  /\ now < code[c].expires => CounterKept(c) /\ OneAtATime(c)

ExchangeInv == Answered /\ \A c \in Codes : CodeInv(c)

LEMMA InitExchange == Init => ExchangeInv
  <1> SUFFICES ASSUME Init PROVE ExchangeInv
    OBVIOUS
  <1>1. Answered
    BY InitAnswered
  <1>2. ASSUME NEW c \in Codes
        PROVE  CodeInv(c)
    <2>1. Passed(c) = {}
      BY DEF Init, Passed, At, Idle
    <2>2. /\ unchecked[c] = 0 /\ code[c].expires = 0 /\ now = 0
          /\ consumed[c] = NoCounter
      BY DEF Init, NoGrant
    <2>3. IsFiniteSet(Passed(c)) /\ Cardinality(Passed(c)) = 0
      BY <2>1, FS_EmptySet
    <2> QED
      BY <2>1, <2>2, <2>3, OAuthCodesAssumption DEF CodeInv
  <1> QED
    BY <1>1, <1>2 DEF ExchangeInv

LEMMA PassedFewer ==
  ASSUME NEW c, IsFiniteSet(Passed(c)), Passed(c)' \subseteq Passed(c)
  PROVE  /\ IsFiniteSet(Passed(c)') /\ Cardinality(Passed(c)') <= Cardinality(Passed(c))
         /\ Cardinality(Passed(c)) \in Nat /\ Cardinality(Passed(c)') \in Nat
  <1> DEFINE S == Passed(c)
             T == Passed(c)'
  <1>1. IsFiniteSet(S) /\ T \in SUBSET S
    OBVIOUS
  <1>2. IsFiniteSet(T) /\ Cardinality(T) <= Cardinality(S)
    <2> HIDE DEF S, T
    <2> QED
      BY <1>1, FS_Subset
  <1>3. Cardinality(S) \in Nat /\ Cardinality(T) \in Nat
    <2> HIDE DEF S, T
    <2> QED
      BY <1>1, <1>2, FS_CardinalityType
  <1> QED
    BY <1>2, <1>3

LEMMA PassedOneMore ==
  ASSUME NEW c, NEW q, IsFiniteSet(Passed(c)), Passed(c)' \subseteq Passed(c) \cup {q}
  PROVE  /\ IsFiniteSet(Passed(c)') /\ Cardinality(Passed(c)') <= Cardinality(Passed(c)) + 1
         /\ Cardinality(Passed(c)) \in Nat /\ Cardinality(Passed(c)') \in Nat
  <1> DEFINE S == Passed(c)
             T == Passed(c)'
  <1>1. IsFiniteSet(S) /\ T \in SUBSET (S \cup {q})
    OBVIOUS
  <1> HIDE DEF S, T
  <1>2. IsFiniteSet(S \cup {q}) /\ Cardinality(S) \in Nat
    BY <1>1, FS_AddElement, FS_CardinalityType
  <1>3. Cardinality(S \cup {q}) <= Cardinality(S) + 1 /\ Cardinality(S \cup {q}) \in Nat
    BY <1>1, <1>2, FS_AddElement, FS_CardinalityType
  <1>4. IsFiniteSet(T) /\ Cardinality(T) <= Cardinality(S \cup {q})
    BY <1>1, <1>2, FS_Subset
  <1>5. Cardinality(T) \in Nat
    BY <1>4, FS_CardinalityType
  <1>6. Cardinality(T) <= Cardinality(S) + 1
    BY <1>2, <1>3, <1>4, <1>5
  <1> QED
    BY <1>2, <1>4, <1>5, <1>6 DEF S, T

LEMMA Numbers ==
  ASSUME Typed, NEW c \in Codes
  PROVE  /\ consumed[c].n \in Nat /\ consumed[c].until \in Nat /\ unchecked[c] \in Nat
         /\ code[c].expires \in Nat /\ now \in Nat
  BY DEF Typed, TypeOK, Counter, Grant

\* A step that neither counts c nor lets a request pass.
LEMMA QuietStep ==
  ASSUME Typed, Typed', NEW c \in Codes, CodeInv(c),
         code'[c] = code[c], now <= now', unchecked'[c] = unchecked[c],
         Passed(c)' \subseteq Passed(c),
         \A r \in Requests : Counting(r, c)' => Counting(r, c),
         now' < code[c].expires =>
           /\ consumed'[c].n = consumed[c].n
           /\ consumed'[c].until = 0 \/ code[c].expires <= consumed'[c].until,
         ~Issued(c) => consumed'[c] = consumed[c]
  PROVE  CodeInv(c)'
  <1>1. /\ consumed[c].n \in Nat /\ unchecked[c] \in Nat
        /\ code[c].expires \in Nat /\ now \in Nat /\ now' \in Nat
    BY Numbers DEF Typed, TypeOK
  <1>2. /\ IsFiniteSet(Passed(c)') /\ Cardinality(Passed(c)') <= Cardinality(Passed(c))
        /\ Cardinality(Passed(c)) \in Nat /\ Cardinality(Passed(c)') \in Nat
    BY PassedFewer DEF CodeInv
  <1>3. Cardinality(Passed(c)') <= 1 + unchecked[c]
    BY <1>1, <1>2 DEF CodeInv
  <1>4. code[c].expires <= now' + CodeTTL
    BY <1>1, OAuthCodesAssumption DEF CodeInv
  <1>5. ASSUME now' < code[c].expires
        PROVE  CounterKept(c)' /\ OneAtATime(c)'
    <2>1. CounterKept(c) /\ OneAtATime(c)
      BY <1>1, <1>5 DEF CodeInv
    <2>2. CounterKept(c)'
      BY <1>5, <2>1 DEF CounterKept
    <2>3. consumed[c].n = 0 => Cardinality(Passed(c)') <= unchecked[c]
      BY <1>1, <1>2, <2>1 DEF OneAtATime
    <2>4. ASSUME consumed[c].n = 1, NEW q \in Requests, NEW r \in Requests,
                 Counting(q, c), Counting(r, c)
          PROVE  q = r /\ Cardinality(Passed(c)') <= unchecked[c]
      BY <1>1, <1>2, <2>1, <2>4 DEF OneAtATime
    <2>5. OneAtATime(c)'
      BY <1>5, <2>3, <2>4 DEF OneAtATime
    <2> QED
      BY <2>2, <2>5
  <1>6. ~Issued(c) => consumed'[c] = NoCounter /\ Passed(c)' = {}
    BY DEF CodeInv
  <1> QED
    BY <1>2, <1>3, <1>4, <1>5, <1>6 DEF CodeInv, Issued

\* A request is let through without a count, or with one read too late.
LEMMA LetThroughStep ==
  ASSUME Typed, Typed', NEW c \in Codes, CodeInv(c), Issued(c), NEW q,
         UNCHANGED <<code, now, consumed>>, unchecked'[c] = unchecked[c] + 1,
         Passed(c)' \subseteq Passed(c) \cup {q},
         \A r \in Requests : Counting(r, c)' => Counting(r, c)
  PROVE  CodeInv(c)'
  <1>1. /\ consumed[c].n \in Nat /\ unchecked[c] \in Nat /\ unchecked'[c] \in Nat
        /\ code[c].expires \in Nat /\ now \in Nat
    BY Numbers DEF Typed, TypeOK
  <1>2. /\ IsFiniteSet(Passed(c)') /\ Cardinality(Passed(c)') <= Cardinality(Passed(c)) + 1
        /\ Cardinality(Passed(c)) \in Nat /\ Cardinality(Passed(c)') \in Nat
    BY PassedOneMore DEF CodeInv
  <1>3. \A k \in Nat : Cardinality(Passed(c)) <= k + unchecked[c] =>
          Cardinality(Passed(c)') <= k + unchecked'[c]
    BY <1>1, <1>2
  <1>4. Cardinality(Passed(c)') <= 1 + unchecked'[c]
    BY <1>3 DEF CodeInv
  <1>5. Cardinality(Passed(c)) <= unchecked[c] => Cardinality(Passed(c)') <= unchecked'[c]
    BY <1>1, <1>2
  <1>6. ASSUME now < code[c].expires
        PROVE  CounterKept(c)' /\ OneAtATime(c)'
    <2>1. CounterKept(c) /\ OneAtATime(c)
      BY <1>6 DEF CodeInv
    <2> QED
      BY <1>5, <2>1 DEF CounterKept, OneAtATime
  <1> QED
    BY <1>2, <1>4, <1>6 DEF CodeInv, Issued

\* The one request that reads 1 in time.
LEMMA FirstUseStep ==
  ASSUME Typed, Typed', NEW c \in Codes, CodeInv(c), Issued(c), NEW q \in Requests,
         UNCHANGED <<code, now, consumed, unchecked>>,
         now < code[c].expires, consumed[c].n = 1, Counting(q, c), ~Counting(q, c)',
         Passed(c)' \subseteq Passed(c) \cup {q},
         \A r \in Requests : Counting(r, c)' => Counting(r, c)
  PROVE  CodeInv(c)'
  <1>1. unchecked[c] \in Nat
    BY Numbers
  <1>2. /\ IsFiniteSet(Passed(c)') /\ Cardinality(Passed(c)') <= Cardinality(Passed(c)) + 1
        /\ Cardinality(Passed(c)) \in Nat /\ Cardinality(Passed(c)') \in Nat
    BY PassedOneMore DEF CodeInv
  <1>3. CounterKept(c) /\ OneAtATime(c)
    BY DEF CodeInv
  <1>4. \A r \in Requests : ~Counting(r, c)'
    BY <1>3 DEF OneAtATime
  <1>5. Cardinality(Passed(c)) <= unchecked[c]
    BY <1>3 DEF OneAtATime
  <1>6. Cardinality(Passed(c)') <= 1 + unchecked[c]
    BY <1>1, <1>2, <1>5
  <1>7. CounterKept(c)' /\ OneAtATime(c)'
    BY <1>3, <1>4 DEF CounterKept, OneAtATime
  <1> QED
    BY <1>2, <1>6, <1>7 DEF CodeInv, Issued

\* A request counts itself.
LEMMA CountStep ==
  ASSUME Typed, Typed', NEW c \in Codes, CodeInv(c), Issued(c), NEW q \in Requests,
         UNCHANGED <<code, now, unchecked>>,
         consumed'[c].n = consumed[c].n + 1, consumed'[c].until = consumed[c].until,
         Passed(c)' \subseteq Passed(c),
         \A r \in Requests \ {q} : Counting(r, c)' => Counting(r, c)
  PROVE  CodeInv(c)'
  <1>1. unchecked[c] \in Nat /\ consumed[c].n \in Nat
    BY Numbers
  <1>2. /\ IsFiniteSet(Passed(c)') /\ Cardinality(Passed(c)') <= Cardinality(Passed(c))
        /\ Cardinality(Passed(c)) \in Nat /\ Cardinality(Passed(c)') \in Nat
    BY PassedFewer DEF CodeInv
  <1>3. Cardinality(Passed(c)') <= 1 + unchecked[c]
    BY <1>1, <1>2 DEF CodeInv
  <1>4. ASSUME now < code[c].expires
        PROVE  CounterKept(c)' /\ OneAtATime(c)'
    <2>1. CounterKept(c) /\ OneAtATime(c)
      BY <1>4 DEF CodeInv
    <2>2. consumed'[c].n >= 1 /\ consumed'[c].n # 0
      BY <1>1
    <2>3. CounterKept(c)'
      BY <2>1, <2>2 DEF CounterKept
    <2>4. ASSUME consumed'[c].n = 1
          PROVE  /\ consumed[c].n = 0
                 /\ \A r \in Requests : ~Counting(r, c)
                 /\ Cardinality(Passed(c)') <= unchecked[c]
      <3>1. consumed[c].n = 0
        BY <1>1, <2>4
      <3>2. \A r \in Requests : ~Counting(r, c)
        BY <2>1, <3>1 DEF CounterKept
      <3>3. Cardinality(Passed(c)) <= unchecked[c]
        BY <2>1, <3>1 DEF OneAtATime
      <3> QED
        BY <1>1, <1>2, <3>1, <3>2, <3>3
    <2>5. OneAtATime(c)'
      BY <2>2, <2>4 DEF OneAtATime
    <2> QED
      BY <2>3, <2>5
  <1> QED
    BY <1>2, <1>3, <1>4 DEF CodeInv, Issued

\* What the sets of a code become when a request moves.
LEMMA MovedSets ==
  ASSUME Typed, NEW q \in Requests, NEW pc \in Steps, Goto(q, pc), UNCHANGED tokens, NEW d
  PROVE  /\ Passed(d)' \subseteq Passed(d) \cup {q}
         /\ pc # "check" \/ request[q].code # d => Passed(d)' \subseteq Passed(d)
         /\ \A r \in Requests \ {q} : Counting(r, d)' => Counting(r, d)
         /\ Counting(q, d)' => request[q].code = d /\ pc \in {"expire", "read"}
  <1>1. /\ request'[q] = [pc |-> pc, app |-> request[q].app, code |-> request[q].code]
        /\ \A r \in Requests \ {q} : request'[r] = request[r]
    BY Moved
  <1>2. Passed(d)' \subseteq Passed(d) \cup {q}
    BY <1>1 DEF Passed, At
  <1>3. ASSUME pc # "check" \/ request[q].code # d
        PROVE  Passed(d)' \subseteq Passed(d)
    BY <1>1, <1>3 DEF Passed, At
  <1>4. \A r \in Requests \ {q} : Counting(r, d)' => Counting(r, d)
    BY <1>1 DEF Counting, At
  <1>5. Counting(q, d)' => request[q].code = d /\ pc \in {"expire", "read"}
    BY <1>1 DEF Counting, At
  <1> QED
    BY <1>2, <1>3, <1>4, <1>5

\* A request moves on without a change of the cache.
LEMMA MoveStep ==
  ASSUME Typed, Typed', NEW d \in Codes, CodeInv(d), NEW q \in Requests,
         NEW pc \in Steps \ {"check"}, Goto(q, pc),
         pc \in {"expire", "read"} => At(q, "expire") \/ At(q, "read"),
         UNCHANGED <<code, now, tokens, unchecked>>,
         now < code[d].expires =>
           /\ consumed'[d].n = consumed[d].n
           /\ consumed'[d].until = 0 \/ code[d].expires <= consumed'[d].until,
         ~Issued(d) => consumed'[d] = consumed[d]
  PROVE  CodeInv(d)'
  <1>1. pc \in Steps /\ pc # "check"
    OBVIOUS
  <1>2. /\ Passed(d)' \subseteq Passed(d)
        /\ \A r \in Requests \ {q} : Counting(r, d)' => Counting(r, d)
        /\ Counting(q, d)' => request[q].code = d /\ pc \in {"expire", "read"}
    BY <1>1, MovedSets
  <1>3. \A r \in Requests : Counting(r, d)' => Counting(r, d)
    BY <1>2 DEF Counting
  <1>4. now <= now' /\ code'[d] = code[d] /\ unchecked'[d] = unchecked[d]
    BY Numbers
  <1> QED
    BY <1>2, <1>3, <1>4, QuietStep

\* LetThrough, at whichever of the three calls.
LEMMA PassesUnchecked ==
  ASSUME Typed, Typed', NEW d \in Codes, CodeInv(d), NEW q \in Requests, ~At(q, "idle"),
         LetThrough(q), UNCHANGED <<code, now, tokens, consumed>>
  PROVE  CodeInv(d)'
  <1> DEFINE c == request[q].code
  <1>1. c \in Codes /\ Issued(c)
    BY Holds
  <1>2. /\ Passed(d)' \subseteq Passed(d) \cup {q}
        /\ c # d => Passed(d)' \subseteq Passed(d)
        /\ \A r \in Requests : Counting(r, d)' => Counting(r, d)
    <2>1. "check" \in Steps /\ Goto(q, "check")
      BY DEF Steps, LetThrough
    <2>2. /\ Passed(d)' \subseteq Passed(d) \cup {q}
          /\ "check" # "check" \/ request[q].code # d => Passed(d)' \subseteq Passed(d)
          /\ \A r \in Requests \ {q} : Counting(r, d)' => Counting(r, d)
          /\ Counting(q, d)' => request[q].code = d /\ "check" \in {"expire", "read"}
      BY <2>1, MovedSets
    <2> QED
      BY <2>2
  <1>3. CASE c = d
    <2>1. unchecked'[d] = unchecked[d] + 1
      BY <1>1, <1>3 DEF LetThrough, Typed, TypeOK
    <2> QED
      BY <1>1, <1>2, <1>3, <2>1, LetThroughStep
  <1>4. CASE c # d
    <2>1. unchecked'[d] = unchecked[d]
      BY <1>1, <1>4 DEF LetThrough, Typed, TypeOK
    <2>2. now <= now' /\ code'[d] = code[d] /\ consumed'[d] = consumed[d]
      BY Numbers
    <2>3. now < code[d].expires =>
            consumed[d].until = 0 \/ code[d].expires <= consumed[d].until
      BY DEF CodeInv, CounterKept
    <2> QED
      BY <1>2, <1>4, <2>1, <2>2, <2>3, QuietStep
  <1> QED
    BY <1>3, <1>4

LEMMA HandlerExchange ==
  ASSUME ExchangeInv, Typed', NEW q \in Requests, RequestStep(q), NEW d \in Codes
  PROVE  CodeInv(d)'
  <1> DEFINE c == request[q].code
  <1>0. Typed /\ TokensRight /\ CodeInv(d)
    BY DEF ExchangeInv, Answered
  <1>a. ~At(q, "idle") => c \in Codes /\ Issued(c)
    BY <1>0, Holds
  <1>b. /\ consumed[d].n \in Nat /\ consumed[d].until \in Nat /\ unchecked[d] \in Nat
        /\ code[d].expires \in Nat /\ now \in Nat
    BY <1>0, Numbers
  \* The cache, as far as it is left alone.
  <1>c. now < code[d].expires => consumed[d].until = 0 \/ code[d].expires <= consumed[d].until
    BY <1>0 DEF CodeInv, CounterKept
  <1>1. ASSUME NEW a \in Apps, NEW e \in Codes, VerifyCredential(q, a, e)
        PROVE  CodeInv(d)'
    <2>1. /\ request' = [request EXCEPT ![q] = [pc |-> "count", app |-> a, code |-> e]]
          /\ UNCHANGED <<code, consumed, now, tokens, unchecked>> /\ At(q, "idle")
      BY <1>1 DEF VerifyCredential
    <2>2. /\ request'[q] = [pc |-> "count", app |-> a, code |-> e]
          /\ \A r \in Requests \ {q} : request'[r] = request[r]
      BY <1>0, <2>1 DEF Typed, TypeOK
    <2>3. Passed(d)' \subseteq Passed(d)
      BY <2>1, <2>2 DEF Passed, At
    <2>4. \A r \in Requests : Counting(r, d)' => Counting(r, d)
      BY <2>2 DEF Counting, At
    <2> QED
      BY <1>0, <1>b, <1>c, <2>1, <2>3, <2>4, QuietStep
  <1>2. CASE CountUse(q)
    <2>1. At(q, "count") /\ UNCHANGED <<code, now, tokens>> /\ c \in Codes /\ Issued(c)
      BY <1>2, <1>a DEF CountUse, At
    <2>2. CASE /\ consumed' = [consumed EXCEPT ![c].n = @ + 1]
               /\ Goto(q, "expire") /\ UNCHANGED unchecked
      <3>1. /\ Passed(d)' \subseteq Passed(d)
            /\ \A r \in Requests \ {q} : Counting(r, d)' => Counting(r, d)
            /\ Counting(q, d)' => c = d
        <4>1. "expire" \in Steps /\ "expire" # "check"
          BY DEF Steps
        <4>2. /\ "expire" # "check" \/ request[q].code # d => Passed(d)' \subseteq Passed(d)
              /\ \A r \in Requests \ {q} : Counting(r, d)' => Counting(r, d)
              /\ Counting(q, d)' => request[q].code = d /\ "expire" \in {"expire", "read"}
          BY <1>0, <2>1, <2>2, <4>1, MovedSets
        <4> QED
          BY <4>1, <4>2
      <3>2. CASE c = d
        <4>1. /\ consumed'[d].n = consumed[d].n + 1
              /\ consumed'[d].until = consumed[d].until
          BY <1>0, <2>1, <2>2, <3>2 DEF Typed, TypeOK, Counter
        <4> QED
          BY <1>0, <2>1, <2>2, <3>1, <3>2, <4>1, CountStep
      <3>3. CASE c # d
        <4>1. consumed'[d] = consumed[d]
          BY <1>0, <2>1, <2>2, <3>3 DEF Typed, TypeOK
        <4>2. \A r \in Requests : Counting(r, d)' => Counting(r, d)
          BY <3>1, <3>3
        <4>3. now <= now' /\ code'[d] = code[d] /\ unchecked'[d] = unchecked[d]
          BY <1>b, <2>1, <2>2
        <4> QED
          BY <1>0, <1>c, <2>1, <3>1, <4>1, <4>2, <4>3, QuietStep
      <3> QED
        BY <3>2, <3>3
    <2>3. CASE LetThrough(q) /\ UNCHANGED consumed
      BY <1>0, <2>1, <2>3, PassesUnchecked DEF At
    <2> QED
      BY <1>2, <2>2, <2>3 DEF CountUse
  <1>3. CASE ExpireCounter(q)
    <2>1. /\ At(q, "expire") /\ Goto(q, "read") /\ c \in Codes /\ Issued(c)
          /\ UNCHANGED <<code, now, tokens, unchecked>>
      BY <1>3, <1>a DEF ExpireCounter, At
    <2>2. \/ consumed' = [consumed EXCEPT ![c].until = 0]
          \/ consumed' = [consumed EXCEPT ![c].until = now + CodeTTL]
          \/ consumed' = consumed
      BY <1>3 DEF ExpireCounter, KeyLifetime
    <2>3. /\ consumed'[d].n = consumed[d].n
          /\ \/ consumed'[d].until = consumed[d].until
             \/ consumed'[d].until = 0
             \/ consumed'[d].until = now + CodeTTL
          /\ c # d => consumed'[d] = consumed[d]
      BY <1>0, <2>1, <2>2 DEF Typed, TypeOK, Counter
    <2>4. code[d].expires <= now + CodeTTL
      BY <1>0 DEF CodeInv
    <2>5. now < code[d].expires =>
            /\ consumed'[d].n = consumed[d].n
            /\ consumed'[d].until = 0 \/ code[d].expires <= consumed'[d].until
      BY <1>c, <2>3, <2>4
    <2>6. ~Issued(d) => consumed'[d] = consumed[d]
      BY <2>1, <2>3
    <2>7. "read" \in Steps \ {"check"} /\ ("read" \in {"expire", "read"} => At(q, "expire"))
      BY <2>1 DEF Steps
    <2> QED
      BY <1>0, <2>1, <2>5, <2>6, <2>7, MoveStep
  <1>4. CASE ReadCounter(q)
    <2>1. /\ At(q, "read") /\ c \in Codes /\ Issued(c)
          /\ UNCHANGED <<code, now, tokens, consumed>>
      BY <1>4, <1>a DEF ReadCounter, At
    <2>2. CASE /\ consumed[c].n = 1 /\ now < code[c].expires
               /\ Goto(q, "check") /\ UNCHANGED unchecked
      <3>1. /\ Passed(d)' \subseteq Passed(d) \cup {q}
            /\ c # d => Passed(d)' \subseteq Passed(d)
            /\ \A r \in Requests : Counting(r, d)' => Counting(r, d)
            /\ ~Counting(q, d)'
        <4>1. "check" \in Steps
          BY DEF Steps
        <4>2. /\ Passed(d)' \subseteq Passed(d) \cup {q}
              /\ "check" # "check" \/ request[q].code # d => Passed(d)' \subseteq Passed(d)
              /\ \A r \in Requests \ {q} : Counting(r, d)' => Counting(r, d)
              /\ Counting(q, d)' => request[q].code = d /\ "check" \in {"expire", "read"}
          BY <1>0, <2>1, <2>2, <4>1, MovedSets
        <4> QED
          BY <4>2
      <3>2. CASE c = d
        <4>1. Counting(q, d)
          BY <2>1, <3>2 DEF Counting
        <4> QED
          BY <1>0, <2>1, <2>2, <3>1, <3>2, <4>1, FirstUseStep
      <3>3. CASE c # d
        <4>1. /\ now <= now' /\ code'[d] = code[d] /\ unchecked'[d] = unchecked[d]
              /\ consumed'[d] = consumed[d]
          BY <1>b, <2>1, <2>2
        <4> QED
          BY <1>0, <1>c, <2>1, <3>1, <3>3, <4>1, QuietStep
      <3> QED
        BY <3>2, <3>3
    <2>3. CASE LetThrough(q)
      BY <1>0, <2>1, <2>3, PassesUnchecked DEF At
    <2>4. CASE Goto(q, "refused") /\ UNCHANGED unchecked
      <3>1. "refused" \in Steps \ {"check"} /\ "refused" \notin {"expire", "read"}
        BY DEF Steps
      <3>2. consumed'[d] = consumed[d]
        BY <2>1
      <3> QED
        BY <1>0, <1>c, <2>1, <2>4, <3>1, <3>2, MoveStep
    <2> QED
      BY <1>4, <2>2, <2>3, <2>4 DEF ReadCounter, FirstUse
  <1>5. CASE IssueToken(q)
    <2>1. /\ At(q, "check") /\ Goto(q, "done") /\ c \in Codes
          /\ UNCHANGED <<code, now, consumed, unchecked>>
      BY <1>5, <1>a DEF IssueToken, Finish, At
    <2>2. /\ request'[q] = [pc |-> "done", app |-> request[q].app, code |-> c]
          /\ \A r \in Requests \ {q} : request'[r] = request[r]
      <3>1. "done" \in Steps
        BY DEF Steps
      <3> QED
        BY <1>0, <2>1, <3>1, Moved
    <2>3. tokens'[d] \subseteq tokens[d] \cup (IF c = d THEN {q} ELSE {})
      BY <1>0, <1>5, <2>1 DEF IssueToken, Typed, TypeOK
    <2>4. Passed(d)' \subseteq Passed(d)
      BY <2>1, <2>2, <2>3 DEF Passed, At
    <2>5. \A r \in Requests : Counting(r, d)' => Counting(r, d)
      BY <2>2 DEF Counting, At
    <2> QED
      BY <1>0, <1>b, <1>c, <2>1, <2>4, <2>5, QuietStep
  <1>6. CASE Abandon(q)
    <2>1. Goto(q, "done") /\ UNCHANGED <<code, now, tokens, consumed, unchecked>>
      BY <1>6 DEF Abandon, Finish
    <2>2. "done" \in Steps \ {"check"} /\ "done" \notin {"expire", "read"}
      BY DEF Steps
    <2>3. consumed'[d] = consumed[d]
      BY <2>1
    <2> QED
      BY <1>0, <1>c, <2>1, <2>2, <2>3, MoveStep
  <1> QED
    BY <1>1, <1>2, <1>3, <1>4, <1>5, <1>6 DEF RequestStep

LEMMA StepExchange ==
  ASSUME ExchangeInv, [Next]_vars
  PROVE  ExchangeInv'
  <1>0. Typed /\ TokensRight /\ Answered' /\ Typed'
    BY StepAnswered DEF ExchangeInv, Answered
  <1> SUFFICES ASSUME NEW d \in Codes PROVE CodeInv(d)'
    BY <1>0 DEF ExchangeInv
  <1>a. CodeInv(d)
    BY DEF ExchangeInv
  <1>b. /\ consumed[d].n \in Nat /\ consumed[d].until \in Nat /\ unchecked[d] \in Nat
        /\ code[d].expires \in Nat /\ now \in Nat
    BY <1>0, Numbers
  <1>c. now < code[d].expires => consumed[d].until = 0 \/ code[d].expires <= consumed[d].until
    BY <1>a DEF CodeInv, CounterKept
  \* The handlers stand still.
  <1>d. ASSUME UNCHANGED <<request, tokens>>
        PROVE  /\ Passed(d)' \subseteq Passed(d)
               /\ \A r \in Requests : Counting(r, d)' => Counting(r, d)
    BY <1>d DEF Passed, Counting, At
  <1>1. ASSUME NEW a \in Apps, NEW c \in Codes, Authorize(a, c)
        PROVE  CodeInv(d)'
    <2>1. /\ ~Issued(c) /\ UNCHANGED <<request, tokens, consumed, unchecked, now>>
          /\ code' = [code EXCEPT ![c] = [app |-> a, expires |-> now + CodeTTL]]
      BY <1>1 DEF Authorize
    <2>2. CASE c # d
      <3>1. code'[d] = code[d]
        BY <1>0, <2>1, <2>2 DEF Typed, TypeOK
      <3> QED
        BY <1>0, <1>a, <1>b, <1>c, <1>d, <2>1, <3>1, QuietStep
    <2>3. CASE c = d
      <3>1. code'[d] = [app |-> a, expires |-> now + CodeTTL]
        BY <1>0, <2>1, <2>3 DEF Typed, TypeOK
      <3>2. consumed[d] = NoCounter /\ Passed(d) = {}
        BY <1>a, <2>1, <2>3 DEF CodeInv
      <3>3. Passed(d)' = {} /\ \A r \in Requests : ~Counting(r, d)'
        <4>1. \A r \in Requests : ~Counting(r, d)
          BY <1>0, <2>1, <2>3, Holds DEF Counting, At
        <4> QED
          BY <1>d, <2>1, <3>2, <4>1
      <3>4. IsFiniteSet(Passed(d)') /\ Cardinality(Passed(d)') = 0
        BY <3>3, FS_EmptySet
      <3>5. CounterKept(d)' /\ OneAtATime(d)'
        BY <1>b, <2>1, <3>2, <3>3, <3>4 DEF CounterKept, OneAtATime, NoCounter
      <3>6. Issued(d)'
        BY <3>1, OAuthCodesAssumption DEF Issued
      <3>7. code'[d].expires <= now + CodeTTL
        BY <1>b, <3>1, OAuthCodesAssumption
      <3> QED
        BY <1>b, <2>1, <3>4, <3>5, <3>6, <3>7 DEF CodeInv
    <2> QED
      BY <2>2, <2>3
  <1>2. ASSUME NEW q \in Requests, RequestStep(q)
        PROVE  CodeInv(d)'
    BY <1>0, <1>2, HandlerExchange
  <1>3. ASSUME NEW a \in Apps, NEW state \in {"code", "client", "off"},
               UpdateApp(a, state)
        PROVE  CodeInv(d)'
    <2>1. UNCHANGED <<code, consumed, request, now, tokens, unchecked>>
      BY <1>3 DEF UpdateApp
    <2> QED
      BY <1>0, <1>a, <1>b, <1>c, <1>d, <2>1, QuietStep
  <1>4. CASE Tick
    <2>1. UNCHANGED <<code, request, tokens, unchecked>> /\ now' = now + 1
      BY <1>4 DEF Tick
    <2>2. consumed'[d] = IF consumed[d].until # 0 /\ consumed[d].until <= now + 1
                         THEN NoCounter ELSE consumed[d]
      BY <1>4 DEF Tick
    <2>3. ASSUME now' < code[d].expires
          PROVE  consumed'[d] = consumed[d]
      BY <1>b, <1>c, <2>1, <2>2, <2>3
    <2>4. ~Issued(d) => consumed'[d] = consumed[d]
      BY <1>a, <2>2 DEF CodeInv
    <2>5. now <= now' /\ code'[d] = code[d] /\ unchecked'[d] = unchecked[d]
      BY <1>b, <2>1
    <2>6. now' < code[d].expires =>
            /\ consumed'[d].n = consumed[d].n
            /\ consumed'[d].until = 0 \/ code[d].expires <= consumed'[d].until
      BY <1>b, <1>c, <2>1, <2>3
    <2> QED
      BY <1>0, <1>a, <1>d, <2>1, <2>4, <2>5, <2>6, QuietStep
  <1>5. CASE UNCHANGED vars
    <2>1. UNCHANGED <<code, consumed, request, now, tokens, unchecked>>
      BY <1>5 DEF vars
    <2> QED
      BY <1>0, <1>a, <1>b, <1>c, <1>d, <2>1, QuietStep
  <1> QED
    BY <1>1, <1>2, <1>3, <1>4, <1>5 DEF Next

\* A code is exchanged once, whichever requests present it at the same time and
\* whenever the cache forgets its counter, but for those let through unchecked.
THEOREM ExchangeOnce == Spec => []ExchangedOnce
  <1>1. Spec => []ExchangeInv
    BY InitExchange, StepExchange, PTL DEF Spec
  <1>2. ExchangeInv => ExchangedOnce
    <2> SUFFICES ASSUME ExchangeInv, NEW c \in Codes
                 PROVE  Cardinality(tokens[c]) <= 1 + unchecked[c]
      BY DEF ExchangedOnce
    <2>1. IsFiniteSet(Passed(c)) /\ Cardinality(Passed(c)) <= 1 + unchecked[c]
      BY DEF ExchangeInv, CodeInv
    <2>2. tokens[c] \in SUBSET Passed(c)
      BY DEF Passed
    <2>3. /\ IsFiniteSet(tokens[c]) /\ Cardinality(tokens[c]) <= Cardinality(Passed(c))
      BY <2>1, <2>2, FS_Subset
    <2>4. Cardinality(tokens[c]) \in Nat /\ Cardinality(Passed(c)) \in Nat
      BY <2>1, <2>3, FS_CardinalityType
    <2>5. unchecked[c] \in Nat
      BY Numbers DEF ExchangeInv, Answered
    <2> QED
      BY <2>1, <2>3, <2>4, <2>5
  <1> QED
    BY <1>1, <1>2, PTL
=============================================================================
