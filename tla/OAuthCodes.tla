------------------------------ MODULE OAuthCodes ------------------------------
(***************************************************************************)
(* Authorization codes of the OAuth endpoint: a user authorizes an app, the*)
(* app exchanges the code for an access token, once.  Source:              *)
(* logic/oauth.go (Authorize, IssueToken, ExchangeCode, consumeCode),      *)
(* logic/app.go (VerifyCredential, Update, Delete).                        *)
(*                                                                         *)
(* A code is a signed, stateless token; that it is used once rests on a    *)
(* counter per jti in the shared cache, reached by three separate calls.   *)
(* An app that shows the right secret is a request with app = a; what its  *)
(* handler does between two calls to database or cache is one step.        *)
(***************************************************************************)
EXTENDS Naturals, FiniteSets

CONSTANTS
  Apps,
  NoApp,
  Codes,      \* the jti values that can be drawn
  NoCode,
  Requests,   \* the requests to POST /oauth/token that ever arrive
  CodeTTL,    \* OAuthCodeExpire, in ticks
  MaxTime,    \* bound on the clock
  MaxFaults   \* bound on failed calls to the cache

ASSUME OAuthCodesAssumption ==
  /\ NoApp \notin Apps
  /\ NoCode \notin Codes
  /\ CodeTTL \in Nat \ {0}
  /\ MaxTime \in Nat
  /\ MaxFaults \in Nat

VARIABLES
  app,       \* app[a]: "code" (enabled, grant type authorization_code),
             \* "client" (enabled, client_credentials), or "off" (disabled, deleted)
  code,      \* code[c]: the claims of the code, the app and its expiry
  consumed,  \* consumed[c]: the counter of c in the cache
  request,   \* request[q]: progress and local variables of a handler
  now,
  faults,    \* failed calls so far
  \* History, read by no step of the code:
  tokens,    \* tokens[c]: the requests that exchanged c for an access token
  spent,     \* spent[c]: handlers that have counted c
  unchecked  \* unchecked[c]: handlers let through without having read a count,
             \* or that read it only after c had expired

vars == <<app, code, consumed, request, now, faults, tokens, spent, unchecked>>

-----------------------------------------------------------------------------
NoGrant == [app |-> NoApp, expires |-> 0]
Grant == [app : Apps \cup {NoApp}, expires : Nat]

\* A missing key, and a key without TTL, are both until = 0.
NoCounter == [n |-> 0, until |-> 0]
Counter == [n : Nat, until : Nat]

Steps == {"idle", "count", "expire", "read", "check", "done", "refused"}
Request == [pc : Steps, app : Apps \cup {NoApp}, code : Codes \cup {NoCode}]
Idle == [pc |-> "idle", app |-> NoApp, code |-> NoCode]

At(q, pc) == request[q].pc = pc
Goto(q, pc) == request' = [request EXCEPT ![q].pc = pc]
Finish(q) == Goto(q, "done")
Issued(c) == code[c].app # NoApp

Init ==
  /\ app = [a \in Apps |-> "code"]
  /\ code = [c \in Codes |-> NoGrant]
  /\ consumed = [c \in Codes |-> NoCounter]
  /\ request = [q \in Requests |-> Idle]
  /\ now = 0
  /\ faults = 0
  /\ tokens = [c \in Codes |-> {}]
  /\ spent = [c \in Codes |-> 0]
  /\ unchecked = [c \in Codes |-> 0]

-----------------------------------------------------------------------------
\* Variant: the claim that names the app is left out of the code.
Variant_Authorize(a, c) ==
  /\ app[a] = "code"
  /\ ~Issued(c)
  /\ code' = [code EXCEPT ![c] = [app |-> "", expires |-> now + CodeTTL]]
  /\ UNCHANGED <<app, consumed, request, now, faults, tokens, spent, unchecked>>

\* A user lets app a act on his behalf: one read of the app, then the code is
\* signed.
Authorize(a, c) ==
  /\ app[a] = "code"
  /\ ~Issued(c)
  /\ code' = [code EXCEPT ![c] = [app |-> a, expires |-> now + CodeTTL]]
  /\ UNCHANGED <<app, consumed, request, now, faults, tokens, spent, unchecked>>

\* The credential and the grant type of the calling app are read and checked,
\* then signature and expiry of the code.
VerifyCredential(q, a, c) ==
  /\ At(q, "idle")
  /\ app[a] = "code"
  /\ Issued(c) /\ now < code[c].expires
  /\ request' = [request EXCEPT ![q] = [pc |-> "count", app |-> a, code |-> c]]
  /\ UNCHANGED <<app, code, consumed, now, faults, tokens, spent, unchecked>>

-----------------------------------------------------------------------------
(* consumeCode *)

\* A call to the cache fails.
Fault == faults < MaxFaults /\ faults' = faults + 1

\* The code counts as not used although its counter has not told so.
LetThrough(q) ==
  /\ unchecked' = [unchecked EXCEPT ![request[q].code] = @ + 1]
  /\ Goto(q, "check")

\* Increment; when it fails the code is let through.
CountUse(q) ==
  LET c == request[q].code
  IN  /\ At(q, "count")
      /\ \/ /\ consumed' = [consumed EXCEPT ![c].n = @ + 1]
            /\ spent' = [spent EXCEPT ![c] = @ + 1]
            /\ Goto(q, "expire")
            /\ UNCHANGED <<faults, unchecked>>
         \/ /\ Fault
            /\ LetThrough(q)
            /\ UNCHANGED <<consumed, spent>>
      /\ UNCHANGED <<app, code, now, tokens>>

\* Variant: the counter lives shorter than the code.
Variant_KeyLifetime == 1

\* The counter lives as long as a code that is issued now.
KeyLifetime == CodeTTL

\* Expire; an error is only logged, and a key that is gone stays gone.
ExpireCounter(q) ==
  LET c == request[q].code
  IN  /\ At(q, "expire")
      /\ \/ /\ consumed' = [consumed EXCEPT ![c].until =
                 IF consumed[c].n = 0 THEN 0 ELSE now + KeyLifetime]
            /\ UNCHANGED faults
         \/ Fault /\ UNCHANGED consumed
      /\ Goto(q, "read")
      /\ UNCHANGED <<app, code, now, tokens, spent, unchecked>>

\* Variant: the counter is expected to start at 0.
Variant_FirstUse(n) == n = 0

FirstUse(n) == n = 1

\* Get; a failure and a missing key let the code through.
ReadCounter(q) ==
  LET c == request[q].code
      n == consumed[c].n
  IN  /\ At(q, "read")
      /\ \/ /\ n # 0 /\ FirstUse(n) /\ now < code[c].expires
            /\ Goto(q, "check")
            /\ UNCHANGED <<faults, unchecked>>
         \/ /\ n # 0 /\ FirstUse(n) /\ now >= code[c].expires
            /\ LetThrough(q)
            /\ UNCHANGED faults
         \/ /\ n # 0 /\ ~FirstUse(n)
            /\ Goto(q, "refused")
            /\ UNCHANGED <<faults, unchecked>>
         \/ /\ n = 0
            /\ LetThrough(q)
            /\ UNCHANGED faults
         \/ Fault /\ LetThrough(q)
      /\ UNCHANGED <<app, code, consumed, now, tokens, spent>>

-----------------------------------------------------------------------------
\* Variant: the app of the code is not compared with the caller.
Variant_Granted(q) == app[code[request[q].code].app] \in {"code", "client"}

\* The app of the code exists, is enabled and is the caller.
Granted(q) ==
  LET a == code[request[q].code].app
  IN  app[a] \in {"code", "client"} /\ a = request[q].app

\* Rest of ExchangeCode and IssueToken.
IssueToken(q) ==
  LET c == request[q].code
  IN  /\ At(q, "check")
      /\ IF Granted(q) THEN tokens' = [tokens EXCEPT ![c] = @ \cup {q}]
                       ELSE UNCHANGED tokens
      /\ Finish(q)
      /\ UNCHANGED <<app, code, consumed, now, faults, spent, unchecked>>

Abandon(q) ==
  /\ request[q].pc \notin {"idle", "done", "refused"}
  /\ Finish(q)
  /\ UNCHANGED <<app, code, consumed, now, faults, tokens, spent, unchecked>>

\* AppLogic.Update and Delete.  (That a deleted app may come back is more than
\* the code allows.)
UpdateApp(a, state) ==
  /\ app' = [app EXCEPT ![a] = state]
  /\ UNCHANGED <<code, consumed, request, now, faults, tokens, spent, unchecked>>

\* Time passes, and cache keys whose TTL is over disappear.
Tick ==
  /\ now < MaxTime
  /\ now' = now + 1
  /\ consumed' = [c \in Codes |->
       IF consumed[c].until # 0 /\ consumed[c].until <= now + 1
       THEN NoCounter ELSE consumed[c]]
  /\ UNCHANGED <<app, code, request, faults, tokens, spent, unchecked>>

-----------------------------------------------------------------------------
RequestStep(q) ==
  \/ \E a \in Apps, c \in Codes : VerifyCredential(q, a, c)
  \/ CountUse(q)
  \/ ExpireCounter(q)
  \/ ReadCounter(q)
  \/ IssueToken(q)
  \/ Abandon(q)

Next ==
  \/ \E a \in Apps, c \in Codes : Authorize(a, c)
  \/ \E q \in Requests : RequestStep(q)
  \/ \E a \in Apps, state \in {"code", "client", "off"} :
       UpdateApp(a, state)
  \/ Tick

Spec == Init /\ [][Next]_vars

-----------------------------------------------------------------------------
TypeOK ==
  /\ app \in [Apps -> {"code", "client", "off"}]
  /\ code \in [Codes -> Grant]
  /\ consumed \in [Codes -> Counter]
  /\ request \in [Requests -> Request]
  /\ now \in Nat
  /\ faults \in 0..MaxFaults
  /\ tokens \in [Codes -> SUBSET Requests]
  /\ spent \in [Codes -> Nat]
  /\ unchecked \in [Codes -> Nat]

\* A code is exchanged once, however many requests present it at the same time
\* (oauth.go:357-358), but for the requests that were let through because the
\* counter could not be read and those that slept past the life of the code.
ExchangedOnce ==
  \A c \in Codes : Cardinality(tokens[c]) <= 1 + unchecked[c]

\* A request is told that the code is used only if another one has counted it;
\* a lone request is never refused.
RefusedOnlyIfUsed ==
  \A q \in Requests : At(q, "refused") => spent[request[q].code] >= 2

\* When two apps present the same code, only the one the user authorized can
\* come out with a token, whoever was first at the counter.
TokenForAuthorizedApp ==
  \A c \in Codes : \A q \in tokens[c] : request[q].app = code[c].app
=============================================================================
