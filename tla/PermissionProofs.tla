---------------------------- MODULE PermissionProofs ----------------------------
(***************************************************************************)
(* Proofs about the algorithms of logic/permission.go: PermissionCheck and *)
(* Visibility, for all accounts, groups, apps, policies and rows, and for  *)
(* any number of statements and scopes; GlobMatch, for every pattern and   *)
(* every subject.                                                          *)
(*                                                                         *)
(* The loop over the rules rests on what it has found among the rules      *)
(* before i (Deciding), the merge of the scopes on what it has seen of     *)
(* them (Aggregating), and the comparison of lists and checks on a scope   *)
(* that is never empty (OwnVisible).  The wildcard loop rests on the       *)
(* places of the parts it has found: they follow one another (Laid), and   *)
(* no match has them end earlier (Earliest).                               *)
(***************************************************************************)
EXTENDS Visibility, GlobMatch, TLAPS

\* Before the merge nothing has been merged.
Fresh == pc \in {"load", "check"} => scope = NoScope /\ k = 1

\* Of the rules before i, none denies the action of the route, and one allows
\* it if and only if allowed is set.
Deciding ==
  /\ pc = "load" => i = 1 /\ ~allowed /\ rules = <<>>
  /\ pc = "check" =>
       /\ \A j \in Rules(route, "Deny") : j >= i
       /\ allowed <=> \E j \in Rules(route, "Allow") : j < i

\* A rule that makes everything visible.
Unlimited(j) == Scopes(j) = {} \/ \E row \in Scopes(j) : row.type = "all"

\* The row n of rule j has been merged.
Seen(j, n) == j < i \/ (j = i /\ n < k)

Gathering ==
  pc = "aggregate" =>
    /\ scope.all => \E j \in Scoping : Unlimited(j)
    /\ ~scope.all =>
         /\ \A j \in Scoping : j < i => Scopes(j) # {}
         /\ \A j \in Scoping : \A n \in DOMAIN rules[j].scopes :
              Seen(j, n) => rules[j].scopes[n].type # "all"
         /\ \A g \in Groups :
              g \in scope.groups <=>
                \E j \in Scoping : \E n \in DOMAIN rules[j].scopes :
                  Seen(j, n) /\ rules[j].scopes[n] = [type |-> "group", group |-> g]

\* With the scope ready, the viewer's own is visible.
OwnVisible == pc \in {"scoped", "query", "answer"} => scope.all \/ scope.self

IInv ==
  /\ TypeOK
  /\ Fresh
  /\ Deciding
  /\ DecisionRight
  /\ Gathering
  /\ ScopeRight
  /\ OwnVisible

-----------------------------------------------------------------------------
(* Types *)

LEMMA RowType ==
  ASSUME NEW row \in Scope
  PROVE  /\ row.type \in {"all", "self", "attribute", "group"}
         /\ row.type = "group" => row.group \in Groups /\ row = [type |-> "group", group |-> row.group]
BY DEF Scope

\* A row of a rule is a scope, and rows are counted from 1.
LEMMA RuleRow ==
  ASSUME TypeOK, NEW j \in DOMAIN rules, NEW n \in DOMAIN rules[j].scopes
  PROVE  /\ rules[j].scopes[n] \in Scope
         /\ n \in Nat /\ n >= 1 /\ n <= Len(rules[j].scopes)
         /\ j \in Nat /\ j >= 1
<1>1. rules[j] \in Statement
  BY DEF TypeOK, CheckTypeOK
<1>2. rules[j].scopes \in Seq(Scope)
  BY <1>1, PermissionCheckAssumption DEF Statement
<1>3. j \in Nat /\ j >= 1
  BY DEF TypeOK, CheckTypeOK
<1> QED  BY <1>2, <1>3

ScopeType == [all : BOOLEAN, self : BOOLEAN, groups : SUBSET Groups]

LEMMA MergeType ==
  ASSUME NEW sc \in ScopeType, NEW row \in Scope
  PROVE  merge(sc, row) \in ScopeType
<1>1. CASE row.type = "all"
  BY <1>1 DEF merge, ScopeType
<1>2. CASE row.type \in {"self", "attribute"}
  BY <1>2 DEF merge, ScopeType
<1>3. CASE row.type = "group"
  BY <1>3, RowType DEF merge, ScopeType
<1> QED  BY <1>1, <1>2, <1>3, RowType

LEMMA LoadedType ==
  ASSUME NEW st \in Statement
  PROVE  Loaded(st) \in Statement
BY DEF Loaded, Statement

LEMMA InitTypeOK == Init => TypeOK
<1> SUFFICES ASSUME Init PROVE TypeOK
  OBVIOUS
<1>1. statements \in Seq(Statement)
  <2>1. PICK n \in 0..MaxStatements : statements \in [1..n -> Statement]
    BY DEF Init
  <2> QED  BY <2>1
<1> QED
  <2>1. scope \in [all : BOOLEAN, self : BOOLEAN, groups : SUBSET Groups]
    BY DEF Init, CheckInit, NoScope
  <2>2. rules \in Seq(Statement)
    BY DEF Init, CheckInit
  <2>3. CheckTypeOK
    <3>1. pc = "load" /\ i = 1 /\ k = 1 /\ allowed \in BOOLEAN /\ route \in Actions /\ wanted \in Actions
      BY Zenon DEF Init, CheckInit
    <3> QED  BY <1>1, <2>1, <2>2, <3>1 DEF CheckTypeOK
  <2> QED
    BY <2>3, VisibilityAssumption DEF Init, TypeOK

LEMMA CheckTypeStep == TypeOK /\ CheckNext /\ UNCHANGED <<failed, tables>> => TypeOK'
<1> SUFFICES ASSUME TypeOK, CheckNext, UNCHANGED <<failed, tables>> PROVE CheckTypeOK'
  BY DEF TypeOK, tables
<1> USE DEF TypeOK, CheckTypeOK, requestVars
<1>1. CASE TurnAway
  BY <1>1 DEF TurnAway
<1>2. CASE LoadPermissionSet
  <2>1. rules' \in Seq(Statement)
    <3>1. DOMAIN statements = 1..Len(statements) /\ Len(statements) \in Nat
      OBVIOUS
    <3>2. \A j \in DOMAIN statements : Loaded(statements[j]) \in Statement
      BY LoadedType
    <3>3. rules' \in [1..Len(statements) -> Statement]
      BY <1>2, <3>1, <3>2 DEF LoadPermissionSet
    <3> DEFINE n == Len(statements)
    <3>4. n \in Nat /\ rules' \in [1..n -> Statement]
      BY <3>1, <3>3
    <3> HIDE DEF n
    <3> QED  BY ONLY <3>4
  <2> QED  BY <1>2, <2>1 DEF LoadPermissionSet
<1>3. CASE CheckRule
  <2>1. i' \in Nat \ {0}
    BY <1>3 DEF CheckRule, Deny
  <2>2. pc' \in {"load", "check", "aggregate", "scoped", "query", "answer", "refused"}
    BY <1>3 DEF CheckRule, Deny
  <2>3. allowed' \in BOOLEAN
    BY <1>3 DEF CheckRule, Deny
  <2> QED  BY <1>3, <2>1, <2>2, <2>3 DEF CheckRule
<1>4. CASE CheckDone
  BY <1>4 DEF CheckDone
<1>5. CASE SkipRule
  BY <1>5 DEF SkipRule, NextRule
<1>6. CASE UnscopedRule
  <2>1. scope' = [scope EXCEPT !.all = TRUE]
    BY <1>6, Zenon DEF UnscopedRule, Unrestricted
  <2>2. scope' \in [all : BOOLEAN, self : BOOLEAN, groups : SUBSET Groups]
    BY <2>1
  <2>3. NextRule /\ UNCHANGED <<requestVars, pc, rules, allowed>>
    BY <1>6, Zenon DEF UnscopedRule
  <2> QED  BY <2>2, <2>3 DEF NextRule
<1>7. CASE MergeScope
  <2>1. i \in DOMAIN rules /\ rules[i] \in Statement
    BY <1>7 DEF MergeScope, Aggregating
  <2>2. rules[i].scopes \in Seq(Scope)
    BY <2>1, PermissionCheckAssumption DEF Statement
  <2>3. rules[i].scopes[k] \in Scope
    BY <1>7, <2>2 DEF MergeScope
  <2>4. scope' \in [all : BOOLEAN, self : BOOLEAN, groups : SUBSET Groups]
    BY <1>7, <2>3, MergeType DEF MergeScope, ScopeType
  <2> QED  BY <1>7, <2>4 DEF MergeScope, NextRule
<1>8. CASE ScopeDone
  BY <1>8 DEF ScopeDone, NoScope
<1> QED
  BY <1>1, <1>2, <1>3, <1>4, <1>5, <1>6, <1>7, <1>8 DEF CheckNext

LEMMA TypeStep == TypeOK /\ [Next]_vars => TypeOK'
<1> SUFFICES ASSUME TypeOK, [Next]_vars PROVE TypeOK'
  OBVIOUS
<1>1. CASE CheckNext /\ UNCHANGED <<failed, tables>>
  BY <1>1, CheckTypeStep
<1>2. CASE DataScopeForAction
  BY <1>2 DEF DataScopeForAction, TypeOK, CheckTypeOK, tables
<1>3. CASE ScopeFails
  <2>1. scope' \in [all : BOOLEAN, self : BOOLEAN, groups : SUBSET Groups]
    BY <1>3 DEF ScopeFails, NoScope
  <2> QED  BY <1>3, <2>1 DEF ScopeFails, TypeOK, CheckTypeOK, tables
<1>4. CASE Query
  BY <1>4 DEF Query, TypeOK, CheckTypeOK, requestVars
<1>5. CASE UNCHANGED vars
  BY <1>5 DEF vars, checkVars, requestVars, tables, TypeOK, CheckTypeOK
<1> QED  BY <1>1, <1>2, <1>3, <1>4, <1>5 DEF Next

\* Every variable has its type, the merged scope and its groups included.
THEOREM TypeCorrect == Spec => []TypeOK
BY InitTypeOK, TypeStep, PTL DEF Spec

-----------------------------------------------------------------------------
(* The loops *)

LEMMA InitLoops == Init => Fresh /\ Deciding /\ DecisionRight /\ Gathering /\ ScopeRight /\ OwnVisible
BY DEF Init, CheckInit, Fresh, Deciding, DecisionRight, Gathering, ScopeRight, OwnVisible

LEMMA DecidingStep ==
  ASSUME TypeOK, Deciding, DecisionRight, CheckNext
  PROVE  Deciding' /\ DecisionRight'
<1> USE DEF TypeOK, CheckTypeOK, requestVars
<1>1. CASE TurnAway
  BY <1>1 DEF TurnAway, Deciding, DecisionRight, Rules
<1>2. CASE LoadPermissionSet
  <2>1. pc' = "check" /\ i' = 1 /\ ~allowed'
    BY <1>2 DEF LoadPermissionSet, Deciding
  <2>2. \A j \in Rules(route, "Deny")' \cup Rules(route, "Allow")' : j >= 1
    <3>1. DOMAIN rules' = DOMAIN statements
      BY <1>2 DEF LoadPermissionSet
    <3>2. \A j \in DOMAIN statements : j >= 1
      OBVIOUS
    <3> QED  BY <3>1, <3>2 DEF Rules
  <2>3. Rules(route, "Deny")' \cup Rules(route, "Allow")' \subseteq Nat
    <3>1. DOMAIN rules' = DOMAIN statements
      BY <1>2 DEF LoadPermissionSet
    <3> QED  BY <3>1 DEF Rules
  <2> QED  BY <2>1, <2>2, <2>3 DEF Deciding, DecisionRight
<1>3. CASE CheckRule
  <2> USE DEF CheckRule
  <2>0. /\ pc = "check" /\ i \in DOMAIN rules
        /\ Rules(route, "Deny")' = Rules(route, "Deny")
        /\ Rules(route, "Allow")' = Rules(route, "Allow")
        /\ Rules(route, "Deny") \subseteq Nat /\ Rules(route, "Allow") \subseteq Nat
    BY <1>3 DEF Rules, Applies
  <2>1. CASE Skip(rules[i]) /\ i' = i + 1 /\ UNCHANGED <<pc, allowed>>
    <3>1. i \notin Rules(route, "Deny") /\ i \notin Rules(route, "Allow")
      BY <2>1 DEF Skip, Rules
    <3> QED  BY <2>0, <2>1, <3>1 DEF Deciding, DecisionRight
  <2>2. CASE ~Skip(rules[i]) /\ rules[i].effect = "Deny" /\ Deny
    <3>1. i \in Rules(route, "Deny")
      BY <2>0, <2>2 DEF Skip, Rules
    <3> QED  BY <2>0, <2>2, <3>1 DEF Deciding, DecisionRight, Deny
  <2>3. CASE /\ ~Skip(rules[i]) /\ rules[i].effect = "Allow"
             /\ allowed' = TRUE /\ i' = i + 1 /\ UNCHANGED pc
    <3>1. i \in Rules(route, "Allow") /\ i \notin Rules(route, "Deny")
      BY <2>0, <2>3 DEF Skip, Rules
    <3> QED  BY <2>0, <2>3, <3>1 DEF Deciding, DecisionRight
  <2> QED  BY <1>3, <2>1, <2>2, <2>3
<1>4. CASE CheckDone
  <2>0. /\ pc = "check" /\ i > Len(rules) /\ pc' = IF allowed THEN "aggregate" ELSE "refused"
        /\ Rules(route, "Deny")' = Rules(route, "Deny")
        /\ Rules(route, "Allow")' = Rules(route, "Allow")
    BY <1>4 DEF CheckDone, Rules, Applies
  <2>1. \A effect : \A j \in Rules(route, effect) : j < i
    BY <2>0 DEF Rules
  <2>2. Rules(route, "Deny") = {}
    BY <2>0, <2>1 DEF Deciding, Rules
  <2>3. allowed <=> Rules(route, "Allow") # {}
    BY <2>0, <2>1 DEF Deciding
  <2> QED  BY <2>0, <2>2, <2>3 DEF Deciding, DecisionRight
<1>5. CASE SkipRule
  BY <1>5 DEF SkipRule, Aggregating, NextRule, Deciding, DecisionRight, Rules, Applies
<1>6. CASE UnscopedRule
  <2>1. pc = "aggregate" /\ UNCHANGED <<requestVars, pc, rules, allowed>>
    BY <1>6, Zenon DEF UnscopedRule, Aggregating
  <2> QED  BY <2>1 DEF Deciding, DecisionRight, Rules, Applies
<1>7. CASE MergeScope
  <2>1. pc = "aggregate" /\ UNCHANGED <<requestVars, pc, rules, allowed>>
    BY <1>7, Zenon DEF MergeScope, Aggregating
  <2> QED  BY <2>1 DEF Deciding, DecisionRight, Rules, Applies
<1>8. CASE ScopeDone
  <2>1. pc = "aggregate" /\ pc' = "scoped" /\ UNCHANGED <<requestVars, rules, allowed>>
    BY <1>8, Zenon DEF ScopeDone
  <2> QED  BY <2>1 DEF Deciding, DecisionRight, Rules, Applies
<1> QED
  BY <1>1, <1>2, <1>3, <1>4, <1>5, <1>6, <1>7, <1>8 DEF CheckNext

\* What a step of the merge leaves as it is.
LEMMA ScopingStays ==
  ASSUME rules' = rules, wanted' = wanted
  PROVE  /\ Scoping' = Scoping
         /\ \A j : Scopes(j)' = Scopes(j)
         /\ \A j : Unlimited(j)' = Unlimited(j)
BY DEF Scoping, Scopes, Unlimited

LEMMA GatheringStep ==
  ASSUME TypeOK, Fresh, Gathering, ScopeRight, CheckNext
  PROVE  Gathering' /\ ScopeRight' /\ Fresh'
<1> USE DEF TypeOK, CheckTypeOK, requestVars
<1>1. CASE TurnAway \/ LoadPermissionSet \/ CheckRule
  BY <1>1 DEF TurnAway, LoadPermissionSet, CheckRule, Deny, Gathering, ScopeRight, Fresh
<1>2. CASE CheckDone
  <2>1. pc \notin {"aggregate", "scoped"} /\ pc' \in {"aggregate", "refused"}
        /\ i' = 1 /\ k' = 1 /\ scope' = NoScope /\ rules' = rules
    BY <1>2 DEF CheckDone, Fresh
  <2>2. \A j \in Scoping' : ~(j < 1)
    BY <2>1 DEF Scoping
  <2>3. \A j \in Scoping' : \A n \in DOMAIN rules'[j].scopes : ~Seen(j, n)'
    <3> SUFFICES ASSUME NEW j \in Scoping', NEW n \in DOMAIN rules'[j].scopes PROVE ~Seen(j, n)'
      OBVIOUS
    <3>1. n >= 1 /\ n \in Nat
      BY <2>1, RuleRow DEF Scoping
    <3> QED  BY <2>1, <2>2, <3>1 DEF Seen
  <2> QED  BY <2>1, <2>2, <2>3 DEF Gathering, ScopeRight, Fresh, NoScope
<1>3. CASE SkipRule
  <2>1. pc = "aggregate" /\ pc' = pc /\ i \notin Scoping /\ i' = i + 1 /\ k' = 1
        /\ scope' = scope /\ rules' = rules /\ wanted' = wanted
    BY <1>3 DEF SkipRule, Aggregating, NextRule, Scoping
  <2>2. \A j \in Scoping : j < i' <=> j < i
    BY <2>1 DEF Scoping
  <2>3. \A j \in Scoping : \A n \in DOMAIN rules[j].scopes : Seen(j, n)' <=> Seen(j, n)
    BY <2>1, <2>2, RuleRow DEF Seen, Scoping
  <2> QED  BY <2>1, <2>2, <2>3, ScopingStays DEF Gathering, ScopeRight, Fresh
<1>4. CASE UnscopedRule
  <2>1. pc = "aggregate" /\ wanted \in rules[i].actions /\ rules[i].scopes = <<>>
        /\ i <= Len(rules) /\ pc' = pc /\ rules' = rules /\ wanted' = wanted
    BY <1>4, Zenon DEF UnscopedRule, Aggregating, requestVars
  <2>2. scope'.all
    <3>1. scope' = [scope EXCEPT !.all = TRUE]
      BY <1>4, Zenon DEF UnscopedRule, Unrestricted
    <3> QED  BY <3>1
  <2>3. i \in Scoping /\ Unlimited(i)
    BY <2>1 DEF Scoping, Unlimited, Scopes
  <2> QED  BY <2>1, <2>2, <2>3, ScopingStays DEF Gathering, ScopeRight, Fresh
<1>5. CASE MergeScope
  <2> DEFINE row == rules[i].scopes[k]
  <2>1. /\ pc = "aggregate" /\ pc' = pc /\ rules' = rules /\ wanted' = wanted
        /\ i \in Scoping /\ k \in DOMAIN rules[i].scopes
        /\ scope' = merge(scope, row)
        /\ IF scope'.all \/ k = Len(rules[i].scopes)
             THEN i' = i + 1 /\ k' = 1 ELSE i' = i /\ k' = k + 1
    <3>1. i \in DOMAIN rules /\ rules[i] \in Statement
      BY <1>5 DEF MergeScope, Aggregating
    <3>2. rules[i].scopes \in Seq(Scope)
      BY <3>1, PermissionCheckAssumption DEF Statement
    <3> QED  BY <1>5, <3>1, <3>2 DEF MergeScope, Aggregating, NextRule, Scoping
  <2>2. row \in Scope /\ row \in Scopes(i) /\ i \in Nat /\ k \in Nat
    BY <2>1, RuleRow DEF Scoping, Scopes
  <2>3. CASE scope'.all
    <3>1. scope.all \/ row.type = "all"
      BY <2>1, <2>2, <2>3, RowType DEF merge
    <3>2. \E j \in Scoping : Unlimited(j)
      BY <2>1, <2>2, <3>1 DEF Gathering, Unlimited
    <3> QED  BY <2>1, <2>3, <3>2, ScopingStays DEF Gathering, ScopeRight, Fresh
  <2>4. CASE ~scope'.all
    <3>1. ~scope.all /\ row.type # "all"
      BY <2>1, <2>2, <2>4, RowType DEF merge
    <3>2. \A j \in Scoping : \A n \in DOMAIN rules[j].scopes :
            Seen(j, n)' <=> Seen(j, n) \/ (j = i /\ n = k)
      BY <2>1, <2>2, <2>4, RuleRow DEF Seen, Scoping
    <3>3. \A g \in Groups :
            g \in scope'.groups <=>
              g \in scope.groups \/ row = [type |-> "group", group |-> g]
      BY <2>1, <2>2, <3>1, RowType DEF merge
    <3>4. \A j \in Scoping : j < i' => j < i \/ j = i
      BY <2>1, <2>2 DEF Scoping
    <3>5. Scopes(i) # {}
      BY <2>2
    <3>6. \A j \in Scoping : j < i' => Scopes(j) # {}
      BY <2>1, <3>1, <3>4, <3>5 DEF Gathering
    <3>7. \A j \in Scoping : \A n \in DOMAIN rules[j].scopes :
            Seen(j, n)' => rules[j].scopes[n].type # "all"
      BY <2>1, <3>1, <3>2 DEF Gathering
    <3>8. \A g \in Groups :
            g \in scope'.groups <=>
              \E j \in Scoping : \E n \in DOMAIN rules[j].scopes :
                Seen(j, n)' /\ rules[j].scopes[n] = [type |-> "group", group |-> g]
      <4> SUFFICES ASSUME NEW g \in Groups
                   PROVE  g \in scope'.groups <=>
                            \E j \in Scoping : \E n \in DOMAIN rules[j].scopes :
                              /\ Seen(j, n)'
                              /\ rules[j].scopes[n] = [type |-> "group", group |-> g]
        OBVIOUS
      <4>1. g \in scope.groups <=>
              \E j \in Scoping : \E n \in DOMAIN rules[j].scopes :
                Seen(j, n) /\ rules[j].scopes[n] = [type |-> "group", group |-> g]
        BY <2>1, <3>1 DEF Gathering
      <4>2. (\E j \in Scoping : \E n \in DOMAIN rules[j].scopes :
               Seen(j, n)' /\ rules[j].scopes[n] = [type |-> "group", group |-> g])
            <=> \/ \E j \in Scoping : \E n \in DOMAIN rules[j].scopes :
                     Seen(j, n) /\ rules[j].scopes[n] = [type |-> "group", group |-> g]
                \/ row = [type |-> "group", group |-> g]
        BY <2>1, <3>2, Zenon
      <4> QED  BY <3>3, <4>1, <4>2
    <3>9. Gathering'
      <4>1. /\ ~scope'.all
            /\ Scoping' = Scoping /\ rules' = rules
            /\ \A j : Scopes(j)' = Scopes(j)
        BY <2>1, <2>4, ScopingStays
      <4> HIDE DEF TypeOK, CheckTypeOK, requestVars
      <4> QED  BY ONLY <3>6, <3>7, <3>8, <4>1 DEF Gathering
    <3> QED
      BY <2>1, <3>9 DEF ScopeRight, Fresh
  <2> QED  BY <2>3, <2>4
<1>6. CASE ScopeDone
  <2>1. /\ pc = "aggregate" /\ pc' = "scoped" /\ rules' = rules /\ wanted' = wanted
        /\ \A j \in Scoping : j < i
        /\ scope' = IF scope.all THEN [NoScope EXCEPT !.all = TRUE]
                    ELSE [scope EXCEPT !.self = TRUE]
    BY <1>6 DEF ScopeDone, Scoping
  <2>2. CASE scope.all
    <3>1. \E j \in Scoping : Unlimited(j)
      BY <2>1, <2>2 DEF Gathering
    <3>2. scope'.all
      BY <2>1, <2>2 DEF NoScope
    <3> QED  BY <2>1, <3>1, <3>2, ScopingStays DEF Gathering, ScopeRight, Fresh, Unlimited
  <2>3. CASE ~scope.all
    <3>1. \A j \in Scoping : \A n \in DOMAIN rules[j].scopes : Seen(j, n)
      BY <2>1 DEF Seen
    <3>2. \A j \in Scoping : ~Unlimited(j)
      <4>1. \A j \in Scoping : Scopes(j) # {}
        BY <2>1, <2>3 DEF Gathering
      <4>2. \A j \in Scoping : \A n \in DOMAIN rules[j].scopes : rules[j].scopes[n].type # "all"
        BY <2>1, <2>3, <3>1 DEF Gathering
      <4>3. \A j \in Scoping : \A row \in Scopes(j) : row.type # "all"
        BY <4>2 DEF Scopes
      <4> QED  BY <4>1, <4>3 DEF Unlimited
    <3>3. scope'.self /\ ~scope'.all /\ scope'.groups = scope.groups
      BY <2>1, <2>3
    <3>4. scope.groups = {g \in Groups : \E j \in Scoping :
                            [type |-> "group", group |-> g] \in Scopes(j)}
      BY <2>1, <2>3, <3>1 DEF Gathering, Scopes
    <3> QED
      BY <2>1, <3>2, <3>3, <3>4, ScopingStays DEF Gathering, ScopeRight, Fresh, Unlimited
  <2> QED  BY <2>2, <2>3
<1> QED
  BY <1>1, <1>2, <1>3, <1>4, <1>5, <1>6 DEF CheckNext

LEMMA OwnVisibleStep ==
  ASSUME OwnVisible, CheckNext
  PROVE  OwnVisible'
<1>1. CASE ScopeDone
  BY <1>1 DEF ScopeDone, NoScope, OwnVisible
<1>2. CASE UnscopedRule \/ MergeScope \/ SkipRule
  <2>1. pc' = "aggregate"
    BY <1>2, Zenon DEF UnscopedRule, MergeScope, SkipRule, Aggregating
  <2> QED  BY <2>1 DEF OwnVisible
<1>3. CASE TurnAway \/ LoadPermissionSet \/ CheckRule \/ CheckDone
  <2>1. pc' \in {"check", "aggregate", "refused"}
    BY <1>3 DEF TurnAway, LoadPermissionSet, CheckRule, Deny, CheckDone
  <2> QED  BY <2>1 DEF OwnVisible
<1> QED  BY <1>1, <1>2, <1>3 DEF CheckNext

LEMMA InvStep == IInv /\ [Next]_vars => IInv'
<1> SUFFICES ASSUME IInv, [Next]_vars PROVE IInv'
  OBVIOUS
<1>0. TypeOK'
  BY TypeStep DEF IInv
<1>1. CASE CheckNext
  BY <1>0, <1>1, DecidingStep, GatheringStep, OwnVisibleStep DEF IInv
<1>2. CASE DataScopeForAction
  <2>1. pc = "scoped" /\ pc' = "query" /\ scope' = scope
    BY <1>2 DEF DataScopeForAction
  <2> QED
    BY <1>0, <2>1
    DEF IInv, Fresh, Deciding, DecisionRight, Gathering, ScopeRight, OwnVisible
<1>3. CASE ScopeFails
  <2>1. pc' = "query" /\ scope'.self
    BY <1>3 DEF ScopeFails, NoScope
  <2> QED
    BY <1>0, <2>1
    DEF IInv, Fresh, Deciding, DecisionRight, Gathering, ScopeRight, OwnVisible
<1>4. CASE Query
  <2>1. pc = "query" /\ pc' = "answer" /\ scope' = scope
    BY <1>4 DEF Query
  <2> QED
    BY <1>0, <2>1
    DEF IInv, Fresh, Deciding, DecisionRight, Gathering, ScopeRight, OwnVisible
<1>5. CASE UNCHANGED vars
  <2>1. UNCHANGED checkVars
    BY <1>5 DEF vars
  <2>2. Fresh' /\ Deciding' /\ DecisionRight'
    BY <2>1 DEF IInv, checkVars, requestVars, Fresh, Deciding, DecisionRight, Rules, Applies
  <2>3. /\ pc' = pc /\ rules' = rules /\ scope' = scope /\ i' = i
        /\ Scoping' = Scoping
        /\ \A j : Scopes(j)' = Scopes(j)
        /\ \A j : Unlimited(j)' = Unlimited(j)
        /\ \A j, n : Seen(j, n)' <=> Seen(j, n)
    BY <2>1, ScopingStays DEF checkVars, requestVars, Seen
  <2>4. Gathering /\ ScopeRight /\ OwnVisible
    BY DEF IInv
  <2>5. Gathering'
    BY ONLY <2>3, <2>4 DEF Gathering
  <2>6. ScopeRight'
    BY ONLY <2>3, <2>4 DEF ScopeRight
  <2>7. OwnVisible'
    BY ONLY <2>3, <2>4 DEF OwnVisible
  <2> QED  BY <1>0, <2>2, <2>5, <2>6, <2>7 DEF IInv
<1> QED  BY <1>1, <1>2, <1>3, <1>4, <1>5 DEF Next

\* The strengthening that all the invariants below follow from.
THEOREM InductiveInvariant == Spec => []IInv
<1>1. Init => IInv
  BY InitTypeOK, InitLoops DEF IInv
<1> QED  BY <1>1, InvStep, PTL DEF Spec

\* A denial wins wherever it stands among the rules, and without an allowance
\* there is no access (CheckResource), for any number of rules.
THEOREM DenialWins == Spec => []DecisionRight
<1>1. IInv => DecisionRight
  BY DEF IInv
<1> QED  BY <1>1, InductiveInvariant, PTL

\* The merged scope is the union the rules describe, whatever their order and
\* wherever aggregateDataScopes leaves its loops early.
THEOREM ScopeIndependentOfOrder == Spec => []ScopeRight
<1>1. IInv => ScopeRight
  BY DEF IInv
<1> QED  BY <1>1, InductiveInvariant, PTL

-----------------------------------------------------------------------------
(* Lists and checks *)

LEMMA CheckedIsListed ==
  ASSUME TypeOK, OwnVisible, pc = "answer"
  PROVE  \A w \in Principals : CanAccessPrincipal(w) => w \in Listed
<1> SUFFICES ASSUME NEW w \in Principals, CanAccessPrincipal(w) PROVE w \in Listed
  OBVIOUS
<1>1. CASE w \in Accounts
  <2>1. w \notin Groups /\ w \notin Apps
    BY <1>1, VisibilityAssumption
  <2> QED
    BY <1>1, <2>1 DEF OwnVisible, CanAccessPrincipal, CanAccessAccount, Listed, applyAccountScope
<1>2. CASE w \in Groups
  <2>1. w \notin Accounts /\ w \notin Apps
    BY <1>2, VisibilityAssumption
  <2> QED  BY <1>2, <2>1 DEF CanAccessPrincipal, Listed, applyGroupScope
<1>3. CASE w \in Apps
  <2>1. w \notin Accounts /\ w \notin Groups
    BY <1>3, VisibilityAssumption
  <2> QED  BY <1>3, <2>1 DEF CanAccessPrincipal, Listed, applyAppScope
<1> QED  BY <1>1, <1>2, <1>3 DEF Principals

LEMMA ListedIsOpen ==
  ASSUME TypeOK, OwnVisible, pc = "answer", ~failed
  PROVE  Listed \ Own \subseteq {w \in Principals : CanAccessPrincipal(w)}
<1> SUFFICES ASSUME NEW w \in Listed \ Own PROVE w \in Principals /\ CanAccessPrincipal(w)
  OBVIOUS
<1>1. CASE w \in applyAccountScope
  BY <1>1 DEF OwnVisible, applyAccountScope, CanAccessPrincipal, CanAccessAccount, Principals
<1>2. CASE w \in applyGroupScope
  BY <1>2 DEF applyGroupScope, CanAccessPrincipal, Own, Principals
<1>3. CASE w \in applyAppScope
  BY <1>3 DEF applyAppScope, CanAccessPrincipal, Own, Principals
<1> QED  BY <1>1, <1>2, <1>3 DEF Listed

LEMMA AnswersFollowLists == TypeOK /\ OwnVisible => PagesFollowLists
<1> SUFFICES ASSUME TypeOK, OwnVisible, pc = "answer" PROVE PagesFollowLists
  BY DEF PagesFollowLists
<1>0. /\ Principals \cap Policies = {}
      /\ Principals \cap StatementRows = {} /\ Policies \cap StatementRows = {}
  BY VisibilityAssumption
<1>1. /\ Detail \cap Principals = {w \in Principals : CanAccessPrincipal(w)}
      /\ Detail \cap Policies = {c \in Policies : CanAccessPolicy(c)}
      /\ Update \cap StatementRows = {s \in StatementRows : CanManage(s)}
  BY <1>0 DEF Detail, Update
<1>2. Detail \cap Principals \subseteq Listed
  BY <1>1, CheckedIsListed
<1>3. Detail \cap Policies \subseteq applyPolicyScope
  BY <1>1 DEF applyPolicyScope, CanAccessPolicy
<1>4. ~failed => (Listed \cup applyPolicyScope) \ Own \subseteq Detail
  <2> SUFFICES ASSUME ~failed PROVE (Listed \cup applyPolicyScope) \ Own \subseteq Detail
    OBVIOUS
  <2>1. Listed \ Own \subseteq Detail
    BY ListedIsOpen DEF Detail
  <2>2. applyPolicyScope \subseteq {c \in Policies : CanAccessPolicy(c)}
    BY DEF applyPolicyScope, CanAccessPolicy
  <2> QED  BY <2>1, <2>2 DEF Detail
<1>5. \A w \in Principals : ListByPrincipal(w) # {} => w \in Listed
  BY CheckedIsListed DEF ListByPrincipal
<1>6. \A c \in Policies : ListPrincipals(c) \subseteq Listed
  BY CheckedIsListed DEF ListPrincipals
<1>7. Update \cap StatementRows \subseteq applyScope
  BY <1>1 DEF CanManage, applyScope
<1> QED  BY <1>2, <1>3, <1>4, <1>5, <1>6, <1>7 DEF PagesFollowLists

\* The pages and grant queries that ask for the scope answer with the rows of
\* the lists: with none that a list hides, and with all but the viewer's own
\* groups and apps (CanAccessPrincipal, CanAccessPolicy).
THEOREM PagesAnswerAsListed == Spec => []PagesFollowLists
<1>1. IInv => PagesFollowLists
  BY AnswersFollowLists DEF IInv
<1> QED  BY <1>1, InductiveInvariant, PTL

-----------------------------------------------------------------------------
(* GlobMatch: the inductive invariant *)

\* Variables keep their types.
GlobTypeOK ==
  /\ parts \in Seq(Seq(Symbols)) /\ Len(parts) >= 1
  /\ subject \in Seq(Symbols)
  /\ part \in 1..Len(parts)
  /\ pos \in 0..Len(subject)
  /\ result \in {"running", "match", "no match"}

Ats == [1..Len(parts) -> 0..Len(subject)]

\* The parts before the next lie one after the other, and end at pos.
Laid ==
  \E at \in Ats :
    /\ at[1] = 0
    /\ \A j \in 1..part - 1 : OccursAt(parts[j], at[j])
    /\ \A j \in 1..part - 2 : at[j] + Len(parts[j]) <= at[j + 1]
    /\ at[part - 1] + Len(parts[part - 1]) = pos

\* No placement has them end earlier.
Earliest ==
  \A at \in Ats : Placement(at) => pos <= at[part - 1] + Len(parts[part - 1])

Past == Len(parts) > 1 /\ part > 1

LoopInv ==
  /\ Past => EndsMatch /\ Laid /\ Earliest
  /\ result = "match" => part = Len(parts) /\ (Past \/ parts[1] = subject)
  /\ result = "no match" => ~Matches

GlobInv == GlobTypeOK /\ LoopInv

\* Sequences as functions.
LEMMA SequenceFacts ==
  ASSUME NEW S, NEW q \in Seq(S)
  PROVE  /\ Len(q) \in Nat
         /\ q \in [1..Len(q) -> S]
         /\ SubSeq(q, 1, Len(q)) = q
<1>1. Len(q) \in Nat /\ q \in [1..Len(q) -> S]
  OBVIOUS
<1>2. SubSeq(q, 1, Len(q)) = [j \in 1..Len(q) |-> q[j]]
  <2>1. SubSeq(q, 1, Len(q)) \in Seq(S) /\ Len(SubSeq(q, 1, Len(q))) = Len(q)
    BY <1>1
  <2>2. \A j \in 1..Len(q) : SubSeq(q, 1, Len(q))[j] = q[j]
    BY <1>1
  <2> QED  BY <1>1, <2>1, <2>2
<1> QED
  BY <1>1, <1>2

\* The parts are sequences, and there is a first and a last one.
LEMMA PartsAreSequences ==
  ASSUME GlobTypeOK
  PROVE  /\ Len(parts) \in Nat \ {0} /\ Len(subject) \in Nat
         /\ 1 \in 1..Len(parts) /\ Len(parts) \in 1..Len(parts)
         /\ \A j \in 1..Len(parts) : parts[j] \in Seq(Symbols) /\ Len(parts[j]) \in Nat
<1>1. /\ Len(parts) \in Nat /\ Len(parts) >= 1
      /\ parts \in [1..Len(parts) -> Seq(Symbols)]
      /\ Len(subject) \in Nat
  BY SequenceFacts DEF GlobTypeOK
<1>2. \A w \in Seq(Symbols) : Len(w) \in Nat
  BY SequenceFacts
<1> QED
  BY <1>1, <1>2

\* The reference looks at the ends, too.
LEMMA PlacementEnds ==
  ASSUME GlobTypeOK, Matches
  PROVE  EndsMatch
<1>1. PICK at \in Ats : Placement(at)
  BY DEF Matches, Ats
<1>2. /\ at[1] = 0 /\ OccursAt(parts[1], at[1])
      /\ OccursAt(parts[Len(parts)], at[Len(parts)])
      /\ at[Len(parts)] + Len(parts[Len(parts)]) = Len(subject)
      /\ at[Len(parts)] \in 0..Len(subject)
  BY <1>1, PartsAreSequences DEF Placement, Ats
<1>3. /\ at[Len(parts)] = Len(subject) - Len(parts[Len(parts)])
      /\ Len(parts[Len(parts)]) <= Len(subject)
  BY <1>2, PartsAreSequences
<1> QED
  BY <1>2, <1>3 DEF EndsMatch, HasPrefix, HasSuffix

\* A whole sequence occurs at its beginning, and nothing else of its length does.
LEMMA Whole ==
  ASSUME GlobTypeOK, NEW w \in Seq(Symbols)
  PROVE  OccursAt(w, 0) /\ Len(w) = Len(subject) <=> w = subject
<1>1. /\ SubSeq(subject, 1, Len(subject)) = subject /\ Len(subject) \in Nat
      /\ Len(w) \in Nat
  BY SequenceFacts DEF GlobTypeOK
<1> QED
  BY <1>1 DEF OccursAt

\* A pattern without a star matches itself only.
LEMMA StarlessMatches ==
  ASSUME GlobTypeOK, Len(parts) = 1
  PROVE  Matches <=> parts[1] = subject
<1>1. ASSUME Matches PROVE parts[1] = subject
  <2>1. PICK at \in Ats : Placement(at)
    BY <1>1 DEF Matches, Ats
  <2>2. at[1] = 0 /\ OccursAt(parts[1], 0) /\ 0 + Len(parts[1]) = Len(subject)
    BY <2>1 DEF Placement
  <2> QED  BY <2>2, PartsAreSequences, Whole
<1>2. ASSUME parts[1] = subject PROVE Matches
  <2> DEFINE at == [j \in 1..Len(parts) |-> 0]
  <2>1. OccursAt(parts[1], 0) /\ 0 + Len(parts[1]) = Len(subject)
    BY <1>2, PartsAreSequences, Whole
  <2>2. at \in [1..Len(parts) -> 0..Len(subject)] /\ at[1] = 0
    BY PartsAreSequences
  <2>3. Placement(at)
    <3>1. \A j \in 1..Len(parts) : j = 1
      OBVIOUS
    <3>2. 1..(Len(parts) - 1) = {}
      OBVIOUS
    <3> HIDE DEF at
    <3> QED  BY <2>1, <2>2, <3>1, <3>2 DEF Placement
  <2> QED  BY <2>2, <2>3 DEF Matches
<1> QED
  BY <1>1, <1>2

\* The last part fits behind the others: a placement of them all.
LEMMA RoomMatches ==
  ASSUME GlobInv, Past, part = Len(parts), RoomForLast
  PROVE  Matches
<1> DEFINE n == Len(parts)
           last == Len(subject) - Len(parts[n])
<1>1. /\ n \in Nat /\ n > 1 /\ Len(subject) \in Nat
      /\ \A j \in 1..n : Len(parts[j]) \in Nat
      /\ pos \in 0..Len(subject)
  BY PartsAreSequences DEF GlobInv, GlobTypeOK, Past
<1>2. PICK at \in Ats :
        /\ at[1] = 0
        /\ \A j \in 1..n - 1 : OccursAt(parts[j], at[j])
        /\ \A j \in 1..n - 2 : at[j] + Len(parts[j]) <= at[j + 1]
        /\ at[n - 1] + Len(parts[n - 1]) = pos
  BY DEF GlobInv, LoopInv, Laid
<1>3. OccursAt(parts[n], last) /\ pos <= last /\ last \in 0..Len(subject)
  <2>1. OccursAt(parts[n], last) /\ pos + Len(parts[n]) <= Len(subject)
    BY DEF GlobInv, LoopInv, EndsMatch, HasSuffix, RoomForLast
  <2>2. Len(parts[n]) \in Nat
    BY <1>1
  <2> QED  BY <1>1, <2>1, <2>2
<1> DEFINE full == [at EXCEPT ![n] = last]
<1>4. /\ full \in [1..n -> 0..Len(subject)]
      /\ full[n] = last
      /\ \A j \in 1..n - 1 : full[j] = at[j]
  BY <1>1, <1>3 DEF Ats
<1> HIDE DEF full, last
<1>5. Placement(full)
  <2>1. full[1] = 0
    BY <1>1, <1>2, <1>4
  <2>2. ASSUME NEW j \in 1..n PROVE OccursAt(parts[j], full[j])
    <3>1. j = n \/ j \in 1..n - 1
      BY <1>1
    <3> QED  BY <1>2, <1>3, <1>4, <3>1
  <2>3. ASSUME NEW j \in 1..n - 1 PROVE full[j] + Len(parts[j]) <= full[j + 1]
    <3>1. CASE j = n - 1
      BY <1>1, <1>2, <1>3, <1>4, <3>1
    <3>2. CASE j # n - 1
      <4>1. j \in 1..n - 2 /\ j + 1 \in 1..n - 1
        BY <1>1, <3>2
      <4> QED  BY <1>2, <1>4, <4>1
    <3> QED  BY <3>1, <3>2
  <2>4. full[n] + Len(parts[n]) = Len(subject)
    BY <1>1, <1>4 DEF last
  <2> QED  BY <2>1, <2>2, <2>3, <2>4 DEF Placement
<1> QED
  BY <1>4, <1>5 DEF Matches

\* The loop invariant holds at the start ...
LEMMA GlobInitInv == GlobInit => GlobInv
<1> SUFFICES ASSUME GlobInit PROVE GlobInv
  OBVIOUS
<1>1. PICK n \in 1..MaxParts : parts \in [1..n -> Parts]
  BY DEF GlobInit
<1>2. parts \in Seq(Seq(Symbols)) /\ Len(parts) = n /\ n \in Nat \ {0}
  <2>1. parts \in [1..n -> Seq(Symbols)] /\ n \in Nat \ {0}
    BY <1>1, GlobMatchAssumption
  <2> QED  BY <2>1
<1>3. subject \in Seq(Symbols) /\ Len(subject) \in Nat
  BY GlobMatchAssumption, SequenceFacts DEF GlobInit
<1>4. GlobTypeOK
  BY <1>2, <1>3 DEF GlobInit, GlobTypeOK
<1>5. ~Past /\ result = "running"
  BY DEF Past, GlobInit
<1> QED
  BY <1>4, <1>5 DEF GlobInv, LoopInv

\* Returning leaves what is known of the parts as it is.
LEMMA ReturnStep ==
  ASSUME GlobInv, NEW r \in {"match", "no match"}, Return(r),
         r = "match" => part = Len(parts) /\ (Past \/ parts[1] = subject),
         r = "no match" => ~Matches
  PROVE  GlobInv'
<1>1. result' = r /\ parts' = parts /\ subject' = subject /\ part' = part /\ pos' = pos
  BY DEF Return
<1>2. GlobTypeOK'
  BY <1>1 DEF GlobInv, GlobTypeOK
<1>3. /\ Past' <=> Past
      /\ EndsMatch' <=> EndsMatch
      /\ Laid' <=> Laid
      /\ Earliest' <=> Earliest
      /\ Matches' <=> Matches
  BY <1>1 DEF Past, EndsMatch, HasPrefix, HasSuffix, OccursAt, Laid, Earliest, Ats,
              Matches, Placement
<1> QED
  BY <1>1, <1>2, <1>3 DEF GlobInv, LoopInv

\* ... and every step keeps it: without a star,
LEMMA CompareStep ==
  ASSUME GlobInv, Compare
  PROVE  GlobInv'
<1>1. Len(parts) = 1 /\ part = 1
  <2>1. Len(parts) = 1 /\ part \in 1..Len(parts)
    BY DEF Compare, GlobInv, GlobTypeOK
  <2> QED  BY <2>1
<1>2. CASE parts[1] = subject /\ Return("match")
  BY <1>1, <1>2, ReturnStep
<1>3. CASE parts[1] # subject /\ Return("no match")
  BY <1>1, <1>3, ReturnStep, StarlessMatches DEF GlobInv
<1> QED
  BY <1>2, <1>3 DEF Compare

\* ... at the two ends,
LEMMA CheckEndsStep ==
  ASSUME GlobInv, CheckEnds
  PROVE  GlobInv'
<1>1. Len(parts) > 1 /\ part = 1 /\ result = "running" /\ GlobTypeOK
  BY DEF CheckEnds, GlobInv
<1>2. CASE EndsMatch /\ part' = 2 /\ pos' = Len(parts[1]) /\ UNCHANGED <<parts, subject, result>>
  <2>1. OccursAt(parts[1], 0) /\ Len(parts[1]) \in Nat /\ 0 + Len(parts[1]) <= Len(subject)
    <3>1. OccursAt(parts[1], 0)
      BY <1>2 DEF EndsMatch, HasPrefix
    <3> QED  BY <1>1, <3>1, PartsAreSequences DEF OccursAt
  <2>2. GlobTypeOK'
    BY <1>1, <1>2, <2>1, PartsAreSequences DEF GlobTypeOK
  <2>3. EndsMatch'
    BY <1>2 DEF EndsMatch, HasPrefix, HasSuffix, OccursAt
  <2>4. Laid'
    <3> DEFINE at == [j \in 1..Len(parts) |-> 0]
    <3>1. at \in Ats' /\ at[1] = 0
      BY <1>1, <1>2, PartsAreSequences DEF Ats
    <3>2. \A j \in 1..2 - 1 : j = 1
      OBVIOUS
    <3>3. 1..2 - 2 = {}
      OBVIOUS
    <3>4. OccursAt(parts[1], 0)'
      BY <1>2, <2>1 DEF OccursAt
    <3>5. at[2 - 1] + Len(parts[2 - 1]) = pos'
      BY <1>2, <2>1, <3>1
    <3> HIDE DEF at
    <3> QED  BY <1>2, <3>1, <3>2, <3>3, <3>4, <3>5 DEF Laid
  <2>5. Earliest'
    <3>1. ASSUME NEW at \in Ats', Placement(at)' PROVE pos' <= at[2 - 1] + Len(parts[2 - 1])
      <4>1. at[1] = 0
        BY <3>1 DEF Placement
      <4> QED  BY <1>2, <2>1, <4>1
    <3> QED  BY <1>2, <3>1 DEF Earliest
  <2> QED  BY <1>1, <1>2, <2>2, <2>3, <2>4, <2>5 DEF GlobInv, LoopInv
<1>3. CASE ~EndsMatch /\ Return("no match")
  BY <1>1, <1>3, PlacementEnds, ReturnStep
<1> QED
  BY <1>2, <1>3 DEF CheckEnds

\* ... and at a part in the middle.
LEMMA FindPartStep ==
  ASSUME GlobInv, FindPart
  PROVE  GlobInv'
<1> DEFINE n == Len(parts)
<1>1. /\ result = "running" /\ 1 < part /\ part < n /\ part \in Nat /\ n \in Nat
      /\ GlobTypeOK /\ EndsMatch /\ Laid /\ Earliest
      /\ \A j \in 1..n : parts[j] \in Seq(Symbols) /\ Len(parts[j]) \in Nat
      /\ pos \in 0..Len(subject) /\ Len(subject) \in Nat
  <2>1. /\ result = "running" /\ 1 < part /\ part < n /\ part \in 1..n
        /\ GlobTypeOK /\ pos \in 0..Len(subject)
    BY DEF FindPart, GlobInv, GlobTypeOK
  <2>2. /\ n \in Nat /\ Len(subject) \in Nat
        /\ \A j \in 1..n : parts[j] \in Seq(Symbols) /\ Len(parts[j]) \in Nat
    BY <2>1, PartsAreSequences
  <2>3. part \in Nat /\ n > 1
    BY <2>1, <2>2
  <2>4. EndsMatch /\ Laid /\ Earliest
    BY <2>1, <2>3 DEF GlobInv, LoopInv, Past
  <2> QED  BY <2>1, <2>2, <2>3, <2>4
\* Wherever the pattern lies, the next part comes after pos.
<1>2. ASSUME NEW at \in Ats, Placement(at)
      PROVE  at[part] \in Places(parts[part]) /\ at[part] \in 0..Len(subject)
  <2>1. /\ part \in 1..n /\ part - 1 \in 1..n - 1 /\ part - 1 \in 1..n /\ part - 1 + 1 = part
        /\ at[part] \in 0..Len(subject) /\ at[part - 1] \in 0..Len(subject)
    <3>1. part \in 1..n /\ part - 1 \in 1..n - 1 /\ part - 1 \in 1..n /\ part - 1 + 1 = part
      BY <1>1
    <3> QED  BY <3>1 DEF Ats
  <2>2. OccursAt(parts[part], at[part]) /\ at[part - 1] + Len(parts[part - 1]) <= at[part - 1 + 1]
    BY <1>2, <2>1 DEF Placement
  <2>3. pos <= at[part - 1] + Len(parts[part - 1])
    BY <1>1, <1>2 DEF Earliest
  <2>4. Len(parts[part - 1]) \in Nat
    BY <1>1, <2>1
  <2>5. at[part - 1] + Len(parts[part - 1]) <= at[part]
    BY <2>1, <2>2
  <2>6. at[part] \in pos..Len(subject)
    BY <1>1, <2>1, <2>3, <2>4, <2>5
  <2> QED  BY <2>1, <2>2, <2>6 DEF Places
<1>3. ASSUME NEW p \in Places(parts[part]), IsIndex(parts[part], p),
             part' = part + 1, pos' = p + Len(parts[part]),
             UNCHANGED <<parts, subject, result>>
      PROVE  GlobInv'
  <2>1. /\ part' = part + 1 /\ part' \in 1..n /\ part' - 1 = part /\ part' - 2 = part - 1
        /\ part \in 1..n
    BY <1>1, <1>3
  <2>2. /\ p \in pos..Len(subject) /\ p \in 0..Len(subject) /\ OccursAt(parts[part], p)
        /\ pos' \in 0..Len(subject)
    <3>1. p \in pos..Len(subject) /\ OccursAt(parts[part], p)
      BY <1>3 DEF Places
    <3>2. p + Len(parts[part]) <= Len(subject) /\ Len(parts[part]) \in Nat
      BY <1>1, <2>1, <3>1 DEF OccursAt
    <3> QED  BY <1>1, <1>3, <3>1, <3>2
  <2>3. GlobTypeOK'
    BY <1>1, <1>3, <2>1, <2>2 DEF GlobTypeOK
  <2>4. EndsMatch'
    BY <1>1, <1>3 DEF EndsMatch, HasPrefix, HasSuffix, OccursAt
  <2>5. Laid'
    <3>1. PICK at \in Ats :
            /\ at[1] = 0
            /\ \A j \in 1..part - 1 : OccursAt(parts[j], at[j])
            /\ \A j \in 1..part - 2 : at[j] + Len(parts[j]) <= at[j + 1]
            /\ at[part - 1] + Len(parts[part - 1]) = pos
      BY <1>1 DEF Laid
    <3>2. PICK new \in Ats : /\ new[part] = p
                            /\ \A j \in 1..part - 1 : new[j] = at[j]
      <4>1. [at EXCEPT ![part] = p] \in Ats
        BY <2>2 DEF Ats
      <4>2. /\ [at EXCEPT ![part] = p][part] = p
            /\ \A j \in 1..part - 1 : [at EXCEPT ![part] = p][j] = at[j]
        BY <1>1, <2>1 DEF Ats
      <4> QED  BY <4>1, <4>2
    <3>3. new[1] = 0
      BY <1>1, <3>1, <3>2
    <3>4. ASSUME NEW j \in 1..part PROVE OccursAt(parts[j], new[j])
      <4>1. j = part \/ j \in 1..part - 1
        BY <1>1
      <4> QED  BY <2>2, <3>1, <3>2, <4>1
    <3>5. ASSUME NEW j \in 1..part - 1 PROVE new[j] + Len(parts[j]) <= new[j + 1]
      <4>1. CASE j = part - 1
        <5>1. new[j] + Len(parts[j]) = pos /\ new[j + 1] = p
          BY <1>1, <3>1, <3>2, <4>1
        <5> QED  BY <1>1, <2>2, <5>1
      <4>2. CASE j # part - 1
        <5>1. j \in 1..part - 2 /\ j + 1 \in 1..part - 1
          BY <1>1, <4>2
        <5> QED  BY <3>1, <3>2, <5>1
      <4> QED  BY <4>1, <4>2
    <3>6. new[part] + Len(parts[part]) = pos'
      BY <1>3, <3>2
    <3>7. new \in Ats'
      BY <1>3, <3>2 DEF Ats
    <3>8. \A j \in 1..part' - 1 : OccursAt(parts[j], new[j])'
      BY <1>3, <2>1, <3>4 DEF OccursAt
    <3>9. \A j \in 1..part' - 2 : new[j] + Len(parts'[j]) <= new[j + 1]
      BY <1>3, <2>1, <3>5
    <3>10. new[part' - 1] + Len(parts'[part' - 1]) = pos'
      BY <1>3, <2>1, <3>6
    <3> QED  BY <3>3, <3>7, <3>8, <3>9, <3>10 DEF Laid, OccursAt
  <2>6. Earliest'
    <3>1. ASSUME NEW at \in Ats', Placement(at)' PROVE pos' <= at[part] + Len(parts[part])
      <4>1. at \in Ats /\ Placement(at)
        BY <1>3, <3>1 DEF Ats, Placement, OccursAt
      <4>2. at[part] \in Places(parts[part]) /\ at[part] \in 0..Len(subject)
        BY <1>2, <4>1
      <4>3. p <= at[part]
        BY <1>3, <4>2 DEF IsIndex
      <4>4. Len(parts[part]) \in Nat
        BY <1>1, <2>1
      <4> QED  BY <1>3, <2>2, <4>2, <4>3, <4>4
    <3> QED  BY <1>3, <2>1, <3>1 DEF Earliest
  <2> QED  BY <1>1, <1>3, <2>3, <2>4, <2>5, <2>6 DEF GlobInv, LoopInv
<1>4. CASE Places(parts[part]) = {} /\ Return("no match")
  <2>1. ~Matches
    BY <1>2, <1>4 DEF Matches, Ats
  <2> QED  BY <1>4, <2>1, ReturnStep
<1> QED
  BY <1>3, <1>4 DEF FindPart

\* The loop invariant holds in every reachable state.
THEOREM GlobInvariant == GlobSpec => []GlobInv
<1>1. GlobInv /\ [GlobNext]_globVars => GlobInv'
  <2> SUFFICES ASSUME GlobInv, [GlobNext]_globVars PROVE GlobInv'
    OBVIOUS
  <2>1. CASE Finish
    <3>1. Return("match") /\ part = Len(parts) /\ Len(parts) > 1
      BY <2>1 DEF Finish
    <3>2. Past
      BY <3>1 DEF Past
    <3> QED  BY <3>1, <3>2, ReturnStep
  <2>2. CASE UNCHANGED globVars
    <3>1. parts' = parts /\ subject' = subject /\ part' = part /\ pos' = pos /\ result' = result
      BY <2>2 DEF globVars
    <3>2. GlobTypeOK'
      BY <3>1 DEF GlobInv, GlobTypeOK
    <3>3. /\ Past' <=> Past
          /\ EndsMatch' <=> EndsMatch
          /\ Laid' <=> Laid
          /\ Earliest' <=> Earliest
          /\ Matches' <=> Matches
      BY <3>1 DEF Past, EndsMatch, HasPrefix, HasSuffix, OccursAt, Laid, Earliest, Ats,
                  Matches, Placement
    <3> QED  BY <3>1, <3>2, <3>3 DEF GlobInv, LoopInv
  <2> QED  BY <2>1, <2>2, CompareStep, CheckEndsStep, FindPartStep DEF GlobNext
<1> QED
  BY GlobInitInv, <1>1, PTL DEF GlobSpec

-----------------------------------------------------------------------------
\* What a pattern covers is matched, for every pattern and every subject
\* (permission.go globMatch): going for the first place misses nothing.
THEOREM NothingMissed == GlobSpec => []NoMatchMissed
<1>1. GlobInv => NoMatchMissed
  BY DEF GlobInv, LoopInv, NoMatchMissed
<1> QED
  BY <1>1, GlobInvariant, PTL

\* What is matched is covered, for every pattern and every subject, wherever the
\* parts found leave room for the last one (permission.go globMatch).
THEOREM MatchCovered == GlobSpec => []MatchIsRight
<1>1. GlobInv => MatchIsRight
  <2> SUFFICES ASSUME GlobInv, result = "match", Len(parts) = 1 \/ RoomForLast
               PROVE  Matches
    BY DEF MatchIsRight
  <2>1. part = Len(parts) /\ (Past \/ parts[1] = subject)
    BY DEF GlobInv, LoopInv
  <2>2. CASE Len(parts) = 1
    <3>1. parts[1] = subject
      BY <2>1, <2>2 DEF Past
    <3> QED  BY <2>2, <3>1, StarlessMatches DEF GlobInv
  <2>3. CASE Len(parts) # 1 /\ RoomForLast
    <3>1. Past
      BY <2>1, <2>3, PartsAreSequences DEF Past, GlobInv
    <3> QED  BY <2>1, <2>3, <3>1, RoomMatches
  <2> QED  BY <2>2, <2>3
<1> QED
  BY <1>1, GlobInvariant, PTL
=============================================================================
