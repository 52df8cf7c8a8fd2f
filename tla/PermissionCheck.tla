---------------------------- MODULE PermissionCheck ----------------------------
(***************************************************************************)
(* From stored statements to a decision and a data scope: the rules of an  *)
(* account are built (LoadPermissionSet), the permission middleware checks *)
(* the action of the route against them (CheckResource without a           *)
(* resource), and the handler merges the data scopes of the rules for the  *)
(* resource it shows (aggregateDataScopes).  Source: logic/permission.go,  *)
(* middleware/permission.go.                                               *)
(*                                                                         *)
(* Each loop is a loop here: one step is one rule, or one row of a rule's  *)
(* scopes.  How a pattern of a rule is matched is in GlobMatch; here a     *)
(* rule has the set of actions its patterns match.  The handler loads the  *)
(* rules again, from the same cache key; here they are the same rules.     *)
(***************************************************************************)
EXTENDS Naturals, Sequences

CONSTANTS
  Groups,
  Actions,     \* what the routes require and the handlers ask scopes for
  ScopeLists   \* the scopes a statement may be stored with

\* A row of q_iam_statement_scopes; only rows of type group have a group.
Scope == [type : {"all", "self", "attribute"}] \cup [type : {"group"}, group : Groups]

ASSUME PermissionCheckAssumption == ScopeLists \subseteq Seq(Scope)

\* limited: with a resource other than "" and "*".
Statement == [effect : {"Allow", "Deny"}, actions : SUBSET Actions,
              limited : BOOLEAN, scopes : ScopeLists]

VARIABLES
  statements,  \* of the account's policies, in the order they are read
  route,       \* the action the route requires
  wanted,      \* the action the handler asks the data scope for
  pc,          \* "load", "check", "aggregate", "scoped" or "refused"
  rules,       \* PermissionSet.rules
  i, k,        \* the loops over rules, and over the scopes of a rule
  allowed,
  scope        \* ResourceDataScope

requestVars == <<statements, route, wanted>>
checkVars == <<requestVars, pc, rules, i, k, allowed, scope>>

NoScope == [all |-> FALSE, self |-> FALSE, groups |-> {}]

-----------------------------------------------------------------------------
\* The account is disabled or may not use the console, or its rules cannot be
\* loaded.
TurnAway ==
  /\ pc = "load"
  /\ pc' = "refused"
  /\ UNCHANGED <<requestVars, rules, i, k, allowed, scope>>

\* A rule gets effect, action and scopes of the statement; the resource is not
\* copied.
Loaded(st) == [st EXCEPT !.limited = FALSE]

LoadPermissionSet ==
  /\ pc = "load"
  /\ rules' = [j \in DOMAIN statements |-> Loaded(statements[j])]
  /\ pc' = "check"
  /\ UNCHANGED <<requestVars, i, k, allowed, scope>>

-----------------------------------------------------------------------------
(* CheckResource *)

\* matchAction, and matchResource where there is no resource.
Applies(rule, action) == action \in rule.actions /\ ~rule.limited

Skip(rule) == ~Applies(rule, route)

\* Variant: a denial is like no permission, and a later rule may allow.
Variant_Deny == pc' = pc /\ allowed' = FALSE /\ i' = i + 1

\* An explicit denial ends the loop.
Deny == pc' = "refused" /\ UNCHANGED <<i, allowed>>

CheckRule ==
  /\ pc = "check" /\ i <= Len(rules)
  /\ \/ Skip(rules[i]) /\ i' = i + 1 /\ UNCHANGED <<pc, allowed>>
     \/ ~Skip(rules[i]) /\ rules[i].effect = "Deny" /\ Deny
     \/ /\ ~Skip(rules[i]) /\ rules[i].effect = "Allow"
        /\ allowed' = TRUE /\ i' = i + 1 /\ UNCHANGED pc
  /\ UNCHANGED <<requestVars, rules, k, scope>>

\* No rule denied.  The middleware refuses the request or lets it through.
CheckDone ==
  /\ pc = "check" /\ i > Len(rules)
  /\ pc' = IF allowed THEN "aggregate" ELSE "refused"
  /\ i' = 1
  /\ UNCHANGED <<requestVars, rules, k, allowed, scope>>

-----------------------------------------------------------------------------
(* aggregateDataScopes *)

Aggregating == pc = "aggregate" /\ i <= Len(rules)

NextRule == i' = i + 1 /\ k' = 1

\* The effect of a rule plays no part here.
SkipRule ==
  /\ Aggregating /\ wanted \notin rules[i].actions
  /\ NextRule
  /\ UNCHANGED <<requestVars, pc, rules, allowed, scope>>

\* Variant: no scopes, nothing to see.
Variant_Unrestricted == FALSE

Unrestricted == TRUE

\* A rule without scopes.
UnscopedRule ==
  /\ Aggregating /\ wanted \in rules[i].actions /\ rules[i].scopes = <<>>
  /\ scope' = [scope EXCEPT !.all = @ \/ Unrestricted]
  /\ NextRule
  /\ UNCHANGED <<requestVars, pc, rules, allowed>>

\* Variant: the row is appended in place of its group.
Variant_merge(sc, row) ==
  CASE row.type = "all" -> [sc EXCEPT !.all = TRUE]
    [] row.type \in {"self", "attribute"} -> [sc EXCEPT !.self = TRUE]
    [] row.type = "group" -> [sc EXCEPT !.groups = @ \cup {row}]

merge(sc, row) ==
  CASE row.type = "all" -> [sc EXCEPT !.all = TRUE]
    [] row.type \in {"self", "attribute"} -> [sc EXCEPT !.self = TRUE]
    [] row.type = "group" -> [sc EXCEPT !.groups = @ \cup {row.group}]

\* One row is merged; the rest is not needed when everything is visible.
MergeScope ==
  /\ Aggregating /\ wanted \in rules[i].actions
  /\ k <= Len(rules[i].scopes)
  /\ scope' = merge(scope, rules[i].scopes[k])
  /\ IF scope'.all \/ k = Len(rules[i].scopes)
       THEN NextRule
       ELSE k' = k + 1 /\ UNCHANGED i
  /\ UNCHANGED <<requestVars, pc, rules, allowed>>

\* Whoever does not see everything sees what is his own.
ScopeDone ==
  /\ pc = "aggregate" /\ i > Len(rules)
  /\ scope' = IF scope.all THEN [NoScope EXCEPT !.all = TRUE]
              ELSE [scope EXCEPT !.self = TRUE]
  /\ pc' = "scoped"
  /\ UNCHANGED <<requestVars, rules, i, k, allowed>>

-----------------------------------------------------------------------------
CheckInit ==
  /\ pc = "load"
  /\ rules = <<>>
  /\ i = 1 /\ k = 1
  /\ allowed = FALSE
  /\ scope = NoScope

CheckNext ==
  \/ TurnAway \/ LoadPermissionSet
  \/ CheckRule \/ CheckDone
  \/ SkipRule \/ UnscopedRule \/ MergeScope \/ ScopeDone

-----------------------------------------------------------------------------
CheckTypeOK ==
  /\ statements \in Seq(Statement)
  /\ route \in Actions
  /\ wanted \in Actions
  /\ pc \in {"load", "check", "aggregate", "scoped", "query", "answer", "refused"}
  /\ rules \in Seq(Statement)
  /\ i \in Nat \ {0}
  /\ k \in Nat \ {0}
  /\ allowed \in BOOLEAN
  /\ scope \in [all : BOOLEAN, self : BOOLEAN, groups : SUBSET Groups]

Rules(action, effect) ==
  {j \in DOMAIN rules : Applies(rules[j], action) /\ rules[j].effect = effect}

\* Explicit denial wins, in whatever order policies and statements are read; a
\* request goes on only if some rule allows it and none denies it
\* (permission.go:51).
DecisionRight ==
  /\ pc = "refused" => Rules(route, "Allow") = {} \/ Rules(route, "Deny") # {}
  /\ pc \in {"aggregate", "scoped"} =>
       Rules(route, "Allow") # {} /\ Rules(route, "Deny") = {}

Scopes(j) == {rules[j].scopes[n] : n \in DOMAIN rules[j].scopes}

\* The rules whose scopes count.
Scoping == {j \in DOMAIN rules : wanted \in rules[j].actions}

\* The merged scope does not depend on the order of rules and rows: everything
\* if one rule says so, otherwise one's own and the union of the groups
\* (permission.go:396-400), wherever a loop was left early.
ScopeRight ==
  pc = "scoped" =>
    IF \E j \in Scoping : Scopes(j) = {} \/ \E row \in Scopes(j) : row.type = "all"
      THEN scope.all
      ELSE /\ ~scope.all /\ scope.self
           /\ scope.groups = {g \in Groups : \E j \in Scoping :
                                [type |-> "group", group |-> g] \in Scopes(j)}
=============================================================================
