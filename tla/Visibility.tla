------------------------------- MODULE Visibility -------------------------------
(***************************************************************************)
(* Which rows an account that is not the built-in administrator sees: the  *)
(* filters of the lists and the checks before a page or a request for one  *)
(* row.  Source: logic/permission.go (CanAccessPrincipal, CanAccessPolicy),*)
(* logic/account.go, logic/group.go, logic/app.go, logic/policy.go,        *)
(* logic/statement.go, logic/grant.go, and the handlers of these rows.     *)
(*                                                                         *)
(* PermissionCheck ends with the data scope; then the tables are queried,  *)
(* as they are by then.  The list and the check that get the same scope    *)
(* and see the same tables are compared.                                   *)
(***************************************************************************)
EXTENDS PermissionCheck

CONSTANTS
  Accounts,
  Viewer,         \* the account that asks
  NoAccount,      \* created_by = 0: a built-in row
  Apps,
  Policies,
  StatementRows,  \* rows of the statement pool
  MaxStatements   \* bound: statements of the viewer's policies

Principals == Accounts \cup Groups \cup Apps

ASSUME VisibilityAssumption ==
  /\ MaxStatements \in Nat
  /\ Viewer \in Accounts
  /\ NoAccount \notin Accounts
  \* the rows of different tables
  /\ Accounts \cap Groups = {} /\ Accounts \cap Apps = {} /\ Groups \cap Apps = {}
  /\ Principals \cap Policies = {} /\ (Principals \cup Policies) \cap StatementRows = {}

VARIABLES
  failed,    \* the scope could not be loaded
  member,    \* q_iam_account_groups
  owner,     \* owner[p]: owner_account_id of an app
  creator,   \* creator[c]: created_by of a policy or of a row of the pool
  attached   \* q_iam_policy_attachments

tables == <<member, owner, creator, attached>>
vars == <<checkVars, failed, tables>>

Init ==
  /\ CheckInit
  /\ statements \in UNION {[1..n -> Statement] : n \in 0..MaxStatements}
  /\ route \in Actions /\ wanted \in Actions
  /\ failed = FALSE
  /\ member = {} /\ attached = {}
  /\ owner = [p \in Apps |-> Viewer]
  /\ creator = [c \in Policies \cup StatementRows |-> NoAccount]

-----------------------------------------------------------------------------
\* DataScopeForAction returns: of what was read before, only the scope is kept.
DataScopeForAction ==
  /\ pc = "scoped"
  /\ pc' = "query"
  /\ statements' = <<>> /\ rules' = <<>> /\ i' = 1 /\ k' = 1
  /\ UNCHANGED <<route, wanted, allowed, scope, failed, tables>>

\* The rules cannot be loaded again: a list falls back to what is the viewer's
\* own, a check for one row ends with the error.
ScopeFails ==
  /\ pc = "aggregate" /\ i = 1 /\ k = 1
  /\ pc' = "query"
  /\ scope' = [NoScope EXCEPT !.self = TRUE]
  /\ failed' = TRUE
  /\ statements' = <<>> /\ rules' = <<>>
  /\ UNCHANGED <<route, wanted, i, k, allowed, tables>>

\* The query finds the tables as other requests have left them.
Query ==
  /\ pc = "query"
  /\ pc' = "answer"
  /\ member' \in SUBSET (Accounts \X Groups)
  /\ owner' \in [Apps -> Accounts]
  /\ creator' \in [Policies \cup StatementRows -> Accounts \cup {NoAccount}]
  /\ attached' \in SUBSET (Principals \X Policies)
  /\ UNCHANGED <<requestVars, rules, i, k, allowed, scope, failed>>

Next ==
  \/ CheckNext /\ UNCHANGED <<failed, tables>>
  \/ DataScopeForAction \/ ScopeFails
  \/ Query

Spec == Init /\ [][Next]_vars

-----------------------------------------------------------------------------
(* The lists *)

InGroups(a, G) == \E g \in G : <<a, g>> \in member

\* EXISTS over the attachments of a policy.
AttachedTo(c, G) == \E g \in G : <<g, c>> \in attached

\* No condition is added when everything is visible.
applyAccountScope ==
  {a \in Accounts : \/ scope.all
                    \/ scope.self /\ a = Viewer
                    \/ InGroups(a, scope.groups)}

applyGroupScope ==
  {g \in Groups : \/ scope.all
                  \/ scope.self /\ <<Viewer, g>> \in member
                  \/ g \in scope.groups}

applyAppScope ==
  {p \in Apps : \/ scope.all
                \/ scope.self /\ owner[p] = Viewer
                \/ InGroups(owner[p], scope.groups)}

applyPolicyScope ==
  {c \in Policies : \/ scope.all
                    \/ scope.self /\ creator[c] = Viewer
                    \/ AttachedTo(c, scope.groups)}

\* The pool has no data scopes.
applyScope == {s \in StatementRows : creator[s] \in {Viewer, NoAccount}}

-----------------------------------------------------------------------------
(* The checks for one row *)

\* Variant: an account is visible with any account of its groups.
Variant_CanAccessAccount(a) == a = Viewer \/ \E g \in Groups : {a, Viewer} \X {g} \subseteq member

CanAccessAccount(a) == a = Viewer \/ InGroups(a, scope.groups)

CanAccessPrincipal(w) ==
  /\ ~failed
  /\ \/ scope.all
     \/ w \in Accounts /\ CanAccessAccount(w)
     \/ w \in Groups /\ w \in scope.groups
     \/ w \in Apps /\ InGroups(owner[w], scope.groups)

CanAccessPolicy(c) ==
  /\ ~failed
  /\ \/ scope.all
     \/ scope.self /\ creator[c] = Viewer
     \/ AttachedTo(c, scope.groups)

CanManage(s) == creator[s] # NoAccount /\ creator[s] = Viewer

\* The policies of a principal.
ListByPrincipal(w) ==
  {c \in Policies : CanAccessPrincipal(w) /\ <<w, c>> \in attached}

\* The principals of a policy.
ListPrincipals(c) ==
  {w \in Principals : CanAccessPolicy(c) /\ <<w, c>> \in attached /\ CanAccessPrincipal(w)}

-----------------------------------------------------------------------------
(* Requests for one row by its number *)

\* The rows whose page (Detail) is answered.  The page of a statement asks
\* nothing, neither in its handler nor in GetByID.
Detail ==
  {w \in Principals : CanAccessPrincipal(w)}
  \cup {c \in Policies : CanAccessPolicy(c)}
  \cup StatementRows

\* The rows that Update and Delete take.  Only those of a statement ask who
\* created it; the others ask nothing but the permission for the action.
Update == Principals \cup Policies \cup {s \in StatementRows : CanManage(s)}

-----------------------------------------------------------------------------
TypeOK ==
  /\ CheckTypeOK
  /\ failed \in BOOLEAN
  /\ member \subseteq Accounts \X Groups
  /\ owner \in [Apps -> Accounts]
  /\ creator \in [Policies \cup StatementRows -> Accounts \cup {NoAccount}]
  /\ attached \subseteq Principals \X Policies

Listed == applyAccountScope \cup applyGroupScope \cup applyAppScope

\* Rows of the viewer's own that a list shows: the groups it is in, its apps.
Own == {g \in Groups : <<Viewer, g>> \in member} \cup {p \in Apps : owner[p] = Viewer}

\* The pages that ask (accounts, groups, apps, policies) and the grant queries
\* answer with the rows of the list under the same scope: with none that the
\* list hides (group.go:121-124 and the same words at the other pages), and, if
\* the scope could be loaded, with all of them but the viewer's own groups and
\* apps.  A statement may be changed only if its list shows it.  This says
\* nothing of the page of a statement nor of changes to the other rows, which
\* the program answers whatever the lists show.
PagesFollowLists ==
  pc = "answer" =>
    /\ Detail \cap Principals \subseteq Listed
    /\ Detail \cap Policies \subseteq applyPolicyScope
    /\ ~failed => (Listed \cup applyPolicyScope) \ Own \subseteq Detail
    /\ \A w \in Principals : ListByPrincipal(w) # {} => w \in Listed
    /\ \A c \in Policies : ListPrincipals(c) \subseteq Listed
    /\ Update \cap StatementRows \subseteq applyScope
=============================================================================
