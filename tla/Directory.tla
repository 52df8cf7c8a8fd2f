------------------------------- MODULE Directory -------------------------------
(***************************************************************************)
(* The rows that statements, policies, principals (accounts, groups, apps) *)
(* and attachments are, and the references between them: creation,         *)
(* replacement and deletion.  Source: logic/statement.go, logic/policy.go, *)
(* logic/grant.go, logic/account.go, logic/group.go, logic/app.go.         *)
(*                                                                         *)
(* The tables have no foreign keys: a request first checks with queries    *)
(* that what it refers to is there, or that nothing refers to what it      *)
(* deletes, and then commits one transaction.  Other requests commit in    *)
(* between.  What the rows say and who is cached is in PermissionCache,    *)
(* members of groups included; who may do this, in Visibility.  Rows that  *)
(* the seed created can be linked and granted but not deleted; they behave *)
(* as rows here that nobody deletes.                                       *)
(***************************************************************************)
EXTENDS Naturals

CONSTANTS
  Statements,  \* ids; a deleted id is never given out again
  Policies,
  Principals,
  Admins,      \* goroutines serving administration requests
  MaxOps       \* bound on the number of requests

ASSUME DirectoryAssumption == MaxOps \in Nat

VARIABLES
  statement,  \* statement[s]: is there a row in q_iam_statements
  policy,     \* policy[p]: in q_iam_policies
  principal,  \* principal[w]: in the table of accounts, groups or apps
  scoped,     \* the statements with rows in q_iam_data_scopes
  linked,     \* q_iam_policy_statements: policy and statement
  attached,   \* q_iam_policy_attachments: principal and policy
  admin,      \* admin[d]: the request, checked and not yet committed
  ops,        \* requests so far
  \* History, read by no step of the code:
  overtaken   \* a request committed when what it had checked was no longer so

tables == <<statement, policy, principal, scoped, linked, attached>>
vars == <<tables, admin, ops, overtaken>>

-----------------------------------------------------------------------------
RowStates == {"unused", "row", "gone"}
Rows(table) == {x \in DOMAIN table : table[x] = "row"}

Operations ==
  [kind : {"createPolicy"}, statements : SUBSET Statements]
  \cup [kind : {"updatePolicy"}, policy : Policies, statements : SUBSET Statements]
  \cup [kind : {"deletePolicy"}, policy : Policies]
  \cup [kind : {"updateStatement"}, statement : Statements, limited : BOOLEAN]
  \cup [kind : {"deleteStatement"}, statement : Statements]
  \cup [kind : {"grant"}, who : Principals, policy : Policies]
  \cup [kind : {"deletePrincipal"}, who : Principals]
NoOp == [kind |-> "none"]

\* Every reference refers to a row.
Whole ==
  /\ linked \subseteq Rows(policy) \X Rows(statement)
  /\ attached \subseteq Rows(principal) \X Rows(policy)
  /\ scoped \subseteq Rows(statement)

Init ==
  /\ statement \in [Statements -> {"unused", "row"}]
  /\ policy \in [Policies -> {"unused", "row"}]
  /\ principal \in [Principals -> {"unused", "row"}]
  /\ linked \in SUBSET (Rows(policy) \X Rows(statement))
  /\ attached \in SUBSET (Rows(principal) \X Rows(policy))
  /\ scoped \in SUBSET Rows(statement)
  /\ admin = [d \in Admins |-> NoOp]
  /\ ops = 0
  /\ overtaken = FALSE

-----------------------------------------------------------------------------
(* Requests of one step: there is nothing to check *)

Count == ops < MaxOps /\ ops' = ops + 1

\* A principal is created without policies.
CreatePrincipal(w) ==
  /\ principal[w] = "unused" /\ Count
  /\ principal' = [principal EXCEPT ![w] = "row"]
  /\ UNCHANGED <<statement, policy, scoped, linked, attached, admin, overtaken>>

\* The statement and its data scopes are inserted together.
CreateStatement(s, limits) ==
  /\ statement[s] = "unused" /\ Count
  /\ statement' = [statement EXCEPT ![s] = "row"]
  /\ scoped' = IF limits THEN scoped \cup {s} ELSE scoped
  /\ UNCHANGED <<policy, principal, linked, attached, admin, overtaken>>

\* Revoke is one DELETE, for one policy of the principal or for all of them.
Revoke(w, P) ==
  /\ Count
  /\ attached' = attached \ ({w} \X P)
  /\ UNCHANGED <<statement, policy, principal, scoped, linked, admin, overtaken>>

-----------------------------------------------------------------------------
(* Requests that check first *)

\* No policy links the statement.
Unreferenced(s) == \A p \in Policies : <<p, s>> \notin linked

\* What a request finds in the tables before its transaction; another answer
\* ends it.
Checks(op) ==
  \/ op.kind = "createPolicy" /\ op.statements \subseteq Rows(statement)
  \/ /\ op.kind = "updatePolicy"
     /\ policy[op.policy] = "row" /\ op.statements \subseteq Rows(statement)
  \/ op.kind = "deletePolicy" /\ policy[op.policy] = "row"
  \/ op.kind = "updateStatement" /\ statement[op.statement] = "row"
  \/ /\ op.kind = "deleteStatement"
     /\ statement[op.statement] = "row" /\ Unreferenced(op.statement)
  \/ /\ op.kind = "grant"
     /\ policy[op.policy] = "row" /\ principal[op.who] = "row"
  \/ op.kind = "deletePrincipal" /\ principal[op.who] = "row"

Begin(d, op) ==
  /\ admin[d] = NoOp /\ Count
  /\ Checks(op)
  /\ admin' = [admin EXCEPT ![d] = op]
  /\ UNCHANGED <<tables, overtaken>>

CreatePolicy(d, S) == Begin(d, [kind |-> "createPolicy", statements |-> S])

UpdatePolicy(d, p, S) ==
  Begin(d, [kind |-> "updatePolicy", policy |-> p, statements |-> S])

DeletePolicy(d, p) == Begin(d, [kind |-> "deletePolicy", policy |-> p])

UpdateStatement(d, s, limits) ==
  Begin(d, [kind |-> "updateStatement", statement |-> s, limited |-> limits])

DeleteStatement(d, s) == Begin(d, [kind |-> "deleteStatement", statement |-> s])

Grant(d, w, p) == Begin(d, [kind |-> "grant", who |-> w, policy |-> p])

DeletePrincipal(d, w) == Begin(d, [kind |-> "deletePrincipal", who |-> w])

Request(d) ==
  \/ \E S \in SUBSET Statements \ {{}} :
       CreatePolicy(d, S) \/ \E p \in Policies : UpdatePolicy(d, p, S)
  \/ \E p \in Policies : DeletePolicy(d, p) \/ \E w \in Principals : Grant(d, w, p)
  \/ \E s \in Statements :
       DeleteStatement(d, s) \/ \E limits \in BOOLEAN : UpdateStatement(d, s, limits)
  \/ \E w \in Principals : DeletePrincipal(d, w)

-----------------------------------------------------------------------------
(* The transactions *)

\* Variant: the columns of the link change places.
Variant_Links(p, S) == {x \in linked : x[1] # p} \cup (S \X {p})

\* The links after p has been given the statements S.
Links(p, S) == {x \in linked : x[1] # p} \cup ({p} \X S)

\* GORM's Append and Replace insert the associated statements, which were read
\* before the transaction and without their data scopes, if they are gone
\* meanwhile.
Link(p, S) ==
  /\ linked' = Links(p, S)
  /\ statement' = [s \in Statements |-> IF s \in S THEN "row" ELSE statement[s]]
  /\ UNCHANGED <<principal, scoped, attached>>

TxCreatePolicy(op) ==
  /\ op.kind = "createPolicy"
  /\ \E p \in Policies :
       /\ policy[p] = "unused"
       /\ policy' = [policy EXCEPT ![p] = "row"]
       /\ Link(p, op.statements)

\* The UPDATE finds no row of a policy deleted meanwhile; the links are made.
TxUpdatePolicy(op) ==
  /\ op.kind = "updatePolicy"
  /\ Link(op.policy, op.statements)
  /\ UNCHANGED policy

\* Variant: the attachments stay.
Variant_AttachedWithout(p) == attached

\* The attachments without those of a deleted policy.
AttachedWithout(p) == {x \in attached : x[2] # p}

TxDeletePolicy(op) ==
  /\ op.kind = "deletePolicy"
  /\ policy' = [policy EXCEPT ![op.policy] = "gone"]
  /\ attached' = AttachedWithout(op.policy)
  /\ linked' = {x \in linked : x[1] # op.policy}
  /\ UNCHANGED <<statement, principal, scoped>>

\* replaceStatementScopes: the old rows go and the new ones are inserted, also
\* when the UPDATE before it found no statement.
TxUpdateStatement(op) ==
  /\ op.kind = "updateStatement"
  /\ scoped' = IF op.limited THEN scoped \cup {op.statement} ELSE scoped \ {op.statement}
  /\ UNCHANGED <<statement, policy, principal, linked, attached>>

TxDeleteStatement(op) ==
  /\ op.kind = "deleteStatement"
  /\ statement' = [statement EXCEPT ![op.statement] = "gone"]
  /\ scoped' = scoped \ {op.statement}
  /\ UNCHANGED <<policy, principal, linked, attached>>

\* An attachment that is already there is left as it is.
TxGrant(op) ==
  /\ op.kind = "grant"
  /\ attached' = attached \cup {<<op.who, op.policy>>}
  /\ UNCHANGED <<statement, policy, principal, scoped, linked>>

\* An account, a group or an app goes, and its attachments with it.
TxDeletePrincipal(op) ==
  /\ op.kind = "deletePrincipal"
  /\ principal' = [principal EXCEPT ![op.who] = "gone"]
  /\ attached' = {x \in attached : x[1] # op.who}
  /\ UNCHANGED <<statement, policy, scoped, linked>>

Commit(d) ==
  LET op == admin[d]
  IN  /\ \/ TxCreatePolicy(op) \/ TxUpdatePolicy(op) \/ TxDeletePolicy(op)
         \/ TxUpdateStatement(op) \/ TxDeleteStatement(op)
         \/ TxGrant(op) \/ TxDeletePrincipal(op)
      /\ overtaken' = (overtaken \/ ~Checks(op))
      /\ admin' = [admin EXCEPT ![d] = NoOp]
      /\ UNCHANGED ops

\* The request's context is cancelled, or the process stops.
Abandon(d) ==
  /\ admin[d] # NoOp
  /\ admin' = [admin EXCEPT ![d] = NoOp]
  /\ UNCHANGED <<tables, ops, overtaken>>

-----------------------------------------------------------------------------
Next ==
  \/ \E w \in Principals :
       \/ CreatePrincipal(w) \/ Revoke(w, Policies)
       \/ \E p \in Policies : Revoke(w, {p})
  \/ \E s \in Statements, limits \in BOOLEAN : CreateStatement(s, limits)
  \/ \E d \in Admins : Request(d) \/ Commit(d) \/ Abandon(d)

Spec == Init /\ [][Next]_vars

-----------------------------------------------------------------------------
(* Properties *)

TypeOK ==
  /\ statement \in [Statements -> RowStates]
  /\ policy \in [Policies -> RowStates]
  /\ principal \in [Principals -> RowStates]
  /\ scoped \subseteq Statements
  /\ linked \subseteq Policies \X Statements
  /\ attached \subseteq Principals \X Policies
  /\ admin \in [Admins -> Operations \cup {NoOp}]
  /\ ops \in 0..MaxOps
  /\ overtaken \in BOOLEAN

\* Without foreign keys, links, attachments and data scopes refer to rows all the
\* same (statement.go:243-245, policy.go:300, account.go:386), as long as nothing
\* a request has checked is undone before its transaction: deletions clean up
\* after themselves whatever was added meanwhile.
ReferencesHold == ~overtaken => Whole
=============================================================================
