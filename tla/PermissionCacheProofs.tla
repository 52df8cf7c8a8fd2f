------------------------- MODULE PermissionCacheProofs -------------------------
(***************************************************************************)
(* Proofs about PermissionCache, for every set of accounts, groups,        *)
(* policies, statements, requests and loads, and every value of the bounds.*)
(*                                                                         *)
(* InvalidationReaches speaks of the moment when all requests are done.    *)
(* What holds in between: there is one state of the tables, the snapshot,  *)
(* from which every entry that no request is about to delete was built,    *)
(* and wherever the tables differ from it now, some request still owes the *)
(* invalidation.  The snapshot is the tables as they were when a load that *)
(* nobody disturbed last stored its set; it is not a variable of the       *)
(* model, and the invariant says only that there is one.                   *)
(***************************************************************************)
EXTENDS PermissionCache, TLAPS

-----------------------------------------------------------------------------
(* Type correctness *)

LEMMA RulesOfType == \A P : RulesOf(P) \in RuleSets
BY DEF RulesOf, RuleSets

\* What each kind of operation is about.
LEMMA OperationFields ==
  ASSUME NEW op \in Operations
  PROVE  /\ op.kind \in {"grant", "revoke"} =>
              op.who \in Principals /\ op.policy \in Policies
         /\ op.kind \in {"add", "remove"} =>
              op.group \in Groups /\ op.account \in Accounts
         /\ op.kind = "replace" => op.group \in Groups /\ op.accounts \in SUBSET Accounts
         /\ op.kind = "regroup" => op.account \in Accounts /\ op.groups \in SUBSET Groups
         /\ op.kind = "setGroup" =>
              op.group \in Groups /\ op.status \in {"enabled", "disabled"}
         /\ op.kind = "deleteGroup" => op.group \in Groups
         /\ op.kind = "setPolicy" =>
              /\ op.policy \in Policies /\ op.status \in {"enabled", "disabled"}
              /\ op.statements \in SUBSET Statements
         /\ op.kind = "deletePolicy" => op.policy \in Policies
         /\ op.kind = "setStatement" => op.statement \in Statements /\ op.text \in Texts
         /\ op.kind = "deleteAccount" => op.account \in Accounts
BY DEF Operations

LEMMA InitTypeOK == Init => TypeOK
<1> SUFFICES ASSUME Init PROVE TypeOK
  OBVIOUS
<1>1. /\ exists \subseteq Accounts
      /\ member \subseteq Accounts \X Groups
      /\ group \in [Groups -> {"enabled", "disabled", "deleted"}]
      /\ attached \subseteq Principals \X Policies
      /\ policy \in [Policies -> {"enabled", "disabled", "deleted"}]
      /\ linked \in [Policies -> SUBSET Statements]
  BY DEF Init
<1>2. text \in [Statements -> Texts]
  <2>1. (CHOOSE t \in Texts : TRUE) \in Texts
    BY PermissionCacheAssumption
  <2> QED  BY <2>1 DEF Init
<1>3. cache \in [Accounts -> Entry]
  BY DEF Init, NoEntry, Entry, RuleSets
<1>4. admin \in [Admins -> AdminRecord]
  <2>1. NoAdmin.op \in Operations
    BY DEF NoAdmin, Operations
  <2>2. NoAdmin \in AdminRecord
    BY <2>1 DEF NoAdmin, AdminRecord
  <2> QED  BY <2>2 DEF Init
<1>5. load \in [Loads -> LoadRecord]
  BY DEF Init, NoLoad, LoadRecord, RuleSets
<1>6. ops \in 0..MaxOps /\ faults \in 0..MaxFaults
  BY PermissionCacheAssumption DEF Init
<1> QED
  BY <1>1, <1>2, <1>3, <1>4, <1>5, <1>6 DEF TypeOK

LEMMA NoAdminType == NoAdmin \in AdminRecord
<1>1. NoAdmin.op \in Operations
  BY DEF NoAdmin, Operations
<1> QED
  BY <1>1 DEF NoAdmin, AdminRecord

LEMMA NoEntryType == NoEntry \in Entry
<1>1. FALSE \in BOOLEAN /\ {} \in RuleSets
  BY DEF RuleSets
<1> QED
  BY <1>1 DEF NoEntry, Entry

LEMMA BeginTypeOK ==
  ASSUME TypeOK, NEW d \in Admins, NEW op \in Operations,
         NEW pc \in {"idle", "commit", "invalidate"},
         NEW who \in SUBSET Principals, NEW refs \in SUBSET Policies,
         Begin(d, op, pc, who, refs)
  PROVE  TypeOK'
<1>1. admin' \in [Admins -> AdminRecord]
  BY DEF TypeOK, Begin, AdminRecord
<1>2. load' \in [Loads -> LoadRecord]
  BY DEF TypeOK, Begin, LoadRecord
<1>3. ops' \in 0..MaxOps
  BY PermissionCacheAssumption DEF TypeOK, Begin
<1> QED
  BY <1>1, <1>2, <1>3 DEF TypeOK, Begin, tables

LEMMA RequestTypeOK ==
  ASSUME TypeOK, NEW d \in Admins, Request(d)
  PROVE  TypeOK'
<1> USE BeginTypeOK DEF Principals
<1>1. ASSUME NEW w \in Principals, NEW p \in Policies, Grant(d, w, p) \/ Revoke(d, w, p)
      PROVE  TypeOK'
  <2>1. \A k \in {"grant", "revoke"} : [kind |-> k, who |-> w, policy |-> p] \in Operations
    BY DEF Operations
  <2> QED  BY <1>1, <2>1 DEF Grant, Revoke
<1>2. ASSUME NEW g \in Groups, NEW a \in Accounts, AddMembers(d, g, a) \/ RemoveMembers(d, g, a)
      PROVE  TypeOK'
  <2>1. \A k \in {"add", "remove"} : [kind |-> k, group |-> g, account |-> a] \in Operations
    BY DEF Operations
  <2> QED  BY <1>2, <2>1 DEF AddMembers, RemoveMembers
<1>3. ASSUME NEW g \in Groups, NEW S \in SUBSET Accounts, ReplaceMembers(d, g, S)
      PROVE  TypeOK'
  <2>1. [kind |-> "replace", group |-> g, accounts |-> S] \in Operations
    BY DEF Operations
  <2>2. PICK W \in SUBSET Principals : W = {g} \cup {a \in Accounts : <<a, g>> \in member}
    OBVIOUS
  <2>3. Begin(d, [kind |-> "replace", group |-> g, accounts |-> S], "commit", W, {})
    BY <1>3, <2>2 DEF ReplaceMembers
  <2> QED  BY <2>1, <2>3, BeginTypeOK
<1>4. ASSUME NEW a \in Accounts, NEW G \in SUBSET Groups, SetGroups(d, a, G)
      PROVE  TypeOK'
  <2>1. [kind |-> "regroup", account |-> a, groups |-> G] \in Operations
    BY DEF Operations
  <2> QED  BY <1>4, <2>1 DEF SetGroups
<1>5. ASSUME NEW g \in Groups, NEW status \in {"enabled", "disabled"}, UpdateGroup(d, g, status)
      PROVE  TypeOK'
  <2>1. [kind |-> "setGroup", group |-> g, status |-> status] \in Operations
    BY DEF Operations
  <2> QED  BY <1>5, <2>1 DEF UpdateGroup
<1>6. ASSUME NEW g \in Groups, DeleteGroup(d, g)
      PROVE  TypeOK'
  <2>1. [kind |-> "deleteGroup", group |-> g] \in Operations
    BY DEF Operations
  <2> QED  BY <1>6, <2>1 DEF DeleteGroup
<1>7. ASSUME NEW p \in Policies, NEW status \in {"enabled", "disabled"},
             NEW S \in SUBSET Statements \ {{}}, UpdatePolicy(d, p, status, S)
      PROVE  TypeOK'
  <2>1. [kind |-> "setPolicy", policy |-> p, status |-> status, statements |-> S] \in Operations
    BY DEF Operations
  <2> QED  BY <1>7, <2>1 DEF UpdatePolicy
<1>8. ASSUME NEW p \in Policies, DeletePolicy(d, p)
      PROVE  TypeOK'
  <2>1. [kind |-> "deletePolicy", policy |-> p] \in Operations
    BY DEF Operations
  <2>2. PICK W \in SUBSET Principals : W = {w \in Principals : <<w, p>> \in attached}
    OBVIOUS
  <2>3. Begin(d, [kind |-> "deletePolicy", policy |-> p], "commit", W, {})
    BY <1>8, <2>2 DEF DeletePolicy
  <2> QED  BY <2>1, <2>3, BeginTypeOK
<1>9. ASSUME NEW s \in Statements, NEW t \in Texts, UpdateStatement(d, s, t)
      PROVE  TypeOK'
  <2>1. [kind |-> "setStatement", statement |-> s, text |-> t] \in Operations
    BY DEF Operations
  <2> QED  BY <1>9, <2>1 DEF UpdateStatement
<1>10. ASSUME NEW a \in Accounts, DeleteAccount(d, a)
       PROVE  TypeOK'
  <2>1. [kind |-> "deleteAccount", account |-> a] \in Operations
    BY DEF Operations
  <2> QED  BY <1>10, <2>1 DEF DeleteAccount
<1> QED
  BY <1>1, <1>2, <1>3, <1>4, <1>5, <1>6, <1>7, <1>8, <1>9, <1>10 DEF Request

LEMMA LoadTypeOK ==
  ASSUME TypeOK, NEW l \in Loads,
         LoadStep(l) \/ \E a \in Accounts : LoadAccount(l, a)
  PROVE  TypeOK'
<1>1. load \in [Loads -> LoadRecord] /\ load[l] \in LoadRecord
  BY DEF TypeOK
<1>2. ASSUME NEW a \in Accounts, LoadAccount(l, a) PROVE TypeOK'
  <2>1. PICK b \in BOOLEAN : b = \A d \in Admins : Idle(d)
    OBVIOUS
  <2>2. load' = [load EXCEPT ![l] = [NoLoad EXCEPT !.pc = "policies", !.account = a,
                                       !.groups = ActiveGroups(a), !.calm = b]]
    BY <1>2, <2>1 DEF LoadAccount
  <2>3. ActiveGroups(a) \in SUBSET Groups
    BY DEF ActiveGroups
  <2>4. load' \in [Loads -> LoadRecord]
    BY <1>1, <2>2, <2>3 DEF LoadRecord, NoLoad, RuleSets
  <2>5. faults' \in 0..MaxFaults
    <3>1. faults' = faults \/ Fault
      BY <1>2 DEF LoadAccount
    <3> QED  BY <3>1, PermissionCacheAssumption DEF Fault, TypeOK
  <2> QED  BY <1>2, <2>4, <2>5 DEF LoadAccount, TypeOK, tables
<1>3. CASE LoadPolicies(l)
  <2>1. load' \in [Loads -> LoadRecord]
    BY <1>1, <1>3 DEF LoadPolicies, LoadRecord, PoliciesOf
  <2> QED  BY <1>3, <2>1 DEF LoadPolicies, TypeOK, tables
<1>4. CASE LoadRules(l)
  <2>1. load' \in [Loads -> LoadRecord]
    BY <1>1, <1>4, RulesOfType DEF LoadRules, LoadRecord
  <2> QED  BY <1>4, <2>1 DEF LoadRules, TypeOK, tables
<1>5. CASE Store(l)
  <2>1. load' \in [Loads -> LoadRecord]
    BY <1>1, <1>5 DEF Store, LoadRecord, NoLoad, RuleSets
  <2>2. PICK b \in BOOLEAN : b = load[l].calm
    BY <1>1 DEF LoadRecord
  <2>3. PICK e \in BOOLEAN : e = HasTTL
    BY DEF HasTTL
  <2>4. load[l].account \in Accounts \cup {NoAccount} /\ load[l].rules \in RuleSets
    BY <1>1 DEF LoadRecord
  <2>5. [rules |-> load[l].rules, expires |-> e, calm |-> b] \in Entry
    BY <2>4 DEF Entry
  <2>6. cache' \in [Accounts -> Entry]
    <3>1. CASE UNCHANGED cache
      BY <3>1 DEF TypeOK
    <3>2. CASE cache' = [cache EXCEPT ![load[l].account] =
                           [rules |-> load[l].rules, expires |-> e, calm |-> b]]
      BY <2>5, <3>2 DEF TypeOK
    <3> QED  BY <1>5, <2>2, <2>3, <3>1, <3>2 DEF Store
  <2> QED  BY <1>5, <2>1, <2>6 DEF Store, TypeOK, tables
<1> QED
  BY <1>2, <1>3, <1>4, <1>5 DEF LoadStep

LEMMA CommitTypeOK ==
  ASSUME TypeOK, NEW d \in Admins, Commit(d)
  PROVE  TypeOK'
<1> DEFINE op == Op(d)
<1>1. op \in Operations /\ admin[d] \in AdminRecord
  BY DEF TypeOK, AdminRecord, Op
<1>2. admin' \in [Admins -> AdminRecord]
  <2>1. RefsAfter(op) \in SUBSET Policies
    BY DEF RefsAfter
  <2>2. NoAdmin \in AdminRecord
    BY NoAdminType
  <2>3. [NoAdmin EXCEPT !.pc = "invalidate", !.who = admin[d].who,
                        !.refs = admin[d].refs \cup RefsAfter(op)] \in AdminRecord
    BY <1>1, <2>1, <2>2 DEF AdminRecord
  <2> QED  BY <2>2, <2>3 DEF Commit, TypeOK
<1>3. /\ exists' \subseteq Accounts
      /\ member' \subseteq Accounts \X Groups
      /\ group' \in [Groups -> {"enabled", "disabled", "deleted"}]
      /\ attached' \subseteq Principals \X Policies
      /\ policy' \in [Policies -> {"enabled", "disabled", "deleted"}]
      /\ linked' \in [Policies -> SUBSET Statements]
      /\ text' \in [Statements -> Texts]
  <2> HIDE DEF op
  <2>1. CASE TxAttachments(op)
    BY <1>1, <2>1, OperationFields DEF TxAttachments, TypeOK
  <2>2. CASE TxMembers(op)
    BY <1>1, <2>2, OperationFields DEF TxMembers, TypeOK
  <2>3. CASE TxGroup(op)
    BY <1>1, <2>3, OperationFields DEF TxGroup, TypeOK
  <2>4. CASE TxPolicy(op)
    BY <1>1, <2>4, OperationFields DEF TxPolicy, TypeOK
  <2>5. CASE TxAccount(op)
    BY <1>1, <2>5, OperationFields DEF TxAccount, TypeOK
  <2> QED  BY <2>1, <2>2, <2>3, <2>4, <2>5 DEF Commit, op
<1> QED
  BY <1>2, <1>3 DEF Commit, TypeOK

LEMMA AdminTypeOK ==
  ASSUME TypeOK, NEW d \in Admins, AdminStep(d) \/ Abandon(d)
  PROVE  TypeOK'
<1>1. admin \in [Admins -> AdminRecord] /\ admin[d] \in AdminRecord
  BY DEF TypeOK
<1>2. ASSUME NEW p \in Policies, ListReferences(d, p) PROVE TypeOK'
  <2>1. admin' \in [Admins -> AdminRecord]
    BY <1>1, <1>2 DEF ListReferences, AdminRecord
  <2> QED  BY <1>2, <2>1 DEF ListReferences, TypeOK, tables
<1>3. ASSUME NEW w \in Principals, ListKeys(d, w) PROVE TypeOK'
  <2>1. KeysOf(w) \in SUBSET Accounts
    BY DEF KeysOf, TypeOK
  <2>2. admin' \in [Admins -> AdminRecord]
    BY <1>1, <1>3, <2>1 DEF ListKeys, AdminRecord
  <2> QED  BY <1>3, <2>2 DEF ListKeys, TypeOK, tables
<1>4. CASE DeleteKeys(d)
  <2>1. admin' \in [Admins -> AdminRecord]
    BY <1>1, <1>4 DEF DeleteKeys, AdminRecord
  <2>2. cache' \in [Accounts -> Entry]
    <3>1. CASE UNCHANGED cache
      BY <3>1 DEF TypeOK
    <3>2. CASE cache' = [a \in Accounts |-> IF a \in admin[d].keys THEN NoEntry ELSE cache[a]]
      BY <3>2, NoEntryType DEF TypeOK
    <3> QED  BY <1>4, <3>1, <3>2 DEF DeleteKeys
  <2>3. faults' \in 0..MaxFaults
    BY <1>4, PermissionCacheAssumption DEF DeleteKeys, Fault, TypeOK
  <2> QED  BY <1>4, <2>1, <2>2, <2>3 DEF DeleteKeys, TypeOK, tables
<1>5. CASE Invalidated(d)
  <2>1. admin' \in [Admins -> AdminRecord]
    BY <1>1, <1>5, NoAdminType DEF Invalidated, AdminRecord
  <2> QED  BY <1>5, <2>1 DEF Invalidated, TypeOK, tables
<1>6. CASE Abandon(d)
  <2>1. admin' \in [Admins -> AdminRecord]
    BY <1>1, <1>6, NoAdminType DEF Abandon
  <2>2. faults' \in 0..MaxFaults
    BY <1>6, PermissionCacheAssumption DEF Abandon, Fault, TypeOK
  <2> QED  BY <1>6, <2>1, <2>2 DEF Abandon, TypeOK, tables
<1> QED
  BY <1>2, <1>3, <1>4, <1>5, <1>6, CommitTypeOK DEF AdminStep

LEMMA NextTypeOK ==
  ASSUME TypeOK, [Next]_vars
  PROVE  TypeOK'
<1>1. ASSUME NEW a \in Accounts, Expire(a) PROVE TypeOK'
  <2>1. cache' \in [Accounts -> Entry]
    BY <1>1, NoEntryType DEF Expire, TypeOK
  <2> QED  BY <1>1, <2>1 DEF Expire, TypeOK, tables
<1>2. CASE UNCHANGED vars
  BY <1>2 DEF vars, tables, TypeOK
<1> QED
  BY <1>1, <1>2, LoadTypeOK, AdminTypeOK, RequestTypeOK DEF Next

\* Every request works with what it read, whatever the others do meanwhile: the
\* types of all variables are kept.
THEOREM TypeCorrect == Spec => []TypeOK
<1>1. TypeOK /\ [Next]_vars => TypeOK'
  BY NextTypeOK
<1> QED
  BY InitTypeOK, <1>1, PTL DEF Spec
-----------------------------------------------------------------------------
(* The tables an old entry was built from                                  *)

\* The rules a policy contributes.
Content(p) ==
  {r \in Rule : /\ r[1] = p /\ policy[p] = "enabled"
                /\ r[2] \in linked[p] /\ r[3] = text[r[2]]}

\* What a permission set is built from, as it was at some moment.
Snapshot ==
  [member : SUBSET (Accounts \X Groups), attached : SUBSET (Principals \X Policies),
   group : [Groups -> {"enabled", "disabled", "deleted"}],
   content : [Policies -> SUBSET Rule]]

Tables == [member |-> member, attached |-> attached, group |-> group,
           content |-> [p \in Policies |-> Content(p)]]

\* Account a has policy p in B, itself or through an enabled group.
Has(B, a, p) ==
  \/ <<a, p>> \in B.attached
  \/ \E g \in Groups : /\ <<a, g>> \in B.member /\ B.group[g] = "enabled"
                       /\ <<g, p>> \in B.attached

View(B, a) == {r \in Rule : Has(B, a, r[1]) /\ r \in B.content[r[1]]}

\* Still to be done: the entry of a will be deleted; the members of g will be
\* looked up; the principals p is attached to will be.
Direct(a) == \E d \in Admins : a \in admin[d].who \cup admin[d].keys
GroupOwed(g) == \E d \in Admins : g \in admin[d].who
PolicyOwed(p) == \E d \in Admins : p \in admin[d].refs

\* An entry of before the requests in progress that none of them deletes yet.
Old(a) == cache[a].calm /\ ~Direct(a)

\* An old entry with rules from group g, and g has not been deleted and nobody
\* is about to look up its members.
Trusts(B, a, g) ==
  Old(a) /\ <<a, g>> \in B.member /\ group[g] # "deleted" /\ ~GroupOwed(g)

\* An old entry was built from B, and where the account's own tables differ from
\* B now, the difference is owed.
OwnOK(B, a) ==
  Old(a) =>
    /\ a \in exists
    /\ cache[a].rules = View(B, a)
    /\ \A p \in Policies :
         /\ <<a, p>> \in attached <=> <<a, p>> \in B.attached
         /\ <<a, p>> \in B.attached /\ ~PolicyOwed(p) => Content(p) = B.content[p]

\* The same for its groups: a member of B is still found through the group, and
\* one it was not is owed.
MemberOK(B, a, g) ==
  Old(a) =>
    /\ <<a, g>> \in B.member => /\ <<a, g>> \in member \/ group[g] = "deleted"
                                /\ group[g] = "deleted" => B.group[g] = "deleted"
    /\ <<a, g>> \in member =>
         <<a, g>> \in B.member \/ GroupOwed(g) \/ group[g] = "deleted"

\* And for what its groups have.
GroupOK(B, a, g) ==
  Trusts(B, a, g) =>
    /\ group[g] = B.group[g]
    /\ \A p \in Policies :
         /\ <<g, p>> \in attached <=> <<g, p>> \in B.attached
         /\ <<g, p>> \in B.attached /\ ~PolicyOwed(p) => Content(p) = B.content[p]

\* What a request has established before its transaction by the invalidations it
\* has prepared or done.
PendingOK(B, d) ==
  LET op == admin[d].op
  IN  /\ admin[d].pc = "commit" /\ op.kind = "deletePolicy" =>
           \A a \in Accounts :
             /\ Old(a) => <<a, op.policy>> \notin B.attached
             /\ \A g \in Groups : Trusts(B, a, g) => <<g, op.policy>> \notin B.attached
      /\ admin[d].pc = "commit" /\ op.kind = "replace" =>
           \A a \in Accounts :
             Old(a) /\ <<a, op.group>> \in B.member => group[op.group] = "deleted"
      /\ admin[d].pc = "commit" /\ op.kind = "setGroup" =>
           \A a \in Accounts : Trusts(B, a, op.group) => op.status = B.group[op.group]
      /\ admin[d].pc # "idle" /\ op.kind = "deleteGroup" /\ op.group \notin admin[d].who =>
           \A a \in Accounts :
             Old(a) /\ <<a, op.group>> \in B.member => B.group[op.group] = "deleted"

BuiltFrom(B) ==
  /\ \A a \in Accounts : OwnOK(B, a)
  /\ \A a \in Accounts, g \in Groups : MemberOK(B, a, g) /\ GroupOK(B, a, g)
  /\ \A d \in Admins : PendingOK(B, d)

\* What a request always still has to invalidate.
OwesOK ==
  \A d \in Admins :
    LET op == admin[d].op
    IN  /\ admin[d].pc = "idle" => /\ admin[d].who = {} /\ admin[d].keys = {}
                                   /\ admin[d].refs = {}
        /\ admin[d].pc = "commit" =>
             /\ admin[d].keys = {}
             /\ op.kind \in {"grant", "revoke"} => op.who \in admin[d].who
             /\ op.kind \in {"remove", "regroup", "deleteAccount"} => op.account \in admin[d].who
             /\ op.kind \in {"add", "replace"} => op.group \in admin[d].who
             /\ op.kind = "setPolicy" => op.policy \in admin[d].refs
             /\ op.kind = "deleteGroup" => admin[d].who = {} /\ admin[d].refs = {}

Quiet == \A d \in Admins : Idle(d)

\* A load that no request has disturbed read the tables as they are.
LoadOK ==
  \A l \in Loads : load[l].calm /\ load[l].pc # "idle" =>
    /\ Quiet
    /\ load[l].account \in exists
    /\ load[l].pc = "policies" => load[l].groups = ActiveGroups(load[l].account)
    /\ load[l].pc = "rules" =>
         load[l].policies = PoliciesOf({load[l].account} \cup ActiveGroups(load[l].account))
    /\ load[l].pc = "store" => load[l].rules = Rules(load[l].account)

HasSnapshot == \E B \in Snapshot : BuiltFrom(B)

IInv ==
  /\ TypeOK
  /\ OwesOK
  /\ LoadOK
  /\ faults = 0 => HasSnapshot

-----------------------------------------------------------------------------
(* When all is quiet *)

LEMMA RulesAreView ==
  ASSUME TypeOK, NEW a \in exists
  PROVE  Rules(a) = View(Tables, a)
<1>1. Rules(a) = RulesOf(PoliciesOf({a} \cup ActiveGroups(a)))
  BY DEF Rules
<1>2. ASSUME NEW r \in Rule
      PROVE  r \in Rules(a) <=> Has(Tables, a, r[1]) /\ r \in Tables.content[r[1]]
  <2>1. r[1] \in Policies
    BY DEF Rule
  <2>2. /\ Tables.content[r[1]] = Content(r[1]) /\ Tables.member = member
        /\ Tables.attached = attached /\ Tables.group = group
    BY <2>1 DEF Tables
  <2>3. r[1] \in PoliciesOf({a} \cup ActiveGroups(a)) <=>
          policy[r[1]] = "enabled" /\ Has(Tables, a, r[1])
    BY <2>1, <2>2 DEF PoliciesOf, ActiveGroups, Has
  <2> QED  BY <1>1, <2>2, <2>3 DEF RulesOf, Content
<1>3. Rules(a) \subseteq Rule
  BY <1>1 DEF RulesOf
<1> QED
  BY <1>2, <1>3 DEF View

LEMMA QuietOwesNothing ==
  ASSUME OwesOK, Quiet
  PROVE  /\ \A a : ~Direct(a) /\ ~GroupOwed(a) /\ ~PolicyOwed(a)
         /\ \A a \in Accounts : Old(a) <=> cache[a].calm
BY DEF OwesOK, Quiet, Idle, Direct, GroupOwed, PolicyOwed, Old

\* With nothing owed, every old entry is right.
LEMMA QuietRight ==
  ASSUME TypeOK, OwesOK, Quiet, NEW B \in Snapshot, BuiltFrom(B),
         NEW a \in Accounts, cache[a].calm
  PROVE  a \in exists /\ cache[a].rules = Rules(a)
<1>1. Old(a) /\ \A g : ~GroupOwed(g) /\ ~PolicyOwed(g)
  BY QuietOwesNothing
<1>2. a \in exists /\ cache[a].rules = View(B, a)
  BY <1>1 DEF BuiltFrom, OwnOK
<1>3. ASSUME NEW p \in Policies
      PROVE  /\ Has(B, a, p) <=> Has(Tables, a, p)
             /\ Has(B, a, p) => B.content[p] = Tables.content[p]
  <2>1. /\ Tables.content[p] = Content(p) /\ Tables.member = member
        /\ Tables.attached = attached /\ Tables.group = group
    BY DEF Tables
  <2>2. /\ <<a, p>> \in attached <=> <<a, p>> \in B.attached
        /\ <<a, p>> \in B.attached => Content(p) = B.content[p]
    BY <1>1 DEF BuiltFrom, OwnOK
  <2>3. ASSUME NEW g \in Groups
        PROVE  /\ <<a, g>> \in B.member /\ B.group[g] = "enabled" /\ <<g, p>> \in B.attached
                  <=> <<a, g>> \in member /\ group[g] = "enabled" /\ <<g, p>> \in attached
               /\ <<a, g>> \in B.member /\ B.group[g] = "enabled" /\ <<g, p>> \in B.attached
                  => Content(p) = B.content[p]
    <3>1. MemberOK(B, a, g) /\ GroupOK(B, a, g)
      BY DEF BuiltFrom
    <3>2. Trusts(B, a, g) <=> <<a, g>> \in B.member /\ group[g] # "deleted"
      BY <1>1 DEF Trusts
    <3> QED  BY <1>1, <3>1, <3>2 DEF MemberOK, GroupOK
  <2> QED  BY <2>1, <2>2, <2>3 DEF Has
<1>4. View(B, a) = View(Tables, a)
  <2>1. \A r \in Rule : r[1] \in Policies
    BY DEF Rule
  <2> QED  BY <1>3, <2>1 DEF View
<1> QED
  BY <1>2, <1>4, RulesAreView

CalmRight ==
  \A a \in Accounts : cache[a].calm => a \in exists /\ cache[a].rules = Rules(a)

\* Then the tables of now will do as the snapshot.
LEMMA QuietRebase ==
  ASSUME TypeOK, OwesOK, Quiet,
         CalmRight
  PROVE  Tables \in Snapshot /\ BuiltFrom(Tables)
<1>1. /\ Tables.member = member /\ Tables.attached = attached /\ Tables.group = group
      /\ \A p \in Policies : Tables.content[p] = Content(p)
  BY DEF Tables
<1>2. Tables \in Snapshot
  BY DEF TypeOK, Tables, Snapshot, Content
<1>3. ASSUME NEW a \in Accounts PROVE OwnOK(Tables, a)
  BY <1>1, QuietOwesNothing, RulesAreView DEF OwnOK, CalmRight
<1>4. ASSUME NEW a \in Accounts, NEW g \in Groups
      PROVE  MemberOK(Tables, a, g) /\ GroupOK(Tables, a, g)
  BY <1>1 DEF MemberOK, GroupOK
<1>5. ASSUME NEW d \in Admins PROVE PendingOK(Tables, d)
  BY DEF Quiet, Idle, PendingOK
<1> QED
  BY <1>2, <1>3, <1>4, <1>5 DEF BuiltFrom

\* The same in the state after a step.
LEMMA QuietSnapshot == TypeOK' /\ OwesOK' /\ Quiet' /\ CalmRight' => HasSnapshot'
<1>1. TypeOK /\ OwesOK /\ Quiet /\ CalmRight => HasSnapshot
  BY QuietRebase DEF HasSnapshot
<1> QED
  BY <1>1, PTL

-----------------------------------------------------------------------------
(* What is owed is never dropped                                           *)

\* A step of d: whatever d takes off its lists it has seen to.
Handoff(d) ==
  /\ \A e \in Admins \ {d} : admin'[e] = admin[e]
  /\ \A a \in Accounts : \/ cache'[a] = cache[a]
                         \/ cache'[a] = NoEntry
  /\ \A a \in Accounts : a \in admin[d].who \cup admin[d].keys =>
       a \in admin'[d].who \cup admin'[d].keys \/ cache'[a] = NoEntry
  /\ \A g \in Groups : g \in admin[d].who =>
       \/ g \in admin'[d].who
       \/ group[g] # "deleted" =>
            \A a \in exists : <<a, g>> \in member => a \in admin'[d].keys
  /\ \A p \in Policies : p \in admin[d].refs =>
       \/ p \in admin'[d].refs
       \/ \A w \in Principals : <<w, p>> \in attached => w \in admin'[d].who

\* So for all requests together, and whatever entry is old after the step was
\* old before.
Steady ==
  /\ \A a \in Accounts : Old(a)' => Old(a) /\ cache'[a] = cache[a]
  /\ \A a \in Accounts, g \in Groups :
       /\ Old(a)' /\ a \in exists /\ <<a, g>> \in member
       /\ group[g] # "deleted" /\ GroupOwed(g)
       => GroupOwed(g)'
  /\ \A p \in Policies : PolicyOwed(p) =>
       \/ PolicyOwed(p)'
       \/ \A w \in Principals : <<w, p>> \in attached =>
            /\ w \in Groups => GroupOwed(w)'
            /\ w \in Accounts => ~Old(w)'

LEMMA HandoffSteady ==
  ASSUME TypeOK, NEW d \in Admins, Handoff(d)
  PROVE  Steady
<1>1. ASSUME NEW a \in Accounts, Old(a)' PROVE Old(a) /\ cache'[a] = cache[a]
  <2>1. cache'[a] # NoEntry
    BY <1>1 DEF Old, NoEntry
  <2>2. \A e \in Admins : a \in admin[e].who \cup admin[e].keys =>
                          a \in admin'[e].who \cup admin'[e].keys
    BY <2>1 DEF Handoff
  <2> QED  BY <1>1, <2>1, <2>2 DEF Old, Direct, Handoff
<1>2. ASSUME NEW a \in Accounts, NEW g \in Groups, Old(a)', a \in exists,
             <<a, g>> \in member, group[g] # "deleted", GroupOwed(g)
      PROVE  GroupOwed(g)'
  <2>1. a \notin admin'[d].keys
    BY <1>2 DEF Old, Direct
  <2> QED  BY <1>2, <2>1 DEF GroupOwed, Handoff
<1>3. ASSUME NEW p \in Policies, PolicyOwed(p), ~PolicyOwed(p)',
             NEW w \in Principals, <<w, p>> \in attached
      PROVE  /\ w \in Groups => GroupOwed(w)'
             /\ w \in Accounts => ~Old(w)'
  <2>1. w \in admin'[d].who
    BY <1>3 DEF PolicyOwed, Handoff
  <2> QED  BY <2>1 DEF GroupOwed, Old, Direct
<1> QED
  BY <1>1, <1>2, <1>3 DEF Steady

\* Loading, expiry and storing an entry that is not calm change no list.
LEMMA QuietStepSteady ==
  ASSUME admin' = admin,
         \A a \in Accounts : cache'[a] = cache[a] \/ ~cache'[a].calm
  PROVE  Steady
BY DEF Steady, Old, Direct, GroupOwed, PolicyOwed

LEMMA BeginHandoff ==
  ASSUME TypeOK, OwesOK, NEW d \in Admins, NEW op, NEW pc, NEW who, NEW refs,
         Begin(d, op, pc, who, refs)
  PROVE  Handoff(d)
BY DEF TypeOK, OwesOK, Begin, Idle, Handoff

LEMMA AdminHandoff ==
  ASSUME TypeOK, OwesOK, NEW d \in Admins, AdminStep(d), faults' = 0
  PROVE  Handoff(d)
<1>1. /\ admin \in [Admins -> AdminRecord] /\ cache \in [Accounts -> Entry]
      /\ admin[d] \in AdminRecord
      /\ faults \in Nat
      /\ Accounts \cap Groups = {}
  BY PermissionCacheAssumption DEF TypeOK
<1>2. CASE Commit(d)
  <2>1. UNCHANGED cache /\ \A e \in Admins \ {d} : admin'[e] = admin[e]
    BY <1>1, <1>2 DEF Commit
  <2>2. admin[d].pc = "commit" /\ admin[d].keys = {}
    BY <1>2 DEF Commit, OwesOK
  <2>3. CASE Op(d).kind = "deleteGroup"
    BY <2>1, <2>2, <2>3 DEF OwesOK, Handoff, Op
  <2>4. CASE Op(d).kind # "deleteGroup"
    <3>1. admin'[d].who = admin[d].who /\ admin[d].refs \subseteq admin'[d].refs
      BY <1>1, <1>2, <2>4 DEF Commit, NoAdmin
    <3> QED  BY <2>1, <2>2, <3>1 DEF Handoff
  <2> QED  BY <2>3, <2>4
<1>3. ASSUME NEW p \in Policies, ListReferences(d, p) PROVE Handoff(d)
  <2>1. /\ UNCHANGED cache /\ \A e \in Admins \ {d} : admin'[e] = admin[e]
        /\ admin[d].keys = {} /\ admin[d].who = {}
        /\ admin'[d].refs = admin[d].refs \ {p}
        /\ admin'[d].who = {w \in Principals : <<w, p>> \in attached}
    BY <1>1, <1>3 DEF ListReferences, AdminRecord
  <2> QED  BY <2>1 DEF Handoff
<1>4. ASSUME NEW w \in Principals, ListKeys(d, w) PROVE Handoff(d)
  <2>1. /\ UNCHANGED cache /\ \A e \in Admins \ {d} : admin'[e] = admin[e]
        /\ admin[d].keys = {} /\ admin'[d].who = admin[d].who \ {w}
        /\ admin'[d].refs = admin[d].refs /\ admin'[d].keys = KeysOf(w)
    BY <1>1, <1>4 DEF ListKeys, AdminRecord
  <2>2. CASE w \in Accounts
    BY <1>1, <2>1, <2>2 DEF Handoff, KeysOf
  <2>3. CASE w \in Groups
    BY <1>1, <2>1, <2>3 DEF Handoff, KeysOf
  <2> QED  BY <2>2, <2>3 DEF Principals
<1>5. CASE DeleteKeys(d)
  <2>1. /\ \A e \in Admins \ {d} : admin'[e] = admin[e]
        /\ admin'[d].who = admin[d].who /\ admin'[d].refs = admin[d].refs
    BY <1>1, <1>5 DEF DeleteKeys, AdminRecord
  <2>2. cache' = [a \in Accounts |-> IF a \in admin[d].keys THEN NoEntry ELSE cache[a]]
    BY <1>1, <1>5 DEF DeleteKeys, Fault
  <2> QED  BY <2>1, <2>2 DEF Handoff
<1>6. CASE Invalidated(d)
  <2>1. /\ UNCHANGED cache /\ \A e \in Admins \ {d} : admin'[e] = admin[e]
        /\ admin[d].keys = {} /\ admin[d].who = {} /\ admin[d].refs = {}
    BY <1>1, <1>6 DEF Invalidated
  <2> QED  BY <2>1 DEF Handoff
<1> QED
  BY <1>2, <1>3, <1>4, <1>5, <1>6 DEF AdminStep

-----------------------------------------------------------------------------
(* The snapshot survives every step                                        *)

\* What of BuiltFrom holds after any steady step, before the tables change.
LEMMA Persists ==
  ASSUME TypeOK, NEW B \in Snapshot, BuiltFrom(B), Steady,
         \A g \in Groups : group[g] = "deleted" => group'[g] = "deleted"
  PROVE  /\ \A a \in Accounts : Old(a)' =>
              /\ Old(a) /\ a \in exists /\ cache'[a].rules = View(B, a)
              /\ \A p \in Policies : <<a, p>> \in B.attached /\ ~PolicyOwed(p)' =>
                                     Content(p) = B.content[p]
         /\ \A a \in Accounts, g \in Groups : Old(a)' /\ <<a, g>> \in member =>
              <<a, g>> \in B.member \/ GroupOwed(g)' \/ group'[g] = "deleted"
         /\ \A a \in Accounts, g \in Groups : Trusts(B, a, g)' =>
              /\ Trusts(B, a, g)
              /\ \A p \in Policies : <<g, p>> \in B.attached /\ ~PolicyOwed(p)' =>
                                     Content(p) = B.content[p]
<1>1. ASSUME NEW a \in Accounts, Old(a)'
      PROVE  /\ Old(a) /\ a \in exists /\ cache'[a].rules = View(B, a)
             /\ \A p \in Policies : <<a, p>> \in B.attached /\ ~PolicyOwed(p)' =>
                                    Content(p) = B.content[p]
  <2>1. Old(a) /\ cache'[a] = cache[a] /\ OwnOK(B, a)
    BY <1>1 DEF Steady, BuiltFrom
  <2>2. ASSUME NEW p \in Policies, <<a, p>> \in B.attached, ~PolicyOwed(p)'
        PROVE  Content(p) = B.content[p]
    <3>1. <<a, p>> \in attached /\ a \in Principals
      BY <2>1, <2>2 DEF OwnOK, Principals
    <3>2. ~PolicyOwed(p)
      BY <1>1, <2>2, <3>1 DEF Steady
    <3> QED  BY <2>1, <2>2, <3>2 DEF OwnOK
  <2> QED  BY <2>1, <2>2 DEF OwnOK
<1>2. ASSUME NEW a \in Accounts, NEW g \in Groups, Old(a)', <<a, g>> \in member
      PROVE  <<a, g>> \in B.member \/ GroupOwed(g)' \/ group'[g] = "deleted"
  <2>1. Old(a) /\ a \in exists /\ MemberOK(B, a, g)
    BY <1>1, <1>2 DEF BuiltFrom
  <2> QED  BY <1>2, <2>1 DEF Steady, MemberOK
<1>3. ASSUME NEW a \in Accounts, NEW g \in Groups, Trusts(B, a, g)'
      PROVE  /\ Trusts(B, a, g)
             /\ \A p \in Policies : <<g, p>> \in B.attached /\ ~PolicyOwed(p)' =>
                                    Content(p) = B.content[p]
  <2>1. /\ Old(a)' /\ Old(a) /\ a \in exists /\ MemberOK(B, a, g) /\ GroupOK(B, a, g)
        /\ <<a, g>> \in B.member /\ group[g] # "deleted" /\ ~GroupOwed(g)'
    BY <1>1, <1>3 DEF Trusts, BuiltFrom
  <2>2. <<a, g>> \in member
    BY <2>1 DEF MemberOK
  <2>3. Trusts(B, a, g)
    BY <2>1, <2>2 DEF Trusts, Steady
  <2>4. ASSUME NEW p \in Policies, <<g, p>> \in B.attached, ~PolicyOwed(p)'
        PROVE  Content(p) = B.content[p]
    <3>1. <<g, p>> \in attached /\ g \in Principals
      BY <2>1, <2>3, <2>4 DEF GroupOK, Principals
    <3>2. ~PolicyOwed(p)
      BY <2>1, <2>4, <3>1 DEF Steady
    <3> QED  BY <2>1, <2>3, <2>4, <3>2 DEF GroupOK
  <2> QED  BY <2>3, <2>4
<1> QED
  BY <1>1, <1>2, <1>3

LEMMA SameTables ==
  ASSUME TypeOK, NEW B \in Snapshot, BuiltFrom(B), Steady, UNCHANGED tables
  PROVE  /\ \A a \in Accounts : OwnOK(B, a)'
         /\ \A a \in Accounts, g \in Groups : MemberOK(B, a, g)' /\ GroupOK(B, a, g)'
<1>1. /\ exists' = exists /\ member' = member /\ group' = group /\ attached' = attached
      /\ \A p : Content(p)' = Content(p)
  BY DEF tables, Content
<1>2. ASSUME NEW a \in Accounts PROVE OwnOK(B, a)'
  <2>1. OwnOK(B, a)
    BY DEF BuiltFrom
  <2> QED  BY <1>1, <2>1, Persists DEF OwnOK
<1>3. ASSUME NEW a \in Accounts, NEW g \in Groups PROVE MemberOK(B, a, g)' /\ GroupOK(B, a, g)'
  <2>1. MemberOK(B, a, g) /\ GroupOK(B, a, g)
    BY DEF BuiltFrom
  <2>2. MemberOK(B, a, g)'
    BY <1>1, <2>1, Persists DEF MemberOK
  <2>3. GroupOK(B, a, g)'
    BY <1>1, <2>1, Persists DEF GroupOK
  <2> QED  BY <2>2, <2>3
<1> QED
  BY <1>2, <1>3

\* A request that does not move keeps what it has established.
LEMMA PendingKept ==
  ASSUME TypeOK, NEW B \in Snapshot, BuiltFrom(B), Steady,
         \A g \in Groups : group[g] = "deleted" => group'[g] = "deleted",
         NEW e \in Admins, admin'[e] = admin[e]
  PROVE  PendingOK(B, e)'
<1> DEFINE op == admin[e].op
<1>1. PendingOK(B, e) /\ op \in Operations
  BY DEF BuiltFrom, TypeOK, AdminRecord
<1>2. /\ \A a \in Accounts : Old(a)' => Old(a)
      /\ \A a \in Accounts, g \in Groups : Trusts(B, a, g)' => Trusts(B, a, g)
  BY Persists
<1>3. /\ op.kind \in {"replace", "setGroup", "deleteGroup"} => op.group \in Groups
      /\ op.kind = "deletePolicy" => op.policy \in Policies
  BY <1>1, OperationFields
<1> QED
  BY <1>1, <1>2, <1>3 DEF PendingOK

\* A request begins: what is on its lists, no old entry depends on.
LEMMA BeginTrusts ==
  ASSUME TypeOK, OwesOK, NEW B \in Snapshot, BuiltFrom(B), NEW d \in Admins,
         NEW op, NEW pc, NEW who, NEW refs, Begin(d, op, pc, who, refs)
  PROVE  /\ Steady /\ UNCHANGED tables
         /\ admin'[d] = [pc |-> pc, op |-> op, refs |-> refs, who |-> who, keys |-> {}]
         /\ \A a \in Accounts : Old(a)' => Old(a) /\ OwnOK(B, a) /\ a \notin who
         /\ \A a \in Accounts, g \in Groups : MemberOK(B, a, g)
         /\ \A a \in Accounts, g \in Groups : Trusts(B, a, g)' =>
              Trusts(B, a, g) /\ GroupOK(B, a, g) /\ g \notin who
<1>1. Steady
  BY BeginHandoff, HandoffSteady
<1>2. UNCHANGED tables
  BY DEF Begin
<1>3. admin'[d] = [pc |-> pc, op |-> op, refs |-> refs, who |-> who, keys |-> {}]
  BY DEF Begin, TypeOK
<1>4. \A a \in Accounts : Old(a)' => Old(a) /\ a \notin who
  BY <1>1, <1>3 DEF Steady, Old, Direct
<1>5. \A a \in Accounts, g \in Groups : Trusts(B, a, g)' => Trusts(B, a, g) /\ g \notin who
  <2>1. \A g \in Groups : group[g] = "deleted" => group'[g] = "deleted"
    BY <1>2 DEF tables
  <2>2. \A a \in Accounts, g \in Groups : Trusts(B, a, g)' => Trusts(B, a, g)
    BY <1>1, <2>1, Persists
  <2> QED  BY <1>3, <2>2 DEF Trusts, GroupOwed
<1> QED
  BY <1>1, <1>2, <1>3, <1>4, <1>5 DEF BuiltFrom

\* A request begins: what concerns its change is on its lists.
LEMMA RequestPending ==
  ASSUME TypeOK, OwesOK, NEW B \in Snapshot, BuiltFrom(B), NEW d \in Admins, Request(d)
  PROVE  Steady /\ PendingOK(B, d)' /\ UNCHANGED tables
<1>2. ASSUME NEW p \in Policies, DeletePolicy(d, p) PROVE PendingOK(B, d)'
  <2>1. PICK W \in SUBSET Principals : W = {w \in Principals : <<w, p>> \in attached}
    OBVIOUS
  <2>2. Begin(d, [kind |-> "deletePolicy", policy |-> p], "commit", W, {})
    BY <1>2, <2>1 DEF DeletePolicy
  <2>3. /\ Steady /\ UNCHANGED tables
        /\ admin'[d] = [pc |-> "commit", op |-> [kind |-> "deletePolicy", policy |-> p],
                        refs |-> {}, who |-> W, keys |-> {}]
        /\ \A a \in Accounts : Old(a)' => Old(a) /\ OwnOK(B, a) /\ a \notin W
        /\ \A a \in Accounts, g \in Groups : MemberOK(B, a, g)
        /\ \A a \in Accounts, g \in Groups : Trusts(B, a, g)' =>
             Trusts(B, a, g) /\ GroupOK(B, a, g) /\ g \notin W
    BY BeginTrusts, <2>2
  <2>4. \A a \in Accounts : Old(a)' => <<a, p>> \notin B.attached
    BY <2>1, <2>3 DEF OwnOK, Principals
  <2>5. \A a \in Accounts, g \in Groups : Trusts(B, a, g)' => <<g, p>> \notin B.attached
    BY <2>1, <2>3 DEF GroupOK, Principals
  <2> QED  BY <2>3, <2>4, <2>5 DEF PendingOK
<1>3. ASSUME NEW g \in Groups, NEW S \in SUBSET Accounts, ReplaceMembers(d, g, S)
      PROVE  PendingOK(B, d)'
  <2>1. PICK W \in SUBSET Principals : W = {g} \cup {a \in Accounts : <<a, g>> \in member}
    BY DEF Principals
  <2>2. Begin(d, [kind |-> "replace", group |-> g, accounts |-> S], "commit", W, {})
    BY <1>3, <2>1 DEF ReplaceMembers
  <2>3. /\ Steady /\ UNCHANGED tables
        /\ admin'[d] = [pc |-> "commit", op |-> [kind |-> "replace", group |-> g, accounts |-> S],
                        refs |-> {}, who |-> W, keys |-> {}]
        /\ \A a \in Accounts : Old(a)' => Old(a) /\ OwnOK(B, a) /\ a \notin W
        /\ \A a \in Accounts, h \in Groups : MemberOK(B, a, h)
        /\ \A a \in Accounts, h \in Groups : Trusts(B, a, h)' =>
             Trusts(B, a, h) /\ GroupOK(B, a, h) /\ h \notin W
    BY BeginTrusts, <2>2
  <2>4. \A a \in Accounts : Old(a)' /\ <<a, g>> \in B.member => group'[g] = "deleted"
    BY <2>1, <2>3 DEF MemberOK, tables
  <2> QED  BY <2>3, <2>4 DEF PendingOK
<1>4. ASSUME NEW g \in Groups, NEW status \in {"enabled", "disabled"}, UpdateGroup(d, g, status)
      PROVE  PendingOK(B, d)'
  <2>1. PICK W \in SUBSET Principals : W = IF status # group[g] THEN {g} ELSE {}
    BY DEF Principals
  <2>2. Begin(d, [kind |-> "setGroup", group |-> g, status |-> status], "commit", W, {})
    BY <1>4, <2>1 DEF UpdateGroup
  <2>3. /\ Steady /\ UNCHANGED tables
        /\ admin'[d] = [pc |-> "commit", op |-> [kind |-> "setGroup", group |-> g, status |-> status],
                        refs |-> {}, who |-> W, keys |-> {}]
        /\ \A a \in Accounts : Old(a)' => Old(a) /\ OwnOK(B, a) /\ a \notin W
        /\ \A a \in Accounts, h \in Groups : MemberOK(B, a, h)
        /\ \A a \in Accounts, h \in Groups : Trusts(B, a, h)' =>
             Trusts(B, a, h) /\ GroupOK(B, a, h) /\ h \notin W
    BY BeginTrusts, <2>2
  <2>4. \A a \in Accounts : Trusts(B, a, g)' => status = B.group[g]
    BY <2>1, <2>3 DEF GroupOK
  <2> QED  BY <2>3, <2>4 DEF PendingOK
<1>5. ASSUME NEW g \in Groups, DeleteGroup(d, g) PROVE PendingOK(B, d)'
  <2>1. Begin(d, [kind |-> "deleteGroup", group |-> g], "invalidate", {g}, {})
    BY <1>5 DEF DeleteGroup
  <2>2. admin'[d] = [pc |-> "invalidate", op |-> [kind |-> "deleteGroup", group |-> g],
                     refs |-> {}, who |-> {g}, keys |-> {}]
    BY BeginTrusts, <2>1
  <2> QED  BY <2>2 DEF PendingOK
<1>6. ASSUME NEW op, NEW pc, NEW who, NEW refs, Begin(d, op, pc, who, refs),
             op.kind \notin {"deletePolicy", "replace", "setGroup", "deleteGroup"}
      PROVE  PendingOK(B, d)'
  <2>1. admin'[d] = [pc |-> pc, op |-> op, refs |-> refs, who |-> who, keys |-> {}]
    BY <1>6 DEF Begin, TypeOK
  <2> QED  BY <1>6, <2>1 DEF PendingOK
<1>7. /\ \A w \in Principals, p \in Policies : Grant(d, w, p) \/ Revoke(d, w, p) => PendingOK(B, d)'
      /\ \A g \in Groups, a \in Accounts :
           AddMembers(d, g, a) \/ RemoveMembers(d, g, a) => PendingOK(B, d)'
      /\ \A a \in Accounts, G \in SUBSET Groups : SetGroups(d, a, G) => PendingOK(B, d)'
      /\ \A p \in Policies, status \in {"enabled", "disabled"}, S \in SUBSET Statements \ {{}} :
           UpdatePolicy(d, p, status, S) => PendingOK(B, d)'
      /\ \A s \in Statements, t \in Texts : UpdateStatement(d, s, t) => PendingOK(B, d)'
      /\ \A a \in Accounts : DeleteAccount(d, a) => PendingOK(B, d)'
  BY <1>6 DEF Grant, Revoke, AddMembers, RemoveMembers, SetGroups, UpdatePolicy,
              UpdateStatement, DeleteAccount
<1>8. \E op, pc, who, refs : Begin(d, op, pc, who, refs)
  BY DEF Request, Grant, Revoke, AddMembers, RemoveMembers, ReplaceMembers, SetGroups,
         UpdateGroup, DeleteGroup, UpdatePolicy, DeletePolicy, UpdateStatement, DeleteAccount
<1>9. PendingOK(B, d)'
  BY <1>2, <1>3, <1>4, <1>5, <1>7 DEF Request
<1> QED
  BY BeginTrusts, <1>8, <1>9

\* A request works off its lists: whom it takes off, nobody old depends on.
LEMMA AdminPending ==
  ASSUME TypeOK, OwesOK, NEW B \in Snapshot, BuiltFrom(B), NEW d \in Admins,
         AdminStep(d), ~Commit(d), faults' = 0
  PROVE  Steady /\ PendingOK(B, d)' /\ UNCHANGED tables
<1> DEFINE op == admin[d].op
<1>1. Steady
  BY AdminHandoff, HandoffSteady
<1>2. UNCHANGED tables
  BY DEF AdminStep, ListReferences, ListKeys, DeleteKeys, Invalidated
<1>3. /\ admin \in [Admins -> AdminRecord] /\ admin[d] \in AdminRecord
      /\ op \in Operations /\ PendingOK(B, d)
      /\ op.kind = "deleteGroup" => op.group \in Groups
      /\ Accounts \cap Groups = {}
  BY OperationFields, PermissionCacheAssumption DEF TypeOK, AdminRecord, BuiltFrom
<1>4. \A a \in Accounts : Old(a)' => Old(a) /\ a \in exists /\ a \notin admin'[d].keys
  <2>1. \A g \in Groups : group[g] = "deleted" => group'[g] = "deleted"
    BY <1>2 DEF tables
  <2> QED  BY <1>1, <2>1, Persists DEF Old, Direct
<1>5. ASSUME admin'[d].op = op, admin'[d].pc # "idle",
             admin'[d].pc = "commit" => op.kind = "deleteGroup",
             op.kind = "deleteGroup" /\ op.group \notin admin'[d].who =>
               \A a \in Accounts :
                 Old(a)' /\ <<a, op.group>> \in B.member => B.group[op.group] = "deleted"
      PROVE  PendingOK(B, d)'
  BY <1>5 DEF PendingOK
<1>6. admin[d].pc # "idle" /\ op.kind = "deleteGroup" /\ op.group \notin admin[d].who =>
        \A a \in Accounts :
          Old(a)' /\ <<a, op.group>> \in B.member => B.group[op.group] = "deleted"
  BY <1>3, <1>4 DEF PendingOK
<1>7. ASSUME NEW p \in Policies, ListReferences(d, p) PROVE PendingOK(B, d)'
  <2>1. /\ admin[d].pc = "invalidate" /\ admin'[d].pc = "invalidate" /\ admin'[d].op = op
        /\ admin[d].who = {}
    BY <1>3, <1>7 DEF ListReferences, Invalidating, AdminRecord
  <2> QED  BY <1>5, <1>6, <2>1
<1>8. ASSUME NEW w \in Principals, ListKeys(d, w) PROVE PendingOK(B, d)'
  <2>1. /\ admin[d].pc = "invalidate" /\ admin'[d].pc = "invalidate" /\ admin'[d].op = op
        /\ admin'[d].who = admin[d].who \ {w} /\ admin'[d].keys = KeysOf(w)
    BY <1>3, <1>8 DEF ListKeys, Invalidating, AdminRecord
  <2>2. ASSUME op.kind = "deleteGroup", op.group = w, NEW a \in Accounts, Old(a)',
               <<a, w>> \in B.member
        PROVE  B.group[w] = "deleted"
    <3>1. w \in Groups /\ MemberOK(B, a, w) /\ Old(a) /\ a \in exists /\ a \notin KeysOf(w)
      BY <1>3, <1>4, <2>1, <2>2 DEF BuiltFrom
    <3>2. w \notin Accounts
      BY <1>3, <3>1
    <3> QED  BY <2>2, <3>1, <3>2 DEF MemberOK, KeysOf
  <2> QED  BY <1>5, <1>6, <2>1, <2>2
<1>9. ASSUME DeleteKeys(d) PROVE PendingOK(B, d)'
  <2>1. /\ admin[d].pc = "invalidate" /\ admin'[d].pc = "invalidate" /\ admin'[d].op = op
        /\ admin'[d].who = admin[d].who
    BY <1>3, <1>9 DEF DeleteKeys, Invalidating, AdminRecord
  <2> QED  BY <1>5, <1>6, <2>1
<1>10. ASSUME Invalidated(d) PROVE PendingOK(B, d)'
  <2>1. CASE op.kind = "deleteGroup"
    <3>1. /\ admin[d].pc = "invalidate" /\ admin'[d].pc = "commit" /\ admin'[d].op = op
          /\ admin[d].who = {}
      BY <1>3, <1>10, <2>1 DEF Invalidated, Invalidating, AdminRecord, Op
    <3> QED  BY <1>5, <1>6, <2>1, <3>1
  <2>2. CASE op.kind # "deleteGroup"
    <3>1. admin'[d].pc = "idle"
      BY <1>3, <1>10, <2>2 DEF Invalidated, Op, NoAdmin
    <3> QED  BY <3>1 DEF PendingOK
  <2> QED  BY <2>1, <2>2
<1> QED
  BY <1>1, <1>2, <1>7, <1>8, <1>9, <1>10 DEF AdminStep

\* A transaction commits: every difference it makes to the snapshot is owed, or
\* concerns no old entry.
LEMMA CommitKeeps ==
  ASSUME TypeOK, OwesOK, NEW B \in Snapshot, BuiltFrom(B), NEW d \in Admins,
         Commit(d), faults' = 0
  PROVE  /\ Steady /\ PendingOK(B, d)'
         /\ \A g \in Groups : group[g] = "deleted" => group'[g] = "deleted"
         /\ \A a \in Accounts : OwnOK(B, a)'
         /\ \A a \in Accounts, g \in Groups : MemberOK(B, a, g)' /\ GroupOK(B, a, g)'
<1> DEFINE op == Op(d)
<1>1. /\ op \in Operations /\ op = admin[d].op /\ admin[d].pc = "commit"
      /\ admin \in [Admins -> AdminRecord]
      /\ Accounts \cap Groups = {}
      /\ group \in [Groups -> {"enabled", "disabled", "deleted"}]
      /\ policy \in [Policies -> {"enabled", "disabled", "deleted"}]
      /\ linked \in [Policies -> SUBSET Statements]
      /\ text \in [Statements -> Texts]
      /\ member \subseteq Accounts \X Groups
      /\ attached \subseteq Principals \X Policies
      /\ PendingOK(B, d)
  BY PermissionCacheAssumption DEF TypeOK, AdminRecord, Op, Commit, BuiltFrom
<1>2. Steady
  BY AdminHandoff, HandoffSteady DEF AdminStep
<1>3. /\ op.kind \in {"grant", "revoke"} => op.who \in Principals /\ op.policy \in Policies
      /\ op.kind \in {"add", "remove"} => op.group \in Groups /\ op.account \in Accounts
      /\ op.kind = "replace" => op.group \in Groups /\ op.accounts \in SUBSET Accounts
      /\ op.kind = "regroup" => op.account \in Accounts /\ op.groups \in SUBSET Groups
      /\ op.kind = "setGroup" => op.group \in Groups /\ op.status \in {"enabled", "disabled"}
      /\ op.kind = "deleteGroup" => op.group \in Groups
      /\ op.kind \in {"setPolicy", "deletePolicy"} => op.policy \in Policies
      /\ op.kind = "setStatement" => op.statement \in Statements
      /\ op.kind = "deleteAccount" => op.account \in Accounts
  BY <1>1, OperationFields
<1>4. TxAttachments(op) \/ TxMembers(op) \/ TxGroup(op) \/ TxPolicy(op) \/ TxAccount(op)
  BY DEF Commit
<1>5. \A g \in Groups :
        \/ group'[g] = group[g]
        \/ op.kind = "setGroup" /\ g = op.group /\ group[g] # "deleted" /\ group'[g] = op.status
        \/ op.kind = "deleteGroup" /\ g = op.group /\ group'[g] = "deleted"
  BY <1>1, <1>4 DEF TxAttachments, TxMembers, TxGroup, TxPolicy, TxAccount
<1>6. \A g \in Groups : group[g] = "deleted" => group'[g] = "deleted"
  BY <1>5
\* What is owed after the step.
<1>7. /\ op.kind # "deleteGroup" =>
           /\ admin'[d].who = admin[d].who
           /\ admin[d].refs \cup RefsAfter(op) \subseteq admin'[d].refs
      /\ admin'[d].pc # "commit" /\ admin'[d].op = [kind |-> "none"]
  BY <1>1 DEF Commit, NoAdmin
<1>8. /\ op.kind \in {"grant", "revoke"} => op.who \in admin'[d].who
      /\ op.kind \in {"remove", "regroup", "deleteAccount"} => op.account \in admin'[d].who
      /\ op.kind \in {"add", "replace"} => op.group \in admin'[d].who
      /\ op.kind = "setPolicy" => op.policy \in admin'[d].refs
      /\ op.kind = "setStatement" =>
           \A p \in Policies : op.statement \in linked[p] => p \in admin'[d].refs
      /\ op.kind = "deleteGroup" => admin[d].who = {}
  BY <1>1, <1>7 DEF OwesOK, RefsAfter
<1>9. /\ \A a \in Accounts : Old(a)' => a \notin admin'[d].who
      /\ \A a \in Accounts, g \in Groups : Trusts(B, a, g)' => g \notin admin'[d].who
      /\ \A g \in Groups : g \in admin'[d].who => GroupOwed(g)'
      /\ \A p \in Policies : ~PolicyOwed(p)' => p \notin admin'[d].refs
  BY DEF Old, Direct, Trusts, GroupOwed, PolicyOwed
<1>10. /\ \A a \in Accounts : Old(a)' =>
            /\ Old(a) /\ a \in exists /\ cache'[a].rules = View(B, a)
            /\ \A p \in Policies : <<a, p>> \in B.attached /\ ~PolicyOwed(p)' =>
                                   Content(p) = B.content[p]
       /\ \A a \in Accounts, g \in Groups : Old(a)' /\ <<a, g>> \in member =>
            <<a, g>> \in B.member \/ GroupOwed(g)' \/ group'[g] = "deleted"
       /\ \A a \in Accounts, g \in Groups : Trusts(B, a, g)' =>
            /\ Trusts(B, a, g)
            /\ \A p \in Policies : <<g, p>> \in B.attached /\ ~PolicyOwed(p)' =>
                                   Content(p) = B.content[p]
  BY <1>2, <1>6, Persists
<1> HIDE DEF op
\* Policies: what they say changes only where that is owed.
<1>11. ASSUME NEW p \in Policies, ~PolicyOwed(p)',
              ~(op.kind = "deletePolicy" /\ p = op.policy)
       PROVE  Content(p)' = Content(p)
  <2>1. CASE UNCHANGED <<policy, linked, text>>
    BY <2>1 DEF Content
  <2>2. CASE op.kind \in {"setPolicy", "deletePolicy"} /\ TxPolicy(op)
    <3>1. p # op.policy /\ text' = text
      BY <1>8, <1>9, <1>11, <2>2 DEF TxPolicy
    <3>2. policy'[p] = policy[p] /\ linked'[p] = linked[p]
      BY <1>1, <2>2, <3>1 DEF TxPolicy
    <3> QED  BY <3>1, <3>2 DEF Content
  <2>3. CASE op.kind = "setStatement" /\ TxPolicy(op)
    <3>1. op.statement \notin linked[p]
      BY <1>8, <1>9, <1>11, <2>3
    <3>2. policy' = policy /\ linked' = linked
          /\ \A s \in Statements \ {op.statement} : text'[s] = text[s]
      BY <1>1, <2>3 DEF TxPolicy
    <3>3. \A s \in linked[p] : text'[s] = text[s]
      BY <1>1, <3>1, <3>2
    <3> QED  BY <3>2, <3>3 DEF Content
  <2> QED
    BY <1>4, <2>1, <2>2, <2>3 DEF TxAttachments, TxMembers, TxGroup, TxPolicy, TxAccount
\* Attachments: those of old accounts and trusted groups stay.
<1>12. ASSUME NEW w \in Principals, NEW p \in Policies,
              op.kind \in {"grant", "revoke"} => w # op.who,
              op.kind = "deleteGroup" => w # op.group,
              op.kind = "deleteAccount" => w # op.account,
              op.kind = "deletePolicy" /\ p = op.policy => <<w, p>> \notin attached
       PROVE  <<w, p>> \in attached' <=> <<w, p>> \in attached
  BY <1>4, <1>12 DEF TxAttachments, TxMembers, TxGroup, TxPolicy, TxAccount
<1>13. ASSUME NEW a \in Accounts PROVE OwnOK(B, a)'
  <2> SUFFICES ASSUME Old(a)' PROVE OwnOK(B, a)'
    BY DEF OwnOK
  <2>1. Old(a) /\ a \in exists /\ cache'[a].rules = View(B, a) /\ OwnOK(B, a)
    BY <1>10 DEF BuiltFrom
  <2>2. a \in exists'
    BY <1>4, <1>8, <1>9, <2>1 DEF TxAttachments, TxMembers, TxGroup, TxPolicy, TxAccount
  <2>3. op.kind = "deletePolicy" => <<a, op.policy>> \notin B.attached
    BY <1>1, <2>1 DEF PendingOK
  <2>4. ASSUME NEW p \in Policies
        PROVE  <<a, p>> \in attached' <=> <<a, p>> \in B.attached
    <3>1. <<a, p>> \in attached <=> <<a, p>> \in B.attached
      BY <2>1 DEF OwnOK
    <3>2. /\ a \in Principals /\ op.kind \in {"grant", "revoke"} => a # op.who
          /\ op.kind = "deleteGroup" => a # op.group
          /\ op.kind = "deleteAccount" => a # op.account
      BY <1>1, <1>3, <1>8, <1>9 DEF Principals
    <3>3. op.kind = "deletePolicy" /\ p = op.policy => <<a, p>> \notin attached
      BY <2>3, <3>1
    <3>4. <<a, p>> \in attached' <=> <<a, p>> \in attached
      BY <1>12, <3>2, <3>3 DEF Principals
    <3> QED  BY <3>1, <3>4
  <2>5. \A p \in Policies : <<a, p>> \in B.attached /\ ~PolicyOwed(p)' =>
                            Content(p)' = B.content[p]
    BY <1>10, <1>11, <2>3
  <2> QED  BY <2>1, <2>2, <2>4, <2>5 DEF OwnOK
<1>14. ASSUME NEW a \in Accounts, NEW g \in Groups PROVE MemberOK(B, a, g)'
  <2> SUFFICES ASSUME Old(a)' PROVE MemberOK(B, a, g)'
    BY DEF MemberOK
  <2>1. Old(a) /\ MemberOK(B, a, g)
    BY <1>10 DEF BuiltFrom
  <2>2. /\ op.kind \in {"remove", "regroup", "deleteAccount"} => a # op.account
        /\ op.kind \in {"add", "replace"} /\ g = op.group => GroupOwed(g)'
    BY <1>3, <1>8, <1>9
  <2>3. ASSUME <<a, g>> \in B.member, group'[g] = "deleted" PROVE B.group[g] = "deleted"
    <3>1. CASE group[g] = "deleted"
      BY <2>1, <2>3, <3>1 DEF MemberOK
    <3>2. CASE op.kind = "deleteGroup" /\ g = op.group
      BY <1>1, <1>8, <2>1, <2>3, <3>2 DEF PendingOK
    <3> QED  BY <1>3, <1>5, <2>3, <3>1, <3>2
  <2>4. ASSUME <<a, g>> \in B.member PROVE <<a, g>> \in member' \/ group'[g] = "deleted"
    <3>1. <<a, g>> \in member \/ group'[g] = "deleted"
      BY <1>6, <2>1, <2>4 DEF MemberOK
    <3>2. op.kind = "replace" /\ g = op.group => group'[g] = "deleted"
      BY <1>1, <1>6, <2>1, <2>4 DEF PendingOK
    <3>3. op.kind = "deleteGroup" /\ g = op.group => group'[g] = "deleted"
      BY <1>1, <1>4 DEF TxAttachments, TxMembers, TxGroup, TxPolicy, TxAccount
    <3> QED
      BY <1>4, <2>2, <3>1, <3>2, <3>3
      DEF TxAttachments, TxMembers, TxGroup, TxPolicy, TxAccount
  <2>5. ASSUME <<a, g>> \in member'
        PROVE  <<a, g>> \in B.member \/ GroupOwed(g)' \/ group'[g] = "deleted"
    <3>1. CASE <<a, g>> \in member
      BY <1>10, <3>1
    <3>2. CASE <<a, g>> \notin member
      BY <1>4, <2>2, <2>5, <3>2
      DEF TxAttachments, TxMembers, TxGroup, TxPolicy, TxAccount
    <3> QED  BY <3>1, <3>2
  <2> QED  BY <2>3, <2>4, <2>5 DEF MemberOK
<1>15. ASSUME NEW a \in Accounts, NEW g \in Groups PROVE GroupOK(B, a, g)'
  <2> SUFFICES ASSUME Trusts(B, a, g)' PROVE GroupOK(B, a, g)'
    BY DEF GroupOK
  <2>1. Trusts(B, a, g) /\ GroupOK(B, a, g) /\ group'[g] # "deleted"
    BY <1>10 DEF BuiltFrom, Trusts
  <2>2. group'[g] = B.group[g]
    BY <1>1, <1>5, <2>1 DEF GroupOK, PendingOK
  <2>3. op.kind = "deletePolicy" => <<g, op.policy>> \notin B.attached
    BY <1>1, <2>1 DEF PendingOK
  <2>4. ASSUME NEW p \in Policies
        PROVE  <<g, p>> \in attached' <=> <<g, p>> \in B.attached
    <3>1. <<g, p>> \in attached <=> <<g, p>> \in B.attached
      BY <2>1 DEF GroupOK
    <3>2. /\ g \in Principals /\ op.kind \in {"grant", "revoke"} => g # op.who
          /\ op.kind = "deleteAccount" => g # op.account
      BY <1>1, <1>3, <1>8, <1>9 DEF Principals
    <3>3. op.kind = "deleteGroup" => g # op.group
      BY <1>1, <1>4, <2>1 DEF TxAttachments, TxMembers, TxGroup, TxPolicy, TxAccount
    <3>4. op.kind = "deletePolicy" /\ p = op.policy => <<g, p>> \notin attached
      BY <2>3, <3>1
    <3>5. <<g, p>> \in attached' <=> <<g, p>> \in attached
      BY <1>12, <3>2, <3>3, <3>4 DEF Principals
    <3> QED  BY <3>1, <3>5
  <2>5. \A p \in Policies : <<g, p>> \in B.attached /\ ~PolicyOwed(p)' =>
                            Content(p)' = B.content[p]
    BY <1>10, <1>11, <2>3
  <2> QED  BY <2>2, <2>4, <2>5 DEF GroupOK
<1>16. PendingOK(B, d)'
  BY <1>7 DEF PendingOK
<1> QED
  BY <1>2, <1>6, <1>13, <1>14, <1>15, <1>16

-----------------------------------------------------------------------------
(* The rest of the invariant                                               *)

\* OwesOK of one request.
Owes(r) ==
  /\ r.pc = "idle" => r.who = {} /\ r.keys = {} /\ r.refs = {}
  /\ r.pc = "commit" =>
       /\ r.keys = {}
       /\ r.op.kind \in {"grant", "revoke"} => r.op.who \in r.who
       /\ r.op.kind \in {"remove", "regroup", "deleteAccount"} => r.op.account \in r.who
       /\ r.op.kind \in {"add", "replace"} => r.op.group \in r.who
       /\ r.op.kind = "setPolicy" => r.op.policy \in r.refs
       /\ r.op.kind = "deleteGroup" => r.who = {} /\ r.refs = {}

LEMMA OwesStep ==
  ASSUME TypeOK, OwesOK, [Next]_vars
  PROVE  OwesOK'
<1>1. OwesOK <=> \A d \in Admins : Owes(admin[d])
  BY DEF OwesOK, Owes
<1>2. OwesOK' <=> \A d \in Admins : Owes(admin'[d])
  BY DEF OwesOK, Owes
<1>3. admin \in [Admins -> AdminRecord]
  BY DEF TypeOK
<1>4. ASSUME NEW d \in Admins, Request(d) PROVE OwesOK'
  <2>1. \A e \in Admins \ {d} : admin'[e] = admin[e]
    BY <1>3, <1>4 DEF Request, Begin, Grant, Revoke, AddMembers, RemoveMembers,
       ReplaceMembers, SetGroups, UpdateGroup, DeleteGroup, UpdatePolicy, DeletePolicy,
       UpdateStatement, DeleteAccount
  <2>3. ASSUME NEW w \in Principals, NEW p \in Policies, Grant(d, w, p) \/ Revoke(d, w, p)
        PROVE  Owes(admin'[d])
    BY <1>3, <2>3 DEF Grant, Revoke, Begin, Owes
  <2>4. ASSUME NEW g \in Groups, NEW a \in Accounts, AddMembers(d, g, a) \/ RemoveMembers(d, g, a)
        PROVE  Owes(admin'[d])
    BY <1>3, <2>4 DEF AddMembers, RemoveMembers, Begin, Owes
  <2>5. ASSUME NEW g \in Groups, NEW S \in SUBSET Accounts, ReplaceMembers(d, g, S)
        PROVE  Owes(admin'[d])
    BY <1>3, <2>5 DEF ReplaceMembers, Begin, Owes
  <2>6. ASSUME NEW a \in Accounts, NEW G \in SUBSET Groups, SetGroups(d, a, G)
        PROVE  Owes(admin'[d])
    BY <1>3, <2>6 DEF SetGroups, Begin, Owes
  <2>7. ASSUME NEW g \in Groups, NEW status \in {"enabled", "disabled"},
               UpdateGroup(d, g, status)
        PROVE  Owes(admin'[d])
    BY <1>3, <2>7 DEF UpdateGroup, Begin, Owes
  <2>8. ASSUME NEW p \in Policies, NEW status \in {"enabled", "disabled"},
               NEW S \in SUBSET Statements \ {{}},
               UpdatePolicy(d, p, status, S)
        PROVE  Owes(admin'[d])
    BY <1>3, <2>8 DEF UpdatePolicy, Begin, Owes
  <2>9. ASSUME NEW s \in Statements, NEW t \in Texts, UpdateStatement(d, s, t)
        PROVE  Owes(admin'[d])
    BY <1>3, <2>9 DEF UpdateStatement, Begin, Owes
  <2>10. ASSUME NEW a \in Accounts, DeleteAccount(d, a)
         PROVE  Owes(admin'[d])
    BY <1>3, <2>10 DEF DeleteAccount, Begin, Owes
  <2>11. Owes(admin'[d])
    <3>1. ASSUME NEW p \in Policies, DeletePolicy(d, p) PROVE Owes(admin'[d])
      BY <1>3, <3>1 DEF DeletePolicy, Begin, Owes
    <3>2. ASSUME NEW g \in Groups, DeleteGroup(d, g) PROVE Owes(admin'[d])
      BY <1>3, <3>2 DEF DeleteGroup, Begin, Owes
    <3> QED
      BY <1>4, <2>3, <2>4, <2>5, <2>6, <2>7, <2>8, <2>9, <2>10, <3>1, <3>2 DEF Request
  <2> QED  BY <1>1, <1>2, <2>1, <2>11
<1>5. ASSUME NEW d \in Admins, AdminStep(d) \/ Abandon(d) PROVE OwesOK'
  <2>1. \A e \in Admins \ {d} : admin'[e] = admin[e]
    BY <1>3, <1>5 DEF AdminStep, Abandon, Commit, ListReferences, ListKeys, DeleteKeys,
                      Invalidated
  <2>2. Owes(NoAdmin)
    BY DEF Owes, NoAdmin
  <2>3. admin[d] \in AdminRecord
    BY <1>3
  <2>4. \/ admin'[d] = NoAdmin
        \/ admin'[d].pc = "invalidate"
        \/ /\ admin'[d].op.kind = "deleteGroup"
           /\ admin'[d].who = {} /\ admin'[d].keys = {} /\ admin'[d].refs = {}
    <3>1. CASE Commit(d)
      BY <1>3, <3>1 DEF Commit, NoAdmin
    <3>2. ASSUME NEW p \in Policies, ListReferences(d, p) PROVE admin'[d].pc = "invalidate"
      BY <1>3, <2>3, <3>2 DEF ListReferences, Invalidating, AdminRecord
    <3>3. ASSUME NEW w \in Principals, ListKeys(d, w) PROVE admin'[d].pc = "invalidate"
      BY <1>3, <2>3, <3>3 DEF ListKeys, Invalidating, AdminRecord
    <3>4. ASSUME DeleteKeys(d) PROVE admin'[d].pc = "invalidate"
      BY <1>3, <2>3, <3>4 DEF DeleteKeys, Invalidating, AdminRecord
    <3>5. CASE Invalidated(d)
      BY <1>3, <2>3, <3>5 DEF Invalidated, Invalidating, AdminRecord, Op
    <3>6. CASE Abandon(d)
      BY <1>3, <3>6 DEF Abandon
    <3> QED  BY <1>5, <3>1, <3>2, <3>3, <3>4, <3>5, <3>6 DEF AdminStep
  <2>5. Owes(admin'[d])
    BY <2>2, <2>4 DEF Owes
  <2> QED  BY <1>1, <1>2, <2>1, <2>5
<1>6. CASE UNCHANGED admin
  BY <1>6 DEF OwesOK
<1>7. ASSUME NEW l \in Loads, LoadStep(l) \/ \E a \in Accounts : LoadAccount(l, a)
      PROVE  UNCHANGED admin
  BY <1>7 DEF LoadStep, LoadPolicies, LoadRules, Store, LoadAccount
<1>8. ASSUME NEW a \in Accounts, Expire(a) PROVE UNCHANGED admin
  BY <1>8 DEF Expire
<1> QED
  BY <1>4, <1>5, <1>6, <1>7, <1>8 DEF Next, vars

LEMMA LoadOKStep ==
  ASSUME TypeOK, LoadOK, [Next]_vars
  PROVE  LoadOK'
<1>1. load \in [Loads -> LoadRecord]
  BY DEF TypeOK
<1>2. ASSUME NEW d \in Admins, Request(d) PROVE LoadOK'
  <2>1. load' = [l \in Loads |-> [load[l] EXCEPT !.calm = FALSE]]
    BY <1>2 DEF Request, Begin, Grant, Revoke, AddMembers, RemoveMembers,
       ReplaceMembers, SetGroups, UpdateGroup, DeleteGroup, UpdatePolicy, DeletePolicy,
       UpdateStatement, DeleteAccount
  <2>2. \A l \in Loads : ~load'[l].calm
    BY <1>1, <2>1 DEF LoadRecord
  <2> QED  BY <2>2 DEF LoadOK
<1>3. ASSUME NEW d \in Admins, AdminStep(d) \/ Abandon(d) PROVE LoadOK'
  <2>1. load' = load
    BY <1>3 DEF AdminStep, Abandon, Commit, ListReferences, ListKeys, DeleteKeys, Invalidated
  <2>2. ~Idle(d)
    BY <1>3 DEF AdminStep, Abandon, Commit, ListReferences, ListKeys, DeleteKeys,
                Invalidated, Invalidating, Idle
  <2> QED  BY <2>1, <2>2 DEF LoadOK, Quiet
<1>4. ASSUME UNCHANGED <<tables, admin>>, NEW m \in Loads, load'[m] = load[m]
      PROVE  LoadOK!(m)'
  <2>1. /\ exists' = exists /\ Quiet' = Quiet
        /\ \A a : ActiveGroups(a)' = ActiveGroups(a) /\ Rules(a)' = Rules(a)
        /\ \A S : PoliciesOf(S)' = PoliciesOf(S)
    BY <1>4 DEF tables, Quiet, Idle, ActiveGroups, PoliciesOf, Rules, RulesOf
  <2>2. LoadOK!(m)
    BY DEF LoadOK
  <2> QED  BY <1>4, <2>1, <2>2
<1>5. ASSUME UNCHANGED <<load, admin, tables>> PROVE LoadOK'
  BY <1>4, <1>5 DEF LoadOK
<1>6. ASSUME NEW l \in Loads, LoadStep(l) \/ \E a \in Accounts : LoadAccount(l, a)
      PROVE  LoadOK'
  <2>1. UNCHANGED <<tables, admin>>
    BY <1>6 DEF LoadStep, LoadPolicies, LoadRules, Store, LoadAccount
  <2>2. \A m \in Loads \ {l} : load'[m] = load[m]
    BY <1>1, <1>6 DEF LoadStep, LoadPolicies, LoadRules, Store, LoadAccount
  <2>3. LoadOK!(l)'
    <3>1. /\ exists' = exists /\ Quiet' = Quiet
          /\ \A a : ActiveGroups(a)' = ActiveGroups(a) /\ Rules(a)' = Rules(a)
          /\ \A S : PoliciesOf(S)' = PoliciesOf(S)
      BY <2>1 DEF tables, Quiet, Idle, ActiveGroups, PoliciesOf, Rules, RulesOf
    <3>2. load[l] \in LoadRecord
      BY <1>1
    <3>3. LoadOK!(l)
      BY DEF LoadOK
    <3>4. ASSUME NEW a \in Accounts, LoadAccount(l, a) PROVE LoadOK!(l)'
      <4>1. /\ load'[l].pc = "policies" /\ load'[l].account = a /\ a \in exists
            /\ load'[l].groups = ActiveGroups(a)
        BY <1>1, <3>4 DEF LoadAccount, NoLoad
      <4>2. load'[l].calm = \A d \in Admins : Idle(d)
        BY <1>1, <3>4 DEF LoadAccount, NoLoad
      <4> QED  BY <3>1, <4>1, <4>2 DEF Quiet
    <3>5. ASSUME LoadPolicies(l) PROVE LoadOK!(l)'
      <4>1. /\ load[l].pc = "policies" /\ load'[l].pc = "rules"
            /\ load'[l].account = load[l].account /\ load'[l].calm = load[l].calm
            /\ load'[l].policies = PoliciesOf({load[l].account} \cup load[l].groups)
        BY <1>1, <3>2, <3>5 DEF LoadPolicies, LoadRecord
      <4> QED  BY <3>1, <3>3, <4>1
    <3>6. ASSUME LoadRules(l) PROVE LoadOK!(l)'
      <4>1. /\ load[l].pc = "rules" /\ load'[l].pc = "store"
            /\ load'[l].account = load[l].account /\ load'[l].calm = load[l].calm
            /\ load'[l].rules = RulesOf(load[l].policies)
        BY <1>1, <3>2, <3>6 DEF LoadRules, LoadRecord
      <4> QED  BY <3>1, <3>3, <4>1 DEF Rules
    <3>7. ASSUME Store(l) PROVE LoadOK!(l)'
      <4>1. load'[l].pc = "idle"
        BY <1>1, <3>7 DEF Store, NoLoad
      <4> QED  BY <4>1
    <3> QED  BY <1>6, <3>4, <3>5, <3>6, <3>7 DEF LoadStep
  <2> QED  BY <1>4, <2>1, <2>2, <2>3 DEF LoadOK
<1>7. ASSUME NEW a \in Accounts, Expire(a) PROVE LoadOK'
  BY <1>5, <1>7 DEF Expire
<1> QED
  BY <1>2, <1>3, <1>5, <1>6, <1>7 DEF Next, vars

LEMMA SnapshotStep ==
  ASSUME IInv, [Next]_vars, TypeOK', OwesOK', faults' = 0
  PROVE  HasSnapshot'
<1>1. TypeOK /\ OwesOK /\ LoadOK
  BY DEF IInv
<1>2. faults = 0
  <2>1. faults \in Nat
    BY <1>1, PermissionCacheAssumption DEF TypeOK
  <2>2. faults' = faults \/ faults' = faults + 1
    <3>1. ASSUME NEW l \in Loads, LoadStep(l) \/ \E a \in Accounts : LoadAccount(l, a)
          PROVE  faults' = faults \/ faults' = faults + 1
      BY <3>1 DEF LoadStep, LoadPolicies, LoadRules, Store, LoadAccount, Fault
    <3>2. ASSUME NEW d \in Admins, Request(d) PROVE faults' = faults
      BY <3>2 DEF Request, Begin, Grant, Revoke, AddMembers, RemoveMembers,
         ReplaceMembers, SetGroups, UpdateGroup, DeleteGroup, UpdatePolicy, DeletePolicy,
         UpdateStatement, DeleteAccount
    <3>3. ASSUME NEW d \in Admins, AdminStep(d) \/ Abandon(d)
          PROVE  faults' = faults \/ faults' = faults + 1
      BY <3>3 DEF AdminStep, Abandon, Commit, ListReferences, ListKeys, DeleteKeys,
                  Invalidated, Fault
    <3> QED  BY <3>1, <3>2, <3>3 DEF Next, Expire, vars
  <2> QED  BY <2>1, <2>2
<1>3. PICK B \in Snapshot : BuiltFrom(B)
  BY <1>2 DEF IInv, HasSnapshot
\* A step that leaves tables and requests alone and stores no calm entry.
<1>4. ASSUME UNCHANGED <<tables, admin>>,
             \A a \in Accounts : cache'[a] = cache[a] \/ ~cache'[a].calm
      PROVE  BuiltFrom(B)'
  <2>1. Steady
    BY <1>4, QuietStepSteady
  <2>2. \A g \in Groups : group[g] = "deleted" => group'[g] = "deleted"
    BY <1>4 DEF tables
  <2>3. \A e \in Admins : PendingOK(B, e)'
    BY <1>1, <1>3, <1>4, <2>1, <2>2, PendingKept
  <2>4. /\ \A a \in Accounts : OwnOK(B, a)'
        /\ \A a \in Accounts, g \in Groups : MemberOK(B, a, g)' /\ GroupOK(B, a, g)'
    BY <1>1, <1>3, <1>4, <2>1, SameTables
  <2> QED  BY <2>3, <2>4 DEF BuiltFrom
<1>5. ASSUME NEW d \in Admins, Request(d) \/ (AdminStep(d) /\ ~Commit(d))
      PROVE  BuiltFrom(B)'
  <2>1. Steady /\ PendingOK(B, d)' /\ UNCHANGED tables
    BY <1>1, <1>3, <1>5, RequestPending, AdminPending
  <2>2. \A e \in Admins \ {d} : admin'[e] = admin[e]
    BY <1>1, <1>5 DEF TypeOK, AdminStep, ListReferences, ListKeys, DeleteKeys,
       Invalidated, Request, Begin, Grant, Revoke, AddMembers, RemoveMembers,
       ReplaceMembers, SetGroups, UpdateGroup, DeleteGroup, UpdatePolicy, DeletePolicy,
       UpdateStatement, DeleteAccount
  <2>3. \A g \in Groups : group[g] = "deleted" => group'[g] = "deleted"
    BY <2>1 DEF tables
  <2>4. \A e \in Admins \ {d} : PendingOK(B, e)'
    BY <1>1, <1>3, <2>1, <2>2, <2>3, PendingKept
  <2>5. /\ \A a \in Accounts : OwnOK(B, a)'
        /\ \A a \in Accounts, g \in Groups : MemberOK(B, a, g)' /\ GroupOK(B, a, g)'
    BY <1>1, <1>3, <2>1, SameTables
  <2> QED  BY <2>1, <2>4, <2>5 DEF BuiltFrom
<1>6. ASSUME NEW d \in Admins, Commit(d) PROVE BuiltFrom(B)'
  <2>1. /\ Steady /\ PendingOK(B, d)'
        /\ \A g \in Groups : group[g] = "deleted" => group'[g] = "deleted"
        /\ \A a \in Accounts : OwnOK(B, a)'
        /\ \A a \in Accounts, g \in Groups : MemberOK(B, a, g)' /\ GroupOK(B, a, g)'
    BY <1>1, <1>3, <1>6, CommitKeeps
  <2>2. \A e \in Admins \ {d} : admin'[e] = admin[e]
    BY <1>1, <1>6 DEF TypeOK, Commit
  <2>3. \A e \in Admins \ {d} : PendingOK(B, e)'
    BY <1>1, <1>3, <2>1, <2>2, PendingKept
  <2> QED  BY <2>1, <2>3 DEF BuiltFrom
<1>7. ASSUME NEW d \in Admins, Abandon(d) PROVE FALSE
  BY <1>2, <1>7 DEF Abandon, Fault
<1>8. ASSUME NEW l \in Loads, LoadStep(l) \/ \E a \in Accounts : LoadAccount(l, a)
      PROVE  HasSnapshot'
  <2>1. UNCHANGED <<tables, admin>>
    BY <1>8 DEF LoadStep, LoadPolicies, LoadRules, Store, LoadAccount
  <2>2. load[l] \in LoadRecord /\ cache \in [Accounts -> Entry]
    BY <1>1 DEF TypeOK
  <2>3. CASE cache' = cache
    BY <1>3, <1>4, <2>1, <2>3 DEF HasSnapshot
  <2>4. CASE cache' # cache
    <3>1. /\ load[l].pc = "store"
          /\ cache' = [cache EXCEPT ![load[l].account] =
                         [rules |-> load[l].rules, expires |-> HasTTL, calm |-> load[l].calm]]
      BY <1>8, <2>4 DEF LoadStep, LoadPolicies, LoadRules, Store, LoadAccount
    <3>2. /\ \A a \in Accounts \ {load[l].account} : cache'[a] = cache[a]
          /\ load[l].account \in Accounts =>
               /\ cache'[load[l].account].rules = load[l].rules
               /\ cache'[load[l].account].calm = load[l].calm
      BY <2>2, <3>1
    <3>3. CASE ~load[l].calm
      <4>1. \A a \in Accounts : cache'[a] = cache[a] \/ ~cache'[a].calm
        BY <3>2, <3>3
      <4> QED  BY <1>3, <1>4, <2>1, <4>1 DEF HasSnapshot
    <3>4. CASE load[l].calm
      <4>1. Quiet /\ load[l].account \in exists /\ load[l].rules = Rules(load[l].account)
        BY <1>1, <3>1, <3>4 DEF LoadOK
      <4>2. ASSUME NEW a \in Accounts, cache'[a].calm
            PROVE  a \in exists /\ cache'[a].rules = Rules(a)
        <5>1. CASE a = load[l].account
          BY <3>2, <4>1, <5>1
        <5>2. CASE a # load[l].account
          <6>1. cache[a].calm /\ cache'[a] = cache[a]
            BY <3>2, <4>2, <5>2
          <6> QED  BY <1>1, <1>3, <4>1, <6>1, QuietRight
        <5> QED  BY <5>1, <5>2
      <4>3. exists' = exists /\ Quiet' /\ \A a : Rules(a)' = Rules(a)
        BY <2>1, <4>1 DEF tables, Quiet, Idle, Rules, RulesOf, PoliciesOf, ActiveGroups
      <4>4. CalmRight'
        BY <4>2, <4>3 DEF CalmRight
      <4> QED  BY <4>3, <4>4, QuietSnapshot
    <3> QED  BY <3>3, <3>4
  <2> QED  BY <2>3, <2>4
<1>9. ASSUME NEW a \in Accounts, Expire(a) PROVE BuiltFrom(B)'
  <2>1. \A b \in Accounts : cache'[b] = cache[b] \/ ~cache'[b].calm
    BY <1>1, <1>9 DEF Expire, TypeOK, NoEntry
  <2> QED  BY <1>4, <1>9, <2>1 DEF Expire
<1>10. CASE UNCHANGED vars
  BY <1>3, <1>4, <1>10 DEF vars, HasSnapshot
<1> QED
  BY <1>3, <1>5, <1>6, <1>7, <1>8, <1>9, <1>10 DEF Next, HasSnapshot

LEMMA InitIInv == Init => IInv
<1> SUFFICES ASSUME Init PROVE IInv
  OBVIOUS
<1>1. TypeOK
  BY InitTypeOK
<1>2. OwesOK /\ LoadOK /\ Quiet
  BY DEF Init, OwesOK, LoadOK, Quiet, Idle, NoAdmin, NoLoad
<1>3. \A a \in Accounts : ~cache[a].calm
  BY DEF Init, NoEntry
<1>4. Tables \in Snapshot /\ BuiltFrom(Tables)
  BY <1>1, <1>2, <1>3, QuietRebase DEF CalmRight
<1> QED
  BY <1>1, <1>2, <1>4 DEF IInv, HasSnapshot

\* The inductive invariant holds in every reachable state.
THEOREM InductiveInvariant == Spec => []IInv
<1>1. IInv /\ [Next]_vars => IInv'
  BY NextTypeOK, OwesStep, LoadOKStep, SnapshotStep DEF IInv
<1> QED
  BY InitIInv, <1>1, PTL DEF Spec

\* Whatever requests overlap: when all are done and nothing has failed, an entry
\* loaded before they began is right or gone (permission.go
\* InvalidatePermissionCache, InvalidatePolicyReferences, and their callers).
THEOREM EveryChangeReaches == Spec => []InvalidationReaches
<1>1. IInv => InvalidationReaches
  <2> SUFFICES ASSUME IInv, Quiet, faults = 0, NEW a \in Accounts, cache[a].calm
               PROVE  Right(a)
    BY DEF InvalidationReaches, Quiet
  <2>1. PICK B \in Snapshot : BuiltFrom(B)
    BY DEF IInv, HasSnapshot
  <2>2. cache[a].rules = Rules(a)
    BY <2>1, QuietRight DEF IInv
  <2> QED  BY <2>2 DEF Right
<1> QED
  BY <1>1, InductiveInvariant, PTL
=============================================================================
