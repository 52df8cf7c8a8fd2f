---------------------------- MODULE PermissionCache ----------------------------
(***************************************************************************)
(* Permission sets of accounts: the tables they are built from, the        *)
(* administration of those tables, and the cache of the sets that are      *)
(* built.  Source: logic/permission.go (LoadPermissionSet, the Invalidate  *)
(* functions), logic/grant.go, logic/group.go, logic/policy.go,            *)
(* logic/statement.go, logic/account.go.                                   *)
(*                                                                         *)
(* An administrator's request reads and checks, commits one transaction,   *)
(* and then deletes the cached sets its change concerns, with further      *)
(* queries to find out whose they are.  A request that needs a permission  *)
(* set builds it with three queries and caches it at the end.  A query, a  *)
(* transaction or a call to the cache is one step; requests interleave.    *)
(* A set is written as the rules in it: policy, statement and its text     *)
(* (effect, action and data scopes).  Nothing here depends on the time: a  *)
(* cached set may expire at any moment.                                    *)
(***************************************************************************)
EXTENDS Naturals, FiniteSets

CONSTANTS
  Accounts,
  Groups,
  Policies,    \* custom policies; system policies do not change
  Statements,
  Texts,       \* what a statement can say
  Admins,      \* goroutines serving administration requests
  Loads,       \* goroutines that need a permission set
  NoAccount,
  MaxOps,      \* bound on the number of administration requests
  MaxFaults    \* bound on failed cache calls and requests cut off

ASSUME PermissionCacheAssumption ==
  /\ Accounts \cap Groups = {}
  /\ NoAccount \notin Accounts
  /\ Texts # {}
  /\ MaxOps \in Nat
  /\ MaxFaults \in Nat

VARIABLES
  exists,    \* the accounts there are
  member,    \* q_iam_account_groups
  group,     \* group[g]: "enabled", "disabled" or "deleted"
  attached,  \* q_iam_policy_attachments: principal and policy
  policy,    \* policy[p]: "enabled", "disabled" or "deleted"
  linked,    \* linked[p]: the statements of p (q_iam_policy_statements)
  text,      \* text[s]: what statement s says
  cache,     \* cache[a]: the entry perm:acct:<a>
  admin,     \* admin[d]: progress and local variables of a request
  load,      \* load[l]: progress and local variables of LoadPermissionSet
  ops,       \* administration requests so far
  faults     \* failed calls and requests cut off so far

tables == <<exists, member, group, attached, policy, linked, text>>
vars == <<tables, cache, admin, load, ops, faults>>

Principals == Accounts \cup Groups

-----------------------------------------------------------------------------
(* Permission sets *)

\* The groups whose policies an account gets.
ActiveGroups(a) == {g \in Groups : <<a, g>> \in member /\ group[g] = "enabled"}

\* The enabled policies attached to a principal in S.
PoliciesOf(S) ==
  {p \in Policies : policy[p] = "enabled" /\ \E w \in S : <<w, p>> \in attached}

\* A rule: a policy, a statement of it, and what the statement says.
Rule == Policies \X Statements \X Texts

RulesOf(P) ==
  {r \in Rule : r[1] \in P /\ r[2] \in linked[r[1]] /\ r[3] = text[r[2]]}

\* What the tables say about an account now.
Rules(a) ==
  IF a \in exists THEN RulesOf(PoliciesOf({a} \cup ActiveGroups(a))) ELSE {}

-----------------------------------------------------------------------------
(* Requests *)

RuleSets == SUBSET Rule

\* expires: written with a TTL.  History, read by no step of the code: calm, no
\* administration request was in progress while the set was loaded.
Entry == [rules : RuleSets, expires : BOOLEAN, calm : BOOLEAN]
NoEntry == [rules |-> {}, expires |-> FALSE, calm |-> FALSE]

LoadRecord == [pc : {"idle", "policies", "rules", "store"}, account : Accounts \cup {NoAccount},
               groups : SUBSET Groups, policies : SUBSET Policies, rules : RuleSets,
               calm : BOOLEAN]
NoLoad == [pc |-> "idle", account |-> NoAccount, groups |-> {}, policies |-> {},
           rules |-> {}, calm |-> FALSE]

Operations ==
  [kind : {"grant", "revoke"}, who : Principals, policy : Policies]
  \cup [kind : {"add", "remove"}, group : Groups, account : Accounts]
  \cup [kind : {"replace"}, group : Groups, accounts : SUBSET Accounts]
  \cup [kind : {"regroup"}, account : Accounts, groups : SUBSET Groups]
  \cup [kind : {"setGroup"}, group : Groups, status : {"enabled", "disabled"}]
  \cup [kind : {"deleteGroup"}, group : Groups]
  \cup [kind : {"setPolicy"}, policy : Policies, status : {"enabled", "disabled"},
        statements : SUBSET Statements \ {{}}]
  \cup [kind : {"deletePolicy"}, policy : Policies]
  \cup [kind : {"setStatement"}, statement : Statements, text : Texts]
  \cup [kind : {"deleteAccount"}, account : Accounts]
  \cup [kind : {"none"}]

\* refs: policies whose attachments are still to be listed; who: principals
\* still to be invalidated; keys: accounts whose entries are deleted next.
AdminRecord == [pc : {"idle", "commit", "invalidate"}, op : Operations,
                refs : SUBSET Policies, who : SUBSET Principals, keys : SUBSET Accounts]
NoAdmin == [pc |-> "idle", op |-> [kind |-> "none"], refs |-> {}, who |-> {}, keys |-> {}]

\* A call fails, or a request is cut off.
Fault == faults < MaxFaults /\ faults' = faults + 1

Idle(d) == admin[d].pc = "idle"
Op(d) == admin[d].op

Init ==
  /\ exists = Accounts
  /\ member \in SUBSET (Accounts \X Groups)
  /\ group = [g \in Groups |-> "enabled"]
  /\ attached \in SUBSET (Principals \X Policies)
  /\ policy = [p \in Policies |-> "enabled"]
  /\ linked = [p \in Policies |-> Statements]
  /\ text = [s \in Statements |-> CHOOSE t \in Texts : TRUE]
  /\ cache = [a \in Accounts |-> NoEntry]
  /\ admin = [d \in Admins |-> NoAdmin]
  /\ load = [l \in Loads |-> NoLoad]
  /\ ops = 0
  /\ faults = 0

-----------------------------------------------------------------------------
(* LoadPermissionSet *)

\* The cache has no set of a, or does not answer; the account row and its groups
\* are read.
LoadAccount(l, a) ==
  /\ load[l].pc = "idle"
  /\ \/ cache[a] = NoEntry /\ UNCHANGED faults
     \/ cache[a] # NoEntry /\ Fault
  /\ a \in exists
  /\ load' = [load EXCEPT ![l] = [NoLoad EXCEPT
       !.pc = "policies", !.account = a, !.groups = ActiveGroups(a),
       !.calm = \A d \in Admins : Idle(d)]]
  /\ UNCHANGED <<tables, cache, admin, ops>>

\* The policies of the account and of the groups that were read.
LoadPolicies(l) ==
  /\ load[l].pc = "policies"
  /\ load' = [load EXCEPT ![l].pc = "rules", ![l].groups = {},
       ![l].policies = PoliciesOf({load[l].account} \cup load[l].groups)]
  /\ UNCHANGED <<tables, cache, admin, ops, faults>>

\* Their statements.
LoadRules(l) ==
  /\ load[l].pc = "rules"
  /\ load' = [load EXCEPT ![l].pc = "store", ![l].policies = {},
       ![l].rules = RulesOf(load[l].policies)]
  /\ UNCHANGED <<tables, cache, admin, ops, faults>>

\* Variant: the entry is written without permCacheTTL.
Variant_HasTTL == FALSE

HasTTL == TRUE

\* rulesToCache, by SetEx; when it fails the set is used and not cached.
Store(l) ==
  /\ load[l].pc = "store"
  /\ \/ cache' = [cache EXCEPT ![load[l].account] =
            [rules |-> load[l].rules, expires |-> HasTTL, calm |-> load[l].calm]]
     \/ UNCHANGED cache
  /\ load' = [load EXCEPT ![l] = NoLoad]
  /\ UNCHANGED <<tables, admin, ops, faults>>

\* The TTL of an entry is over.
Expire(a) ==
  /\ cache[a] # NoEntry /\ cache[a].expires
  /\ cache' = [cache EXCEPT ![a] = NoEntry]
  /\ UNCHANGED <<tables, admin, load, ops, faults>>

-----------------------------------------------------------------------------
(* What the requests check and read before they change something.  Those   *)
(* that find nothing to do, or an error, end there and are left out.       *)

\* d starts on op; it goes to pc, and will invalidate the principals in who and
\* those the policies in refs are attached to.
Begin(d, op, pc, who, refs) ==
  /\ Idle(d) /\ ops < MaxOps
  /\ ops' = ops + 1
  /\ admin' = [admin EXCEPT ![d] =
       [pc |-> pc, op |-> op, refs |-> refs, who |-> who, keys |-> {}]]
  /\ load' = [l \in Loads |-> [load[l] EXCEPT !.calm = FALSE]]
  /\ UNCHANGED <<tables, cache, faults>>

Present(w) == IF w \in Accounts THEN w \in exists ELSE group[w] # "deleted"

Grant(d, w, p) ==
  /\ policy[p] = "enabled" /\ Present(w)
  /\ Begin(d, [kind |-> "grant", who |-> w, policy |-> p], "commit", {w}, {})

Revoke(d, w, p) ==
  Begin(d, [kind |-> "revoke", who |-> w, policy |-> p], "commit", {w}, {})

AddMembers(d, g, a) ==
  /\ Present(g) /\ Present(a)
  /\ Begin(d, [kind |-> "add", group |-> g, account |-> a], "commit", {g}, {})

RemoveMembers(d, g, a) ==
  /\ Present(g) /\ Present(a)
  /\ Begin(d, [kind |-> "remove", group |-> g, account |-> a], "commit", {a}, {})

\* The old members are read before they are replaced.
ReplaceMembers(d, g, S) ==
  /\ Present(g) /\ S \subseteq exists
  /\ Begin(d, [kind |-> "replace", group |-> g, accounts |-> S], "commit",
           {g} \cup {a \in Accounts : <<a, g>> \in member}, {})

\* Account update with group_ids.
SetGroups(d, a, G) ==
  /\ Present(a) /\ \A g \in G : Present(g)
  /\ Begin(d, [kind |-> "regroup", account |-> a, groups |-> G], "commit", {a}, {})

\* Group update; the caches matter only when the status that was read changes.
UpdateGroup(d, g, status) ==
  /\ Present(g)
  /\ Begin(d, [kind |-> "setGroup", group |-> g, status |-> status], "commit",
           IF status # group[g] THEN {g} ELSE {}, {})

\* The only request that invalidates before its transaction.
DeleteGroup(d, g) ==
  /\ Present(g)
  /\ Begin(d, [kind |-> "deleteGroup", group |-> g], "invalidate", {g}, {})

UpdatePolicy(d, p, status, S) ==
  /\ policy[p] # "deleted"
  /\ Begin(d, [kind |-> "setPolicy", policy |-> p, status |-> status, statements |-> S],
           "commit", {}, {p})

\* The attachments are listed before they are deleted.
DeletePolicy(d, p) ==
  /\ policy[p] # "deleted"
  /\ Begin(d, [kind |-> "deletePolicy", policy |-> p], "commit",
           {w \in Principals : <<w, p>> \in attached}, {})

\* The policies of the statement are looked up after the transaction.
UpdateStatement(d, s, t) ==
  Begin(d, [kind |-> "setStatement", statement |-> s, text |-> t], "commit", {}, {})

DeleteAccount(d, a) ==
  /\ Present(a)
  /\ Begin(d, [kind |-> "deleteAccount", account |-> a], "commit", {a}, {})

Request(d) ==
  \/ \E w \in Principals, p \in Policies : Grant(d, w, p) \/ Revoke(d, w, p)
  \/ \E g \in Groups, a \in Accounts : AddMembers(d, g, a) \/ RemoveMembers(d, g, a)
  \/ \E g \in Groups, S \in SUBSET Accounts : ReplaceMembers(d, g, S)
  \/ \E a \in Accounts, G \in SUBSET Groups : SetGroups(d, a, G)
  \/ \E g \in Groups, status \in {"enabled", "disabled"} : UpdateGroup(d, g, status)
  \/ \E g \in Groups : DeleteGroup(d, g)
  \/ \E p \in Policies, status \in {"enabled", "disabled"},
        S \in SUBSET Statements \ {{}} : UpdatePolicy(d, p, status, S)
  \/ \E p \in Policies : DeletePolicy(d, p)
  \/ \E s \in Statements, t \in Texts : UpdateStatement(d, s, t)
  \/ \E a \in Accounts : DeleteAccount(d, a)

-----------------------------------------------------------------------------
(* The transactions *)

TxAttachments(op) ==
  /\ \/ op.kind = "grant" /\ attached' = attached \cup {<<op.who, op.policy>>}
     \/ op.kind = "revoke" /\ attached' = attached \ {<<op.who, op.policy>>}
  /\ UNCHANGED <<exists, member, group, policy, linked, text>>

\* GORM's Append and Replace also insert the associated accounts, which were read
\* before, if they are gone meanwhile.
TxMembers(op) ==
  /\ \/ /\ op.kind = "add"
        /\ member' = member \cup {<<op.account, op.group>>}
        /\ exists' = exists \cup {op.account}
     \/ /\ op.kind = "remove"
        /\ member' = member \ {<<op.account, op.group>>}
        /\ UNCHANGED exists
     \/ /\ op.kind = "replace"
        /\ member' = {m \in member : m[2] # op.group} \cup (op.accounts \X {op.group})
        /\ exists' = exists \cup op.accounts
     \/ /\ op.kind = "regroup"
        /\ member' = {m \in member : m[1] # op.account} \cup ({op.account} \X op.groups)
        /\ UNCHANGED exists
  /\ UNCHANGED <<group, attached, policy, linked, text>>

\* An UPDATE finds no row of a group or policy that was deleted meanwhile.
TxGroup(op) ==
  \/ /\ op.kind = "setGroup"
     /\ group' = [group EXCEPT ![op.group] = IF @ = "deleted" THEN @ ELSE op.status]
     /\ UNCHANGED <<exists, member, attached, policy, linked, text>>
  \/ /\ op.kind = "deleteGroup"
     /\ group' = [group EXCEPT ![op.group] = "deleted"]
     /\ member' = {m \in member : m[2] # op.group}
     /\ attached' = {x \in attached : x[1] # op.group}
     /\ UNCHANGED <<exists, policy, linked, text>>

TxPolicy(op) ==
  \/ /\ op.kind = "setPolicy"
     /\ policy' = [policy EXCEPT ![op.policy] = IF @ = "deleted" THEN @ ELSE op.status]
     /\ linked' = [linked EXCEPT ![op.policy] = op.statements]
     /\ UNCHANGED <<exists, member, group, attached, text>>
  \/ /\ op.kind = "deletePolicy"
     /\ policy' = [policy EXCEPT ![op.policy] = "deleted"]
     /\ linked' = [linked EXCEPT ![op.policy] = {}]
     /\ attached' = {x \in attached : x[2] # op.policy}
     /\ UNCHANGED <<exists, member, group, text>>
  \/ /\ op.kind = "setStatement"
     /\ text' = [text EXCEPT ![op.statement] = op.text]
     /\ UNCHANGED <<exists, member, group, attached, policy, linked>>

TxAccount(op) ==
  /\ op.kind = "deleteAccount"
  /\ exists' = exists \ {op.account}
  /\ member' = {m \in member : m[1] # op.account}
  /\ attached' = {x \in attached : x[1] # op.account}
  /\ UNCHANGED <<group, policy, linked, text>>

\* The policies whose references a request looks up after its transaction.
RefsAfter(op) ==
  IF op.kind = "setStatement" THEN {p \in Policies : op.statement \in linked[p]} ELSE {}

\* The transaction commits.  Where the policies of a statement are plucked in
\* a later query, a policy linked meanwhile has the new text anyway.
Commit(d) ==
  LET op == Op(d)
  IN  /\ admin[d].pc = "commit"
      /\ \/ TxAttachments(op) \/ TxMembers(op) \/ TxGroup(op) \/ TxPolicy(op)
         \/ TxAccount(op)
      /\ admin' = [admin EXCEPT ![d] =
           IF op.kind = "deleteGroup" THEN NoAdmin
           ELSE [NoAdmin EXCEPT !.pc = "invalidate", !.who = admin[d].who,
                                !.refs = admin[d].refs \cup RefsAfter(op)]]
      /\ UNCHANGED <<cache, load, ops, faults>>

-----------------------------------------------------------------------------
(* Invalidation *)

Invalidating(d) == admin[d].pc = "invalidate"

\* InvalidatePolicyReferences: the principals a policy is attached to.
ListReferences(d, p) ==
  /\ Invalidating(d)
  /\ admin[d].keys = {} /\ admin[d].who = {} /\ p \in admin[d].refs
  /\ admin' = [admin EXCEPT ![d].refs = @ \ {p},
                            ![d].who = {w \in Principals : <<w, p>> \in attached}]
  /\ UNCHANGED <<tables, cache, load, ops, faults>>

\* Variant: the members of a group are forgotten.
Variant_KeysOf(w) == {w} \cap Accounts

\* Variant: the principal is taken for an account.
Variant_KeysOfPrincipal(w) == {w}

\* The accounts whose sets depend on a principal: a group stands for its members.
KeysOf(w) ==
  IF w \in Accounts THEN {w}
  ELSE IF group[w] = "deleted" THEN {}
  ELSE {a \in exists : <<a, w>> \in member}

\* InvalidatePermissionCache: for a group, its members are read.
ListKeys(d, w) ==
  /\ Invalidating(d)
  /\ admin[d].keys = {} /\ w \in admin[d].who
  /\ admin' = [admin EXCEPT ![d].who = @ \ {w}, ![d].keys = KeysOf(w)]
  /\ UNCHANGED <<tables, cache, load, ops, faults>>

\* The keys are deleted; a failure is only logged.
DeleteKeys(d) ==
  /\ Invalidating(d)
  /\ admin[d].keys # {}
  /\ \/ /\ cache' = [a \in Accounts |-> IF a \in admin[d].keys THEN NoEntry ELSE cache[a]]
        /\ UNCHANGED faults
     \/ Fault /\ UNCHANGED cache
  /\ admin' = [admin EXCEPT ![d].keys = {}]
  /\ UNCHANGED <<tables, load, ops>>

\* Nothing is left to invalidate.
Invalidated(d) ==
  /\ Invalidating(d)
  /\ admin[d].keys = {} /\ admin[d].who = {} /\ admin[d].refs = {}
  /\ admin' = [admin EXCEPT ![d] =
       IF Op(d).kind = "deleteGroup" THEN [@ EXCEPT !.pc = "commit"] ELSE NoAdmin]
  /\ UNCHANGED <<tables, cache, load, ops, faults>>

\* The request's context is cancelled, or the process stops.
Abandon(d) ==
  /\ ~Idle(d)
  /\ Fault
  /\ admin' = [admin EXCEPT ![d] = NoAdmin]
  /\ UNCHANGED <<tables, cache, load, ops>>

-----------------------------------------------------------------------------
LoadStep(l) == LoadPolicies(l) \/ LoadRules(l) \/ Store(l)

AdminStep(d) ==
  \/ Commit(d)
  \/ \E p \in Policies : ListReferences(d, p)
  \/ \E w \in Principals : ListKeys(d, w)
  \/ DeleteKeys(d)
  \/ Invalidated(d)

Next ==
  \/ \E l \in Loads : LoadStep(l) \/ \E a \in Accounts : LoadAccount(l, a)
  \/ \E d \in Admins : Request(d) \/ AdminStep(d) \/ Abandon(d)
  \/ \E a \in Accounts : Expire(a)

Spec == Init /\ [][Next]_vars

\* A request that has begun goes on, and an entry with a TTL expires.
Fairness ==
  /\ \A l \in Loads : WF_vars(LoadStep(l))
  /\ \A d \in Admins : WF_vars(AdminStep(d))
  /\ \A a \in Accounts : WF_vars(Expire(a))

FairSpec == Spec /\ Fairness

-----------------------------------------------------------------------------
TypeOK ==
  /\ exists \subseteq Accounts
  /\ member \subseteq Accounts \X Groups
  /\ group \in [Groups -> {"enabled", "disabled", "deleted"}]
  /\ attached \subseteq Principals \X Policies
  /\ policy \in [Policies -> {"enabled", "disabled", "deleted"}]
  /\ linked \in [Policies -> SUBSET Statements]
  /\ text \in [Statements -> Texts]
  /\ cache \in [Accounts -> Entry]
  /\ admin \in [Admins -> AdminRecord]
  /\ load \in [Loads -> LoadRecord]
  /\ ops \in 0..MaxOps
  /\ faults \in 0..MaxFaults

Right(a) == cache[a] = NoEntry \/ cache[a].rules = Rules(a)

\* Every change reaches every set it concerns, directly or through groups,
\* policies and statements: whatever requests overlap, when they are done and no
\* call has failed, a set that was cached before they began is right or gone.
InvalidationReaches ==
  (\A d \in Admins : Idle(d)) /\ faults = 0 =>
    \A a \in Accounts : cache[a].calm => Right(a)

\* The TTL is the fallback (permission.go:97): whatever the races and failures,
\* when the changes have stopped the cache becomes right and stays right.
EventuallyRight == <>[](\A a \in Accounts : Right(a))
=============================================================================
