---------------------------- MODULE DirectoryProofs ----------------------------
(***************************************************************************)
(* Proofs about Directory, for any statements, policies, principals and    *)
(* numbers of requests at once.                                            *)
(***************************************************************************)
EXTENDS Directory, TLAPS

-----------------------------------------------------------------------------
\* Every variable has its type: TypeOK is inductive.
LEMMA InitTypeOK == Init => TypeOK
  <1> SUFFICES ASSUME Init
               PROVE  TypeOK
    OBVIOUS
  <1> USE DEF Init
  <1>1. statement \in [Statements -> RowStates] /\ policy \in [Policies -> RowStates]
        /\ principal \in [Principals -> RowStates]
    BY DEF RowStates
  <1>2. scoped \subseteq Statements /\ linked \subseteq Policies \X Statements
        /\ attached \subseteq Principals \X Policies
    BY <1>1 DEF Rows
  <1>3. admin \in [Admins -> Operations \cup {NoOp}]
    OBVIOUS
  <1>4. ops \in 0..MaxOps
    BY DirectoryAssumption
  <1>5. overtaken \in BOOLEAN
    BY Zenon
  <1> QED
    BY <1>1, <1>2, <1>3, <1>4, <1>5, Zenon DEF TypeOK

LEMMA CommitTypeOK ==
  ASSUME TypeOK, NEW d \in Admins, Commit(d)
  PROVE  TypeOK'
  <1> DEFINE op == admin[d]
  <1> USE DEF RowStates
  <1>1. op \in Operations \cup {NoOp}
    BY DEF TypeOK
  <1>2. admin' \in [Admins -> Operations \cup {NoOp}] /\ ops' \in 0..MaxOps
        /\ overtaken' \in BOOLEAN
    BY DEF Commit, TypeOK
  <1>3. ASSUME op.kind \in {"createPolicy", "updatePolicy"}, op \in Operations
        PROVE  op.statements \subseteq Statements
               /\ (op.kind = "updatePolicy" => op.policy \in Policies)
    BY <1>3 DEF Operations
  <1>4. op.kind # "none" => op \in Operations
    BY <1>1 DEF NoOp
  <1>5. CASE TxCreatePolicy(op)
    BY <1>2, <1>3, <1>4, <1>5 DEF TxCreatePolicy, Link, Links, TypeOK
  <1>6. CASE TxUpdatePolicy(op)
    BY <1>2, <1>3, <1>4, <1>6 DEF TxUpdatePolicy, Link, Links, TypeOK
  <1>7. CASE TxDeletePolicy(op)
    BY <1>2, <1>7 DEF TxDeletePolicy, AttachedWithout, TypeOK
  <1>8. CASE TxUpdateStatement(op)
    <2>1. op.statement \in Statements
      BY <1>4, <1>8 DEF TxUpdateStatement, Operations
    <2> QED
      BY <1>2, <1>8, <2>1 DEF TxUpdateStatement, TypeOK
  <1>9. CASE TxDeleteStatement(op)
    <2>1. op.statement \in Statements
      BY <1>4, <1>9 DEF TxDeleteStatement, Operations
    <2> QED
      BY <1>2, <1>9, <2>1 DEF TxDeleteStatement, TypeOK
  <1>10. CASE TxGrant(op)
    <2>1. op.who \in Principals /\ op.policy \in Policies
      BY <1>4, <1>10 DEF TxGrant, Operations
    <2> QED
      BY <1>2, <1>10, <2>1 DEF TxGrant, TypeOK
  <1>11. CASE TxDeletePrincipal(op)
    BY <1>2, <1>11 DEF TxDeletePrincipal, TypeOK
  <1> QED
    BY <1>5, <1>6, <1>7, <1>8, <1>9, <1>10, <1>11 DEF Commit

LEMMA RequestTypeOK ==
  ASSUME TypeOK, NEW d \in Admins, Request(d)
  PROVE  TypeOK' /\ UNCHANGED <<tables, overtaken>>
  <1>1. PICK op \in Operations : Begin(d, op)
    BY DEF Request, CreatePolicy, UpdatePolicy, DeletePolicy, UpdateStatement,
           DeleteStatement, Grant, DeletePrincipal, Operations
  <1> QED
    BY <1>1, DirectoryAssumption DEF Begin, Count, TypeOK, tables

LEMMA NextTypeOK == TypeOK /\ [Next]_vars => TypeOK'
  <1> SUFFICES ASSUME TypeOK, [Next]_vars
               PROVE  TypeOK'
    OBVIOUS
  <1> USE DirectoryAssumption DEF RowStates
  <1>1. ASSUME NEW w \in Principals, CreatePrincipal(w)
        PROVE  TypeOK'
    BY <1>1 DEF CreatePrincipal, Count, TypeOK
  <1>2. ASSUME NEW w \in Principals, NEW P \in SUBSET Policies, Revoke(w, P)
        PROVE  TypeOK'
    BY <1>2 DEF Revoke, Count, TypeOK
  <1>3. ASSUME NEW s \in Statements, NEW limits \in BOOLEAN, CreateStatement(s, limits)
        PROVE  TypeOK'
    BY <1>3 DEF CreateStatement, Count, TypeOK
  <1>4. ASSUME NEW d \in Admins, Abandon(d)
        PROVE  TypeOK'
    BY <1>4 DEF Abandon, TypeOK, tables
  <1>5. CASE UNCHANGED vars
    BY <1>5 DEF TypeOK, vars, tables
  <1> QED
    BY <1>1, <1>2, <1>3, <1>4, <1>5, CommitTypeOK, RequestTypeOK DEF Next

\* Every table, request and history variable keeps its type.
THEOREM TypeCorrect == Spec => []TypeOK
  BY InitTypeOK, NextTypeOK, PTL DEF Spec

-----------------------------------------------------------------------------
\* A transaction whose request finds what it had checked keeps every reference
\* whole.
LEMMA CommitKeepsWhole ==
  ASSUME TypeOK, Whole, NEW d \in Admins, Commit(d), Checks(admin[d])
  PROVE  Whole'
  <1> DEFINE op == admin[d]
  <1> USE DEF TypeOK, Whole, Rows
  <1>op. op.kind # "none" => op \in Operations
    BY DEF NoOp
  <1>1. ASSUME NEW p \in Policies, NEW S \in SUBSET Statements, Link(p, S),
               S \subseteq Rows(statement), policy' = [policy EXCEPT ![p] = "row"]
        PROVE  Whole'
    <2>1. Rows(statement)' = Rows(statement) /\ Rows(policy)' = Rows(policy) \cup {p}
      BY <1>1 DEF Link
    <2>2. linked' \subseteq Rows(policy)' \X Rows(statement)'
      BY <1>1, <2>1 DEF Link, Links
    <2> QED
      BY <1>1, <2>1, <2>2 DEF Link
  <1>2. CASE TxCreatePolicy(op)
    BY <1>1, <1>2 DEF TxCreatePolicy, Checks
  <1>3. CASE TxUpdatePolicy(op)
    <2>1. policy' = [policy EXCEPT ![op.policy] = "row"] /\ op.policy \in Policies
      BY <1>3 DEF TxUpdatePolicy, Checks, Operations, NoOp
    <2> QED
      BY <1>1, <1>3, <2>1 DEF TxUpdatePolicy, Checks
  <1>4. CASE TxDeletePolicy(op)
    <2>1. Rows(policy)' = Rows(policy) \ {op.policy}
      BY <1>4 DEF TxDeletePolicy, Checks
    <2> QED
      BY <1>4, <2>1 DEF TxDeletePolicy, AttachedWithout
  <1>5. CASE TxUpdateStatement(op)
    <2>1. op.statement \in Statements /\ statement[op.statement] = "row"
      BY <1>5, <1>op DEF TxUpdateStatement, Checks, Operations
    <2> QED
      BY <1>5, <2>1 DEF TxUpdateStatement
  <1>6. CASE TxDeleteStatement(op)
    <2>1. Rows(statement)' = Rows(statement) \ {op.statement}
      BY <1>6 DEF TxDeleteStatement, Checks
    <2>2. \A x \in linked : x[2] # op.statement
      BY <1>6 DEF TxDeleteStatement, Checks, Unreferenced
    <2> QED
      BY <1>6, <2>1, <2>2 DEF TxDeleteStatement
  <1>7. CASE TxGrant(op)
    <2>1. /\ op.who \in Principals /\ principal[op.who] = "row"
          /\ op.policy \in Policies /\ policy[op.policy] = "row"
      BY <1>7, <1>op DEF TxGrant, Checks, Operations
    <2> QED
      BY <1>7, <2>1 DEF TxGrant
  <1>8. CASE TxDeletePrincipal(op)
    <2>1. Rows(principal)' = Rows(principal) \ {op.who}
      BY <1>8 DEF TxDeletePrincipal, Checks
    <2> QED
      BY <1>8, <2>1 DEF TxDeletePrincipal
  <1> QED
    BY <1>2, <1>3, <1>4, <1>5, <1>6, <1>7, <1>8 DEF Commit

\* References hold as long as no request was overtaken.
THEOREM ReferencesAreWhole == Spec => []ReferencesHold
  <1>1. Init => ReferencesHold
    BY DEF Init, ReferencesHold, Whole
  <1>2. TypeOK /\ ReferencesHold /\ [Next]_vars => ReferencesHold'
    <2> SUFFICES ASSUME TypeOK, ReferencesHold, [Next]_vars, ~overtaken'
                 PROVE  Whole'
      BY DEF ReferencesHold
    <2>1. ASSUME NEW w \in Principals, CreatePrincipal(w)
          PROVE  Whole'
      BY <2>1 DEF CreatePrincipal, ReferencesHold, Whole, Rows, TypeOK
    <2>2. ASSUME NEW w \in Principals, NEW P \in SUBSET Policies, Revoke(w, P)
          PROVE  Whole'
      BY <2>2 DEF Revoke, ReferencesHold, Whole, Rows
    <2>3. ASSUME NEW s \in Statements, NEW limits \in BOOLEAN, CreateStatement(s, limits)
          PROVE  Whole'
      BY <2>3 DEF CreateStatement, ReferencesHold, Whole, Rows, TypeOK
    <2>4. ASSUME NEW d \in Admins, Commit(d)
          PROVE  Whole'
      <3>1. ~overtaken /\ Checks(admin[d])
        BY <2>4 DEF Commit
      <3> QED
        BY <2>4, <3>1, CommitKeepsWhole DEF ReferencesHold
    <2>5. ASSUME NEW d \in Admins, Request(d)
          PROVE  Whole'
      BY <2>5, RequestTypeOK DEF ReferencesHold, Whole, Rows, tables
    <2>6. ASSUME NEW d \in Admins, Abandon(d)
          PROVE  Whole'
      BY <2>6 DEF Abandon, ReferencesHold, Whole, Rows, tables
    <2>7. CASE UNCHANGED vars
      BY <2>7 DEF ReferencesHold, Whole, Rows, vars, tables
    <2> QED
      BY <2>1, <2>2, <2>3, <2>4, <2>5, <2>6, <2>7 DEF Next
  <1> QED
    BY <1>1, <1>2, TypeCorrect, PTL DEF Spec

=============================================================================
