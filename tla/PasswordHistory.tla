---------------------------- MODULE PasswordHistory ----------------------------
(***************************************************************************)
(* The password of one account, and the history that keeps it from being   *)
(* used again.  Source: logic/password.go, logic/account.go,               *)
(* logic/auth.go.                                                          *)
(*                                                                         *)
(* A change of the password reads the row, asks CheckPasswordReuse (two    *)
(* queries), and remembers the old password and stores the new one in one  *)
(* transaction.  Other requests run between these steps.  No statement     *)
(* concerns two accounts.  The refresh tokens that the transaction revokes *)
(* are in Sessions, the cache key it deletes in AccountAccess.             *)
(***************************************************************************)
EXTENDS Naturals, Sequences

CONSTANTS
  Passwords,
  NoPassword,
  Changes,       \* goroutines that change the password
  HistoryCount,  \* password_policy.history_count
  MaxChanges     \* bound on the number of changes

ASSUME PasswordHistoryAssumption ==
  /\ NoPassword \notin Passwords
  /\ HistoryCount \in Nat
  /\ MaxChanges \in Nat

VARIABLES
  standing,  \* "enabled", "disabled" or "deleted"
  password,  \* what the hash in the row was made from
  history,   \* q_iam_password_history of the account, the newest last
  change,    \* change[c]: progress and local variables of a request
  \* History, read by no step of the code:
  past,      \* every password the account has had, the current one last
  since      \* where in past the last change is that overlapped another one

vars == <<standing, password, history, change, past, since>>

-----------------------------------------------------------------------------
\* old and new: the password read and the wanted one.  fresh, a history field:
\* nobody else has changed the password since it was read.
ChangeRecord ==
  [pc : {"idle", "current", "history", "commit"}, old : Passwords \cup {NoPassword},
   new : Passwords \cup {NoPassword}, fresh : BOOLEAN]
NoChange == [pc |-> "idle", old |-> NoPassword, new |-> NoPassword, fresh |-> FALSE]

At(c, pc) == change[c].pc = pc
Present == standing # "deleted"

Init ==
  /\ standing = "enabled"
  /\ password \in Passwords
  /\ history = <<>>
  /\ change = [c \in Changes |-> NoChange]
  /\ past = <<password>>
  /\ since = 1

-----------------------------------------------------------------------------
\* With history_count = 0 nothing is checked.
Begin(c, p) ==
  /\ At(c, "idle") /\ Len(past) <= MaxChanges
  /\ change' = [change EXCEPT ![c] =
       [pc |-> IF HistoryCount = 0 THEN "commit" ELSE "current",
        old |-> password, new |-> p, fresh |-> TRUE]]
  /\ UNCHANGED <<standing, password, history, past, since>>

\* The account's own form: it must be enabled.  The old password in the form is
\* compared with what was just read; a wrong one ends the request.
ChangeOwnPassword(c, p) == standing = "enabled" /\ Begin(c, p)

\* The administrator's ChangePassword and ResetPassword: any account there is.
SetPassword(c, p) == Present /\ Begin(c, p)

\* Goes on to pc if the new password passes, and ends otherwise.
GoOnIf(c, passes, pc) ==
  /\ change' = [change EXCEPT ![c] = IF passes THEN [@ EXCEPT !.pc = pc] ELSE NoChange]
  /\ UNCHANGED <<standing, password, history, past, since>>

\* CheckPasswordReuse, first query: the current password, read again.
CheckCurrent(c) ==
  /\ At(c, "current")
  /\ GoOnIf(c, Present /\ password # change[c].new, "history")

\* Second query: the remembered passwords.
CheckHistory(c) ==
  /\ At(c, "history")
  /\ GoOnIf(c, \A i \in DOMAIN history : history[i] # change[c].new, "commit")

\* Variant: all rows are kept.
Variant_KeepAll(h) == h

\* Variant: the row just inserted is not counted among those to keep.
Variant_KeepOneLess(h) ==
  IF Len(h) < HistoryCount THEN h ELSE SubSeq(h, Len(h) - HistoryCount + 2, Len(h))

\* Only the newest HistoryCount rows are kept.
Kept(h) ==
  IF Len(h) <= HistoryCount THEN h ELSE SubSeq(h, Len(h) - HistoryCount + 1, Len(h))

\* c is done, and nobody else's reading of the password is fresh any more.
Done(c) ==
  change' = [d \in Changes |->
    IF d = c THEN NoChange ELSE [change[d] EXCEPT !.fresh = FALSE]]

\* RememberPassword and the update of the row.  What is remembered is the
\* password that was read when the request began.
Commit(c) ==
  /\ At(c, "commit") /\ Present
  /\ history' = Kept(Append(history, change[c].old))
  /\ password' = change[c].new
  /\ past' = Append(past, change[c].new)
  /\ since' = IF change[c].fresh THEN since ELSE Len(past) + 1
  /\ Done(c)
  /\ UNCHANGED standing

\* The account was deleted meanwhile: the UPDATE finds no row, but the old
\* password is remembered all the same.
CommitDeleted(c) ==
  /\ At(c, "commit") /\ ~Present
  /\ history' = Kept(Append(history, change[c].old))
  /\ Done(c)
  /\ UNCHANGED <<standing, password, past, since>>

\* The request's context is cancelled, or the process stops.
Abandon(c) ==
  /\ ~At(c, "idle")
  /\ change' = [change EXCEPT ![c] = NoChange]
  /\ UNCHANGED <<standing, password, history, past, since>>

\* Account update with a status.
SetStatus(s) ==
  /\ Present
  /\ standing' = s
  /\ UNCHANGED <<password, history, change, past, since>>

\* The row goes, and its history with it.
Delete ==
  /\ Present
  /\ standing' = "deleted"
  /\ history' = <<>>
  /\ UNCHANGED <<password, change, past, since>>

-----------------------------------------------------------------------------
ChangeStep(c) ==
  \/ \E p \in Passwords : ChangeOwnPassword(c, p) \/ SetPassword(c, p)
  \/ CheckCurrent(c)
  \/ CheckHistory(c)
  \/ Commit(c)
  \/ CommitDeleted(c)
  \/ Abandon(c)

Next ==
  \/ \E c \in Changes : ChangeStep(c)
  \/ \E s \in {"enabled", "disabled"} : SetStatus(s)
  \/ Delete

Spec == Init /\ [][Next]_vars

-----------------------------------------------------------------------------
(* Properties *)

TypeOK ==
  /\ standing \in {"enabled", "disabled", "deleted"}
  /\ password \in Passwords
  /\ history \in Seq(Passwords)
  /\ Len(history) <= HistoryCount
  /\ change \in [Changes -> ChangeRecord]
  /\ past \in Seq(Passwords) \ {<<>>}
  /\ since \in 1..Len(past)

\* A new password is none of the last HistoryCount + 1 the account has had
\* (password.go:92): the current one and those remembered.  Of two changes that
\* overlap, the second remembers what both have read and not what the first has
\* stored (account.go:476), so this holds from the last such change on.
NoRecentReuse ==
  \A i, j \in since..Len(past) :
    HistoryCount > 0 /\ i < j /\ j <= i + HistoryCount + 1 => past[i] # past[j]
=============================================================================
