------------------------------ MODULE GlobMatch ------------------------------
(***************************************************************************)
(* globMatch, the wildcard match under every permission decision and scope *)
(* filter, as the loop it is: one step for the ends, one per middle part.  *)
(* Source: logic/permission.go.                                            *)
(*                                                                         *)
(* A pattern is given by its parts, strings.Split(pattern, "*"): n parts   *)
(* stand for n-1 stars, so a pattern with a star has at least two.  Parts  *)
(* and subject are sequences of symbols.                                   *)
(***************************************************************************)
EXTENDS Naturals, Sequences

CONSTANTS
  Symbols,
  Parts,      \* the parts patterns are made of
  Subjects,   \* the actions or resources to match
  MaxParts    \* bound on the number of parts

ASSUME GlobMatchAssumption ==
  /\ Parts \subseteq Seq(Symbols)
  /\ Subjects \subseteq Seq(Symbols)
  /\ MaxParts \in Nat

VARIABLES
  parts,    \* the pattern
  subject,  \* what to match, s in the code
  part,     \* number of the part to look at next
  pos,      \* how much of subject is matched so far
  result    \* "running", "match" or "no match"

globVars == <<parts, subject, part, pos, result>>

-----------------------------------------------------------------------------
\* w occurs in subject after its first p symbols.
OccursAt(w, p) == p + Len(w) <= Len(subject) /\ SubSeq(subject, p + 1, p + Len(w)) = w

HasPrefix(w) == OccursAt(w, 0)
HasSuffix(w) == Len(w) <= Len(subject) /\ OccursAt(w, Len(subject) - Len(w))

Places(w) == {p \in pos..Len(subject) : OccursAt(w, p)}

\* Variant: the last occurrence (strings.LastIndex).
Variant_IsIndex(w, p) == p \in Places(w) /\ \A r \in Places(w) : r <= p

\* p is the place of the first occurrence of w from pos on (strings.Index).
IsIndex(w, p) == p \in Places(w) /\ \A r \in Places(w) : p <= r

GlobInit ==
  /\ parts \in UNION {[1..n -> Parts] : n \in 1..MaxParts}
  /\ subject \in Subjects
  /\ part = 1 /\ pos = 0
  /\ result = "running"

Return(r) == result' = r /\ UNCHANGED <<parts, subject, part, pos>>

\* A pattern without a star is compared as it is.
Compare ==
  /\ result = "running" /\ Len(parts) = 1
  /\ \/ parts[1] = subject /\ Return("match")
     \/ parts[1] # subject /\ Return("no match")

\* Variant: only the suffix is tested.
Variant_EndsMatch == HasSuffix(parts[Len(parts)])

\* The text before the first star and the text after the last one.
EndsMatch == HasPrefix(parts[1]) /\ HasSuffix(parts[Len(parts)])

CheckEnds ==
  /\ result = "running" /\ Len(parts) > 1 /\ part = 1
  /\ \/ /\ EndsMatch
        /\ part' = 2 /\ pos' = Len(parts[1])
        /\ UNCHANGED <<parts, subject, result>>
     \/ ~EndsMatch /\ Return("no match")

\* The loop body: find the next middle part.  An empty part is found at pos.
FindPart ==
  /\ result = "running" /\ 1 < part /\ part < Len(parts)
  /\ \/ \E p \in Places(parts[part]) :
          /\ IsIndex(parts[part], p)
          /\ part' = part + 1 /\ pos' = p + Len(parts[part])
          /\ UNCHANGED <<parts, subject, result>>
     \/ Places(parts[part]) = {} /\ Return("no match")

\* After the loop.
Finish ==
  /\ result = "running" /\ Len(parts) > 1 /\ part = Len(parts)
  /\ Return("match")

GlobNext == Compare \/ CheckEnds \/ FindPart \/ Finish

GlobSpec == GlobInit /\ [][GlobNext]_globVars

-----------------------------------------------------------------------------
\* Reference: a star stands for any text, so the parts lie in subject one after
\* the other, the first at its beginning and the last at its end.
Placement(at) ==
  /\ at[1] = 0
  /\ \A j \in 1..Len(parts) : OccursAt(parts[j], at[j])
  /\ \A j \in 1..Len(parts) - 1 : at[j] + Len(parts[j]) <= at[j + 1]
  /\ at[Len(parts)] + Len(parts[Len(parts)]) = Len(subject)

Matches == \E at \in [1..Len(parts) -> 0..Len(subject)] : Placement(at)

-----------------------------------------------------------------------------
\* A rule is never missed: what the wildcard covers is matched, because taking
\* the first place for each part leaves the most room for the rest.
NoMatchMissed == result = "no match" => ~Matches

\* A match is right whenever the parts found from the left end before the last
\* part begins; so "*" and patterns with a single star at their end, such as iam:*
\* (oauth.go:627), are matched exactly.
RoomForLast == pos + Len(parts[Len(parts)]) <= Len(subject)
MatchIsRight == result = "match" /\ (Len(parts) = 1 \/ RoomForLast) => Matches
=============================================================================
