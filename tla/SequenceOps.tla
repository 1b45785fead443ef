---------------------------- MODULE SequenceOps -----------------------------
(***************************************************************************)
(* The operators on sequences that the specifications with proofs use, and *)
(* no others: SequencesExt has them as well, but brings in Bags and TLC,   *)
(* and every obligation of a proof pays for all the definitions in scope.  *)
(***************************************************************************)
EXTENDS Integers, Sequences, FiniteSets

ToSet(s) == {s[i] : i \in DOMAIN s}

IsPrefix(s, t) == Len(s) <= Len(t) /\ \A i \in DOMAIN s : s[i] = t[i]

Front(s) == SubSeq(s, 1, Len(s) - 1)

Last(s) == s[Len(s)]

\* The sequences of at most n elements of S.
BoundedSeq(S, n) == UNION {[1 .. k -> S] : k \in 0 .. n}

RemoveAt(s, i) == SubSeq(s, 1, i - 1) \o SubSeq(s, i + 1, Len(s))

\* The sequences of ss one after the other.
FlattenSeq(ss) ==
  IF ss = <<>> THEN <<>> ELSE
    LET first[n \in 1 .. Len(ss)] == IF n = 1 THEN ss[n] ELSE first[n - 1] \o ss[n]
    IN  first[Len(ss)]

\* The elements of a finite set in some order.
SetToSeq(S) == CHOOSE s \in [1 .. Cardinality(S) -> S] : ToSet(s) = S
=============================================================================
