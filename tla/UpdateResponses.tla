-------------------------- MODULE UpdateResponses ---------------------------
(***************************************************************************)
(* The responses to the elements of an update, and what postUpdateContext  *)
(* removes of them before it forwards.                                     *)
(***************************************************************************)
EXTENDS SequenceOps

ElementResponse(k, code, prApp) == [elem |-> k, code |-> code, prApp |-> prApp]

\* One pass of the loop that removes the garbage: the 472 before a 302, the 404 after
\* a 472.
RemovePass(s) ==
  LET v == s.v
      ix == s.ix
  IN  IF ix >= Len(v) THEN s
      ELSE IF v[ix].code = 472 /\ v[ix + 1].code = 302 THEN [v |-> RemoveAt(v, ix), ix |-> ix + 1]
      ELSE IF v[ix].code = 472 /\ v[ix + 1].code = 404 THEN [v |-> RemoveAt(v, ix + 1), ix |-> ix + 2]
      ELSE [s EXCEPT !.ix = ix + 1]

\* Every pass advances: there are at most as many as responses.
removeGarbage(v) ==
  LET Loop[n \in 0 .. Len(v)] == IF n = 0 THEN [v |-> v, ix |-> 1] ELSE RemovePass(Loop[n - 1])
  IN  Loop[Len(v)].v

\* The garbage stays.
KeepGarbage(v, r) == v

cleanResponses(v, r) == IF Len(v) = Len(r.elements) THEN v ELSE removeGarbage(v)

FoundResponses(v) == {ix \in DOMAIN v : v[ix].code = 302}

\* The elements with a response SccInvalidParameter.
InvalidParameter(v) == {v[ix].elem : ix \in {jx \in DOMAIN v : v[jx].code = 472}}
=============================================================================
