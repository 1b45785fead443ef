--------------------------- MODULE MCUpdateContext ---------------------------
(* Instances of UpdateContext for TLC. *)
EXTENDS EntityQueries

Attr(n, i, t, v, m, l) == [name |-> n, id |-> i, type |-> t, value |-> v, md |-> m, loc |-> l]

Md(t, v) == {[name |-> "m", type |-> t, value |-> v]}

UpToTwo(S) == {<<>>} \cup {<<a>> : a \in S} \cup {<<a, b>> : a, b \in S}

Requests(actions, types, paths, vectors, patterns, filters) ==
  [action : actions, type : types, path : paths, attrs : vectors,
   isPattern : patterns, notExist : filters, caller : Caller]

\* One entity; attributes with metadata, ids, a location, a compound and an empty value.
OneType == {"T"}
OnePath == {<<"a">>}
AttrRequests ==
  LET A == {Attr("x", "", "t", "1", Md("", "1"), ""), Attr("x", "", "t", "1", Md("t", "1"), ""),
            Attr("x", "i", "t", "1", {}, ""), Attr("y", "", "t", "{}", {}, ""),
            Attr("p", "", "t", "c1", {}, "WGS84"), Attr("p", "", "t", "c2", {}, "")}
      Single == {Attr("p", "", "t", "1", {}, ""), Attr("x", "", "t", "", {}, "")}
  IN  {r \in Requests(Action, OneType, OnePath, UpToTwo(A) \cup {<<a>> : a \in Single},
                         {FALSE}, {FALSE}) :
         r.caller = "postUpdateContext" => r.action = "update"}

\* Entities with and without type, under the root and a path, and ones with a type
\* under a path below it and under a path whose text begins with it.
OneLonger == {<<"a", "ab">>}
TwoTypes == {"", "T"}
FourPaths == {<<>>, <<"a">>, <<"a", "b">>, <<"ab">>}
EntityRequests ==
  LET One == <<Attr("x", "", "", "1", {}, "")>>
      V   == {<<>>, One, <<Attr("x", "", "", "2", {}, "")>>}
  IN  {r \in Requests(Action, TwoTypes, FourPaths, V, BOOLEAN, BOOLEAN) :
         /\ r.caller = "postUpdateContext" => r.action = "update"
         /\ r.action = "delete" => r.attrs \in {<<>>, One}
         /\ r.notExist => r.action = "append" /\ r.attrs = One
         /\ r.isPattern => r.attrs = <<>> /\ r.path = <<>>
         /\ r.path \in {<<"a", "b">>, <<"ab">>} =>
              r.type = "T" /\ r.action = "append" /\ Len(r.attrs) = 1 /\ ~r.notExist}
=============================================================================
