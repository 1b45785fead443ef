------------------------ MODULE MCContextProviders --------------------------
(* Instances of ContextProviders for TLC. *)
EXTENDS ContextProviders, TLC

CONSTANTS p1, p2, s1

Ids == {"E1", "E2"}
AllIds == "E.*" :> Ids

T == "T"
En(id, type) == [id |-> id, type |-> type]
Ent(id, type, isPattern) == [id |-> id, type |-> type, isPattern |-> isPattern]
Subscribed(id, isPattern, spelled) == [id |-> id, type |-> T, isPattern |-> isPattern, spelled |-> spelled]
Cr(entities, spelled, attrs, prApp, assocs) ==
  [entities |-> entities, spelled |-> spelled, attrs |-> attrs, prApp |-> prApp, assocs |-> assocs]
Register(crs, path, duration) == [crs |-> crs, servicePath |-> path, duration |-> duration]

Root == <<>>
PathA == <<"a">>

Link == [name |-> "L", source |-> En("E1", T), target |-> En("E2", T), attrs |-> {[source |-> "x", target |-> "x"]}]
Link2 == [Link EXCEPT !.name = "L2", !.source = En("E2", T)]

\* Both entities, one entity of a type and without one, two context registrations in one
\* registration, associations; two providers and one whose URL is bad; isPattern is left
\* out for one entity of two, and for the only one.
Registers3 ==
  {Register(<<Cr({En("E1", T), En("E2", T)}, {En("E1", T)}, {"x"}, "P", {Link, Link2})>>, Root, 0),
   Register(<<Cr({En("E1", T)}, {}, {}, "Q", {})>>, Root, 1),
   Register(<<Cr({En("E1", "")}, {En("E1", "")}, {"x"}, "bad", {Link}),
              Cr({En("E1", T), En("E2", T)}, {En("E1", T), En("E2", T)}, {"y"}, "Q", {})>>, PathA, 0)}

Avails ==
  {[entities |-> {Subscribed("E1", FALSE, TRUE), Subscribed("E2", FALSE, FALSE)}, attrs |-> {}, duration |-> 1],
   [entities |-> {Subscribed("E.*", TRUE, TRUE)}, attrs |-> {"x"}, duration |-> 0]}

Discover(entities, attrs, paths, scope, limit) ==
  [entities |-> entities, attrs |-> attrs, paths |-> paths, scope |-> scope, offset |-> 0, limit |-> limit]

Discovers ==
  {Discover({Ent("E1", T, FALSE)}, {}, {Root}, "", 2),
   Discover({Ent("E.*", "", TRUE)}, {"x"}, {}, "", 2),
   Discover({Ent("E2", T, FALSE)}, {"x"}, {}, "SOURCES", 2),
   Discover({Ent("E2", T, FALSE)}, {"x"}, {}, "ALL", 2)}

Queries ==
  {[entities |-> {Ent("E1", T, FALSE)}, attrs |-> {"x"}, paths |-> {}],
   [entities |-> {Ent("E2", "", FALSE)}, attrs |-> {"x"}, paths |-> {Root}]}

El(id, type, attr, flaw) == [id |-> id, type |-> type, attr |-> attr, flaw |-> flaw]

\* Elements with and without a type, an attribute that is not there, every flaw; the append
\* makes two entities of one id.
Updates ==
  {[action |-> "update", elements |-> <<El("E1", T, "x", "none"), El("E2", "", "x", "none")>>, path |-> Root],
   [action |-> "update", elements |-> <<El("E1", T, "x", "none"), El("E2", T, "x", "none")>>, path |-> PathA],
   [action |-> "update", elements |-> <<El("E1", T, "x", "empty"), El("E1", "", "x", "none"), El("E2", T, "x", "none")>>, path |-> Root],
   [action |-> "update", elements |-> <<El("E2", T, "y", "located"), El("E1", T, "x", "pattern")>>, path |-> Root],
   [action |-> "append", elements |-> <<El("E2", "U", "y", "none"), El("E1", T, "x", "none"), El("E2", "", "z", "empty")>>, path |-> Root]}

Locals == {<<"E2", T>> :> {"y"}}

Symmetry == Permutations({p1, p2})
=============================================================================
