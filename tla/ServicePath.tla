---------------------------- MODULE ServicePath -----------------------------
(***************************************************************************)
(* Service paths: how the path of a request selects subscriptions, and the *)
(* entities of a query or of an update.  A path is the sequence of its     *)
(* components: "/" is <<>>, "/a/b" is <<"a", "b">>, "/a/#" is              *)
(* <<"a", "#">>, and "//a", which the checks let through, is <<"", "a">>.  *)
(* NoPath stands for a document without the field, and for a request whose *)
(* service path header is empty.                                           *)
(*                                                                         *)
(* A regular expression is modelled by the paths it matches.               *)
(***************************************************************************)
EXTENDS SequenceOps

CONSTANTS
  Component,  \* names of path components
  Longer,     \* the pairs <<c, d>> where d is c and more characters, as <<"a", "ab">>
  MaxLevels,  \* components of a path, the final "#" included (10 in the code)
  NoPath

ASSUME PathAssumption ==
  /\ "#" \notin Component
  /\ Longer \subseteq Component \X Component
  /\ \A x, y \in Longer : x[1] # x[2] /\ (x[2] = y[1] => <<x[1], y[2]>> \in Longer)
  /\ MaxLevels \in Nat
  /\ NoPath \notin Seq(Component \cup {"#"})

EndsInHash(p) == p # <<>> /\ Last(p) = "#"

\* stringSplit skips every leading separator.
stringSplit(p) ==
  LET start == CHOOSE i \in 1 .. Len(p) + 1 :
                 /\ i <= Len(p) => p[i] # ""
                 /\ \A j \in 1 .. i - 1 : p[j] = ""
  IN  SubSeq(p, start, Len(p))

\* removeTrailingSlash drops every trailing separator but the root's.
removeTrailingSlash(p) ==
  LET end == CHOOSE i \in 0 .. Len(p) :
               /\ i > 0 => p[i] # ""
               /\ \A j \in i + 1 .. Len(p) : p[j] = ""
  IN  SubSeq(p, 1, end)

\* servicePathCheck of rest.cpp, for every request that carries the header.
restServicePathCheck(p) ==
  LET c == stringSplit(p)
  IN  /\ Len(c) <= MaxLevels
      /\ \A i \in 1 .. Len(c) : c[i] = "#" => i = Len(c)

\* servicePathCheck of string.cpp, for the standard update and register
\* operations only.
servicePathCheck(p) == \A i \in 1 .. Len(p) : p[i] # "#"

\* The paths that may reach the operations.
RequestPath ==
  {removeTrailingSlash(p) :
     p \in {q \in BoundedSeq(Component \cup {"#"}, MaxLevels) : restServicePathCheck(q)}}

\* The list of prefixes without the last one.
RegexWithoutLastLevel(p) ==
  LET c == IF p = NoPath THEN <<>> ELSE stringSplit(p)
  IN  IF c = <<>> THEN {<<"#">>, <<>>}
                  ELSE {<<"#">>, c} \cup {Append(SubSeq(c, 1, i), "#") : i \in 1 .. Len(c) - 1}

\* servicePathSubscriptionRegex: the paths of the subscriptions that an update
\* under p triggers.
servicePathSubscriptionRegex(p) ==
  LET c == IF p = NoPath THEN <<>> ELSE stringSplit(p)
  IN  IF c = <<>> THEN {<<"#">>, <<>>}
                  ELSE {<<"#">>, c} \cup {Append(SubSeq(c, 1, i), "#") : i \in 1 .. Len(c)}

\* addTriggeredSubscriptions adds null to the list of paths.
Triggers(p, subscribed) ==
  subscribed = NoPath \/ subscribed \in servicePathSubscriptionRegex(p)

\* One element of the list built by fillQueryServicePath: does it match the
\* path e of an entity?
QueryPathMatches(p, e) ==
  \/ e = NoPath /\ p \in {<<>>, <<"#">>}
  \/ e # NoPath /\ ~EndsInHash(p) /\ e = p
  \/ e # NoPath /\ EndsInHash(p) /\ IsPrefix(Front(p), e)

\* fillQueryServicePath: no service path at all selects everything.
fillQueryServicePath(paths, e) ==
  paths = {} \/ \E p \in paths : QueryPathMatches(p, e)

\* The query of processContextElement: an update under p changes the entities
\* under p and below, but the root's expression "^\/$|^\/\/.*" is special.
FindMatches(p, e) ==
  IF p = NoPath THEN e = NoPath
  ELSE /\ e # NoPath
       /\ IF p = <<>> THEN e = <<>> \/ Head(e) = "" ELSE IsPrefix(p, e)

\* The query of the update() that stores the result for an entity under p: the
\* expression is not anchored, so it matches every path whose text contains the text
\* of p, and "/a" is found in "/b/a", in "/a/b" and in "/ab".
WriteMatches(p, e) ==
  IF p = NoPath THEN e = NoPath
  ELSE e # NoPath /\ \E i \in 0 .. Len(e) - Len(p) : \A j \in 1 .. Len(p) :
         p[j] = e[i + j] \/ (j = Len(p) /\ <<p[j], e[i + j]>> \in Longer)

=============================================================================
