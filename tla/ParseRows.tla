----------------------------- MODULE ParseRows -----------------------------
(***************************************************************************)
(* The vocabulary of the parse vectors.  Every request type has, in JSON   *)
(* and in XML, a vector of nodes { path, treat function } (JsonNode and    *)
(* XmlNode).  A treat function works on the pointers of ParseData, called  *)
(* cursors here ("res" is the request itself): it may create an object,    *)
(* store its address in cursors and push it into a vector of another       *)
(* object, and it may store the value of the node in fields of an object.  *)
(* A row says which of these a node does:                                  *)
(*   path   the names from the root of the document to the node            *)
(*   up     the path of its parent                                         *)
(*   inner  the vector has nodes under it                                  *)
(*   to     the cursors that get the address of the object created         *)
(*   by     the cursor of the object into whose vector it is pushed        *)
(*   vec    the name of that vector                                        *)
(*   of     the cursor through which values are stored                     *)
(*   sets   the fields stored                                              *)
(*   safe   the treat function tests the cursor against NULL first         *)
(*   last   it leaves the address of the object in lastContextAttribute    *)
(*   bad    what it does with a value it finds invalid: "store" it,        *)
(*          "drop" it returning an error text, set the "error" string, or  *)
(*          "any": it accepts every value                                  *)
(*   loc    for the value of a scope, the scope types whose value is kept  *)
(*          in the area and not in the field                               *)
(***************************************************************************)
EXTENDS Sequences, Integers

(* A path of the document and the name of a child of its last node. *)
p & n == Append(p, n)

(* jsonNullTreat and nullTreat: the node is known and nothing is stored. *)
Null(p) ==
  [path |-> p, up |-> IF p = <<>> THEN p ELSE SubSeq(p, 1, Len(p) - 1),
   inner |-> FALSE, to |-> {}, by |-> "res", vec |-> "none", of |-> "res",
   sets |-> {}, safe |-> FALSE, last |-> FALSE, bad |-> "any", loc |-> {}]

(* ptr = new T(); by->vec.push_back(ptr) *)
New(p, ptr, by, vec) == [Null(p) EXCEPT !.to = {ptr}, !.by = by, !.vec = vec]

(* of->field = value *)
Put(p, of, field) == [Null(p) EXCEPT !.of = of, !.sets = {field}]

(* Children of p whose values go to the fields of the same name. *)
Puts(p, of, fields) == {Put(p & f, of, f) : f \in fields}

(* A value the treat function tests with isTrue and isFalse. *)
Bool(p, of, field, bad) == [Put(p, of, field) EXCEPT !.bad = bad]

(* The value of an attribute, which may be compound. *)
Value(p, of, field) == [Put(p, of, field) EXCEPT !.last = TRUE]

(* The value of a scope: kept in the area for the scope types of loc. *)
ScopeValue(p, loc) == [Put(p, "scopeP", "value") EXCEPT !.loc = loc]

(* entityIdParse(): the XML attributes type and isPattern of an entity are *)
(* stored when its node is treated; another attribute is an error.         *)
Entity(row, of, type, isPattern) ==
  [row EXCEPT !.of = of, !.sets = {type, isPattern}, !.bad = "error"]

(* A metadata: an object with name, type and value. *)
Metadata(p, ptr, by, vec) ==
  {New(p, ptr, by, vec)} \cup Puts(p, ptr, {"name", "type", "value"})

(* circle and polygon under the value v of a scope; the lists of vertices  *)
(* and their elements have other names in XML.                             *)
Area(v, vertices, vertex) ==
  LET polygon == v & "polygon"
      point   == polygon & vertices & vertex
  IN  {Put(v & "circle", "scopeP", "areaType"), Put(polygon, "scopeP", "areaType"),
       Bool(v & "circle" & "inverted", "scopeP", "circle.inverted", "error"),
       Bool(polygon & "inverted", "scopeP", "polygon.inverted", "error"),
       Null(polygon & vertices), New(point, "vertexP", "scopeP", "polygon.vertexList")}
      \cup Puts(v & "circle", "scopeP", {"centerLatitude", "centerLongitude", "radius"})
      \cup Puts(point, "vertexP", {"latitude", "longitude"})

FIWARE_LOCATION == "FIWARE::Location"
FIWARE_LOCATION_DEPRECATED == "FIWARE_Location"
Locations == {FIWARE_LOCATION, FIWARE_LOCATION_DEPRECATED}

(* The cursors of ParseData that rows use. *)
Cursors(rows) == UNION {r.to : r \in rows} \cup {r.by : r \in rows} \cup {r.of : r \in rows}

(* A parse vector with what the init and check functions beside it do. *)
Vector(rows, inits, looks) ==
  [rows  |-> {[r EXCEPT !.inner = \E q \in rows : q.up = r.path] : r \in rows},
   init  |-> inits,
   looks |-> looks]

(* The lists that hold the elements of rows: nodes with nothing to store. *)
Lists(paths) == {Null(path) : path \in paths}

(* The entities and the scopes that queries, discovery and subscriptions   *)
(* have in common.                                                         *)

JsonEntities(bad) ==
  {New(<<"entities", "entity">>, "entityIdP", "res", "entityIdVector"),
   Bool(<<"entities", "entity", "isPattern">>, "entityIdP", "isPattern", bad)}
  \cup Puts(<<"entities", "entity">>, "entityIdP", {"id", "type"})

JsonScopes(loc) ==
  Puts(<<>>, "res", {"restriction"}) \cup Puts(<<"restriction">>, "res", {"attributeExpression"})
  \cup {New(<<"restriction", "scopes", "scope">>, "scopeP", "res", "scopeVector"),
        Put(<<"restriction", "scopes", "scope", "type">>, "scopeP", "type"),
        ScopeValue(<<"restriction", "scopes", "scope", "value">>, loc)}

JsonLists == Lists({<<"entities">>, <<"attributes">>, <<"restriction", "scopes">>})

XmlEntities(root) ==
  {Entity(New(root & "entityIdList" & "entityId", "entityIdP", "res", "entityIdVector"),
          "entityIdP", "type", "isPattern"),
   [Put(root & "entityIdList" & "entityId" & "id", "entityIdP", "id") EXCEPT !.safe = TRUE]}

XmlScopes(root, loc) ==
  LET scope == root & "restriction" & "scope" & "operationScope" IN
  Puts(root, "res", {"restriction"}) \cup Puts(root & "restriction", "res", {"attributeExpression"})
  \cup {New(scope, "scopeP", "res", "scopeVector"),
        Put(scope & "scopeType", "scopeP", "type"), ScopeValue(scope & "scopeValue", loc)}

XmlLists(root) ==
  Lists({root, root & "entityIdList", root & "attributeList", root & "restriction" & "scope"})
=============================================================================
