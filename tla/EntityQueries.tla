---------------------------- MODULE EntityQueries ----------------------------
(***************************************************************************)
(* What clients read of the entities that UpdateContext writes:            *)
(* queryContext and the bodies of the notifications (entitiesQuery), the   *)
(* list of entity types and the attributes of one type (mongoQueryTypes),  *)
(* and notifyContext, by which another broker stores what it is notified   *)
(* of.                                                                     *)
(*                                                                         *)
(* The readers hold reqSem and change nothing, so they are operators on    *)
(* the collection between two updates.  The answers that the database may  *)
(* give in any order are sets; what depends on that order is a set of      *)
(* possible answers.                                                       *)
(***************************************************************************)
EXTENDS UpdateContext

CONSTANT Null   \* the null that the projection of the aggregation puts in

\* No area at all can be told from an area.
ASSUME AreaAssumption == None \notin [coords : SUBSET STRING, inverted : BOOLEAN]

Present == {k \in Key : entities[k] # None}

-----------------------------------------------------------------------------
(* entitiesQuery.  A query has a type ("" for none), the service paths, the *)
(* attribute list, the existence filter on types and an area: the coords   *)
(* in it, inverted or not, or None.                                        *)

EntityQuery(type, paths, attrL, notExist, area) ==
  [type |-> type, paths |-> paths, attrL |-> attrL, notExist |-> notExist, area |-> area]

\* The type of the entity is not looked at.
AnyEntity(q, k) == TRUE

\* One element of the $or of the query.
fillQueryEntity(q, k) == q.type # "" => k.type = q.type

\* $geoWithin needs a location, and its negation holds without one.
processAreaScope(area, doc) ==
  LET within == doc.locAttr # "" /\ doc.coords \in area.coords
  IN  IF area.inverted THEN ~within ELSE within

\* FIWARE::Filter::Existence with the operator "Not".
addFilterScope(q, k) == q.notExist => k.type = ""

includedContextAttribute(a, attrL) == attrL = {} \/ a.name \in attrL

\* The keys of the documents that the query selects.
Hits(q) ==
  {k \in Present :
     /\ fillQueryEntity(q, k)
     /\ fillQueryServicePath(q.paths, k.path)
     /\ q.attrL # {} => \E i \in DOMAIN entities[k].attrs : entities[k].attrs[i].name \in q.attrL
     /\ q.area # None => processAreaScope(q.area, entities[k])
     /\ addFilterScope(q, k)}

\* The ID of the attribute is not among the metadata.
AttributeWithoutId(doc, a) ==
  [name |-> a.name, id |-> "", type |-> a.type, value |-> a.value,
   md   |-> {[m EXCEPT !.type = IF @ = NoType THEN "" ELSE @] : m \in a.md},
   loc  |-> IF doc.locAttr = a.name THEN "WGS84" ELSE ""]

\* An attribute of the answer: its ID and its location are put among the metadata,
\* and a metadata without type is given an empty one.
AttributeResponse(doc, a) ==
  [name |-> a.name, id |-> a.id, type |-> a.type, value |-> a.value,
   md   |-> {[m EXCEPT !.type = IF @ = NoType THEN "" ELSE @] : m \in a.md},
   loc  |-> IF doc.locAttr = a.name THEN "WGS84" ELSE ""]

\* The attributes of the answer for a document; includeEmpty leaves the empty values in.
AttributesResponse(doc, attrL, includeEmpty) ==
  LET included == SelectSeq(doc.attrs, LAMBDA a : /\ includedContextAttribute(a, attrL)
                                                  /\ includeEmpty \/ a.value # "")
  IN  [i \in DOMAIN included |-> AttributeResponse(doc, included[i])]

entitiesQuery(q, includeEmpty) ==
  [k \in Hits(q) |-> AttributesResponse(entities[k], q.attrL, includeEmpty)]

\* A query is answered with what the database has, with a provider that
\* registrationsQuery finds, or with not found.
mongoQueryContext(q, providers) ==
  CASE Hits(q) # {} -> [code |-> "ok", cerV |-> entitiesQuery(q, TRUE), prApp |-> None]
    [] Hits(q) = {} /\ providers # {} ->
         [code |-> "found", cerV |-> <<>>, prApp |-> CHOOSE p \in providers : TRUE]
    [] OTHER -> [code |-> "notFound", cerV |-> <<>>, prApp |-> None]

\* mongoNotifyContext: APPEND of each element of the notification at a broker that
\* has not the entity yet; the result of processContextElement is not looked at.
mongoNotifyContext(cav) ==
  IF /\ \A i \in DOMAIN cav : cav[i].value # ""
     /\ legalIdUsageOfNew(cav)
     /\ processLocation(cav)
  THEN NewEntity(cav) ELSE None

-----------------------------------------------------------------------------
(* mongoEntityTypes and mongoAttributesForEntityType.                      *)

Matched(paths) == {k \in Present : fillQueryServicePath(paths, k.path)}

\* $project of name and type.
Projected(doc) == {[name |-> a.name, type |-> a.type] : a \in ToSet(doc.attrs)}

\* $project without $cond: an empty array makes no document when it is unwound.
NotNulled(doc) == Projected(doc)

\* $project with $cond: null instead of an empty array.
Nulled(doc) == IF doc.attrs = <<>> THEN {Null} ELSE Projected(doc)

\* $unwind and $group by type, where an entity without type is of type "".
Grouped(paths) ==
  LET unwound == UNION {{<<k.type, a>> : a \in Nulled(entities[k])} : k \in Matched(paths)}
  IN  [t \in {u[1] : u \in unwound} |-> {u[2] : u \in {v \in unwound : v[1] = t}}]

\* The loop from offset up to the smaller of the size and offset + limit.
Page(seq, offset, limit) ==
  SubSeq(seq, offset + 1, IF offset + limit < Len(seq) THEN offset + limit ELSE Len(seq))

\* $addToSet leaves the attributes in any order; when null comes first none is taken.
TypeAttributes(group) ==
  {group \ {Null}} \cup IF Null \in group THEN {{}} ELSE {}

\* The possible answers of mongoEntityTypes: sequences of types with attributes.
mongoEntityTypes(paths, offset, limit) ==
  LET group == Grouped(paths)
      types == Page(SetToSeq(DOMAIN group), offset, limit)
  IN  {[i \in DOMAIN types |-> [type |-> types[i], attrs |-> f[types[i]]]] :
         f \in {g \in [ToSet(types) -> UNION {TypeAttributes(group[t]) : t \in ToSet(types)}] :
                  \A t \in ToSet(types) : g[t] \in TypeAttributes(group[t])}}

\* $match of the type does not find the entities without type.
mongoAttributesForEntityType(entityType, paths, offset, limit) ==
  Page(SetToSeq(UNION {Projected(entities[k]) :
                         k \in {j \in Matched(paths) : j.type = entityType /\ entityType # ""}}),
       offset, limit)

-----------------------------------------------------------------------------
(* Properties.                                                             *)

\* The documents a subscriber can rebuild: no empty value that an update() left, no
\* blank attribute, and a location that is the value of its attribute.
Rebuildable(doc) ==
  /\ \A i \in DOMAIN doc.attrs : doc.attrs[i].value # "" /\ doc.attrs[i].name # ""
  /\ \A i \in DOMAIN doc.attrs : doc.attrs[i].name = doc.locAttr => doc.attrs[i].value = doc.coords
  /\ Cardinality({i \in DOMAIN doc.attrs : doc.attrs[i].name = doc.locAttr}) <= 1

Normal(doc) ==
  [doc EXCEPT !.attrs = [i \in DOMAIN @ |-> [@[i] EXCEPT !.md =
                           {[m EXCEPT !.type = IF @ = NoType THEN "" ELSE @] : m \in @}]]]

\* "the notifyContext is processed as an updateContext" (entitiesQuery): whatever
\* requests have made of an entity, a broker that is notified of all its attributes and
\* does not have it yet accepts it and stores the same entity, with ids, location,
\* compound values and metadata. (The exceptions are those of Rebuildable.)
FederatedCopy ==
  pc = "idle" => \A k \in Present : Rebuildable(entities[k]) =>
    mongoNotifyContext(AttributesResponse(entities[k], {}, FALSE)) = Normal(entities[k])

AreaOf(value, inverted) ==
  EntityQuery(req.type, {req.path}, {}, FALSE, [coords |-> {value}, inverted |-> inverted])

\* The request attributes that no later one of the same name follows.
LastNamed(cav) ==
  {cav[i] : i \in {j \in DOMAIN cav : \A l \in j + 1 .. Len(cav) : cav[l].name # cav[j].name}}

\* Once an UPDATE or an APPEND of the attribute with the location is answered with SccOk,
\* and has changed the entity, a query for the area around its new value finds the entity
\* and one for everything outside it does not: location.coords, which is kept beside the
\* attributes, has followed.
\* (APPEND renews it only when the request has the location metadata; an
\* UPDATE with the value that the attribute has leaves it as such an APPEND left it. Of
\* several attributes of that name in one request the last one counts, whatever the IDs.)
\* And a location always names an attribute that the entity has, also after a DELETE.
AreaFollowsUpdate ==
  /\ \A k \in Present : entities[k].locAttr # "" =>
       \E a \in AttrsOf(entities[k]) : a.name = entities[k].locAttr
  /\ pc = "reply" /\ req.action # "delete" => \A k \in Present \cap Selected(req) :
       \A ca \in LastNamed(req.attrs) :
         /\ Answered(k, {"ok"}) /\ ca.name = entities[k].locAttr
         /\ req.action = "update" \/ ca.loc # ""
         /\ entities[k] # pre[k]
         => k \in Hits(AreaOf(ca.value, FALSE)) /\ k \notin Hits(AreaOf(ca.value, TRUE))

Queried(r, path) ==
  DOMAIN mongoQueryContext(EntityQuery(r.type, {path}, {}, r.notExist, None), {}).cerV

\* A query for an entity under a service path finds only entities that an update with
\* the same type, path and filter changes, and with "#" behind the path it finds all of
\* them: the path is tested with one expression by the update and another by the query.
\* (A path that has "#" itself covers everything below it for a query only.)
UpdatesAreRead ==
  pc = "idle" => \A r \in Request :
    /\ ~EndsInHash(r.path) => Queried(r, r.path) \subseteq Selected(r)
    /\ Selected(r) \subseteq Queried(r, Append(r.path, "#"))

PathSets == {{}} \cup {{p} : p \in EntityPath}

\* Page after page, the list of types names each type with an entity under the service
\* paths once, also the types whose entities have no attributes, and no other type. The
\* attributes it gives for a type are those mongoAttributesForEntityType gives, or none
\* (all are dropped when an entity without attributes puts null in front of them).
TypesListed ==
  pc = "idle" => \A paths \in PathSets :
    LET pages == [n \in 1 .. Cardinality(EntityType) |->
                    CHOOSE page \in mongoEntityTypes(paths, n - 1, 1) : TRUE]
        all   == FlattenSeq(pages)
    IN  /\ {all[i].type : i \in DOMAIN all} = {k.type : k \in Matched(paths)}
        /\ Len(all) = Cardinality({k.type : k \in Matched(paths)})
        /\ \A page \in mongoEntityTypes(paths, 0, Cardinality(EntityType)) : \A i \in DOMAIN page :
             page[i].type # "" =>
               page[i].attrs \in {{}, ToSet(mongoAttributesForEntityType(page[i].type, paths, 0, 10))}
=============================================================================
