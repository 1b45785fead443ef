------------------------------ MODULE NgsiCheck ------------------------------
(***************************************************************************)
(* The check() methods that a parsed payload goes through before it is     *)
(* served.  check() returns "OK" or a text that becomes the details of a   *)
(* 400 answer; which text is left out, so a check is a predicate.  rt is   *)
(* the request type the containers pass down.                              *)
(*                                                                         *)
(* Strings are "" or one of a few representatives: "bad" is a string that  *)
(* the check of its field refuses (a duration parse8601() cannot read, an  *)
(* id idCheck() refuses, neither true nor false, a coordinate out of       *)
(* range).                                                                 *)
(***************************************************************************)
EXTENDS Sequences, Integers

(* The loop of the vectors: the first element refused ends it. *)
All(vec, Check(_)) == \A ix \in DOMAIN vec : Check(vec[ix])

Boolean == {"true", "false"}

EntityIdCheck(e, rt) ==
  /\ e.id # ""
  /\ e.isPattern \in Boolean \cup {""}
  /\ ~(rt = "RegisterContext" /\ e.isPattern = "true")

EntityIdVectorCheck(vec, rt) ==
  LET Check(e) == EntityIdCheck(e, rt)
  IN  /\ rt \in {"DiscoverContextAvailability", "SubscribeContextAvailability",
                 "UpdateContextAvailabilitySubscription", "QueryContext", "SubscribeContext"} => vec # <<>>
      /\ All(vec, Check)

AttributeListCheck(list) == \A ix \in DOMAIN list : list[ix] # ""

ConditionValueListCheck(list) == \A ix \in DOMAIN list : list[ix] # ""

AttributeAssociationCheck(a) == a.source # "" /\ a.target # ""

AttributeAssociationListCheck(vec) == All(vec, AttributeAssociationCheck)

EntityAssociationCheck(source, target, rt) == EntityIdCheck(source, rt) /\ EntityIdCheck(target, rt)

(* Association::check returns an empty text for an error, which is not     *)
(* "OK" either.                                                            *)
AssociationCheck(md, rt) ==
  EntityAssociationCheck(md.source, md.target, rt) /\ AttributeAssociationListCheck(md.association)

MetadataCheck(md, rt) ==
  /\ md.name # ""
  /\ md.type # "Association" => md.value # ""
  /\ md.type = "Association" => AssociationCheck(md, rt)

MetadataVectorCheck(vec, rt) ==
  LET Check(md) == MetadataCheck(md, rt) IN All(vec, Check)

(* The metadata of an attribute are not checked. *)
ContextAttributeCheck(ca) == ca.name # ""

ContextAttributeVectorCheck(vec) == All(vec, ContextAttributeCheck)

ContextElementCheck(ce, rt) ==
  /\ EntityIdCheck(ce.entityId, rt)
  /\ ContextAttributeVectorCheck(ce.contextAttributeVector)
  /\ MetadataVectorCheck(ce.domainMetadataVector, rt)

ContextElementVectorCheck(vec, rt) ==
  LET Check(ce) == ContextElementCheck(ce, rt)
  IN  (rt = "UpdateContext" => vec # <<>>) /\ All(vec, Check)

\* The details, which most answers leave empty, are demanded too.
StatusCodeCheckDetails(sc) == sc.code # "SccNone" /\ sc.reasonPhrase # "" /\ sc.details # ""

StatusCodeCheck(sc) == sc.code # "SccNone" /\ sc.reasonPhrase # ""

ContextElementResponseCheck(cer, rt) ==
  ContextElementCheck(cer.contextElement, rt) /\ StatusCodeCheck(cer.statusCode)

ContextElementResponseVectorCheck(vec, rt) ==
  LET Check(cer) == ContextElementResponseCheck(cer, rt) IN All(vec, Check)

----------------------------------------------------------------------------
DurationCheck(d) == d # "bad"
ThrottlingCheck(t) == t # "bad"
SubscriptionIdCheck(id) == id # "bad"
RegistrationIdCheck(id) == id # "bad"
ProvidingApplicationCheck(pa) == pa # ""
ReferenceCheck(ref, rt) == rt \in {"SubscribeContextAvailability", "SubscribeContext"} => ref # ""
UpdateActionTypeCheck(action) == action \in {"UPDATE", "APPEND", "DELETE"}

NotifyConditionCheck(nc) ==
  /\ nc.type \in {"ONTIMEINTERVAL", "ONCHANGE", "ONVALUE"}
  /\ ConditionValueListCheck(nc.condValueList)

NotifyConditionVectorCheck(vec) == All(vec, NotifyConditionCheck)

----------------------------------------------------------------------------
LocationTypes == {"FIWARE::Location", "FIWARE_Location"}

Coordinate(s) == s # "bad"

(* The radius, the inverted flag and the centre are tested in an else-if   *)
(* chain: once inverted is given, a missing centre is not noticed.  The    *)
(* range of the coordinates is tested always.                              *)
CircleCheck(circle) ==
  /\ circle.radius \notin {"0", ""}
  /\ circle.inverted # "" => circle.inverted \in Boolean
  /\ circle.inverted = "" => circle.latitude # "" /\ circle.longitude # ""
  /\ Coordinate(circle.latitude) /\ Coordinate(circle.longitude)

PolygonCheck(polygon) ==
  /\ Len(polygon.vertexList) >= 3
  /\ polygon.inverted # "" => polygon.inverted \in Boolean
  /\ \A ix \in DOMAIN polygon.vertexList :
       LET vertex == polygon.vertexList[ix]
       IN  /\ vertex.latitude # "" /\ vertex.longitude # ""
           /\ Coordinate(vertex.latitude) /\ Coordinate(vertex.longitude)

ScopeCheck(scope) ==
  IF scope.type \in LocationTypes
    THEN CASE scope.areaType = "circle"  -> CircleCheck(scope.area)
           [] scope.areaType = "polygon" -> PolygonCheck(scope.area)
           [] OTHER -> TRUE
    ELSE scope.type # "" /\ scope.value # ""

ScopeVectorCheck(vec) == All(vec, ScopeCheck)

(* counter says whether the payload had a restriction. *)
RestrictionCheck(restriction, counter) ==
  counter # 0 => /\ restriction.scopeVector # <<>> \/ restriction.attributeExpression # ""
                 /\ ScopeVectorCheck(restriction.scopeVector)

----------------------------------------------------------------------------
ContextRegistrationAttributeCheck(cra, rt) ==
  /\ cra.name # ""
  /\ cra.isDomain \in Boolean
  /\ MetadataVectorCheck(cra.metadataVector, rt)

ContextRegistrationAttributeVectorCheck(vec, rt) ==
  LET Check(cra) == ContextRegistrationAttributeCheck(cra, rt) IN All(vec, Check)

ContextRegistrationCheck(cr, rt) ==
  /\ EntityIdVectorCheck(cr.entityIdVector, rt)
  /\ ContextRegistrationAttributeVectorCheck(cr.contextRegistrationAttributeVector, rt)
  /\ MetadataVectorCheck(cr.registrationMetadataVector, rt)
  /\ ProvidingApplicationCheck(cr.providingApplication)
  /\ ~(cr.entityIdVectorPresent /\ cr.entityIdVector = <<>>)

ContextRegistrationVectorCheck(vec, rt) ==
  LET Check(cr) == ContextRegistrationCheck(cr, rt) IN All(vec, Check)

ContextRegistrationResponseVectorCheck(vec, rt) ==
  LET Check(crr) == ContextRegistrationCheck(crr.contextRegistration, rt) IN All(vec, Check)
=============================================================================
