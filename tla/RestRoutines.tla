---------------------------- MODULE RestRoutines ----------------------------
(***************************************************************************)
(* The service routines and the convenience maps: what a routine asks of   *)
(* the backend for a URL, the URI parameters and a parsed payload, and     *)
(* what it makes of the answer.                                            *)
(*                                                                         *)
(* A request to the backend is a record:                                   *)
(*   op            the mongoBackend function                               *)
(*   id, type, isPattern, attribute, value, subscription                   *)
(*                 the entity, the attribute, the value identifier and the *)
(*                 subscription it is about                                *)
(*   exist         the scope on the existence of an entity type            *)
(*   action        the action of an update                                 *)
(*   reads, parts  the parsed payload that is read, and its parts that get *)
(*                 into the request                                        *)
(*   via           how the answer is made: "all" of the response is        *)
(*                 rendered; its "first" element is taken without a test;  *)
(*                 errors and empty responses are "checked" first          *)
(* A payload p has the fields a routine compares with the URL: id, type    *)
(* and isPattern of an entity, subscription and the value of the metadata  *)
(* ID; q has the URI parameters.                                           *)
(***************************************************************************)
EXTENDS Sequences, Integers

Nothing ==
  [op |-> "none", id |-> "", type |-> "", isPattern |-> "", attribute |-> "", value |-> "", subscription |-> "",
   exist |-> "", action |-> "", reads |-> "", parts |-> {}, via |-> "all"]

(* The routine answers with an error and asks nothing. *)
Refused == [Nothing EXCEPT !.op = "refused"]

compV(u, k) == u[k + 1]

(* (compV[0] == "v1")? compV[k + 1] : compV[k], in the routines of NGSI9 *)
V1(u, k) == IF compV(u, 0) = "v1" THEN compV(u, k + 1) ELSE compV(u, k)

(* A standard request: the parsed payload goes to the backend as it is. *)
Post(op, reads) == [Nothing EXCEPT !.op = op, !.reads = reads, !.parts = {"all"}]

postDiscoverContextAvailability           == Post("discover", "Dcar")
postSubscribeContextAvailability          == Post("subscribeAvailability", "Scar")
postUnsubscribeContextAvailability        == Post("unsubscribeAvailability", "Ucar")
postUpdateContextAvailabilitySubscription == Post("updateAvailability", "Ucas")
postQueryContext                          == Post("query", "Qcr")
postUpdateContext                         == Post("update", "Upcr")
postUpdateContextSubscription             == Post("updateSubscription", "Ucsr")
postUnsubscribeContext                    == Post("unsubscribe", "Uncr")
postNotifyContext                         == Post("notify", "Ncr")

(* These refuse a request with more than one service path. *)
OnePath(paths, request) == IF paths > 1 THEN Refused ELSE request
postRegisterContext(paths)           == OnePath(paths, Post("register", "Rcr"))
postNotifyContextAvailability(paths) == OnePath(paths, Post("notifyAvailability", "Ncar"))
postSubscribeContext(paths)          == OnePath(paths, Post("subscribe", "Scr"))

-----------------------------------------------------------------------------
(* NGSI9: discovery and registration of one entity, type or attribute. *)

(* DiscoverContextAvailabilityRequest::fill *)
Discover(id, type, isPattern, attribute) ==
  [Nothing EXCEPT !.op = "discover", !.id = id, !.type = type, !.isPattern = isPattern, !.attribute = attribute]

(* RegisterContextRequest::fill(rpr, ...) *)
RegisterProvider == {"duration", "registrationId", "metadata", "providingApplication"}
Register(id, type, attribute) ==
  [Nothing EXCEPT !.op = "register", !.id = id, !.type = type, !.attribute = attribute,
                  !.reads = "Rpr", !.parts = RegisterProvider]

getContextEntitiesByEntityId(u)   == Discover(V1(u, 2), "", "", "")
postContextEntitiesByEntityId(u)  == Register(V1(u, 2), "", "")
getContextEntityAttributes(u)     == Discover(V1(u, 2), "", "", "")
postContextEntityAttributes(u)    == Register(V1(u, 2), "", "")
getEntityByIdAttributeByName(u)   == Discover(V1(u, 2), "", "", V1(u, 4))
postEntityByIdAttributeByName(u)  == Register(V1(u, 2), "", V1(u, 4))
getContextEntityTypes(u)          == Discover(".*", V1(u, 2), "true", "")
postContextEntityTypes(u)         == Register("", V1(u, 2), "")
getContextEntityTypeAttribute(u)  == Discover(".*", V1(u, 2), "true", V1(u, 4))
postContextEntityTypeAttribute(u) == Register("", V1(u, 2), V1(u, 4))

mapGetContextEntitiesByEntityId(id, type)            == Discover(id, type, "false", "")
mapGetEntityByIdAttributeByName(id, type, attribute) == Discover(id, type, "false", attribute)

getContextEntitiesByEntityIdAndType(u)  == mapGetContextEntitiesByEntityId(compV(u, 6), compV(u, 4))
postContextEntitiesByEntityIdAndType(u) == Register(compV(u, 6), compV(u, 4), "")
getEntityByIdAttributeByNameWithTypeAndId(u) ==
  mapGetEntityByIdAttributeByName(compV(u, 6), compV(u, 4), compV(u, 8))
postEntityByIdAttributeByNameWithTypeAndId(u) == Register(compV(u, 6), compV(u, 4), compV(u, 8))

(* Subscriptions: the identifiers of the URL and of the payload must agree. *)
putAvailabilitySubscriptionConvOp(u, p) ==
  IF V1(u, 2) # p.subscription THEN Refused
  ELSE [postUpdateContextAvailabilitySubscription EXCEPT !.subscription = p.subscription]
deleteAvailabilitySubscriptionConvOp(u) ==
  [Nothing EXCEPT !.op = "unsubscribeAvailability", !.subscription = V1(u, 2)]
putSubscriptionConvOp(u, p) ==
  IF compV(u, 2) # p.subscription THEN Refused
  ELSE [postUpdateContextSubscription EXCEPT !.subscription = p.subscription]
deleteSubscriptionConvOp(u) == [Nothing EXCEPT !.op = "unsubscribe", !.subscription = compV(u, 2)]

-----------------------------------------------------------------------------
(* NGSI10: queries and updates of one entity or attribute. *)

Query(id, type, isPattern, attribute) ==
  [Nothing EXCEPT !.op = "query", !.id = id, !.type = type, !.isPattern = isPattern, !.attribute = attribute]

(* QueryContextRequest::fill(entityId, entityType, typeInfo) *)
QueryType(id, type, exist) == [Query(id, type, "false", "") EXCEPT !.exist = exist]

Update(id, type, attribute, action, reads, parts, via) ==
  [Nothing EXCEPT !.op = "update", !.id = id, !.type = type, !.isPattern = "false", !.attribute = attribute,
                  !.action = action, !.reads = reads, !.parts = parts, !.via = via]

mapGetIndividualContextEntity(id, type, exist) == [QueryType(id, type, exist) EXCEPT !.via = "checked"]
mapGetIndividualContextEntityAttribute(id, type, attribute) ==
  [Query(id, type, "false", attribute) EXCEPT !.via = "checked"]
mapGetIndividualContextEntityAttributes(id) == [Query(id, "", "false", "") EXCEPT !.via = "checked"]

mapPutIndividualContextEntity(id, type) ==
  Update(id, type, "", "update", "Ucer", {"attributeDomainName", "attributes"}, "first")
mapPutIndividualContextEntityAttributes(id) ==
  Update(id, "", "", "update", "Ucer", {"attributeDomainName", "attributes"}, "first")
mapPutIndividualContextEntityAttribute(id, type, attribute) ==
  Update(id, type, attribute, "update", "Upcar", {"type", "contextValue", "compoundValue"}, "first")
mapPostIndividualContextEntity(id, type) ==
  Update(id, type, "", "append", "Acer", {"attributeDomainName", "attributes"}, "first")
mapPostIndividualContextEntityAttributes(id) ==
  Update(id, "", "", "append", "Acer", {"attributeDomainName", "attributes"}, "first")
mapPostIndividualContextEntityAttribute(id, type, attribute) ==
  Update(id, type, attribute, "append", "Upcar", {"type", "contextValue", "metadata"}, "checked")
mapDeleteIndividualContextEntity(id, type) == Update(id, type, "", "delete", "", {}, "first")
mapDeleteIndividualContextEntityAttributes(id) == Update(id, "", "", "delete", "", {}, "first")
mapDeleteIndividualContextEntityAttribute(id, type, attribute) ==
  Update(id, type, attribute, "delete", "", {}, "checked")

(* UpdateContextRequest::fill(ucer, ...), fill(acer) and fill(id, type, isPattern, action) *)
Whole == {"attributeDomainName", "attributes", "domainMetadata"}
FillUcer(id, type)            == Update(id, type, "", "update", "Ucer", Whole, "first")
FillAcer(id, type, isPattern) == [Update(id, type, "", "append", "Acer", Whole, "first") EXCEPT !.isPattern = isPattern]
FillDelete(id, type)          == Update(id, type, "", "delete", "", {}, "checked")

getIndividualContextEntity(u, q) ==
  [QueryType(compV(u, 2), q.type, q.exist) EXCEPT !.via = "checked"]
putIndividualContextEntity(u, q)    == FillUcer(compV(u, 2), q.type)
deleteIndividualContextEntity(u, q) == FillDelete(compV(u, 2), q.type)

(* The entity may be named in the URL, in the payload or in both. *)
postIndividualContextEntity(u, q, p) ==
  LET fromURL == IF Len(u) = 3 THEN compV(u, 2) ELSE ""
      id      == IF p.id # "" THEN p.id ELSE fromURL
  IN  IF \/ "" \notin {p.id, fromURL} /\ p.id # fromURL
         \/ "" \notin {p.type, q.type} /\ p.type # q.type
         \/ p.isPattern = "true"
         \/ id = ""
      THEN Refused
      ELSE FillAcer(id, IF p.type # "" THEN p.type ELSE q.type, p.isPattern)

getIndividualContextEntityAttributes(u)    == mapGetIndividualContextEntityAttributes(compV(u, 2))
putIndividualContextEntityAttributes(u)    == mapPutIndividualContextEntityAttributes(compV(u, 2))
postIndividualContextEntityAttributes(u)   == mapPostIndividualContextEntityAttributes(compV(u, 2))
deleteIndividualContextEntityAttributes(u) == mapDeleteIndividualContextEntityAttributes(compV(u, 2))

getIndividualContextEntityAttribute(u)    == mapGetIndividualContextEntityAttribute(compV(u, 2), "", compV(u, 4))
putIndividualContextEntityAttribute(u)    == mapPutIndividualContextEntityAttribute(compV(u, 2), "", compV(u, 4))
postIndividualContextEntityAttribute(u)   == mapPostIndividualContextEntityAttribute(compV(u, 2), "", compV(u, 4))
deleteIndividualContextEntityAttribute(u) == mapDeleteIndividualContextEntityAttribute(compV(u, 2), "", compV(u, 4))

getAllEntitiesWithTypeAndId(u)    == mapGetIndividualContextEntity(compV(u, 5), compV(u, 3), "")
putAllEntitiesWithTypeAndId(u)    == mapPutIndividualContextEntity(compV(u, 5), compV(u, 3))
deleteAllEntitiesWithTypeAndId(u) == mapDeleteIndividualContextEntity(compV(u, 5), compV(u, 3))
postAllEntitiesWithTypeAndId(u, p) ==
  IF <<p.id, p.type, p.isPattern>> # <<"", "", "">> THEN Refused
  ELSE mapPostIndividualContextEntity(compV(u, 5), compV(u, 3))

getIndividualContextEntityAttributeWithTypeAndId(u) ==
  mapGetIndividualContextEntityAttribute(compV(u, 5), compV(u, 3), compV(u, 7))
putIndividualContextEntityAttributeWithTypeAndId(u) ==
  mapPutIndividualContextEntityAttribute(compV(u, 5), compV(u, 3), compV(u, 7))
postIndividualContextEntityAttributeWithTypeAndId(u) ==
  mapPostIndividualContextEntityAttribute(compV(u, 5), compV(u, 3), compV(u, 7))
deleteIndividualContextEntityAttributeWithTypeAndId(u) ==
  mapDeleteIndividualContextEntityAttribute(compV(u, 5), compV(u, 3), compV(u, 7))

(* One value of an attribute, identified by its metadata ID: the payload   *)
(* may carry the identifier too, and it is added if it does not.           *)
GetValue(id, type, attribute, value) ==
  [Query(id, type, "false", attribute) EXCEPT !.value = value, !.via = "checked"]
PutValue(id, type, attribute, value, action, p) ==
  IF p.metadataId \notin {"", value} THEN Refused
  ELSE [Update(id, type, attribute, action, "Upcar", {"contextValue", "metadata"}, "checked") EXCEPT !.value = value]
DeleteValue(id, type, attribute, value) ==
  [Update(id, type, attribute, "delete", "", {}, "checked") EXCEPT !.value = value]

getAttributeValueInstance(u)    == GetValue(compV(u, 2), "", compV(u, 4), compV(u, 5))
putAttributeValueInstance(u, p) == PutValue(compV(u, 2), "", compV(u, 4), compV(u, 5), "update", p)
deleteAttributeValueInstance(u) == DeleteValue(compV(u, 2), "", compV(u, 4), compV(u, 5))
getAttributeValueInstanceUntyped(u) == GetValue(compV(u, 2), "", compV(u, 4), compV(u, 5))
getAttributeValueInstanceWithTypeAndId(u) == GetValue(compV(u, 5), compV(u, 3), compV(u, 7), compV(u, 8))
putAttributeValueInstanceWithTypeAndId(u, p) ==
  PutValue(compV(u, 5), compV(u, 3), compV(u, 7), compV(u, 8), "update", p)
postAttributeValueInstanceWithTypeAndId(u, p) ==
  PutValue(compV(u, 5), compV(u, 3), compV(u, 7), compV(u, 8), "append", p)
deleteAttributeValueInstanceWithTypeAndId(u) == DeleteValue(compV(u, 5), compV(u, 3), compV(u, 7), compV(u, 8))

(* QueryContextRequest::fill(id, type, attribute) asks for a pattern. *)
getNgsi10ContextEntityTypes(u)          == Query(".*", compV(u, 2), "true", "")
getNgsi10ContextEntityTypesAttribute(u) == Query(".*", compV(u, 2), "true", compV(u, 4))
getAllContextEntities(q, scope)         == [Query(".*", q.type, "true", "") EXCEPT !.exist = scope]
getEntityTypes                          == [Nothing EXCEPT !.op = "entityTypes"]
getAttributesForEntityType(u)           == [Nothing EXCEPT !.op = "attributesForEntityType", !.type = compV(u, 2)]

(* The trace levels: only the URLs of version 0 have the number of         *)
(* components that logTraceTreat() tests.                                  *)
logTraceTreat(verb, u) ==
  IF \/ Len(u) = 2 /\ verb \in {"GET", "DELETE"}
     \/ Len(u) = 3 /\ verb \in {"PUT", "DELETE"}
  THEN [Nothing EXCEPT !.op = "trace"] ELSE Refused
statisticsTreat(verb) == [Nothing EXCEPT !.op = "statistics", !.action = verb]
versionTreat          == [Nothing EXCEPT !.op = "version"]

(* The scope that ?exist=entity::type and ?!exist=entity::type add to the  *)
(* requests that support them.                                             *)
commonFilters(request, q) == IF request \in {"EntityTypes", "AllContextEntities"} THEN q.exist ELSE ""

(* The verbs that the answer to a bad verb lists as allowed. *)
badVerbPostOnly == {"POST"}
badVerbGetOnly == {"GET"}
badVerbGetPostOnly == {"POST", "GET"}
badVerbGetDeleteOnly == {"GET", "DELETE"}
badVerbPutDeleteOnly == {"PUT", "DELETE"}
badVerbGetPostDeleteOnly == {"GET", "POST", "DELETE"}
badVerbGetPutDeleteOnly == {"GET", "PUT", "DELETE"}
badVerbAllFour == {"POST", "GET", "PUT", "DELETE"}

Allow(routine) ==
  CASE routine = "badVerbPostOnly" -> badVerbPostOnly
    [] routine = "badVerbGetOnly" -> badVerbGetOnly
    [] routine = "badVerbGetPostOnly" -> badVerbGetPostOnly
    [] routine = "badVerbGetDeleteOnly" -> badVerbGetDeleteOnly
    [] routine = "badVerbPutDeleteOnly" -> badVerbPutDeleteOnly
    [] routine = "badVerbGetPostDeleteOnly" -> badVerbGetPostDeleteOnly
    [] routine = "badVerbGetPutDeleteOnly" -> badVerbGetPutDeleteOnly
    [] routine = "badVerbAllFour" -> badVerbAllFour
    [] OTHER -> {}

-----------------------------------------------------------------------------
(* serviceV[ix].treat(ciP, components, compV, &parseData) *)
Treat(routine, verb, u, q, p, paths) ==
  CASE routine = "postRegisterContext" -> postRegisterContext(paths)
    [] routine = "postDiscoverContextAvailability" -> postDiscoverContextAvailability
    [] routine = "postSubscribeContextAvailability" -> postSubscribeContextAvailability
    [] routine = "postUnsubscribeContextAvailability" -> postUnsubscribeContextAvailability
    [] routine = "postUpdateContextAvailabilitySubscription" -> postUpdateContextAvailabilitySubscription
    [] routine = "postNotifyContextAvailability" -> postNotifyContextAvailability(paths)
    [] routine = "postUpdateContext" -> postUpdateContext
    [] routine = "postQueryContext" -> postQueryContext
    [] routine = "postSubscribeContext" -> postSubscribeContext(paths)
    [] routine = "postUpdateContextSubscription" -> postUpdateContextSubscription
    [] routine = "postUnsubscribeContext" -> postUnsubscribeContext
    [] routine = "postNotifyContext" -> postNotifyContext
    [] routine = "getContextEntitiesByEntityId" -> getContextEntitiesByEntityId(u)
    [] routine = "postContextEntitiesByEntityId" -> OnePath(paths, postContextEntitiesByEntityId(u))
    [] routine = "getContextEntityAttributes" -> getContextEntityAttributes(u)
    [] routine = "postContextEntityAttributes" -> OnePath(paths, postContextEntityAttributes(u))
    [] routine = "getEntityByIdAttributeByName" -> getEntityByIdAttributeByName(u)
    [] routine = "postEntityByIdAttributeByName" -> OnePath(paths, postEntityByIdAttributeByName(u))
    [] routine = "getContextEntityTypes" -> getContextEntityTypes(u)
    [] routine = "postContextEntityTypes" -> OnePath(paths, postContextEntityTypes(u))
    [] routine = "getContextEntityTypeAttribute" -> getContextEntityTypeAttribute(u)
    [] routine = "postContextEntityTypeAttribute" -> OnePath(paths, postContextEntityTypeAttribute(u))
    [] routine = "getContextEntitiesByEntityIdAndType" -> getContextEntitiesByEntityIdAndType(u)
    [] routine = "postContextEntitiesByEntityIdAndType" -> OnePath(paths, postContextEntitiesByEntityIdAndType(u))
    [] routine = "getEntityByIdAttributeByNameWithTypeAndId" -> getEntityByIdAttributeByNameWithTypeAndId(u)
    [] routine = "postEntityByIdAttributeByNameWithTypeAndId" ->
         OnePath(paths, postEntityByIdAttributeByNameWithTypeAndId(u))
    [] routine = "putAvailabilitySubscriptionConvOp" -> putAvailabilitySubscriptionConvOp(u, p)
    [] routine = "deleteAvailabilitySubscriptionConvOp" -> deleteAvailabilitySubscriptionConvOp(u)
    [] routine = "putSubscriptionConvOp" -> putSubscriptionConvOp(u, p)
    [] routine = "deleteSubscriptionConvOp" -> deleteSubscriptionConvOp(u)
    [] routine = "getIndividualContextEntity" -> getIndividualContextEntity(u, q)
    [] routine = "putIndividualContextEntity" -> putIndividualContextEntity(u, q)
    [] routine = "postIndividualContextEntity" -> postIndividualContextEntity(u, q, p)
    [] routine = "deleteIndividualContextEntity" -> deleteIndividualContextEntity(u, q)
    [] routine = "getIndividualContextEntityAttributes" -> getIndividualContextEntityAttributes(u)
    [] routine = "putIndividualContextEntityAttributes" -> putIndividualContextEntityAttributes(u)
    [] routine = "postIndividualContextEntityAttributes" -> postIndividualContextEntityAttributes(u)
    [] routine = "deleteIndividualContextEntityAttributes" -> deleteIndividualContextEntityAttributes(u)
    [] routine = "getIndividualContextEntityAttribute" -> getIndividualContextEntityAttribute(u)
    [] routine = "putIndividualContextEntityAttribute" -> putIndividualContextEntityAttribute(u)
    [] routine = "postIndividualContextEntityAttribute" -> postIndividualContextEntityAttribute(u)
    [] routine = "deleteIndividualContextEntityAttribute" -> deleteIndividualContextEntityAttribute(u)
    [] routine = "getAllEntitiesWithTypeAndId" -> getAllEntitiesWithTypeAndId(u)
    [] routine = "putAllEntitiesWithTypeAndId" -> putAllEntitiesWithTypeAndId(u)
    [] routine = "postAllEntitiesWithTypeAndId" -> postAllEntitiesWithTypeAndId(u, p)
    [] routine = "deleteAllEntitiesWithTypeAndId" -> deleteAllEntitiesWithTypeAndId(u)
    [] routine = "getIndividualContextEntityAttributeWithTypeAndId" -> getIndividualContextEntityAttributeWithTypeAndId(u)
    [] routine = "putIndividualContextEntityAttributeWithTypeAndId" -> putIndividualContextEntityAttributeWithTypeAndId(u)
    [] routine = "postIndividualContextEntityAttributeWithTypeAndId" ->
         postIndividualContextEntityAttributeWithTypeAndId(u)
    [] routine = "deleteIndividualContextEntityAttributeWithTypeAndId" ->
         deleteIndividualContextEntityAttributeWithTypeAndId(u)
    [] routine = "getAttributeValueInstance" -> getAttributeValueInstance(u)
    [] routine = "putAttributeValueInstance" -> putAttributeValueInstance(u, p)
    [] routine = "deleteAttributeValueInstance" -> deleteAttributeValueInstance(u)
    [] routine = "getAttributeValueInstanceWithTypeAndId" -> getAttributeValueInstanceWithTypeAndId(u)
    [] routine = "putAttributeValueInstanceWithTypeAndId" -> putAttributeValueInstanceWithTypeAndId(u, p)
    [] routine = "postAttributeValueInstanceWithTypeAndId" -> postAttributeValueInstanceWithTypeAndId(u, p)
    [] routine = "deleteAttributeValueInstanceWithTypeAndId" -> deleteAttributeValueInstanceWithTypeAndId(u)
    [] routine = "getNgsi10ContextEntityTypes" -> getNgsi10ContextEntityTypes(u)
    [] routine = "getNgsi10ContextEntityTypesAttribute" -> getNgsi10ContextEntityTypesAttribute(u)
    [] routine = "getAllContextEntities" -> getAllContextEntities(q, commonFilters("AllContextEntities", q))
    [] routine = "getEntityTypes" -> getEntityTypes
    [] routine = "getAttributesForEntityType" -> getAttributesForEntityType(u)
    [] routine = "logTraceTreat" -> logTraceTreat(verb, u)
    [] routine = "statisticsTreat" -> statisticsTreat(verb)
    [] routine = "versionTreat" -> versionTreat
    [] OTHER -> Refused
=============================================================================
