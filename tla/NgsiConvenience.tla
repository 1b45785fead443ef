--------------------------- MODULE NgsiConvenience ---------------------------
(***************************************************************************)
(* The messages of the convenience operations and of the entity types: the *)
(* answers filled from what the standard operation behind them answered,   *)
(* their rendering, and the check() of every request.                      *)
(***************************************************************************)
EXTENDS NgsiMessages

NotFound == [code |-> "SccContextElementNotFound", reasonPhrase |-> "x", details |-> ""]

(* StatusCode::fill(UpdateContextResponse): the answers that are one       *)
(* status code.                                                            *)
StatusCodeFill(ucrs) ==
  CASE IsError(ucrs.errorCode) -> ucrs.errorCode
    [] ~IsError(ucrs.errorCode) /\ ucrs.contextElementResponseVector # <<>> ->
         ucrs.contextElementResponseVector[1].statusCode
    [] OTHER -> [code |-> "SccReceiverInternalError", reasonPhrase |-> "x", details |-> "x"]

(* ContextElementResponse::fill(QueryContextResponse). *)
ContextElementResponseFill(cer, qcr) ==
  CASE qcr.contextElementResponseVector = <<>> -> [cer EXCEPT !.statusCode = qcr.errorCode]
    [] qcr.contextElementResponseVector # <<>> /\ qcr.errorCode.code # "SccNone" ->
         [contextElement |-> qcr.contextElementResponseVector[1].contextElement, statusCode |-> qcr.errorCode]
    [] OTHER -> [cer EXCEPT !.contextElement = qcr.contextElementResponseVector[1].contextElement]

----------------------------------------------------------------------------
(* ContextAttributeResponse and its vector, which fill() gives one element *)

ContextAttributeResponseFill(cav, statusCode) == [contextAttributeVector |-> cav, statusCode |-> statusCode]

ContextAttributeResponseRender(ci, car, request) ==
  Element(startTag("contextAttributeResponse", FALSE),
          ContextAttributeVectorRender(ci, car.contextAttributeVector, request, TRUE, FALSE)
          \o StatusCodeRender(car.statusCode, "statusCode", FALSE, TRUE),
          endTag("contextAttributeResponse", FALSE, FALSE))

(* No comma between the elements; the empty list is XML in both formats. *)
ContextAttributeResponseVectorRender(ci, vec, request) ==
  LET Render(car, c) == ContextAttributeResponseRender(ci, car, request)
  IN  IF vec = <<>>
        THEN IF request # "IndividualContextEntityAttributes" THEN <<>>
             ELSE Element([startTag("contextAttributeList", FALSE) EXCEPT !.open = "<"], <<>>,
                          endTag("contextAttributeList", FALSE, FALSE))
        ELSE Element(startTags("contextResponseList", "contextResponses", TRUE, TRUE), Loop(vec, Render),
                     endTag("contextResponseList", FALSE, TRUE))

----------------------------------------------------------------------------
(* AppendContextElementResponse and UpdateContextElementResponse           *)

(* The errorCode that follows from the only attribute response. *)
Promoted(errorCode, vec) ==
  LET only == Len(vec) = 1
      lost == vec = <<>> \/ (only /\ vec[1].statusCode.code = "SccContextElementNotFound")
  IN  CASE lost /\ errorCode.code # "SccContextElementNotFound" -> NotFound
        [] only /\ ~lost /\ ~IsError(errorCode) /\ IsError(vec[1].statusCode) -> vec[1].statusCode
        [] OTHER -> errorCode

Detailed(errorCode, ucrs) ==
  IF errorCode.code = "SccContextElementNotFound" /\ errorCode.details = "" /\ Len(ucrs.contextElementResponseVector) = 1
    THEN [errorCode EXCEPT !.details = ucrs.contextElementResponseVector[1].contextElement.entityId.id]
    ELSE errorCode

(* fill() reads element 0 of the answer before it asks for its size. *)
UpdateContextElementResponseFill(ucrs) ==
  LET cer == ucrs.contextElementResponseVector[1]
      vec == <<ContextAttributeResponseFill(cer.contextElement.contextAttributeVector, cer.statusCode)>>
  IN  [contextAttributeResponseVector |-> vec, errorCode |-> Detailed(Promoted(ucrs.errorCode, vec), ucrs)]

AppendContextElementResponseFill(ucrs) ==
  LET cer == ucrs.contextElementResponseVector[1]
      vec == <<ContextAttributeResponseFill(cer.contextElement.contextAttributeVector, cer.statusCode)>>
  IN  [contextAttributeResponseVector |-> vec, entity |-> cer.contextElement.entityId,
       errorCode |-> Detailed(Promoted(ucrs.errorCode, vec), ucrs)]

AppendContextElementResponseRender(ci, m, request) ==
  Message("appendContextElementResponse",
          IF IsError(m.errorCode) THEN StatusCodeRender(m.errorCode, "errorCode", FALSE, TRUE)
          ELSE (IF m.entity.id # "" THEN EntityIdRender(ci, "entityId", TRUE, FALSE, "") ELSE <<>>)
               \o ContextAttributeResponseVectorRender(ci, m.contextAttributeResponseVector, request))

UpdateContextElementResponseRender(ci, m, request) ==
  Message("updateContextElementResponse",
          IF IsError(m.errorCode) THEN StatusCodeRender(m.errorCode, "errorCode", FALSE, TRUE)
          ELSE ContextAttributeResponseVectorRender(ci, m.contextAttributeResponseVector, request))

----------------------------------------------------------------------------
EntityTypesResponseRender(ci, m) ==
  Message("entityTypesResponse",
          TypeEntityVectorRender(ci, m.typeEntityVector, TRUE) \o StatusCodeRender(m.statusCode, "statusCode", FALSE, TRUE))

EntityTypeAttributesResponseRender(ci, m) ==
  Message("entityTypeAttributesResponse",
          TypeEntityRender(ci, m.entityType, TRUE, TRUE) \o StatusCodeRender(m.statusCode, "statusCode", FALSE, TRUE))

(* OrionError is never part of another message: it writes its own braces. *)
OrionErrorRender(ci, details) ==
  LET error == Element(startTag("orionError", TRUE),
                       valueTag("code", TRUE) \o valueTag("reasonPhrase", details # "")
                       \o String(details, "details", FALSE),
                       endTag("orionError", FALSE, FALSE))
  IN  IF ci.outFormat = "JSON" THEN Element(startTag("", FALSE), error, endTag("", FALSE, FALSE)) ELSE error

----------------------------------------------------------------------------
(* check() of the requests.  predetected: the parser found an error. *)

RegisterContextRequestCheck(m, predetected) ==
  /\ ~predetected
  /\ m.contextRegistrationVector # <<>>
  /\ ContextRegistrationVectorCheck(m.contextRegistrationVector, "RegisterContext")
  /\ DurationCheck(m.duration) /\ RegistrationIdCheck(m.registrationId)

DiscoverContextAvailabilityRequestCheck(m, predetected) ==
  /\ ~predetected
  /\ EntityIdVectorCheck(m.entityIdVector, "DiscoverContextAvailability")
  /\ AttributeListCheck(m.attributeList)
  /\ RestrictionCheck(m.restriction, m.restrictions)

SubscribeContextAvailabilityRequestCheck(m, predetected) ==
  /\ ~predetected
  /\ EntityIdVectorCheck(m.entityIdVector, "SubscribeContextAvailability")
  /\ AttributeListCheck(m.attributeList)
  /\ ReferenceCheck(m.reference, "SubscribeContextAvailability")
  /\ DurationCheck(m.duration)
  /\ RestrictionCheck(m.restriction, m.restrictions)

(* Both parsers pass 0 for the counter: the restriction is not checked. *)
UpdateContextAvailabilitySubscriptionRequestCheck(m, predetected) ==
  /\ ~predetected
  /\ EntityIdVectorCheck(m.entityIdVector, "UpdateContextAvailabilitySubscription")
  /\ AttributeListCheck(m.attributeList)
  /\ DurationCheck(m.duration)
  /\ RestrictionCheck(m.restriction, 0)
  /\ SubscriptionIdCheck(m.subscriptionId)

UnsubscribeContextAvailabilityRequestCheck(m, predetected) == ~predetected /\ SubscriptionIdCheck(m.subscriptionId)

NotifyContextAvailabilityRequestCheck(m, predetected) ==
  /\ ~predetected
  /\ SubscriptionIdCheck(m.subscriptionId)
  /\ ContextRegistrationResponseVectorCheck(m.contextRegistrationResponseVector, "QueryContext")

QueryContextRequestCheck(m, predetected) ==
  /\ ~predetected
  /\ EntityIdVectorCheck(m.entityIdVector, "QueryContext")
  /\ AttributeListCheck(m.attributeList)
  /\ RestrictionCheck(m.restriction, m.restrictions)

UpdateContextRequestCheck(m, predetected) ==
  /\ ~predetected
  /\ ContextElementVectorCheck(m.contextElementVector, "UpdateContext")
  /\ UpdateActionTypeCheck(m.updateActionType)

(* The two checks of NGSI10 that do not look at predetected errors; a      *)
(* subscription is not asked for its reference.                            *)
SubscribeContextRequestCheck(m, predetected) ==
  /\ EntityIdVectorCheck(m.entityIdVector, "SubscribeContext")
  /\ AttributeListCheck(m.attributeList)
  /\ DurationCheck(m.duration)
  /\ RestrictionCheck(m.restriction, m.restrictions)
  /\ NotifyConditionVectorCheck(m.notifyConditionVector)
  /\ ThrottlingCheck(m.throttling)

UnsubscribeContextRequestCheck(m, predetected) == SubscriptionIdCheck(m.subscriptionId)

UpdateContextSubscriptionRequestCheck(m, predetected) ==
  /\ ~predetected
  /\ DurationCheck(m.duration)
  /\ RestrictionCheck(m.restriction, m.restrictions)
  /\ SubscriptionIdCheck(m.subscriptionId)
  /\ NotifyConditionVectorCheck(m.notifyConditionVector)
  /\ ThrottlingCheck(m.throttling)

NotifyContextRequestCheck(m, predetected) ==
  /\ ~predetected
  /\ SubscriptionIdCheck(m.subscriptionId)
  /\ ContextElementResponseVectorCheck(m.contextElementResponseVector, "QueryContext")

AppendContextElementRequestCheck(m, predetected) ==
  /\ ~predetected
  /\ ContextAttributeVectorCheck(m.contextAttributeVector)
  /\ MetadataVectorCheck(m.domainMetadataVector, "AppendContextElement")

UpdateContextElementRequestCheck(m, predetected) == ~predetected /\ ContextAttributeVectorCheck(m.contextAttributeVector)

UpdateContextAttributeRequestCheck(m, predetected) ==
  /\ ~predetected
  /\ m.contextValue # "" \/ m.compound # "none"
  /\ MetadataVectorCheck(m.metadataVector, "UpdateContextAttribute")

RegisterProviderRequestCheck(m, predetected) ==
  /\ ~predetected
  /\ MetadataVectorCheck(m.metadataVector, "ContextEntitiesByEntityId")
  /\ DurationCheck(m.duration)
  /\ ProvidingApplicationCheck(m.providingApplication)
  /\ RegistrationIdCheck(m.registrationId)

(* The answers of context providers and of the broker registrations are    *)
(* forwarded to, checked when they are parsed.                             *)
UpdateContextResponseCheck(m, predetected) ==
  ~predetected /\ ContextElementResponseVectorCheck(m.contextElementResponseVector, "UpdateContext")

QueryContextResponseCheck(m, predetected) ==
  ~predetected /\ ContextElementResponseVectorCheck(m.contextElementResponseVector, "QueryContext")

RegisterContextResponseCheck(m, predetected) ==
  ~predetected /\ DurationCheck(m.duration) /\ RegistrationIdCheck(m.registrationId)
=============================================================================
