---------------------------- MODULE NgsiMessages ----------------------------
(***************************************************************************)
(* render() and check() of whole messages.  A message is a record whose    *)
(* fields are those of its C++ class, with the class in the field kind.    *)
(***************************************************************************)
EXTENDS NgsiRender, NgsiCheck

(* A message is rendered in a nameless object. *)
Message(tag, kids) == Element(startTag(tag, FALSE), kids, endTag(tag, FALSE, FALSE))

ScopeRender(ci, comma) ==
  LET tag(xml, json) == IF ci.outFormat = "XML" THEN xml ELSE json
  IN  Element(startTags("operationScope", "operationScope", FALSE, FALSE),
              valueTag(tag("scopeType", "type"), TRUE) \o valueTag(tag("scopeValue", "value"), FALSE),
              endTag("operationScope", comma, FALSE))

ScopeVectorRender(ci, vec, comma) ==
  LET Render(scope, c) == ScopeRender(ci, c) IN RenderVector(vec, "scope", "scope", comma, Render)

RestrictionRender(ci, restriction, restrictions, comma) ==
  IF restrictions = 0 THEN <<>>
  ELSE Element(startTag("restriction", TRUE),
               String(restriction.attributeExpression, "attributeExpression", restriction.scopeVector # <<>>)
               \o ScopeVectorRender(ci, restriction.scopeVector, FALSE),
               endTag("restriction", comma, FALSE))

(* Duration::render: nothing for a duration parse8601() cannot read. *)
DurationRender(d, comma) == IF d \in {"", "bad"} THEN <<>> ELSE valueTag("duration", comma)

----------------------------------------------------------------------------
(* The requests a broker sends.  SubscriptionId::render writes zeroes for  *)
(* an empty id in the messages that must have one.                         *)

NotifyContextRequestRender(ci, m) ==
  Message("notifyContextRequest",
          valueTag("subscriptionId", TRUE)
          \o String(m.originator, "originator", m.contextElementResponseVector # <<>>)
          \o ContextElementResponseVectorRender(ci, m.contextElementResponseVector, "NotifyContext", FALSE))

NotifyContextAvailabilityRequestRender(ci, m) ==
  Message("notifyContextAvailabilityRequest",
          valueTag("subscriptionId", TRUE)
          \o ContextRegistrationResponseVectorRender(ci, m.contextRegistrationResponseVector, FALSE))

UpdateContextRequestRender(ci, m) ==
  Message("updateContextRequest",
          ContextElementVectorRender(ci, m.contextElementVector, TRUE)
          \o String(m.updateActionType, "updateAction", FALSE))

QueryContextRequestRender(ci, m) ==
  LET restrictionRendered == m.restrictions # 0
  IN  Message("queryContextRequest",
              EntityIdVectorRender(ci, m.entityIdVector, m.attributeList # <<>> \/ restrictionRendered)
              \o AttributeListRender(m.attributeList, restrictionRendered)
              \o RestrictionRender(ci, m.restriction, m.restrictions, FALSE))

RegisterContextRequestRender(ci, m) ==
  LET registrationIdRendered == m.registrationId # ""
  IN  Message("registerContextRequest",
              ContextRegistrationVectorRender(ci, m.contextRegistrationVector,
                                              registrationIdRendered \/ m.duration # "")
              \o DurationRender(m.duration, registrationIdRendered)
              \o String(m.registrationId, "registrationId", FALSE))

----------------------------------------------------------------------------
(* The answers *)

IsError(sc) == sc.code \notin {"SccNone", "SccOk"}

(* An errorCode that is rendered if it was filled. *)
Filled(sc) == IF sc.code = "SccNone" THEN <<>> ELSE StatusCodeRender(sc, "errorCode", FALSE, TRUE)

(* The errorCode render() itself fills when it has nothing else to write. *)
FilledHere == StatusCodeRender([code |-> "SccReceiverInternalError", details |-> "x"], "errorCode", FALSE, TRUE)

UpdateContextResponseRender(ci, m) ==
  Message("updateContextResponse",
          CASE IsError(m.errorCode) -> StatusCodeRender(m.errorCode, "errorCode", FALSE, TRUE)
            [] ~IsError(m.errorCode) /\ m.contextElementResponseVector = <<>> ->
                 StatusCodeRender([m.errorCode EXCEPT !.code = "SccContextElementNotFound"], "errorCode", FALSE, TRUE)
            [] OTHER -> ContextElementResponseVectorRender(ci, m.contextElementResponseVector, "UpdateContext", FALSE))

QueryContextResponseRender(ci, m) ==
  Message("queryContextResponse",
          ContextElementResponseVectorRender(ci, m.contextElementResponseVector, "QueryContext",
                                             m.errorCode.code # "SccNone")
          \o Filled(m.errorCode)
          \o IF m.errorCode.code = "SccNone" /\ m.contextElementResponseVector = <<>> THEN FilledHere ELSE <<>>)

DiscoverContextAvailabilityResponseRender(ci, m) ==
  Message("discoverContextAvailabilityResponse",
          ContextRegistrationResponseVectorRender(ci, m.responseVector, m.errorCode.code # "SccNone")
          \o Filled(m.errorCode)
          \o IF m.errorCode.code = "SccNone" /\ m.responseVector = <<>> THEN FilledHere ELSE <<>>)

SubscribeResponseRender(m) ==
  Element(startTag("subscribeResponse", TRUE),
          valueTag("subscriptionId", m.duration # "" \/ m.throttling # "")
          \o DurationRender(m.duration, m.throttling # "") \o String(m.throttling, "throttling", FALSE),
          endTag("subscribeResponse", FALSE, FALSE))

(* SubscribeError::render: an update always has the id of its request. *)
SubscribeErrorRender(m, rt) ==
  Element(startTag("subscribeError", TRUE),
          (IF rt = "UpdateContextSubscription" \/ m.subscriptionId # "" THEN valueTag("subscriptionId", TRUE) ELSE <<>>)
          \o StatusCodeRender(m.errorCode, "errorCode", FALSE, TRUE),
          endTag("subscribeError", FALSE, FALSE))

SubscribeContextResponseRender(m) ==
  Message("subscribeContextResponse",
          IF m.errorCode.code = "SccNone" THEN SubscribeResponseRender(m) ELSE SubscribeErrorRender(m, "SubscribeContext"))

UpdateContextSubscriptionResponseRender(m) ==
  Message("updateContextSubscriptionResponse",
          IF m.errorCode.code = "SccNone" THEN SubscribeResponseRender(m)
          ELSE SubscribeErrorRender(m, "UpdateContextSubscription"))

(* The answers that are an id, a duration and an errorCode. *)
AvailabilityResponse(tag, m) ==
  LET errorCodeRendered == m.errorCode.code # "SccNone"
  IN  Message(tag, valueTag("subscriptionId", m.duration # "" \/ errorCodeRendered)
                   \o DurationRender(m.duration, errorCodeRendered) \o Filled(m.errorCode))

SubscribeContextAvailabilityResponseRender(m) == AvailabilityResponse("subscribeContextAvailabilityResponse", m)

UpdateContextAvailabilitySubscriptionResponseRender(m) ==
  AvailabilityResponse("updateContextAvailabilitySubscriptionResponse", m)

(* RegistrationId::render writes zeroes for an empty id. *)
RegisterContextResponseRender(m) ==
  Message("registerContextResponse",
          DurationRender(m.duration, TRUE) \o valueTag("registrationId", IsError(m.errorCode))
          \o IF IsError(m.errorCode) THEN StatusCodeRender(m.errorCode, "errorCode", FALSE, TRUE) ELSE <<>>)

Unsubscribed(tag, m) ==
  Message(tag, valueTag("subscriptionId", TRUE) \o StatusCodeRender(m.errorCode, "statusCode", FALSE, TRUE))

UnsubscribeContextResponseRender(m) == Unsubscribed("unsubscribeContextResponse", m)
UnsubscribeContextAvailabilityResponseRender(m) == Unsubscribed("unsubscribeContextAvailabilityResponse", m)

NotifyContextResponseRender(m) ==
  Message("notifyContextResponse", StatusCodeRender(m.errorCode, "responseCode", FALSE, TRUE))

NotifyContextAvailabilityResponseRender(m) ==
  Message("notifyContextAvailabilityResponse", StatusCodeRender(m.errorCode, "responseCode", FALSE, TRUE))
=============================================================================
