---------------------------- MODULE RestServices ----------------------------
(***************************************************************************)
(* The table of REST services of the broker (restServiceV), built from the *)
(* macros of contextBroker.cpp, and the request tables in which the two    *)
(* parsers look up the parse vector of a request.                          *)
(*                                                                         *)
(* A URL is the sequence of its components.  A row offers a verb ("*": any *)
(* verb) on the URLs of a pattern, whose components "*" match anything; it *)
(* has the request type, the word an XML payload must start with and the   *)
(* service routine.                                                        *)
(***************************************************************************)
EXTENDS Sequences, Integers

Row(verb, request, pattern, word, routine) ==
  [verb |-> verb, request |-> request, components |-> Len(pattern), compV |-> pattern,
   word |-> word, treat |-> routine]

(* The row of a verb that is not offered on the pattern. *)
Bad(request, pattern, routine) == Row("*", request, pattern, "", routine)

(* The prefixes of the two versions of the URLs. *)
Registry(v) == IF v = 0 THEN <<"ngsi9">> ELSE <<"v1", "registry">>
Context(v)  == IF v = 0 THEN <<"ngsi10">> ELSE <<"v1">>

(* A standard request is offered with POST only. *)
Standard(request, pattern, word, routine) ==
  <<Row("POST", request, pattern, word, routine), Row("*", request, pattern, word, "badVerbPostOnly")>>

REGISTRY_STANDARD_REQUESTS(v) ==
  LET P(operation) == Append(Registry(v), operation) IN
  Standard("RegisterContext", P("registerContext"), "registerContextRequest", "postRegisterContext")
  \o Standard("DiscoverContextAvailability", P("discoverContextAvailability"),
              "discoverContextAvailabilityRequest", "postDiscoverContextAvailability")
  \o Standard("SubscribeContextAvailability", P("subscribeContextAvailability"),
              "subscribeContextAvailabilityRequest", "postSubscribeContextAvailability")
  \o Standard("UnsubscribeContextAvailability", P("unsubscribeContextAvailability"),
              "unsubscribeContextAvailabilityRequest", "postUnsubscribeContextAvailability")
  \o Standard("UpdateContextAvailabilitySubscription", P("updateContextAvailabilitySubscription"),
              "updateContextAvailabilitySubscriptionRequest", "postUpdateContextAvailabilitySubscription")
  \o Standard("NotifyContextAvailability", P("notifyContextAvailability"),
              "notifyContextAvailabilityRequest", "postNotifyContextAvailability")

STANDARD_REQUESTS(v) ==
  LET P(operation) == Append(Context(v), operation) IN
  Standard("UpdateContext", P("updateContext"), "updateContextRequest", "postUpdateContext")
  \o Standard("QueryContext", P("queryContext"), "queryContextRequest", "postQueryContext")
  \o Standard("SubscribeContext", P("subscribeContext"), "subscribeContextRequest", "postSubscribeContext")
  \o Standard("UpdateContextSubscription", P("updateContextSubscription"),
              "updateContextSubscriptionRequest", "postUpdateContextSubscription")
  \o Standard("UnsubscribeContext", P("unsubscribeContext"), "unsubscribeContextRequest", "postUnsubscribeContext")
  \o Standard("NotifyContext", P("notifyContext"), "notifyContextRequest", "postNotifyContext")

-----------------------------------------------------------------------------
(* The patterns of the convenience operations of NGSI9 and of NGSI10. *)

CE(v)   == Registry(v) \o <<"contextEntities", "*">>
CEA(v)  == Append(CE(v), "attributes")
CEAA(v) == Append(CEA(v), "*")
CT(v)   == Registry(v) \o <<"contextEntityTypes", "*">>
CTA(v)  == Append(CT(v), "attributes")
CTAA(v) == Append(CTA(v), "*")
SCA(v)  == Append(Registry(v), "contextAvailabilitySubscriptions")
SCAS(v) == Append(SCA(v), "*")

ICE(v)   == Context(v) \o <<"contextEntities", "*">>
ICEA(v)  == Append(ICE(v), "attributes")
ICEAA(v) == Append(ICEA(v), "*")
AVI(v)   == Append(ICEAA(v), "*")
CET(v)   == Context(v) \o <<"contextEntityTypes", "*">>
CETA(v)  == Append(CET(v), "attributes")
CETAA(v) == Append(CETA(v), "*")
SC(v)    == Append(Context(v), "contextSubscriptions")
SCS(v)   == Append(SC(v), "*")

ACE    == <<"v1", "contextEntities">>
ACET   == ACE \o <<"type", "*", "id", "*">>
ICEAAT == ACET \o <<"attributes", "*">>
AVIT   == Append(ICEAAT, "*")
CEET   == <<"v1", "registry", "contextEntities", "type", "*", "id", "*">>
CEAAT  == CEET \o <<"attributes", "*">>
ET     == <<"v1", "contextTypes">>
AFET   == Append(ET, "*")

(* An operation of the registry: GET discovers, POST registers a provider. *)
GetPost(request, pattern, get, post) ==
  <<Row("GET", request, pattern, "", get),
    Row("POST", request, pattern, "registerProviderRequest", post),
    Bad(request, pattern, "badVerbGetPostOnly")>>

(* An operation on a subscription: PUT updates it, DELETE removes it. *)
PutDelete(request, pattern, word, put, delete) ==
  <<Row("PUT", request, pattern, word, put), Row("DELETE", request, pattern, "", delete),
    Bad(request, pattern, "badVerbPutDeleteOnly")>>

PostOnly(request, pattern, word, post) ==
  <<Row("POST", request, pattern, word, post), Bad(request, pattern, "badVerbPostOnly")>>

GetOnly(request, pattern, get) ==
  <<Row("GET", request, pattern, "", get), Bad(request, pattern, "badVerbGetOnly")>>

AllFour(request, pattern, put, post, convOp, bad) ==
  <<Row("GET", request, pattern, "", "get" \o convOp), Row("PUT", request, pattern, put, "put" \o convOp),
    Row("POST", request, pattern, post, "post" \o convOp), Row("DELETE", request, pattern, "", "delete" \o convOp),
    Bad(request, pattern, bad)>>

REGISTRY_CONVENIENCE_OPERATIONS(v) ==
  GetPost("ContextEntitiesByEntityId", CE(v), "getContextEntitiesByEntityId", "postContextEntitiesByEntityId")
  \o GetPost("ContextEntityAttributes", CEA(v), "getContextEntityAttributes", "postContextEntityAttributes")
  \o GetPost("EntityByIdAttributeByName", CEAA(v), "getEntityByIdAttributeByName", "postEntityByIdAttributeByName")
  \o GetPost("ContextEntityTypes", CT(v), "getContextEntityTypes", "postContextEntityTypes")
  \o GetPost("ContextEntityTypeAttributeContainer", CTA(v), "getContextEntityTypes", "postContextEntityTypes")
  \o GetPost("ContextEntityTypeAttribute", CTAA(v), "getContextEntityTypeAttribute", "postContextEntityTypeAttribute")
  \o PostOnly("SubscribeContextAvailability", SCA(v), "subscribeContextAvailabilityRequest",
              "postSubscribeContextAvailability")
  \o PutDelete("Ngsi9SubscriptionsConvOp", SCAS(v), "updateContextAvailabilitySubscriptionRequest",
               "putAvailabilitySubscriptionConvOp", "deleteAvailabilitySubscriptionConvOp")

CONVENIENCE_OPERATIONS(v) ==
  AllFour("IndividualContextEntity", ICE(v), "updateContextElementRequest", "appendContextElementRequest",
          "IndividualContextEntity", "badVerbAllFour")
  \o AllFour("IndividualContextEntityAttributes", ICEA(v), "updateContextElementRequest",
             "appendContextElementRequest", "IndividualContextEntityAttributes", "badVerbAllFour")
  \o AllFour("IndividualContextEntityAttribute", ICEAA(v), "updateContextAttributeRequest",
             "updateContextAttributeRequest", "IndividualContextEntityAttribute", "badVerbGetPostDeleteOnly")
  \o <<Row("GET", "AttributeValueInstance", AVI(v), "", "getAttributeValueInstance"),
       Row("PUT", "AttributeValueInstance", AVI(v), "updateContextAttributeRequest", "putAttributeValueInstance"),
       Row("DELETE", "AttributeValueInstance", AVI(v), "", "deleteAttributeValueInstance"),
       Bad("AttributeValueInstance", AVI(v), "badVerbGetPutDeleteOnly")>>
  \o GetOnly("Ngsi10ContextEntityTypes", CET(v), "getNgsi10ContextEntityTypes")
  \o GetOnly("Ngsi10ContextEntityTypesAttributeContainer", CETA(v), "getNgsi10ContextEntityTypes")
  \o GetOnly("Ngsi10ContextEntityTypesAttribute", CETAA(v), "getNgsi10ContextEntityTypesAttribute")
  \o PostOnly("SubscribeContext", SC(v), "subscribeContextRequest", "postSubscribeContext")
  \o PutDelete("Ngsi10SubscriptionsConvOp", SCS(v), "updateContextSubscriptionRequest",
               "putSubscriptionConvOp", "deleteSubscriptionConvOp")

(* The operations that only the URLs of version 1 have. *)
CONVENIENCE_OPERATIONS_V1 ==
  GetOnly("EntityTypes", ET, "getEntityTypes")
  \o GetOnly("AttributesForEntityType", AFET, "getAttributesForEntityType")
  \o <<Row("GET", "AllContextEntities", ACE, "", "getAllContextEntities"),
       Row("POST", "AllContextEntities", ACE, "appendContextElementRequest", "postIndividualContextEntity"),
       Bad("AllContextEntities", ACE, "badVerbGetOnly")>>
  \o AllFour("AllEntitiesWithTypeAndId", ACET, "updateContextElementRequest", "appendContextElementRequest",
             "AllEntitiesWithTypeAndId", "badVerbAllFour")
  \o AllFour("IndividualContextEntityAttributeWithTypeAndId", ICEAAT, "updateContextAttributeRequest",
             "updateContextAttributeRequest", "IndividualContextEntityAttributeWithTypeAndId", "badVerbAllFour")
  \o AllFour("AttributeValueInstanceWithTypeAndId", AVIT, "updateContextAttributeRequest",
             "updateContextAttributeRequest", "AttributeValueInstanceWithTypeAndId", "badVerbAllFour")
  \o GetPost("ContextEntitiesByEntityIdAndType", CEET, "getContextEntitiesByEntityIdAndType",
             "postContextEntitiesByEntityIdAndType")
  \o GetPost("EntityByIdAttributeByNameIdAndType", CEAAT, "getEntityByIdAttributeByNameWithTypeAndId",
             "postEntityByIdAttributeByNameWithTypeAndId")

(* Administration.  The trace levels have two names. *)
Admin(v) == IF v = 0 THEN <<>> ELSE <<"v1", "admin">>
LOGT(v)  == Admin(v) \o <<"log", "trace">>
LOG2T(v) == Admin(v) \o <<"log", "traceLevel">>
STAT(v)  == Append(Admin(v), "statistics")

LogRows(pattern, verb) ==
  <<Row(verb, "LogRequest", pattern, "", "logTraceTreat"),
    Row("DELETE", "LogRequest", pattern, "", "logTraceTreat"), Bad("LogRequest", pattern, "badVerbAllFour")>>

LOG_REQUESTS(v) ==
  LogRows(LOGT(v), "GET") \o LogRows(Append(LOGT(v), "*"), "PUT")
  \o LogRows(LOG2T(v), "GET") \o LogRows(Append(LOG2T(v), "*"), "PUT")

STAT_REQUESTS(v) ==
  <<Row("GET", "StatisticsRequest", STAT(v), "", "statisticsTreat"),
    Row("DELETE", "StatisticsRequest", STAT(v), "", "statisticsTreat"),
    Bad("StatisticsRequest", STAT(v), "badVerbGetDeleteOnly")>>

VERSION_REQUESTS == GetOnly("VersionRequest", <<"version">>, "versionTreat")

(* INV_ALL_COMPS matches URLs of any number of components, but has only    *)
(* six "*" to match them with.                                             *)
INVALID_REQUESTS ==
  <<Bad("InvalidRequest", <<"ngsi9", "*">>, "badNgsi9Request"),
    Bad("InvalidRequest", <<"ngsi10", "*">>, "badNgsi10Request"),
    [Bad("InvalidRequest", <<"*", "*", "*", "*", "*", "*">>, "badRequest") EXCEPT !.components = 0]>>

restServiceV ==
  REGISTRY_STANDARD_REQUESTS(0) \o REGISTRY_STANDARD_REQUESTS(1)
  \o STANDARD_REQUESTS(0) \o STANDARD_REQUESTS(1)
  \o REGISTRY_CONVENIENCE_OPERATIONS(0) \o REGISTRY_CONVENIENCE_OPERATIONS(1)
  \o CONVENIENCE_OPERATIONS(0) \o CONVENIENCE_OPERATIONS(1) \o CONVENIENCE_OPERATIONS_V1
  \o LOG_REQUESTS(0) \o LOG_REQUESTS(1) \o STAT_REQUESTS(0) \o STAT_REQUESTS(1)
  \o VERSION_REQUESTS \o INVALID_REQUESTS

-----------------------------------------------------------------------------
(* strcasecmp: the only component that the URLs of a run spell differently *)
(* from the table is the version.                                          *)
Folded(component) == IF component = "V1" THEN "v1" ELSE component

(* The test of restService() on one row. *)
Offers(row, verb, url) ==
  /\ row.components \in {0, Len(url)}
  /\ row.verb \in {"*", verb}
  /\ \A i \in DOMAIN url :
       i \in DOMAIN row.compV /\ (row.compV[i] = "*" \/ row.compV[i] = Folded(url[i]))

(* The row that serves a URL: the first that matches, 0 if none does. *)
Service(verb, url) ==
  LET rows == {i \in DOMAIN restServiceV : Offers(restServiceV[i], verb, url)}
  IN  IF rows = {} THEN 0 ELSE CHOOSE i \in rows : \A j \in rows : i <= j

-----------------------------------------------------------------------------
(* The request tables of the parsers: the vector for a request and a verb. *)

(* What the two tables have in common. *)
ParserRows ==
  {<<"RegisterContext", "POST", "Rcr">>, <<"DiscoverContextAvailability", "POST", "Dcar">>,
   <<"SubscribeContextAvailability", "POST", "Scar">>, <<"UnsubscribeContextAvailability", "POST", "Ucar">>,
   <<"UpdateContextAvailabilitySubscription", "POST", "Ucas">>, <<"NotifyContextAvailability", "POST", "Ncar">>,
   <<"QueryContext", "POST", "Qcr">>, <<"UpdateContext", "POST", "Upcr">>, <<"SubscribeContext", "POST", "Scr">>,
   <<"UnsubscribeContext", "POST", "Uncr">>, <<"UpdateContextSubscription", "POST", "Ucsr">>,
   <<"NotifyContext", "POST", "Ncr">>, <<"Ngsi9SubscriptionsConvOp", "PUT", "Ucas">>,
   <<"Ngsi10SubscriptionsConvOp", "PUT", "Ucsr">>, <<"AllContextEntities", "POST", "Acer">>,
   <<"AttributeValueInstance", "PUT", "Upcar">>}
  \cup {<<request, "POST", "Rpr">> : request \in
          {"ContextEntitiesByEntityId", "ContextEntityAttributes", "EntityByIdAttributeByName",
           "ContextEntityTypes", "ContextEntityTypeAttributeContainer", "ContextEntityTypeAttribute",
           "ContextEntitiesByEntityIdAndType", "EntityByIdAttributeByNameIdAndType"}}
  \cup UNION {{<<request, "POST", "Acer">>, <<request, "PUT", "Ucer">>} : request \in
          {"IndividualContextEntity", "IndividualContextEntityAttributes", "AllEntitiesWithTypeAndId"}}
  \cup {<<request, verb, "Upcar">> : verb \in {"POST", "PUT"}, request \in
          {"IndividualContextEntityAttribute", "IndividualContextEntityAttributeWithTypeAndId",
           "AttributeValueInstanceWithTypeAndId"}}

jsonRequest == ParserRows

(* The XML table also has rows for any verb; "" stands for no vector. *)
xmlRequest ==
  ParserRows \cup {<<"Ngsi9SubscriptionsConvOp", "POST", "Scar">>}
  \cup {<<r[1], "*", r[3]>> : r \in {r \in ParserRows : r[2] = "POST" /\ r[3] \notin {"Acer", "Upcar"}
                                     /\ r[1] \notin {"ContextEntitiesByEntityIdAndType",
                                                     "EntityByIdAttributeByNameIdAndType"}}}
  \cup {<<"AllEntitiesWithTypeAndId", "*", "Ucer">>, <<"LogRequest", "*", "">>, <<"VersionRequest", "*", "">>,
        <<"InvalidRequest", "*", "">>}

(* The row of the verb itself, else a row for any verb. *)
Lookup(table, request, verbs) ==
  LET rows == {r \in table : r[1] = request /\ r[2] \in verbs}
  IN  IF rows = {} THEN "NULL" ELSE (CHOOSE r \in rows : r[2] # "*" \/ \A o \in rows : o[2] = "*")[3]

jsonRequestGet(request, verb) == Lookup(jsonRequest, request, {verb})
xmlRequestGet(request, verb)  == Lookup(xmlRequest, request, {verb, "*"})
=============================================================================
