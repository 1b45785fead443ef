------------------------- MODULE Ngsi10ParseVectors -------------------------
(***************************************************************************)
(* The parse vectors of the NGSI10 requests (updates, queries, context     *)
(* subscriptions and notifications, and their convenience forms) in JSON   *)
(* and in XML, and of the two answers of context providers the broker      *)
(* parses (XML only).                                                      *)
(***************************************************************************)
EXTENDS ParseRows

(* The attributes of an element: name, type, value and metadata. *)
Attribute(p, by, value, metadata, mp) ==
  {New(p, "attributeP", by, "contextAttributeVector"), Value(p & value, "attributeP", "value")}
  \cup Puts(p, "attributeP", {"name", "type"})
  \cup Metadata(metadata, mp, "attributeP", "metadataVector")

----------------------------------------------------------------------------
(* updateContext *)

JCE == <<"contextElements", "contextElement">>
JCA == JCE & "attributes" & "attribute"

JsonUpcrElements ==
  {New(JCE, "ceP", "res", "contextElementVector"),
   New(JCA, "attributeP", "ceP", "contextAttributeVector"),
   Value(JCA & "value", "attributeP", "value")}
  \cup Puts(JCE, "ceP", {"id", "type", "isPattern", "attributeDomainName"})
  \cup Puts(JCA, "attributeP", {"name", "type"})

JsonUpcrMetadata ==
  Metadata(JCA & "metadatas" & "metadata", "contextMetadataP", "attributeP", "metadataVector")
  \cup Metadata(JCE & "domainMetadatas" & "domainMetadata",
                "domainMetadataP", "ceP", "domainMetadataVector")
  \cup Puts(<<>>, "res", {"updateAction"})

JsonUpcr ==
  Vector(JsonUpcrElements \cup JsonUpcrMetadata
         \cup Lists({<<"contextElements">>, JCE & "attributes", JCA & "metadatas", JCE & "domainMetadatas"}),
         {"ceP", "attributeP", "contextMetadataP", "domainMetadataP"}, TRUE)

XUPCR == <<"updateContextRequest">>
XCE   == XUPCR & "contextElementList" & "contextElement"
XCA   == XCE & "contextAttributeList" & "contextAttribute"

(* entityIdP is the address of the entity inside the element ceP. *)
XmlUpcrElements ==
  {[New(XCE, "ceP", "res", "contextElementVector") EXCEPT !.to = {"ceP", "entityIdP"}],
   Entity(Null(XCE & "entityId"), "entityIdP", "type", "isPattern"),
   [Put(XCE & "entityId" & "id", "entityIdP", "id") EXCEPT !.safe = TRUE],
   New(XCA, "attributeP", "ceP", "contextAttributeVector"),
   Value(XCA & "contextValue", "attributeP", "value")}
  \cup Puts(XCA, "attributeP", {"name", "type"})

\* The vector has no row for the update action.
XmlUpcrNoAction ==
  Metadata(XCA & "metadata" & "contextMetadata", "contextMetadataP", "attributeP", "metadataVector")
  \cup Metadata(XCE & "domainMetadata" & "contextMetadata",
                "domainMetadataP", "ceP", "domainMetadataVector")

XmlUpcrMetadata ==
  Metadata(XCA & "metadata" & "contextMetadata", "contextMetadataP", "attributeP", "metadataVector")
  \cup Metadata(XCE & "domainMetadata" & "contextMetadata",
                "domainMetadataP", "ceP", "domainMetadataVector")
  \cup Puts(XUPCR, "res", {"updateAction"})

XmlUpcr ==
  Vector(XmlUpcrElements \cup XmlUpcrMetadata
         \cup Lists({XUPCR, XUPCR & "contextElementList", XCE & "contextAttributeList",
                     XCA & "metadata", XCE & "domainMetadata"}),
         {"ceP", "entityIdP", "attributeP", "contextMetadataP", "domainMetadataP"}, TRUE)

----------------------------------------------------------------------------
(* queryContext.  The JSON treat functions of an attribute name and of an  *)
(* attribute expression set the error string when the value is empty.      *)

JsonQcrEntities ==
  JsonEntities("store") \cup {Bool(<<"attributes", "attribute">>, "res", "attributeList", "error")}

JsonQcrScopes ==
  {[r EXCEPT !.bad = IF r.sets = {"attributeExpression"} THEN "error" ELSE r.bad] :
     r \in JsonScopes(Locations)}

JsonQcrArea == Area(<<"restriction", "scopes", "scope", "value">>, "vertices", "vertice")

JsonQcr ==
  Vector(JsonQcrEntities \cup JsonQcrScopes \cup JsonQcrArea \cup JsonLists,
         {"entityIdP", "scopeP"}, TRUE)

XQCR == <<"queryContextRequest">>

XmlArea(root) ==
  Area(root & "restriction" & "scope" & "operationScope" & "scopeValue", "vertexList", "vertex")

XmlQcrEntities ==
  XmlEntities(XQCR) \cup {Put(XQCR & "attributeList" & "attribute", "res", "attributeList")}

XmlQcrScopes == XmlScopes(XQCR, Locations)

XmlQcr ==
  Vector(XmlQcrEntities \cup XmlQcrScopes \cup XmlArea(XQCR) \cup XmlLists(XQCR),
         {"entityIdP", "scopeP"}, TRUE)

----------------------------------------------------------------------------
(* subscribeContext.  Its check function does not look at the error string. *)

JsonScrEntities ==
  JsonEntities("any") \cup Puts(<<>>, "res", {"reference"})
  \cup {Put(<<"attributes", "attribute">>, "res", "attributeList"),
        Bool(<<"duration">>, "res", "duration", "store")}

JsonNotifyConditions ==
  LET nc == <<"notifyConditions", "notifyCondition">> IN
  {New(nc, "notifyConditionP", "res", "notifyConditionVector"),
   Put(nc & "condValues" & "condValue", "notifyConditionP", "condValueList")}
  \cup Puts(nc, "notifyConditionP", {"type", "restriction"})
  \cup Lists({<<"notifyConditions">>, nc & "condValues"}) \cup Puts(<<>>, "res", {"throttling"})

JsonScrScopes == JsonScopes(Locations)

JsonScrArea == Area(<<"restriction", "scopes", "scope", "value">>, "vertices", "vertice")

JsonScr ==
  Vector(JsonScrEntities \cup JsonScrScopes \cup JsonScrArea \cup JsonNotifyConditions \cup JsonLists,
         {"entityIdP", "notifyConditionP", "scopeP"}, FALSE)

XSCR == <<"subscribeContextRequest">>

XmlScrEntities ==
  XmlEntities(XSCR) \cup {Put(XSCR & "attributeList" & "attribute", "res", "attributeList")}

XmlScrScopes == XmlScopes(XSCR, Locations)

XmlScrArea == XmlArea(XSCR) \cup Puts(XSCR, "res", {"reference", "duration"})

(* The notify conditions with the fields their treat functions store. *)
XmlNotifyConditions(root, fields) ==
  LET nc == root & "notifyConditions" & "notifyCondition" IN
  {New(nc, "notifyConditionP", "res", "notifyConditionVector"),
   Put(nc & "condValueList" & "condValue", "notifyConditionP", "condValueList")}
  \cup Puts(nc, "notifyConditionP", fields)
  \cup Lists({root & "notifyConditions", nc & "condValueList"}) \cup Puts(root, "res", {"throttling"})

XmlScr ==
  Vector(XmlScrEntities \cup XmlScrScopes \cup XmlScrArea
         \cup XmlNotifyConditions(XSCR, {"type", "restriction"}) \cup XmlLists(XSCR),
         {"entityIdP", "notifyConditionP", "scopeP"}, FALSE)

----------------------------------------------------------------------------
(* updateContextSubscription.  In XML the scope type is compared with      *)
(* FIWARE_LOCATION twice, and a notify condition has no restriction.       *)

JsonUcsrScopes ==
  {Bool(<<"duration">>, "res", "duration", "store")} \cup JsonScopes(Locations)

JsonUcsrArea == JsonQcrArea \cup Puts(<<>>, "res", {"subscriptionId"})

JsonUcsr ==
  Vector(JsonUcsrScopes \cup JsonUcsrArea \cup JsonNotifyConditions
         \cup Lists({<<"restriction", "scopes">>}), {"notifyConditionP", "scopeP"}, TRUE)

XUCSR == <<"updateContextSubscriptionRequest">>

XmlUcsrScopes == XmlScopes(XUCSR, {FIWARE_LOCATION})

XmlUcsrArea == XmlArea(XUCSR) \cup Puts(XUCSR, "res", {"duration"})

XmlUcsr ==
  Vector(XmlUcsrScopes \cup XmlUcsrArea \cup XmlNotifyConditions(XUCSR, {"type"})
         \cup Puts(XUCSR, "res", {"subscriptionId"}) \cup Lists({XUCSR, XUCSR & "restriction" & "scope"}),
         {"notifyConditionP", "scopeP"}, TRUE)

----------------------------------------------------------------------------
(* unsubscribeContext.  Its check function does not look at the error      *)
(* string; the XML init function is empty.                                 *)

JsonUncr == Vector(Puts(<<>>, "res", {"subscriptionId"}), {}, FALSE)

XUNCR == <<"unsubscribeContextRequest">>

XmlUncr == Vector(Puts(XUNCR, "res", {"subscriptionId"}) \cup Lists({XUNCR}), {}, FALSE)

----------------------------------------------------------------------------
(* notifyContext.  In XML the domain metadata is accepted and not stored.  *)

JCER == <<"contextResponses", "contextResponse">>
JNCE == JCER & "contextElement"

JsonNcrElements ==
  {New(JCER, "cerP", "res", "contextElementResponseVector"),
   Bool(JNCE & "isPattern", "cerP", "isPattern", "store"),
   New(JNCE & "attributes" & "attribute", "attributeP", "cerP", "contextAttributeVector"),
   Value(JNCE & "attributes" & "attribute" & "value", "attributeP", "value")}
  \cup Puts(<<>>, "res", {"subscriptionId", "originator"})
  \cup Puts(JNCE, "cerP", {"id", "type", "attributeDomainName"})
  \cup Puts(JNCE & "attributes" & "attribute", "attributeP", {"name", "type"})

JsonNcrMetadata ==
  Puts(JCER & "statusCode", "cerP", {"code", "reasonPhrase", "details"})
  \cup Metadata(JNCE & "attributes" & "attribute" & "metadatas" & "metadata",
                "attributeMetadataP", "attributeP", "metadataVector")
  \cup Metadata(JNCE & "metadatas" & "metadata", "domainMetadataP", "cerP", "domainMetadataVector")

JsonNcr ==
  Vector(JsonNcrElements \cup JsonNcrMetadata
         \cup Lists({<<"contextResponses">>, JNCE, JNCE & "attributes", JNCE & "metadatas",
                     JNCE & "attributes" & "attribute" & "metadatas", JCER & "statusCode"}),
         {"cerP", "attributeP", "attributeMetadataP", "domainMetadataP"}, TRUE)

(* What the notification and the two answers of a provider have in common: *)
(* the responses, their entity, their attributes and their status codes.   *)
XCER(root) == root & "contextResponseList" & "contextElementResponse"

XmlResponseEntities(root) ==
  {New(XCER(root), "cerP", "res", "contextElementResponseVector"),
   Entity(Null(XCER(root) & "contextElement" & "entityId"), "cerP", "type", "isPattern"),
   [Put(XCER(root) & "contextElement" & "entityId" & "id", "cerP", "id") EXCEPT !.safe = TRUE]}

XmlResponseAttributes(root, mp) ==
  LET attribute == XCER(root) & "contextElement" & "contextAttributeList" & "contextAttribute" IN
  Attribute(attribute, "cerP", "contextValue", attribute & "metadata" & "contextMetadata", mp)
  \cup Puts(XCER(root) & "statusCode", "cerP", {"code", "reasonPhrase", "details"})

XmlResponseLists(root) ==
  LET element == XCER(root) & "contextElement" IN
  Lists({root, root & "contextResponseList", element, element & "contextAttributeList",
         element & "contextAttributeList" & "contextAttribute" & "metadata", XCER(root) & "statusCode"})

XNCRQ == <<"notifyContextRequest">>

XmlNcrElements ==
  XmlResponseEntities(XNCRQ) \cup Puts(XNCRQ, "res", {"subscriptionId", "originator"})
  \cup Puts(XCER(XNCRQ) & "contextElement", "cerP", {"attributeDomainName"})

XmlNcrAttributes == XmlResponseAttributes(XNCRQ, "attributeMetadataP")

XmlNcr ==
  LET domain == XCER(XNCRQ) & "contextElement" & "domainMetadata" IN
  Vector(XmlNcrElements \cup XmlNcrAttributes \cup XmlResponseLists(XNCRQ)
         \cup Lists({domain, domain & "contextMetadata"}
                    \cup {domain & "contextMetadata" & f : f \in {"name", "type", "value"}}),
         {"cerP", "attributeP", "attributeMetadataP", "domainMetadataP"}, TRUE)

----------------------------------------------------------------------------
(* The answers of context providers.  Their init functions null no cursor. *)

XQCRS == <<"queryContextResponse">>

XmlQcrsElements ==
  XmlResponseEntities(XQCRS) \cup XmlResponseAttributes(XQCRS, "metadataP")

XmlQcrs ==
  Vector(XmlQcrsElements \cup XmlResponseLists(XQCRS) \cup Lists({XQCRS & "errorCode"})
         \cup Puts(XQCRS & "errorCode", "res", {"code", "reasonPhrase", "details"}), {}, TRUE)

XUPCRS == <<"updateContextResponse">>

XmlUpcrsElements ==
  XmlResponseEntities(XUPCRS) \cup XmlResponseAttributes(XUPCRS, "metadataP")

XmlUpcrs ==
  Vector(XmlUpcrsElements \cup XmlResponseLists(XUPCRS) \cup Lists({XUPCRS & "errorCode"})
         \cup Puts(XUPCRS & "errorCode", "res", {"code", "reasonPhrase", "details"}), {}, TRUE)

----------------------------------------------------------------------------
(* The convenience forms: append to an entity, update its attributes,      *)
(* update one attribute.                                                   *)

JsonAcerAttributes ==
  Attribute(<<"attributes", "attribute">>, "res", "value",
            <<"attributes", "attribute", "metadatas", "metadata">>, "metadataP")
  \cup Puts(<<>>, "res", {"attributeDomainName"})

JsonAcer ==
  Vector(JsonAcerAttributes
         \cup Metadata(<<"metadatas", "metadata">>, "domainMetadataP", "res", "domainMetadataVector")
         \cup Puts(<<>>, "res", {"id", "type"}) \cup {Bool(<<"isPattern">>, "res", "isPattern", "drop")}
         \cup Lists({<<"attributes">>, <<"attributes", "attribute", "metadatas">>, <<"metadatas">>}),
         {"attributeP", "metadataP", "domainMetadataP"}, TRUE)

XACER == <<"appendContextElementRequest">>

(* The attributes directly under the root, as XML writes them. *)
XmlAttributes(root) ==
  LET attribute == root & "contextAttributeList" & "contextAttribute" IN
  Attribute(attribute, "res", "contextValue", attribute & "metadata" & "contextMetadata", "metadataP")
  \cup Lists({root, root & "contextAttributeList", attribute & "metadata"})

XmlAcerAttributes == XmlAttributes(XACER) \cup Puts(XACER, "res", {"attributeDomainName"})

XmlAcer ==
  Vector(XmlAcerAttributes
         \cup Metadata(XACER & "domainMetadata" & "contextMetadata",
                       "domainMetadataP", "res", "domainMetadataVector")
         \cup {Entity(Null(XACER & "entityId"), "res", "type", "isPattern"),
               Put(XACER & "entityId" & "id", "res", "id"), Null(XACER & "domainMetadata")},
         {"attributeP", "metadataP", "domainMetadataP"}, TRUE)

JsonUcer ==
  Vector(Attribute(<<"attributes", "attribute">>, "res", "value",
                   <<"attributes", "attribute", "metadatas", "metadata">>, "metadataP")
         \cup Puts(<<>>, "res", {"attributeDomainName"})
         \cup Lists({<<"attributes">>, <<"attributes", "attribute", "metadatas">>}),
         {"attributeP", "metadataP"}, TRUE)

XUCER == <<"updateContextElementRequest">>

XmlUcer ==
  Vector(XmlAttributes(XUCER) \cup Puts(XUCER, "res", {"attributeDomainName"}),
         {"attributeP", "metadataP"}, TRUE)

(* The init functions are empty. *)
JsonUpcar ==
  Vector(Metadata(<<"metadatas", "metadata">>, "metadataP", "res", "metadataVector")
         \cup Puts(<<>>, "res", {"type"}) \cup {Value(<<"value">>, "res", "contextValue")}
         \cup Lists({<<"metadatas">>}), {}, TRUE)

XUPCAR == <<"updateContextAttributeRequest">>

XmlUpcar ==
  Vector(Metadata(XUPCAR & "metadata" & "contextMetadata", "metadataP", "res", "metadataVector")
         \cup Puts(XUPCAR, "res", {"type", "contextValue"}) \cup Lists({XUPCAR, XUPCAR & "metadata"}),
         {}, TRUE)
=============================================================================
