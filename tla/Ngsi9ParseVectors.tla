------------------------- MODULE Ngsi9ParseVectors -------------------------
(***************************************************************************)
(* The parse vectors of the NGSI9 requests (registrations, discovery,      *)
(* availability subscriptions and notifications) in JSON and in XML, one   *)
(* group of rows per group of treat functions.  The vector of a request    *)
(* also says which cursors its init function sets to NULL, and whether its *)
(* check function looks at the error string the treat functions may leave. *)
(***************************************************************************)
EXTENDS ParseRows

----------------------------------------------------------------------------
(* registerContext in JSON *)

JCR == <<"contextRegistrations", "contextRegistration">>

JsonRcrEntities ==
  {New(JCR, "crP", "res", "contextRegistrationVector"),
   New(JCR & "entities" & "entity", "entityIdP", "crP", "entityIdVector"),
   Bool(JCR & "entities" & "entity" & "isPattern", "entityIdP", "isPattern", "drop"),
   New(JCR & "attributes" & "attribute", "attributeP", "crP", "contextRegistrationAttributeVector"),
   Bool(JCR & "attributes" & "attribute" & "isDomain", "attributeP", "isDomain", "drop")}
  \cup Puts(JCR & "entities" & "entity", "entityIdP", {"id", "type"})
  \cup Puts(JCR & "attributes" & "attribute", "attributeP", {"name", "type"})

JsonRcrMetadata ==
  Metadata(JCR & "attributes" & "attribute" & "metadatas" & "metadata",
           "attributeMetadataP", "attributeP", "metadataVector")
  \cup Metadata(JCR & "metadatas" & "metadata",
                "registrationMetadataP", "crP", "registrationMetadataVector")
  \cup Puts(JCR, "crP", {"providingApplication"}) \cup Puts(<<>>, "res", {"duration"})

(* The association of a registration metadata: the fields of its source    *)
(* and target entities.                                                    *)
JsonRcrAssociation ==
  LET value  == JCR & "metadatas" & "metadata" & "value"
      m      == "registrationMetadataP"
  IN  {[Null(value & "source") EXCEPT !.of = m, !.sets = {"source.id", "source.type", "source.isPattern"}],
       [Null(value & "target") EXCEPT !.of = m, !.sets = {"target.id", "target.type", "target.isPattern"}],
       Put(value & "source" & "id", m, "source.id"), Put(value & "target" & "id", m, "target.id"),
       Put(value & "source" & "type", m, "source.type"),
       Put(value & "target" & "type", m, "target.type"),
       Bool(value & "source" & "isPattern", m, "source.isPattern", "drop"),
       Bool(value & "target" & "isPattern", m, "target.isPattern", "drop")}
      \cup Puts(<<>>, "res", {"registrationId"})

JsonRcr ==
  LET list == JCR & "metadatas" & "metadata" & "value" & "associations" IN
  Vector(JsonRcrEntities \cup JsonRcrMetadata \cup JsonRcrAssociation
         \cup {New(list & "association", "attributeAssociationP", "registrationMetadataP",
                   "attributeAssociationList")}
         \cup Puts(list & "association", "attributeAssociationP", {"source", "target"})
         \cup Lists({<<"contextRegistrations">>, JCR & "entities", JCR & "attributes",
                     JCR & "attributes" & "attribute" & "metadatas", JCR & "metadatas", list}),
         {"crP", "entityIdP", "attributeP", "attributeMetadataP", "registrationMetadataP"}, TRUE)

----------------------------------------------------------------------------
(* registerContext in XML *)

XRCR == <<"registerContextRequest">>
XCR  == XRCR & "contextRegistrationList" & "contextRegistration"
XCRA == XCR & "contextRegistrationAttributeList" & "contextRegistrationAttribute"
XRMD == XCR & "registrationMetadata" & "contextMetadata"

XmlRcrEntities ==
  {New(XCR, "crP", "res", "contextRegistrationVector"),
   Entity(New(XCR & "entityIdList" & "entityId", "entityIdP", "crP", "entityIdVector"),
          "entityIdP", "type", "isPattern"),
   [Put(XCR & "entityIdList" & "entityId" & "id", "entityIdP", "id") EXCEPT !.safe = TRUE],
   New(XCRA, "attributeP", "crP", "contextRegistrationAttributeVector")}
  \cup Puts(XCRA, "attributeP", {"name", "type", "isDomain"})
  \cup Metadata(XCRA & "metadata" & "contextMetadata",
                "attributeMetadataP", "attributeP", "metadataVector")

XmlRcrMetadata ==
  Metadata(XRMD, "registrationMetadataP", "crP", "registrationMetadataVector")
  \cup Puts(XCR, "crP", {"providingApplication"}) \cup Puts(XRCR, "res", {"duration", "registrationId"})
  \cup {Entity(Null(XRMD & "value" & "entityAssociation" & "sourceEntityId"),
               "registrationMetadataP", "source.type", "source.isPattern"),
        Put(XRMD & "value" & "entityAssociation" & "sourceEntityId" & "id",
            "registrationMetadataP", "source.id")}

(* A second entityIdList in one registration is an error, found through    *)
(* entityIdVectorPresent; the first one only sets that flag.               *)
XmlRcrAssociation ==
  LET aa == XRMD & "value" & "attributeAssociationList" & "attributeAssociation" IN
  {Entity(Null(XRMD & "value" & "entityAssociation" & "targetEntityId"),
          "registrationMetadataP", "target.type", "target.isPattern"),
   Put(XRMD & "value" & "entityAssociation" & "targetEntityId" & "id",
       "registrationMetadataP", "target.id"),
   New(aa, "attributeAssociationP", "registrationMetadataP", "attributeAssociationList"),
   Put(aa & "sourceAttribute", "attributeAssociationP", "source"),
   Put(aa & "targetAttribute", "attributeAssociationP", "target"),
   Bool(XCR & "entityIdList", "crP", "entityIdVectorPresent", "error")}

XmlRcr ==
  Vector(XmlRcrEntities \cup XmlRcrMetadata \cup XmlRcrAssociation
         \cup Lists({XRCR, XRCR & "contextRegistrationList", XCR & "registrationMetadata",
                     XCR & "contextRegistrationAttributeList", XCRA & "metadata",
                     XRMD & "value" & "entityAssociation",
                     XRMD & "value" & "attributeAssociationList"}),
         {"crP", "entityIdP", "attributeP", "attributeMetadataP", "registrationMetadataP"}, TRUE)

----------------------------------------------------------------------------
(* discoverContextAvailability *)

JsonDcarEntities ==
  JsonEntities("store")
  \cup {Put(<<"attributes", "attribute">>, "res", "attributeList")}

JsonDcar ==
  Vector(JsonDcarEntities \cup JsonScopes({}) \cup JsonLists, {"entityIdP", "scopeP"}, TRUE)

XDCAR == <<"discoverContextAvailabilityRequest">>

XmlDcarEntities ==
  XmlEntities(XDCAR)
  \cup {Put(XDCAR & "attributeList" & "attribute", "res", "attributeList")}

XmlDcar ==
  Vector(XmlDcarEntities \cup XmlScopes(XDCAR, {}) \cup XmlLists(XDCAR), {"entityIdP", "scopeP"}, TRUE)

----------------------------------------------------------------------------
(* subscribeContextAvailability.  The treat function of the JSON duration  *)
(* returns an error text for an invalid one, which stays stored.           *)

JsonScarEntities ==
  JsonEntities("drop")
  \cup {Put(<<"attributes", "attribute">>, "res", "attributeList"),
        Put(<<"reference">>, "res", "reference"), Bool(<<"duration">>, "res", "duration", "store")}

JsonScar ==
  Vector(JsonScarEntities \cup JsonScopes({}) \cup JsonLists, {"entityIdP", "scopeP"}, TRUE)

XSCAR == <<"subscribeContextAvailabilityRequest">>

XmlScarEntities ==
  XmlEntities(XSCAR)
  \cup {Put(XSCAR & "attributeList" & "attribute", "res", "attributeList"),
        Put(XSCAR & "reference", "res", "reference")}

XmlScar ==
  Vector(XmlScarEntities \cup XmlScopes(XSCAR, {}) \cup Puts(XSCAR, "res", {"duration"})
         \cup XmlLists(XSCAR), {"entityIdP", "scopeP"}, TRUE)

----------------------------------------------------------------------------
(* updateContextAvailabilitySubscription.  The XML init function leaves    *)
(* entityIdP as it is.                                                     *)

JsonUcasEntities ==
  JsonEntities("error") \cup Puts(<<>>, "res", {"duration"})
  \cup {Put(<<"attributes", "attribute">>, "res", "attributeList")}

JsonUcas ==
  Vector(JsonUcasEntities \cup JsonScopes({}) \cup Puts(<<>>, "res", {"subscriptionId"}) \cup JsonLists,
         {"entityIdP", "scopeP"}, TRUE)

XUCAS == <<"updateContextAvailabilitySubscriptionRequest">>

XmlUcasEntities ==
  XmlEntities(XUCAS)
  \cup {Put(XUCAS & "attributeList" & "attribute", "res", "attributeList")}

XmlUcas ==
  Vector(XmlUcasEntities \cup XmlScopes(XUCAS, {}) \cup Puts(XUCAS, "res", {"duration", "subscriptionId"})
         \cup XmlLists(XUCAS), {"scopeP"}, TRUE)

----------------------------------------------------------------------------
(* unsubscribeContextAvailability: the XML init function is empty *)

JsonUcar == Vector(Puts(<<>>, "res", {"subscriptionId"}), {}, TRUE)

XUCAR == <<"unsubscribeContextAvailabilityRequest">>

XmlUcar == Vector(Puts(XUCAR, "res", {"subscriptionId"}) \cup Lists({XUCAR}), {}, TRUE)

----------------------------------------------------------------------------
(* notifyContextAvailability *)

JCRR  == <<"contextRegistrationResponses", "contextRegistrationResponse">>
JNCR  == JCRR & "contextRegistration"

JsonNcarEntities ==
  {New(JCRR, "crrP", "res", "contextRegistrationResponseVector"),
   New(JNCR & "entities" & "entity", "entityIdP", "crrP", "entityIdVector"),
   New(JNCR & "attributes" & "attribute", "craP", "crrP", "contextRegistrationAttributeVector")}
  \cup Puts(<<>>, "res", {"subscriptionId"})
  \cup Puts(JNCR & "entities" & "entity", "entityIdP", {"id", "type", "isPattern"})
  \cup Puts(JNCR & "attributes" & "attribute", "craP", {"name", "type", "isDomain"})

JsonNcarMetadata ==
  Metadata(JNCR & "attributes" & "attribute" & "metadatas" & "metadata",
           "attributeMetadataP", "craP", "metadataVector")
  \cup Metadata(JNCR & "metadatas" & "metadata", "regMetadataP", "crrP", "registrationMetadataVector")
  \cup Puts(JNCR, "crrP", {"providingApplication"})

JsonNcar ==
  Vector(JsonNcarEntities \cup JsonNcarMetadata
         \cup Lists({<<"contextRegistrationResponses">>, JNCR, JNCR & "entities", JNCR & "attributes",
                     JNCR & "attributes" & "attribute" & "metadatas", JNCR & "metadatas"}),
         {"crrP", "entityIdP", "craP", "attributeMetadataP", "regMetadataP"}, TRUE)

XNCAR == <<"notifyContextAvailabilityRequest">>
XCRR  == XNCAR & "contextRegistrationResponseList" & "contextRegistrationResponse"
XNCR  == XCRR & "contextRegistration"
XNCRA == XNCR & "contextRegistrationAttributeList" & "contextRegistrationAttribute"

XmlNcarEntities ==
  {New(XCRR, "crrP", "res", "contextRegistrationResponseVector"),
   Entity(New(XNCR & "entityIdList" & "entityId", "entityIdP", "crrP", "entityIdVector"),
          "entityIdP", "type", "isPattern"),
   [Put(XNCR & "entityIdList" & "entityId" & "id", "entityIdP", "id") EXCEPT !.safe = TRUE]}
  \cup Puts(XNCAR, "res", {"subscriptionId"})

XmlNcarAttributes ==
  {New(XNCRA, "craP", "crrP", "contextRegistrationAttributeVector")}
  \cup Puts(XNCRA, "craP", {"name", "type", "isDomain"})
  \cup Metadata(XNCRA & "metadata" & "contextMetadata", "attributeMetadataP", "craP", "metadataVector")
  \cup {New(XNCR & "registrationMetadata" & "contextMetadata",
            "regMetadataP", "crrP", "registrationMetadataVector")}

XmlNcar ==
  Vector(XmlNcarEntities \cup XmlNcarAttributes
         \cup Puts(XNCR & "registrationMetadata" & "contextMetadata", "regMetadataP",
                   {"name", "type", "value"})
         \cup Puts(XNCR, "crrP", {"providingApplication"})
         \cup Lists({XNCAR, XNCAR & "contextRegistrationResponseList", XNCR, XNCR & "entityIdList",
                     XNCR & "contextRegistrationAttributeList", XNCRA & "metadata",
                     XNCR & "registrationMetadata"}),
         {"crrP", "entityIdP", "craP", "attributeMetadataP", "regMetadataP"}, TRUE)

----------------------------------------------------------------------------
(* The convenience registration of a provider, and the answer to a         *)
(* registration (XML only).                                                *)

JsonRpr ==
  Vector(Metadata(<<"metadatas", "metadata">>, "metadataP", "res", "metadataVector")
         \cup Puts(<<>>, "res", {"duration", "providingApplication", "registrationId"})
         \cup Lists({<<"metadatas">>}), {"metadataP"}, TRUE)

XRPR == <<"registerProviderRequest">>

XmlRpr ==
  Vector(Metadata(XRPR & "metadata" & "contextMetadata", "metadataP", "res", "metadataVector")
         \cup Puts(XRPR, "res", {"duration", "providingApplication", "registrationId"})
         \cup Lists({XRPR, XRPR & "metadata"}), {"metadataP"}, TRUE)

XRCRS == <<"registerContextResponse">>

XmlRcrs ==
  Vector(Puts(XRCRS, "res", {"duration", "registrationId"})
         \cup Puts(XRCRS & "errorCode", "res", {"code", "reasonPhrase", "details"})
         \cup Lists({XRCRS, XRCRS & "errorCode"}), {}, TRUE)
=============================================================================
