----------------------------- MODULE NgsiRender -----------------------------
(***************************************************************************)
(* The render() methods of the messages the broker sends: the requests it  *)
(* sends to subscribers, context providers and other brokers, and its      *)
(* answers.  A rendered text is a sequence of items.  An item keeps what   *)
(* startTag(), endTag() and valueTag() write:                              *)
(*   xml, end     the start and end tags of XML                            *)
(*   key          the name JSON writes in front ("" if none)               *)
(*   open, close  the brackets of JSON ("" for a value)                    *)
(*   comma        JSON writes a comma after it                             *)
(*   kids         the items between start and end                          *)
(* Indentation, values and their escaping are left out.                    *)
(*                                                                         *)
(* ci is the part of ConnectionInfo that render() reads: outFormat, and    *)
(* whether the URI parameters attributeFormat=object and collapse=true are *)
(* given.                                                                  *)
(***************************************************************************)
EXTENDS SequencesExt, Integers

startTag(tag, showTag) == [xml |-> tag, key |-> IF showTag THEN tag ELSE "", open |-> "{"]

(* The form with a name for each format. *)
startTags(xmlTag, jsonTag, isVector, showTag) ==
  [xml |-> xmlTag, key |-> IF showTag THEN jsonTag ELSE "", open |-> IF isVector THEN "[" ELSE "{"]

endTag(tag, comma, isVector) ==
  [end |-> tag, close |-> IF isVector THEN "]" ELSE "}", comma |-> comma]

Element(start, kids, end) ==
  <<[xml |-> start.xml, key |-> start.key, open |-> start.open, kids |-> kids,
     end |-> end.end, close |-> end.close, comma |-> end.comma]>>

valueTag(tag, comma) ==
  <<[xml |-> tag, key |-> tag, open |-> "", kids |-> <<>>, end |-> tag, close |-> "", comma |-> comma]>>

(* The string types: nothing is rendered for an empty one. *)
String(s, tag, comma) == IF s = "" THEN <<>> ELSE valueTag(tag, comma)

(* The loop of the vectors: a comma after every element but the last. *)
Loop(vec, Render(_, _)) ==
  FlattenSeq([ix \in 1..Len(vec) |-> Render(vec[ix], ix # Len(vec))])

(* The vectors of objects; an empty one renders nothing. *)
RenderVector(vec, xmlTag, jsonTag, comma, Render(_, _)) ==
  IF vec = <<>> THEN <<>>
  ELSE Element(startTags(xmlTag, jsonTag, TRUE, TRUE), Loop(vec, Render), endTag(xmlTag, comma, TRUE))

----------------------------------------------------------------------------
(* EntityId::render: in XML the type and isPattern are attributes of the   *)
(* tag; in JSON the three fields are written into the object around.       *)
EntityIdRender(ci, tag, comma, isInVector, assocTag) ==
  IF ci.outFormat = "XML"
    THEN Element(startTag(tag, TRUE), valueTag("id", FALSE), endTag(tag, comma, FALSE))
    ELSE LET fields(last) == valueTag("type", TRUE) \o valueTag("isPattern", TRUE) \o valueTag("id", last)
         IN  IF isInVector
               THEN Element([startTag(assocTag, TRUE) EXCEPT !.xml = tag], fields(FALSE), endTag(tag, comma, FALSE))
               ELSE fields(comma)

EntityIdVectorRender(ci, vec, comma) ==
  LET Render(e, c) == EntityIdRender(ci, "entityId", c, TRUE, "")
  IN  RenderVector(vec, "entityIdList", "entities", comma, Render)

AttributeListRender(list, comma) ==
  LET Render(a, c) == valueTag("attribute", c)
  IN  IF list = <<>> THEN <<>>
      ELSE Element(startTag("attributeList", TRUE), Loop(list, Render), endTag("attributeList", comma, FALSE))

AttributeAssociationRender(ci, a, comma) ==
  LET tag(xml, json) == IF ci.outFormat = "XML" THEN xml ELSE json
  IN  Element(startTag("attributeAssociation", FALSE),
              valueTag(tag("sourceAttribute", "source"), a.target # "")
              \o valueTag(tag("targetAttribute", "target"), FALSE),
              endTag("attributeAssociation", comma, FALSE))

AttributeAssociationListRender(ci, vec, comma) ==
  LET Render(a, c) == AttributeAssociationRender(ci, a, c)
  IN  RenderVector(vec, "attributeAssociationList", "attributeAssociations", comma, Render)

EntityAssociationRender(ci, comma) ==
  Element(startTags("entityAssociation", "entities", FALSE, TRUE),
          EntityIdRender(ci, "sourceEntityId", TRUE, TRUE, "source")
          \o EntityIdRender(ci, "targetEntityId", FALSE, TRUE, "target"),
          endTag("entityAssociation", comma, FALSE))

(* Association::render: only JSON writes something around the two parts. *)
AssociationRender(ci, vec) ==
  EntityAssociationRender(ci, vec # <<>>) \o AttributeAssociationListRender(ci, vec, FALSE)

(* Metadata::render: the value of an association is the rendered           *)
(* association, in JSON the object it renders.                             *)
MetadataRender(ci, md, comma) ==
  LET value == IF md.type = "Association"
                 THEN Element(startTag("value", TRUE), AssociationRender(ci, md.association), endTag("value", FALSE, FALSE))
                 ELSE valueTag("value", FALSE)
  IN  Element(startTags("contextMetadata", "contextMetadata", FALSE, FALSE),
              valueTag("name", TRUE) \o valueTag("type", TRUE) \o value,
              endTag("contextMetadata", comma, FALSE))

MetadataVectorRender(ci, vec, tag, comma) ==
  LET Render(md, c) == MetadataRender(ci, md, c)
  IN  RenderVector(vec, tag, "metadatas", comma, Render)

----------------------------------------------------------------------------
(* CompoundValueNode::render: a node is a String, a Vector or an Object,   *)
(* and only the members of an Object have names.                           *)
RECURSIVE CompoundRender(_, _, _)
CompoundRender(node, container, comma) ==
  LET inVector == container = "Vector"
      tagName  == IF inVector THEN "item" ELSE node.name
      Child(child, c) == CompoundRender(child, node.type, c)
  IN  IF node.type = "String"
        THEN [valueTag(tagName, comma) EXCEPT ![1].key = IF inVector THEN "" ELSE @]
        ELSE Element(startTags(tagName, tagName, node.type = "Vector", ~inVector), Loop(node.childV, Child),
                     endTag(tagName, comma, node.type = "Vector"))

NoCompound == [type |-> "none", childV |-> <<>>]

(* The value of an attribute.  The children of a compound are rendered     *)
(* between the tags of the value.                                          *)
ValueRender(ci, ca, comma, omitValue) ==
  LET root == ca.compoundValueP
      isCompoundVector == root.type = "Vector"
      Child(child, c) == CompoundRender(child, root.type, c)
  IN  CASE root # NoCompound -> Element(startTags("contextValue", "value", isCompoundVector, TRUE),
                                        Loop(root.childV, Child), endTag("contextValue", comma, isCompoundVector))
        [] root = NoCompound /\ omitValue -> <<>>
        [] OTHER -> valueTag(IF ci.outFormat = "XML" THEN "contextValue" ELSE "value", comma)

renderAsJsonObject(ci, ca, comma, omitValue) ==
  LET commaAfterContextValue == ca.metadataVector # <<>>
      commaAfterType         == ~omitValue \/ commaAfterContextValue
  IN  Element(startTags("", ca.name, FALSE, TRUE),
              valueTag("type", commaAfterType)
              \o ValueRender(ci, ca, commaAfterContextValue, omitValue)
              \o IF omitValue THEN <<>> ELSE MetadataVectorRender(ci, ca.metadataVector, "metadata", FALSE),
              endTag("", comma, FALSE))

\* The value is given no comma although the metadata follow.
ContextAttributeNoComma(ci, ca, comma, omitValue) ==
  Element(startTags("contextAttribute", "attribute", FALSE, FALSE),
          valueTag("name", ~omitValue \/ ca.type # "") \o valueTag("type", ~omitValue)
          \o ValueRender(ci, ca, FALSE, omitValue) \o MetadataVectorRender(ci, ca.metadataVector, "metadata", FALSE),
          endTag("contextAttribute", comma, FALSE))

ContextAttributeRender(ci, ca, comma, omitValue) ==
  LET commaAfterContextValue == ca.metadataVector # <<>>
      commaAfterType         == ~omitValue \/ commaAfterContextValue
      commaAfterName         == commaAfterType \/ ca.type # ""
  IN  IF ci.object /\ ci.outFormat = "JSON" THEN renderAsJsonObject(ci, ca, comma, omitValue)
      ELSE Element(startTags("contextAttribute", "attribute", FALSE, FALSE),
                   valueTag("name", commaAfterName) \o valueTag("type", commaAfterType)
                   \o ValueRender(ci, ca, commaAfterContextValue, omitValue)
                   \o MetadataVectorRender(ci, ca.metadataVector, "metadata", FALSE),
                   endTag("contextAttribute", comma, FALSE))

(* The names already added are looked up and their copies erased.  The     *)
(* loop steps on after an erase, past the element that moved into place.   *)
RemoveCopies(vec) ==
  LET Step(acc, ca) ==
        CASE acc.skip -> [acc EXCEPT !.vec = Append(@, ca), !.skip = FALSE]
          [] ~acc.skip /\ ca.name \in acc.added -> [acc EXCEPT !.skip = TRUE]
          [] OTHER -> [acc EXCEPT !.vec = Append(@, ca), !.added = @ \cup {ca.name}]
  IN  FoldLeft(Step, [vec |-> <<>>, added |-> {}, skip |-> FALSE], vec).vec

ContextAttributeVectorRender(ci, vec, request, comma, omitValue) ==
  LET asObject == ci.object /\ ci.outFormat = "JSON"
      Render(ca, c) == ContextAttributeRender(ci, ca, c, omitValue)
  IN  CASE vec = <<>> ->
             IF ci.outFormat = "XML" /\ request \in {"IndividualContextEntityAttribute", "AttributeValueInstance",
                                                   "IndividualContextEntityAttributes"}
               THEN Element(startTag("contextAttributeList", TRUE), <<>>, endTag("contextAttributeList", FALSE, FALSE))
               ELSE <<>>
        [] vec # <<>> /\ asObject ->
             Element(startTags("contextAttributeList", "attributes", FALSE, TRUE), Loop(RemoveCopies(vec), Render),
                     endTag("contextAttributeList", comma, FALSE))
        [] OTHER -> RenderVector(vec, "contextAttributeList", "attributes", comma, Render)

ContextElementRender(ci, ce, request, comma) ==
  LET commaAfterAttributes == ce.domainMetadataVector # <<>>
      commaAfterDomainName == commaAfterAttributes \/ ce.contextAttributeVector # <<>>
      commaAfterEntityId   == commaAfterDomainName \/ ce.attributeDomainName # ""
  IN  Element(startTags("contextElement", "contextElement", FALSE, TRUE),
              EntityIdRender(ci, "entityId", commaAfterEntityId, FALSE, "")
              \o String(ce.attributeDomainName, "attributeDomainName", commaAfterDomainName)
              \o ContextAttributeVectorRender(ci, ce.contextAttributeVector, request, commaAfterAttributes, FALSE)
              \o MetadataVectorRender(ci, ce.domainMetadataVector, "registrationMetadata", FALSE),
              endTag("contextElement", comma, FALSE))

(* ContextElementVector::render ends its JSON vector as an object. *)
ContextElementVectorRender(ci, vec, comma) ==
  LET Render(ce, c) == ContextElementRender(ci, ce, "UpdateContext", c)
  IN  IF vec = <<>> THEN <<>>
      ELSE Element(startTags("contextElementList", "contextElements", TRUE, TRUE), Loop(vec, Render),
                   endTag("contextElementList", comma, FALSE))

(* StatusCode::render: a code that was never filled is rendered as 500     *)
(* with details.                                                           *)
StatusCodeRender(sc, tag, comma, showTag) ==
  LET details == sc.details # "" \/ sc.code = "SccNone"
  IN  Element(startTag(tag, showTag),
              valueTag("code", TRUE) \o valueTag("reasonPhrase", details)
              \o IF details THEN valueTag("details", FALSE) ELSE <<>>,
              endTag(tag, comma, FALSE))

ContextElementResponseRender(ci, cer, request, comma) ==
  Element(startTags("contextElementResponse", "contextElement", FALSE, FALSE),
          ContextElementRender(ci, cer.contextElement, request, TRUE)
          \o StatusCodeRender(cer.statusCode, "statusCode", FALSE, TRUE),
          endTag("contextElementResponse", comma, FALSE))

ContextElementResponseVectorRender(ci, vec, request, comma) ==
  LET Render(cer, c) == ContextElementResponseRender(ci, cer, request, c)
  IN  RenderVector(vec, "contextResponseList", "contextResponses", comma, Render)

----------------------------------------------------------------------------
(* Registrations *)

ContextRegistrationAttributeRender(ci, cra, comma) ==
  Element(startTags("contextRegistrationAttribute", "registrationAttribute", FALSE, FALSE),
          valueTag("name", TRUE) \o valueTag("type", TRUE) \o valueTag("isDomain", cra.metadataVector # <<>>)
          \o MetadataVectorRender(ci, cra.metadataVector, "metadata", FALSE),
          endTag("contextRegistrationAttribute", comma, FALSE))

ContextRegistrationAttributeVectorRender(ci, vec, comma) ==
  LET Render(cra, c) == ContextRegistrationAttributeRender(ci, cra, c)
  IN  RenderVector(vec, "contextRegistrationAttributeList", "attributes", comma, Render)

ContextRegistrationRender(ci, cr, comma, isInVector) ==
  Element(startTag("contextRegistration", ~isInVector),
          EntityIdVectorRender(ci, cr.entityIdVector, TRUE)
          \o ContextRegistrationAttributeVectorRender(ci, cr.contextRegistrationAttributeVector, TRUE)
          \o MetadataVectorRender(ci, cr.registrationMetadataVector, "registrationMetadata", TRUE)
          \o String(cr.providingApplication, "providingApplication", FALSE),
          endTag("contextRegistration", comma, FALSE))

(* ContextRegistrationVector::render ends its JSON vector as a vector only *)
(* if something follows.                                                   *)
ContextRegistrationVectorRender(ci, vec, comma) ==
  LET Render(cr, c) == ContextRegistrationRender(ci, cr, c, TRUE)
  IN  IF vec = <<>> THEN <<>>
      ELSE Element(startTags("contextRegistrationList", "contextRegistrations", TRUE, TRUE), Loop(vec, Render),
                   endTag("contextRegistrationList", comma, comma))

ContextRegistrationResponseRender(ci, crr, comma) ==
  LET errorCodeRendered == crr.errorCode.code # "SccNone"
  IN  Element(startTags("contextRegistrationResponse", "contextRegistration", FALSE, FALSE),
              ContextRegistrationRender(ci, crr.contextRegistration, errorCodeRendered, FALSE)
              \o IF errorCodeRendered THEN StatusCodeRender(crr.errorCode, "errorCode", FALSE, TRUE) ELSE <<>>,
              endTag("contextRegistrationResponse", comma, FALSE))

ContextRegistrationResponseVectorRender(ci, vec, comma) ==
  LET Render(crr, c) == ContextRegistrationResponseRender(ci, crr, c)
  IN  RenderVector(vec, "contextRegistrationResponseList", "contextRegistrationResponses", comma, Render)

----------------------------------------------------------------------------
(* Entity types *)

(* TypeEntity::render; attribute values are omitted. *)
TypeEntityRender(ci, te, comma, typeNameBefore) ==
  LET Attributes(c) == ContextAttributeVectorRender(ci, te.contextAttributeVector, "EntityTypes", c, TRUE)
      nameOnly      == ci.collapse \/ te.contextAttributeVector = <<>>
  IN  IF typeNameBefore /\ ci.outFormat = "JSON"
        THEN valueTag("name", TRUE) \o Attributes(TRUE)
        ELSE Element(startTags("entityType", "type", FALSE, FALSE),
                     valueTag("name", ~nameOnly) \o IF nameOnly THEN <<>> ELSE Attributes(FALSE),
                     endTag("entityType", comma, FALSE))

(* TypeEntityVector::render and its renderAsJsonObject differ in the XML   *)
(* tag only.                                                               *)
TypeEntityVectorRender(ci, vec, comma) ==
  LET Render(te, c) == TypeEntityRender(ci, te, c, FALSE)
  IN  RenderVector(vec, "typeEntities", "types", comma, Render)
=============================================================================
