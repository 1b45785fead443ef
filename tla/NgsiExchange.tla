---------------------------- MODULE NgsiExchange ----------------------------
(***************************************************************************)
(* The life of a message between two programs: a request is written by a   *)
(* client or rendered by another broker, it is parsed with the parse       *)
(* vector of its type and checked, and it is answered; the answer to a     *)
(* forwarded request is parsed and checked in turn.  A document is held as *)
(* the items render() wrote.  A client writes its own documents: they are  *)
(* represented by the request they are parsed into and by whether the      *)
(* parser found an error.                                                  *)
(***************************************************************************)
EXTENDS NgsiConvenience, ParseTables

CONSTANTS
  ClientRequests,  \* requests written by clients
  PeerRequests,    \* requests a broker sends, with the formats it uses
  Answers,         \* the answers of the backend, by kind
  Connections      \* what render() reads of a connection

VARIABLES
  phase,        \* "idle", "sent", "unread", "parsed", "accepted", "refused" or "answered"
  from,         \* who wrote the request: "client" or "peer"
  ci,           \* the connection of the message
  msg,          \* the message
  doc,          \* its text
  written,      \* the format the text is in
  predetected   \* the parser found an error

vars == <<phase, from, ci, msg, doc, written, predetected>>

Nothing == [kind |-> "none"]
Idle    == [outFormat |-> "XML", object |-> FALSE, collapse |-> FALSE]

----------------------------------------------------------------------------
RequestRender(c, m) ==
  CASE m.kind = "Ncr"  -> NotifyContextRequestRender(c, m)
    [] m.kind = "Ncar" -> NotifyContextAvailabilityRequestRender(c, m)
    [] m.kind = "Upcr" -> UpdateContextRequestRender(c, m)
    [] m.kind = "Qcr"  -> QueryContextRequestRender(c, m)
    [] m.kind = "Rcr"  -> RegisterContextRequestRender(c, m)

(* The answer the service routine of m renders from what the backend       *)
(* answered, by the convenience operation it serves.                       *)
AnswerRender(c, m) ==
  CASE m.kind = "Upcrs"  -> UpdateContextResponseRender(c, m)
    [] m.kind = "Qcrs"   -> QueryContextResponseRender(c, m)
    [] m.kind = "Rcrs"   -> RegisterContextResponseRender(m)
    [] m.kind = "Dcars"  -> DiscoverContextAvailabilityResponseRender(c, m)
    [] m.kind = "Scrs"   -> SubscribeContextResponseRender(m)
    [] m.kind = "Ucsrs"  -> UpdateContextSubscriptionResponseRender(m)
    [] m.kind = "Scars"  -> SubscribeContextAvailabilityResponseRender(m)
    [] m.kind = "Ucass"  -> UpdateContextAvailabilitySubscriptionResponseRender(m)
    [] m.kind = "Uncrs"  -> UnsubscribeContextResponseRender(m)
    [] m.kind = "Ucars"  -> UnsubscribeContextAvailabilityResponseRender(m)
    [] m.kind = "Ncrs"   -> NotifyContextResponseRender(m)
    [] m.kind = "Ncars"  -> NotifyContextAvailabilityResponseRender(m)
    [] m.kind = "Acers"  -> AppendContextElementResponseRender(c, AppendContextElementResponseFill(m), m.request)
    [] m.kind = "Ucers"  -> UpdateContextElementResponseRender(c, UpdateContextElementResponseFill(m), m.request)
    [] m.kind = "Cer"    -> ContextElementResponseRender(c, ContextElementResponseFill(m.contextElementResponse, m),
                                                         "IndividualContextEntity", FALSE)
    [] m.kind = "Car"    -> ContextAttributeResponseRender(c, m.contextAttributeResponse, m.request)
    [] m.kind = "Status" -> StatusCodeRender(StatusCodeFill(m), "statusCode", FALSE, FALSE)
    [] m.kind = "Types"  -> EntityTypesResponseRender(c, m)
    [] m.kind = "Type"   -> EntityTypeAttributesResponseRender(c, m)
    [] m.kind = "Error"  -> OrionErrorRender(c, m.details)

(* A request without payload is not checked. *)
Check(m, e) ==
  CASE m.kind = "Get"   -> TRUE
    [] m.kind = "Rcr"   -> RegisterContextRequestCheck(m, e)
    [] m.kind = "Dcar"  -> DiscoverContextAvailabilityRequestCheck(m, e)
    [] m.kind = "Scar"  -> SubscribeContextAvailabilityRequestCheck(m, e)
    [] m.kind = "Ucas"  -> UpdateContextAvailabilitySubscriptionRequestCheck(m, e)
    [] m.kind = "Ucar"  -> UnsubscribeContextAvailabilityRequestCheck(m, e)
    [] m.kind = "Ncar"  -> NotifyContextAvailabilityRequestCheck(m, e)
    [] m.kind = "Qcr"   -> QueryContextRequestCheck(m, e)
    [] m.kind = "Upcr"  -> UpdateContextRequestCheck(m, e)
    [] m.kind = "Scr"   -> SubscribeContextRequestCheck(m, e)
    [] m.kind = "Uncr"  -> UnsubscribeContextRequestCheck(m, e)
    [] m.kind = "Ucsr"  -> UpdateContextSubscriptionRequestCheck(m, e)
    [] m.kind = "Ncr"   -> NotifyContextRequestCheck(m, e)
    [] m.kind = "Acer"  -> AppendContextElementRequestCheck(m, e)
    [] m.kind = "Ucer"  -> UpdateContextElementRequestCheck(m, e)
    [] m.kind = "Upcar" -> UpdateContextAttributeRequestCheck(m, e)
    [] m.kind = "Rpr"   -> RegisterProviderRequestCheck(m, e)
    [] m.kind = "Upcrs" -> UpdateContextResponseCheck(m, e)
    [] m.kind = "Qcrs"  -> QueryContextResponseCheck(m, e)
    [] m.kind = "Rcrs"  -> RegisterContextResponseCheck(m, e)

----------------------------------------------------------------------------
(* What check() of the request m renders when it refuses it. *)
RefusalRender(c, m) ==
  LET bad   == [code |-> "SccBadRequest", details |-> "x"]
      reply == [errorCode |-> bad, duration |-> "", throttling |-> "", subscriptionId |-> "",
                contextElementResponseVector |-> <<>>, responseVector |-> <<>>, entity |-> [id |-> ""]]
  IN  CASE m.kind = "Rcr"   -> RegisterContextResponseRender([reply EXCEPT !.duration = m.duration])
        [] m.kind \in {"Dcar", "Rpr"} -> DiscoverContextAvailabilityResponseRender(c, reply)
        [] m.kind = "Scar"  -> SubscribeContextAvailabilityResponseRender(reply)
        [] m.kind = "Ucas"  -> UpdateContextAvailabilitySubscriptionResponseRender(reply)
        [] m.kind = "Ucar"  -> UnsubscribeContextAvailabilityResponseRender(reply)
        [] m.kind = "Ncar"  -> NotifyContextAvailabilityResponseRender(reply)
        [] m.kind = "Qcr"   -> QueryContextResponseRender(c, reply)
        [] m.kind = "Upcr"  -> UpdateContextResponseRender(c, reply)
        [] m.kind = "Scr"   -> SubscribeContextResponseRender(reply)
        [] m.kind = "Uncr"  -> UnsubscribeContextResponseRender(reply)
        [] m.kind = "Ucsr"  -> UpdateContextSubscriptionResponseRender(reply)
        [] m.kind = "Ncr"   -> NotifyContextResponseRender(reply)
        [] m.kind = "Acer"  -> AppendContextElementResponseRender(c, reply, "AppendContextElement")
        [] m.kind = "Ucer"  -> UpdateContextElementResponseRender(c, reply, "UpdateContextElement")
        [] m.kind = "Upcar" -> IF c.outFormat = "XML" THEN StatusCodeRender(bad, "statusCode", FALSE, TRUE)
                               ELSE Element(startTag("", FALSE), StatusCodeRender(bad, "statusCode", FALSE, TRUE),
                                            endTag("", FALSE, FALSE))

(* The name the JSON parser gives to the elements of a vector. *)
getArrayElementName(vector) ==
  CASE vector = "contextResponses" -> "contextResponse"
    [] vector = "contextRegistrationResponses" -> "contextRegistrationResponse"
    [] vector = "contextRegistrations" -> "contextRegistration"
    [] vector = "entities"   -> "entity"
    [] vector = "attributes" -> "attribute"
    [] vector = "metadatas"  -> "metadata"
    [] OTHER -> ""

(* The paths the parser makes of items under the node with path p.  It     *)
(* does not look up the paths inside a compound value.                     *)
RECURSIVE Paths(_, _, _)
Paths(items, p, format) ==
  UNION {LET item == items[i]
             path == IF format = "XML" THEN p & item.xml
                     ELSE p & (IF item.key # "" THEN item.key ELSE getArrayElementName(Last(p)))
         IN  {path} \cup IF path \in JsonCompoundRoots \cup XmlCompoundRoots THEN {}
                         ELSE Paths(item.kids, path, format)
         : i \in DOMAIN items}

(* The root object of JSON has no path. *)
DocumentPaths(d, format) == IF format = "XML" THEN Paths(d, <<>>, format) ELSE Paths(d[1].kids, <<>>, format)

Known(d, format, kind) ==
  DocumentPaths(d, format) \subseteq {row.path : row \in Vectors(format)[kind].rows}

----------------------------------------------------------------------------
(* Text that JSON's grammar allows: commas between the items and not after *)
(* the last, names in objects and not in vectors, brackets that match.     *)
RECURSIVE JsonItems(_, _)
JsonItems(items, inVector) ==
  \A i \in DOMAIN items :
    /\ items[i].comma <=> i # Len(items)
    /\ items[i].key = "" <=> inVector
    /\ <<items[i].open, items[i].close>> \in {<<"", "">>, <<"{", "}">>, <<"[", "]">>}
    /\ JsonItems(items[i].kids, items[i].open = "[")

RECURSIVE XmlItems(_)
XmlItems(items) ==
  \A i \in DOMAIN items : items[i].xml # "" /\ items[i].xml = items[i].end /\ XmlItems(items[i].kids)

(* A document is one item. *)
WellFormed(d, format) ==
  /\ Len(d) = 1
  /\ IF format = "JSON" THEN JsonItems(d, TRUE) /\ d[1].open = "{" ELSE XmlItems(d)

----------------------------------------------------------------------------
Init == phase = "idle" /\ from = "none" /\ ci = Idle /\ msg = Nothing /\ doc = <<>> /\ written = "XML"
        /\ predetected = FALSE

(* A client sends a request; the parser may have found an error in it. *)
Client ==
  /\ phase = "idle"
  /\ \E m \in ClientRequests, c \in Connections, e \in BOOLEAN : msg' = m /\ ci' = c /\ predetected' = e
  /\ from' = "client" /\ phase' = "parsed" /\ doc' = <<>> /\ UNCHANGED written

(* A broker sends a notification to its subscriber, or an update it found  *)
(* a context provider for.                                                 *)
Peer ==
  /\ phase = "idle"
  /\ \E p \in PeerRequests : \E f \in p.formats :
       /\ ci' = [Idle EXCEPT !.outFormat = f] /\ written' = f
       /\ msg' = p.request
       /\ doc' = RequestRender(ci', p.request)
  /\ from' = "peer" /\ phase' = "sent" /\ predetected' = FALSE

(* mongoRegisterContext gives a registration a duration, unless it fails   *)
(* before: no registration has the id, or it cannot be looked up.          *)
DefaultDuration(m) == IF m.duration = "" THEN [m EXCEPT !.duration = "PT24H"] ELSE m

(* A query is forwarded to the provider as it came, in XML.  A             *)
(* registration is forwarded to the broker of the option -fwdHost in the   *)
(* format the client wrote it in: with the id the other broker gave it, or *)
(* none if it is new.  The content type says XML in either case.           *)
Forward ==
  /\ phase = "accepted" /\ from = "client" /\ msg.kind \in {"Qcr", "Rcr"}
  /\ ci' = Idle
  /\ \/ msg.kind = "Qcr" /\ msg' = msg /\ written' = "XML"
     \/ /\ msg.kind = "Rcr" /\ written' \in {"XML", "JSON"}
        /\ \/ msg.registrationId = "" /\ msg' = DefaultDuration(msg)
           \/ /\ msg.registrationId # ""
              /\ \E id \in {"", "id"}, m \in {msg, DefaultDuration(msg)} : msg' = [m EXCEPT !.registrationId = id]
  /\ doc' = RequestRender([ci' EXCEPT !.outFormat = written'], msg')
  /\ from' = "peer" /\ phase' = "sent" /\ UNCHANGED predetected

(* jsonTreat and xmlTreat, by the content type: an unknown path is an      *)
(* error, a text in another format cannot be read at all.                  *)
Parse ==
  /\ phase = "sent"
  /\ predetected' = (written # ci.outFormat \/ ~Known(doc, ci.outFormat, msg.kind))
  /\ phase' = IF written = ci.outFormat THEN "parsed" ELSE "unread"
  /\ UNCHANGED <<from, ci, msg, doc, written>>

(* The answer to a text that cannot be read has no type. *)
Unreadable ==
  /\ phase = "unread"
  /\ doc' = OrionErrorRender(ci, "x") /\ msg' = [kind |-> "refusal"] /\ predetected' = FALSE
  /\ phase' = "answered" /\ written' = ci.outFormat /\ UNCHANGED <<from, ci>>

CheckMessage ==
  /\ phase = "parsed"
  /\ phase' = IF Check(msg, predetected) THEN "accepted" ELSE "refused"
  /\ UNCHANGED <<from, ci, msg, doc, written, predetected>>

(* The service routine answers with what the backend and the convenience   *)
(* operation made of the request.                                          *)
Serve ==
  /\ phase = "accepted" /\ msg.kind \in DOMAIN Answers
  /\ \E a \in Answers[msg.kind] : msg' = a /\ doc' = AnswerRender(ci, a)
  /\ phase' = "answered" /\ written' = ci.outFormat /\ UNCHANGED <<from, ci, predetected>>

(* check() itself rendered an answer with the code 400. *)
Refuse ==
  /\ phase = "refused" /\ msg.kind \in DOMAIN Answers
  /\ doc' = RefusalRender(ci, msg)
  /\ msg' = [kind |-> "refusal"]
  /\ phase' = "answered" /\ written' = ci.outFormat /\ UNCHANGED <<from, ci, predetected>>

Awaited == from = "peer" /\ ci.outFormat = "XML" /\ msg.kind \in {"Upcrs", "Qcrs", "Rcrs"}

(* The broker that forwarded a request reads the answer, which is XML. *)
ReadAnswer ==
  /\ phase = "answered" /\ Awaited
  /\ predetected' = ~Known(doc, "XML", msg.kind)
  /\ phase' = "parsed" /\ UNCHANGED <<from, ci, msg, doc, written>>

Close ==
  /\ phase \in {"answered", "accepted", "refused"}
  /\ phase = "answered" => ~Awaited
  /\ phase # "answered" => msg.kind \in {"Upcrs", "Qcrs", "Rcrs"}
  /\ phase' = "idle" /\ from' = "none" /\ ci' = Idle /\ msg' = Nothing /\ doc' = <<>> /\ written' = "XML"
  /\ predetected' = FALSE

Next == Client \/ Peer \/ Forward \/ Parse \/ Unreadable \/ CheckMessage \/ Serve \/ Refuse \/ ReadAnswer \/ Close

Spec == Init /\ [][Next]_vars

----------------------------------------------------------------------------
RECURSIVE KeysUnique(_)
KeysUnique(items) ==
  /\ \A i, j \in DOMAIN items : items[i].key # "" /\ items[i].key = items[j].key => i = j
  /\ \A i \in DOMAIN items : KeysUnique(items[i].kids)

(* The attribute vectors of an answer. *)
AttributeVectors(m) ==
  LET field(f) == f \in DOMAIN m
  IN  UNION {
        IF field("contextElementResponseVector")
          THEN {m.contextElementResponseVector[i].contextElement.contextAttributeVector :
                  i \in DOMAIN m.contextElementResponseVector} ELSE {},
        IF field("contextAttributeResponse") THEN {m.contextAttributeResponse.contextAttributeVector} ELSE {},
        IF field("typeEntityVector")
          THEN {m.typeEntityVector[i].contextAttributeVector : i \in DOMAIN m.typeEntityVector} ELSE {},
        IF field("entityType") THEN {m.entityType.contextAttributeVector} ELSE {}}

OneCopy(vec) == Len(vec) - Cardinality({vec[i].name : i \in DOMAIN vec}) <= 1

(* A forwarded JSON registration without id and duration: its vector is    *)
(* closed as an object.                                                    *)
Unclosed(m) == m.kind = "Rcr" /\ written = "JSON" /\ m.registrationId = "" /\ m.duration = ""

(* Every text render() puts together is JSON or XML: start and end tags    *)
(* agree, the commas, which every class decides from what it believes will *)
(* follow, come between the items and nowhere else, and no object has a    *)
(* name twice.  Two exceptions.  "only one of them should be included in   *)
(* the vector", the comment on attributes with the same name (one per      *)
(* metadata ID), holds for attributeFormat=object where a vector has one   *)
(* copy too many: the loop that erases the copies steps over the attribute *)
(* behind an erased one, so of three copies two stay, and the object has a *)
(* name twice.  And the registration of Unclosed, an update of one that is *)
(* not in the database, is forwarded with a bracket that does not match.   *)
DocumentWellFormed ==
  doc # <<>> /\ ~Unclosed(msg) =>
    /\ WellFormed(doc, written)
    /\ written = "JSON" /\ (\A vec \in AttributeVectors(msg) : OneCopy(vec)) => KeysUnique(doc)

(* What a broker renders, another can read and lets in: its parse vector   *)
(* knows every path of the notifications, forwarded requests and answers   *)
(* it is sent, and what check() of one broker let in, and what the broker  *)
(* makes of it for a subscriber, a provider or another broker, check()     *)
(* there lets in too.  The exception is a registration that a client wrote *)
(* in JSON: it is forwarded as JSON with the content type of XML, and the  *)
(* other broker cannot read it.                                            *)
PeerAccepted ==
  from = "peer" /\ ~(msg.kind = "Rcr" /\ written = "JSON") => ~predetected /\ phase # "refused"
=============================================================================
