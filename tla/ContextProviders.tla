-------------------------- MODULE ContextProviders --------------------------
(***************************************************************************)
(* Queries and updates of entities that are not stored here but registered *)
(* by a context provider: the request is forwarded to the provider.        *)
(*                                                                         *)
(* A query or an update reads the registrations in one step, reads no      *)
(* availability subscription and changes neither: one client is enough,    *)
(* its requests come when there are no such subscriptions, and the         *)
(* registry stands still while one is in progress.  Every other order of   *)
(* the steps leads to the same answers.  Entities may be created between.  *)
(*                                                                         *)
(* The local entities, all under the root, are known by the names of their *)
(* attributes; UpdateContext models the collection.  Bound: an element has *)
(* one attribute.  Deletions are not modelled here: they are forwarded     *)
(* like updates.                                                           *)
(***************************************************************************)
EXTENDS ContextAvailability, UpdateResponses

CONSTANTS
  LocalEntities,   \* the collections of entities there may be at the start
  QueryRequests,   \* [entities, attrs, paths]
  UpdateRequests,  \* [action, elements, path]
  EntityType,      \* the types of the entities, "" for none
  BadUrl           \* providing applications that parseUrl does not accept

\* What may be wrong with an element whatever is stored: its id is a pattern, its value is
\* empty, or the attribute is updated as a location, which it is not.
Flaw == {"none", "pattern", "empty", "located"}

Element == [id : STRING, type : EntityType, attr : STRING, flaw : Flaw]

ASSUME EntityTypeAssumption == IsFiniteSet(EntityType)

ASSUME UpdateRequestsAssumption ==
  \A r \in UpdateRequests : r.elements \in Seq(Element)

\* An entity may be created without a type, and any attribute as a location.
ASSUME LocalAssumption ==
  /\ "" \in EntityType
  /\ \A entities \in LocalEntities : DOMAIN entities \subseteq STRING \X EntityType
  /\ \A r \in UpdateRequests : r.action = "append" => \A e \in ToSet(r.elements) : e.flaw # "located"

VARIABLES
  local,   \* the attributes of every local entity, by <<id, type>>
  client   \* what the client's request does

vars == <<availabilityVars, local, client>>

-----------------------------------------------------------------------------
(* postQueryContext.                                                       *)

entitiesQuery(q) ==
  {x \in DOMAIN local : /\ \E en \in q.entities : /\ IF en.isPattern THEN x[1] \in Regex[en.id] ELSE x[1] = en.id
                                                  /\ en.type # "" => x[2] = en.type
                        /\ q.attrs # {} => local[x] \cap q.attrs # {}
                        /\ fillQueryServicePath(q.paths, <<>>)}

Answer(from) == [pc |-> "queried", from |-> from]

\* The query of the entities holds reqSem; when it throws the answer is an error.
mongoQueryContext(q) ==
  /\ client = Idle
  /\ client' \in {IF entitiesQuery(q) # {} THEN Answer("local") ELSE [pc |-> "lookup", query |-> q],
              Answer("error")}
  /\ UNCHANGED <<availabilityVars, local>>

\* Limit and offset are swapped.
ProviderSwapped(enV, attrL, paths) == registrationsQuery(registrations, enV, attrL, paths, now, 1, 0)

\* The first context registration of the first matching document.
Provider(enV, attrL, paths) == registrationsQuery(registrations, enV, attrL, paths, now, 0, 1)

\* The registrations are searched without reqSem.
providerOfQuery ==
  /\ client.pc = "lookup"
  /\ LET q    == client.query
         crrV == Provider(q.entities, q.attrs, q.paths)
     IN  client' \in {IF crrV = <<>> THEN [pc |-> "notFound", query |-> q]
                                    ELSE [pc |-> "forwardQuery", query |-> q, prApp |-> crrV[1].prApp],
                  Answer("nobody")}
  /\ UNCHANGED <<availabilityVars, local>>

\* The provider answers, or the answer is 404: its URL is bad, it does not answer, or
\* its answer cannot be read.
forwardQuery ==
  /\ client.pc = "forwardQuery"
  /\ \/ client.prApp \notin BadUrl /\ client' = Answer(client.prApp)
     \/ client' = Answer("nobody")
  /\ UNCHANGED <<availabilityVars, local>>

-----------------------------------------------------------------------------
(* postUpdateContext.                                                      *)

EntityOf(e) == [id |-> e.id, type |-> e.type, isPattern |-> FALSE]

\* The search for a provider, which may fail in the database.
ProviderResponse(r, k, dbError) ==
  LET e    == r.elements[k]
      crrV == Provider({EntityOf(e)}, {e.attr}, {r.path})
  IN  IF crrV = <<>> \/ dbError THEN ElementResponse(k, 404, "") ELSE ElementResponse(k, 302, crrV[1].prApp)

\* The call that throws for an element: the query of the entities, the write of the entity
\* of a type, or the search for a provider.
Fault ==
  [call : {"none", "query", "provider"}, type : {""}] \cup [call : {"write"}, type : EntityType]

\* The types of the entities found for an element; several when it has no type.
FoundTypes(r, e) ==
  {t \in EntityType : /\ <<e.id, t>> \in DOMAIN local
                      /\ e.type # "" => t = e.type
                      /\ FindMatches(r.path, <<>>)}

\* The response for one of them.
EntityResponse(r, k, t, fault) ==
  LET e == r.elements[k] IN
  IF e.attr \notin local[<<e.id, t>>] \/ e.flaw = "located" THEN ElementResponse(k, 472, "")
  ELSE IF fault = [call |-> "write", type |-> t] THEN ElementResponse(k, 500, "")
  ELSE ElementResponse(k, 200, "")

\* The responses for all of them, in the order of the query, and what docs counts.
EntityResponses(r, k, fault) ==
  LET found == FoundTypes(r, r.elements[k])
  IN  [i \in 1 .. Cardinality(found) |-> EntityResponse(r, k, SetToSeq(found)[i], fault)]

WithAttribute(r, e) == {t \in FoundTypes(r, e) : e.attr \in local[<<e.id, t>>]}

\* processContextElement for an update: when no entity is found, or the attribute in none
\* of them, a provider is looked for, and there is one response more.
ElementResponses(r, k, fault) ==
  LET e == r.elements[k] IN
  IF e.flaw = "pattern" THEN <<ElementResponse(k, 501, "")>>
  ELSE IF e.flaw = "empty" THEN <<ElementResponse(k, 472, "")>>
  ELSE IF fault.call = "query" THEN <<ElementResponse(k, 500, "")>>
  ELSE IF WithAttribute(r, e) # {} THEN EntityResponses(r, k, fault)
  ELSE Append(EntityResponses(r, k, fault), ProviderResponse(r, k, fault.call = "provider"))

\* history: the elements with a response 472, and whether one has several entities here.
History(r, v) ==
  [invalid |-> InvalidParameter(v),
   several |-> \E k \in DOMAIN r.elements : Cardinality(FoundTypes(r, r.elements[k])) > 1]

UpdateOp(r, v, whole, history) ==
  [pc |-> IF FoundResponses(v) = {} THEN "updated" ELSE "forwardUpdateContext",
   req |-> r, responses |-> v, whole |-> whole, history |-> history]

\* mongoUpdateContext under reqSem, and what postUpdateContext does with the responses.
postUpdateContext(r) ==
  /\ client = Idle
  /\ r.action = "update"
  /\ \E fault \in [DOMAIN r.elements -> Fault] :
       LET v == FlattenSeq([k \in DOMAIN r.elements |-> ElementResponses(r, k, fault[k])])
       IN  client' = UpdateOp(r, cleanResponses(v, r), FALSE, History(r, v))
  /\ UNCHANGED <<availabilityVars, local>>

\* An append adds the attribute to the entities found, or creates one.
Appended(entities, e) ==
  LET found   == {x \in DOMAIN entities : x[1] = e.id /\ (e.type # "" => x[2] = e.type)}
      written == IF found = {} THEN {<<e.id, e.type>>} ELSE found
  IN  IF e.flaw # "none" THEN entities
      ELSE [x \in DOMAIN entities \cup written |->
              (IF x \in DOMAIN entities THEN entities[x] ELSE {}) \cup (IF x \in written THEN {e.attr} ELSE {})]

\* Under another path than the root it creates no local entity.
appendContext(r) ==
  /\ r.action = "append" /\ r.path = <<>>
  /\ LET After[n \in 0 .. Len(r.elements)] == IF n = 0 THEN local ELSE Appended(After[n - 1], r.elements[n])
     IN  local' = After[Len(r.elements)]
  /\ UNCHANGED <<availabilityVars, client>>

\* One pass of the forwarding loop, for the first response with a provider.  An answer
\* without <updateContextResponse> ends the whole request.
forwardUpdateContext ==
  /\ client.pc = "forwardUpdateContext"
  /\ LET v  == client.responses
         ix == CHOOSE i \in FoundResponses(v) : \A j \in FoundResponses(v) : i <= j
         Replaced(code) == UpdateOp(client.req, [v EXCEPT ![ix].code = code], FALSE, client.history)
     IN  \/ v[ix].prApp \in BadUrl /\ client' = Replaced(500)
         \/ /\ v[ix].prApp \notin BadUrl
            /\ \/ \E code \in {200, 404} : client' = Replaced(code)
               \/ client' = UpdateOp(client.req, <<>>, TRUE, client.history)
  /\ UNCHANGED <<availabilityVars, local>>

\* A query or an update is answered.
reply ==
  /\ client.pc \in {"queried", "notFound", "updated"}
  /\ client' = Idle
  /\ UNCHANGED <<availabilityVars, local>>

-----------------------------------------------------------------------------
Init == InitAvailability /\ local \in LocalEntities /\ client = Idle

Next ==
  \/ client = Idle /\ NextAvailability /\ UNCHANGED <<local, client>>
  \/ /\ \A p \in Proc : op[p] = Idle
     /\ fwdPort = 0 /\ DOMAIN casubs = {}
     /\ \/ \E q \in QueryRequests : mongoQueryContext(q)
        \/ \E r \in UpdateRequests : postUpdateContext(r) \/ appendContext(r)
        \/ providerOfQuery \/ forwardQuery \/ forwardUpdateContext \/ reply

Spec == Init /\ [][Next]_vars

-----------------------------------------------------------------------------
(* Properties.                                                             *)

\* prApp registered what the request asks for.
Provides(prApp, enV, attrL, paths) ==
  \E i \in DOMAIN registrations :
    /\ registrations[i].expiration > now
    /\ fillQueryServicePath(paths, registrations[i].servicePath)
    /\ \E cr \in ToSet(registrations[i].crs) :
         /\ cr.prApp = prApp
         /\ \E e \in cr.entities : includedEntity(e, enV)
         /\ attrL # {} => cr.attrs \cap attrL # {}

\* The pairs of an element of an update and a provider it is to be forwarded to.
ToForward(o) == {x \in ToSet(o.responses) : x.code = 302}

Forwards ==
  /\ client.pc = "lookup" /\ client'.pc = "forwardQuery" =>
       LET q == client.query IN Provides(client'.prApp, q.entities, q.attrs, q.paths)
  /\ client = Idle /\ client'.pc = "forwardUpdateContext" =>
       \A x \in ToForward(client') :
         LET r == client'.req
             e == r.elements[x.elem]
         IN  Provides(x.prApp, {EntityOf(e)}, {e.attr}, {r.path}) /\ WithAttribute(r, e) = {}

\* A query or an element of an update is only ever forwarded to an application that
\* registered the entity and the attribute asked for, under the service path of the
\* request and not expired at that moment; an element whose attribute is stored here
\* is not forwarded at all.
ForwardedToProvider == [][Forwards]_vars

\* Every registration has one context registration.
Single == \A i \in DOMAIN registrations : Len(registrations[i].crs) = 1

NoPattern(enV) == \A en \in enV : ~en.isPattern

\* A provider is found when there is one: no query without patterns is answered "not
\* found" while an application offers what it asks for, though the search reads one
\* document only. (While every registration has one context registration: the document
\* with the lowest id may match the query in two different parts and then offer nothing.)
ProviderFound ==
  client.pc = "notFound" /\ Single /\ NoPattern(client.query.entities) =>
    Offers(client.query.entities, client.query.attrs, client.query.paths) = {}

\* An update is answered element by element, in the order of the request, when at most
\* one of the elements got a 472 and none has several entities here: the loop that removes
\* what postUpdateContext calls garbage removes the one response too many.  (With a 472
\* that stands alone, for an empty value or a location, next to an element with two
\* responses, the loop may take the neighbour's response for garbage; and an element without
\* type has a response for every entity with its id.)
AnsweredOnce ==
  client.pc = "updated" /\ ~client.whole /\ Cardinality(client.history.invalid) <= 1 /\ ~client.history.several =>
    /\ Len(client.responses) = Len(client.req.elements)
    /\ \A k \in DOMAIN client.responses : client.responses[k].elem = k
=============================================================================
