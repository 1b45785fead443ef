---------------------------- MODULE UpdateContext ----------------------------
(***************************************************************************)
(* updateContext: mongoUpdateContext and processContextElement on the      *)
(* entities collection.                                                    *)
(*                                                                         *)
(* The handler holds reqSem, so requests come one at a time; the context   *)
(* elements of one request are processed like a sequence of requests.  All *)
(* entities here share the id that the request names.  A database call     *)
(* fails with or without having been applied, and the broker crashes       *)
(* between any two steps.  Subscriptions are known by the attribute name   *)
(* that triggers them; Notifications models how they are sent.             *)
(***************************************************************************)
EXTENDS EntityAttributes, ServicePath

CONSTANTS
  EntityType,  \* with "", an entity without type
  EntityPath,
  Request,     \* the requests of the clients
  None

Caller == {"postUpdateContext", "other"}
Key    == [type : EntityType, path : EntityPath]

ASSUME RequestAssumption ==
  /\ EntityPath \subseteq RequestPath
  /\ \A r \in Request : /\ r.action \in Action
                        /\ r.type \in EntityType
                        /\ r.path \in EntityPath
                        /\ r.attrs \in Seq(ContextAttribute)
                        /\ r.isPattern \in BOOLEAN
                        /\ r.notExist \in BOOLEAN
                        /\ r.caller \in Caller
  /\ None \notin EntityDoc

VARIABLES
  entities,   \* the collection: the document of every key, or None
  pc,
  req,        \* the request in progress, or None
  cursor,     \* the documents still to process, as the query read them
  docs,       \* counts the documents processed
  subsToNotify, \* the key just written and the attributes that trigger, or None
  responses,  \* the contextElementResponses so far
  pre,        \* history: the collection when the request arrived
  notified    \* history: the keys and attributes notified for this request

vars == <<entities, pc, req, cursor, docs, subsToNotify, responses, pre, notified>>

Init ==
  /\ entities = [k \in Key |-> None]
  /\ pc = "idle"
  /\ req = None
  /\ cursor = <<>>
  /\ docs = 0
  /\ subsToNotify = None
  /\ responses = {}
  /\ pre = None
  /\ notified = {}

-----------------------------------------------------------------------------
Response(key, code) == [key |-> key, code |-> code]

RequestKey == [type |-> req.type, path |-> req.path]

\* buildGeneralErrorResponse: the response names the entity of the request.
buildGeneralErrorResponse(code) ==
  /\ responses' = responses \cup {Response(RequestKey, code)}
  /\ pc' = "reply"

\* mongoUpdateContext takes reqSem and starts with the context element.
mongoUpdateContext(r) ==
  /\ pc = "idle"
  /\ pc' = "query"
  /\ req' = r
  /\ pre' = entities
  /\ UNCHANGED <<entities, cursor, docs, subsToNotify, responses, notified>>

EmptyValue(r) ==
  r.action \in {"update", "append"} /\ \E i \in DOMAIN r.attrs : r.attrs[i].value = ""

\* A request without type finds the entities of every type.
Selected(r) ==
  {k \in Key : /\ entities[k] # None
               /\ r.type # "" => k.type = r.type
               /\ FindMatches(r.path, k.path)
               /\ r.notExist => k.type = ""}

\* The preconditions of processContextElement and its query.
processContextElement ==
  /\ pc = "query"
  /\ \/ req.isPattern /\ buildGeneralErrorResponse("notImplemented") /\ UNCHANGED cursor
     \/ /\ ~req.isPattern /\ EmptyValue(req)
        /\ buildGeneralErrorResponse("invalid")
        /\ UNCHANGED cursor
     \/ /\ ~req.isPattern /\ ~EmptyValue(req)
        /\ buildGeneralErrorResponse("error")
        /\ UNCHANGED cursor
     \/ /\ ~req.isPattern /\ ~EmptyValue(req)
        /\ cursor' = [k \in Selected(req) |-> entities[k]]
        /\ pc' = "loop"
        /\ UNCHANGED responses
  /\ UNCHANGED <<entities, req, docs, subsToNotify, pre, notified>>

-----------------------------------------------------------------------------
(* The loop over the documents found.                                      *)

\* The result of the attributes of the request on a document.
Result(k) == processContextAttributeVector(req.action, cursor[k], req.attrs)

WholeEntity == req.action = "delete" /\ req.attrs = <<>>

\* cursor->next(), which leaves the response for k with its code.
NextDocument(k, code) ==
  /\ cursor' = [j \in DOMAIN cursor \ {k} |-> cursor[j]]
  /\ responses' = responses \cup {Response(k, code)}

removeEntity(k) ==
  /\ pc = "loop" /\ k \in DOMAIN cursor
  /\ WholeEntity
  /\ docs' = docs + 1
  /\ \/ entities' = [entities EXCEPT ![k] = None] /\ NextDocument(k, "ok")
     \/ entities' \in {entities, [entities EXCEPT ![k] = None]} /\ NextDocument(k, "error")
  /\ UNCHANGED <<pc, req, subsToNotify, pre, notified>>

\* Documents that are not modified, after an error or because nothing changed.
\* For postUpdateContext a missing attribute does not count as a document.
LeaveEntity(k) ==
  /\ pc = "loop" /\ k \in DOMAIN cursor
  /\ ~WholeEntity
  /\ \/ /\ Result(k).code # "ok" \/ ~Result(k).modified
        /\ NextDocument(k, Result(k).code)
        /\ docs' = IF Result(k).code = "attributeNotFound" /\ req.caller = "postUpdateContext"
                   THEN docs ELSE docs + 1
     \/ /\ Result(k).triggered # {}   \* addTriggeredSubscriptions failed
        /\ NextDocument(k, "error")
        /\ docs' = docs + 1
  /\ UNCHANGED <<entities, pc, req, subsToNotify, pre, notified>>

\* The update would write the entity of any type.
WrittenAnyType(k) ==
  {e \in Key : entities[e] # None /\ WriteMatches(k.path, e.path)}

\* The documents that the query of the update() matches; it updates one of them.
Written(k) ==
  {e \in Key : entities[e] # None /\ e.type = k.type /\ WriteMatches(k.path, e.path)}

\* $set of attrs and location, $unset of a location without attribute.
updatedEntity(k) ==
  [attrs |-> Result(k).attrs, locAttr |-> Result(k).locAttr,
   coords |-> IF Result(k).locAttr = "" THEN "" ELSE Result(k).coords]

\* The update(); when it fails the triggered subscriptions are released.
WriteEntity(k) ==
  /\ pc = "loop" /\ k \in DOMAIN cursor
  /\ ~WholeEntity
  /\ Result(k).code = "ok" /\ Result(k).modified
  /\ docs' = docs + 1
  /\ \E e \in Written(k) :
       LET stored == [entities EXCEPT ![e] = updatedEntity(k)]
       IN  \/ /\ entities' = stored
              /\ pc' = "notify"
              /\ subsToNotify' = [key |-> k, names |-> Result(k).triggered]
              /\ UNCHANGED <<cursor, responses>>
           \/ /\ entities' \in {entities, stored}
              /\ NextDocument(k, "error")
              /\ UNCHANGED <<pc, subsToNotify>>
  /\ UNCHANGED <<req, pre, notified>>

\* Sends what one attribute triggers.
NotifyOne(sub) == {sub.key} \X {n \in sub.names : n = CHOOSE m \in sub.names : TRUE}

\* What processSubscriptions sends.
Sent(sub) == {sub.key} \X sub.names

processSubscriptions ==
  /\ pc = "notify"
  /\ notified' = notified \cup Sent(subsToNotify)
  /\ NextDocument(subsToNotify.key, "ok")
  /\ subsToNotify' = None
  /\ pc' = "loop"
  /\ UNCHANGED <<entities, req, docs, pre>>

-----------------------------------------------------------------------------
(* After the loop.                                                         *)

LoopDone == pc = "loop" /\ DOMAIN cursor = {}

Finish ==
  /\ LoopDone
  /\ docs > 0
  /\ pc' = "reply"
  /\ UNCHANGED <<entities, req, cursor, docs, subsToNotify, responses, pre, notified>>

\* UPDATE and DELETE of nothing: registrationsQuery finds a provider or not.
LookForProvider ==
  /\ LoopDone
  /\ docs = 0 /\ req.action # "append"
  /\ \E code \in {"found", "notFound"} : buildGeneralErrorResponse(code)
  /\ UNCHANGED <<entities, req, cursor, docs, subsToNotify, pre, notified>>

\* The insert of a key that exists fails.
createEntity ==
  /\ LoopDone
  /\ docs = 0 /\ req.action = "append"
  /\ LET legal    == legalIdUsageOfNew(req.attrs) /\ processLocation(req.attrs)
         exists   == entities[RequestKey] # None
         inserted == [entities EXCEPT ![RequestKey] = NewEntity(req.attrs)]
     IN  \/ ~legal /\ buildGeneralErrorResponse("invalid") /\ UNCHANGED <<entities, subsToNotify>>
         \/ /\ legal
            /\ entities' = entities \/ (~exists /\ entities' = inserted)
            /\ buildGeneralErrorResponse("databaseError")
            /\ UNCHANGED subsToNotify
         \/ /\ legal /\ ~exists
            /\ entities' = inserted
            /\ subsToNotify' = [key   |-> RequestKey,
                                names |-> {req.attrs[i].name : i \in DOMAIN req.attrs}]
            /\ pc' = "notifyNew"
            /\ UNCHANGED responses
  /\ UNCHANGED <<req, cursor, docs, pre, notified>>

\* Without its attributes there is nothing that could fail.
NotifyNew ==
  /\ pc = "notifyNew"
  /\ \/ /\ notified' = notified \cup Sent(subsToNotify)
        /\ buildGeneralErrorResponse("ok")
     \/ /\ subsToNotify.names # {}
        /\ buildGeneralErrorResponse("error")
        /\ UNCHANGED notified
  /\ subsToNotify' = None
  /\ UNCHANGED <<entities, req, cursor, docs, pre>>

\* What a request leaves behind once it is over.
Idle ==
  /\ pc' = "idle" /\ req' = None /\ cursor' = <<>> /\ docs' = 0
  /\ subsToNotify' = None /\ responses' = {} /\ pre' = None /\ notified' = {}
  /\ UNCHANGED entities

Reply == pc = "reply" /\ Idle

Crash == pc # "idle" /\ Idle

Next ==
  \/ \E r \in Request : mongoUpdateContext(r)
  \/ processContextElement
  \/ \E k \in Key : removeEntity(k) \/ LeaveEntity(k) \/ WriteEntity(k)
  \/ processSubscriptions
  \/ Finish
  \/ LookForProvider
  \/ createEntity
  \/ NotifyNew
  \/ Reply
  \/ Crash

Spec == Init /\ [][Next]_vars

-----------------------------------------------------------------------------
(* Properties.                                                             *)

Answered(k, codes) == \E r \in responses : r.key = k /\ r.code \in codes

AttrsOf(doc) == IF doc = None THEN {} ELSE ToSet(doc.attrs)

\* The request attributes that no later one of the request overwrites.
Final(cav) ==
  {cav[i] : i \in {j \in DOMAIN cav :
                     \A l \in j + 1 .. Len(cav) : ~smartAttrMatch(cav[l], cav[j])}}

\* doc has the value, the type and every metadata with a type that ca asks for. (One
\* without type is stored with type "" by appendAttribute and createEntity and without
\* a type by checkAndUpdate; equalMetadataVectors then misses a change of its value.)
Holds(doc, ca) ==
  \E a \in AttrsOf(doc) :
    /\ smartAttrMatch(a, ca)
    /\ a.value = ca.value
    /\ ca.type # "" => a.type = ca.type
    /\ \A m \in ca.md : m.type # "" => m \in a.md

\* There is a response, and it tells what has become of an entity. When it rejects the request (a bad
\* attribute, an attribute or entity that is not there) the entity is what it was,
\* although processContextAttributeVector works through the attributes one by one and
\* stops at the first that fails. When UPDATE or APPEND is answered with SccOk, the
\* entity holds every attribute of the request, with its value, its type and its
\* metadata, also where checkAndUpdate decided that there was nothing to write.
ResponseTrue ==
  pc = "reply" => responses # {} /\ \A k \in Key :
    /\ Answered(k, {"invalid", "attributeNotFound"}) => entities[k] = pre[k]
    /\ Answered(k, {"ok"}) /\ req.action # "delete" =>
         \A ca \in Final(req.attrs) : Holds(entities[k], ca)

\* The attributes that a request does not name.
Others(k) ==
  {a \in AttrsOf(pre[k]) : \A i \in DOMAIN req.attrs : ~smartAttrMatch(a, req.attrs[i])}

\* The metadata of an attribute that a request does not name.
OtherMetadata(a) ==
  {m \in a.md : \A i \in DOMAIN req.attrs : smartAttrMatch(a, req.attrs[i]) => ~hasMetadata(m, req.attrs[i])}

\* A request leaves what it does not name as it is, although the whole array is
\* rewritten: the other attributes, with metadata and compound values (which
\* checkAndDelete does not copy), and the other metadata of the attributes it updates.
OthersKept ==
  pc = "reply" /\ ~WholeEntity => \A k \in Key :
    /\ \A a \in Others(k) : req.action # "delete" \/ a.value \notin Compound => a \in AttrsOf(entities[k])
    /\ req.action # "delete" => \A a \in AttrsOf(pre[k]) :
         \E b \in AttrsOf(entities[k]) : smartAttrMatch(a, b) /\ OtherMetadata(a) \subseteq b.md

\* "Attribute doesn't match: value is included "as is"" (checkAndDelete): DELETE of
\* some attributes of an entity leaves the other ones as they are.
DeleteKeepsOthers ==
  pc = "reply" /\ req.action = "delete" /\ ~WholeEntity =>
    \A k \in Key : Others(k) \subseteq AttrsOf(entities[k])

\* What a change of the attributes named n is: for DELETE, that one is gone.
ValuesOf(doc, n) ==
  {IF req.action = "delete" THEN <<a.id>> ELSE <<a.id, a.value>> :
     a \in {b \in AttrsOf(doc) : b.name = n}}

\* Notifications and changes belong together. Every attribute whose value a request
\* answered with SccOk has changed, or that it has deleted, has triggered its
\* subscriptions: the actualUpdate flag misses none, over all attributes and documents.
\* And a notification goes out only when the database has the values it is about: not
\* for an entity whose update() failed, and not before it.
ChangesNotified ==
  /\ pc = "reply" /\ ~WholeEntity => \A k \in Key :
       Answered(k, {"ok"}) =>
         \A n \in {a.name : a \in AttrsOf(pre[k]) \cup AttrsOf(entities[k])} \ {""} :
           ValuesOf(pre[k], n) # ValuesOf(entities[k], n) => <<k, n>> \in notified
  /\ pc # "idle" /\ req.action # "delete" => \A s \in notified :
       \A ca \in Final(req.attrs) : ca.name = s[2] => Holds(entities[s[1]], ca)

\* The entities that a request changes are among those it selected, each of which has
\* its response, or are of the type of one of these and have a path that contains its
\* path as text: each is written with a query of its own, which looks for the service
\* path without anchors, and an update of the entity of "/a" may be stored in the one of
\* "/ab" instead.  Nothing else is ever written, whatever the types, paths and filters.
\* And an entity comes into being only through an APPEND that selects no entity: one
\* that finds its entities unmodified, or fails for them, creates none beside them.
OnlySelectedChange ==
  pc = "reply" => \A k \in Key :
    /\ entities[k] # pre[k] =>
         \E r \in responses : r.key = k \/ (r.key.type = k.type /\ WriteMatches(r.key.path, k.path))
    /\ pre[k] = None /\ entities[k] # None =>
         /\ req.action = "append" /\ k = RequestKey
         /\ \A e \in Key : pre[e] # None /\ FindMatches(req.path, e.path) =>
              (req.type # "" /\ e.type # req.type) \/ (req.notExist /\ e.type # "")

\* "mix attributes ID and no ID for the same name" (legalIdUsage): no sequence of
\* requests brings attributes with and without an ID under one name into an entity
\* that had no such. (At creation only attributes of the same type are compared.)
IdsNotMixed ==
  pc = "reply" => \A k \in Key : \A a, b \in AttrsOf(entities[k]) :
    Mixed(a, b) => IF pre[k] = None THEN a.type # b.type
                   ELSE \E c, d \in AttrsOf(pre[k]) : Mixed(c, d)

=============================================================================
