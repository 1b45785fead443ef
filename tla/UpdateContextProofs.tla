------------------------- MODULE UpdateContextProofs -------------------------
(***************************************************************************)
(* The requests that update entities, for any sets of types, paths and     *)
(* requests: a request changes only the entities it selected               *)
(* (OnlySelectedChange), and each entity is what it was or what the        *)
(* attributes of the request make of it, from which IdsNotMixed,           *)
(* OthersKept, ChangesNotified, ResponseTrue and AreaFollowsUpdate follow. *)
(* These five are for paths of which none is found by the query for        *)
(* another (PathsApart), and ResponseTrue for requests whose attributes    *)
(* have no metadata twice (MetadataOnce).  UpdatesAreRead is about the     *)
(* queries that an update and a query make for a path.                     *)
(***************************************************************************)
EXTENDS EntityQueries, EntityAttributesProofs

-----------------------------------------------------------------------------
(* Paths.                                                                  *)

\* The separators at the end of a path can be told.
LEMMA TrailingSlash ==
  ASSUME NEW S, NEW p \in Seq(S)
  PROVE  removeTrailingSlash(p) \in Seq(S)
<1>1. PICK b : b = ""
  BY Zenon
<1> DEFINE IsEnd(i) == (i > 0 => p[i] # b) /\ \A j \in i + 1 .. Len(p) : p[j] = b
           end == CHOOSE i \in 0 .. Len(p) : IsEnd(i)
           T == {i \in 0 .. Len(p) : \A j \in i + 1 .. Len(p) : p[j] = b}
<1>2. T \in SUBSET Nat /\ Len(p) \in T
  OBVIOUS
<1>3. PICK i \in T : \A j \in T : i <= j
  BY <1>2, LeastNumber, Zenon
<1>4. IsEnd(i) /\ i \in 0 .. Len(p)
  <2>1. ASSUME i > 0, p[i] = b PROVE FALSE
    <3>1. i - 1 \in T
      BY <2>1
    <3>2. i \in Nat
      BY <1>2, <1>3, Zenon
    <3>3. i <= i - 1
      <4> HIDE DEF T
      <4> QED
        BY <1>3, <3>1, Zenon
    <3> QED
      BY ONLY <3>2, <3>3
  <2> QED
    BY <2>1, Zenon
<1>5. end \in 0 .. Len(p)
  <2> HIDE DEF IsEnd
  <2> QED
    BY <1>4, Zenon
<1>6. removeTrailingSlash(p) = SubSeq(p, 1, end)
  BY <1>1, Zenon DEF removeTrailingSlash
<1> HIDE DEF end
<1> QED
  BY <1>5, <1>6, FirstSeq

\* The paths of the entities are sequences.
LEMMA PathType ==
  ASSUME NEW p \in EntityPath
  PROVE  p \in Seq(Component \cup {"#"})
<1>1. PICK q \in BoundedSeq(Component \cup {"#"}, MaxLevels) : p = removeTrailingSlash(q)
  BY RequestAssumption, Zenon DEF RequestPath
<1>2. q \in Seq(Component \cup {"#"})
  <2>1. PICK n \in Nat : q \in [1 .. n -> Component \cup {"#"}]
    BY <1>1 DEF BoundedSeq
  <2> QED
    BY <2>1, FunctionSeq, Zenon
<1> QED
  BY <1>1, <1>2, TrailingSlash, Zenon

\* x is k, or an entity whose write may reach k.
Reaches(x, k) ==
  \/ x = k
  \/ x.type = k.type /\ WriteMatches(x.path, k.path)

\* The query of the write finds no entity that it cannot reach.
LEMMA WrittenReached ==
  ASSUME NEW k \in Key, NEW e \in Written(k)
  PROVE  e \in Key /\ entities[e] # None /\ Reaches(k, e)
  BY Zenon DEF Written, Reaches

-----------------------------------------------------------------------------
(* What the loop writes.                                                   *)

\* The result for a document found.
LEMMA ResultType ==
  ASSUME NEW k \in DOMAIN cursor, cursor[k] \in EntityDoc, req \in Request
  PROVE  /\ Result(k) \in Processed
         /\ req.action = "append" => Result(k).code # "attributeNotFound"
         /\ updatedEntity(k) \in EntityDoc
<1>1. PICK action \in Action, cav \in Seq(ContextAttribute) : action = req.action /\ cav = req.attrs
  BY RequestAssumption, Zenon
<1>2. PICK doc \in EntityDoc : doc = cursor[k]
  BY Zenon
<1>3. PICK f : /\ Runs(f, action, doc, cav)
               /\ processContextAttributeVector(action, doc, cav) = f[Len(cav)]
  BY VectorSteps, Zenon
<1>4. Result(k) = f[Len(cav)]
  BY <1>1, <1>2, <1>3, Zenon DEF Result
<1>5. Result(k) \in Processed
  <2>1. Len(cav) \in 0 .. Len(cav)
    OBVIOUS
  <2> QED
    BY <1>3, <1>4, <2>1, Zenon DEF Runs
<1>6. req.action = "append" => Result(k).code # "attributeNotFound"
  BY <1>1, <1>3, <1>4, AppendFinds, Zenon
<1>7. updatedEntity(k) \in EntityDoc
  <2>1. PICK res \in Processed : res = Result(k)
    BY <1>5, Zenon
  <2>2. res.attrs \in Seq(Attribute) /\ res.locAttr \in Text /\ res.coords \in Text
    BY Zenon DEF Processed
  <2>3. PICK c \in Text : c = IF res.locAttr = "" THEN "" ELSE res.coords
    BY <2>2, EmptyText, Zenon
  <2>4. [attrs |-> res.attrs, locAttr |-> res.locAttr, coords |-> c] \in EntityDoc
    BY <2>2, Zenon DEF EntityDoc
  <2>5. updatedEntity(k) = [attrs |-> res.attrs, locAttr |-> res.locAttr, coords |-> c]
    BY <2>1, <2>3, Zenon DEF updatedEntity
  <2> QED
    BY <2>4, <2>5, Zenon
<1> QED
  BY <1>5, <1>6, <1>7, Zenon

\* The document of a new entity.
LEMMA NewEntityType ==
  ASSUME NEW cav \in Seq(ContextAttribute)
  PROVE  NewEntity(cav) \in EntityDoc
<1>1. cav \in [1 .. Len(cav) -> ContextAttribute] /\ DOMAIN cav = 1 .. Len(cav) /\ Len(cav) \in Nat
  BY LenProperties, Zenon
<1>2. ASSUME NEW i \in DOMAIN cav PROVE NewAttr(cav[i]) \in Attribute /\ cav[i].name \in Text /\ cav[i].value \in Text
  <2>1. PICK ca \in ContextAttribute : ca = cav[i]
    BY <1>1, Zenon
  <2> QED
    BY <2>1, NewAttrType, Zenon
<1>3. [i \in DOMAIN cav |-> NewAttr(cav[i])] \in Seq(Attribute)
  <2>1. [i \in DOMAIN cav |-> NewAttr(cav[i])] \in [1 .. Len(cav) -> Attribute]
    BY <1>1, <1>2, Zenon
  <2> QED
    BY <1>1, <2>1, FunctionSeq, Zenon
<1>4. Located(cav) \subseteq DOMAIN cav
  BY Zenon DEF Located
<1>5. PICK i : i = CHOOSE j \in Located(cav) : TRUE
  BY Zenon
<1>6. Located(cav) # {} => i \in DOMAIN cav
  BY <1>4, <1>5, Zenon
<1>7. PICK l \in Text : l = IF Located(cav) = {} THEN "" ELSE cav[i].name
  BY <1>2, <1>6, EmptyText, Zenon
<1>8. PICK c \in Text : c = IF Located(cav) = {} THEN "" ELSE cav[i].value
  BY <1>2, <1>6, EmptyText, Zenon
<1>9. NewEntity(cav) = [attrs |-> [j \in DOMAIN cav |-> NewAttr(cav[j])], locAttr |-> l, coords |-> c]
  BY <1>5, <1>7, <1>8, Zenon DEF NewEntity
<1> QED
  BY <1>3, <1>9 DEF EntityDoc

-----------------------------------------------------------------------------
(* The invariant.                                                          *)

\* The entities of a collection that a request selects.
SelectedIn(coll, r) ==
  {k \in Key : /\ coll[k] # None
               /\ r.type # "" => k.type = r.type
               /\ FindMatches(r.path, k.path)
               /\ r.notExist => k.type = ""}

EntitiesTyped ==
  /\ entities \in [Key -> EntityDoc \cup {None}]
  /\ pc \in {"idle", "query", "loop", "notify", "notifyNew", "reply"}
  /\ docs \in Nat
  /\ DOMAIN cursor \subseteq Key /\ \A k \in DOMAIN cursor : cursor[k] \in EntityDoc
  /\ pc # "idle" => req \in Request
  /\ pc = "notify" => subsToNotify.key \in Key
  /\ pc = "notifyNew" => subsToNotify.key = RequestKey
  /\ pc = "query" => entities = pre

\* The entities with a response, or about to get one.
Touched ==
  {r.key : r \in responses} \cup (IF pc \in {"notify", "notifyNew"} THEN {subsToNotify.key} ELSE {})

\* The entities that differ from what they were are among those.
ChangesTouched ==
  pc # "idle" => \A k \in Key : entities[k] # pre[k] => \E x \in Touched : Reaches(x, k)

\* In the loop no entity has come into being; after it, one.
LoopCreatesNone ==
  pc \in {"query", "loop", "notify"} => \A k \in Key : pre[k] = None => entities[k] = None

CreatedByAppend ==
  pc \in {"notifyNew", "reply"} => \A k \in Key :
    pre[k] = None /\ entities[k] # None =>
      req.action = "append" /\ k = RequestKey /\ SelectedIn(pre, req) = {}

\* As long as APPEND has counted no document, all that it found are before it.
AllPending ==
  /\ pc = "loop" /\ req.action = "append" => docs > 0 \/ DOMAIN cursor = SelectedIn(pre, req)
  /\ pc = "notify" => docs > 0

SelectedInv == EntitiesTyped /\ ChangesTouched /\ LoopCreatesNone /\ CreatedByAppend /\ AllPending

\* Initially.
LEMMA SelectedInit == Init => SelectedInv
<1> SUFFICES ASSUME Init PROVE SelectedInv
  BY Zenon
<1>1. DOMAIN cursor = {}
  BY DEF Init
<1>2. EntitiesTyped
  BY <1>1, Zenon DEF Init, EntitiesTyped
<1> QED
  BY <1>2, Zenon DEF Init, SelectedInv, ChangesTouched, LoopCreatesNone, CreatedByAppend, AllPending

\* The key of a request.
LEMMA RequestKeyType ==
  ASSUME req \in Request
  PROVE  RequestKey \in Key
  BY RequestAssumption, Zenon DEF RequestKey, Key

\* The request arrives.
LEMMA SelectedArrive ==
  ASSUME SelectedInv, NEW r \in Request, mongoUpdateContext(r)
  PROVE  SelectedInv'
<1> USE DEF mongoUpdateContext
<1>1. EntitiesTyped'
  BY Zenon DEF SelectedInv, EntitiesTyped
<1> QED
  BY <1>1, Zenon DEF SelectedInv, ChangesTouched, LoopCreatesNone, CreatedByAppend, AllPending

\* The end of a request.
LEMMA SelectedIdle ==
  ASSUME SelectedInv, Idle
  PROVE  SelectedInv'
<1> USE DEF Idle
<1>1. DOMAIN cursor' = {}
  OBVIOUS
<1>2. EntitiesTyped'
  BY <1>1, Zenon DEF SelectedInv, EntitiesTyped
<1> QED
  BY <1>2, Zenon DEF SelectedInv, ChangesTouched, LoopCreatesNone, CreatedByAppend, AllPending

\* The preconditions and the query.
LEMMA SelectedQuery ==
  ASSUME SelectedInv, processContextElement
  PROVE  SelectedInv'
<1>1. /\ pc = "query" /\ req \in Request /\ entities = pre /\ entities' = entities /\ pre' = pre /\ req' = req
      /\ docs' = docs /\ docs \in Nat /\ entities \in [Key -> EntityDoc \cup {None}]
  BY Zenon DEF SelectedInv, EntitiesTyped, processContextElement
<1>2. CASE pc' = "reply" /\ cursor' = cursor
  <2>1. EntitiesTyped'
    BY <1>1, <1>2, Zenon DEF SelectedInv, EntitiesTyped
  <2> QED
    BY <1>1, <1>2, <2>1, Zenon DEF SelectedInv, ChangesTouched, LoopCreatesNone, CreatedByAppend, AllPending
<1>3. CASE pc' = "loop" /\ cursor' = [k \in Selected(req) |-> entities[k]]
  <2>1. Selected(req) = SelectedIn(pre', req')
    BY <1>1, Zenon DEF Selected, SelectedIn
  <2>2. \A k \in Selected(req) : k \in Key /\ entities[k] # None
    BY Zenon DEF Selected
  <2>3. DOMAIN cursor' = Selected(req) /\ \A k \in Selected(req) : cursor'[k] = entities[k]
    BY <1>3, Zenon
  <2>4. DOMAIN cursor' \subseteq Key /\ \A k \in DOMAIN cursor' : cursor'[k] \in EntityDoc
    BY <1>1, <2>2, <2>3, Zenon
  <2>5. EntitiesTyped'
    BY <1>1, <1>3, <2>4, Zenon DEF EntitiesTyped
  <2> QED
    BY <1>1, <1>3, <2>1, <2>3, <2>5, Zenon
    DEF SelectedInv, ChangesTouched, LoopCreatesNone, CreatedByAppend, AllPending
<1> QED
  BY <1>2, <1>3, Zenon DEF processContextElement, buildGeneralErrorResponse

\* A step of the loop for the document k: it changes what k reaches, counts the document,
\* and answers k, or keeps it for the notifications.
LEMMA SelectedStep ==
  ASSUME SelectedInv, pc = "loop", NEW k \in DOMAIN cursor, NEW code,
         entities' \in [Key -> EntityDoc \cup {None}],
         \A e \in Key : entities'[e] # entities[e] => Reaches(k, e) /\ (pre[e] = None => entities'[e] = None),
         docs' \in Nat, req.action = "append" \/ pc' = "notify" => docs' > 0,
         req' = req, pre' = pre,
         \/ pc' = "loop" /\ NextDocument(k, code)
         \/ pc' = "notify" /\ subsToNotify'.key = k /\ cursor' = cursor /\ responses' = responses
  PROVE  SelectedInv'
<1>1. /\ k \in Key /\ req \in Request
      /\ DOMAIN cursor \subseteq Key /\ \A j \in DOMAIN cursor : cursor[j] \in EntityDoc
  BY Zenon DEF SelectedInv, EntitiesTyped
<1>2. pc' \in {"loop", "notify"}
  BY Zenon
<1>3. DOMAIN cursor' \subseteq Key /\ \A j \in DOMAIN cursor' : cursor'[j] \in EntityDoc
  BY <1>1, Zenon DEF NextDocument
<1>4. EntitiesTyped'
  BY <1>1, <1>2, <1>3, Zenon DEF EntitiesTyped
<1>5. k \in Touched' /\ \A x \in Touched : x \in Touched'
  BY <1>2, Zenon DEF Touched, NextDocument, Response
<1>6. ASSUME NEW e \in Key, entities'[e] # pre[e] PROVE \E x \in Touched' : Reaches(x, e)
  <2>1. CASE entities'[e] = entities[e]
    <3>1. PICK x \in Touched : Reaches(x, e)
      BY <1>6, <2>1, Zenon DEF SelectedInv, ChangesTouched
    <3> QED
      BY <1>5, <3>1, Zenon
  <2>2. CASE entities'[e] # entities[e]
    BY <1>5, <2>2, Zenon
  <2> QED
    BY <2>1, <2>2, Zenon
<1>7. ChangesTouched'
  BY <1>6, Zenon DEF ChangesTouched, Reaches
<1>8. LoopCreatesNone'
  BY Zenon DEF SelectedInv, LoopCreatesNone
<1>9. CreatedByAppend' /\ AllPending'
  BY <1>2, Zenon DEF CreatedByAppend, AllPending
<1> QED
  BY <1>4, <1>7, <1>8, <1>9, Zenon DEF SelectedInv

\* The loop.
LEMMA SelectedLoop ==
  ASSUME SelectedInv, NEW k \in Key, removeEntity(k) \/ LeaveEntity(k) \/ WriteEntity(k)
  PROVE  SelectedInv'
<1>1. /\ pc = "loop" /\ k \in DOMAIN cursor /\ req' = req /\ pre' = pre /\ docs \in Nat /\ req \in Request
      /\ cursor[k] \in EntityDoc /\ entities \in [Key -> EntityDoc \cup {None}]
  BY Zenon DEF removeEntity, LeaveEntity, WriteEntity, SelectedInv, EntitiesTyped
<1>2. Reaches(k, k)
  BY Zenon DEF Reaches
<1>3. CASE removeEntity(k)
  <2>1. /\ entities' = entities \/ entities' = [entities EXCEPT ![k] = None]
        /\ docs' = docs + 1 /\ pc' = pc
        /\ NextDocument(k, "ok") \/ NextDocument(k, "error")
    BY <1>3, Zenon DEF removeEntity
  <2>2. /\ entities' \in [Key -> EntityDoc \cup {None}]
        /\ \A e \in Key : entities'[e] # entities[e] => e = k /\ entities'[e] = None
    BY <1>1, <2>1, Zenon
  <2>3. docs' \in Nat /\ docs' > 0
    BY <1>1, <2>1
  <2> QED
    BY <1>1, <1>2, <2>1, <2>2, <2>3, SelectedStep, Zenon
<1>4. CASE LeaveEntity(k)
  <2>1. PICK code : NextDocument(k, code) /\ pc' = pc /\ entities' = entities
    BY <1>4, Zenon DEF LeaveEntity
  <2>2. req.action = "append" => Result(k).code # "attributeNotFound"
    BY <1>1, ResultType, Zenon
  <2>3. docs' \in Nat /\ (req.action = "append" => docs' > 0)
    <3>1. docs' = docs + 1 \/ (docs' = docs /\ Result(k).code = "attributeNotFound")
      BY <1>4, Zenon DEF LeaveEntity
    <3> QED
      BY <1>1, <2>2, <3>1
  <2>4. pc' # "notify"
    BY <1>1, <2>1, Zenon
  <2> QED
    BY <1>1, <2>1, <2>3, <2>4, SelectedStep, Zenon
<1>5. CASE WriteEntity(k)
  <2>1. PICK d \in EntityDoc : d = updatedEntity(k)
    BY <1>1, ResultType, Zenon
  <2>2. PICK e \in Written(k) :
          /\ entities' = entities \/ entities' = [entities EXCEPT ![e] = d]
          /\ \/ pc' = "notify" /\ subsToNotify'.key = k /\ cursor' = cursor /\ responses' = responses
             \/ pc' = "loop" /\ NextDocument(k, "error")
    <3>1. [key |-> k, names |-> Result(k).triggered].key = k
      BY Zenon
    <3> QED
      BY <1>1, <1>5, <2>1, <3>1, Zenon DEF WriteEntity
  <2>3. e \in Key /\ entities[e] # None /\ Reaches(k, e)
    BY WrittenReached, <1>1, Zenon
  <2>4. pre[e] # None
    BY <1>1, <2>3, Zenon DEF SelectedInv, LoopCreatesNone
  <2>5. /\ entities' \in [Key -> EntityDoc \cup {None}]
        /\ \A j \in Key : entities'[j] # entities[j] => j = e
    BY <1>1, <2>2, <2>3, Zenon
  <2>6. docs' \in Nat /\ docs' > 0
    BY <1>1, <1>5 DEF WriteEntity
  <2> QED
    BY <1>1, <2>2, <2>3, <2>4, <2>5, <2>6, SelectedStep, Zenon
<1> QED
  BY <1>3, <1>4, <1>5, Zenon

\* The notifications of a document.
LEMMA SelectedNotify ==
  ASSUME SelectedInv, processSubscriptions
  PROVE  SelectedInv'
<1>1. PICK k \in Key : k = subsToNotify.key /\ NextDocument(k, "ok")
  BY Zenon DEF SelectedInv, EntitiesTyped, processSubscriptions
<1>2. /\ pc = "notify" /\ pc' = "loop" /\ req' = req /\ pre' = pre /\ docs' = docs /\ entities' = entities
      /\ req \in Request
      /\ DOMAIN cursor \subseteq Key /\ \A j \in DOMAIN cursor : cursor[j] \in EntityDoc
  BY Zenon DEF SelectedInv, EntitiesTyped, processSubscriptions
<1>3. DOMAIN cursor' \subseteq Key /\ \A j \in DOMAIN cursor' : cursor'[j] \in EntityDoc
  BY <1>1, <1>2, Zenon DEF NextDocument
<1>4. EntitiesTyped'
  BY <1>2, <1>3, Zenon DEF SelectedInv, EntitiesTyped
<1>5. \A x \in Touched : x \in Touched'
  <2>1. responses' = responses \cup {Response(k, "ok")} /\ Response(k, "ok").key = k
    BY <1>1, Zenon DEF NextDocument, Response
  <2>2. \A x \in Touched : x = k \/ \E r \in responses : x = r.key
    BY <1>1, <1>2, Zenon DEF Touched
  <2>3. \A r \in responses' : r.key \in Touched'
    BY Zenon DEF Touched
  <2>4. \A r \in responses \cup {Response(k, "ok")} : r \in responses'
    BY <2>1, Zenon
  <2> QED
    BY <2>1, <2>2, <2>3, <2>4, Zenon
<1>6. ChangesTouched'
  <2> SUFFICES ASSUME NEW e \in Key, entities[e] # pre[e] PROVE \E x \in Touched' : Reaches(x, e)
    BY <1>2, Zenon DEF ChangesTouched, Reaches
  <2>1. PICK x \in Touched : Reaches(x, e)
    BY <1>2, Zenon DEF SelectedInv, ChangesTouched
  <2> QED
    BY <1>5, <2>1, Zenon
<1> QED
  BY <1>2, <1>4, <1>6, Zenon DEF SelectedInv, LoopCreatesNone, CreatedByAppend, AllPending

\* A step that ends with a response for the request's own entity, and changes that one
\* at most.
LEMMA SelectedAnswer ==
  ASSUME SelectedInv, pc \in {"loop", "notifyNew"}, pc' \in {"notifyNew", "reply"},
         entities' \in [Key -> EntityDoc \cup {None}],
         \A e \in Key : entities'[e] # entities[e] => e = RequestKey,
         \A e \in Key : entities'[e] # entities[e] => req.action = "append" /\ SelectedIn(pre, req) = {},
         docs' = docs, req' = req, pre' = pre, cursor' = cursor,
         \A x \in responses : x \in responses',
         pc' = "notifyNew" => subsToNotify'.key = RequestKey,
         pc' = "reply" => \/ \E x \in responses' : x.key = RequestKey
                          \/ pc = "loop" /\ entities' = entities
  PROVE  SelectedInv'
<1>1. req \in Request
  BY Zenon DEF SelectedInv, EntitiesTyped
<1>2. EntitiesTyped'
  BY <1>1, Zenon DEF SelectedInv, EntitiesTyped, RequestKey
<1>3. \A x \in Touched : x \in Touched'
  BY Zenon DEF Touched, SelectedInv, EntitiesTyped
<1>4. pc' = "notifyNew" \/ (\E x \in responses' : x.key = RequestKey) => RequestKey \in Touched'
  BY Zenon DEF Touched
<1>5. ASSUME NEW e \in Key, entities'[e] # pre[e] PROVE \E x \in Touched' : Reaches(x, e)
  <2>1. CASE entities'[e] = entities[e]
    <3>1. PICK x \in Touched : Reaches(x, e)
      BY <1>5, <2>1, Zenon DEF SelectedInv, ChangesTouched
    <3> QED
      BY <1>3, <3>1, Zenon
  <2>2. CASE entities'[e] # entities[e]
    <3>1. e = RequestKey /\ RequestKey \in Touched'
      BY <1>4, <2>2, Zenon
    <3> QED
      BY <3>1, Zenon DEF Reaches
  <2> QED
    BY <2>1, <2>2, Zenon
<1>6. ChangesTouched'
  BY <1>5, Zenon DEF ChangesTouched, Reaches
<1>7. CreatedByAppend'
  BY Zenon DEF SelectedInv, LoopCreatesNone, CreatedByAppend, RequestKey
<1> QED
  BY <1>2, <1>6, <1>7, Zenon DEF SelectedInv, LoopCreatesNone, AllPending

\* After the loop.
LEMMA SelectedAfter ==
  ASSUME SelectedInv, Finish \/ LookForProvider \/ createEntity \/ NotifyNew
  PROVE  SelectedInv'
<1>1. entities \in [Key -> EntityDoc \cup {None}] /\ (pc # "idle" => req \in Request)
  BY Zenon DEF SelectedInv, EntitiesTyped
<1>2. \A code : Response(RequestKey, code).key = RequestKey
  BY Zenon DEF Response
<1>3. CASE Finish
  BY <1>1, <1>3, SelectedAnswer, Zenon DEF Finish, LoopDone
<1>4. CASE LookForProvider
  <2>1. PICK code : responses' = responses \cup {Response(RequestKey, code)} /\ pc' = "reply"
    BY <1>4, Zenon DEF LookForProvider, buildGeneralErrorResponse
  <2> QED
    BY <1>1, <1>2, <1>4, <2>1, SelectedAnswer, Zenon DEF LookForProvider, LoopDone
<1>5. CASE NotifyNew
  <2>1. PICK code : responses' = responses \cup {Response(RequestKey, code)} /\ pc' = "reply"
    BY <1>5, Zenon DEF NotifyNew, buildGeneralErrorResponse
  <2> QED
    BY <1>1, <1>2, <1>5, <2>1, SelectedAnswer, Zenon DEF NotifyNew
<1>6. CASE createEntity
  <2>1. /\ pc = "loop" /\ docs = 0 /\ DOMAIN cursor = {} /\ req.action = "append" /\ req \in Request
        /\ req' = req /\ pre' = pre /\ docs' = docs /\ cursor' = cursor
    BY <1>1, <1>6, Zenon DEF createEntity, LoopDone
  <2>2. SelectedIn(pre, req) = {}
    BY <2>1 DEF SelectedInv, AllPending
  <2>3. RequestKey \in Key
    BY <2>1, RequestKeyType, Zenon
  <2>4. PICK d \in EntityDoc : d = NewEntity(req.attrs)
    BY <2>1, NewEntityType, RequestAssumption, Zenon
  <2>5. entities' = entities \/ entities' = [entities EXCEPT ![RequestKey] = d]
    BY <1>6, <2>4, Zenon DEF createEntity
  <2>6. /\ entities' \in [Key -> EntityDoc \cup {None}]
        /\ \A e \in Key : entities'[e] # entities[e] => e = RequestKey
    BY <1>1, <2>3, <2>5, Zenon
  <2>7. \/ pc' = "reply" /\ \E code : responses' = responses \cup {Response(RequestKey, code)}
        \/ pc' = "notifyNew" /\ responses' = responses /\ subsToNotify'.key = RequestKey
    <3>1. \A n : [key |-> RequestKey, names |-> n].key = RequestKey
      BY Zenon
    <3> QED
      BY <1>6, <3>1, Zenon DEF createEntity, buildGeneralErrorResponse
  <2> QED
    BY <1>2, <2>1, <2>2, <2>6, <2>7, SelectedAnswer, Zenon
<1> QED
  BY <1>3, <1>4, <1>5, <1>6, Zenon

\* Every step keeps the invariant.
LEMMA SelectedNext == SelectedInv /\ [Next]_vars => SelectedInv'
<1> SUFFICES ASSUME SelectedInv, [Next]_vars PROVE SelectedInv'
  BY Zenon
<1>1. CASE UNCHANGED vars
  BY <1>1, Zenon DEF vars, SelectedInv, EntitiesTyped, ChangesTouched, Touched, LoopCreatesNone,
              CreatedByAppend, AllPending, RequestKey
<1>2. CASE Next
  <2>1. ASSUME NEW r \in Request, mongoUpdateContext(r) PROVE SelectedInv'
    BY <2>1, SelectedArrive, Zenon
  <2>2. ASSUME NEW k \in Key, removeEntity(k) \/ LeaveEntity(k) \/ WriteEntity(k) PROVE SelectedInv'
    BY <2>2, SelectedLoop, Zenon
  <2>3. Reply \/ Crash => Idle
    BY Zenon DEF Reply, Crash
  <2> QED
    BY <1>2, <2>1, <2>2, <2>3, SelectedQuery, SelectedNotify, SelectedAfter, SelectedIdle, Zenon DEF Next
<1> QED
  BY <1>1, <1>2, Zenon

\* The invariant at the reply.
LEMMA SelectedImplies == SelectedInv => OnlySelectedChange
<1> SUFFICES ASSUME SelectedInv, pc = "reply", NEW k \in Key
             PROVE  /\ entities[k] # pre[k] => \E x \in responses : Reaches(x.key, k)
                    /\ pre[k] = None /\ entities[k] # None =>
                         /\ req.action = "append" /\ k = RequestKey
                         /\ SelectedIn(pre, req) = {}
  BY Zenon DEF OnlySelectedChange, Reaches, SelectedIn
<1>1. ASSUME entities[k] # pre[k] PROVE \E x \in responses : Reaches(x.key, k)
  <2>1. PICK y \in Touched : Reaches(y, k)
    BY <1>1, Zenon DEF SelectedInv, ChangesTouched
  <2>2. PICK x \in responses : y = x.key
    BY Zenon DEF Touched
  <2> QED
    BY <2>1, <2>2, Zenon
<1> QED
  BY <1>1, Zenon DEF SelectedInv, CreatedByAppend

\* OnlySelectedChange: processContextElement changes only entities that it answers for
\* (or those below that the query of a write matches), and createEntity is reached only
\* when its query found nothing.
THEOREM OnlySelectedChangeAlways == Spec => []OnlySelectedChange
<1>1. Spec => []SelectedInv
  BY SelectedInit, SelectedNext, PTL DEF Spec
<1> QED
  BY <1>1, SelectedImplies, PTL

-----------------------------------------------------------------------------
(* What becomes of an entity.                                              *)

\* No path of an entity is found with the query for another one.
PathsApart == \A p, q \in EntityPath : WriteMatches(p, q) => p = q

\* What the attributes of a request make of a document, and the document written.
ResultOf(r, doc) == processContextAttributeVector(r.action, doc, r.attrs)

UpdatedDoc(r, doc) ==
  [attrs |-> ResultOf(r, doc).attrs, locAttr |-> ResultOf(r, doc).locAttr,
   coords |-> IF ResultOf(r, doc).locAttr = "" THEN "" ELSE ResultOf(r, doc).coords]

IsWhole(r) == r.action = "delete" /\ r.attrs = <<>>

NamesOf(r) == {r.attrs[i].name : i \in DOMAIN r.attrs}

\* What createEntity asks of the attributes of a new entity.
LegalNew(cav) == legalIdUsageOfNew(cav) /\ processLocation(cav)

\* The request r has updated, left, created or removed the entity k, which was p and is d.
IsUpdated(r, p, d) ==
  /\ ~IsWhole(r) /\ p # None
  /\ ResultOf(r, p).code = "ok" /\ ResultOf(r, p).modified
  /\ d = UpdatedDoc(r, p)

IsUnmodified(r, p, d) ==
  /\ ~IsWhole(r) /\ p # None
  /\ ResultOf(r, p).code = "ok" /\ ~ResultOf(r, p).modified
  /\ d = p

IsCreated(r, k, p, d) ==
  /\ r.action = "append" /\ k = [type |-> r.type, path |-> r.path]
  /\ LegalNew(r.attrs)
  /\ p = None /\ d = NewEntity(r.attrs)

IsRemoved(r, d) == IsWhole(r) /\ d = None

IsWritten(r, k, p, d) == IsUpdated(r, p, d) \/ IsCreated(r, k, p, d)

\* What a response says of an entity, where N has been notified.
Accounted(r, k, p, d, code, N) ==
  /\ code \in {"invalid", "attributeNotFound"} => d = p
  /\ code = "ok" => \/ IsWhole(r)
                    \/ IsUnmodified(r, p, d)
                    \/ IsUpdated(r, p, d) /\ \A n \in ResultOf(r, p).triggered : <<k, n>> \in N
                    \/ IsCreated(r, k, p, d) /\ \A n \in NamesOf(r) : <<k, n>> \in N

AllNamed(coll) == \A k \in Key : coll[k] # None => NamedIds(coll[k].attrs)

\* Every entity is what it was or what the request makes of it.
EntitiesFromPre ==
  /\ AllNamed(entities)
  /\ pc # "idle" => /\ pre \in [Key -> EntityDoc \cup {None}] /\ AllNamed(pre)
                    /\ \A k \in Key : \/ entities[k] = pre[k]
                                      \/ IsWritten(req, k, pre[k], entities[k])
                                      \/ IsRemoved(req, entities[k])

\* The documents before the cursor are as they were read.
CursorFresh ==
  /\ DOMAIN cursor # {} => pc \in {"loop", "notify"}
  /\ \A k \in DOMAIN cursor : cursor[k] = pre[k] /\ (entities[k] = pre[k] \/ (pc = "notify" /\ k = subsToNotify.key))

\* Responses and notifications are about documents that the loop has left behind.
ResponsesFinal ==
  \A s \in responses : /\ s.key \in Key \ DOMAIN cursor
                       /\ Accounted(req, s.key, pre[s.key], entities[s.key], s.code, notified)

NotifiedFinal ==
  \A s \in notified : /\ s[1] \in Key \ DOMAIN cursor
                      /\ IsWritten(req, s[1], pre[s[1]], entities[s[1]])

\* What the count of documents says.
DocsCounted ==
  /\ pc \in {"idle", "query"} => responses = {} /\ notified = {} /\ docs = 0 /\ DOMAIN cursor = {}
  /\ pc = "loop" /\ docs = 0 => entities = pre /\ notified = {} /\ (req.action = "append" => responses = {})
  /\ (pc = "loop" /\ docs > 0) \/ pc = "reply" => responses # {}

\* The subscriptions of the entity just written are about to be notified.
WriteToNotify ==
  /\ pc = "notify" => /\ subsToNotify.key \in DOMAIN cursor
                      /\ IsUpdated(req, pre[subsToNotify.key], entities[subsToNotify.key])
                      /\ subsToNotify.names = ResultOf(req, pre[subsToNotify.key]).triggered
  /\ pc = "notifyNew" => /\ IsCreated(req, RequestKey, pre[RequestKey], entities[RequestKey])
                         /\ subsToNotify.names = NamesOf(req)

StatesInv ==
  EntitiesFromPre /\ CursorFresh /\ ResponsesFinal /\ NotifiedFinal /\ DocsCounted /\ WriteToNotify

\* The operators of the loop, in terms of the document read.
LEMMA ResultOfCursor ==
  /\ \A k : Result(k) = ResultOf(req, cursor[k]) /\ updatedEntity(k) = UpdatedDoc(req, cursor[k])
  /\ WholeEntity <=> IsWhole(req)
  BY Zenon DEF Result, ResultOf, updatedEntity, UpdatedDoc, WholeEntity, IsWhole

\* A run of the attributes of a request over a document.
LEMMA ResultOfRun ==
  ASSUME NEW r \in Request, NEW doc \in EntityDoc
  PROVE  /\ r.action \in Action /\ r.attrs \in Seq(ContextAttribute)
         /\ \E f : Runs(f, r.action, doc, r.attrs) /\ ResultOf(r, doc) = f[Len(r.attrs)]
         /\ ResultOf(r, doc) \in Processed
<1>1. PICK action \in Action, cav \in Seq(ContextAttribute) : action = r.action /\ cav = r.attrs
  BY RequestAssumption, Zenon
<1>2. PICK f : Runs(f, action, doc, cav) /\ processContextAttributeVector(action, doc, cav) = f[Len(cav)]
  BY VectorSteps, Zenon
<1>3. Len(cav) \in 0 .. Len(cav)
  OBVIOUS
<1> QED
  BY <1>1, <1>2, <1>3, Zenon DEF ResultOf, Runs

\* The document that is written.
LEMMA UpdatedType ==
  ASSUME NEW r \in Request, NEW doc \in EntityDoc
  PROVE  /\ UpdatedDoc(r, doc) \in EntityDoc
         /\ UpdatedDoc(r, doc).attrs = ResultOf(r, doc).attrs
         /\ NamedIds(doc.attrs) => NamedIds(UpdatedDoc(r, doc).attrs)
<1>1. PICK res \in Processed : res = ResultOf(r, doc)
  BY ResultOfRun, Zenon
<1>2. res.attrs \in Seq(Attribute) /\ res.locAttr \in Text /\ res.coords \in Text
  BY Zenon DEF Processed
<1>3. PICK c \in Text : c = IF res.locAttr = "" THEN "" ELSE res.coords
  BY <1>2, EmptyText, Zenon
<1>4. [attrs |-> res.attrs, locAttr |-> res.locAttr, coords |-> c] \in EntityDoc
  BY <1>2, Zenon DEF EntityDoc
<1>5. UpdatedDoc(r, doc) = [attrs |-> res.attrs, locAttr |-> res.locAttr, coords |-> c]
  BY <1>1, <1>3, Zenon DEF UpdatedDoc
<1>6. [attrs |-> res.attrs, locAttr |-> res.locAttr, coords |-> c].attrs = res.attrs
  BY Zenon
<1>7. NamedIds(doc.attrs) => NamedIds(res.attrs)
  <2>1. PICK f : Runs(f, r.action, doc, r.attrs) /\ ResultOf(r, doc) = f[Len(r.attrs)]
    BY ResultOfRun, Zenon
  <2>2. r.action \in Action /\ r.attrs \in Seq(ContextAttribute)
    BY ResultOfRun, Zenon
  <2> QED
    BY <1>1, <2>1, <2>2, RunIds, Zenon
<1>8. PICK u : u = UpdatedDoc(r, doc) /\ u \in EntityDoc /\ u.attrs = res.attrs
  BY <1>4, <1>5, <1>6, Zenon
<1> QED
  BY <1>1, <1>7, <1>8, Zenon

\* Where the paths are apart a write reaches the entity that was found.
LEMMA WrittenSame ==
  ASSUME PathsApart, NEW k \in Key, NEW e \in Written(k)
  PROVE  e = k
<1>1. e \in Key /\ e.type = k.type /\ WriteMatches(k.path, e.path)
  BY Zenon DEF Written
<1>2. k.path \in EntityPath /\ e.path \in EntityPath
  BY <1>1, Zenon DEF Key
<1>3. k.path = e.path
  BY <1>1, <1>2, Zenon DEF PathsApart
<1>4. k = [type |-> k.type, path |-> k.path] /\ e = [type |-> e.type, path |-> e.path]
  BY <1>1, Zenon DEF Key
<1> QED
  BY <1>1, <1>3, <1>4, Zenon

\* What a response says.
LEMMA ResponseFields ==
  ASSUME NEW k, NEW c, NEW n, n = Response(k, c)
  PROVE  n.key = k /\ n.code = c
  BY Zenon DEF Response

\* What processSubscriptions sends.
LEMMA SentPairs ==
  ASSUME NEW k, NEW N
  PROVE  /\ \A s \in {k} \X N : s[1] = k
         /\ \A n \in N : <<k, n>> \in {k} \X N
BY Zenon

\* More notifications do no harm to a response.
LEMMA AccountedMore ==
  ASSUME NEW r, NEW k, NEW p, NEW d, NEW code, NEW N, NEW M, N \subseteq M, Accounted(r, k, p, d, code, N)
  PROVE  Accounted(r, k, p, d, code, M)
  BY Zenon DEF Accounted

\* Initially.
LEMMA StatesInit == Init => StatesInv
<1> SUFFICES ASSUME Init PROVE StatesInv
  BY Zenon
<1>1. DOMAIN cursor = {}
  BY DEF Init
<1>2. AllNamed(entities)
  BY Zenon DEF Init, AllNamed
<1> QED
  BY <1>1, <1>2, Zenon DEF Init, StatesInv, EntitiesFromPre, CursorFresh, ResponsesFinal, NotifiedFinal,
                            DocsCounted, WriteToNotify

\* The request arrives.
LEMMA StatesArrive ==
  ASSUME SelectedInv, StatesInv, NEW r \in Request, mongoUpdateContext(r)
  PROVE  StatesInv'
<1>1. /\ pc = "idle" /\ pc' = "query" /\ pre' = entities /\ entities' = entities /\ cursor' = cursor
      /\ docs' = docs /\ responses' = responses /\ notified' = notified
  BY Zenon DEF mongoUpdateContext
<1>2. responses = {} /\ notified = {} /\ docs = 0 /\ DOMAIN cursor = {} /\ AllNamed(entities)
  BY <1>1, Zenon DEF StatesInv, DocsCounted, EntitiesFromPre
<1>3. entities \in [Key -> EntityDoc \cup {None}]
  BY Zenon DEF SelectedInv, EntitiesTyped
<1>4. EntitiesFromPre'
  BY <1>1, <1>2, <1>3, Zenon DEF EntitiesFromPre
<1> QED
  BY <1>1, <1>2, <1>4, Zenon DEF StatesInv, CursorFresh, ResponsesFinal, NotifiedFinal, DocsCounted, WriteToNotify

\* The end of a request.
LEMMA StatesIdle ==
  ASSUME StatesInv, Idle
  PROVE  StatesInv'
<1>1. /\ pc' = "idle" /\ entities' = entities /\ docs' = 0 /\ responses' = {} /\ notified' = {}
  BY Zenon DEF Idle
<1>2. DOMAIN cursor' = {}
  BY DEF Idle
<1>3. AllNamed(entities)
  BY Zenon DEF StatesInv, EntitiesFromPre
<1> QED
  BY <1>1, <1>2, <1>3, Zenon DEF StatesInv, EntitiesFromPre, CursorFresh, ResponsesFinal, NotifiedFinal,
                                  DocsCounted, WriteToNotify

\* The answer that ends a request, which may create the entity of the request.
LEMMA StatesAnswer ==
  ASSUME SelectedInv, StatesInv, pc # "idle", DOMAIN cursor = {}, cursor' = cursor, req' = req, pre' = pre,
         pc' = "reply", NEW code, NEW k \in Key, responses' = responses \cup {Response(k, code)},
         \A e \in Key : e # k => entities'[e] = entities[e],
         \/ entities'[k] = entities[k]
         \/ responses = {} /\ notified = {} /\ IsWritten(req, k, pre[k], entities'[k]) /\ NamedIds(entities'[k].attrs),
         notified \subseteq notified',
         \A s \in notified' : s \in notified \/ (s[1] = k /\ IsWritten(req, k, pre[k], entities'[k])),
         Accounted(req, k, pre[k], entities'[k], code, notified')
  PROVE  StatesInv'
<1>1. EntitiesFromPre'
  <2>1. /\ AllNamed(entities) /\ pre \in [Key -> EntityDoc \cup {None}] /\ AllNamed(pre)
        /\ \A e \in Key : \/ entities[e] = pre[e]
                          \/ IsWritten(req, e, pre[e], entities[e])
                          \/ IsRemoved(req, entities[e])
    BY Zenon DEF StatesInv, EntitiesFromPre
  <2>2. AllNamed(entities')
    BY <2>1, Zenon DEF AllNamed
  <2>3. \A e \in Key : \/ entities'[e] = pre[e]
                       \/ IsWritten(req, e, pre[e], entities'[e])
                       \/ IsRemoved(req, entities'[e])
    BY <2>1, Zenon
  <2> QED
    BY <2>1, <2>2, <2>3, Zenon DEF EntitiesFromPre
<1>2. CursorFresh'
  BY Zenon DEF CursorFresh
<1>3. ResponsesFinal'
  <2>1. ASSUME NEW s \in responses
        PROVE  s.key \in Key /\ Accounted(req, s.key, pre[s.key], entities'[s.key], s.code, notified')
    <3>1. PICK e : e = s.key
      BY Zenon
    <3>2. e \in Key /\ Accounted(req, e, pre[e], entities[e], s.code, notified)
      BY <3>1, Zenon DEF StatesInv, ResponsesFinal
    <3>3. entities'[e] = entities[e]
      BY <3>2, Zenon
    <3>4. Accounted(req, e, pre[e], entities[e], s.code, notified')
      BY <3>2, AccountedMore, Zenon
    <3> QED
      BY <3>1, <3>2, <3>3, <3>4, Zenon
  <2>6. PICK n : n = Response(k, code)
    BY Zenon
  <2>2. n = Response(k, code) /\ n.key = k /\ n.code = code
    BY ONLY <2>6, ResponseFields, Zenon
  <2>3. n.key \in Key /\ Accounted(req, n.key, pre[n.key], entities'[n.key], n.code, notified')
    BY <2>2, Zenon
  <2>4. \A s \in responses' : s \in responses \/ s = n
    BY <2>2, Zenon
  <2>5. \A s \in responses' : /\ s.key \in Key
                              /\ Accounted(req, s.key, pre[s.key], entities'[s.key], s.code, notified')
    BY <2>1, <2>3, <2>4, Zenon
  <2> QED
    BY <2>5, Zenon DEF ResponsesFinal
<1>4. NotifiedFinal'
  <2>1. ASSUME NEW s \in notified'
        PROVE  s[1] \in Key /\ IsWritten(req, s[1], pre[s[1]], entities'[s[1]])
    <3>1. PICK e : e = s[1]
      BY Zenon
    <3>2. CASE s \in notified
      <4>1. e \in Key /\ IsWritten(req, e, pre[e], entities[e])
        BY <3>1, <3>2, Zenon DEF StatesInv, NotifiedFinal
      <4>2. entities'[e] = entities[e]
        BY <3>2, <4>1, Zenon
      <4> QED
        BY <3>1, <4>1, <4>2, Zenon
    <3>3. CASE s \notin notified
      <4>1. e = k /\ IsWritten(req, k, pre[k], entities'[k])
        BY <3>1, <3>3, Zenon
      <4> QED
        BY <3>1, <4>1, Zenon
    <3> QED
      BY <3>2, <3>3, Zenon
  <2> QED
    BY <2>1, Zenon DEF NotifiedFinal
<1>5. responses' # {}
  BY Zenon
<1> QED
  BY <1>1, <1>2, <1>3, <1>4, <1>5, Zenon DEF StatesInv, DocsCounted, WriteToNotify

\* The preconditions and the query.
LEMMA StatesQuery ==
  ASSUME SelectedInv, StatesInv, processContextElement
  PROVE  StatesInv'
<1>1. /\ pc = "query" /\ req \in Request /\ entities = pre /\ entities' = entities /\ pre' = pre /\ req' = req
      /\ docs' = docs /\ notified' = notified /\ responses = {} /\ notified = {} /\ docs = 0 /\ DOMAIN cursor = {}
  BY Zenon DEF SelectedInv, EntitiesTyped, processContextElement, StatesInv, DocsCounted
<1>2. ASSUME NEW code \in {"notImplemented", "invalid", "error"}, buildGeneralErrorResponse(code), cursor' = cursor
      PROVE  StatesInv'
  <2>1. RequestKey \in Key
    BY <1>1, RequestKeyType, Zenon
  <2>2. pc' = "reply" /\ responses' = responses \cup {Response(RequestKey, code)}
    BY <1>2, Zenon DEF buildGeneralErrorResponse
  <2>3. code # "ok"
    BY <1>2, Zenon
  <2>4. Accounted(req, RequestKey, pre[RequestKey], entities'[RequestKey], code, notified')
    BY <1>1, <2>3, Zenon DEF Accounted
  <2> QED
    BY <1>1, <1>2, <2>1, <2>2, <2>4, StatesAnswer, Zenon
<1>3. CASE pc' = "loop" /\ cursor' = [k \in Selected(req) |-> entities[k]] /\ responses' = responses
  <2>1. DOMAIN cursor' = Selected(req) /\ \A k \in Selected(req) : cursor'[k] = entities[k]
    BY <1>3, Zenon
  <2>2. EntitiesFromPre'
    BY <1>1, Zenon DEF StatesInv, EntitiesFromPre
  <2>3. CursorFresh'
    BY <1>1, <1>3, <2>1, Zenon DEF CursorFresh
  <2>4. DocsCounted'
    <3>1. ~(docs' > 0)
      BY <1>1
    <3> QED
      BY <1>1, <1>3, <3>1, Zenon DEF DocsCounted
  <2> QED
    BY <1>1, <1>3, <2>2, <2>3, <2>4, Zenon DEF StatesInv, ResponsesFinal, NotifiedFinal, WriteToNotify
<1> QED
  BY <1>2, <1>3, Zenon DEF processContextElement

\* A step of the loop that answers for the document k.
LEMMA StatesStep ==
  ASSUME SelectedInv, StatesInv, pc = "loop", NEW k \in DOMAIN cursor, NEW code,
         \A e \in Key : e # k => entities'[e] = entities[e],
         \/ entities'[k] = pre[k]
         \/ IsUpdated(req, pre[k], entities'[k]) /\ NamedIds(entities'[k].attrs)
         \/ IsRemoved(req, entities'[k]),
         Accounted(req, k, pre[k], entities'[k], code, notified),
         NextDocument(k, code), pc' = "loop", req' = req, pre' = pre, notified' = notified,
         docs' = 0 => docs = 0 /\ entities' = entities /\ req.action # "append"
  PROVE  StatesInv'
<1>1. k \in Key /\ DOMAIN cursor \subseteq Key
  BY Zenon DEF SelectedInv, EntitiesTyped
<1>2. /\ DOMAIN cursor' = DOMAIN cursor \ {k} /\ \A j \in DOMAIN cursor \ {k} : cursor'[j] = cursor[j]
      /\ responses' = responses \cup {Response(k, code)}
  BY Zenon DEF NextDocument
<1>3. EntitiesFromPre'
  <2>1. /\ AllNamed(entities) /\ pre \in [Key -> EntityDoc \cup {None}] /\ AllNamed(pre)
        /\ \A e \in Key : \/ entities[e] = pre[e]
                          \/ IsWritten(req, e, pre[e], entities[e])
                          \/ IsRemoved(req, entities[e])
    BY Zenon DEF StatesInv, EntitiesFromPre
  <2>2. entities'[k] # None => NamedIds(entities'[k].attrs)
    BY <1>1, <2>1, Zenon DEF AllNamed, IsRemoved
  <2>3. AllNamed(entities')
    BY <2>1, <2>2, Zenon DEF AllNamed
  <2>4. \A e \in Key : \/ entities'[e] = pre[e]
                       \/ IsWritten(req, e, pre[e], entities'[e])
                       \/ IsRemoved(req, entities'[e])
    BY <2>1, Zenon DEF IsWritten
  <2> QED
    BY <2>1, <2>3, <2>4, Zenon DEF EntitiesFromPre
<1>4. CursorFresh'
  <2>1. \A j \in DOMAIN cursor : cursor[j] = pre[j] /\ entities[j] = pre[j]
    BY Zenon DEF StatesInv, CursorFresh
  <2>2. \A j \in DOMAIN cursor \ {k} : cursor'[j] = pre[j] /\ entities'[j] = pre[j]
    BY <1>1, <1>2, <2>1, Zenon
  <2> QED
    BY <1>2, <2>2, Zenon DEF CursorFresh
<1>5. ResponsesFinal'
  <2>1. ASSUME NEW s \in responses
        PROVE  /\ s.key \in Key \ DOMAIN cursor'
               /\ Accounted(req, s.key, pre[s.key], entities'[s.key], s.code, notified)
    <3>1. PICK e : e = s.key
      BY Zenon
    <3>2. e \in Key \ DOMAIN cursor /\ Accounted(req, e, pre[e], entities[e], s.code, notified)
      BY <3>1, Zenon DEF StatesInv, ResponsesFinal
    <3>3. e # k /\ entities'[e] = entities[e] /\ e \in Key \ DOMAIN cursor'
      BY <1>2, <3>2, Zenon
    <3> QED
      BY <3>1, <3>2, <3>3, Zenon
  <2>2. PICK n : n = Response(k, code)
    BY Zenon
  <2>3. n.key = k /\ n.code = code
    BY ONLY <2>2, ResponseFields, Zenon
  <2>4. /\ n.key \in Key \ DOMAIN cursor'
        /\ Accounted(req, n.key, pre[n.key], entities'[n.key], n.code, notified)
    BY <1>1, <1>2, <2>3, Zenon
  <2>5. \A s \in responses' : s \in responses \/ s = n
    BY <1>2, <2>2, Zenon
  <2>6. \A s \in responses' : /\ s.key \in Key \ DOMAIN cursor'
                              /\ Accounted(req, s.key, pre[s.key], entities'[s.key], s.code, notified)
    BY <2>1, <2>4, <2>5, Zenon
  <2> QED
    BY <2>6, Zenon DEF ResponsesFinal
<1>6. NotifiedFinal'
  <2>1. ASSUME NEW s \in notified
        PROVE  s[1] \in Key \ DOMAIN cursor' /\ IsWritten(req, s[1], pre[s[1]], entities'[s[1]])
    <3>1. PICK e : e = s[1]
      BY Zenon
    <3>2. e \in Key \ DOMAIN cursor /\ IsWritten(req, e, pre[e], entities[e])
      BY <3>1, Zenon DEF StatesInv, NotifiedFinal
    <3>3. e # k /\ entities'[e] = entities[e] /\ e \in Key \ DOMAIN cursor'
      BY <1>2, <3>2, Zenon
    <3> QED
      BY <3>1, <3>2, <3>3, Zenon
  <2> QED
    BY <2>1, Zenon DEF NotifiedFinal
<1>7. DocsCounted'
  <2>1. responses' # {}
    BY <1>2, Zenon
  <2>2. docs' = 0 => entities' = pre' /\ notified' = {} /\ req'.action # "append"
    BY Zenon DEF StatesInv, DocsCounted
  <2> QED
    BY <2>1, <2>2, Zenon DEF DocsCounted
<1> QED
  BY <1>3, <1>4, <1>5, <1>6, <1>7, Zenon DEF StatesInv, WriteToNotify

\* The loop.
LEMMA StatesLoop ==
  ASSUME PathsApart, SelectedInv, StatesInv, NEW k \in Key, removeEntity(k) \/ LeaveEntity(k) \/ WriteEntity(k)
  PROVE  StatesInv'
<1>1. /\ pc = "loop" /\ k \in DOMAIN cursor /\ req' = req /\ pre' = pre /\ notified' = notified /\ docs \in Nat
      /\ req \in Request /\ cursor[k] \in EntityDoc /\ entities \in [Key -> EntityDoc \cup {None}]
  BY Zenon DEF removeEntity, LeaveEntity, WriteEntity, SelectedInv, EntitiesTyped
<1>2. cursor[k] = pre[k] /\ entities[k] = pre[k] /\ pre[k] \in EntityDoc
  BY <1>1, Zenon DEF StatesInv, CursorFresh
<1>3. PICK p \in EntityDoc : p = pre[k] /\ p # None /\ Result(k) = ResultOf(req, p) /\ updatedEntity(k) = UpdatedDoc(req, p)
  BY <1>2, ResultOfCursor, RequestAssumption, Zenon
<1>4. docs + 1 # 0
  BY <1>1
<1>5. AllNamed(pre)
  BY <1>1, Zenon DEF StatesInv, EntitiesFromPre
<1>6. CASE removeEntity(k)
  <2>1. /\ entities' = entities \/ entities' = [entities EXCEPT ![k] = None]
        /\ IsWhole(req)
        /\ docs' = docs + 1 /\ pc' = pc
    BY <1>6, ResultOfCursor, Zenon DEF removeEntity
  <2>2. PICK code : NextDocument(k, code) /\ code \in {"ok", "error"}
    BY <1>6, Zenon DEF removeEntity
  <2>3. /\ \A e \in Key : e # k => entities'[e] = entities[e]
        /\ entities'[k] = pre[k] \/ IsRemoved(req, entities'[k])
    BY <1>1, <1>2, <2>1, Zenon DEF IsRemoved
  <2>4. IsWhole(req)
    BY <1>6, ResultOfCursor, Zenon DEF removeEntity
  <2>5. code \notin {"invalid", "attributeNotFound"}
    BY <2>2, Zenon
  <2>6. Accounted(req, k, pre[k], entities'[k], code, notified)
    BY <2>4, <2>5, Zenon DEF Accounted
  <2>7. docs' # 0 /\ pc' = "loop"
    BY <1>1, <1>4, <2>1, Zenon
  <2> QED
    BY <1>1, <2>2, <2>3, <2>6, <2>7, StatesStep, Zenon
<1>7. CASE LeaveEntity(k)
  <2>1. entities' = entities /\ pc' = pc /\ ~IsWhole(req)
    BY <1>7, ResultOfCursor, Zenon DEF LeaveEntity
  <2>2. PICK code : /\ NextDocument(k, code)
                    /\ \/ code = "error"
                       \/ code = ResultOf(req, p).code /\ (code # "ok" \/ ~ResultOf(req, p).modified)
    BY <1>3, <1>7, Zenon DEF LeaveEntity
  <2>3. \A e \in Key : e # k => entities'[e] = entities[e]
    BY <2>1, Zenon
  <2>4. IsUnmodified(req, p, p) \/ code # "ok"
    BY <1>3, <2>1, <2>2, Zenon DEF IsUnmodified
  <2>5. Accounted(req, k, p, p, code, notified)
    BY <2>4, Zenon DEF Accounted
  <2>6. Accounted(req, k, pre[k], entities'[k], code, notified) /\ entities'[k] = pre[k]
    BY <1>2, <1>3, <2>1, <2>5, Zenon
  <2>7. docs' = docs + 1 \/ (docs' = docs /\ Result(k).code = "attributeNotFound")
    BY <1>7, Zenon DEF LeaveEntity
  <2>8. req.action = "append" => Result(k).code # "attributeNotFound"
    BY <1>1, ResultType, Zenon
  <2>9. docs' = 0 => docs = 0 /\ entities' = entities /\ req.action # "append"
    BY <1>4, <2>1, <2>7, <2>8, Zenon
  <2>10. pc' = "loop"
    BY <1>1, <2>1, Zenon
  <2> QED
    BY <1>1, <2>2, <2>3, <2>6, <2>9, <2>10, StatesStep, Zenon
<1>8. CASE WriteEntity(k)
  <2>1. /\ ~IsWhole(req) /\ ResultOf(req, p).code = "ok" /\ ResultOf(req, p).modified /\ docs' = docs + 1
    BY <1>3, <1>8, ResultOfCursor, Zenon DEF WriteEntity
  <2>2. PICK d : d = UpdatedDoc(req, p)
    BY Zenon
  <2>3. IsUpdated(req, pre[k], d)
    BY <1>3, <2>1, <2>2, Zenon DEF IsUpdated
  <2>4. NamedIds(d.attrs)
    <3>1. NamedIds(p.attrs)
      BY <1>3, <1>5, Zenon DEF AllNamed
    <3> QED
      BY <1>1, <2>2, <3>1, UpdatedType, Zenon
  <2>5. PICK e \in Written(k) :
          LET stored == [entities EXCEPT ![e] = updatedEntity(k)]
          IN  \/ /\ entities' = stored
                 /\ pc' = "notify"
                 /\ subsToNotify' = [key |-> k, names |-> Result(k).triggered]
                 /\ UNCHANGED <<cursor, responses>>
              \/ /\ entities' \in {entities, stored}
                 /\ NextDocument(k, "error")
                 /\ UNCHANGED <<pc, subsToNotify>>
    BY <1>8, Zenon DEF WriteEntity
  <2>6. e = k /\ updatedEntity(k) = d
    BY <1>3, <2>2, WrittenSame, Zenon
  <2>7. \/ /\ entities' = [entities EXCEPT ![k] = d] /\ pc' = "notify"
           /\ subsToNotify' = [key |-> k, names |-> Result(k).triggered]
           /\ cursor' = cursor /\ responses' = responses
        \/ /\ entities' = entities \/ entities' = [entities EXCEPT ![k] = d]
           /\ NextDocument(k, "error") /\ pc' = pc
    BY <2>5, <2>6, Zenon
  <2>8. /\ \A j \in Key : j # k => entities'[j] = entities[j]
        /\ entities'[k] = pre[k] \/ entities'[k] = d
    BY <1>1, <1>2, <2>7, Zenon
  <2>9. docs' # 0
    BY <1>4, <2>1, Zenon
  <2>10. CASE NextDocument(k, "error") /\ pc' = pc
    <3>1. "error" \notin {"invalid", "attributeNotFound"} /\ "error" # "ok"
      BY Zenon
    <3>2. PICK code : code = "error" /\ Accounted(req, k, pre[k], entities'[k], code, notified)
      BY <3>1, Zenon DEF Accounted
    <3>3. \/ entities'[k] = pre[k]
          \/ IsUpdated(req, pre[k], entities'[k]) /\ NamedIds(entities'[k].attrs)
      BY <2>3, <2>4, <2>8, Zenon
    <3> QED
      BY <1>1, <2>8, <2>9, <2>10, <3>2, <3>3, StatesStep, Zenon
  <2>11. CASE /\ entities' = [entities EXCEPT ![k] = d] /\ pc' = "notify"
              /\ subsToNotify' = [key |-> k, names |-> Result(k).triggered]
              /\ cursor' = cursor /\ responses' = responses
    <3>1. subsToNotify'.key = k /\ subsToNotify'.names = ResultOf(req, pre[k]).triggered
      BY <1>3, <2>11, Zenon
    <3>2. entities'[k] = d
      BY <1>1, <2>11, Zenon
    <3>3. /\ AllNamed(entities) /\ pre \in [Key -> EntityDoc \cup {None}] /\ AllNamed(pre)
          /\ \A j \in Key : \/ entities[j] = pre[j]
                            \/ IsWritten(req, j, pre[j], entities[j])
                            \/ IsRemoved(req, entities[j])
      BY <1>1, Zenon DEF StatesInv, EntitiesFromPre
    <3>4. AllNamed(entities')
      BY <2>4, <2>8, <3>2, <3>3, Zenon DEF AllNamed
    <3>5. \A j \in Key : \/ entities'[j] = pre[j]
                         \/ IsWritten(req, j, pre[j], entities'[j])
                         \/ IsRemoved(req, entities'[j])
      BY <2>3, <2>8, <3>2, <3>3, Zenon DEF IsWritten
    <3>6. EntitiesFromPre'
      BY <1>1, <3>3, <3>4, <3>5, Zenon DEF EntitiesFromPre
    <3>7. CursorFresh'
      <4>1. \A j \in DOMAIN cursor : j \in Key /\ cursor[j] = pre[j] /\ (entities[j] = pre[j])
        BY <1>1, Zenon DEF SelectedInv, EntitiesTyped, StatesInv, CursorFresh
      <4>2. \A j \in DOMAIN cursor : cursor[j] = pre[j] /\ (entities'[j] = pre[j] \/ j = k)
        BY <2>8, <4>1, Zenon
      <4> QED
        BY <1>1, <2>11, <3>1, <4>2, Zenon DEF CursorFresh
    <3>8. ResponsesFinal'
      <4>1. ASSUME NEW s \in responses
            PROVE  /\ s.key \in Key \ DOMAIN cursor
                   /\ Accounted(req, s.key, pre[s.key], entities'[s.key], s.code, notified)
        <5>1. PICK j : j = s.key
          BY Zenon
        <5>2. j \in Key \ DOMAIN cursor /\ Accounted(req, j, pre[j], entities[j], s.code, notified)
          BY <5>1, Zenon DEF StatesInv, ResponsesFinal
        <5>3. entities'[j] = entities[j]
          BY <1>1, <2>8, <5>2, Zenon
        <5> QED
          BY <5>1, <5>2, <5>3, Zenon
      <4> QED
        BY <1>1, <2>11, <4>1, Zenon DEF ResponsesFinal
    <3>9. NotifiedFinal'
      <4>1. ASSUME NEW s \in notified
            PROVE  s[1] \in Key \ DOMAIN cursor /\ IsWritten(req, s[1], pre[s[1]], entities'[s[1]])
        <5>1. PICK j : j = s[1]
          BY Zenon
        <5>2. j \in Key \ DOMAIN cursor /\ IsWritten(req, j, pre[j], entities[j])
          BY <5>1, Zenon DEF StatesInv, NotifiedFinal
        <5>3. entities'[j] = entities[j]
          BY <1>1, <2>8, <5>2, Zenon
        <5> QED
          BY <5>1, <5>2, <5>3, Zenon
      <4> QED
        BY <1>1, <2>11, <4>1, Zenon DEF NotifiedFinal
    <3>10. WriteToNotify'
      BY <1>1, <2>3, <2>11, <3>1, <3>2, Zenon DEF WriteToNotify
    <3> QED
      BY <2>11, <3>6, <3>7, <3>8, <3>9, <3>10, Zenon DEF StatesInv, DocsCounted
  <2> QED
    BY <2>7, <2>10, <2>11, Zenon
<1> QED
  BY <1>6, <1>7, <1>8, Zenon

\* The subscriptions of an entity that was updated.
LEMMA StatesNotify ==
  ASSUME SelectedInv, StatesInv, processSubscriptions
  PROVE  StatesInv'
<1>1. /\ pc = "notify" /\ pc' = "loop" /\ entities' = entities /\ req' = req /\ pre' = pre /\ docs' = docs
      /\ notified' = notified \cup Sent(subsToNotify) /\ NextDocument(subsToNotify.key, "ok")
  BY Zenon DEF processSubscriptions
<1>2. PICK k \in DOMAIN cursor : /\ k = subsToNotify.key /\ IsUpdated(req, pre[k], entities[k])
                                 /\ subsToNotify.names = ResultOf(req, pre[k]).triggered
  BY <1>1, Zenon DEF StatesInv, WriteToNotify
<1>3. PICK N : N = ResultOf(req, pre[k]).triggered /\ notified' = notified \cup ({k} \X N)
  BY <1>1, <1>2, Zenon DEF Sent
<1>4. docs' # 0 /\ k \in Key /\ DOMAIN cursor \subseteq Key
  <2>1. docs > 0 /\ docs \in Nat
    BY <1>1, Zenon DEF SelectedInv, AllPending, EntitiesTyped
  <2>2. docs # 0
    BY <2>1
  <2> QED
    BY <1>1, <1>2, <2>2, Zenon DEF SelectedInv, EntitiesTyped
<1>5. /\ DOMAIN cursor' = DOMAIN cursor \ {k} /\ \A j \in DOMAIN cursor \ {k} : cursor'[j] = cursor[j]
      /\ responses' = responses \cup {Response(k, "ok")}
  BY <1>1, <1>2, Zenon DEF NextDocument
<1>6. EntitiesFromPre'
  BY <1>1, Zenon DEF StatesInv, EntitiesFromPre
<1>7. CursorFresh'
  <2>1. \A j \in DOMAIN cursor : cursor[j] = pre[j] /\ (entities[j] = pre[j] \/ j = k)
    BY <1>1, <1>2, Zenon DEF StatesInv, CursorFresh
  <2>2. \A j \in DOMAIN cursor \ {k} : cursor'[j] = pre[j] /\ entities[j] = pre[j]
    BY <1>5, <2>1, Zenon
  <2> QED
    BY <1>1, <1>5, <2>2, Zenon DEF CursorFresh
<1>8. ResponsesFinal'
  <2>1. ASSUME NEW s \in responses
        PROVE  /\ s.key \in Key \ DOMAIN cursor'
               /\ Accounted(req, s.key, pre[s.key], entities[s.key], s.code, notified')
    <3>1. /\ s.key \in Key \ DOMAIN cursor
          /\ Accounted(req, s.key, pre[s.key], entities[s.key], s.code, notified)
      BY Zenon DEF StatesInv, ResponsesFinal
    <3>2. notified \subseteq notified'
      BY <1>3, Zenon
    <3> QED
      BY <1>5, <3>1, <3>2, AccountedMore, Zenon
  <2>2. PICK n : n = Response(k, "ok")
    BY Zenon
  <2>3. n.key = k /\ n.code = "ok"
    BY ONLY <2>2, ResponseFields, Zenon
  <2>4. Accounted(req, k, pre[k], entities[k], n.code, notified')
    <3>1. \A m \in N : <<k, m>> \in notified'
      BY <1>3, SentPairs, Zenon
    <3>2. n.code \notin {"invalid", "attributeNotFound"}
      BY <2>3, Zenon
    <3> QED
      BY <1>2, <1>3, <3>1, <3>2, Zenon DEF Accounted
  <2>5. n.key \in Key \ DOMAIN cursor' /\ Accounted(req, n.key, pre[n.key], entities[n.key], n.code, notified')
    BY <1>4, <1>5, <2>3, <2>4, Zenon
  <2>6. \A s \in responses' : s \in responses \/ s = n
    BY <1>5, <2>2, Zenon
  <2>7. \A s \in responses' : /\ s.key \in Key \ DOMAIN cursor'
                              /\ Accounted(req, s.key, pre[s.key], entities[s.key], s.code, notified')
    BY <2>1, <2>5, <2>6, Zenon
  <2> QED
    BY <1>1, <2>7, Zenon DEF ResponsesFinal
<1>9. NotifiedFinal'
  <2>1. ASSUME NEW s \in notified'
        PROVE  s[1] \in Key \ DOMAIN cursor' /\ IsWritten(req, s[1], pre[s[1]], entities[s[1]])
    <3>1. CASE s \in notified
      BY <1>5, <3>1, Zenon DEF StatesInv, NotifiedFinal
    <3>2. CASE s \in {k} \X N
      <4>1. s[1] = k
        BY <3>2, SentPairs, Zenon
      <4>2. k \in Key \ DOMAIN cursor' /\ IsWritten(req, k, pre[k], entities[k])
        BY <1>2, <1>4, <1>5, Zenon DEF IsWritten
      <4> QED
        BY <4>1, <4>2, Zenon
    <3> QED
      BY <1>3, <3>1, <3>2, Zenon
  <2> QED
    BY <1>1, <2>1, Zenon DEF NotifiedFinal
<1>10. DocsCounted'
  BY <1>1, <1>4, <1>5, Zenon DEF DocsCounted
<1> QED
  BY <1>1, <1>6, <1>7, <1>8, <1>9, <1>10, Zenon DEF StatesInv, WriteToNotify

\* The steps after the loop that write nothing.
LEMMA StatesAfter ==
  ASSUME SelectedInv, StatesInv, Finish \/ LookForProvider
  PROVE  StatesInv'
<1>1. /\ pc = "loop" /\ DOMAIN cursor = {} /\ entities' = entities /\ req' = req /\ pre' = pre /\ cursor' = cursor
      /\ notified' = notified /\ pc' = "reply"
  BY Zenon DEF Finish, LookForProvider, LoopDone, buildGeneralErrorResponse
<1>2. CASE Finish
  <2>1. responses' = responses /\ docs > 0
    BY <1>2, Zenon DEF Finish
  <2>2. responses # {}
    BY <1>1, <2>1, Zenon DEF StatesInv, DocsCounted
  <2>3. EntitiesFromPre' /\ CursorFresh'
    BY <1>1, Zenon DEF StatesInv, EntitiesFromPre, CursorFresh
  <2>4. ResponsesFinal' /\ NotifiedFinal'
    BY <1>1, <2>1, Zenon DEF StatesInv, ResponsesFinal, NotifiedFinal
  <2> QED
    BY <1>1, <2>1, <2>2, <2>3, <2>4, Zenon DEF StatesInv, DocsCounted, WriteToNotify
<1>3. CASE LookForProvider
  <2>1. RequestKey \in Key
    BY <1>1, RequestKeyType, Zenon DEF SelectedInv, EntitiesTyped
  <2>2. PICK code \in {"found", "notFound"} : responses' = responses \cup {Response(RequestKey, code)}
    BY <1>3, Zenon DEF LookForProvider, buildGeneralErrorResponse
  <2>3. code # "ok" /\ code \notin {"invalid", "attributeNotFound"}
    BY <2>2, Zenon
  <2>4. Accounted(req, RequestKey, pre[RequestKey], entities'[RequestKey], code, notified')
    BY <2>3, Zenon DEF Accounted
  <2>5. pc # "idle"
    BY <1>1, Zenon
  <2> QED
    BY <1>1, <2>1, <2>2, <2>4, <2>5, StatesAnswer, Zenon
<1> QED
  BY <1>2, <1>3, Zenon

\* APPEND creates the entity of the request.
LEMMA StatesCreate ==
  ASSUME SelectedInv, StatesInv, createEntity
  PROVE  StatesInv'
<1>1. /\ pc = "loop" /\ DOMAIN cursor = {} /\ req' = req /\ pre' = pre /\ cursor' = cursor
      /\ notified' = notified /\ docs = 0 /\ docs' = docs /\ req.action = "append"
  BY Zenon DEF createEntity, LoopDone
<1>2. /\ entities = pre /\ notified = {} /\ responses = {} /\ req \in Request
      /\ entities \in [Key -> EntityDoc \cup {None}]
  BY <1>1, Zenon DEF StatesInv, DocsCounted, SelectedInv, EntitiesTyped
<1>3. PICK k \in Key : k = RequestKey /\ k = [type |-> req.type, path |-> req.path]
  BY <1>2, RequestKeyType, Zenon DEF RequestKey
<1>4. PICK d : d = NewEntity(req.attrs)
  BY Zenon
<1>5. /\ req.attrs \in Seq(ContextAttribute)
      /\ LegalNew(req.attrs) => NamedIds(d.attrs)
  <2>1. req.attrs \in Seq(ContextAttribute)
    BY <1>2, RequestAssumption, Zenon
  <2> QED
    BY <1>4, <2>1, NewIds, Zenon DEF LegalNew
<1>6. LegalNew(req.attrs) /\ entities[k] = None => IsCreated(req, k, pre[k], d) /\ NamedIds(d.attrs)
  BY <1>1, <1>2, <1>3, <1>4, <1>5, Zenon DEF IsCreated
<1>7. \/ /\ entities' = entities
         /\ buildGeneralErrorResponse("invalid") \/ buildGeneralErrorResponse("databaseError")
      \/ /\ LegalNew(req.attrs) /\ entities[k] = None /\ entities' = [entities EXCEPT ![k] = d]
         /\ buildGeneralErrorResponse("databaseError")
      \/ /\ LegalNew(req.attrs) /\ entities[k] = None /\ entities' = [entities EXCEPT ![k] = d]
         /\ subsToNotify' = [key |-> RequestKey, names |-> NamesOf(req)]
         /\ pc' = "notifyNew" /\ responses' = responses
  BY <1>3, <1>4, Zenon DEF createEntity, NamesOf, LegalNew
<1>8. /\ \A e \in Key : e # k => entities'[e] = entities[e]
      /\ entities'[k] = entities[k] \/ entities'[k] = d
  BY <1>2, <1>7, Zenon
<1>9. ASSUME NEW code \in {"invalid", "databaseError"}, buildGeneralErrorResponse(code),
             code = "invalid" => entities' = entities,
             entities'[k] = entities[k] \/ (LegalNew(req.attrs) /\ entities[k] = None)
      PROVE  StatesInv'
  <2>1. pc' = "reply" /\ responses' = responses \cup {Response(k, code)}
    BY <1>3, <1>9, Zenon DEF buildGeneralErrorResponse
  <2>2. code # "ok" /\ code # "attributeNotFound"
    BY <1>9, Zenon
  <2>3. Accounted(req, k, pre[k], entities'[k], code, notified')
    BY <1>2, <1>9, <2>2, Zenon DEF Accounted
  <2>4. entities'[k] = entities[k] \/ (IsWritten(req, k, pre[k], entities'[k]) /\ NamedIds(entities'[k].attrs))
    BY <1>6, <1>8, <1>9, Zenon DEF IsWritten
  <2>5. pc # "idle"
    BY <1>1, Zenon
  <2> QED
    BY <1>1, <1>2, <1>8, <2>1, <2>3, <2>4, <2>5, StatesAnswer, Zenon
<1>10. CASE /\ LegalNew(req.attrs) /\ entities[k] = None /\ entities' = [entities EXCEPT ![k] = d]
            /\ subsToNotify' = [key |-> RequestKey, names |-> NamesOf(req)]
            /\ pc' = "notifyNew" /\ responses' = responses
  <2>1. entities'[k] = d /\ IsCreated(req, k, pre[k], d) /\ NamedIds(d.attrs) /\ RequestKey' = k
    BY <1>1, <1>2, <1>3, <1>6, <1>10, Zenon DEF RequestKey
  <2>2. pre \in [Key -> EntityDoc \cup {None}] /\ AllNamed(pre) /\ AllNamed(entities)
    BY <1>1, Zenon DEF StatesInv, EntitiesFromPre
  <2>3. AllNamed(entities')
    BY <1>8, <2>1, <2>2, Zenon DEF AllNamed
  <2>4. \A e \in Key : entities'[e] = pre[e] \/ IsWritten(req, e, pre[e], entities'[e])
    BY <1>2, <1>8, <2>1, Zenon DEF IsWritten
  <2>5. EntitiesFromPre'
    BY <1>1, <2>2, <2>3, <2>4, Zenon DEF EntitiesFromPre
  <2>6. subsToNotify'.names = NamesOf(req)
    BY <1>10, Zenon
  <2>7. WriteToNotify'
    BY <1>1, <1>10, <2>1, <2>6, Zenon DEF WriteToNotify
  <2> QED
    BY <1>1, <1>2, <1>10, <2>5, <2>7, Zenon DEF StatesInv, CursorFresh, ResponsesFinal, NotifiedFinal, DocsCounted
<1>11. entities' = entities => entities'[k] = entities[k]
  BY Zenon
<1>12. "databaseError" # "invalid"
  BY Zenon
<1> QED
  BY <1>7, <1>9, <1>10, <1>11, <1>12, Zenon

\* The subscriptions of a new entity.
LEMMA StatesNotifyNew ==
  ASSUME SelectedInv, StatesInv, NotifyNew
  PROVE  StatesInv'
<1>1. /\ pc = "notifyNew" /\ entities' = entities /\ req' = req /\ pre' = pre /\ cursor' = cursor
  BY Zenon DEF NotifyNew
<1>2. DOMAIN cursor = {} /\ req \in Request /\ subsToNotify.key = RequestKey /\ pc # "idle"
  BY <1>1, Zenon DEF StatesInv, CursorFresh, SelectedInv, EntitiesTyped
<1>3. PICK k \in Key : k = RequestKey
  BY <1>2, RequestKeyType, Zenon
<1>4. /\ IsCreated(req, k, pre[k], entities[k]) /\ subsToNotify.names = NamesOf(req)
      /\ IsWritten(req, k, pre[k], entities[k])
  BY <1>1, <1>3, Zenon DEF StatesInv, WriteToNotify, IsWritten
<1>5. PICK N : N = NamesOf(req) /\ Sent(subsToNotify) = {k} \X N
  BY <1>2, <1>3, <1>4, Zenon DEF Sent
<1>6. CASE notified' = notified \cup Sent(subsToNotify) /\ buildGeneralErrorResponse("ok")
  <2>1. PICK code : code = "ok" /\ pc' = "reply" /\ responses' = responses \cup {Response(k, code)}
    BY <1>3, <1>6, Zenon DEF buildGeneralErrorResponse
  <2>2. \A n \in N : <<k, n>> \in notified'
    BY <1>5, <1>6, SentPairs, Zenon
  <2>3. code \notin {"invalid", "attributeNotFound"}
    BY <2>1, Zenon
  <2>4. Accounted(req, k, pre[k], entities'[k], code, notified')
    BY <1>1, <1>4, <1>5, <2>2, <2>3, Zenon DEF Accounted
  <2>5. \A s \in notified' : s \in notified \/ s[1] = k
    BY <1>5, <1>6, SentPairs, Zenon
  <2> QED
    BY <1>1, <1>2, <1>4, <1>6, <2>1, <2>4, <2>5, StatesAnswer, Zenon
<1>7. CASE notified' = notified /\ buildGeneralErrorResponse("error")
  <2>1. PICK code : code = "error" /\ pc' = "reply" /\ responses' = responses \cup {Response(k, code)}
    BY <1>3, <1>7, Zenon DEF buildGeneralErrorResponse
  <2>2. code # "ok" /\ code \notin {"invalid", "attributeNotFound"}
    BY <2>1, Zenon
  <2>3. Accounted(req, k, pre[k], entities'[k], code, notified')
    BY <2>2, Zenon DEF Accounted
  <2> QED
    BY <1>1, <1>2, <1>7, <2>1, <2>3, StatesAnswer, Zenon
<1> QED
  BY <1>6, <1>7, Zenon DEF NotifyNew

\* Every step keeps the invariant.
LEMMA StatesNext == PathsApart /\ SelectedInv /\ StatesInv /\ [Next]_vars => StatesInv'
<1> SUFFICES ASSUME PathsApart, SelectedInv, StatesInv, [Next]_vars PROVE StatesInv'
  BY Zenon
<1>1. CASE UNCHANGED vars
  <2>1. EntitiesFromPre' /\ CursorFresh'
    BY <1>1, Zenon DEF vars, StatesInv, EntitiesFromPre, CursorFresh
  <2>2. ResponsesFinal' /\ NotifiedFinal'
    BY <1>1, Zenon DEF vars, StatesInv, ResponsesFinal, NotifiedFinal
  <2>3. DocsCounted' /\ WriteToNotify'
    BY <1>1, Zenon DEF vars, StatesInv, DocsCounted, WriteToNotify, RequestKey
  <2> QED
    BY <2>1, <2>2, <2>3, Zenon DEF StatesInv
<1>2. CASE Next
  <2>1. ASSUME NEW r \in Request, mongoUpdateContext(r) PROVE StatesInv'
    BY <2>1, StatesArrive, Zenon
  <2>2. ASSUME NEW k \in Key, removeEntity(k) \/ LeaveEntity(k) \/ WriteEntity(k) PROVE StatesInv'
    BY <2>2, StatesLoop, Zenon
  <2>3. Reply \/ Crash => Idle
    BY Zenon DEF Reply, Crash
  <2> QED
    BY <1>2, <2>1, <2>2, <2>3, StatesQuery, StatesNotify, StatesAfter, StatesCreate, StatesNotifyNew, StatesIdle,
       Zenon DEF Next
<1> QED
  BY <1>1, <1>2, Zenon

-----------------------------------------------------------------------------
(* What the invariant says of attributes.                                  *)

\* The attributes of a document.
LEMMA AttrsIn ==
  ASSUME NEW doc, NEW a
  PROVE  a \in AttrsOf(doc) <=> doc # None /\ In(a, doc.attrs)
  BY Zenon DEF AttrsOf, ToSet, In

\* What an update leaves, and what it stores.
LEMMA UpdatedAttrs ==
  ASSUME NEW r \in Request, NEW p \in EntityDoc, NEW d, IsUpdated(r, p, d), NamedIds(p.attrs)
  PROVE  /\ d # None
         /\ HasMixed(d.attrs) => HasMixed(p.attrs)
         /\ \A a : /\ In(a, p.attrs) /\ \A i \in DOMAIN r.attrs : ~smartAttrMatch(a, r.attrs[i])
                   /\ r.action = "delete" => a.value \notin Compound
                   => In(a, d.attrs)
         /\ r.action # "delete" => \A a, O :
              /\ Keeps(a, O, p.attrs)
              /\ \A i \in DOMAIN r.attrs : smartAttrMatch(a, r.attrs[i]) => \A m \in O : ~hasMetadata(m, r.attrs[i])
              => Keeps(a, O, d.attrs)
         /\ \A n, v, w : n # "" /\ n \notin ResultOf(r, p).triggered =>
              /\ r.action # "delete" => (HasValue(d.attrs, n, v, w) <=> HasValue(p.attrs, n, v, w))
              /\ r.action = "delete" => (HasId(d.attrs, n, v) <=> HasId(p.attrs, n, v))
         /\ r.action # "delete" => \A j \in DOMAIN r.attrs : IsFinal(r.attrs, j) => HasHeld(d.attrs, r.attrs[j])
<1>1. PICK action, cav : /\ action = r.action /\ cav = r.attrs
                         /\ action \in Action /\ cav \in Seq(ContextAttribute)
  BY ResultOfRun, Zenon
<1>2. PICK f : Runs(f, action, p, cav) /\ ResultOf(r, p) = f[Len(cav)]
  BY <1>1, ResultOfRun, Zenon
<1>3. /\ d \in EntityDoc /\ d.attrs = f[Len(cav)].attrs /\ f[Len(cav)].code = "ok"
  BY <1>2, UpdatedType, Zenon DEF IsUpdated
<1>4. d # None
  BY <1>3, RequestAssumption, Zenon
<1>5. HasMixed(d.attrs) => HasMixed(p.attrs)
  <2>1. HasMixed(f[Len(cav)].attrs) => HasMixed(p.attrs)
    BY <1>1, <1>2, RunIds, Zenon
  <2> QED
    BY <1>3, <2>1, Zenon
<1>6. ASSUME NEW a, In(a, p.attrs), \A i \in DOMAIN cav : ~smartAttrMatch(a, cav[i]),
             action = "delete" => a.value \notin Compound
      PROVE  In(a, d.attrs)
  <2>1. In(a, f[Len(cav)].attrs)
    BY <1>1, <1>2, <1>6, RunOthers, Zenon
  <2> QED
    BY <1>3, <2>1, Zenon
<1>7. ASSUME action # "delete", NEW a, NEW O, Keeps(a, O, p.attrs),
             \A i \in DOMAIN cav : smartAttrMatch(a, cav[i]) => \A m \in O : ~hasMetadata(m, cav[i])
      PROVE  Keeps(a, O, d.attrs)
  <2>1. Keeps(a, O, f[Len(cav)].attrs)
    BY <1>1, <1>2, <1>7, RunMetadata, Zenon
  <2> QED
    BY <1>3, <2>1, Zenon
<1>8. ASSUME NEW n, NEW v, NEW w, n # "", n \notin f[Len(cav)].triggered
      PROVE  /\ action # "delete" => (HasValue(d.attrs, n, v, w) <=> HasValue(p.attrs, n, v, w))
             /\ action = "delete" => (HasId(d.attrs, n, v) <=> HasId(p.attrs, n, v))
  <2>1. /\ action # "delete" => (HasValue(f[Len(cav)].attrs, n, v, w) <=> HasValue(p.attrs, n, v, w))
        /\ action = "delete" => (HasId(f[Len(cav)].attrs, n, v) <=> HasId(p.attrs, n, v))
    BY <1>1, <1>2, <1>3, <1>8, RunValues, Zenon
  <2> QED
    BY <1>3, <2>1, Zenon
<1>9. ASSUME action # "delete", NEW j \in DOMAIN cav, IsFinal(cav, j) PROVE HasHeld(d.attrs, cav[j])
  BY <1>1, <1>2, <1>3, <1>9, RunHolds, Zenon
<1>10. \A a : /\ In(a, p.attrs) /\ \A i \in DOMAIN r.attrs : ~smartAttrMatch(a, r.attrs[i])
              /\ r.action = "delete" => a.value \notin Compound
              => In(a, d.attrs)
  BY <1>1, <1>6, Zenon
<1>11. r.action # "delete" => \A a, O :
         /\ Keeps(a, O, p.attrs)
         /\ \A i \in DOMAIN r.attrs : smartAttrMatch(a, r.attrs[i]) => \A m \in O : ~hasMetadata(m, r.attrs[i])
         => Keeps(a, O, d.attrs)
  BY <1>1, <1>7, Zenon
<1>12. \A n, v, w : n # "" /\ n \notin ResultOf(r, p).triggered =>
         /\ r.action # "delete" => (HasValue(d.attrs, n, v, w) <=> HasValue(p.attrs, n, v, w))
         /\ r.action = "delete" => (HasId(d.attrs, n, v) <=> HasId(p.attrs, n, v))
  BY <1>1, <1>2, <1>8, Zenon
<1>13. r.action # "delete" => \A j \in DOMAIN r.attrs : IsFinal(r.attrs, j) => HasHeld(d.attrs, r.attrs[j])
  BY <1>1, <1>9, Zenon
<1> QED
  BY <1>4, <1>5, <1>10, <1>11, <1>12, <1>13, Zenon

\* The entities at the end of a request.
LEMMA ReplyStates ==
  ASSUME SelectedInv, StatesInv, pc # "idle", NEW k \in Key
  PROVE  /\ req \in Request /\ pre[k] \in EntityDoc \cup {None}
         /\ pre[k] # None => NamedIds(pre[k].attrs)
         /\ \/ entities[k] = pre[k]
            \/ IsUpdated(req, pre[k], entities[k]) /\ pre[k] \in EntityDoc
            \/ IsCreated(req, k, pre[k], entities[k])
            \/ IsRemoved(req, entities[k])
  BY Zenon DEF SelectedInv, EntitiesTyped, StatesInv, EntitiesFromPre, IsWritten, AllNamed, IsUpdated

\* A new entity has the attributes of the request.
LEMMA CreatedAttrs ==
  ASSUME NEW r \in Request, NEW k, NEW p, NEW d, IsCreated(r, k, p, d)
  PROVE  /\ d # None /\ p = None
         /\ \A i, j \in DOMAIN d.attrs : Mixed(d.attrs[i], d.attrs[j]) => d.attrs[i].type # d.attrs[j].type
         /\ \A j \in DOMAIN r.attrs : HasHeld(d.attrs, r.attrs[j])
         /\ \A a : In(a, d.attrs) => a.name \in NamesOf(r)
<1>1. PICK cav \in Seq(ContextAttribute) : cav = r.attrs
  BY RequestAssumption, Zenon
<1>2. PICK attrs : attrs = d.attrs
  BY Zenon
<1>3. d = NewEntity(cav) /\ p = None /\ legalIdUsageOfNew(cav)
  BY <1>1, Zenon DEF IsCreated, LegalNew
<1>4. d # None
  BY <1>3, NewEntityType, RequestAssumption, Zenon
<1>5. attrs = NewEntity(cav).attrs
  BY <1>2, <1>3, Zenon
<1>6. \A i, j \in DOMAIN attrs : Mixed(attrs[i], attrs[j]) => attrs[i].type # attrs[j].type
  BY <1>3, <1>5, NewIds, Zenon
<1>7. DOMAIN attrs = DOMAIN cav /\ \A i \in DOMAIN cav : attrs[i] = NewAttr(cav[i]) /\ HoldsIn(attrs[i], cav[i])
  BY <1>5, NewElements, Zenon
<1>8. \A j \in DOMAIN cav : HasHeld(attrs, cav[j])
  BY <1>7, Zenon DEF HasHeld
<1>9. \A i \in DOMAIN cav : attrs[i].name = cav[i].name
  BY <1>7, NewAttrHolds, Zenon
<1>10. \A a : In(a, attrs) => a.name \in NamesOf(r)
  BY <1>1, <1>7, <1>9, Zenon DEF In, NamesOf
<1>11. \A i, j \in DOMAIN d.attrs : Mixed(d.attrs[i], d.attrs[j]) => d.attrs[i].type # d.attrs[j].type
  BY ONLY <1>2, <1>6, Zenon
<1>12. \A j \in DOMAIN r.attrs : HasHeld(d.attrs, r.attrs[j])
  BY ONLY <1>1, <1>2, <1>8, Zenon
<1>13. \A a : In(a, d.attrs) => a.name \in NamesOf(r)
  BY ONLY <1>2, <1>10, Zenon
<1> QED
  BY <1>3, <1>4, <1>11, <1>12, <1>13, Zenon

\* Attributes with and without ID at the end of a request.
LEMMA StatesIds == SelectedInv /\ StatesInv => IdsNotMixed
<1> SUFFICES ASSUME SelectedInv, StatesInv, pc = "reply", NEW k \in Key,
                    NEW a \in AttrsOf(entities[k]), NEW b \in AttrsOf(entities[k]), Mixed(a, b)
             PROVE  IF pre[k] = None THEN a.type # b.type ELSE \E c, d \in AttrsOf(pre[k]) : Mixed(c, d)
  BY Zenon DEF IdsNotMixed
<1>1. pc # "idle"
  BY Zenon
<1>2. PICK p, e : p = pre[k] /\ e = entities[k]
  BY Zenon
<1>3. /\ req \in Request /\ (p # None => NamedIds(p.attrs))
      /\ \/ e = p
         \/ IsUpdated(req, p, e) /\ p \in EntityDoc
         \/ IsCreated(req, k, p, e)
         \/ IsRemoved(req, e)
  BY <1>1, <1>2, ReplyStates, Zenon
<1>4. e # None /\ In(a, e.attrs) /\ In(b, e.attrs)
  BY <1>2, AttrsIn, Zenon
<1>5. CASE IsCreated(req, k, p, e)
  <2>1. p = None /\ \A i, j \in DOMAIN e.attrs : Mixed(e.attrs[i], e.attrs[j]) => e.attrs[i].type # e.attrs[j].type
    BY <1>3, <1>5, CreatedAttrs, Zenon
  <2> QED
    BY <1>2, <1>4, <2>1, Zenon DEF In
<1>6. CASE e = p
  BY <1>2, <1>4, <1>6, Zenon
<1>7. CASE IsUpdated(req, p, e) /\ p \in EntityDoc
  <2>1. p # None /\ (HasMixed(e.attrs) => HasMixed(p.attrs))
    BY <1>3, <1>7, UpdatedAttrs, Zenon DEF IsUpdated
  <2>2. HasMixed(e.attrs)
    BY <1>4, Zenon DEF In, HasMixed
  <2>3. PICK i, j \in DOMAIN p.attrs : Mixed(p.attrs[i], p.attrs[j])
    BY <2>1, <2>2, Zenon DEF HasMixed
  <2>4. p.attrs[i] \in AttrsOf(p) /\ p.attrs[j] \in AttrsOf(p)
    BY <2>1, AttrsIn, Zenon DEF In
  <2> QED
    BY <1>2, <2>1, <2>3, <2>4, Zenon
<1> QED
  BY <1>3, <1>4, <1>5, <1>6, <1>7, Zenon DEF IsRemoved

\* IdsNotMixed: legalIdUsage keeps attributes with and without ID apart, over any sequence
\* of requests, where no write reaches an entity with another path.
THEOREM IdsNotMixedAlways == PathsApart => (Spec => []IdsNotMixed)
<1> SUFFICES ASSUME PathsApart PROVE Spec => []IdsNotMixed
  BY Zenon
<1>1. SelectedInv /\ StatesInv /\ [Next]_vars => (SelectedInv /\ StatesInv)'
  BY SelectedNext, StatesNext, Zenon
<1> QED
  BY <1>1, SelectedInit, StatesInit, StatesIds, PTL DEF Spec

\* What a request does not name, at its end.
LEMMA StatesOthers == SelectedInv /\ StatesInv => OthersKept
<1> SUFFICES ASSUME SelectedInv, StatesInv, pc = "reply", ~WholeEntity, NEW k \in Key
             PROVE  /\ \A a \in Others(k) : req.action # "delete" \/ a.value \notin Compound => a \in AttrsOf(entities[k])
                    /\ req.action # "delete" => \A a \in AttrsOf(pre[k]) :
                         \E b \in AttrsOf(entities[k]) : smartAttrMatch(a, b) /\ OtherMetadata(a) \subseteq b.md
  BY Zenon DEF OthersKept
<1>1. pc # "idle" /\ ~IsWhole(req)
  BY ResultOfCursor, Zenon
<1>2. PICK p, e : p = pre[k] /\ e = entities[k]
  BY Zenon
<1>3. /\ req \in Request /\ (p # None => NamedIds(p.attrs))
      /\ \/ e = p
         \/ IsUpdated(req, p, e) /\ p \in EntityDoc
         \/ IsCreated(req, k, p, e)
  BY <1>1, <1>2, ReplyStates, Zenon DEF IsRemoved
<1>4. ASSUME NEW a \in Others(k), req.action # "delete" \/ a.value \notin Compound PROVE a \in AttrsOf(e)
  <2>1. p # None /\ In(a, p.attrs) /\ \A i \in DOMAIN req.attrs : ~smartAttrMatch(a, req.attrs[i])
    BY <1>2, <1>4, AttrsIn, Zenon DEF Others
  <2>2. CASE e = p
    BY <1>2, <2>2, Zenon DEF Others
  <2>3. CASE IsUpdated(req, p, e) /\ p \in EntityDoc
    <3>1. e # None /\ In(a, e.attrs)
      BY <1>3, <1>4, <2>1, <2>3, UpdatedAttrs, Zenon
    <3> QED
      BY <3>1, AttrsIn, Zenon
  <2>4. CASE IsCreated(req, k, p, e)
    BY <2>1, <2>4, Zenon DEF IsCreated
  <2> QED
    BY <1>3, <2>2, <2>3, <2>4, Zenon
<1>5. ASSUME req.action # "delete", NEW a \in AttrsOf(p)
      PROVE  \E b \in AttrsOf(e) : smartAttrMatch(a, b) /\ OtherMetadata(a) \subseteq b.md
  <2>1. p # None /\ In(a, p.attrs)
    BY <1>5, AttrsIn, Zenon
  <2>2. PICK O : O = OtherMetadata(a)
    BY Zenon
  <2>3. /\ O \subseteq a.md
        /\ \A i \in DOMAIN req.attrs : smartAttrMatch(a, req.attrs[i]) => \A m \in O : ~hasMetadata(m, req.attrs[i])
    BY <2>2, Zenon DEF OtherMetadata
  <2>4. smartAttrMatch(a, a)
    BY Zenon DEF smartAttrMatch
  <2>5. CASE e = p
    BY <1>5, <2>2, <2>3, <2>4, <2>5, Zenon
  <2>6. CASE IsUpdated(req, p, e) /\ p \in EntityDoc
    <3>1. Keeps(a, O, p.attrs)
      BY <2>1, <2>3, <2>4, Zenon DEF Keeps, In
    <3>2. e # None /\ Keeps(a, O, e.attrs)
      BY <1>3, <1>5, <2>1, <2>3, <2>6, <3>1, UpdatedAttrs, Zenon
    <3>3. PICK i \in DOMAIN e.attrs : smartAttrMatch(a, e.attrs[i]) /\ O \subseteq e.attrs[i].md
      BY <3>2, Zenon DEF Keeps
    <3>4. e.attrs[i] \in AttrsOf(e)
      BY <3>2, AttrsIn, Zenon DEF In
    <3> QED
      BY <2>2, <3>3, <3>4, Zenon
  <2>7. CASE IsCreated(req, k, p, e)
    BY <2>1, <2>7, Zenon DEF IsCreated
  <2> QED
    BY <1>3, <2>5, <2>6, <2>7, Zenon
<1> QED
  BY <1>2, <1>4, <1>5, Zenon

\* OthersKept: checkAndUpdate, appendAttribute and checkAndDelete leave the attributes and the
\* metadata that a request does not name, where no write reaches an entity with another path.
THEOREM OthersKeptAlways == PathsApart => (Spec => []OthersKept)
<1> SUFFICES ASSUME PathsApart PROVE Spec => []OthersKept
  BY Zenon
<1>1. SelectedInv /\ StatesInv /\ [Next]_vars => (SelectedInv /\ StatesInv)'
  BY SelectedNext, StatesNext, Zenon
<1> QED
  BY <1>1, SelectedInit, StatesInit, StatesOthers, PTL DEF Spec

\* x is the ID and the value, or the ID, of an attribute of the name n.
IsValue(attrs, n, x) == \E v, w : HasValue(attrs, n, v, w) /\ x = <<v, w>>

IsId(attrs, n, x) == \E v : HasId(attrs, n, v) /\ x = <<v>>

\* The values of the attributes of a name.
LEMMA ValuesIn ==
  ASSUME NEW doc, doc # None, NEW n, NEW x
  PROVE  /\ req.action # "delete" => (x \in ValuesOf(doc, n) <=> IsValue(doc.attrs, n, x))
         /\ req.action = "delete" => (x \in ValuesOf(doc, n) <=> IsId(doc.attrs, n, x))
<1>1. PICK A : A = {b \in AttrsOf(doc) : b.name = n}
  BY Zenon
<1>2. \A a : a \in A <=> In(a, doc.attrs) /\ a.name = n
  BY <1>1, AttrsIn, Zenon
<1>3. CASE req.action # "delete"
  <2>1. ValuesOf(doc, n) = {<<a.id, a.value>> : a \in A}
    BY <1>1, <1>3, Zenon DEF ValuesOf
  <2>2. ASSUME x \in ValuesOf(doc, n) PROVE IsValue(doc.attrs, n, x)
    <3>1. PICK a \in A : x = <<a.id, a.value>>
      BY <2>1, <2>2, Zenon
    <3>2. HasValue(doc.attrs, n, a.id, a.value)
      BY <1>2, <3>1, Zenon DEF In, HasValue
    <3> QED
      BY <3>1, <3>2, Zenon DEF IsValue
  <2>3. ASSUME NEW v, NEW w, HasValue(doc.attrs, n, v, w), x = <<v, w>> PROVE x \in ValuesOf(doc, n)
    <3>1. PICK i \in DOMAIN doc.attrs : doc.attrs[i].name = n /\ doc.attrs[i].id = v /\ doc.attrs[i].value = w
      BY <2>3, Zenon DEF HasValue
    <3>2. PICK a : a = doc.attrs[i]
      BY Zenon
    <3>3. a \in A /\ a.id = v /\ a.value = w
      BY <1>2, <3>1, <3>2, Zenon DEF In
    <3> QED
      BY <2>1, <2>3, <3>3, Zenon
  <2> QED
    BY <1>3, <2>2, <2>3, Zenon DEF IsValue
<1>4. CASE req.action = "delete"
  <2>1. ValuesOf(doc, n) = {<<a.id>> : a \in A}
    BY <1>1, <1>4, Zenon DEF ValuesOf
  <2>2. ASSUME x \in ValuesOf(doc, n) PROVE IsId(doc.attrs, n, x)
    <3>1. PICK a \in A : x = <<a.id>>
      BY <2>1, <2>2, Zenon
    <3>2. HasId(doc.attrs, n, a.id)
      BY <1>2, <3>1, Zenon DEF In, HasId
    <3> QED
      BY <3>1, <3>2, Zenon DEF IsId
  <2>3. ASSUME NEW v, HasId(doc.attrs, n, v), x = <<v>> PROVE x \in ValuesOf(doc, n)
    <3>1. PICK i \in DOMAIN doc.attrs : doc.attrs[i].name = n /\ doc.attrs[i].id = v
      BY <2>3, Zenon DEF HasId
    <3>2. PICK a : a = doc.attrs[i]
      BY Zenon
    <3>3. a \in A /\ a.id = v
      BY <1>2, <3>1, <3>2, Zenon DEF In
    <3> QED
      BY <2>1, <2>3, <3>3, Zenon
  <2> QED
    BY <1>4, <2>2, <2>3, Zenon DEF IsId
<1> QED
  BY <1>3, <1>4, Zenon

\* What the request attributes that no later one overwrites say of an entity.
LEMMA FinalHeld ==
  ASSUME NEW r, NEW doc, doc # None, NEW ca \in Final(r.attrs),
         \A j \in DOMAIN r.attrs : IsFinal(r.attrs, j) => HasHeld(doc.attrs, r.attrs[j])
  PROVE  Holds(doc, ca)
<1>1. PICK j \in DOMAIN r.attrs : ca = r.attrs[j] /\ IsFinal(r.attrs, j)
  BY Zenon DEF Final, IsFinal
<1>2. PICK i \in DOMAIN doc.attrs : HoldsIn(doc.attrs[i], ca)
  BY <1>1, Zenon DEF HasHeld
<1>3. PICK a : a = doc.attrs[i]
  BY Zenon
<1>4. a \in AttrsOf(doc) /\ HoldsIn(a, ca)
  BY <1>2, <1>3, AttrsIn, Zenon DEF In
<1> QED
  BY <1>4, Zenon DEF Holds, HoldsIn

\* An entity that UPDATE or APPEND has written holds them.
LEMMA WrittenHolds ==
  ASSUME SelectedInv, StatesInv, pc # "idle", req.action # "delete", NEW k \in Key,
         IsWritten(req, k, pre[k], entities[k]), NEW ca \in Final(req.attrs)
  PROVE  Holds(entities[k], ca)
<1>1. PICK p, e : p = pre[k] /\ e = entities[k]
  BY Zenon
<1>2. req \in Request /\ p \in EntityDoc \cup {None} /\ (p # None => NamedIds(p.attrs))
  BY <1>1, ReplyStates, Zenon
<1>3. e # None /\ \A j \in DOMAIN req.attrs : IsFinal(req.attrs, j) => HasHeld(e.attrs, req.attrs[j])
  <2>1. CASE IsUpdated(req, p, e)
    <3>1. p \in EntityDoc /\ NamedIds(p.attrs)
      BY <1>2, <2>1, Zenon DEF IsUpdated
    <3> QED
      BY <1>2, <2>1, <3>1, UpdatedAttrs, Zenon
  <2>2. CASE IsCreated(req, k, p, e)
    BY <1>2, <2>2, CreatedAttrs, Zenon
  <2> QED
    BY <1>1, <2>1, <2>2, Zenon DEF IsWritten
<1>4. Holds(e, ca)
  BY <1>3, FinalHeld, Zenon
<1> QED
  BY <1>1, <1>4, Zenon

\* Changes and notifications.
LEMMA StatesChanges == SelectedInv /\ StatesInv => ChangesNotified
<1> SUFFICES ASSUME SelectedInv, StatesInv PROVE ChangesNotified
  BY Zenon
<1>1. ASSUME pc = "reply", ~WholeEntity, NEW k \in Key, Answered(k, {"ok"}),
             NEW n \in {a.name : a \in AttrsOf(pre[k]) \cup AttrsOf(entities[k])} \ {""},
             ValuesOf(pre[k], n) # ValuesOf(entities[k], n)
      PROVE  <<k, n>> \in notified
  <2>1. pc # "idle" /\ ~IsWhole(req)
    BY <1>1, ResultOfCursor, Zenon
  <2>2. PICK p, e : p = pre[k] /\ e = entities[k]
    BY Zenon
  <2>3. req \in Request /\ p \in EntityDoc \cup {None} /\ (p # None => NamedIds(p.attrs))
    BY <2>1, <2>2, ReplyStates, Zenon
  <2>4. PICK s \in responses : s.key = k /\ s.code = "ok"
    BY <1>1, Zenon DEF Answered
  <2>5. Accounted(req, k, p, e, "ok", notified)
    BY <2>2, <2>4, Zenon DEF StatesInv, ResponsesFinal
  <2>6. e # p
    BY <1>1, <2>2, Zenon
  <2>7. \/ IsUpdated(req, p, e) /\ \A m \in ResultOf(req, p).triggered : <<k, m>> \in notified
        \/ IsCreated(req, k, p, e) /\ \A m \in NamesOf(req) : <<k, m>> \in notified
    BY <2>1, <2>5, <2>6, Zenon DEF Accounted, IsUnmodified
  <2>8. CASE IsUpdated(req, p, e) /\ \A m \in ResultOf(req, p).triggered : <<k, m>> \in notified
    <3>1. p \in EntityDoc /\ p # None /\ NamedIds(p.attrs)
      BY <2>3, <2>8, Zenon DEF IsUpdated
    <3>2. e # None
      BY <2>3, <2>8, <3>1, UpdatedAttrs, Zenon
    <3>3. ASSUME n \notin ResultOf(req, p).triggered PROVE FALSE
      <4>1. n # ""
        BY <1>1, Zenon
      <4>2. \A v, w : /\ req.action # "delete" => (HasValue(e.attrs, n, v, w) <=> HasValue(p.attrs, n, v, w))
                      /\ req.action = "delete" => (HasId(e.attrs, n, v) <=> HasId(p.attrs, n, v))
        BY <2>3, <2>8, <3>1, <3>3, <4>1, UpdatedAttrs, Zenon
      <4>3. \A x : x \in ValuesOf(e, n) <=> x \in ValuesOf(p, n)
        <5>1. CASE req.action # "delete"
          <6>1. \A x : x \in ValuesOf(e, n) <=> IsValue(e.attrs, n, x)
            BY ONLY <3>2, <5>1, ValuesIn, Zenon
          <6>2. \A x : x \in ValuesOf(p, n) <=> IsValue(p.attrs, n, x)
            BY ONLY <3>1, <5>1, ValuesIn, Zenon
          <6>3. \A v, w : HasValue(e.attrs, n, v, w) <=> HasValue(p.attrs, n, v, w)
            BY <4>2, <5>1, Zenon
          <6> QED
            BY ONLY <6>1, <6>2, <6>3, Zenon DEF IsValue
        <5>2. CASE req.action = "delete"
          <6>1. \A x : x \in ValuesOf(e, n) <=> IsId(e.attrs, n, x)
            BY ONLY <3>2, <5>2, ValuesIn, Zenon
          <6>2. \A x : x \in ValuesOf(p, n) <=> IsId(p.attrs, n, x)
            BY ONLY <3>1, <5>2, ValuesIn, Zenon
          <6>3. \A v : HasId(e.attrs, n, v) <=> HasId(p.attrs, n, v)
            BY <4>2, <5>2, Zenon
          <6> QED
            BY ONLY <6>1, <6>2, <6>3, Zenon DEF IsId
        <5> QED
          BY <5>1, <5>2, Zenon
      <4>4. ValuesOf(e, n) = ValuesOf(p, n)
        BY <4>3, Zenon
      <4> QED
        BY <1>1, <2>2, <4>4, Zenon
    <3> QED
      BY <2>8, <3>3, Zenon
  <2>9. CASE IsCreated(req, k, p, e) /\ \A m \in NamesOf(req) : <<k, m>> \in notified
    <3>1. p = None /\ \A a : In(a, e.attrs) => a.name \in NamesOf(req)
      BY <2>3, <2>9, CreatedAttrs, Zenon
    <3>2. PICK a \in AttrsOf(p) \cup AttrsOf(e) : n = a.name
      BY <1>1, <2>2, Zenon
    <3>3. In(a, e.attrs)
      BY <3>1, <3>2, AttrsIn, Zenon
    <3> QED
      BY <2>9, <3>1, <3>2, <3>3, Zenon
  <2> QED
    BY <2>7, <2>8, <2>9, Zenon
<1>2. ASSUME pc # "idle", req.action # "delete", NEW s \in notified, NEW ca \in Final(req.attrs)
      PROVE  Holds(entities[s[1]], ca)
  <2>1. PICK k : k = s[1]
    BY Zenon
  <2>2. k \in Key /\ IsWritten(req, k, pre[k], entities[k])
    BY <1>2, <2>1, Zenon DEF StatesInv, NotifiedFinal
  <2>3. Holds(entities[k], ca)
    BY <1>2, <2>2, WrittenHolds, Zenon
  <2> QED
    BY <2>1, <2>3, Zenon
<1> QED
  BY <1>1, <1>2, Zenon DEF ChangesNotified

\* ChangesNotified: the flag actualUpdate misses no change of a value, processSubscriptions
\* sends for every one, and only for values that the update() or insert() has stored, where
\* no write reaches an entity with another path.
THEOREM ChangesNotifiedAlways == PathsApart => (Spec => []ChangesNotified)
<1> SUFFICES ASSUME PathsApart PROVE Spec => []ChangesNotified
  BY Zenon
<1>1. SelectedInv /\ StatesInv /\ [Next]_vars => (SelectedInv /\ StatesInv)'
  BY SelectedNext, StatesNext, Zenon
<1> QED
  BY <1>1, SelectedInit, StatesInit, StatesChanges, PTL DEF Spec

-----------------------------------------------------------------------------
(* What a response says.                                                   *)

\* No attribute of a request has two metadata of one name and type.
MetadataOnce == \A r \in Request : AllOnce(r.attrs)

\* Neither has an attribute of a collection.
DocsOnce(coll) == \A k \in Key : coll[k] # None => AllOnce(coll[k].attrs)

OnceInv == (pc = "idle" => DocsOnce(entities)) /\ (pc # "idle" => DocsOnce(pre))

\* What a request writes.
LEMMA WrittenOnce ==
  ASSUME MetadataOnce, NEW r \in Request, NEW k, NEW p \in EntityDoc \cup {None}, NEW d,
         p # None => AllOnce(p.attrs), IsWritten(r, k, p, d)
  PROVE  AllOnce(d.attrs)
<1>1. PICK action, cav : /\ action = r.action /\ cav = r.attrs
                         /\ action \in Action /\ cav \in Seq(ContextAttribute) /\ AllOnce(cav)
  BY RequestAssumption, Zenon DEF MetadataOnce
<1>2. CASE IsUpdated(r, p, d)
  <2>1. p \in EntityDoc /\ AllOnce(p.attrs) /\ d = UpdatedDoc(r, p)
    BY <1>2, Zenon DEF IsUpdated
  <2>2. PICK f : Runs(f, action, p, cav) /\ ResultOf(r, p) = f[Len(cav)]
    BY <1>1, <2>1, ResultOfRun, Zenon
  <2>3. d.attrs = f[Len(cav)].attrs
    BY <2>1, <2>2, UpdatedType, Zenon
  <2>4. Len(cav) \in 0 .. Len(cav)
    BY <1>1, LenProperties
  <2>5. AllOnce(f[Len(cav)].attrs)
    BY <1>1, <2>1, <2>2, <2>4, RunOnce, Zenon
  <2> QED
    BY <2>3, <2>5, Zenon
<1>3. CASE IsCreated(r, k, p, d)
  <2>1. PICK attrs : attrs = d.attrs /\ attrs = NewEntity(cav).attrs
    BY <1>1, <1>3, Zenon DEF IsCreated
  <2>2. DOMAIN attrs = DOMAIN cav /\ \A i \in DOMAIN cav : attrs[i] = NewAttr(cav[i])
    BY <1>1, <2>1, NewElements, Zenon
  <2>3. ASSUME NEW i \in DOMAIN cav PROVE attrs[i].md = cav[i].md
    <3>1. PICK x, ca : x = attrs[i] /\ ca = cav[i]
      BY Zenon
    <3>2. x = NewAttr(ca)
      BY <2>2, <2>3, <3>1, Zenon
    <3>3. x.md = ca.md
      BY ONLY <3>2, Zenon DEF NewAttr, contextAttributeCustomMetadataToBson
    <3> QED
      BY <3>1, <3>3, Zenon
  <2>4. AllOnce(attrs)
    BY <1>1, <2>2, <2>3, Zenon DEF AllOnce
  <2> QED
    BY <2>1, <2>4, Zenon
<1> QED
  BY <1>2, <1>3, Zenon DEF IsWritten

\* Initially there is no entity.
LEMMA OnceInit == Init => OnceInv
  BY Zenon DEF Init, OnceInv, DocsOnce

\* Between the first and the last step of a request its history stays.
LEMMA PreKept ==
  ASSUME \/ processContextElement
         \/ \E k \in Key : removeEntity(k) \/ LeaveEntity(k) \/ WriteEntity(k)
         \/ processSubscriptions \/ Finish \/ LookForProvider \/ createEntity \/ NotifyNew
  PROVE  pc # "idle" /\ pc' # "idle" /\ pre' = pre
<1>1. processContextElement => pc # "idle" /\ pc' # "idle" /\ pre' = pre
  BY Zenon DEF processContextElement, buildGeneralErrorResponse
<1>2. ASSUME NEW k \in Key, removeEntity(k) \/ LeaveEntity(k) \/ WriteEntity(k)
      PROVE  pc # "idle" /\ pc' # "idle" /\ pre' = pre
  BY <1>2, Zenon DEF removeEntity, LeaveEntity, WriteEntity
<1>3. processSubscriptions \/ Finish \/ LookForProvider => pc # "idle" /\ pc' # "idle" /\ pre' = pre
  BY Zenon DEF processSubscriptions, Finish, LookForProvider, LoopDone, buildGeneralErrorResponse
<1>4. createEntity \/ NotifyNew => pc # "idle" /\ pc' # "idle" /\ pre' = pre
  BY Zenon DEF createEntity, NotifyNew, LoopDone, buildGeneralErrorResponse
<1> QED
  BY <1>1, <1>2, <1>3, <1>4, Zenon

\* No request doubles a metadata.
LEMMA OnceNext == MetadataOnce /\ SelectedInv /\ StatesInv /\ OnceInv /\ [Next]_vars => OnceInv'
<1> SUFFICES ASSUME MetadataOnce, SelectedInv, StatesInv, OnceInv, [Next]_vars PROVE OnceInv'
  BY Zenon
<1>1. CASE UNCHANGED vars
  BY <1>1, Zenon DEF vars, OnceInv, DocsOnce
<1>2. ASSUME NEW r \in Request, mongoUpdateContext(r) PROVE OnceInv'
  BY <1>2, Zenon DEF mongoUpdateContext, OnceInv, DocsOnce
<1>3. CASE Idle /\ pc # "idle"
  <2>1. DocsOnce(pre)
    BY <1>3, Zenon DEF OnceInv
  <2>2. ASSUME NEW k \in Key, entities[k] # None PROVE AllOnce(entities[k].attrs)
    <3>1. PICK p, e : p = pre[k] /\ e = entities[k]
      BY Zenon
    <3>2. /\ req \in Request /\ p \in EntityDoc \cup {None}
          /\ \/ e = p
             \/ IsWritten(req, k, p, e)
             \/ IsRemoved(req, e)
      BY <1>3, <3>1, ReplyStates, Zenon DEF IsWritten
    <3>3. p # None => AllOnce(p.attrs)
      BY <2>1, <3>1, Zenon DEF DocsOnce
    <3>4. CASE IsWritten(req, k, p, e)
      <4>1. AllOnce(e.attrs)
        BY <3>2, <3>3, <3>4, WrittenOnce, Zenon
      <4> QED
        BY <3>1, <4>1, Zenon
    <3> QED
      BY <2>2, <3>1, <3>2, <3>3, <3>4, Zenon DEF IsRemoved
  <2>3. DocsOnce(entities)
    BY <2>2, Zenon DEF DocsOnce
  <2> QED
    BY <1>3, <2>3, Zenon DEF Idle, OnceInv, DocsOnce
<1>4. ASSUME pc # "idle", pc' # "idle", pre' = pre PROVE OnceInv'
  BY <1>4, Zenon DEF OnceInv, DocsOnce
<1> QED
  BY <1>1, <1>2, <1>3, <1>4, PreKept, Zenon DEF Next, Reply, Crash

\* An entity that UPDATE or APPEND has found unmodified holds what the request asks for.
LEMMA UnmodifiedHolds ==
  ASSUME MetadataOnce, NEW r \in Request, r.action # "delete", NEW p \in EntityDoc, AllOnce(p.attrs),
         IsUnmodified(r, p, p), NEW ca \in Final(r.attrs)
  PROVE  Holds(p, ca)
<1>1. PICK action, cav : /\ action = r.action /\ cav = r.attrs
                         /\ action \in Action /\ cav \in Seq(ContextAttribute) /\ AllOnce(cav)
  BY RequestAssumption, Zenon DEF MetadataOnce
<1>2. PICK f : Runs(f, action, p, cav) /\ ResultOf(r, p) = f[Len(cav)]
  BY <1>1, ResultOfRun, Zenon
<1>3. f[Len(cav)].code = "ok" /\ ~f[Len(cav)].modified
  BY <1>2, Zenon DEF IsUnmodified
<1>4. AllAlike(p.attrs, f[Len(cav)].attrs)
  BY <1>1, <1>2, <1>3, RunUnmodified, Zenon
<1>5. ASSUME NEW j \in DOMAIN cav, IsFinal(cav, j) PROVE HasHeld(p.attrs, cav[j])
  <2>1. HasHeld(f[Len(cav)].attrs, cav[j])
    BY <1>1, <1>2, <1>3, <1>5, RunHolds, Zenon
  <2>2. cav[j] \in ContextAttribute
    BY <1>1, ElementOfSeq, LenProperties, Zenon
  <2> QED
    BY <1>4, <2>1, <2>2, AlikeHolds, Zenon
<1>6. p # None
  BY Zenon DEF IsUnmodified
<1> QED
  BY <1>1, <1>5, <1>6, FinalHeld, Zenon

\* The responses at the end of a request.
LEMMA StatesResponses == MetadataOnce /\ SelectedInv /\ StatesInv /\ OnceInv => ResponseTrue
<1> SUFFICES ASSUME MetadataOnce, SelectedInv, StatesInv, OnceInv, pc = "reply"
             PROVE  responses # {} /\ \A k \in Key :
                      /\ Answered(k, {"invalid", "attributeNotFound"}) => entities[k] = pre[k]
                      /\ Answered(k, {"ok"}) /\ req.action # "delete" =>
                           \A ca \in Final(req.attrs) : Holds(entities[k], ca)
  BY Zenon DEF ResponseTrue
<1>1. pc # "idle" /\ responses # {}
  BY Zenon DEF StatesInv, DocsCounted
<1>2. ASSUME NEW k \in Key, Answered(k, {"invalid", "attributeNotFound"}) PROVE entities[k] = pre[k]
  <2>1. PICK s \in responses : s.key = k /\ s.code \in {"invalid", "attributeNotFound"}
    BY <1>2, Zenon DEF Answered
  <2>2. Accounted(req, k, pre[k], entities[k], s.code, notified)
    BY <2>1, Zenon DEF StatesInv, ResponsesFinal
  <2> QED
    BY <2>1, <2>2, Zenon DEF Accounted
<1>3. ASSUME NEW k \in Key, Answered(k, {"ok"}), req.action # "delete", NEW ca \in Final(req.attrs)
      PROVE  Holds(entities[k], ca)
  <2>1. PICK s \in responses : s.key = k /\ s.code = "ok"
    BY <1>3, Zenon DEF Answered
  <2>2. Accounted(req, k, pre[k], entities[k], "ok", notified)
    BY <2>1, Zenon DEF StatesInv, ResponsesFinal
  <2>3. IsUnmodified(req, pre[k], entities[k]) \/ IsWritten(req, k, pre[k], entities[k])
    BY <1>3, <2>2, Zenon DEF Accounted, IsWhole, IsWritten
  <2>4. CASE IsUnmodified(req, pre[k], entities[k])
    <3>1. PICK p : p = pre[k] /\ p = entities[k] /\ p # None /\ IsUnmodified(req, p, p)
      BY <2>4, Zenon DEF IsUnmodified
    <3>2. req \in Request /\ p \in EntityDoc \cup {None}
      BY <1>1, <3>1, ReplyStates, Zenon
    <3>3. AllOnce(p.attrs)
      BY <1>1, <3>1, Zenon DEF OnceInv, DocsOnce
    <3>4. Holds(p, ca)
      BY <1>3, <3>1, <3>2, <3>3, UnmodifiedHolds, Zenon
    <3> QED
      BY <3>1, <3>4, Zenon
  <2>5. CASE IsWritten(req, k, pre[k], entities[k])
    BY <1>1, <1>3, <2>5, WrittenHolds, Zenon
  <2> QED
    BY <2>3, <2>4, <2>5, Zenon
<1> QED
  BY <1>1, <1>2, <1>3, Zenon

\* ResponseTrue: processContextElement answers every request; a rejected one has left the
\* entity as it was, and one answered with SccOk is stored, also where actualUpdate has
\* found nothing to write. No write reaches an entity with another path, and no request
\* gives a metadata twice.
THEOREM ResponseTrueAlways == PathsApart /\ MetadataOnce => (Spec => []ResponseTrue)
<1> SUFFICES ASSUME PathsApart, MetadataOnce PROVE Spec => []ResponseTrue
  BY Zenon
<1>1. SelectedInv /\ StatesInv /\ OnceInv /\ [Next]_vars => (SelectedInv /\ StatesInv /\ OnceInv)'
  BY SelectedNext, StatesNext, OnceNext, Zenon
<1>2. SelectedInv /\ StatesInv /\ OnceInv => ResponseTrue
  BY StatesResponses, Zenon
<1> QED
  BY <1>1, <1>2, SelectedInit, StatesInit, OnceInit, PTL DEF Spec

-----------------------------------------------------------------------------
(* What queries find of what updates select.                               *)

\* Sequences with the same elements.
LEMMA SameSeq ==
  ASSUME NEW S, NEW s \in Seq(S), NEW t \in Seq(S), Len(s) = Len(t), \A i \in 1 .. Len(s) : s[i] = t[i]
  PROVE  s = t
OBVIOUS

\* A path without its last component is a prefix of it.
LEMMA FrontPrefix ==
  ASSUME NEW S, NEW s \in Seq(S), s # <<>>
  PROVE  IsPrefix(Front(s), s)
<1>1. PICK n \in Nat : n = Len(s)
  BY LenProperties, Zenon
<1>2. n # 0
  BY <1>1, EmptySeq, Zenon
<1>3. PICK m \in 0 .. n : m = n - 1
  BY <1>2
<1>4. PICK f \in Seq(S) : f = SubSeq(s, 1, m) /\ Len(f) = m /\ \A i \in 1 .. m : f[i] = s[i]
  BY <1>1, FirstSeq, Zenon
<1>5. DOMAIN f = 1 .. m /\ m <= n
  BY <1>4
<1>6. f = Front(s)
  BY <1>1, <1>3, <1>4, Zenon DEF Front
<1>7. IsPrefix(f, s)
  BY <1>1, <1>4, <1>5, Zenon DEF IsPrefix
<1> QED
  BY <1>6, <1>7, Zenon

\* A path with one more component.
LEMMA FrontAppend ==
  ASSUME NEW S, NEW s \in Seq(S), NEW x \in S, NEW t, t = Append(s, x)
  PROVE  t # <<>> /\ Last(t) = x /\ Front(t) = s
<1>1. PICK n \in Nat : n = Len(s)
  BY LenProperties, Zenon
<1>2. t \in Seq(S) /\ Len(t) = n + 1 /\ t[n + 1] = x /\ \A i \in 1 .. n : t[i] = s[i]
  BY <1>1
<1>3. n \in 0 .. n + 1 /\ n + 1 # 0 /\ n = (n + 1) - 1
  OBVIOUS
<1>4. t # <<>>
  BY <1>2, <1>3, EmptySeq, Zenon
<1>5. PICK f \in Seq(S) : f = SubSeq(t, 1, n) /\ Len(f) = n /\ \A i \in 1 .. n : f[i] = t[i]
  <2>1. n \in 0 .. Len(t) /\ t \in Seq(S)
    BY <1>2, <1>3, Zenon
  <2> QED
    BY <2>1, FirstSeq, Zenon
<1>6. \A i \in 1 .. Len(f) : f[i] = s[i]
  BY <1>2, <1>5, Zenon
<1>7. f = s
  BY <1>1, <1>5, <1>6, SameSeq, Zenon
<1>8. Front(t) = f
  BY <1>2, <1>3, <1>5, Zenon DEF Front
<1> QED
  BY <1>2, <1>4, <1>7, <1>8, Zenon DEF Last

\* The query of the loop finds nothing that the query of the write does not.
LEMMA FindWrites ==
  ASSUME NEW S, NEW p \in Seq(S), NEW e \in Seq(S), p # NoPath, e # NoPath, FindMatches(p, e)
  PROVE  WriteMatches(p, e)
<1>1. PICK n, m \in Nat : n = Len(p) /\ m = Len(e)
  BY LenProperties, Zenon
<1>2. n <= m /\ \A i \in 1 .. n : p[i] = e[i]
  <2>1. CASE p = <<>>
    <3>1. n = 0
      BY <1>1, <2>1, EmptySeq, Zenon
    <3> QED
      BY <3>1
  <2>2. CASE p # <<>>
    <3>1. IsPrefix(p, e)
      BY <2>2, Zenon DEF FindMatches
    <3>2. DOMAIN p = 1 .. n
      BY <1>1
    <3> QED
      BY <1>1, <3>1, <3>2, Zenon DEF IsPrefix
  <2> QED
    BY <2>1, <2>2, Zenon
<1>3. 0 \in 0 .. m - n /\ \A j \in 1 .. n : 0 + j = j
  BY <1>2
<1>4. \A j \in 1 .. Len(p) : p[j] = e[0 + j]
  BY <1>1, <1>2, <1>3, Zenon
<1> QED
  BY <1>1, <1>3, <1>4, Zenon DEF WriteMatches

\* The expressions for the path of an update and of a query.
LEMMA PathsMatched ==
  ASSUME NEW p \in EntityPath, NEW e \in EntityPath
  PROVE  /\ FindMatches(p, e) => WriteMatches(p, e)
         /\ QueryPathMatches(p, p)
         /\ ~EndsInHash(p) /\ QueryPathMatches(p, e) => FindMatches(p, e)
         /\ FindMatches(p, e) => QueryPathMatches(Append(p, "#"), e)
<1>1. PICK S : S = Component \cup {"#"}
  BY Zenon
<1>2. p \in Seq(S) /\ e \in Seq(S) /\ p # NoPath /\ e # NoPath /\ "#" \in S
  BY <1>1, PathType, PathAssumption, Zenon
<1>3. FindMatches(p, e) => WriteMatches(p, e)
  BY <1>2, FindWrites, Zenon
<1>4. QueryPathMatches(p, p)
  <2>1. EndsInHash(p) => IsPrefix(Front(p), p)
    BY <1>2, FrontPrefix, Zenon DEF EndsInHash
  <2> QED
    BY <1>2, <2>1, Zenon DEF QueryPathMatches
<1>5. IsPrefix(p, p)
  <2>1. Len(p) <= Len(p)
    BY <1>2, LenProperties
  <2> QED
    BY <2>1, Zenon DEF IsPrefix
<1>6. ~EndsInHash(p) /\ QueryPathMatches(p, e) => FindMatches(p, e)
  BY <1>2, <1>5, Zenon DEF QueryPathMatches, FindMatches
<1>7. PICK t : t = Append(p, "#")
  BY Zenon
<1>8. EndsInHash(t) /\ Front(t) = p
  BY <1>2, <1>7, FrontAppend, Zenon DEF EndsInHash
<1>9. FindMatches(p, e) => IsPrefix(p, e)
  <2>1. p = <<>> => IsPrefix(p, e)
    <3>1. ASSUME p = <<>> PROVE Len(p) <= Len(e) /\ DOMAIN p = {}
      BY <1>2, <3>1
    <3> QED
      BY <3>1, Zenon DEF IsPrefix
  <2> QED
    BY <1>2, <2>1, Zenon DEF FindMatches
<1>10. FindMatches(p, e) => QueryPathMatches(Append(p, "#"), e)
  BY <1>2, <1>7, <1>8, <1>9, Zenon DEF QueryPathMatches
<1> QED
  BY <1>3, <1>4, <1>6, <1>10, Zenon

\* The documents of the collection that a query selects.
Asked(t, path, x, area, k) ==
  /\ k \in Key /\ entities[k] # None
  /\ t # "" => k.type = t
  /\ QueryPathMatches(path, k.path)
  /\ area # None => processAreaScope(area, entities[k])
  /\ x => k.type = ""

\* A query with one service path and without attributes.
LEMMA HitsQuery ==
  ASSUME NEW t, NEW path, NEW x, NEW area, NEW q, q = EntityQuery(t, {path}, {}, x, area)
  PROVE  \A k : k \in Hits(q) <=> Asked(t, path, x, area, k)
<1> SUFFICES ASSUME NEW k PROVE k \in Hits(q) <=> Asked(t, path, x, area, k)
  BY Zenon
<1>1. q.type = t /\ q.paths = {path} /\ q.attrL = {} /\ q.notExist = x /\ q.area = area
  BY Zenon DEF EntityQuery
<1>2. fillQueryEntity(q, k) <=> (t # "" => k.type = t)
  BY <1>1, Zenon DEF fillQueryEntity
<1>3. fillQueryServicePath(q.paths, k.path) <=> QueryPathMatches(path, k.path)
  BY <1>1, Zenon DEF fillQueryServicePath
<1>4. addFilterScope(q, k) <=> (x => k.type = "")
  BY <1>1, Zenon DEF addFilterScope
<1> QED
  BY <1>1, <1>2, <1>3, <1>4, Zenon DEF Hits, Present, Asked

\* Where no provider is known, a query is answered with what it selects.
LEMMA QueriedHits ==
  ASSUME NEW r, NEW path, NEW q, q = EntityQuery(r.type, {path}, {}, r.notExist, None)
  PROVE  Queried(r, path) = Hits(q)
<1>1. CASE Hits(q) # {}
  <2>1. PICK c, m : c = entitiesQuery(q, TRUE) /\ m = mongoQueryContext(q, {})
    BY Zenon
  <2>2. m = [code |-> "ok", cerV |-> c, prApp |-> None]
    BY <1>1, <2>1, Zenon DEF mongoQueryContext
  <2>3. m.cerV = c
    BY ONLY <2>2, Zenon
  <2>4. DOMAIN c = Hits(q)
    BY <2>1, Zenon DEF entitiesQuery
  <2> QED
    BY <2>1, <2>3, <2>4, Zenon DEF Queried
<1>2. CASE Hits(q) = {}
  <2>1. PICK c, m : c = <<>> /\ m = mongoQueryContext(q, {})
    BY Zenon
  <2>2. m = [code |-> "notFound", cerV |-> c, prApp |-> None]
    BY <1>2, <2>1, Zenon DEF mongoQueryContext
  <2>3. m.cerV = c
    BY ONLY <2>2, Zenon
  <2>4. DOMAIN c = {}
    BY <2>1
  <2> QED
    BY <1>2, <2>1, <2>3, <2>4, Zenon DEF Queried
<1> QED
  BY <1>1, <1>2, Zenon

\* In any state.
LEMMA ReadUpdates == UpdatesAreRead
<1> SUFFICES ASSUME NEW r \in Request
             PROVE  /\ ~EndsInHash(r.path) => Queried(r, r.path) \subseteq Selected(r)
                    /\ Selected(r) \subseteq Queried(r, Append(r.path, "#"))
  BY Zenon DEF UpdatesAreRead
<1>1. r.path \in EntityPath
  BY RequestAssumption, Zenon
<1>2. ASSUME NEW k, ~EndsInHash(r.path), k \in Queried(r, r.path) PROVE k \in Selected(r)
  <2>1. PICK q : q = EntityQuery(r.type, {r.path}, {}, r.notExist, None)
    BY Zenon
  <2>2. k \in Hits(q)
    BY <1>2, <2>1, QueriedHits, Zenon
  <2>3. /\ k \in Key /\ entities[k] # None /\ (r.type # "" => k.type = r.type)
        /\ QueryPathMatches(r.path, k.path) /\ (r.notExist => k.type = "")
    <3>1. Asked(r.type, r.path, r.notExist, None, k)
      BY <2>1, <2>2, HitsQuery, Zenon
    <3> QED
      BY <3>1, Zenon DEF Asked
  <2>4. k.path \in EntityPath
    BY <2>3, Zenon DEF Key
  <2>5. FindMatches(r.path, k.path)
    BY <1>1, <1>2, <2>3, <2>4, PathsMatched, Zenon
  <2> QED
    BY <2>3, <2>5, Zenon DEF Selected
<1>3. ASSUME NEW k \in Selected(r) PROVE k \in Queried(r, Append(r.path, "#"))
  <2>1. PICK q, path : path = Append(r.path, "#") /\ q = EntityQuery(r.type, {path}, {}, r.notExist, None)
    BY Zenon
  <2>2. /\ k \in Key /\ entities[k] # None /\ (r.type # "" => k.type = r.type)
        /\ FindMatches(r.path, k.path) /\ (r.notExist => k.type = "")
    BY Zenon DEF Selected
  <2>3. k.path \in EntityPath
    BY <2>2, Zenon DEF Key
  <2>4. QueryPathMatches(path, k.path)
    BY <1>1, <2>1, <2>2, <2>3, PathsMatched, Zenon
  <2>5. k \in Hits(q)
    <3>1. Asked(r.type, path, r.notExist, None, k)
      BY <2>2, <2>4, Zenon DEF Asked
    <3> QED
      BY <2>1, <3>1, HitsQuery, Zenon
  <2> QED
    BY <2>1, <2>5, QueriedHits, Zenon
<1> QED
  BY <1>2, <1>3, Zenon

\* UpdatesAreRead: what fillQueryServicePath finds under the path of an update is among what
\* processContextElement finds with its own expression, and with "#" it is all of it, for
\* any paths, requests and entities.
THEOREM UpdatesAreReadAlways == Spec => []UpdatesAreRead
  BY ReadUpdates, PTL

-----------------------------------------------------------------------------
(* The location.                                                           *)

DocsLocated(coll) == \A k \in Key : coll[k] # None => LocNamed(coll[k])

LocInv == (pc = "idle" => DocsLocated(entities)) /\ (pc # "idle" => DocsLocated(pre))

\* d has the attributes and the location of res.
LocatedAs(d, res) ==
  d.attrs = res.attrs /\ d.locAttr = res.locAttr /\ (d.locAttr # "" => d.coords = res.coords)

\* The location of a document that is written.
LEMMA UpdatedLocation ==
  ASSUME NEW r, NEW p, NEW d, d = UpdatedDoc(r, p)
  PROVE  LocatedAs(d, ResultOf(r, p))
<1>1. PICK res : res = ResultOf(r, p)
  BY Zenon
<1>2. PICK c : c = IF res.locAttr = "" THEN "" ELSE res.coords
  BY Zenon
<1>3. d = [attrs |-> res.attrs, locAttr |-> res.locAttr, coords |-> c]
  BY <1>1, <1>2, Zenon DEF UpdatedDoc
<1>4. d.attrs = res.attrs /\ d.locAttr = res.locAttr /\ d.coords = c
  BY ONLY <1>3, Zenon
<1> QED
  BY <1>1, <1>2, <1>4, Zenon DEF LocatedAs

\* What a request writes has a location that names an attribute, and the coordinates of
\* the last attribute of the request for it.
LEMMA WrittenLocated ==
  ASSUME NEW r \in Request, NEW k, NEW p \in EntityDoc \cup {None}, NEW d,
         p # None => LocNamed(p), IsWritten(r, k, p, d)
  PROVE  /\ LocNamed(d)
         /\ \A j \in DOMAIN r.attrs :
              IsLast(r.attrs, j) /\ d.locAttr = r.attrs[j].name /\ Relocating(r.action, r.attrs[j])
              => d.coords = r.attrs[j].value
<1>1. PICK action, cav : /\ action = r.action /\ cav = r.attrs
                         /\ action \in Action /\ cav \in Seq(ContextAttribute)
  BY RequestAssumption, Zenon
<1>2. CASE IsUpdated(r, p, d)
  <2>1. p \in EntityDoc /\ LocNamed(p) /\ d = UpdatedDoc(r, p)
    BY <1>2, Zenon DEF IsUpdated
  <2>2. PICK f : Runs(f, action, p, cav) /\ ResultOf(r, p) = f[Len(cav)]
    BY <1>1, <2>1, ResultOfRun, Zenon
  <2>3. f[Len(cav)].code = "ok"
    BY <1>2, <2>2, Zenon DEF IsUpdated
  <2>4. LocatedAs(d, f[Len(cav)])
    <3>1. LocatedAs(d, ResultOf(r, p))
      BY <2>1, UpdatedLocation, Zenon
    <3> QED
      BY <2>2, <3>1, Zenon
  <2>5. LocNamed(f[Len(cav)])
    BY <1>1, <2>1, <2>2, <2>3, RunLocNamed, Zenon
  <2>6. LocNamed(d)
    BY <2>4, <2>5, Zenon DEF LocNamed, LocatedAs
  <2>7. ASSUME NEW j \in DOMAIN cav, IsLast(cav, j), d.locAttr = cav[j].name, Relocating(action, cav[j])
        PROVE  d.coords = cav[j].value
    <3>1. f[Len(cav)].coords = cav[j].value
      <4>1. f[Len(cav)].locAttr = cav[j].name
        BY <2>4, <2>7, Zenon DEF LocatedAs
      <4>2. action \in Action /\ cav \in Seq(ContextAttribute) /\ Runs(f, action, p, cav)
        BY <1>1, <2>2, Zenon
      <4>3. j \in DOMAIN cav
        BY <2>7, Zenon
      <4> QED
        BY ONLY <2>3, <2>7, <4>1, <4>2, <4>3, RunCoords, Zenon
    <3>2. cav[j] \in ContextAttribute
      BY <1>1, LenProperties, ElementOfSeq, Zenon
    <3>3. cav[j].name # ""
      BY <3>2, Zenon DEF ContextAttribute
    <3> QED
      BY <2>4, <2>7, <3>1, <3>3, Zenon DEF LocatedAs
  <2> QED
    BY <1>1, <2>6, <2>7, Zenon
<1>3. CASE IsCreated(r, k, p, d)
  <2>1. action = "append" /\ processLocation(cav) /\ d = NewEntity(cav)
    BY <1>1, <1>3, Zenon DEF IsCreated, LegalNew
  <2>2. LocNamed(d) /\ \A j \in DOMAIN cav : cav[j].loc # "" => LocatedAt(d, cav[j])
    BY <1>1, <2>1, NewLocation, Zenon
  <2>3. \A j \in DOMAIN cav : Relocating(action, cav[j]) => d.coords = cav[j].value
    BY <2>1, <2>2, Zenon DEF LocatedAt, Relocating
  <2> QED
    BY <1>1, <2>2, <2>3, Zenon
<1> QED
  BY <1>2, <1>3, Zenon DEF IsWritten

\* The locations of the entities at any time.
LEMMA EntitiesLocated ==
  ASSUME SelectedInv, StatesInv, LocInv
  PROVE  DocsLocated(entities)
<1>1. CASE pc = "idle"
  BY <1>1, Zenon DEF LocInv
<1>2. CASE pc # "idle"
  <2>1. DocsLocated(pre)
    BY <1>2, Zenon DEF LocInv
  <2>2. ASSUME NEW k \in Key, entities[k] # None PROVE LocNamed(entities[k])
    <3>1. PICK p, e : p = pre[k] /\ e = entities[k]
      BY Zenon
    <3>2. /\ req \in Request /\ p \in EntityDoc \cup {None}
          /\ \/ e = p
             \/ IsWritten(req, k, p, e)
             \/ IsRemoved(req, e)
      BY <1>2, <3>1, ReplyStates, Zenon DEF IsWritten
    <3>3. p # None => LocNamed(p)
      BY <2>1, <3>1, Zenon DEF DocsLocated
    <3>4. CASE IsWritten(req, k, p, e)
      <4>1. LocNamed(e)
        BY <3>2, <3>3, <3>4, WrittenLocated, Zenon
      <4> QED
        BY <3>1, <4>1, Zenon
    <3> QED
      BY <2>2, <3>1, <3>2, <3>3, <3>4, Zenon DEF IsRemoved
  <2> QED
    BY <2>2, Zenon DEF DocsLocated
<1> QED
  BY <1>1, <1>2, Zenon

\* Initially there is no entity.
LEMMA LocInit == Init => LocInv
  BY Zenon DEF Init, LocInv, DocsLocated

\* Every request leaves the locations in order.
LEMMA LocNext == SelectedInv /\ StatesInv /\ LocInv /\ [Next]_vars => LocInv'
<1> SUFFICES ASSUME SelectedInv, StatesInv, LocInv, [Next]_vars PROVE LocInv'
  BY Zenon
<1>1. CASE UNCHANGED vars
  BY <1>1, Zenon DEF vars, LocInv, DocsLocated
<1>2. ASSUME NEW r \in Request, mongoUpdateContext(r) PROVE LocInv'
  BY <1>2, Zenon DEF mongoUpdateContext, LocInv, DocsLocated
<1>3. CASE Idle /\ pc # "idle"
  BY <1>3, EntitiesLocated, Zenon DEF Idle, LocInv, DocsLocated
<1>4. ASSUME pc # "idle", pc' # "idle", pre' = pre PROVE LocInv'
  BY <1>4, Zenon DEF LocInv, DocsLocated
<1> QED
  BY <1>1, <1>2, <1>3, <1>4, PreKept, Zenon DEF Next, Reply, Crash

\* The query for an area around a value, or for everything outside it.
LEMMA AreaScope ==
  ASSUME NEW v \in STRING, NEW inverted \in BOOLEAN, NEW area, area = [coords |-> {v}, inverted |-> inverted],
         NEW doc, doc.locAttr # "", doc.coords = v
  PROVE  area # None /\ (processAreaScope(area, doc) <=> ~inverted)
<1>1. area \in [coords : SUBSET STRING, inverted : BOOLEAN]
  BY Zenon
<1>2. area.coords = {v} /\ area.inverted = inverted
  BY ONLY area = [coords |-> {v}, inverted |-> inverted], Zenon
<1>3. doc.coords \in area.coords
  BY <1>2, Zenon
<1>4. processAreaScope(area, doc) <=> ~inverted
  BY <1>2, <1>3, Zenon DEF processAreaScope
<1> QED
  BY <1>1, <1>4, AreaAssumption, Zenon

\* Where the paths are apart, a query for the area finds an entity that the request selects.
LEMMA AreaQuery ==
  ASSUME PathsApart, req \in Request, NEW k \in Selected(req), NEW v \in STRING,
         entities[k].locAttr # "", entities[k].coords = v
  PROVE  k \in Hits(AreaOf(v, FALSE)) /\ k \notin Hits(AreaOf(v, TRUE))
<1>1. k \in Key /\ entities[k] # None /\ (req.type # "" => k.type = req.type) /\ FindMatches(req.path, k.path)
  BY Zenon DEF Selected
<1>2. k.path \in EntityPath /\ req.path \in EntityPath
  BY <1>1, RequestAssumption, Zenon DEF Key
<1>3. k.path = req.path
  BY <1>1, <1>2, PathsMatched, Zenon DEF PathsApart
<1>4. QueryPathMatches(req.path, k.path)
  BY <1>2, <1>3, PathsMatched, Zenon
<1>5. ASSUME NEW inverted \in BOOLEAN PROVE k \in Hits(AreaOf(v, inverted)) <=> ~inverted
  <2>1. PICK area : area = [coords |-> {v}, inverted |-> inverted]
    BY Zenon
  <2>2. PICK doc : doc = entities[k]
    BY Zenon
  <2>3. area # None /\ (processAreaScope(area, doc) <=> ~inverted)
    BY <2>1, <2>2, AreaScope, Zenon
  <2>4. PICK q : q = AreaOf(v, inverted) /\ q = EntityQuery(req.type, {req.path}, {}, FALSE, area)
    BY <2>1, Zenon DEF AreaOf
  <2>5. k \in Hits(q) <=> Asked(req.type, req.path, FALSE, area, k)
    BY <2>4, HitsQuery, Zenon
  <2>6. Asked(req.type, req.path, FALSE, area, k) <=> ~inverted
    BY <1>1, <1>4, <2>2, <2>3, Zenon DEF Asked
  <2> QED
    BY <2>4, <2>5, <2>6, Zenon
<1> QED
  BY <1>5, Zenon

\* The locations at the end of a request.
LEMMA StatesArea == PathsApart /\ SelectedInv /\ StatesInv /\ LocInv => AreaFollowsUpdate
<1> SUFFICES ASSUME PathsApart, SelectedInv, StatesInv, LocInv PROVE AreaFollowsUpdate
  BY Zenon
<1>1. ASSUME NEW k \in Present, entities[k].locAttr # ""
      PROVE  \E a \in AttrsOf(entities[k]) : a.name = entities[k].locAttr
  <2>1. PICK e : e = entities[k] /\ e # None /\ k \in Key
    BY Zenon DEF Present
  <2>2. Named(e.attrs, e.locAttr)
    BY <1>1, <2>1, EntitiesLocated, Zenon DEF DocsLocated, LocNamed
  <2>3. PICK i \in DOMAIN e.attrs : e.attrs[i].name = e.locAttr
    BY <2>2, Zenon DEF Named
  <2>4. e.attrs[i] \in AttrsOf(e)
    BY <2>1, AttrsIn, Zenon DEF In
  <2> QED
    BY <2>1, <2>3, <2>4, Zenon
<1>2. ASSUME pc = "reply", req.action # "delete", NEW k \in Present \cap Selected(req),
             NEW ca \in LastNamed(req.attrs), ca.name = entities[k].locAttr,
             req.action = "update" \/ ca.loc # "", entities[k] # pre[k]
      PROVE  k \in Hits(AreaOf(ca.value, FALSE)) /\ k \notin Hits(AreaOf(ca.value, TRUE))
  <2>1. pc # "idle" /\ k \in Key
    BY <1>2, Zenon DEF Present
  <2>2. PICK p, e : p = pre[k] /\ e = entities[k]
    BY Zenon
  <2>3. /\ req \in Request /\ p \in EntityDoc \cup {None}
        /\ \/ e = p
           \/ IsWritten(req, k, p, e)
           \/ IsRemoved(req, e)
    BY <2>1, <2>2, ReplyStates, Zenon DEF IsWritten
  <2>4. IsWritten(req, k, p, e)
    BY <1>2, <2>2, <2>3, Zenon DEF IsRemoved, IsWhole
  <2>5. p # None => LocNamed(p)
    BY <2>1, <2>2, Zenon DEF LocInv, DocsLocated
  <2>6. PICK j \in DOMAIN req.attrs : ca = req.attrs[j] /\ IsLast(req.attrs, j)
    BY <1>2, Zenon DEF LastNamed, IsLast
  <2>7. Relocating(req.action, req.attrs[j])
    BY <1>2, <2>3, <2>6, RequestAssumption, Zenon DEF Relocating, Action
  <2>8. e.locAttr = req.attrs[j].name
    BY <1>2, <2>2, <2>6, Zenon
  <2>9. e.coords = req.attrs[j].value
    BY <2>3, <2>4, <2>5, <2>6, <2>7, <2>8, WrittenLocated, Zenon
  <2>10. ca \in ContextAttribute
    BY <2>3, <2>6, RequestAssumption, LenProperties, ElementOfSeq, Zenon
  <2>11. ca.name # "" /\ ca.value \in STRING
    BY <2>10, Zenon DEF ContextAttribute
  <2>12. entities[k].locAttr # "" /\ entities[k].coords = ca.value
    BY <1>2, <2>2, <2>6, <2>9, <2>11, Zenon
  <2> QED
    BY <1>2, <2>3, <2>11, <2>12, AreaQuery, Zenon
<1> QED
  BY <1>1, <1>2, Zenon DEF AreaFollowsUpdate

\* AreaFollowsUpdate: location.coords follows every update of the attribute that the location
\* names, over any sequence of requests and any order of the attributes in them, and no DELETE
\* leaves a location without its attribute, where no write reaches an entity with another path.
THEOREM AreaFollowsUpdateAlways == PathsApart => (Spec => []AreaFollowsUpdate)
<1> SUFFICES ASSUME PathsApart PROVE Spec => []AreaFollowsUpdate
  BY Zenon
<1>1. SelectedInv /\ StatesInv /\ LocInv /\ [Next]_vars => (SelectedInv /\ StatesInv /\ LocInv)'
  BY SelectedNext, StatesNext, LocNext, Zenon
<1>2. SelectedInv /\ StatesInv /\ LocInv => AreaFollowsUpdate
  BY StatesArea, Zenon
<1> QED
  BY <1>1, <1>2, SelectedInit, StatesInit, LocInit, PTL DEF Spec

=============================================================================
