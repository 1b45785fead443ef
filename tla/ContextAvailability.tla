------------------------ MODULE ContextAvailability -------------------------
(***************************************************************************)
(* Context availability: registrations, their forwarding to another        *)
(* broker, availability subscriptions and discovery.                       *)
(*                                                                         *)
(* Every mongoBackend handler holds reqSem from its first to its last      *)
(* statement and is one action here.  A request that calls several of      *)
(* them, or sends to another server between them, is a process of Proc     *)
(* whose progress is in op: the other requests come in between.            *)
(*                                                                         *)
(* A broker started with fwdPort 0 forwards no registrations.  One that    *)
(* does is looked at without availability subscriptions, which the         *)
(* forwarding neither reads nor writes.                                    *)
(*                                                                         *)
(* A database call may throw, having been applied or not; MaxFaults bounds *)
(* how many do.                                                            *)
(***************************************************************************)
EXTENDS Registry

CONSTANTS
  Proc,              \* the requests being served
  SubId,             \* ids of availability subscriptions
  RegisterRequests,  \* [crs, servicePath, duration]
  AvailRequests,     \* [entities, attrs, duration]
  DiscoverRequests,  \* [entities, attrs, paths, scope, offset, limit]
  DefaultDuration,   \* PT24H in the code
  DefaultLimit,      \* 20 in the code
  MaxRegistrations,
  MaxCount,          \* notifications of one subscription
  MaxTime,
  MaxFaults

ASSUME RequestsAssumption ==
  /\ RegisterRequests \subseteq [crs : Seq(ContextRegistration), servicePath : RequestPath \cup {NoPath},
                                duration : Nat]
  /\ AvailRequests \subseteq [entities : SUBSET EntityId, attrs : SUBSET STRING, duration : Nat]
  /\ \A q \in DiscoverRequests : q.limit \in Nat
  /\ DefaultDuration \in Nat /\ DefaultLimit \in Nat /\ MaxTime \in Nat

VARIABLES
  fwdPort,        \* set when the broker starts
  registrations,  \* the collections of the registrations,
  casubs,         \* of the availability subscriptions
  associations,   \* and of the associations
  now,
  op,             \* what every process does
  faults,         \* database calls that have thrown
  told,     \* history: the registrations every subscriber has been sent, as they are now
  unread,   \* history: the subscriptions whose notification failed in the database
  acked,    \* history: the registrations whose last write was acknowledged
  fwdKnown  \* history: the registrations known to the other broker, see FwdRegIdKept

registryVars == <<registrations, casubs, associations, faults, told, unread, acked, fwdKnown>>

Idle == [pc |-> "idle"]

\* A call throws.
Throws == faults < MaxFaults /\ faults' = faults + 1

\* A duration 0 is an empty one.
expirationAt(d) == now + (IF d = 0 THEN DefaultDuration ELSE d)

-----------------------------------------------------------------------------
(* Notifications of availability subscriptions.                            *)

\* "unread": the query of the registrations throws; "uncounted": the update of the
\* subscription after the notification does.
Outcomes == {"sent", "unread", "uncounted"}

Crrs(docs, sub, enV) == registrationsQuery(docs, enV, sub.attrs, {}, now, 0, DefaultLimit)

mongoUpdateCasubNewNotification(sub) ==
  [sub EXCEPT !.count = @ + 1]

\* What a subscriber asked for among the entities and attributes of a context
\* registration, by id and type, both with isPattern spelled.
Wanted(sub, cr) ==
  {e \in cr.entities \cap cr.spelled :
     /\ e.type # ""
     /\ \E q \in sub.entities : /\ q.type = e.type /\ q.spelled
                                /\ IF q.isPattern THEN e.id \in Regex[q.id] ELSE q.id = e.id
     /\ sub.attrs = {} \/ sub.attrs \cap cr.attrs # {}}

\* crrs holds what the subscriber asked for of a registration.
Covers(crrs, sub, doc) ==
  \A cr \in ToSet(doc.crs) :
    Wanted(sub, cr) # {} =>
      \E crr \in ToSet(crrs) : /\ Wanted(sub, cr) \subseteq crr.entities
                              /\ {a \in cr.attrs : includedAttribute(a, sub.attrs)} \subseteq crr.attrs
                              /\ crr.prApp = cr.prApp

\* processAvailabilitySubscription for every subscription of S, in a state whose
\* collections are docs and subs.
processAvailabilitySubscription(docs, subs, S, enV, out) ==
  LET Sends(s) == s \in S /\ out[s] # "unread" /\ Crrs(docs, subs[s], enV) # <<>>
      failing == Cardinality({s \in S : out[s] # "sent"})
  IN  /\ \A s \in S : Sends(s) => subs[s].count < MaxCount
      /\ faults' = faults + failing /\ faults' <= MaxFaults
      /\ casubs' = [s \in DOMAIN subs |->
                      IF Sends(s) /\ out[s] = "sent" THEN mongoUpdateCasubNewNotification(subs[s]) ELSE subs[s]]
      /\ told' = [s \in DOMAIN subs |->
                    {i \in DOMAIN docs :
                       \/ /\ s \in DOMAIN casubs /\ i \in told[s]
                          /\ i \in DOMAIN registrations /\ docs[i] = registrations[i]
                          /\ <<subs[s].entities, subs[s].attrs>> = <<casubs[s].entities, casubs[s].attrs>>
                       \/ Sends(s) /\ Covers(Crrs(docs, subs[s], enV), subs[s], docs[i])}]
      /\ unread' = (unread \cap DOMAIN subs) \cup {s \in S : out[s] = "unread"}

-----------------------------------------------------------------------------
(* registerContext.                                                        *)

Names(assocs) == {a.name : a \in assocs}

AssocsOf(r, k) == UNION {r.crs[j].assocs : j \in 1 .. k}

\* The associations are inserted one by one, and insert() refuses a name that is in the
\* collection: A can all be inserted into stored.
Insertable(A, stored) ==
  /\ Names(A) \cap Names(stored) = {}
  /\ \A a, b \in A : a.name = b.name => a = b

Inserts(r, k) == Insertable(r.crs[k].assocs, associations \cup AssocsOf(r, k - 1))

triggerEntities(r) ==
  {[id |-> e.id, type |-> e.type, isPattern |-> FALSE] : e \in UNION {cr.entities : cr \in ToSet(r.crs)}}

addTriggeredSubscriptions(r) ==
  {s \in DOMAIN casubs : \E cr \in ToSet(r.crs) : TriggeredBy(casubs[s], cr, now)}

regDoc(r) == [crs |-> r.crs, servicePath |-> r.servicePath, expiration |-> expirationAt(r.duration), fwdRegId |-> 0]

\* update() with upsert: the document is replaced whole.
Upserted(i, r) ==
  IF i > Len(registrations) THEN Append(registrations, regDoc(r)) ELSE [registrations EXCEPT ![i] = regDoc(r)]

\* The loop stops at the context registration k, of whose associations A are stored by
\* then: the next one is refused, or a call throws.
LoopFails(r) ==
  /\ \E k \in 1 .. Len(r.crs) : \E A \in SUBSET r.crs[k].assocs :
       LET stored == associations \cup AssocsOf(r, k - 1) IN
       /\ \A j \in 1 .. k - 1 : Inserts(r, j)
       /\ Insertable(A, stored)
       /\ associations' = stored \cup A
       /\ \/ Throws
          \/ (\E a \in r.crs[k].assocs \ A : a.name \in Names(stored \cup A)) /\ UNCHANGED faults
  /\ UNCHANGED <<registrations, casubs, told, unread, acked>>

\* The upsert throws.
UpsertFails(i, r) ==
  /\ \A k \in 1 .. Len(r.crs) : Inserts(r, k)
  /\ Throws
  /\ associations' = associations \cup AssocsOf(r, Len(r.crs))
  /\ \/ UNCHANGED <<registrations, acked, told>>
     \/ registrations' = Upserted(i, r) /\ acked' = acked \ {i} /\ told' = [s \in DOMAIN told |-> told[s] \ {i}]
  /\ UNCHANGED <<casubs, unread>>

Registers(i, r) ==
  /\ \A k \in 1 .. Len(r.crs) : Inserts(r, k)
  /\ associations' = associations \cup AssocsOf(r, Len(r.crs))
  /\ registrations' = Upserted(i, r)
  /\ acked' = acked \cup {i}
  /\ LET triggered == addTriggeredSubscriptions(r) IN
     \E out \in [triggered -> Outcomes] :
       processAvailabilitySubscription(registrations', casubs, triggered, triggerEntities(r), out)

\* The result is the id for the response, 0 when it has none.
processRegisterContext(i, r, result) ==
  \/ result = i /\ Registers(i, r)
  \/ result = 0 /\ (LoopFails(r) \/ UpsertFails(i, r))

\* The update of a registration finds its document by id and service path; the response
\* to a registration that is not found has the id of the request, one to an error has none.
mongoRegisterContext(i, r, result) ==
  IF i > Len(registrations) \/ registrations[i].servicePath = r.servicePath
  THEN \/ processRegisterContext(i, r, result)
       \/ /\ i <= Len(registrations) /\ result = 0 /\ Throws  \* findOne
          /\ UNCHANGED <<registrations, casubs, associations, told, unread, acked>>
  ELSE /\ \/ result = i /\ UNCHANGED faults
          \/ result = 0 /\ Throws
       /\ UNCHANGED <<registrations, casubs, associations, told, unread, acked>>

NewId == Len(registrations) + 1

\* A registration without registrationId: it is stored first, then forwarded.
postRegisterContext(p, r) ==
  /\ fwdPort # 0
  /\ op[p] = Idle
  /\ NewId <= MaxRegistrations
  /\ \E result \in {NewId, 0} :
       /\ processRegisterContext(NewId, r, result)
       /\ op' = [op EXCEPT ![p] = [pc |-> "forwardNew", reg |-> result]]
  /\ UNCHANGED <<now, fwdKnown>>

\* Without forwarding, a registration or an update of one is a single call.
registerContext(i, r) ==
  /\ fwdPort = 0
  /\ i <= MaxRegistrations
  /\ \E result \in {i, 0} : mongoRegisterContext(i, r, result)
  /\ UNCHANGED <<op, now, fwdKnown>>

\* The other broker answers with its id for the registration, called like ours, or
\* there is no answer that can be used.
fordwardRegisterContext(p) ==
  /\ op[p].pc = "forwardNew"
  /\ op' \in {[op EXCEPT ![p] = [pc |-> "setNew", reg |-> op[p].reg, fwdRegId |-> op[p].reg]],
              [op EXCEPT ![p] = Idle]}
  /\ UNCHANGED <<registryVars, now>>

SetFwdRegId(i, id) == registrations' = [registrations EXCEPT ![i].fwdRegId = id]

\* An empty id is no OID: the exception is caught.
mongoSetFwdRegIdNew(p) ==
  /\ op[p].pc = "setNew"
  /\ \/ /\ op[p].reg # 0
        /\ SetFwdRegId(op[p].reg, op[p].fwdRegId)
        /\ fwdKnown' = fwdKnown \cup {op[p].reg}
        /\ UNCHANGED faults
     \/ /\ IF op[p].reg # 0 THEN Throws ELSE UNCHANGED faults
        /\ UNCHANGED <<registrations, fwdKnown>>
  /\ op' = [op EXCEPT ![p] = Idle]
  /\ UNCHANGED <<casubs, associations, told, unread, acked, now>>

\* The document of another update of i is stored, and not yet its id.
Overlaps(i) == \E q \in Proc : op[q].pc = "set" /\ op[q].reg = i

\* An update of a registration, by a client that has the answer to the registration,
\* reads the id of the other broker first; "" (0) if that fails.
mongoGetFwdRegId(p, i, r) ==
  /\ fwdPort # 0
  /\ op[p] = Idle
  /\ \A q \in Proc : op[q].pc \in {"forwardNew", "setNew"} => op[q].reg # i
  /\ \E id \in {registrations[i].fwdRegId, 0} :
       /\ IF id = registrations[i].fwdRegId THEN UNCHANGED faults ELSE Throws
       /\ op' = [op EXCEPT ![p] = [pc |-> "register", reg |-> i, req |-> r, fwdRegId |-> id]]
       /\ fwdKnown' = IF Overlaps(i) \/ id # registrations[i].fwdRegId THEN fwdKnown \ {i} ELSE fwdKnown
  /\ UNCHANGED <<registrations, casubs, associations, told, unread, acked, now>>

updateRegistration(p) ==
  /\ op[p].pc = "register"
  /\ \E result \in {op[p].reg, 0} :
       /\ mongoRegisterContext(op[p].reg, op[p].req, result)
       /\ op' = [op EXCEPT ![p] = [pc |-> "set", reg |-> op[p].reg, result |-> result, fwdRegId |-> op[p].fwdRegId]]
       /\ fwdKnown' = IF result = 0 /\ registrations' # registrations THEN fwdKnown \ {op[p].reg} ELSE fwdKnown
  /\ UNCHANGED now

\* The id is not stored again.
SetNothing(p) ==
  /\ op[p].pc = "set"
  /\ op' = [op EXCEPT ![p] = [pc |-> "forwardUpdate", reg |-> op[p].reg, fwdRegId |-> op[p].fwdRegId]]
  /\ UNCHANGED <<registryVars, now>>

\* The id is stored again, under the registrationId of the response.
mongoSetFwdRegId(p) ==
  /\ op[p].pc = "set"
  /\ \/ /\ op[p].result # 0
        /\ SetFwdRegId(op[p].result, op[p].fwdRegId)
        /\ UNCHANGED <<faults, fwdKnown>>
     \/ op[p].result # 0 /\ Throws /\ fwdKnown' = fwdKnown \ {op[p].reg} /\ UNCHANGED registrations
     \/ op[p].result = 0 /\ UNCHANGED <<faults, fwdKnown, registrations>>
  /\ op' = [op EXCEPT ![p] = [pc |-> "forwardUpdate", reg |-> op[p].reg, fwdRegId |-> op[p].fwdRegId]]
  /\ UNCHANGED <<casubs, associations, told, unread, acked, now>>

\* The answer of the other broker is not read.
forwardUpdate(p) ==
  /\ op[p].pc = "forwardUpdate"
  /\ op' = [op EXCEPT ![p] = Idle]
  /\ UNCHANGED <<registryVars, now>>

\* A notification of another broker is registered like a new registration, for the
\* default duration; what comes of it is not looked at.
mongoNotifyContextAvailability(r) ==
  /\ NewId <= MaxRegistrations
  /\ \E result \in {NewId, 0} : processRegisterContext(NewId, [r EXCEPT !.duration = 0], result)
  /\ UNCHANGED <<op, now, fwdKnown>>

-----------------------------------------------------------------------------
(* Availability subscriptions.                                             *)

\* lastNotification is written whenever count is incremented, and is left out.
casub(r, expiration, count) ==
  [entities |-> r.entities, attrs |-> r.attrs, expiration |-> expiration, count |-> count]

\* The insert throws, or the initial notification follows it.
mongoSubscribeContextAvailability(s, r) ==
  /\ s \notin DOMAIN casubs
  /\ LET new == [t \in DOMAIN casubs \cup {s} |->
                   IF t = s THEN casub(r, expirationAt(r.duration), 0) ELSE casubs[t]] IN
     \/ \E result \in Outcomes :
          processAvailabilitySubscription(registrations, new, {s}, r.entities, [t \in {s} |-> result])
     \/ /\ Throws
        /\ casubs' = new
        /\ told' = [t \in DOMAIN told \cup {s} |-> IF t = s THEN {} ELSE told[t]]
        /\ unread' = unread \cup {s}
  /\ UNCHANGED <<registrations, associations, acked, fwdKnown, op, now>>

\* The expiration is kept when the request has no duration; reference and count
\* always are.
UpdatedCasub(s, r) ==
  casub(r, IF r.duration = 0 THEN casubs[s].expiration ELSE expirationAt(r.duration), casubs[s].count)

mongoUpdateContextAvailabilitySubscription(s, r) ==
  /\ s \in DOMAIN casubs
  /\ LET new == [casubs EXCEPT ![s] = UpdatedCasub(s, r)] IN
     \/ \E result \in Outcomes :
          processAvailabilitySubscription(registrations, new, {s}, r.entities, [t \in {s} |-> result])
     \/ Throws /\ casubs' = new /\ unread' = unread \cup {s} /\ told' = [told EXCEPT ![s] = {}]
  /\ UNCHANGED <<registrations, associations, acked, fwdKnown, op, now>>

\* One that is not found is answered so, and remove() may throw.
mongoUnsubscribeContextAvailability(s) ==
  /\ s \in DOMAIN casubs
  /\ casubs' = [t \in DOMAIN casubs \ {s} |-> casubs[t]]
  /\ told' = [t \in DOMAIN told \ {s} |-> told[t]]
  /\ unread' = unread \ {s}
  /\ UNCHANGED <<registrations, associations, faults, acked, fwdKnown, op, now>>

-----------------------------------------------------------------------------
(* Discovery.                                                              *)

\* Whatever the page holds, code 404 means that it is empty; the counted documents
\* go to the details.
conventionalDiscoverContextAvailability(q) ==
  LET found == registrationsQuery(registrations, q.entities, q.attrs, q.paths, now, q.offset, q.limit)
  IN  [crrs |-> found, code |-> IF found = <<>> THEN 404 ELSE 200,
       count |-> Len(MatchingDocs(registrations, q.entities, q.attrs, q.paths, now))]

\* The registrations of the other side of every association of the page.  When there
\* are any, a last context registration holds these associations.
associationsDiscoverContextAvailability(q) ==
  LET found == SetToSeq(associationsQuery(associations, q.entities, q.attrs, q.scope))
      assocs == ToSet(SubSeq(found, q.offset + 1, IF q.offset + q.limit < Len(found) THEN q.offset + q.limit ELSE Len(found)))
      Side(e) == {[id |-> e.id, type |-> e.type, isPattern |-> FALSE]}
      Of(a) == IF q.scope = "SOURCES"
               THEN registrationsQuery(registrations, Side(a.source), {x.source : x \in a.attrs}, q.paths, now, 0, DefaultLimit)
               ELSE registrationsQuery(registrations, Side(a.target), {x.target : x \in a.attrs}, q.paths, now, 0, DefaultLimit)
      crrs == FlattenSeq(SetToSeq({Of(a) : a \in assocs}))
      holder == [entities |-> {}, attrs |-> {}, prApp |-> "association", assocs |-> assocs]
  IN  IF q.scope = "ALL" THEN [crrs |-> <<>>, code |-> 501, count |-> 0]
      ELSE IF crrs = <<>> THEN [crrs |-> <<>>, code |-> 404, count |-> 0]
      ELSE [crrs |-> Append(crrs, holder), code |-> 200, count |-> 0]

\* Discovery only reads, under reqSem: its answer is a function of the collections.
mongoDiscoverContextAvailability(q) ==
  IF q.scope = "" THEN conventionalDiscoverContextAvailability(q) ELSE associationsDiscoverContextAvailability(q)

-----------------------------------------------------------------------------
Tick == now < MaxTime /\ now' = now + 1 /\ UNCHANGED <<registryVars, op>>

InitAvailability ==
  /\ fwdPort \in {0, 1}
  /\ registrations = <<>>
  /\ casubs = <<>>
  /\ associations = {}
  /\ now = 0
  /\ op = [p \in Proc |-> Idle]
  /\ faults = 0
  /\ told = <<>>
  /\ unread = {}
  /\ acked = {}
  /\ fwdKnown = {}

NextRegistry ==
  \/ \E p \in Proc :
       \/ \E r \in RegisterRequests : postRegisterContext(p, r)
       \/ \E r \in RegisterRequests, i \in DOMAIN registrations : mongoGetFwdRegId(p, i, r)
       \/ fordwardRegisterContext(p) \/ mongoSetFwdRegIdNew(p)
       \/ updateRegistration(p) \/ mongoSetFwdRegId(p) \/ forwardUpdate(p)
  \/ \E r \in RegisterRequests : \/ mongoNotifyContextAvailability(r)
                                \/ \E i \in 1 .. NewId : registerContext(i, r)
  \/ /\ fwdPort = 0
     /\ \E s \in SubId : \/ mongoUnsubscribeContextAvailability(s)
                        \/ \E r \in AvailRequests :
                             \/ mongoSubscribeContextAvailability(s, r)
                             \/ mongoUpdateContextAvailabilitySubscription(s, r)
  \/ Tick

NextAvailability == NextRegistry /\ UNCHANGED fwdPort

availabilityVars == <<registryVars, now, op, fwdPort>>

AvailabilitySpec == InitAvailability /\ [][NextAvailability]_availabilityVars

-----------------------------------------------------------------------------
(* Properties.                                                             *)

\* A subscriber knows what is registered: of every registration that was acknowledged
\* and has not expired, every subscriber whose subscription has not expired either has
\* been sent the entities, the attributes and the providing application it asked for,
\* whichever of the two came first and whatever was updated since, unless reading the
\* registrations for its notification failed.  processAvailabilitySubscription is the
\* only place that tells, at a subscription and at a registration.  (Entities without
\* a type are left out, see the FIXME of addTriggeredSubscriptions, and so are those
\* whose isPattern was not written "false", or "true" in a subscription: a registration
\* in XML that leaves it out triggers nothing, though a later subscription finds it.  A
\* notification holds DefaultLimit registrations: there are no more.)
SubscriberKnows ==
  Len(registrations) <= DefaultLimit => \A s \in DOMAIN casubs \ unread, i \in acked :
    casubs[s].expiration > now /\ registrations[i].expiration > now =>
      i \in told[s] \/ Covers(<<>>, casubs[s], registrations[i])

\* No registration ever has the id the other broker gave for another one, whatever the
\* interleaving of the requests that read and store ids, and whatever fails. And the id
\* given for a registration survives every update of it, which
\* replaces the document without the id and stores the id again in a second call, and
\* the update is forwarded under that id.  (fwdKnown leaves out the registrations with
\* an update that began between the two calls of another one, and the ones for which a
\* call failed: these lose the id.)
FwdRegIdKept ==
  /\ \A i \in DOMAIN registrations : registrations[i].fwdRegId \in {0, i}
  /\ \A i \in fwdKnown : registrations[i].fwdRegId = i \/ Overlaps(i)
  /\ \A p \in Proc : op[p].pc = "forwardUpdate" /\ op[p].reg \in fwdKnown => op[p].fwdRegId = op[p].reg

\* Does e, as registered, have an id and a type that enV asks for by name?
Named(e, enV) ==
  \E q \in enV : /\ IF q.isPattern THEN e.id \in Regex[q.id] ELSE q.id = e.id
                 /\ q.type = "" \/ q.type = e.type

\* The context registrations under the paths, not expired, that offer an entity and an
\* attribute of the request.
Offers(enV, attrL, paths) ==
  {cr \in UNION {ToSet(registrations[i].crs) :
                   i \in {j \in DOMAIN registrations : /\ registrations[j].expiration > now
                                                       /\ fillQueryServicePath(paths, registrations[j].servicePath)}} :
     /\ \E e \in cr.entities : Named(e, enV)
     /\ attrL # {} => cr.attrs \cap attrL # {}}

\* Discovery misses nothing: when the page has room for every matching document, all the
\* context registrations that offer what the request names are in the answer, with the
\* entities and attributes named, though registrationsQuery first selects documents with
\* a query of its own.  Discovery of the sources of an entity finds every registered
\* entity that a stored association names as one, of the first DefaultLimit ones.  (An
\* association whose target has no type is never found.)
DiscoverComplete ==
  \A q \in DiscoverRequests :
    LET answer == mongoDiscoverContextAvailability(q) IN
    /\ q.scope = "" /\ q.offset = 0 /\ answer.count <= q.limit =>
         \A cr \in Offers(q.entities, q.attrs, q.paths) :
           \E crr \in ToSet(answer.crrs) :
             /\ {e \in cr.entities : Named(e, q.entities)} \subseteq crr.entities
             /\ {a \in cr.attrs : includedAttribute(a, q.attrs)} \subseteq crr.attrs
             /\ crr.prApp = cr.prApp
    /\ q.scope = "SOURCES" /\ q.offset = 0 /\ Cardinality(associations) <= q.limit /\ Len(registrations) <= DefaultLimit =>
         \A a \in associations : \A x \in a.attrs :
           LET source == {[id |-> a.source.id, type |-> a.source.type, isPattern |-> FALSE]} IN
           /\ a.target.type # ""
           /\ [id |-> a.target.id, type |-> a.target.type, isPattern |-> FALSE] \in q.entities
           /\ x.target \in q.attrs
           /\ Offers(source, {x.source}, q.paths) # {}
           => \E crr \in ToSet(answer.crrs) : x.source \in crr.attrs /\ \E e \in crr.entities : Named(e, source)
=============================================================================
