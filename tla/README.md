# Orion Context Broker: TLA+ models and proofs

Models of the Orion Context Broker: what `updateContext` does to entities and what
queries read of them, subscriptions and their notifications, the interval threads,
registrations and availability subscriptions, forwarding to context providers, the REST
connection with its service table and routines, the parsers, the rendering and checking
of messages, the sending of messages, and the process itself.
Paths below are relative to `src/src/lib` unless they begin with `src/`.

## The system

A broker is one process. `main` (`src/src/app/contextBroker/contextBroker.cpp`) connects to
MongoDB, recovers the interval threads of all tenants and starts the REST server.
libmicrohttpd calls `connectionTreat` (`rest/rest.cpp`) three times for a request;
`restService` looks the URL up in a table, parses the payload (`xmlParse`, `jsonParse` into
the types of `ngsi`, `ngsi9`, `ngsi10`) and calls a service routine (`serviceRoutines`,
`convenienceMap`), which calls functions of `mongoBackend` and may forward the request to a
context provider or to another broker. A function of `mongoBackend` takes `reqSem` for its
whole length, and `mongoSem` around each call to MongoDB. Everything persistent is in the
collections `entities`, `registrations`, `csubs`, `casubs` and `associations`, in one
database per tenant.

Two kinds of threads run beside the requests: an interval thread per ONTIMEINTERVAL
condition (`ngsiNotify/onTimeIntervalThread.cpp`), which takes `reqSem` three times per
round, and a detached sender thread per notification (`ngsiNotify/senderThread.cpp`).

### Inventory

| Part | Source | State | Module |
|---|---|---|---|
| semaphores | `common/sem.cpp` | `reqSem`, `mongoSem` (not `transSem`) | BackendSemaphores, SerialHandlers |
| updateContext | `mongoBackend/MongoCommonUpdate.cpp`, `mongoUpdateContext.cpp` | `entities` | EntityAttributes, UpdateContext |
| queryContext, entity types, notifyContext | `MongoGlobal.cpp`, `mongoQuery*.cpp`, `mongoNotifyContext.cpp` | none (reads) | EntityQueries |
| context subscriptions, ONCHANGE | `mongo{Subscribe,UpdateContextSubscription,Unsubscribe}*.cpp`, `MongoCommonUpdate.cpp` | `csubs` | Notifications, OntimeInterval |
| interval threads | `Notifier.cpp`, `onTimeIntervalThread.cpp`, `mongoOntimeintervalOperations.cpp` | `threadsMap`, the threads | OntimeInterval, Notifications |
| registrations, discovery, availability subscriptions | `MongoCommonRegister.cpp`, `mongo*Availability*.cpp`, `postRegisterContext.cpp` | `registrations`, `casubs`, `associations` | Registry, ContextAvailability |
| forwarding | `serviceRoutines/post{Update,Query}Context.cpp` | the request in progress | ContextProviders |
| service paths | `rest/rest.cpp`, `common/string.cpp`, `MongoGlobal.cpp`, `MongoCommonUpdate.cpp` | none | ServicePath, ServicePathRequests |
| connection, service table | `rest/rest.cpp`, `RestService.cpp`, `src/src/app/contextBroker/contextBroker.cpp` | `ConnectionInfo`, buffer | RestServices, RestConnection |
| service routines, convenience maps | `serviceRoutines`, `convenienceMap` | none | RestRoutines |
| parsers | `jsonParse`, `xmlParse`, `parse` | `ParseData` | ParseRows, Ngsi9ParseVectors, Ngsi10ParseVectors, ParseTables, PayloadParser |
| NGSI types | `ngsi`, `ngsi9`, `ngsi10`, `convenience`, `orionTypes` | none | NgsiRender, NgsiCheck, NgsiMessages, NgsiConvenience, NgsiExchange |
| senders | `ngsiNotify/Notifier.cpp`, `senderThread.cpp`, `rest/clientSocketHttp.cpp` | the parameters | HttpSender |
| process, connection, tenants | `src/src/app/contextBroker/contextBroker.cpp`, `MongoGlobal.cpp` | the process | BrokerProcess |
| logging, options, CoAP proxy | `logMsg`, `parseArgs`, `src/src/app/proxyCoap` | none shared | not modelled |

## Modules

### BackendSemaphores, SerialHandlers, BackendThreads
`reqSem` and `mongoSem` as the counters they are, and three kinds of handler: those that
make database calls under `reqSem`, those that first build an `OID` from the id of the
request, and `mongoQueryContext`, which calls `registrationsQuery` after it gave
`reqSem`. `OID` of a malformed id throws; the exception handler gives both semaphores,
`mongoSem` without having taken it (history variable `excess`). SerialHandlers is what the
handlers promise together: each waits, works alone, and ends once. BackendSemaphores
implements it under the mapping `Phases` from places to phases. BackendThreads puts this
model and OntimeInterval into one run.

### OntimeInterval
The life of the interval threads. A request goes through the places of its handler
(`take`, `find`, `remove`, `cancel`, `join`, `conditions`, `insert`, `write`); a thread
through the places of a round (`info`, `elements`, `update`, each with `reqSem`, then
`send`, `enable`, `sleep`). `threadsMap` is the multimap of `Notifier`; `detached` the
threads whose `pthread_detach` was called, for which `pthread_join` fails at once.
Database calls and `pthread_create` may fail. `Crash` ends the process at any point and
`Restart` is `recoverOntimeIntervalThreads`. Deferred cancelation: a canceled thread ends
where cancelation is enabled. The variables `sent`, `late`, `stored` and `dirty` are
history: who was notified, what was sent after a cancelation, which subscriptions were
ever stored, which ones a failed call has left out of step.

### Notifications
One `csubs` document per subscription with `expiration`, `throttling`,
`lastNotification`, `count` and service path (-1 is an absent field), a clock, a request
at a time (it holds `reqSem`), and the accesses of the interval threads between
requests. Time may pass between any two steps. `note`, `lost` and `scope` are history.

### ServicePath, ServicePathRequests
A path is a sequence of components, `""` for two slashes in a row and `"#"` for the
wildcard; `NoPath` is a missing header. The regular expressions are modelled by the set
of paths they match. The one of `WriteMatches` has no anchors, as in the code: `/a` is found
in `/b/a`, in `/a/b` and in `/ab`. The constant `Longer` says which components begin with
which others. ServicePathRequests lets updates, entities and subscriptions with any
paths meet.

### EntityAttributes, UpdateContext, EntityQueries
EntityAttributes has the functions of `MongoCommonUpdate.cpp` on an attribute array:
update, append and delete with the copying of the other attributes, the merging of
metadata, the detection of an actual change, the use of ids and the location. A field
that is missing is told apart from an empty one (`NoType`). The loop of
`processContextAttributeVector` is a recursive function that stops at the first failure.

UpdateContext is `processContextElement`: the preconditions, the loop over the documents
found (`cursor`), the write of each with its own query, the notifications after it, the
counter `docs` and what follows when it is zero. The `caller` matters because the code
leaves `docs` at zero for a failed update that came from `postUpdateContext`. Entities
are named by type and path; the id is the one of the request. `pre` is the history of
the entities before the request. Creation and modification dates and the wording of
responses are left out.

EntityQueries is what clients read of these entities: the filters of `entitiesQuery` (type,
path, attributes, area), the attributes of an answer or a notification, the aggregations
behind the entity types, and `mongoNotifyContext`, with which another broker stores what it
is notified of. The readers hold `reqSem` and change nothing: they are operators.

### SequenceOps
The few operators on sequences that the modules with proofs share. They are those of
SequencesExt, which brings in so many other definitions that the provers slow down.

### Registry, UpdateResponses, ContextAvailability, ContextProviders
Registry has the documents and the queries on them; the associations of a context
registration are a finite set, as a message has them, and are inserted one by one.
`spelled` tells an `isPattern` that was written from one that was left out: they mean the
same to most of the code, but `addTriggeredSubscriptions` compares with the texts. UpdateResponses is the part of
`postUpdateContext` that drops the responses a later one replaces. ContextAvailability has one action per
handler, and a process per request that calls several handlers or another broker: a
registration is stored, forwarded, and the id of the other broker stored in a further call.
A database call may throw with or without effect; `MaxFaults` bounds how many do. `told`,
`acked`, `unread` and `fwdKnown` are history: what a subscriber was sent, which
registrations were acknowledged, which notifications could not be built, and for which
registrations an id of the other broker must be there.

ContextProviders adds a client whose queries and updates name entities that a provider
registered: the local attempt, the search of a provider, the message to it and its answer
(any, or none), and the merging of the responses. An element of an update may be a pattern,
have an empty value, be updated as a location, or have several entities with its id here;
the query, each write and the search of a provider may fail. `history` is what the loop over
the responses had to deal with. Values of a provider are not compound.

### RestServices, RestConnection, RestRoutines
RestServices is the table of services, macro by macro, with the two request tables of the
parsers. RestConnection has the calls of `connectionTreat` as actions, over a connection
that may bring several requests; `wire` is the reply that MHD has queued. RestRoutines maps
a URL, the URI parameters and a parsed payload to the request that the routine makes of
them, and says how its answer is used.

### ParseRows, Ngsi9ParseVectors, Ngsi10ParseVectors, ParseTables, PayloadParser
A parse vector is a set of rows: a path, and which object its treat function creates, in
which vector it puts it, and which field it sets through which pointer of `ParseData`.
PayloadParser walks over a document that unfolds on the way, in any order of its elements.
`astray` collects values that went to an object other than that of their element. A compound
value is consumed by `eatCompound`, wherever the text of a compound root is a prefix of the
path: also where the vector has no such node (`VisitStray`).

### NgsiRender, NgsiCheck, NgsiMessages, NgsiConvenience, NgsiExchange
Rendered text is a sequence of items with tags, brackets and commas; a check is a
predicate. Values, indentation and wording are left out. NgsiExchange follows a message:
sent by a client or rendered by a broker, parsed, checked, answered. `written` is the format
of the text, which is not the one of its content type when a registration is forwarded.

### HttpSender
One message from the call that sends it to the end of its thread, with a failure at every
call of libcurl; `memory` is what is allocated for it and `received` what has arrived.

### BrokerProcess, RequestParts
BrokerProcess is `main`: options, `daemonize`, PID file, the retries of the connection with
`mongoSem` taken, login, one step per tenant of the recovery, the daemons, the requests that
store and remove interval subscriptions, and each way the process ends. The databases stay
over a restart, which may have other options. RequestParts puts the parts that share no
state into one run: one moves while the others rest.

## Runs

Passing runs (deadlock is checked in all):

| Run | Instance | Shows |
|---|---|---|
| `interval_threads` | 1 subscription, 2 conditions, 2 threads, 2 requests, with symmetry | `threadsMap` is exact (`MapTracksThreads`); threads follow the document (`ThreadsMatchDocument`); `NoPhantomNotification`, `AtMostOneLateNotification` |
| `backend_threads` | 2 handlers with 2 calls each; 1 interval thread with 2 requests | `MongoSemExclusive`; the handlers implement SerialHandlers (`HandlersSerial`); every request is answered (`EveryRequestAnswered`); rounds and canceled threads end (`ThreadsComeToEnd`) |
| `notifications` | 1 subscription, with or without a thread; 5 instants; throttlings 0, 1, 2 | `LastNotificationCurrent`, `OnChangeThrottled`, `RecordsKept` |
| `update_attributes` | 1 entity, 8 request attributes, up to 2 per request | what is answered, stored and notified agrees (`ResponseTrue`, `OthersKept`, `ChangesNotified`); `IdsNotMixed`, `AreaFollowsUpdate`, `FederatedCopy` |
| `update_entities` | 2 types, 4 paths, one within another and one that begins like another | `OnlySelectedChange`, `UpdatesAreRead`, `TypesListed` |
| `requests` | see Bounds | connection and routines (`FaultAnswered`, `PayloadOwned`, `RoutineReads`); parser (`ValuesBelong`, `AcceptedIsClean`, `FormatsAgree`); paths (`PathsAgree`); senders (`NothingKept`, `DeliveredAsAsked`); process (`IntervalsRecovered`, `ThreadsOfOwnDatabase`, `BackendReady`) |
| `messages` | small sets of messages, two formats, both options of attributes | `DocumentWellFormed`, `PeerAccepted` |
| `providers` | 2 processes, 3 registration requests, 1 availability subscription, 1 fault, updates of up to 3 elements | `SubscriberKnows`, `DiscoverComplete`, `FwdRegIdKept`, `ProviderFound`, `ForwardedToProvider`, `AnsweredOnce` |

Runs in which the code disagrees with what its comments or release notes say:

| Run | What happens |
|---|---|
| `interval_destroy` | `destroyOntimeIntervalThreads` does not wait: its threads are detached, `pthread_join` fails |
| `subscription_scope` | the service path is lost when a subscription is updated |
| `delete_compound` | delete turns compound values of other attributes into `""` |
| `semaphores_oid` | a malformed id leaves `mongoSem` at two |

`interval_destroy` has a consequence in the other direction: were the threads joinable,
the join would block with `reqSem` held while the thread waits for `reqSem`. The mutant of
`EveryRequestAnswered` shows that deadlock.

Some properties have a condition because the code does not have the stronger one. Each
condition is in the property, with a comment:

| Property | Condition | Code |
|---|---|---|
| `OnChangeThrottled` | throttling is not one second | the guard compares with 1 where -1 seems to be meant (`MongoCommonUpdate.cpp:1006`) |
| `PathsAgree` | no empty component in the path | `stringSplit` drops leading slashes (`string.cpp:163`) |
| `ResponseTrue`, `ChangesNotified` | metadata with a type | without one, append and creation store the type `""` (`MongoCommonUpdate.cpp:556`) and update stores none (`:350`) |
| `OthersKept` | no compound values for delete | `delete_compound` |
| `IdsNotMixed` | same type at creation | `legalIdUsage` compares the types too (`MongoCommonUpdate.cpp:674`) |
| `AreaFollowsUpdate` | append only with the location metadata, and the request changed the entity; the last attribute of its name | the append branch looks at nothing else (`MongoCommonUpdate.cpp:1230`); the location has the name of its attribute, not the id |
| `UpdatesAreRead` | a path without `#` | the expression of an update takes `#` as a character (`MongoCommonUpdate.cpp:1610`) |
| `OnlySelectedChange` | or the entity has the type of a selected one and a path that contains its path | the query of the write has no anchors (`MongoCommonUpdate.cpp:1822`) |
| `FederatedCopy` | `Rebuildable`: an entity that one append can store | the entity is sent as one request to append its attributes (`mongoNotifyContext.cpp`) |
| `TypesListed` | the attributes of a type may be missing altogether | `null` in front drops all (`mongoQueryTypes.cpp:173`) |
| `SubscriberKnows` | entities with a type and with `isPattern` written, no failed read | the FIXME of `addTriggeredSubscriptions`; it compares `isPattern` with the texts `"false"` and `"true"` (`MongoCommonRegister.cpp:179`), and XML may leave it out; the failed read is logged only |
| `FwdRegIdKept` | no overlapping update, no failed call | the id is stored in a second call (`postRegisterContext.cpp:148`) |
| `ProviderFound` | one context registration per document, no pattern | one document is read (`mongoQueryContext.cpp:96`) |
| `AnsweredOnce` | at most one element has a response 472, none has several entities here; no empty answer of a provider | responses are compared pairwise (`postUpdateContext.cpp:146`): a 472 that stands alone (an empty value, a location) may be taken with its neighbour's 404 or 302; there is a response for every entity found; an empty answer ends the request (`:311`) |
| `FaultAnswered` | a bad service path has 200, and so have all errors that `restService` and the routines find, but a wrong verb | the error reply leaves the status 200 (`rest.cpp:812`, `badRequest.cpp:42`) |
| `RoutineReads` | not the prefix `V1` in NGSI9; one service path | the routines compare with `v1`; more than one path gives an error without element |
| `ValuesBelong` | not a compound without node in the vector | `isCompoundPath` compares prefixes (`jsonParse.cpp:99`), and the compound goes to the attribute treated last |
| `AcceptedIsClean` | invalid flags in subscribeContext and in three JSON requests; forbidden characters in the text of XML nodes with attributes and in the strings of a JSON vector | the check does not read the error; `treat` drops the text a treat function returns (`jsonParse.cpp:143`); those texts are not looked at (`xmlParse.cpp:120`, `jsonParse.cpp:271`) |
| `DocumentWellFormed` | at most one copy of an attribute; not a forwarded JSON registration without id and duration | the loop that erases copies steps over the next attribute; the vector is closed as an object |
| `PeerAccepted` | not a registration that came in JSON | it is forwarded as JSON with the content type of XML (`postRegisterContext.cpp:72`) |
| `FormatsAgree` | `FormatGaps` | fields that one of the two parse vectors lacks |
| `NothingKept` | failed `pthread_create`, failed `realloc` | `Notifier.cpp:145`, `clientSocketHttp.cpp:89` |
| `DeliveredAsAsked` | no element without path; notifications of context | the empty list is the sign of the first element (`Notifier.cpp:77`); those of availability have no protocol (`:190`) |
| `IntervalsRecovered` | databases whose query did not fail | the failure is logged only (`MongoGlobal.cpp:495`) |

The message sets of `messages` leave out what the code is known not to render well: an
answer on entity types with an empty attribute type, a list of context elements of its own
(closed with the wrong bracket), and associations in JSON, which have another name in the
parser than in the rendering. A forwarded query loses the area of its scope
(`Scope::render`, `ngsi/Scope.cpp`), although a comment in `postQueryContext.cpp:136` says
that "The exact same QueryContextRequest" is sent. An interval thread checks the throttling
on a `lastNotification` it read in an earlier section under `reqSem`, and sends after it has
recorded: its notifications can be closer to others than the throttling, and no property is
stated of them. Likewise without property: a registration stores its associations before
the steps that may still fail (`MongoCommonRegister.cpp:438`), and at exit the connection is
deleted while other threads may use it (`contextBroker.cpp:1065`).

### Bounds

- Two requests and two threads suffice for every pair of actors; the theorems remove the
  bound. `Tid` bounds the threads alive at once. With three handlers the liveness run
  takes too long; the exclusion is proved for any number.
- The clock runs over twice the largest throttling, so that a notification can be refused,
  and then be due. `MaxCount` bounds the notifications of one subscription. A
  subscription with a thread has smaller bounds (`SmallWithThread`). Subscriptions do not
  read each other's documents: each behaviour has one.
- Three levels have a first, a middle and a last component.
- Two attributes per request are a first one that succeeds and a second one that fails,
  or two that name the same attribute. The request attributes have metadata with and
  without type, an id, a compound value, a location with two valid values and a bad one,
  and an empty value.
- `MaxCalls` bounds the database calls of a handler, `MaxValue` the arrivals of malformed
  ids, which would raise `mongoSem` for ever.
- `requests`: two requests over a connection (the second finds what the first left), five
  verbs, every URL of the service table in both versions, every parse vector in both
  formats, clients with and without a tenant, three subscriptions, two tries to connect.
- `providers`: two processes overlap; the registration requests have one and two context
  registrations, of two providers and of one whose URL is bad, and each may update the other's
  registration; an `isPattern` that is left out; one failing call; one instant passes, so that
  a registration expires. The updates have an element that is stored here, one of a provider,
  one of nobody, one without type that has two entities, and one with each flaw; they are few
  because an append of three elements makes the entities they need.
  `DefaultLimit` is never reached: that more registrations are cut off is known from the code.
- `messages`: of each class the messages with each optional part absent and present, lists
  of up to two elements, a copied attribute, and valid and refused values.

### Fairness

Weak fairness of each handler and thread: the operating system runs its threads and
MongoDB answers (or throws). Strong fairness of `sem_wait`: a semaphore that is given again
and again is not kept from one waiter for ever. POSIX does not promise it: it
is an assumption about the C library and the kernel, which wake their waiters in turn.
Nothing is assumed of arrivals, errors, crashes or restarts. The other models state no
liveness: their actors wait for nothing but a client, a provider or the database.

## Proofs

For all values of the constants, checked by TLAPS. Every property named here is also an
invariant or action property of a run, where TLC met it first; so did the inductive
invariants, on the instances of the runs.

- **OntimeIntervalProofs.** `ReqSemMutualExclusion`, `MapCorrect`, `NoPhantom`,
  `LateNotifications`, `RemovedForGood`, `ThreadsFollowDocument`, `TypeCorrect`. Three
  invariants, each built on the one before. `Inv1` adds to the types that a handler is only
  at places of its operation and that a process that is down runs nothing; mutual
  exclusion needs both. `Inv2` adds that a thread that was canceled is in its last round,
  and that an id not yet stored is known to its request alone. `Inv3` adds what holds of
  threads and document at each place of the handler that is changing them; without it the
  match cannot be shown again when the handler returns.
- **NotificationsProofs.** `LastNotificationIsCurrent`, `Throttled`, `RecordsNeverLost`,
  `TypeCorrect`. The invariant relates the clock, the document being built and the
  snapshot in the `TriggeredSubscription` map: the snapshot is as recent as the document
  as long as the request holds `reqSem`, hence the throttling check is right. `RecordsNeverLost`
  needs the same of the document that an update of a subscription has read.
- **BrokerProcessProofs**, the semaphores. `ReqSemCorrect`, and `MongoSemCorrect` as long as
  no handler has given a `mongoSem` it had not taken (`excess`), which `semaphores_oid` shows
  to be needed. Both exclusions are inductive with the types. `HandlersImplement`: every step
  of a handler is a step of SerialHandlers under `Phases`, or changes no phase; that a
  handler begins alone follows from the exclusion by `reqSem`.
- **BrokerProcessProofs**, the process. `RecoveryComplete`, `ThreadsInOwnDatabase`,
  `ServesWhenReady`, from the invariant `ProcessInv` (`ProcessCorrect`): what is connected,
  taken and listening at each place of `main`; the threads have their documents at every
  place; and during the recovery every stored subscription has its thread, or its tenant is
  still pending or lost. The last part is what `IntervalsRecovered` becomes when nothing is
  pending.
- **RegistryProofs.** Lemmas: what `registrationsQuery` finds in a collection of any length
  for any request, and what the loop of `cleanResponses` (postUpdateContext), which erases
  from the vector that it goes through, leaves of it. Induction is over the set of the
  numbers that have a property, and the recursive functions of the models are shown to be
  functions by `WFDefOn` of the library.
- **ContextProvidersProofs.** `FwdRegIdKeptAlways`, from `FwdInv`: what each request knows of
  the registration it works on, at each place between the database and the other broker, and
  who will restore an id that an update has just overwritten.
  `SubscriberKnowsAlways`: everything registered that a subscriber asked for was in a
  notification to it, whichever came first; the queries of `addTriggeredSubscriptions` find
  every subscription that wants something (`WantedTriggers`). `DiscoverCompleteAlways`: what
  is offered is found when the page has room; that a page has room is a statement about the
  number of documents, and needs the collection to be finite.
  `AvailabilityImplemented`: the broker with the requests for entities implements the
  registry alone, whose theorems hold for it. `ProviderFoundAlways` (the registry stands
  still from the search to the answer), `ForwardedToProviderAlways`, and
  `AnsweredOnceAlways`, for updates of any length: what an element adds to the responses has
  one of three shapes (`ElementShape`), and the loop brings each to one response.
- **EntityAttributesProofs.** Lemmas: what `processContextAttributeVector` makes of any
  document and any number of request attributes. `Runs` describes a call as the sequence of
  its intermediate results; `RunIds`, `RunOthers`, `RunMetadata`, `RunValues`, `RunHolds`,
  `RunOnce`, `RunUnmodified`, `RunLocNamed` and `RunCoords` say what it keeps, stores and
  reports, each by induction over the attributes with a lemma on one of them.
- **UpdateContextProofs.** All five invariants of UpdateContext and two of EntityQueries, for
  any entities, any requests and any length of the attribute vectors.
  `OnlySelectedChangeAlways` rests on `SelectedInv`: the cursor holds selected entities, and
  what was changed so far was selected. `StatesInv` says of each entity that it is what it
  was, or what the request makes of it (`UpdatedDoc`, `NewEntity`); that documents not yet
  visited are as they were read; that a response accounts for the entity it is about
  (`Accounted`); and that the notifications follow a write. With the lemmas of
  EntityAttributesProofs it gives `IdsNotMixedAlways`, `OthersKeptAlways`,
  `ChangesNotifiedAlways`, `ResponseTrueAlways` and `AreaFollowsUpdateAlways`.
  `ResponseTrueAlways` is the subtle one: an entity found unmodified is not written, so the
  flag `actualUpdate` has to be right. It compares the number of the metadata and their
  values. That a metadata of the request is stored already follows by counting: an injection
  of the stored metadata into the merged ones that misses it contradicts the equal numbers
  (`UnmodifiedMetadata`).
  `AreaFollowsUpdateAlways` adds `LocInv`, that a location names an attribute. An attempt to
  prove the property for every attribute that no later one of the same name and ID follows
  failed: the location knows the name only, so that of two attributes of one name the last
  one gives the coordinates. The property says so now.
  `UpdatesAreReadAlways` compares the expressions for a path in an update and in a query. A
  path that ends in `#` is the exception that its proof found: only the query gives it a
  meaning.
- **RequestPartsProofs.** `PayloadOwnedAlways` and `FaultAnsweredAlways`, for any number of
  requests over a connection and any verbs, from `ConnInv`: what each call of
  `connectionTreat` leaves for the next one, and what of it the errors in the headers
  determine. The services that a URL leads to are those of the table, whatever the verb
  (`ServiceServes`). `PathsAgreeAlways`, for any components and any number of levels: the
  prefixes that `servicePathSubscriptionRegex` lists for a path are exactly the paths with
  `#` that cover it (`PrefixesCover`).

Some theorems have hypotheses on the requests, stated in them:

- `PathsApart` (the five theorems on `StatesInv`): no path of an entity is found by the query
  that writes another one. The query of `update()` has the path without anchors, so that an
  update of `/a` may be written to `/a/b` or `/ab`; what a response then says of `/a` is not
  what happened. The runs with one path, and any set of paths of which none is within
  another, satisfy it. `OnlySelectedChangeAlways` needs no such hypothesis: it says which
  entities such a write may reach.
- `MetadataOnce` (`ResponseTrueAlways`): no attribute of a request has two metadata of one
  name and type. `MetadataVector::check` does not look for them. With two, the number of the
  metadata may stay the same although one is new, and the counting fails. Every run
  satisfies it. `OnceInv`, that stored attributes have no two either, is inductive with
  `StatesInv`.

The assumptions on constants are the named `ASSUME`s of the modules: sets of natural
numbers, special values that are not members of the sets they extend (`None`, `NoType`,
`NoPath`), requests with the fields that the parser gives them, attribute names that are not
empty (`ContextAttribute::check` refuses those), and, for the process, tenants and database
names as sequences without the separator.

Most leaves name Zenon: it needs no translation of the whole context, which takes the SMT
backend longer the more leaves came before. SMT has the arithmetic, the sequences and the
records.

Only model-checked:

- the liveness properties, which rest on fairness;
- the properties of the parser, the routines, the messages and the senders (`ValuesBelong`,
  `AcceptedIsClean`, `FormatsAgree`, `RoutineReads`, `DocumentWellFormed`, `PeerAccepted`,
  `NothingKept`, `DeliveredAsAsked`). What they depend on are the tables of the code, which
  the runs have in full: there are no constants to generalise over, or the definitions are
  recursive operators over documents;
- `FederatedCopy` and `TypesListed`: they are about the order in which `SelectSeq` and the
  aggregation leave elements, of which the library states nothing;
- the violation runs.

## Not modelled

- MongoDB itself, beyond a call that succeeds or throws, an `update` that changes one
  document, and a cursor whose documents are those of the moment of the query. The batches
  that a cursor fetches outside `mongoSem`; the order of documents of the same date.
- libmicrohttpd, libcurl, libxml and boost, beyond how the code calls them.
- `transSem` and transaction ids, log lines, statistics, `present()` and `release()`.
- The characters of names, values, durations and dates: a check accepts or refuses a
  representative. The geometry of circles and polygons: an area is the set of the
  coordinates in it.
- Pages of queryContext (those of discovery and of the entity types are modelled).
- The tree of a compound value: it is well formed or not, and compared as a whole.
- Command line parsing (`parseArgs`): the options it leaves are the initial choice of
  BrokerProcess. The CoAP proxy, a separate program without shared state.

## Plan

1. `entitiesQuery`: pages and count, with entities created between two pages.
2. An atomic `updateContext` that UpdateContext implements, and a subscription with its set
   of timers that OntimeInterval implements.
3. Proof of `FederatedCopy` and `TypesListed`, with lemmas on `SelectSeq` and on pages.
4. The tree that `compoundValue` functions build, and its rendering.
