---------------------------- MODULE Notifications ---------------------------
(***************************************************************************)
(* The records of NGSI10 subscriptions and the notifications they cause:   *)
(* duration, throttling, lastNotification, count and service path of a     *)
(* csubs document, as subscribeContext, updateContextSubscription,         *)
(* unsubscribeContext, updateContext and the ONTIMEINTERVAL threads read   *)
(* and write them, with the clock running between any two steps.           *)
(*                                                                         *)
(* Requests are processed one at a time: reqSem is held from the first to  *)
(* the last step of a request, and an interval thread takes it for each of *)
(* its accesses (module OntimeInterval has the semaphore and the threads'  *)
(* creation and cancelation).  Each access of a thread is one step here,   *)
(* taken when reqSem is free.                                              *)
(***************************************************************************)
EXTENDS ServicePath

CONSTANTS
  Sub,           \* subscription ids
  IntervalSub,   \* the ones with an ONTIMEINTERVAL condition as well
  Throttling,    \* throttlings that requests ask for, in seconds
  Duration,      \* durations that requests ask for, in seconds
  RequestedPath, \* service paths of requests
  StartTime,     \* the clock when the broker starts
  MaxTime,       \* bound of the clock
  MaxCount,      \* bound of the notifications of one subscription
  None

ASSUME NotificationsAssumption ==
  /\ IntervalSub \subseteq Sub
  /\ Throttling \subseteq Nat
  /\ Duration \subseteq Nat
  /\ RequestedPath \subseteq RequestPath \cup {NoPath}
  /\ StartTime \in Nat /\ StartTime > 1
  /\ MaxTime \in Nat /\ MaxCount \in Nat
  /\ None \notin Sub /\ None \notin RequestedPath

VARIABLES
  now,      \* getCurrentTime()
  csubs,    \* collection csubs, by _id
  hpc,      \* what the request that holds reqSem does next
  target,   \* the subscription it works on
  newSub,   \* the document it is building for target
  notificationDone, \* a notification went out that the document must record
  servicePath,      \* the path of an updateContext request
  trigs,    \* its TriggeredSubscription map: throttling and lastNotification
  ipc,      \* what the ONTIMEINTERVAL thread of a subscription does next
  csi,      \* the thread's ContextSubscriptionInfo
  note,     \* history: the last notification of each subscription
  lost,     \* history: subscriptions whose last notification is not recorded
  scope     \* history: the path under which each subscription was made

vars ==
  <<now, csubs, hpc, target, newSub, notificationDone, servicePath, trigs, ipc, csi, note, lost, scope>>
handler == <<hpc, target, newSub, notificationDone, servicePath, trigs>>
threads == <<ipc, csi>>
history == <<note, lost, scope>>

Csub ==
  [expiration : Nat, throttling : Nat \cup {-1}, lastNotification : Nat \cup {-1},
   count : Nat, servicePath : RequestedPath \cup {NoPath}]

Trig == [throttling : Nat \cup {-1}, lastNotification : Nat \cup {-1}]

\* time and prev: when it and the one before it were sent (-1: never); by: who
\* sent it; throttling: of the subscription; recorded: was the one before it
\* recorded in the document?; path: of the update that caused it.
Note ==
  [time : Nat \cup {-1}, prev : Nat \cup {-1}, by : {"initial", "update", "interval"},
   throttling : Nat \cup {-1}, recorded : BOOLEAN, path : RequestedPath \cup {NoPath}]

\* Documents, snapshots and notifications keep their shape: a lastNotification is
\* absent (-1) or a time, never a value that the broker did not write.
TypeOK ==
  /\ now \in Nat
  /\ csubs \in [Sub -> Csub \cup {None}]
  /\ hpc \in {"idle", "insert", "write", "query", "process", "record"}
  /\ target \in Sub \cup {None}
  /\ newSub \in Csub \cup {None}
  /\ notificationDone \in BOOLEAN
  /\ servicePath \in RequestedPath \cup {NoPath}
  /\ trigs \in [Sub -> Trig \cup {None}]
  /\ ipc \in [Sub -> {"sleep", "check", "elements", "update", "send"}]
  /\ csi \in [Sub -> Csub \cup {None}]
  /\ note \in [Sub -> Note]
  /\ lost \in SUBSET Sub
  /\ scope \in [Sub -> RequestedPath \cup {NoPath, None}]

NoTrigs == [s \in Sub |-> None]

NeverNotified ==
  [time |-> -1, prev |-> -1, by |-> "initial", throttling |-> -1, recorded |-> TRUE, path |-> NoPath]

Init ==
  /\ now = StartTime
  /\ csubs = [s \in Sub |-> None]
  /\ hpc = "idle" /\ target = None /\ newSub = None /\ notificationDone = FALSE
  /\ servicePath = NoPath /\ trigs = NoTrigs
  /\ ipc = [s \in Sub |-> "sleep"]
  /\ csi = [s \in Sub |-> None]
  /\ note = [s \in Sub |-> NeverNotified]
  /\ lost = {}
  /\ scope = [s \in Sub |-> None]

\* sendNotifyContextRequest: the thread that delivers it is not modelled.
sendNotifyContextRequest(s, by, throttling, path) ==
  note' = [note EXCEPT ![s] = [time |-> now, prev |-> @.time, by |-> by, throttling |-> throttling,
                               recorded |-> s \notin lost, path |-> path]]

Release ==
  /\ hpc' = "idle" /\ target' = None /\ newSub' = None /\ notificationDone' = FALSE
  /\ servicePath' = NoPath /\ trigs' = NoTrigs

Tick == now < MaxTime /\ now' = now + 1 /\ UNCHANGED <<csubs, handler, threads, history>>

-----------------------------------------------------------------------------
(* subscribeContext, updateContextSubscription, unsubscribeContext.        *)

\* processConditionVector: an initial notification goes out at once if there is
\* data to send.
processConditionVector(s, throttling, path) ==
  \/ /\ sendNotifyContextRequest(s, "initial", throttling, path)
     /\ notificationDone' = TRUE
  \/ /\ notificationDone' = FALSE
     /\ UNCHANGED note

\* Up to the conditions: the document has its expiration, throttling and path.
mongoSubscribeContext(s, d, t, p) ==
  /\ hpc = "idle" /\ scope[s] = None
  /\ hpc' = "insert" /\ target' = s
  /\ newSub' = [expiration |-> now + d, throttling |-> t, lastNotification |-> -1, count |-> 0,
                servicePath |-> p]
  /\ processConditionVector(s, t, p)
  /\ scope' = [scope EXCEPT ![s] = p]
  /\ UNCHANGED <<now, csubs, servicePath, trigs, threads, lost>>

\* The notification is not noted down.
NotNoted == newSub

\* The end of the document: lastNotification and count.
NotedSub ==
  IF notificationDone
  THEN [newSub EXCEPT !.lastNotification = now, !.count = @ + 1]
  ELSE newSub

\* The insert, which may fail with an exception.
Insert ==
  /\ hpc = "insert"
  /\ \/ csubs' = [csubs EXCEPT ![target] = NotedSub]
     \/ UNCHANGED csubs
  /\ Release
  /\ UNCHANGED <<now, threads, history>>

\* The request keeps the throttling, removes it (0) or changes it; duration 0
\* stands for a request without one.  The document is built anew, and the
\* service path is not among the fields that are copied.
UpdatedSub(old, d, t) ==
  [old EXCEPT !.expiration = IF d = 0 THEN @ ELSE now + d,
              !.throttling = IF t = 0 THEN -1 ELSE IF t = -1 THEN @ ELSE t,
              !.servicePath = NoPath]

\* findOne and the new document; notifications go out only if the request has
\* new conditions.
mongoUpdateContextSubscription(s, d, t, p) ==
  /\ hpc = "idle" /\ csubs[s] # None
  /\ csubs[s].count < MaxCount
  /\ hpc' = "write" /\ target' = s
  /\ newSub' = UpdatedSub(csubs[s], d, t)
  /\ \/ processConditionVector(s, UpdatedSub(csubs[s], d, t).throttling, p)
     \/ notificationDone' = FALSE /\ UNCHANGED note
  /\ UNCHANGED <<now, csubs, servicePath, trigs, threads, lost, scope>>

\* update() with the whole document; the update may fail with an exception.
Write ==
  /\ hpc = "write"
  /\ \/ /\ csubs' = [csubs EXCEPT ![target] = NotedSub]
        /\ lost' = IF notificationDone THEN lost \ {target} ELSE lost
     \/ /\ lost' = IF notificationDone THEN lost \cup {target} ELSE lost
        /\ UNCHANGED csubs
  /\ Release
  /\ UNCHANGED <<now, threads, note, scope>>

mongoUnsubscribeContext(s) ==
  /\ hpc = "idle" /\ csubs[s] # None
  /\ csubs' = [csubs EXCEPT ![s] = None]
  /\ UNCHANGED <<now, handler, threads, history>>

-----------------------------------------------------------------------------
(* updateContext: the ONCHANGE subscriptions of the changed attributes.    *)

\* A request begins to process an entity.
mongoUpdateContext(p) ==
  /\ hpc = "idle"
  /\ hpc' = "query" /\ servicePath' = p
  /\ UNCHANGED <<now, csubs, target, newSub, notificationDone, trigs, threads, history>>

Snapshot(s) == [throttling |-> csubs[s].throttling, lastNotification |-> csubs[s].lastNotification]

\* The subscriptions to one changed attribute, D, are added to the map; the ones
\* that are there already stay as they are.  The query may fail: the entity is
\* then left alone and the map is emptied.
addTriggeredSubscriptions(D) ==
  /\ hpc = "query"
  /\ \A s \in D : /\ csubs[s] # None
                  /\ csubs[s].expiration > now
                  /\ csubs[s].count < MaxCount
                  /\ Triggers(servicePath, csubs[s].servicePath)
  /\ \/ /\ trigs' = [s \in Sub |-> IF s \in D /\ trigs[s] = None THEN Snapshot(s) ELSE trigs[s]]
        /\ hpc' \in {"query", "process"}
     \/ trigs' = NoTrigs /\ hpc' = "process"
  /\ UNCHANGED <<now, csubs, target, newSub, notificationDone, servicePath, threads, history>>

\* The throttling is not looked at.
NeverBlocked(t) == FALSE

\* The throttling check of processSubscriptions.
BlockedByThrottling(t) ==
  /\ t.throttling # 1 /\ t.lastNotification # 1
  /\ t.throttling > now - t.lastNotification

\* One subscription of the map: blocked, or nothing to send, or sent.
processSubscriptions(s) ==
  /\ hpc = "process" /\ trigs[s] # None
  /\ \/ /\ trigs' = [trigs EXCEPT ![s] = None]
        /\ UNCHANGED <<hpc, target, note>>
     \/ /\ ~BlockedByThrottling(trigs[s])
        /\ sendNotifyContextRequest(s, "update", trigs[s].throttling, servicePath)
        /\ hpc' = "record" /\ target' = s
        /\ UNCHANGED trigs
  /\ UNCHANGED <<now, csubs, newSub, notificationDone, servicePath, threads, lost, scope>>

Notified(doc) == [doc EXCEPT !.lastNotification = now, !.count = @ + 1]

\* The update() after the notification, which may fail with an exception.
Record ==
  /\ hpc = "record"
  /\ \/ csubs' = [csubs EXCEPT ![target] = Notified(@)] /\ lost' = lost \ {target}
     \/ UNCHANGED csubs /\ lost' = lost \cup {target}
  /\ trigs' = [trigs EXCEPT ![target] = None]
  /\ hpc' = "process" /\ target' = None
  /\ UNCHANGED <<now, newSub, notificationDone, servicePath, threads, note, scope>>

\* The next entity of the request, or its end.
EntityDone ==
  /\ hpc = "process" /\ trigs = NoTrigs
  /\ \/ hpc' = "query" /\ UNCHANGED <<target, newSub, notificationDone, servicePath, trigs>>
     \/ Release
  /\ UNCHANGED <<now, csubs, threads, history>>

-----------------------------------------------------------------------------
(* doNotification, one thread per subscription of IntervalSub.             *)

ThreadGoto(s, pc) == ipc' = [ipc EXCEPT ![s] = pc] /\ UNCHANGED csi

\* The end of a round: csi is a local variable of doNotification.
RoundDone(s) == ipc' = [ipc EXCEPT ![s] = "sleep"] /\ csi' = [csi EXCEPT ![s] = None]

\* The document is read.  A round that finds none, or meets an exception, sends
\* nothing and writes nothing: it is left out.
mongoGetContextSubscriptionInfo(s) ==
  /\ hpc = "idle" /\ ipc[s] = "sleep" /\ csubs[s] # None
  /\ csubs[s].count < MaxCount
  /\ csi' = [csi EXCEPT ![s] = csubs[s]]
  /\ ipc' = [ipc EXCEPT ![s] = "check"]
  /\ UNCHANGED <<now, csubs, handler, history>>

\* The checks, made on what was read, without the semaphore.
CheckExpirationAndThrottling(s) ==
  /\ ipc[s] = "check"
  /\ IF /\ now < csi[s].expiration
        /\ \/ csi[s].throttling < 0 \/ csi[s].lastNotification < 0
           \/ csi[s].lastNotification + csi[s].throttling < now
     THEN ThreadGoto(s, "elements")
     ELSE RoundDone(s)
  /\ UNCHANGED <<now, csubs, handler, history>>

\* The entities are queried; there may be none.
mongoGetContextElementResponses(s) ==
  /\ hpc = "idle" /\ ipc[s] = "elements"
  /\ ThreadGoto(s, "update") \/ RoundDone(s)
  /\ UNCHANGED <<now, csubs, handler, history>>

\* The update takes place in the middle of a request.
UpdateWithoutReqSem(s) ==
  /\ ipc[s] = "update"
  /\ csubs' = IF csubs[s] = None THEN csubs ELSE [csubs EXCEPT ![s] = Notified(@)]
  /\ ThreadGoto(s, "send")
  /\ UNCHANGED <<now, handler, history>>

\* The document is updated before the notification is sent; an exception ends
\* the round without it.
mongoUpdateCsubNewNotification(s) ==
  /\ hpc = "idle" /\ ipc[s] = "update"
  /\ \/ /\ csubs' = IF csubs[s] = None THEN csubs ELSE [csubs EXCEPT ![s] = Notified(@)]
        /\ ThreadGoto(s, "send")
     \/ RoundDone(s) /\ UNCHANGED csubs
  /\ UNCHANGED <<now, handler, history>>

SendByThread(s) ==
  /\ ipc[s] = "send"
  /\ sendNotifyContextRequest(s, "interval", csi[s].throttling, NoPath)
  /\ RoundDone(s)
  /\ UNCHANGED <<now, csubs, handler, lost, scope>>

\* A crash and the restart: only the collection survives.
Crash ==
  /\ Release
  /\ ipc' = [s \in Sub |-> "sleep"]
  /\ csi' = [s \in Sub |-> None]
  /\ lost' = IF hpc = "record" \/ notificationDone THEN lost \cup {target} ELSE lost
  /\ UNCHANGED <<now, csubs, note, scope>>

-----------------------------------------------------------------------------
SubscriptionRequest ==
  \E s \in Sub :
    \/ \E d \in Duration, t \in Throttling \cup {-1}, p \in RequestedPath :
         \/ mongoSubscribeContext(s, d, t, p)
         \/ mongoUpdateContextSubscription(s, d, t, p)
         \/ mongoUpdateContextSubscription(s, 0, t, p)
    \/ mongoUnsubscribeContext(s)

UpdateRequest ==
  \/ \E p \in RequestedPath : mongoUpdateContext(p)
  \/ \E D \in SUBSET Sub : addTriggeredSubscriptions(D)
  \/ \E s \in Sub : processSubscriptions(s)
  \/ Record \/ EntityDone

doNotification(s) ==
  \/ mongoGetContextSubscriptionInfo(s) \/ CheckExpirationAndThrottling(s)
  \/ mongoGetContextElementResponses(s) \/ mongoUpdateCsubNewNotification(s)
  \/ SendByThread(s)

Next ==
  \/ Tick \/ Crash
  \/ SubscriptionRequest \/ Insert \/ Write
  \/ UpdateRequest
  \/ \E s \in IntervalSub : doNotification(s)

Spec == Init /\ [][Next]_vars

-----------------------------------------------------------------------------
(* Properties.                                                             *)

Recorded(n) == n.recorded /\ n.prev # -1

\* When no request is working on a subscription, its document's lastNotification
\* is not earlier than the last notification sent, unless the database refused
\* the record or the broker crashed before it (processSubscriptions sends first
\* and records afterwards; the subscription requests write it with the document).
LastNotificationCurrent ==
  \A s \in Sub \ IntervalSub :
    csubs[s] # None /\ s \notin lost /\ target # s
      => note[s].time <= csubs[s].lastNotification

\* Two notifications of a subscription are a throttling interval apart if the
\* second one is caused by an update of an entity (processSubscriptions), for
\* subscriptions without interval threads, throttlings other than one second and
\* notifications that could be recorded. (The check is skipped for throttling = 1,
\* where -1, no throttling, seems to be meant.)
OnChangeThrottled ==
  \A s \in Sub \ IntervalSub :
    LET n == note[s]
    IN  n.by = "update" /\ Recorded(n) /\ n.throttling # 1 => n.time - n.prev >= n.throttling

\* The records of notifications are never taken back: updateContextSubscription
\* writes a document that it built from an older read, and loses neither a count
\* nor a lastNotification that a thread or another request has stored meanwhile.
RecordsKept ==
  [][\A s \in Sub : csubs[s] # None /\ csubs'[s] # None
       => /\ csubs'[s].count >= csubs[s].count
          /\ csubs'[s].lastNotification >= csubs[s].lastNotification]_vars

\* "Service-Path is taken into account in ngsi10 subscriptions" (changelog): the
\* updates that cause notifications are the ones under the path of the
\* subscription.
ScopeKept ==
  \A s \in Sub : note[s].by = "update" => Triggers(note[s].path, scope[s])

=============================================================================
