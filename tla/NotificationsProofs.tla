------------------------ MODULE NotificationsProofs -------------------------
(***************************************************************************)
(* Proofs about Notifications, for any set of subscriptions, throttlings,  *)
(* durations and paths, and for any bound of the clock and the counts.     *)
(*                                                                         *)
(* While a request holds reqSem nobody else writes the documents, so the   *)
(* copies it works on stay current: the document that an update request    *)
(* builds (HandlerOK) and the TriggeredSubscription map (TrigsOK).  With   *)
(* LastNotificationCurrent, the throttling check of processSubscriptions   *)
(* then compares with the last notification that was really sent.          *)
(***************************************************************************)
EXTENDS Notifications, TLAPS

-----------------------------------------------------------------------------
(* The invariant, and the requests for subscriptions.                      *)

\* Nothing lies in the future, and a lastNotification is never the 1 that the
\* throttling check takes for "none".
TimeOK ==
  /\ now >= StartTime
  /\ \A s \in Sub : note[s].time <= now
  /\ \A s \in Sub : csubs[s] # None
       => csubs[s].lastNotification = -1 \/ csubs[s].lastNotification \in StartTime .. now

\* The state of the request in progress.
HandlerOK ==
  /\ hpc \in {"insert", "write", "record"} => target \in Sub
  /\ hpc \notin {"insert", "write", "record"} => target = None
  /\ notificationDone => hpc \in {"insert", "write"}
  /\ hpc = "insert" =>
       /\ newSub \in Csub
       /\ newSub.lastNotification = -1
       /\ csubs[target] = None
       /\ target \notin IntervalSub /\ ~notificationDone => note[target].time = -1
  /\ hpc = "write" =>
       /\ newSub \in Csub
       /\ csubs[target] # None
       /\ newSub.lastNotification = csubs[target].lastNotification
       /\ newSub.count = csubs[target].count
       /\ target \notin IntervalSub \cup lost /\ ~notificationDone
            => note[target].time <= csubs[target].lastNotification
  /\ hpc = "record" => csubs[target] # None

\* An id that was not given out yet has no document and no notification.
FreshOK ==
  \A s \in Sub : scope[s] = None
    => /\ csubs[s] = None
       /\ s \notin IntervalSub => note[s].time = -1
       /\ hpc = "insert" => target # s

\* The map holds what the documents say.
TrigsOK ==
  \A s \in Sub : trigs[s] # None
    => /\ hpc \in {"query", "process", "record"}
       /\ csubs[s] # None
       /\ trigs[s] = Snapshot(s)

\* The interval thread has read a document before it works on it.
CsiOK == \A s \in Sub : ipc[s] # "sleep" => csi[s] \in Csub

Inv ==
  /\ TypeOK /\ CsiOK /\ TimeOK /\ HandlerOK /\ FreshOK /\ TrigsOK
  /\ LastNotificationCurrent /\ OnChangeThrottled

-----------------------------------------------------------------------------

\* A broker that has just started, without subscriptions, satisfies the invariant.
LEMMA InitInv == Init => Inv
<1> SUFFICES ASSUME Init PROVE Inv
  BY Zenon
<1> USE NotificationsAssumption DEF Init
<1>1. TypeOK
  BY Zenon DEF TypeOK, Csub, Trig, Note, NoTrigs, NeverNotified
<1>2. CsiOK /\ TimeOK /\ HandlerOK /\ FreshOK /\ TrigsOK
  BY DEF CsiOK, TimeOK, HandlerOK, FreshOK, TrigsOK, NoTrigs, NeverNotified
<1>3. LastNotificationCurrent /\ OnChangeThrottled
  BY Zenon DEF LastNotificationCurrent, OnChangeThrottled, NeverNotified, Recorded
<1> QED
  BY <1>1, <1>2, <1>3, Zenon DEF Inv

\* The documents that the requests build are documents.
LEMMA NotifiedType ==
  ASSUME NEW doc \in Csub, now \in Nat
  PROVE  /\ Notified(doc) \in Csub
         /\ Notified(doc).lastNotification = now
         /\ Notified(doc).count = doc.count + 1
<1> DEFINE a == [doc EXCEPT !.lastNotification = now]
<1>1. a \in Csub /\ a.count = doc.count /\ a.count \in Nat
  BY Zenon DEF Csub
<1>2. Notified(doc) = [a EXCEPT !.count = a.count + 1]
  BY Zenon DEF Notified
<1> HIDE DEF a
<1>3. [a EXCEPT !.count = a.count + 1] \in Csub
  BY <1>1 DEF Csub
<1>4. Notified(doc).lastNotification = now /\ Notified(doc).count = doc.count + 1
  BY Zenon DEF Notified, Csub
<1> QED
  BY <1>2, <1>3, <1>4, Zenon

\* The document with the initial notification noted (Insert, Write) is a document.
LEMMA NotedSubType ==
  ASSUME newSub \in Csub, now \in Nat
  PROVE  /\ NotedSub \in Csub
         /\ notificationDone => NotedSub.lastNotification = now /\ NotedSub.count = newSub.count + 1
         /\ ~notificationDone => NotedSub = newSub
<1>1. NotedSub = IF notificationDone THEN Notified(newSub) ELSE newSub
  BY Zenon DEF NotedSub, Notified
<1> QED
  BY <1>1, NotifiedType, Zenon

\* The document that mongoUpdateContextSubscription builds keeps count and lastNotification.
LEMMA UpdatedSubType ==
  ASSUME NEW old \in Csub, NEW d \in Nat, NEW t \in Nat \cup {-1}, now \in Nat
  PROVE  /\ UpdatedSub(old, d, t) \in Csub
         /\ UpdatedSub(old, d, t).throttling \in Nat \cup {-1}
         /\ UpdatedSub(old, d, t).lastNotification = old.lastNotification
         /\ UpdatedSub(old, d, t).count = old.count
<1> DEFINE e == IF d = 0 THEN old.expiration ELSE now + d
           u == IF t = 0 THEN -1 ELSE IF t = -1 THEN old.throttling ELSE t
           a == [old EXCEPT !.expiration = e]
           b == [a EXCEPT !.throttling = u]
           c == [b EXCEPT !.servicePath = NoPath]
<1>1. e \in Nat /\ u \in Nat \cup {-1}
  BY DEF Csub
<1>2. UpdatedSub(old, d, t) = c
  BY Zenon DEF UpdatedSub, Csub
<1> HIDE DEF e, u
<1>3. /\ a \in Csub
      /\ a.lastNotification = old.lastNotification /\ a.count = old.count
  BY <1>1, Zenon DEF Csub
<1> HIDE DEF a
<1>4. /\ b \in Csub
      /\ b.lastNotification = a.lastNotification /\ b.count = a.count
  BY <1>1, <1>3, Zenon DEF Csub
<1> HIDE DEF b
<1>5. /\ c \in Csub /\ c.throttling \in Nat \cup {-1}
      /\ c.lastNotification = b.lastNotification /\ c.count = b.count
  BY <1>4, Zenon DEF Csub
<1> QED
  BY <1>2, <1>3, <1>4, <1>5, Zenon

\* A notification is the last one of its subscription, and of no other.
LEMMA SendType ==
  ASSUME NEW s \in Sub, NEW by \in {"initial", "update", "interval"}, NEW t \in Nat \cup {-1},
         NEW p \in RequestedPath \cup {NoPath}, note \in [Sub -> Note], now \in Nat,
         sendNotifyContextRequest(s, by, t, p)
  PROVE  /\ note' \in [Sub -> Note]
         /\ note'[s].time = now /\ note'[s].prev = note[s].time /\ note'[s].by = by
         /\ note'[s].throttling = t /\ note'[s].recorded = (s \notin lost)
         /\ \A u \in Sub \ {s} : note'[u] = note[u]
<1>1. note' = [note EXCEPT ![s] = [time |-> now, prev |-> note[s].time, by |-> by,
                                   throttling |-> t, recorded |-> s \notin lost, path |-> p]]
  BY Zenon DEF sendNotifyContextRequest
<1>2. note[s] \in Note
  BY Zenon
<1>3. (s \notin lost) \in BOOLEAN
  BY Zenon
<1>4. [time |-> now, prev |-> note[s].time, by |-> by, throttling |-> t,
       recorded |-> s \notin lost, path |-> p] \in Note
  BY <1>2, <1>3, Zenon DEF Note
<1> QED
  BY <1>1, <1>4, Zenon

\* processConditionVector notifies at most the subscription it works on.
LEMMA ConditionsType ==
  ASSUME NEW s \in Sub, NEW t \in Nat \cup {-1}, NEW p \in RequestedPath,
         note \in [Sub -> Note], now \in Nat,
         \/ processConditionVector(s, t, p)
         \/ notificationDone' = FALSE /\ UNCHANGED note
  PROVE  /\ note' \in [Sub -> Note]
         /\ notificationDone' \in BOOLEAN
         /\ notificationDone' => note'[s].time = now /\ note'[s].by = "initial"
         /\ ~notificationDone' => note' = note
         /\ \A u \in Sub \ {s} : note'[u] = note[u]
<1>1. CASE sendNotifyContextRequest(s, "initial", t, p) /\ notificationDone' = TRUE
  <2>1. /\ note' \in [Sub -> Note]
        /\ note'[s].time = now /\ note'[s].by = "initial"
        /\ \A u \in Sub \ {s} : note'[u] = note[u]
    BY <1>1, SendType, Zenon
  <2> QED
    BY <1>1, <2>1, Zenon
<1>2. CASE notificationDone' = FALSE /\ UNCHANGED note
  BY <1>2, Zenon
<1> QED
  BY <1>1, <1>2, Zenon DEF processConditionVector

\* The steps of a request that only move it on, and the clock.
LEMMA QuietInv ==
  ASSUME Inv,
         \/ Tick \/ Crash
         \/ \E p \in RequestedPath : mongoUpdateContext(p)
         \/ \E D \in SUBSET Sub : addTriggeredSubscriptions(D)
         \/ EntityDone
         \/ \E s \in Sub : mongoUnsubscribeContext(s)
  PROVE  Inv'
<1> USE NotificationsAssumption DEF Inv, handler, threads, history
<1>1. CASE Tick
  <2> USE <1>1 DEF Tick
  <2>1. TypeOK' /\ CsiOK'
    BY DEF TypeOK, CsiOK
  <2>2. TimeOK'
    <3>1. \A s \in Sub : note[s].time \in Int
      BY DEF TypeOK, Note
    <3>2. now \in Nat /\ now' = now + 1
      BY Zenon DEF TypeOK
    <3> QED
      BY <3>1, <3>2 DEF TimeOK
  <2>3. HandlerOK' /\ FreshOK' /\ TrigsOK'
    BY Zenon DEF HandlerOK, FreshOK, TrigsOK, Snapshot
  <2>4. LastNotificationCurrent' /\ OnChangeThrottled'
    BY Zenon DEF LastNotificationCurrent, OnChangeThrottled, Recorded
  <2> QED
    BY <2>1, <2>2, <2>3, <2>4, Zenon
<1>2. CASE Crash
  <2> USE <1>2 DEF Crash, Release, NoTrigs
  <2>1. TypeOK'
    BY Zenon DEF TypeOK, HandlerOK
  <2>2. CsiOK' /\ TimeOK' /\ HandlerOK' /\ FreshOK' /\ TrigsOK'
    BY Zenon DEF TypeOK, CsiOK, TimeOK, HandlerOK, FreshOK, TrigsOK
  <2>3. LastNotificationCurrent'
    <3> SUFFICES ASSUME NEW s \in Sub \ IntervalSub, csubs[s] # None, s \notin lost'
                 PROVE  note[s].time <= csubs[s].lastNotification
      BY Zenon DEF LastNotificationCurrent
    <3>1. s \notin lost /\ (target = s => hpc # "record" /\ ~notificationDone)
      BY Zenon
    <3>2. CASE target # s
      BY <3>1, <3>2, Zenon DEF LastNotificationCurrent
    <3>3. CASE target = s
      BY <3>1, <3>3, Zenon DEF HandlerOK
    <3> QED
      BY <3>2, <3>3, Zenon
  <2>4. OnChangeThrottled'
    BY Zenon DEF OnChangeThrottled, Recorded
  <2> QED
    BY <2>1, <2>2, <2>3, <2>4, Zenon
<1>3. CASE \E p \in RequestedPath : mongoUpdateContext(p)
  <2> USE <1>3 DEF mongoUpdateContext
  <2>1. TypeOK' /\ CsiOK' /\ TimeOK'
    BY DEF TypeOK, CsiOK, TimeOK
  <2>2. HandlerOK' /\ FreshOK' /\ TrigsOK'
    BY DEF HandlerOK, FreshOK, TrigsOK, Snapshot
  <2>3. LastNotificationCurrent' /\ OnChangeThrottled'
    BY Zenon DEF LastNotificationCurrent, OnChangeThrottled, Recorded
  <2> QED
    BY <2>1, <2>2, <2>3, Zenon
<1>4. CASE \E D \in SUBSET Sub : addTriggeredSubscriptions(D)
  <2> PICK D \in SUBSET Sub : addTriggeredSubscriptions(D)
    BY <1>4, Zenon
  <2> USE DEF addTriggeredSubscriptions, NoTrigs
  <2>1. \A s \in D : Snapshot(s) \in Trig
    BY Zenon DEF TypeOK, Snapshot, Csub, Trig
  <2>2. TypeOK'
    BY <2>1 DEF TypeOK
  <2>3. CsiOK' /\ TimeOK' /\ HandlerOK' /\ FreshOK'
    BY Zenon DEF CsiOK, TimeOK, HandlerOK, FreshOK
  <2>4. TrigsOK'
    BY Zenon DEF TrigsOK, Snapshot
  <2>5. LastNotificationCurrent' /\ OnChangeThrottled'
    BY Zenon DEF LastNotificationCurrent, OnChangeThrottled, Recorded
  <2> QED
    BY <2>2, <2>3, <2>4, <2>5, Zenon
<1>5. CASE EntityDone
  <2> USE <1>5 DEF EntityDone, Release, NoTrigs
  <2>1. target = None
    BY Zenon DEF HandlerOK
  <2>2. TypeOK' /\ CsiOK' /\ TimeOK'
    BY Zenon DEF TypeOK, CsiOK, TimeOK
  <2>3. HandlerOK' /\ FreshOK' /\ TrigsOK'
    BY <2>1 DEF HandlerOK, FreshOK, TrigsOK
  <2>4. LastNotificationCurrent' /\ OnChangeThrottled'
    BY <2>1, Zenon DEF LastNotificationCurrent, OnChangeThrottled, Recorded
  <2> QED
    BY <2>2, <2>3, <2>4, Zenon
<1>6. CASE \E s \in Sub : mongoUnsubscribeContext(s)
  <2> PICK s \in Sub : mongoUnsubscribeContext(s)
    BY <1>6, Zenon
  <2> USE DEF mongoUnsubscribeContext
  <2>1. TypeOK' /\ CsiOK' /\ TimeOK'
    BY ZenonT(30) DEF TypeOK, CsiOK, TimeOK
  <2>2. HandlerOK' /\ FreshOK' /\ TrigsOK'
    BY DEF TypeOK, HandlerOK, FreshOK, TrigsOK
  <2>3. LastNotificationCurrent' /\ OnChangeThrottled'
    BY ZenonT(30) DEF TypeOK, LastNotificationCurrent, OnChangeThrottled, Recorded
  <2> QED
    BY <2>1, <2>2, <2>3, Zenon
<1> QED
  BY <1>1, <1>2, <1>3, <1>4, <1>5, <1>6, Zenon

\* subscribeContext and updateContextSubscription up to the conditions.
LEMMA SubscribeInv ==
  ASSUME Inv, NEW s \in Sub, NEW d \in Duration, NEW t \in Throttling \cup {-1},
         NEW p \in RequestedPath, mongoSubscribeContext(s, d, t, p)
  PROVE  Inv'
<1> USE NotificationsAssumption DEF Inv, threads
<1>1. newSub' \in Csub /\ newSub'.lastNotification = -1
  <2>1. now + d \in Nat /\ t \in Nat \cup {-1} /\ p \in RequestedPath \cup {NoPath}
    BY DEF TypeOK
  <2>2. newSub' = [expiration |-> now + d, throttling |-> t, lastNotification |-> -1, count |-> 0,
                   servicePath |-> p]
    BY Zenon DEF mongoSubscribeContext
  <2> QED
    BY <2>1, <2>2, Zenon DEF Csub
<1>2. /\ note' \in [Sub -> Note]
      /\ notificationDone' \in BOOLEAN
      /\ notificationDone' => note'[s].time = now /\ note'[s].by = "initial"
      /\ ~notificationDone' => note' = note
      /\ \A u \in Sub \ {s} : note'[u] = note[u]
  <2>1. t \in Nat \cup {-1} /\ note \in [Sub -> Note] /\ now \in Nat
    BY Zenon DEF TypeOK
  <2>2. processConditionVector(s, t, p)
    BY Zenon DEF mongoSubscribeContext
  <2> QED
    BY <2>1, <2>2, ConditionsType, Zenon
<1>3. /\ hpc = "idle" /\ hpc' = "insert" /\ target = None /\ target' = s
      /\ scope[s] = None /\ csubs[s] = None /\ (s \notin IntervalSub => note[s].time = -1)
      /\ scope' = [scope EXCEPT ![s] = p]
      /\ UNCHANGED <<now, csubs, servicePath, trigs, ipc, csi, lost>>
      /\ trigs = NoTrigs
  BY Zenon DEF mongoSubscribeContext, HandlerOK, FreshOK, TrigsOK, NoTrigs, TypeOK
<1>4. TypeOK' /\ CsiOK'
  BY <1>1, <1>2, <1>3, Zenon DEF TypeOK, CsiOK
<1>5. TimeOK'
  BY <1>2, <1>3 DEF TimeOK, TypeOK
<1>6. HandlerOK'
  BY <1>1, <1>2, <1>3, Zenon DEF HandlerOK
<1>7. FreshOK' /\ TrigsOK'
  BY <1>2, <1>3 DEF FreshOK, TrigsOK, NoTrigs, TypeOK
<1>8. LastNotificationCurrent'
  BY <1>2, <1>3, Zenon DEF LastNotificationCurrent
<1>9. OnChangeThrottled'
  BY <1>2, Zenon DEF OnChangeThrottled, Recorded
<1> QED
  BY <1>4, <1>5, <1>6, <1>7, <1>8, <1>9, Zenon

\* mongoUpdateContextSubscription up to the write keeps the invariant.
LEMMA UpdateSubscriptionInv ==
  ASSUME Inv, NEW s \in Sub, NEW d \in Nat, NEW t \in Throttling \cup {-1},
         NEW p \in RequestedPath, mongoUpdateContextSubscription(s, d, t, p)
  PROVE  Inv'
<1> USE NotificationsAssumption DEF Inv, threads
<1>1. csubs[s] \in Csub /\ t \in Nat \cup {-1} /\ now \in Nat /\ note \in [Sub -> Note]
  BY Zenon DEF mongoUpdateContextSubscription, TypeOK
<1>2. /\ newSub' \in Csub
      /\ newSub'.lastNotification = csubs[s].lastNotification
      /\ newSub'.count = csubs[s].count
      /\ UpdatedSub(csubs[s], d, t).throttling \in Nat \cup {-1}
  <2>1. newSub' = UpdatedSub(csubs[s], d, t)
    BY Zenon DEF mongoUpdateContextSubscription
  <2> QED
    BY <1>1, <2>1, UpdatedSubType
<1>3. /\ note' \in [Sub -> Note]
      /\ notificationDone' \in BOOLEAN
      /\ notificationDone' => note'[s].time = now /\ note'[s].by = "initial"
      /\ ~notificationDone' => note' = note
      /\ \A u \in Sub \ {s} : note'[u] = note[u]
  <2>1. \/ processConditionVector(s, UpdatedSub(csubs[s], d, t).throttling, p)
        \/ notificationDone' = FALSE /\ UNCHANGED note
    BY Zenon DEF mongoUpdateContextSubscription
  <2> QED
    BY <1>1, <1>2, <2>1, ConditionsType, Zenon
<1>4. /\ hpc = "idle" /\ hpc' = "write" /\ target = None /\ target' = s /\ csubs[s] # None
      /\ UNCHANGED <<now, csubs, servicePath, trigs, ipc, csi, lost, scope>>
      /\ trigs = NoTrigs
  BY Zenon DEF mongoUpdateContextSubscription, HandlerOK, TrigsOK, NoTrigs, TypeOK
<1>5. TypeOK' /\ CsiOK'
  BY <1>2, <1>3, <1>4, Zenon DEF TypeOK, CsiOK
<1>6. TimeOK'
  <2>1. \A u \in Sub : note'[u].time = now \/ note'[u] = note[u]
    BY <1>3, Zenon
  <2> HIDE DEF Inv
  <2>2. TimeOK
    BY Zenon DEF Inv
  <2> QED
    BY <1>1, <1>4, <2>1, <2>2 DEF TimeOK
<1>7. HandlerOK'
  BY <1>2, <1>3, <1>4, Zenon DEF HandlerOK, LastNotificationCurrent
<1>8. FreshOK' /\ TrigsOK'
  BY <1>3, <1>4, Zenon DEF FreshOK, TrigsOK, NoTrigs
<1>9. LastNotificationCurrent'
  BY <1>3, <1>4, Zenon DEF LastNotificationCurrent
<1>10. OnChangeThrottled'
  BY <1>3, Zenon DEF OnChangeThrottled, Recorded
<1> QED
  BY <1>5, <1>6, <1>7, <1>8, <1>9, <1>10, Zenon

\* The writes of the documents that subscription requests have built.
LEMMA InsertInv ==
  ASSUME Inv, Insert
  PROVE  Inv'
<1> USE NotificationsAssumption DEF Inv, Insert, Release, threads, history
<1>1. /\ target \in Sub /\ newSub \in Csub /\ now \in Nat /\ newSub.lastNotification = -1
      /\ csubs[target] = None /\ trigs' = NoTrigs
      /\ target \notin IntervalSub /\ ~notificationDone => note[target].time = -1
  BY Zenon DEF HandlerOK, TypeOK
<1>2. /\ NotedSub \in Csub
      /\ notificationDone => NotedSub.lastNotification = now
      /\ ~notificationDone => NotedSub.lastNotification = -1
  BY <1>1, NotedSubType, Zenon
<1>3. TypeOK' /\ CsiOK'
  <2>1. csubs' \in [Sub -> Csub \cup {None}]
    BY <1>1, <1>2 DEF TypeOK
  <2>2. trigs' \in [Sub -> Trig \cup {None}]
    BY Zenon DEF NoTrigs
  <2> QED
    BY <1>1, <2>1, <2>2, Zenon DEF TypeOK, CsiOK
<1>4. TimeOK'
  BY <1>1, <1>2 DEF TimeOK, TypeOK
<1>5. scope[target] # None
  BY <1>1, Zenon DEF FreshOK
<1>6. HandlerOK' /\ FreshOK' /\ TrigsOK'
  BY <1>1, <1>5 DEF HandlerOK, FreshOK, TrigsOK, NoTrigs, TypeOK
<1>7. LastNotificationCurrent'
  <2> SUFFICES ASSUME NEW s \in Sub \ IntervalSub, csubs'[s] # None, s \notin lost
               PROVE  note[s].time <= csubs'[s].lastNotification
    BY Zenon DEF LastNotificationCurrent
  <2>1. CASE s # target
    BY <1>1, <2>1, Zenon DEF LastNotificationCurrent, TypeOK
  <2>2. CASE s = target
    BY <1>1, <1>2, <2>2 DEF TypeOK, TimeOK
  <2> QED
    BY <2>1, <2>2, Zenon
<1>8. OnChangeThrottled'
  BY Zenon DEF OnChangeThrottled, Recorded
<1> QED
  BY <1>3, <1>4, <1>6, <1>7, <1>8, Zenon

\* The write of mongoUpdateContextSubscription keeps the invariant.
LEMMA WriteInv ==
  ASSUME Inv, Write
  PROVE  Inv'
<1> USE NotificationsAssumption DEF Inv, Write, Release, threads
<1>1. /\ target \in Sub /\ newSub \in Csub /\ now \in Nat /\ csubs[target] # None
      /\ newSub.lastNotification = csubs[target].lastNotification
      /\ target \notin IntervalSub \cup lost /\ ~notificationDone
           => note[target].time <= csubs[target].lastNotification
  BY Zenon DEF HandlerOK, TypeOK
<1>2. /\ NotedSub \in Csub
      /\ notificationDone => NotedSub.lastNotification = now
      /\ ~notificationDone => NotedSub.lastNotification = csubs[target].lastNotification
  BY <1>1, NotedSubType, Zenon
<1>3. TypeOK' /\ CsiOK'
  <2>1. csubs' \in [Sub -> Csub \cup {None}]
    BY <1>1, <1>2 DEF TypeOK
  <2>2. trigs' \in [Sub -> Trig \cup {None}]
    BY Zenon DEF NoTrigs
  <2> QED
    BY <1>1, <2>1, <2>2, Zenon DEF TypeOK, CsiOK
<1>4. TimeOK'
  BY <1>1, <1>2 DEF TimeOK, TypeOK
<1>5. HandlerOK' /\ FreshOK' /\ TrigsOK'
  BY <1>1, Zenon DEF HandlerOK, FreshOK, TrigsOK, NoTrigs, TypeOK
<1>6. LastNotificationCurrent'
  <2> SUFFICES ASSUME NEW s \in Sub \ IntervalSub, csubs'[s] # None, s \notin lost'
               PROVE  note[s].time <= csubs'[s].lastNotification
    BY Zenon DEF LastNotificationCurrent
  <2>1. CASE s # target
    BY <1>1, <2>1, Zenon DEF LastNotificationCurrent, TypeOK
  <2>2. CASE s = target
    BY <1>1, <1>2, <2>2 DEF TypeOK, TimeOK
  <2> QED
    BY <2>1, <2>2, Zenon
<1>7. OnChangeThrottled'
  BY Zenon DEF OnChangeThrottled, Recorded
<1> QED
  BY <1>3, <1>4, <1>5, <1>6, <1>7, Zenon

-----------------------------------------------------------------------------
(* The updates of entities, the interval threads, and the theorems.        *)


\* One subscription of the map: the notification that is sent respects the
\* throttling, because the map agrees with the document and the document with
\* the last notification.
LEMMA ProcessInv ==
  ASSUME Inv, NEW s \in Sub, processSubscriptions(s)
  PROVE  Inv'
<1> USE NotificationsAssumption DEF Inv, threads
<1>1. CASE trigs' = [trigs EXCEPT ![s] = None] /\ UNCHANGED <<hpc, target, note>>
  <2> USE <1>1 DEF processSubscriptions
  <2>1. UNCHANGED <<now, csubs, newSub, notificationDone, servicePath, ipc, csi, lost, scope>>
    BY Zenon
  <2>2. TypeOK' /\ CsiOK' /\ TimeOK'
    BY <2>1, SMTT(20) DEF TypeOK, CsiOK, TimeOK
  <2>3. HandlerOK' /\ FreshOK'
    BY <2>1 DEF HandlerOK, FreshOK
  <2>4. TrigsOK'
    BY <2>1, Zenon DEF TrigsOK, Snapshot, TypeOK
  <2>5. LastNotificationCurrent' /\ OnChangeThrottled'
    BY <2>1, Zenon DEF LastNotificationCurrent, OnChangeThrottled, Recorded
  <2> QED
    BY <2>2, <2>3, <2>4, <2>5, Zenon
<1>2. CASE /\ ~BlockedByThrottling(trigs[s])
           /\ sendNotifyContextRequest(s, "update", trigs[s].throttling, servicePath)
           /\ hpc' = "record" /\ target' = s
           /\ UNCHANGED trigs
  <2>1. /\ hpc = "process" /\ target = None /\ csubs[s] # None /\ csubs[s] \in Csub
        /\ trigs[s] = Snapshot(s) /\ trigs[s] # None /\ now \in Nat
        /\ UNCHANGED <<now, csubs, newSub, notificationDone, servicePath, ipc, csi, lost, scope, trigs>>
    BY <1>2, Zenon DEF processSubscriptions, HandlerOK, TrigsOK, TypeOK
  <2>2. /\ trigs[s].throttling \in Nat \cup {-1}
        /\ trigs[s].lastNotification = csubs[s].lastNotification
        /\ csubs[s].lastNotification \in Nat \cup {-1}
    BY <2>1 DEF Snapshot, Csub
  <2>3. /\ note' \in [Sub -> Note]
        /\ note'[s].time = now /\ note'[s].prev = note[s].time /\ note'[s].by = "update"
        /\ note'[s].throttling = trigs[s].throttling /\ note'[s].recorded = (s \notin lost)
        /\ \A u \in Sub \ {s} : note'[u] = note[u]
    <3>1. servicePath \in RequestedPath \cup {NoPath} /\ note \in [Sub -> Note]
      BY Zenon DEF TypeOK
    <3> QED
      BY <1>2, <2>1, <2>2, <3>1, SendType, Zenon
  <2>4. TypeOK' /\ CsiOK'
    BY <1>2, <2>1, <2>3, Zenon DEF TypeOK, CsiOK
  <2>5. TimeOK'
    BY <2>1, <2>3, SMTT(20) DEF TimeOK
  <2>6. HandlerOK' /\ FreshOK'
    BY <1>2, <2>1, <2>3, Zenon DEF HandlerOK, FreshOK
  <2>7. TrigsOK'
    BY <1>2, <2>1, Zenon DEF TrigsOK, Snapshot
  <2>8. LastNotificationCurrent'
    BY <1>2, <2>1, <2>3, Zenon DEF LastNotificationCurrent
  <2>9. OnChangeThrottled'
    <3> SUFFICES ASSUME NEW u \in Sub \ IntervalSub, note'[u].by = "update",
                        note'[u].recorded, note'[u].prev # -1, note'[u].throttling # 1
                 PROVE  note'[u].time - note'[u].prev >= note'[u].throttling
      BY Zenon DEF OnChangeThrottled, Recorded
    <3>1. CASE u # s
      BY <2>3, <3>1, Zenon DEF OnChangeThrottled, Recorded
    <3>2. CASE u = s
      <4>1. s \notin lost /\ target # s
        BY <2>1, <2>3, <3>2, Zenon
      <4>2. note[s].time <= csubs[s].lastNotification
        BY <2>1, <3>2, <4>1, Zenon DEF LastNotificationCurrent
      <4>3. csubs[s].lastNotification # 1
        BY <2>1, <2>2 DEF TimeOK
      <4>4. ~(trigs[s].throttling > now - trigs[s].lastNotification)
        BY <1>2, <2>2, <2>3, <3>2, <4>3, Zenon DEF BlockedByThrottling
      <4>5. note[s].time \in Int
        BY DEF TypeOK, Note
      <4> QED
        BY <2>1, <2>2, <2>3, <3>2, <4>2, <4>4, <4>5
    <3> QED
      BY <3>1, <3>2, Zenon
  <2> QED
    BY <2>4, <2>5, <2>6, <2>7, <2>8, <2>9, Zenon
<1> QED
  BY <1>1, <1>2, Zenon DEF processSubscriptions

\* The update of count and lastNotification in processSubscriptions keeps the invariant.
LEMMA RecordInv ==
  ASSUME Inv, Record
  PROVE  Inv'
<1> USE NotificationsAssumption DEF Inv, Record, threads
<1>1. target \in Sub /\ csubs[target] \in Csub /\ now \in Nat /\ now >= StartTime
  BY Zenon DEF HandlerOK, TypeOK, TimeOK
<1>2. Notified(csubs[target]) \in Csub /\ Notified(csubs[target]).lastNotification = now
  BY <1>1, NotifiedType, Zenon
<1>3. TypeOK' /\ CsiOK'
  <2>1. csubs' \in [Sub -> Csub \cup {None}]
    BY <1>1, <1>2 DEF TypeOK
  <2> QED
    BY <1>1, <2>1, Zenon DEF TypeOK, CsiOK
<1>4. TimeOK'
  BY <1>1, <1>2 DEF TimeOK, TypeOK
<1>5. HandlerOK' /\ FreshOK'
  BY <1>1, Zenon DEF HandlerOK, FreshOK, TypeOK
<1>6. TrigsOK'
  BY <1>1, Zenon DEF TrigsOK, Snapshot, TypeOK
<1>7. LastNotificationCurrent'
  <2> SUFFICES ASSUME NEW s \in Sub \ IntervalSub, csubs'[s] # None, s \notin lost'
               PROVE  note[s].time <= csubs'[s].lastNotification
    BY Zenon DEF LastNotificationCurrent
  <2>1. CASE s # target
    BY <1>1, <2>1, Zenon DEF LastNotificationCurrent, TypeOK
  <2>2. CASE s = target
    BY <1>1, <1>2, <2>2, Zenon DEF TypeOK, TimeOK
  <2> QED
    BY <2>1, <2>2, Zenon
<1>8. OnChangeThrottled'
  BY Zenon DEF OnChangeThrottled, Recorded
<1> QED
  BY <1>3, <1>4, <1>5, <1>6, <1>7, <1>8, Zenon

\* An interval thread touches only its own subscription, and the documents only
\* while no request is in progress.
LEMMA ThreadInv ==
  ASSUME Inv, NEW s \in IntervalSub, doNotification(s)
  PROVE  Inv'
<1> USE NotificationsAssumption DEF Inv, handler, history, ThreadGoto, RoundDone
<1>1. CASE \/ mongoGetContextSubscriptionInfo(s) \/ CheckExpirationAndThrottling(s)
           \/ mongoGetContextElementResponses(s)
  <2> USE DEF mongoGetContextSubscriptionInfo, CheckExpirationAndThrottling,
              mongoGetContextElementResponses
  <2>1. UNCHANGED <<now, csubs, hpc, target, newSub, notificationDone, servicePath, trigs, note, lost, scope>>
    BY <1>1, Zenon
  <2>2. ipc' \in [Sub -> {"sleep", "check", "elements", "update", "send"}]
    BY <1>1 DEF TypeOK
  <2>3. csi' \in [Sub -> Csub \cup {None}] /\ CsiOK'
    BY <1>1 DEF TypeOK, CsiOK
  <2>4. TypeOK' /\ TimeOK'
    BY <2>1, <2>2, <2>3, Zenon DEF TypeOK, TimeOK
  <2>5. HandlerOK' /\ FreshOK' /\ TrigsOK'
    BY <2>1, ZenonT(30) DEF HandlerOK, FreshOK, TrigsOK, Snapshot
  <2>6. LastNotificationCurrent' /\ OnChangeThrottled'
    BY <2>1, Zenon DEF LastNotificationCurrent, OnChangeThrottled, Recorded
  <2> QED
    BY <2>3, <2>4, <2>5, <2>6, Zenon
<1>2. CASE mongoUpdateCsubNewNotification(s)
  <2> USE <1>2 DEF mongoUpdateCsubNewNotification
  <2>1. /\ s \in Sub /\ now \in Nat /\ now >= StartTime
        /\ hpc = "idle" /\ trigs = NoTrigs
    BY Zenon DEF TypeOK, TimeOK, TrigsOK, NoTrigs
  <2>2. csubs[s] # None => /\ Notified(csubs[s]) \in Csub
                           /\ Notified(csubs[s]).lastNotification = now
    BY <2>1, NotifiedType DEF TypeOK
  <2>3. csubs' \in [Sub -> Csub \cup {None}] /\ csi' \in [Sub -> Csub \cup {None}] /\ CsiOK'
    BY <2>1, <2>2 DEF TypeOK, CsiOK
  <2>4. ipc' \in [Sub -> {"sleep", "check", "elements", "update", "send"}]
    BY DEF TypeOK
  <2>5. TypeOK'
    BY <2>3, <2>4, Zenon DEF TypeOK
  <2>6. TimeOK'
    BY <2>1, <2>2 DEF TimeOK, TypeOK
  <2>7. \A u \in Sub : (csubs[u] = None => csubs'[u] = None) /\ (u # s => csubs'[u] = csubs[u])
    BY <2>1, ZenonT(30) DEF TypeOK
  <2>8. HandlerOK' /\ FreshOK' /\ TrigsOK'
    BY <2>1, <2>7, Zenon DEF HandlerOK, FreshOK, TrigsOK, NoTrigs
  <2>9. LastNotificationCurrent' /\ OnChangeThrottled'
    BY <2>7, Zenon DEF LastNotificationCurrent, OnChangeThrottled, Recorded
  <2> QED
    BY <2>3, <2>5, <2>6, <2>8, <2>9, Zenon
<1>3. CASE SendByThread(s)
  <2>1. /\ csi[s] \in Csub /\ csi[s].throttling \in Nat \cup {-1} /\ s \in Sub /\ now \in Nat
        /\ note \in [Sub -> Note]
    BY <1>3, Zenon DEF SendByThread, CsiOK, TypeOK, Csub
  <2>2. /\ note' \in [Sub -> Note] /\ note'[s].time = now
        /\ \A u \in Sub \ {s} : note'[u] = note[u]
    BY <1>3, <2>1, SendType, Zenon DEF SendByThread
  <2>3. UNCHANGED <<now, csubs, hpc, target, newSub, notificationDone, servicePath, trigs, lost, scope>>
    BY <1>3, Zenon DEF SendByThread
  <2>4. /\ ipc' \in [Sub -> {"sleep", "check", "elements", "update", "send"}]
        /\ csi' \in [Sub -> Csub \cup {None}] /\ CsiOK'
    BY <1>3, Zenon DEF SendByThread, TypeOK, CsiOK
  <2>5. TypeOK'
    BY <2>2, <2>3, <2>4, Zenon DEF TypeOK
  <2>6. TimeOK'
    BY <2>1, <2>2, <2>3, SMTT(20) DEF TimeOK
  <2>7. HandlerOK' /\ FreshOK' /\ TrigsOK'
    BY <2>2, <2>3, Zenon DEF HandlerOK, FreshOK, TrigsOK, Snapshot
  <2>8. LastNotificationCurrent' /\ OnChangeThrottled'
    BY <2>2, <2>3, Zenon DEF LastNotificationCurrent, OnChangeThrottled, Recorded
  <2> QED
    BY <2>4, <2>5, <2>6, <2>7, <2>8, Zenon
<1> QED
  BY <1>1, <1>2, <1>3, Zenon DEF doNotification

\* Every step of the requests, of the interval threads and of the clock keeps the invariant.
LEMMA NextInv == Inv /\ [Next]_vars => Inv'
<1> SUFFICES ASSUME Inv, [Next]_vars PROVE Inv'
  BY Zenon
<1>1. CASE SubscriptionRequest
  <2>1. 0 \in Nat /\ \A d \in Duration : d \in Nat
    BY NotificationsAssumption, Zenon
  <2> QED
    BY <1>1, <2>1, SubscribeInv, UpdateSubscriptionInv, QuietInv, Zenon DEF SubscriptionRequest
<1>2. CASE UpdateRequest
  BY <1>2, QuietInv, ProcessInv, RecordInv, Zenon DEF UpdateRequest
<1>3. CASE UNCHANGED vars
  <2> USE <1>3 DEF vars, Inv
  <2>1. TypeOK' /\ CsiOK' /\ TimeOK' /\ HandlerOK'
    BY Zenon DEF TypeOK, CsiOK, TimeOK, HandlerOK
  <2>2. FreshOK' /\ TrigsOK'
    BY Zenon DEF FreshOK, TrigsOK, Snapshot
  <2>3. LastNotificationCurrent' /\ OnChangeThrottled'
    BY Zenon DEF LastNotificationCurrent, OnChangeThrottled, Recorded
  <2> QED
    BY <2>1, <2>2, <2>3, Zenon
<1> QED
  BY <1>1, <1>2, <1>3, QuietInv, InsertInv, WriteInv, ThreadInv, Zenon DEF Next

\* The invariant holds in every reachable state.
LEMMA InvAlways == Spec => []Inv
  BY InitInv, NextInv, PTL DEF Spec

\* Every variable keeps its type, whatever the requests, the threads, the clock
\* and the database do.
THEOREM TypeCorrect == Spec => []TypeOK
  BY InvAlways, PTL DEF Inv

\* After every request, the documents know about the last notification that was
\* sent (processSubscriptions, mongoSubscribeContext,
\* mongoUpdateContextSubscription).
THEOREM LastNotificationIsCurrent == Spec => []LastNotificationCurrent
  BY InvAlways, PTL DEF Inv

\* The throttling check of processSubscriptions does what it is for, but for a
\* throttling of one second.
THEOREM Throttled == Spec => []OnChangeThrottled
  BY InvAlways, PTL DEF Inv

\* A step changes a document without taking back a count or a lastNotification.
LEMMA StepKeepsRecords ==
  ASSUME Inv, Next, NEW s \in Sub, csubs[s] # None, csubs'[s] # None
  PROVE  /\ csubs'[s].count >= csubs[s].count
         /\ csubs'[s].lastNotification >= csubs[s].lastNotification
<1> USE NotificationsAssumption DEF Inv
<1>1. /\ csubs[s] \in Csub /\ now \in Nat
      /\ csubs[s].count \in Nat /\ csubs[s].lastNotification \in Nat \cup {-1}
      /\ csubs[s].lastNotification <= now
  <2>1. csubs[s] \in Csub /\ now \in Nat
    BY Zenon DEF TypeOK
  <2>2. csubs[s].count \in Nat /\ csubs[s].lastNotification \in Nat \cup {-1}
    BY <2>1, Zenon DEF Csub
  <2> QED
    BY <2>1, <2>2 DEF TimeOK
<1>2. CASE csubs'[s] = csubs[s]
  BY <1>1, <1>2
<1>3. CASE csubs'[s] = Notified(csubs[s])
  BY <1>1, <1>3, NotifiedType
<1>4. CASE Insert
  <2>1. target # s /\ csubs \in [Sub -> Csub \cup {None}]
    BY <1>4, Zenon DEF Insert, HandlerOK, TypeOK
  <2> QED
    BY <1>2, <1>4, <2>1, Zenon DEF Insert
<1>5. CASE Write
  <2>1. CASE csubs' = [csubs EXCEPT ![target] = NotedSub] /\ target = s
    <3>1. /\ newSub \in Csub /\ newSub.count = csubs[s].count
          /\ newSub.lastNotification = csubs[s].lastNotification
      BY <1>5, <2>1, Zenon DEF Write, HandlerOK
    <3>2. csubs'[s] = NotedSub
      BY <2>1, Zenon DEF TypeOK
    <3>3. CASE notificationDone
      BY <1>1, <3>1, <3>2, <3>3, NotedSubType
    <3>4. CASE ~notificationDone
      BY <1>1, <3>1, <3>2, <3>4, NotedSubType
    <3> QED
      BY <3>3, <3>4, Zenon
  <2>2. CASE ~(csubs' = [csubs EXCEPT ![target] = NotedSub] /\ target = s)
    BY <1>2, <1>5, <2>2, Zenon DEF Write, TypeOK
  <2> QED
    BY <2>1, <2>2, Zenon
<1>6. CASE Record
  BY <1>2, <1>3, <1>6 DEF Record, TypeOK
<1>7. CASE \E u \in Sub : mongoUnsubscribeContext(u)
  BY <1>2, <1>7, Zenon DEF mongoUnsubscribeContext, TypeOK
<1>8. CASE \E u \in IntervalSub : mongoUpdateCsubNewNotification(u)
  BY <1>2, <1>3, <1>8 DEF mongoUpdateCsubNewNotification, TypeOK
<1>9. CASE UNCHANGED csubs
  BY <1>2, <1>9, Zenon
<1>10. ASSUME Tick \/ Crash PROVE UNCHANGED csubs
  BY <1>10, Zenon DEF Tick, Crash
<1>11. ASSUME SubscriptionRequest
       PROVE  UNCHANGED csubs \/ \E u \in Sub : mongoUnsubscribeContext(u)
  BY <1>11, SMTT(20) DEF SubscriptionRequest, mongoSubscribeContext, mongoUpdateContextSubscription
<1>12. ASSUME UpdateRequest PROVE UNCHANGED csubs \/ Record
  BY <1>12, Zenon DEF UpdateRequest, mongoUpdateContext, addTriggeredSubscriptions, processSubscriptions,
               EntityDone
<1>13. ASSUME NEW u \in IntervalSub, doNotification(u)
       PROVE  UNCHANGED csubs \/ mongoUpdateCsubNewNotification(u)
  BY <1>13, Zenon DEF doNotification, mongoGetContextSubscriptionInfo, CheckExpirationAndThrottling,
               mongoGetContextElementResponses, SendByThread
<1> QED
  BY <1>4, <1>5, <1>6, <1>7, <1>8, <1>9, <1>10, <1>11, <1>12, <1>13, Zenon DEF Next

\* Records of notifications are never taken back, though
\* mongoUpdateContextSubscription replaces a whole document by one that it built
\* from an earlier read: reqSem keeps the threads' updates out.
THEOREM RecordsNeverLost == Spec => RecordsKept
<1>1. Inv /\ [Next]_vars
        => [\A s \in Sub : csubs[s] # None /\ csubs'[s] # None
              => /\ csubs'[s].count >= csubs[s].count
                 /\ csubs'[s].lastNotification >= csubs[s].lastNotification]_vars
  BY StepKeepsRecords, Zenon
<1> QED
  BY <1>1, InvAlways, PTL DEF Spec, RecordsKept

=============================================================================
