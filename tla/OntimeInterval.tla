--------------------------- MODULE OntimeInterval ---------------------------
(***************************************************************************)
(* ONTIMEINTERVAL subscriptions: the life cycle of the notification        *)
(* threads.  Every ONTIMEINTERVAL condition of a subscription has a        *)
(* detached thread of its own (ngsiNotify/Notifier.cpp) that loops over    *)
(* "notify, sleep" (ngsiNotify/onTimeIntervalThread.cpp).  The request     *)
(* handlers subscribeContext, updateContextSubscription and                *)
(* unsubscribeContext of mongoBackend create and destroy the threads while *)
(* they hold the 'req' semaphore; a thread takes the same semaphore three  *)
(* times per round, once for each of its database accesses.                *)
(*                                                                         *)
(* Abstracted away: time (expiration and throttling decide a round         *)
(* nondeterministically here; Notifications is about them), the            *)
(* contents of notifications, and the 'mongo' semaphore, which is only     *)
(* held inside one database call.                                          *)
(***************************************************************************)
EXTENDS Naturals

CONSTANTS
  Sub,      \* subscription identifiers (OIDs)
  Cond,     \* ONTIMEINTERVAL conditions, i.e. interval values
  Tid,      \* identifiers of the interval threads that may be alive at once
  Req,      \* connections served concurrently, one request at a time each
  None      \* no document, no request, no thread

ASSUME NoneAssumption == \A C \in SUBSET Cond : C # None

VARIABLES
  up,          \* the broker process is running
  reqSem,      \* value of the POSIX semaphore reqSem
  csubs,       \* the csubs collection: interval conditions of each document
  oids,        \* identifiers handed out by oid.init()
  rpc, rjob,   \* per connection: next step of the handler, the request
  canceled,    \* per connection: the vector of destroyOntimeIntervalThreads
  tpc, tjob,   \* per interval thread: next step, OnIntervalThreadParams
  found,       \* per interval thread: this round's csi was read from a document
  threadsMap,  \* threads with an entry in Notifier::threadsMap
  cancelReq,   \* threads with a pending pthread_cancel and deleted params
  detached,    \* threads pthread_detach was called for
  sent,        \* history: subscriptions that have been notified by a thread
  stored,      \* history: subscriptions that have ever been in csubs
  late,        \* history: notifications sent by a thread since its cancel
  dirty        \* history: subscriptions some failed call left out of step

memory == <<up, reqSem, rpc, rjob, canceled>>
threads == <<tpc, tjob, found, threadsMap, cancelReq, detached, late>>
history == <<sent, stored, dirty>>
vars == <<memory, csubs, oids, threads, history>>

Op == {"subscribe", "update", "updateConditions", "unsubscribe"}
Job == [op : Op, sub : Sub, conds : SUBSET Cond]
RequestPC == {"idle", "take", "find", "remove", "cancel", "join", "conditions",
              "insert", "write"}
ThreadPC == {"unused", "top", "info", "infoIn", "elements", "elementsIn",
             "update", "updateIn", "send", "enable", "sleep"}

\* Type correctness.  reqSem is used as a binary semaphore: semInit starts it at
\* 1 and no sequence of reqSemTake/reqSemGive calls moves it out of 0..1.
TypeOK ==
  /\ up \in BOOLEAN
  /\ reqSem \in 0 .. 1
  /\ csubs \in [Sub -> (SUBSET Cond) \cup {None}]
  /\ oids \in SUBSET Sub
  /\ rpc \in [Req -> RequestPC]
  /\ rjob \in [Req -> Job \cup {None}]
  /\ canceled \in [Req -> SUBSET Tid]
  /\ tpc \in [Tid -> ThreadPC]
  /\ tjob \in [Tid -> (Sub \X Cond) \cup {None}]
  /\ found \in [Tid -> BOOLEAN]
  /\ threadsMap \in SUBSET Tid
  /\ cancelReq \in SUBSET Tid
  /\ detached \in SUBSET Tid
  /\ sent \in SUBSET Sub
  /\ stored \in SUBSET Sub
  /\ late \in [Tid -> Nat]
  /\ dirty \in SUBSET Sub

SubOf(t) == tjob[t][1]
CondOf(t) == tjob[t][2]

\* Only one entry of the multimap is looked up, as find() would.
FirstThreadOf(s) ==
  LET E == {t \in threadsMap : SubOf(t) = s}
  IN  IF E = {} THEN {} ELSE {CHOOSE t \in E : TRUE}

\* threadsMap.equal_range(s)
ThreadsOf(s) == {t \in threadsMap : SubOf(t) = s}

-----------------------------------------------------------------------------
(* Process start: semInit(0, 1), and a broker connected to an empty database. *)
Init ==
  /\ up = TRUE
  /\ reqSem = 1
  /\ csubs = [s \in Sub |-> None]
  /\ oids = {}
  /\ rpc = [r \in Req |-> "idle"]
  /\ rjob = [r \in Req |-> None]
  /\ canceled = [r \in Req |-> {}]
  /\ tpc = [t \in Tid |-> "unused"]
  /\ tjob = [t \in Tid |-> None]
  /\ found = [t \in Tid |-> FALSE]
  /\ threadsMap = {}
  /\ cancelReq = {}
  /\ detached = {}
  /\ sent = {}
  /\ stored = {}
  /\ late = [t \in Tid |-> 0]
  /\ dirty = {}

-----------------------------------------------------------------------------
(* Notifier::createIntervalThread, called for each (subscription, condition) *)
(* of a set in turn.  T are the threads pthread_create could start and       *)
(* params what each is started with; every one is detached and entered in    *)
(* threadsMap.  A failed pthread_create is logged and nothing else.          *)

\* The call of pthread_detach is forgotten.
DetachNone(T) == detached

pthread_detach(T) == detached \cup T

createIntervalThread(T, params) ==
  /\ T \subseteq {t \in Tid : tpc[t] = "unused"}
  /\ \A t, u \in T : params[t] = params[u] => t = u
  /\ tpc' = [t \in Tid |-> IF t \in T THEN "top" ELSE tpc[t]]
  /\ tjob' = [t \in Tid |-> IF t \in T THEN params[t] ELSE tjob[t]]
  /\ threadsMap' = threadsMap \cup T
  /\ detached' = pthread_detach(T)
  /\ UNCHANGED <<found, cancelReq, late>>

-----------------------------------------------------------------------------
(* Request handlers.  Return(r) is reqSemGive and the answer to the client.   *)

Goto(r, pc) == rpc' = [rpc EXCEPT ![r] = pc]

\* The handler goes on to pc, or ends and answers the client.
Continue(r, pc) == Goto(r, pc) /\ UNCHANGED <<reqSem, rjob, canceled>>

Finish(r) ==
  /\ Goto(r, "idle")
  /\ rjob' = [rjob EXCEPT ![r] = None]
  /\ canceled' = [canceled EXCEPT ![r] = {}]

Return(r) ==
  /\ Finish(r)
  /\ reqSem' = reqSem + 1

\* A request arrives and the handler reaches reqSemTake.  A subscription gets a
\* fresh identifier; the other requests may name any identifier, known or not.
Arrive(r) ==
  /\ up
  /\ rpc[r] = "idle"
  /\ \E job \in Job :
       /\ job.op \in {"update", "unsubscribe"} => job.conds = {}
       /\ job.op = "subscribe" => job.sub \notin oids
       /\ oids' = IF job.op = "subscribe" THEN oids \cup {job.sub} ELSE oids
       /\ rjob' = [rjob EXCEPT ![r] = job]
  /\ Goto(r, "take")
  /\ UNCHANGED <<up, reqSem, canceled, csubs, threads, history>>

reqSemTake(r) ==
  /\ rpc[r] = "take"
  /\ reqSem > 0
  /\ reqSem' = reqSem - 1
  /\ Goto(r, IF rjob[r].op = "subscribe" THEN "conditions" ELSE "find")
  /\ UNCHANGED <<up, rjob, canceled, csubs, oids, threads, history>>

\* findOne in mongoUpdateContextSubscription and mongoUnsubscribeContext: a
\* database exception, or no such document, ends the request.
Find(r) ==
  /\ rpc[r] = "find"
  /\ \/ Return(r)
     \/ /\ csubs[rjob[r].sub] # None
        /\ Continue(r, CASE rjob[r].op = "unsubscribe" -> "remove"
                         [] rjob[r].op = "updateConditions" -> "cancel"
                         [] rjob[r].op = "update" -> "write")
  /\ UNCHANGED <<up, csubs, oids, threads, history>>

\* remove() in mongoUnsubscribeContext; an exception leaves the document.
Remove(r) ==
  /\ rpc[r] = "remove"
  /\ \/ /\ Return(r)
        /\ UNCHANGED csubs
     \/ /\ csubs' = [csubs EXCEPT ![rjob[r].sub] = None]
        /\ Continue(r, "cancel")
  /\ UNCHANGED <<up, oids, threads, history>>

\* The entries are not erased from threadsMap.
MapNotErased(E) == threadsMap

eraseThreads(E) == threadsMap \ E

\* First half of Notifier::destroyOntimeIntervalThreads: pthread_cancel and
\* "delete td.params" for every entry, then the entries are erased.
CancelThreads(r) ==
  /\ rpc[r] = "cancel"
  /\ LET E == ThreadsOf(rjob[r].sub)
     IN  /\ cancelReq' = cancelReq \cup E
         /\ threadsMap' = eraseThreads(E)
         /\ canceled' = [canceled EXCEPT ![r] = E]
  /\ dirty' = IF rjob[r].op = "unsubscribe" THEN dirty \ {rjob[r].sub} ELSE dirty
  /\ Goto(r, "join")
  /\ UNCHANGED <<up, reqSem, rjob, csubs, oids, tpc, tjob, found, detached, late,
                 sent, stored>>

\* Second half: pthread_join on each canceled thread.  On a detached thread it
\* fails at once and the function returns; on any other it waits for its exit.
JoinThreads(r) ==
  /\ rpc[r] = "join"
  /\ \/ canceled[r] \cap detached # {}
     \/ \A t \in canceled[r] : tpc[t] = "unused"
  /\ \/ /\ rjob[r].op = "unsubscribe"
        /\ Return(r)
     \/ /\ rjob[r].op = "updateConditions"
        /\ Continue(r, "conditions")
  /\ UNCHANGED <<up, csubs, oids, threads, history>>

\* processConditionVector: one thread for every ONTIMEINTERVAL condition.
processConditionVector(r) ==
  LET s == rjob[r].sub
      P == {s} \X rjob[r].conds
  IN  /\ rpc[r] = "conditions"
      /\ \E T \in SUBSET Tid : \E params \in [T -> P] :
           /\ createIntervalThread(T, params)
           /\ dirty' = IF \A p \in P : \E t \in T : params[t] = p
                         THEN dirty \ {s} ELSE dirty \cup {s}
      /\ Continue(r, IF rjob[r].op = "subscribe" THEN "insert" ELSE "write")
      /\ UNCHANGED <<up, csubs, oids, sent, stored>>

\* insert() in mongoSubscribeContext, after the threads are running; an
\* exception is reported to the client and leaves the threads without document.
Insert(r) ==
  /\ rpc[r] = "insert"
  /\ \/ /\ csubs' = [csubs EXCEPT ![rjob[r].sub] = rjob[r].conds]
        /\ stored' = stored \cup {rjob[r].sub}
        /\ UNCHANGED dirty
     \/ /\ dirty' = dirty \cup {rjob[r].sub}
        /\ UNCHANGED <<csubs, stored>>
  /\ Return(r)
  /\ UNCHANGED <<up, oids, threads, sent>>

\* update() in mongoUpdateContextSubscription, after the threads were replaced.
Write(r) ==
  /\ rpc[r] = "write"
  /\ \/ /\ csubs' = [csubs EXCEPT ![rjob[r].sub] =
                       IF rjob[r].op = "update" THEN @ ELSE rjob[r].conds]
        /\ UNCHANGED dirty
     \/ /\ dirty' = IF rjob[r].op = "update" THEN dirty
                                             ELSE dirty \cup {rjob[r].sub}
        /\ UNCHANGED csubs
  /\ Return(r)
  /\ UNCHANGED <<up, oids, threads, sent, stored>>

-----------------------------------------------------------------------------
(* The interval thread: startOnIntervalThread and doNotification.  Cancelation *)
(* is disabled from "info" to "enable"; sleep(), and the trace line at the top *)
(* of the loop, are the places where a pending cancel ends the thread.         *)

ThreadGoto(t, pc) == tpc' = [tpc EXCEPT ![t] = pc]

\* reqSemTake at the start of one of the three database accesses of a round.
ThreadTake(t) ==
  /\ reqSem > 0
  /\ \/ tpc[t] = "info"     /\ ThreadGoto(t, "infoIn")
     \/ tpc[t] = "elements" /\ ThreadGoto(t, "elementsIn")
     \/ tpc[t] = "update"   /\ ThreadGoto(t, "updateIn")
  /\ reqSem' = reqSem - 1
  /\ UNCHANGED <<up, rpc, rjob, canceled, csubs, oids, tjob, found, threadsMap,
                 cancelReq, detached, late, history>>

\* An access that finds nothing to notify, or fails, returns without reqSemGive.
GiveOnSuccess(t) ==
  /\ reqSem' = IF tpc'[t] = "enable" THEN reqSem ELSE reqSem + 1
  /\ UNCHANGED <<up, rpc, rjob, canceled, oids, tjob, threadsMap, cancelReq,
                 detached, late, history>>

\* What every one of the three accesses does last, and what it leaves alone.
ThreadGive(t) ==
  /\ reqSem' = reqSem + 1
  /\ UNCHANGED <<up, rpc, rjob, canceled, oids, tjob, threadsMap, cancelReq,
                 detached, late, history>>

\* mongoGetContextSubscriptionInfo, then the expiration and throttling checks.
\* An exception or a missing document leaves the csi of the caller as it was
\* declared: empty vectors and url, uninitialised numbers.  SccOk either way.
GetContextSubscriptionInfo(t) ==
  /\ tpc[t] = "infoIn"
  /\ \/ found' = [found EXCEPT ![t] = csubs[SubOf(t)] # None]
     \/ found' = [found EXCEPT ![t] = FALSE]
  /\ \/ ThreadGoto(t, "elements")
     \/ ThreadGoto(t, "enable")
  /\ ThreadGive(t)
  /\ UNCHANGED csubs

\* mongoGetContextElementResponses: some entities are found, or the query
\* yields an error element, or there is nothing to notify.
GetContextElementResponses(t) ==
  /\ tpc[t] = "elementsIn"
  /\ \/ ThreadGoto(t, "update")
     \/ ThreadGoto(t, "enable")
  /\ ThreadGive(t)
  /\ UNCHANGED <<csubs, found>>

\* $set lastNotification, $inc count: a missing document stays missing.
UpdateCsub(s) == csubs

\* mongoUpdateCsubNewNotification; an exception suppresses the notification.
UpdateCsubNewNotification(t) ==
  /\ tpc[t] = "updateIn"
  /\ \/ /\ csubs' = UpdateCsub(SubOf(t))
        /\ ThreadGoto(t, "send")
     \/ /\ ThreadGoto(t, "enable")
        /\ UNCHANGED csubs
  /\ ThreadGive(t)
  /\ UNCHANGED found

\* The notification is sent whatever parseUrl says.
AnyUrlParses(t) == TRUE

\* parseUrl rejects the empty url of a csi that was not read from a document.
parseUrl(t) == found[t]

\* sendNotifyContextRequest: a sender thread is started, or it is not (the url
\* does not parse, pthread_create fails) and the function returns all the same.
SendNotifyContextRequest(t) ==
  /\ tpc[t] = "send"
  /\ \/ /\ parseUrl(t)
        /\ sent' = sent \cup {SubOf(t)}
        /\ late' = [late EXCEPT ![t] = IF t \in cancelReq THEN @ + 1 ELSE @]
     \/ UNCHANGED <<sent, late>>
  /\ ThreadGoto(t, "enable")
  /\ UNCHANGED <<memory, csubs, oids, tjob, found, threadsMap, cancelReq,
                 detached, stored, dirty>>

\* The cancel state is left disabled after the round.
StaysDisabled(t) == FALSE

\* A pending cancel is acted on at a cancellation point, once enabled.
Cancelable(t) == t \in cancelReq

\* pthread_setcancelstate(DISABLE) at the top of the loop; ENABLE and the call
\* of sleep() at its end; sleep() returning when no cancel has reached it.
LoopStep(t) ==
  /\ \/ tpc[t] = "top"    /\ ThreadGoto(t, "info")
     \/ tpc[t] = "enable" /\ ThreadGoto(t, "sleep")
     \/ tpc[t] = "sleep"  /\ ~Cancelable(t) /\ ThreadGoto(t, "top")
  /\ UNCHANGED <<memory, csubs, oids, tjob, found, threadsMap, cancelReq,
                 detached, late, history>>

\* The thread acts on the pending cancel; its identifier may be used again.
Exit(t) ==
  /\ tpc[t] \in {"top", "sleep"}
  /\ Cancelable(t)
  /\ ThreadGoto(t, "unused")
  /\ cancelReq' = cancelReq \ {t}
  /\ detached' = detached \ {t}
  /\ found' = [found EXCEPT ![t] = FALSE]
  /\ late' = [late EXCEPT ![t] = 0]
  /\ tjob' = [tjob EXCEPT ![t] = None]
  /\ UNCHANGED <<memory, csubs, oids, threadsMap, history>>

-----------------------------------------------------------------------------
(* The broker dies, or leaves through orionExit: memory is lost, csubs stays. *)
Crash ==
  /\ up
  /\ up' = FALSE
  /\ reqSem' = 1
  /\ rpc' = [r \in Req |-> "idle"]
  /\ rjob' = [r \in Req |-> None]
  /\ canceled' = [r \in Req |-> {}]
  /\ tjob' = [t \in Tid |-> None]
  /\ tpc' = [t \in Tid |-> "unused"]
  /\ found' = [t \in Tid |-> FALSE]
  /\ threadsMap' = {}
  /\ cancelReq' = {}
  /\ detached' = {}
  /\ late' = [t \in Tid |-> 0]
  /\ dirty' = {}
  /\ UNCHANGED <<csubs, oids, sent, stored>>

\* recoverOntimeIntervalThreads in contextBrokerInit, before restInit: a thread
\* for every ONTIMEINTERVAL condition in csubs.  A failing query starts none.
Restart ==
  LET P == {p \in Sub \X Cond : csubs[p[1]] # None /\ p[2] \in csubs[p[1]]}
  IN  /\ ~up
      /\ up' = TRUE
      /\ \E T \in SUBSET Tid : \E params \in [T -> P] :
           /\ createIntervalThread(T, params)
           /\ dirty' = {p[1] : p \in {q \in P : \A t \in T : params[t] # q}}
      /\ UNCHANGED <<reqSem, rpc, rjob, canceled, csubs, oids, sent, stored>>

-----------------------------------------------------------------------------
HandlerStep(r) ==
  \/ Find(r) \/ Remove(r) \/ CancelThreads(r) \/ JoinThreads(r)
  \/ processConditionVector(r) \/ Insert(r) \/ Write(r)

ThreadStep(t) ==
  \/ GetContextSubscriptionInfo(t) \/ GetContextElementResponses(t)
  \/ UpdateCsubNewNotification(t) \/ SendNotifyContextRequest(t)
  \/ LoopStep(t) \/ Exit(t)

Next ==
  \/ \E r \in Req : Arrive(r) \/ reqSemTake(r) \/ HandlerStep(r)
  \/ \E t \in Tid : ThreadTake(t) \/ ThreadStep(t)
  \/ Crash
  \/ Restart

Spec == Init /\ [][Next]_vars

(* Every thread that can run does, and sem_wait starves nobody. *)
Fairness ==
  /\ \A r \in Req : WF_vars(HandlerStep(r)) /\ SF_vars(reqSemTake(r))
  /\ \A t \in Tid : WF_vars(ThreadStep(t)) /\ SF_vars(ThreadTake(t))


-----------------------------------------------------------------------------
InHandler == {r \in Req : rpc[r] \notin {"idle", "take"}}
InAccess == {t \in Tid : tpc[t] \in {"infoIn", "elementsIn", "updateIn"}}

\* The 'req' semaphore serialises handlers and interval threads: at most one of
\* them is between reqSemTake and reqSemGive, on every path including the
\* exception handlers, and the semaphore is free exactly when nobody is.
ReqSemExclusive ==
  /\ \A r, q \in InHandler : r = q
  /\ \A t, u \in InAccess : t = u
  /\ InHandler = {} \/ InAccess = {}
  /\ reqSem = 1 <=> InHandler = {} /\ InAccess = {}

\* threadsMap has exactly the threads that run and were not canceled.  So no
\* thread is lost, pthread_cancel is never called on a thread that is gone (the
\* early return in destroyOntimeIntervalThreads is not taken) and no params
\* are deleted twice.
MapTracksThreads ==
  /\ threadsMap = {t \in Tid : tpc[t] # "unused"} \ cancelReq
  /\ \A t \in cancelReq : tpc[t] # "unused"

\* The handler of r is between its changes to the threads and to the document.
InFlux(r) ==
  \/ rpc[r] \in {"join", "conditions", "insert"}
  \/ rpc[r] = "cancel" /\ rjob[r].op = "unsubscribe"
  \/ rpc[r] = "write" /\ rjob[r].op = "updateConditions"

\* The conditions the database has for s.
CondsOf(s) == IF csubs[s] = None THEN {} ELSE csubs[s]

\* One uncanceled thread of s per condition of C, and no other.
RunsExactly(s, C) ==
  /\ \A c \in C : \E t \in threadsMap : tjob[t] = <<s, c>>
  /\ \A t \in threadsMap : SubOf(t) = s => CondOf(t) \in C
  /\ \A t, u \in threadsMap : SubOf(t) = s /\ tjob[t] = tjob[u] => t = u

\* Whenever no handler is half way through changing subscription s, and no
\* failed call (insert, update, pthread_create, the query at start) has left it
\* out of step, the running threads of s are the ones its document asks for:
\* through subscribe, update, unsubscribe, and a crash at any point.
ThreadsMatchDocument ==
  up => \A s \in Sub \ dirty :
          (\A r \in Req : InFlux(r) => rjob[r].sub # s)
             => RunsExactly(s, CondsOf(s))

\* A subscription that was never stored (its insert failed after its threads
\* were started) is never notified, although its threads run on.
NoPhantomNotification == sent \subseteq stored

\* A thread sends at most the one notification it was working on once
\* unsubscribeContext or updateContextSubscription has canceled it.
AtMostOneLateNotification == \A t \in Tid : late[t] <= 1

\* A removed subscription does not come back: a thread that read the document
\* before unsubscribeContext removed it does not write it back afterwards.
NoResurrection ==
  [][\A s \in stored : csubs[s] = None => csubs'[s] = None]_vars

\* Every request is answered: no handler waits for ever, neither for the
\* semaphore nor, holding it, for the interval threads it cancels.
RequestAnswered == \A r \in Req : rpc[r] # "idle" ~> rpc[r] = "idle"

\* A canceled thread ends, although cancelation is disabled for most of a round
\* and the round may have to wait for the semaphore.
CanceledThreadEnds == \A t \in Tid : t \in cancelReq ~> t \notin cancelReq

\* Every round of a thread comes to its end (sleep, or the end of the thread).
RoundEnds == \A t \in Tid : tpc[t] = "info" ~> tpc[t] \in {"sleep", "unused"}

\* What the comments of destroyOntimeIntervalThreads say of it ("wait for every
\* thread to finish"): when it returns, the threads it canceled are gone.
DestroyWaits ==
  \A r \in Req : rpc[r] = "conditions" =>
                   \A t \in canceled[r] : tpc[t] = "unused"

=============================================================================
