------------------------ MODULE OntimeIntervalProofs ------------------------
(***************************************************************************)
(* Proofs about OntimeInterval, for any sets of subscriptions, conditions, *)
(* threads and connections.                                                *)
(***************************************************************************)
EXTENDS OntimeInterval, TLAPS

\* Which requests reach which step of a handler.
OpsAt(pc) ==
  CASE pc = "take" -> Op
    [] pc = "find" -> {"update", "updateConditions", "unsubscribe"}
    [] pc = "remove" -> {"unsubscribe"}
    [] pc \in {"cancel", "join"} -> {"updateConditions", "unsubscribe"}
    [] pc = "conditions" -> {"subscribe", "updateConditions"}
    [] pc = "insert" -> {"subscribe"}
    [] pc = "write" -> {"update", "updateConditions"}

\* A busy connection has a request and a running thread has parameters.
JobsOK ==
  /\ \A r \in Req : rpc[r] # "idle" => rjob[r] \in Job /\ rjob[r].op \in OpsAt(rpc[r])
  /\ \A t \in Tid : tpc[t] # "unused" => tjob[t] \in Sub \X Cond

\* While the broker is down it has neither requests nor threads.
DownIsIdle ==
  ~up => /\ \A r \in Req : rpc[r] = "idle"
         /\ \A t \in Tid : tpc[t] = "unused"

Inv1 == TypeOK /\ JobsOK /\ DownIsIdle /\ ReqSemExclusive

\* The state after semInit satisfies the first invariant.
LEMMA InitInv1 == Init => Inv1
<1> SUFFICES ASSUME Init PROVE Inv1
  BY Zenon
<1>1. TypeOK
  <2>1. up \in BOOLEAN /\ found \in [Tid -> BOOLEAN]
    BY Zenon DEF Init
  <2> QED BY <2>1 DEF Init, TypeOK, RequestPC, ThreadPC
<1>2. JobsOK /\ DownIsIdle
  BY Zenon DEF Init, JobsOK, DownIsIdle
<1>3. ReqSemExclusive
  <2>1. InHandler = {}
    BY Zenon DEF Init, InHandler
  <2>2. InAccess = {}
    BY Zenon DEF Init, InAccess
  <2> QED BY <2>1, <2>2, Zenon DEF Init, ReqSemExclusive
<1> QED BY <1>1, <1>2, <1>3, Zenon DEF Inv1

\* Every step of a handler, of a thread and of the process keeps the types.
LEMMA NextTypeOK == Inv1 /\ [Next]_vars => TypeOK'
<1> SUFFICES ASSUME Inv1, [Next]_vars PROVE TypeOK'
  BY Zenon
<1> USE DEF Inv1, memory, threads, history
<1>1. CASE UNCHANGED vars
  BY <1>1, Zenon DEF vars, TypeOK
<1>2. ASSUME NEW r \in Req, Arrive(r) PROVE TypeOK'
  BY <1>2 DEF Arrive, Goto, TypeOK, RequestPC, Job
<1>3. ASSUME NEW r \in Req, reqSemTake(r) PROVE TypeOK'
  BY <1>3 DEF reqSemTake, Goto, TypeOK, RequestPC
<1>4. ASSUME NEW r \in Req, Find(r) PROVE TypeOK'
  <2>1. reqSem = 0
    BY <1>4 DEF Find, TypeOK, ReqSemExclusive, InHandler
  <2>2. rjob[r].op \in {"update", "updateConditions", "unsubscribe"}
    BY <1>4, Zenon DEF Find, JobsOK, OpsAt
  <2> QED BY <1>4, <2>1, <2>2 DEF Find, Return, Finish, Continue, Goto, TypeOK, RequestPC
<1>5. ASSUME NEW r \in Req, Remove(r) PROVE TypeOK'
  <2>1. reqSem = 0
    BY <1>5 DEF Remove, TypeOK, ReqSemExclusive, InHandler
  <2>2. csubs' \in [Sub -> (SUBSET Cond) \cup {None}]
    BY <1>5, Zenon DEF Remove, TypeOK
  <2>3. CASE Return(r)
    BY <1>5, <2>1, <2>2, <2>3 DEF Remove, Return, Finish, Goto, TypeOK, RequestPC
  <2>4. CASE Continue(r, "cancel")
    BY <1>5, <2>2, <2>4, Zenon DEF Remove, Continue, Goto, TypeOK, RequestPC
  <2> QED BY <1>5, <2>3, <2>4, Zenon DEF Remove
<1>6. ASSUME NEW r \in Req, CancelThreads(r) PROVE TypeOK'
  BY <1>6, Zenon DEF CancelThreads, eraseThreads, ThreadsOf, Goto, TypeOK, RequestPC
<1>7. ASSUME NEW r \in Req, JoinThreads(r) PROVE TypeOK'
  <2>1. reqSem = 0
    BY <1>7 DEF JoinThreads, TypeOK, ReqSemExclusive, InHandler
  <2> QED BY <1>7, <2>1
          DEF JoinThreads, Return, Finish, Continue, Goto, TypeOK, RequestPC
<1>8. ASSUME NEW r \in Req, processConditionVector(r) PROVE TypeOK'
  <2>1. rjob[r] \in Job
    BY <1>8, Zenon DEF processConditionVector, JobsOK
  <2>a. PICK T \in SUBSET Tid :
               \E params \in [T -> {rjob[r].sub} \X rjob[r].conds] :
                 /\ createIntervalThread(T, params)
                 /\ dirty' \in {dirty \ {rjob[r].sub}, dirty \cup {rjob[r].sub}}
    BY <1>8, Zenon DEF processConditionVector
  <2>2. PICK params \in [T -> {rjob[r].sub} \X rjob[r].conds] :
               /\ createIntervalThread(T, params)
               /\ dirty' \in {dirty \ {rjob[r].sub}, dirty \cup {rjob[r].sub}}
    BY <2>a, Zenon
  <2>3. \A t \in T : params[t] \in Sub \X Cond
    BY <2>1, Zenon DEF Job
  <2>4. /\ tpc' \in [Tid -> ThreadPC]
        /\ tjob' \in [Tid -> (Sub \X Cond) \cup {None}]
        /\ threadsMap' \in SUBSET Tid
        /\ detached' \in SUBSET Tid
    BY <2>2, <2>3, Zenon DEF createIntervalThread, pthread_detach, TypeOK, ThreadPC
  <2>5. dirty' \in SUBSET Sub
    BY <2>1, <2>2, Zenon DEF TypeOK, Job
  <2> QED BY <1>8, <2>2, <2>4, <2>5, Zenon
          DEF processConditionVector, createIntervalThread, Continue, Goto, TypeOK,
              RequestPC
<1>9. ASSUME NEW r \in Req, Insert(r) PROVE TypeOK'
  <2>1. reqSem = 0
    BY <1>9 DEF Insert, TypeOK, ReqSemExclusive, InHandler
  <2>2. rjob[r] \in Job
    BY <1>9, Zenon DEF Insert, JobsOK
  <2> QED BY <1>9, <2>1, <2>2 DEF Insert, Return, Finish, Goto, TypeOK, RequestPC, Job
<1>10. ASSUME NEW r \in Req, Write(r) PROVE TypeOK'
  <2>1. reqSem = 0
    BY <1>10 DEF Write, TypeOK, ReqSemExclusive, InHandler
  <2>2. rjob[r] \in Job
    BY <1>10, Zenon DEF Write, JobsOK
  <2> QED BY <1>10, <2>1, <2>2 DEF Write, Return, Finish, Goto, TypeOK, RequestPC, Job
<1>11. ASSUME NEW t \in Tid, ThreadTake(t) PROVE TypeOK'
  BY <1>11 DEF ThreadTake, ThreadGoto, TypeOK, ThreadPC
<1>12. ASSUME NEW t \in Tid, tpc[t] \in {"infoIn", "elementsIn", "updateIn"}
       PROVE reqSem = 0
  BY <1>12 DEF TypeOK, ReqSemExclusive, InAccess
<1>13. ASSUME NEW t \in Tid, GetContextSubscriptionInfo(t) PROVE TypeOK'
  <2>1. PICK b \in BOOLEAN : found' = [found EXCEPT ![t] = b]
    BY <1>13, Zenon DEF GetContextSubscriptionInfo
  <2>2. found' \in [Tid -> BOOLEAN]
    BY <2>1, Zenon DEF TypeOK
  <2> QED BY <1>12, <1>13, <2>2
          DEF GetContextSubscriptionInfo, ThreadGive, ThreadGoto, TypeOK, ThreadPC
<1>14. ASSUME NEW t \in Tid, GetContextElementResponses(t) PROVE TypeOK'
  BY <1>12, <1>14
  DEF GetContextElementResponses, ThreadGive, ThreadGoto, TypeOK, ThreadPC
<1>15. ASSUME NEW t \in Tid, UpdateCsubNewNotification(t) PROVE TypeOK'
  BY <1>12, <1>15
  DEF UpdateCsubNewNotification, UpdateCsub, ThreadGive, ThreadGoto, TypeOK, ThreadPC
<1>16. ASSUME NEW t \in Tid, SendNotifyContextRequest(t) PROVE TypeOK'
  <2>1. SubOf(t) \in Sub
    BY <1>16, Zenon DEF SendNotifyContextRequest, JobsOK, SubOf
  <2> QED BY <1>16, <2>1 DEF SendNotifyContextRequest, ThreadGoto, TypeOK, ThreadPC
<1>17. ASSUME NEW t \in Tid, LoopStep(t) PROVE TypeOK'
  BY <1>17, Zenon DEF LoopStep, ThreadGoto, TypeOK, ThreadPC
<1>18. ASSUME NEW t \in Tid, Exit(t) PROVE TypeOK'
  BY <1>18, Zenon DEF Exit, ThreadGoto, TypeOK, ThreadPC
<1>19. CASE Crash
  <2>1. up' \in BOOLEAN /\ found' \in [Tid -> BOOLEAN]
    BY <1>19, Zenon DEF Crash
  <2> QED BY <1>19, <2>1 DEF Crash, TypeOK, RequestPC, ThreadPC
<1>20. CASE Restart
  BY <1>20
  DEF Restart, createIntervalThread, pthread_detach, TypeOK, ThreadPC
<1> QED
  BY <1>1, <1>2, <1>3, <1>4, <1>5, <1>6, <1>7, <1>8, <1>9, <1>10, <1>11, <1>13,
     <1>14, <1>15, <1>16, <1>17, <1>18, <1>19, <1>20, Zenon
  DEF Next, HandlerStep, ThreadStep

\* A handler is only at the places of its own operation.
LEMMA NextJobsOK == Inv1 /\ [Next]_vars => JobsOK'
<1> SUFFICES ASSUME Inv1, [Next]_vars PROVE JobsOK'
  BY Zenon
<1> USE DEF Inv1, memory, threads, history
<1>1. CASE UNCHANGED vars
  BY <1>1, Zenon DEF vars, JobsOK
<1>2. ASSUME NEW r \in Req, Arrive(r) PROVE JobsOK'
  <2>1. PICK job \in Job : rjob' = [rjob EXCEPT ![r] = job]
    BY <1>2, Zenon DEF Arrive
  <2>2. rpc' = [rpc EXCEPT ![r] = "take"] /\ UNCHANGED <<tpc, tjob>>
    BY <1>2, Zenon DEF Arrive, Goto
  <2> QED BY <2>1, <2>2, Zenon DEF JobsOK, OpsAt, Job, TypeOK
<1>3. ASSUME NEW r \in Req, reqSemTake(r) PROVE JobsOK'
  <2>1. rjob[r] \in Job /\ rjob[r].op \in Op
    BY <1>3, Zenon DEF reqSemTake, JobsOK, OpsAt
  <2>2. CASE rjob[r].op = "subscribe"
    BY <1>3, <2>1, <2>2, Zenon DEF reqSemTake, Goto, JobsOK, OpsAt, TypeOK
  <2>3. CASE rjob[r].op \in {"update", "updateConditions", "unsubscribe"}
    BY <1>3, <2>1, <2>3, Zenon DEF reqSemTake, Goto, JobsOK, OpsAt, TypeOK
  <2> QED BY <2>1, <2>2, <2>3, Zenon DEF Op
<1>4. ASSUME NEW r \in Req, Return(r), UNCHANGED <<tpc, tjob>> PROVE JobsOK'
  BY <1>4, Zenon DEF Return, Finish, Goto, JobsOK, TypeOK
<1>5. ASSUME NEW r \in Req, NEW pc, Continue(r, pc), rpc[r] # "idle",
             rjob[r].op \in OpsAt(pc), UNCHANGED <<tpc, tjob>>
      PROVE  JobsOK'
  BY <1>5, Zenon DEF Continue, Goto, JobsOK, TypeOK
<1>6. ASSUME NEW r \in Req, Find(r) PROVE JobsOK'
  <2>1. rjob[r].op \in {"update", "updateConditions", "unsubscribe"}
    BY <1>6, Zenon DEF Find, JobsOK, OpsAt
  <2> QED BY <1>4, <1>5, <1>6, <2>1, Zenon DEF Find, OpsAt
<1>7. ASSUME NEW r \in Req, Remove(r) PROVE JobsOK'
  <2>1. rjob[r].op = "unsubscribe"
    BY <1>7, Zenon DEF Remove, JobsOK, OpsAt
  <2> QED BY <1>4, <1>5, <1>7, <2>1, Zenon DEF Remove, OpsAt
<1>8. ASSUME NEW r \in Req, CancelThreads(r) PROVE JobsOK'
  BY <1>8, Zenon DEF CancelThreads, Goto, JobsOK, OpsAt, TypeOK
<1>9. ASSUME NEW r \in Req, JoinThreads(r) PROVE JobsOK'
  BY <1>4, <1>5, <1>9, Zenon DEF JoinThreads, OpsAt
<1>10. ASSUME NEW T \in SUBSET Tid, NEW params \in [T -> Sub \X Cond],
              createIntervalThread(T, params)
       PROVE  \A t \in Tid : tpc'[t] # "unused" => tjob'[t] \in Sub \X Cond
  BY <1>10, Zenon DEF createIntervalThread, JobsOK, TypeOK
<1>11. ASSUME NEW r \in Req, processConditionVector(r) PROVE JobsOK'
  <2>1. /\ rjob[r] \in Job
        /\ rjob[r].op \in {"subscribe", "updateConditions"}
        /\ rpc[r] = "conditions"
    BY <1>11, Zenon DEF processConditionVector, JobsOK, OpsAt
  <2>2. \E T \in SUBSET Tid : \E params \in [T -> Sub \X Cond] :
          createIntervalThread(T, params)
    BY <1>11, <2>1, Zenon DEF processConditionVector, Job
  <2>3. \A t \in Tid : tpc'[t] # "unused" => tjob'[t] \in Sub \X Cond
    BY <1>10, <2>2, Zenon
  <2>4. /\ rpc' = [rpc EXCEPT ![r] =
                     IF rjob[r].op = "subscribe" THEN "insert" ELSE "write"]
        /\ rjob' = rjob
    BY <1>11, Zenon DEF processConditionVector, Continue, Goto
  <2> QED BY <2>1, <2>3, <2>4, Zenon DEF JobsOK, OpsAt, TypeOK
<1>12. ASSUME NEW r \in Req, Insert(r) \/ Write(r) PROVE JobsOK'
  BY <1>4, <1>12, Zenon DEF Insert, Write
<1>13. ASSUME NEW t \in Tid, UNCHANGED <<rpc, rjob, tjob>>, tpc[t] # "unused",
              \E pc \in ThreadPC : ThreadGoto(t, pc)
       PROVE  JobsOK'
  BY <1>13, Zenon DEF ThreadGoto, JobsOK, TypeOK
<1>14. ASSUME NEW t \in Tid, ThreadTake(t) PROVE JobsOK'
  BY <1>13, <1>14, Zenon DEF ThreadTake, ThreadPC
<1>15. ASSUME NEW t \in Tid, GetContextSubscriptionInfo(t) \/ GetContextElementResponses(t)
                               \/ UpdateCsubNewNotification(t)
       PROVE  JobsOK'
  BY <1>13, <1>15, Zenon DEF GetContextSubscriptionInfo, GetContextElementResponses,
                      UpdateCsubNewNotification, ThreadGive, ThreadPC
<1>16. ASSUME NEW t \in Tid, SendNotifyContextRequest(t) \/ LoopStep(t) PROVE JobsOK'
  BY <1>13, <1>16, Zenon DEF SendNotifyContextRequest, LoopStep, ThreadPC
<1>17. ASSUME NEW t \in Tid, Exit(t) PROVE JobsOK'
  BY <1>17, Zenon DEF Exit, ThreadGoto, JobsOK, TypeOK
<1>18. CASE Crash
  BY <1>18, Zenon DEF Crash, JobsOK
<1>19. CASE Restart
  <2>1. \E T \in SUBSET Tid : \E params \in [T -> Sub \X Cond] :
          createIntervalThread(T, params)
    BY <1>19, Zenon DEF Restart
  <2> QED BY <1>10, <1>19, <2>1, Zenon DEF Restart, JobsOK
<1> QED
  BY <1>1, <1>2, <1>3, <1>6, <1>7, <1>8, <1>9, <1>11, <1>12, <1>14, <1>15, <1>16,
     <1>17, <1>18, <1>19, Zenon
  DEF Next, HandlerStep, ThreadStep

\* No handler and no thread survives the process.
LEMMA NextDownIsIdle == Inv1 /\ [Next]_vars => DownIsIdle'
<1> SUFFICES ASSUME Inv1, [Next]_vars, ~up' PROVE DownIsIdle'
  BY Zenon DEF DownIsIdle
<1> USE DEF Inv1, memory, threads, history
<1>1. CASE UNCHANGED vars
  BY <1>1, Zenon DEF vars, DownIsIdle
<1>2. ASSUME NEW r \in Req, Arrive(r) \/ reqSemTake(r) \/ HandlerStep(r)
      PROVE  up /\ UNCHANGED up
  <2>1. UNCHANGED up
    BY <1>2, Zenon DEF Arrive, reqSemTake, HandlerStep, Find, Remove, CancelThreads,
      JoinThreads, processConditionVector, Insert, Write
  <2>2. rpc[r] # "idle" \/ up
    BY <1>2, Zenon DEF Arrive, reqSemTake, HandlerStep, Find, Remove, CancelThreads,
      JoinThreads, processConditionVector, Insert, Write
  <2> QED BY <2>1, <2>2, Zenon DEF DownIsIdle
<1>3. ASSUME NEW t \in Tid, ThreadTake(t) \/ ThreadStep(t)
      PROVE  up /\ UNCHANGED up
  <2>1. UNCHANGED up
    BY <1>3, Zenon DEF ThreadTake, ThreadStep, GetContextSubscriptionInfo,
      GetContextElementResponses, UpdateCsubNewNotification, ThreadGive,
      SendNotifyContextRequest, LoopStep, Exit
  <2>2. tpc[t] # "unused"
    BY <1>3, Zenon DEF ThreadTake, ThreadStep, GetContextSubscriptionInfo,
      GetContextElementResponses, UpdateCsubNewNotification,
      SendNotifyContextRequest, LoopStep, Exit
  <2> QED BY <2>1, <2>2, Zenon DEF DownIsIdle
<1>4. CASE Crash
  BY <1>4, Zenon DEF Crash, DownIsIdle
<1>5. ~Restart
  BY Zenon DEF Restart
<1> QED BY <1>1, <1>2, <1>3, <1>4, <1>5 DEF Next

\* reqSemTake and reqSemGive keep one holder, on every path through the handlers.
LEMMA NextReqSemExclusive == Inv1 /\ [Next]_vars => ReqSemExclusive'
<1> SUFFICES ASSUME Inv1, [Next]_vars PROVE ReqSemExclusive'
  BY Zenon
<1> USE DEF Inv1, memory, threads, history
<1>1. ASSUME UNCHANGED <<reqSem, InHandler, InAccess>> PROVE ReqSemExclusive'
  BY <1>1, Zenon DEF ReqSemExclusive
<1>2. ASSUME reqSem' = 1, InHandler' = {}, InAccess' = {} PROVE ReqSemExclusive'
  BY <1>2, Zenon DEF ReqSemExclusive
\* A step inside a handler, and the end of a handler.
<1>3. ASSUME NEW r \in Req, r \in InHandler PROVE reqSem = 0 /\ InHandler = {r} /\ InAccess = {}
  BY <1>3 DEF ReqSemExclusive, TypeOK
<1>4. ASSUME NEW r \in Req, r \in InHandler, Return(r), UNCHANGED tpc
      PROVE  ReqSemExclusive'
  <2>1. InHandler' = {}
    BY <1>3, <1>4, Zenon DEF Return, Finish, Goto, InHandler, TypeOK
  <2>2. InAccess' = {}
    BY <1>3, <1>4, Zenon DEF InAccess
  <2> QED BY <1>2, <1>3, <1>4, <2>1, <2>2 DEF Return
<1>5. ASSUME NEW r \in Req, r \in InHandler, NEW pc \in RequestPC \ {"idle", "take"},
             Goto(r, pc), UNCHANGED <<reqSem, InAccess>>
      PROVE  ReqSemExclusive'
  <2>1. InHandler' = InHandler
    BY <1>5, Zenon DEF Goto, InHandler, TypeOK
  <2> QED BY <1>1, <1>5, <2>1, Zenon
<1>6. CASE UNCHANGED vars
  BY <1>1, <1>6, Zenon DEF vars, InHandler, InAccess
<1>7. ASSUME NEW r \in Req, Arrive(r) PROVE ReqSemExclusive'
  BY <1>1, <1>7, Zenon DEF Arrive, Goto, InHandler, InAccess, TypeOK
<1>8. ASSUME NEW r \in Req, reqSemTake(r) PROVE ReqSemExclusive'
  <2>1. reqSem = 1 /\ InHandler = {} /\ InAccess = {}
    BY <1>8 DEF reqSemTake, ReqSemExclusive, TypeOK
  <2>2. reqSem' = 0 /\ InAccess' = {}
    BY <1>8, <2>1 DEF reqSemTake, InAccess
  <2>3. InHandler' = {r}
    BY <1>8, <2>1, Zenon DEF reqSemTake, Goto, InHandler, TypeOK
  <2> QED BY <2>2, <2>3 DEF ReqSemExclusive
<1>9. ASSUME NEW r \in Req, Find(r) PROVE ReqSemExclusive'
  <2>1. r \in InHandler /\ InAccess' = InAccess
    BY <1>9, Zenon DEF Find, InHandler, InAccess
  <2>2. rjob[r].op \in {"update", "updateConditions", "unsubscribe"}
    BY <1>9, Zenon DEF Find, JobsOK, OpsAt
  <2> QED BY <1>4, <1>5, <1>9, <2>1, <2>2, Zenon DEF Find, Continue, RequestPC
<1>10. ASSUME NEW r \in Req, Remove(r) PROVE ReqSemExclusive'
  <2>1. r \in InHandler /\ InAccess' = InAccess
    BY <1>10, Zenon DEF Remove, InHandler, InAccess
  <2> QED BY <1>4, <1>5, <1>10, <2>1, Zenon DEF Remove, Continue, RequestPC
<1>11. ASSUME NEW r \in Req, CancelThreads(r) PROVE ReqSemExclusive'
  <2>1. r \in InHandler /\ InAccess' = InAccess
    BY <1>11, Zenon DEF CancelThreads, InHandler, InAccess
  <2> QED BY <1>5, <1>11, <2>1, Zenon DEF CancelThreads, RequestPC
<1>12. ASSUME NEW r \in Req, JoinThreads(r) PROVE ReqSemExclusive'
  <2>1. r \in InHandler /\ InAccess' = InAccess
    BY <1>12, Zenon DEF JoinThreads, InHandler, InAccess
  <2> QED BY <1>4, <1>5, <1>12, <2>1, Zenon DEF JoinThreads, Continue, RequestPC
\* New threads start at the top of the loop.
<1>13. ASSUME NEW T, NEW params, createIntervalThread(T, params) PROVE InAccess' = InAccess
  BY <1>13, Zenon DEF createIntervalThread, InAccess, TypeOK
<1>14. ASSUME NEW r \in Req, processConditionVector(r) PROVE ReqSemExclusive'
  <2>1. r \in InHandler
    BY <1>14, Zenon DEF processConditionVector, InHandler
  <2>2. InAccess' = InAccess
    BY <1>13, <1>14, Zenon DEF processConditionVector
  <2> QED BY <1>5, <1>14, <2>1, <2>2, Zenon DEF processConditionVector, Continue, RequestPC
<1>15. ASSUME NEW r \in Req, Insert(r) \/ Write(r) PROVE ReqSemExclusive'
  <2>1. r \in InHandler
    BY <1>15, Zenon DEF Insert, Write, InHandler
  <2> QED BY <1>4, <1>15, <2>1, Zenon DEF Insert, Write
\* The steps of the interval threads.
<1>16. ASSUME NEW t \in Tid, ThreadTake(t) PROVE ReqSemExclusive'
  <2>1. reqSem = 1 /\ InHandler = {} /\ InAccess = {}
    BY <1>16 DEF ThreadTake, ReqSemExclusive, TypeOK
  <2>2. reqSem' = 0 /\ InHandler' = {}
    BY <1>16, <2>1 DEF ThreadTake, InHandler
  <2>3. InAccess' = {t}
    BY <1>16, <2>1, Zenon DEF ThreadTake, ThreadGoto, InAccess, TypeOK
  <2> QED BY <2>2, <2>3 DEF ReqSemExclusive
<1>17. ASSUME NEW t \in Tid, t \in InAccess, ThreadGive(t),
              \E pc \in {"elements", "update", "send", "enable"} : ThreadGoto(t, pc)
       PROVE  ReqSemExclusive'
  <2>1. reqSem = 0 /\ InHandler = {} /\ InAccess = {t}
    BY <1>17 DEF ReqSemExclusive, TypeOK
  <2>2. reqSem' = 1 /\ InHandler' = {}
    BY <1>17, <2>1 DEF ThreadGive, InHandler
  <2>3. InAccess' = {}
    BY <1>17, <2>1, Zenon DEF ThreadGoto, InAccess, TypeOK
  <2> QED BY <1>2, <2>2, <2>3, Zenon
<1>18. ASSUME NEW t \in Tid, GetContextSubscriptionInfo(t) \/ GetContextElementResponses(t)
                               \/ UpdateCsubNewNotification(t)
       PROVE  ReqSemExclusive'
  <2>1. t \in InAccess
    BY <1>18, Zenon DEF GetContextSubscriptionInfo, GetContextElementResponses,
      UpdateCsubNewNotification, InAccess
  <2> QED BY <1>17, <1>18, <2>1, Zenon
          DEF GetContextSubscriptionInfo, GetContextElementResponses,
              UpdateCsubNewNotification
<1>19. ASSUME NEW t \in Tid, SendNotifyContextRequest(t) \/ LoopStep(t) \/ Exit(t)
       PROVE  ReqSemExclusive'
  <2>1. InAccess' = InAccess
    BY <1>19, Zenon DEF SendNotifyContextRequest, LoopStep, Exit, ThreadGoto, InAccess, TypeOK
  <2>2. UNCHANGED <<reqSem, InHandler>>
    BY <1>19, Zenon DEF SendNotifyContextRequest, LoopStep, Exit, InHandler
  <2> QED BY <1>1, <2>1, <2>2, Zenon
<1>20. CASE Crash
  BY <1>2, <1>20, Zenon DEF Crash, InHandler, InAccess
<1>21. CASE Restart
  <2>1. InAccess' = InAccess
    BY <1>13, <1>21, Zenon DEF Restart
  <2> QED BY <1>1, <1>21, <2>1, Zenon DEF Restart, InHandler
<1> QED
  BY <1>6, <1>7, <1>8, <1>9, <1>10, <1>11, <1>12, <1>14, <1>15, <1>16, <1>18, <1>19,
     <1>20, <1>21, Zenon
  DEF Next, HandlerStep, ThreadStep

\* The first invariant holds in every reachable state.
LEMMA Inv1Always == Spec => []Inv1
<1>1. Inv1 /\ [Next]_vars => Inv1'
  BY NextTypeOK, NextJobsOK, NextDownIsIdle, NextReqSemExclusive, Zenon DEF Inv1
<1> QED BY InitInv1, <1>1, PTL DEF Spec

\* Every variable keeps its type; in particular the semaphore stays binary.
THEOREM TypeCorrect == Spec => []TypeOK
  BY Inv1Always, PTL DEF Inv1

\* reqSem gives mutual exclusion between any number of handlers and interval
\* threads, with every error path of the handlers included.
THEOREM ReqSemMutualExclusion == Spec => []ReqSemExclusive
  BY Inv1Always, PTL DEF Inv1

-----------------------------------------------------------------------------
(* The threads, their canceling and the notifications they send.             *)

\* A canceled thread has sent its last notification when it gets to the end of
\* the round: cancelation is enabled there and ends it in sleep().
LateOK ==
  \A t \in Tid : \/ late[t] = 0
                 \/ late[t] = 1 /\ t \in cancelReq /\ tpc[t] \in {"enable", "sleep"}

\* A subscription is being created; a stored one is being updated.
Subscribing(r) == rpc[r] # "idle" /\ rjob[r].op = "subscribe"
Updating(r) == /\ rpc[r] \in {"cancel", "join", "conditions", "write"}
               /\ rjob[r].op \in {"update", "updateConditions"}

\* Identifiers are used once, so a subscription being created is not stored yet;
\* one being updated is; a thread that has read a document read a stored one.
FreshOK ==
  /\ stored \subseteq oids
  /\ \A s \in Sub : csubs[s] # None => s \in stored
  /\ sent \subseteq stored
  /\ \A t \in Tid : found[t] => tpc[t] # "unused" /\ SubOf(t) \in stored
  /\ \A r \in Req : Subscribing(r) => rjob[r].sub \in oids /\ rjob[r].sub \notin stored
  /\ \A r, q \in Req :
       Subscribing(r) /\ Subscribing(q) /\ rjob[r].sub = rjob[q].sub => r = q
  /\ \A r \in Req : Updating(r) => csubs[rjob[r].sub] # None

Inv2 == Inv1 /\ MapTracksThreads /\ LateOK /\ FreshOK

\* createIntervalThread and destroyOntimeIntervalThreads keep threadsMap exact.
LEMMA NextMapTracksThreads == Inv2 /\ [Next]_vars => MapTracksThreads'
<1> SUFFICES ASSUME Inv2, [Next]_vars PROVE MapTracksThreads'
  BY Zenon
<1> USE DEF Inv2, Inv1, memory, threads, history
<1>1. ASSUME UNCHANGED <<tpc, threadsMap, cancelReq>> PROVE MapTracksThreads'
  BY <1>1, Zenon DEF MapTracksThreads
<1>2. CASE UNCHANGED vars
  BY <1>1, <1>2, Zenon DEF vars
<1>3. ASSUME NEW r \in Req, Arrive(r) \/ reqSemTake(r) \/ Find(r) \/ Remove(r)
                              \/ JoinThreads(r) \/ Insert(r) \/ Write(r)
      PROVE  MapTracksThreads'
  BY <1>1, <1>3, Zenon DEF Arrive, reqSemTake, Find, Remove, JoinThreads, Insert, Write
<1>4. ASSUME NEW r \in Req, CancelThreads(r) PROVE MapTracksThreads'
  BY <1>4, Zenon DEF CancelThreads, eraseThreads, ThreadsOf, MapTracksThreads
<1>5. ASSUME NEW T, NEW params, createIntervalThread(T, params) PROVE MapTracksThreads'
  BY <1>5, Zenon DEF createIntervalThread, MapTracksThreads, TypeOK
<1>6. ASSUME NEW r \in Req, processConditionVector(r) PROVE MapTracksThreads'
  BY <1>5, <1>6, Zenon DEF processConditionVector
<1>7. ASSUME NEW t \in Tid, tpc[t] # "unused", NEW pc, pc # "unused",
             ThreadGoto(t, pc), UNCHANGED <<threadsMap, cancelReq>>
      PROVE  MapTracksThreads'
  BY <1>7, Zenon DEF ThreadGoto, MapTracksThreads, TypeOK
<1>8. ASSUME NEW t \in Tid, ThreadTake(t) PROVE MapTracksThreads'
  BY <1>7, <1>8, Zenon DEF ThreadTake
<1>9. ASSUME NEW t \in Tid, GetContextSubscriptionInfo(t) \/ GetContextElementResponses(t)
                              \/ UpdateCsubNewNotification(t)
      PROVE  MapTracksThreads'
  BY <1>7, <1>9, Zenon DEF GetContextSubscriptionInfo, GetContextElementResponses,
                    UpdateCsubNewNotification, ThreadGive
<1>10. ASSUME NEW t \in Tid, SendNotifyContextRequest(t) \/ LoopStep(t)
       PROVE  MapTracksThreads'
  BY <1>7, <1>10, Zenon DEF SendNotifyContextRequest, LoopStep
<1>11. ASSUME NEW t \in Tid, Exit(t) PROVE MapTracksThreads'
  BY <1>11, Zenon DEF Exit, Cancelable, ThreadGoto, MapTracksThreads, TypeOK
<1>12. CASE Crash
  BY <1>12, Zenon DEF Crash, MapTracksThreads
<1>13. CASE Restart
  BY <1>5, <1>13, Zenon DEF Restart
<1> QED
  BY <1>2, <1>3, <1>4, <1>6, <1>8, <1>9, <1>10, <1>11, <1>12, <1>13, Zenon
  DEF Next, HandlerStep, ThreadStep

\* A canceled thread leaves its loop at the end of its round (startOnIntervalThread).
LEMMA NextLateOK == Inv2 /\ [Next]_vars => LateOK'
<1> SUFFICES ASSUME Inv2, [Next]_vars PROVE LateOK'
  BY Zenon
<1> USE DEF Inv2, Inv1, memory, threads, history
<1>1. ASSUME UNCHANGED <<tpc, cancelReq, late>> PROVE LateOK'
  BY <1>1, Zenon DEF LateOK
<1>2. CASE UNCHANGED vars
  BY <1>1, <1>2, Zenon DEF vars
<1>3. ASSUME NEW r \in Req, Arrive(r) \/ reqSemTake(r) \/ Find(r) \/ Remove(r)
                              \/ JoinThreads(r) \/ Insert(r) \/ Write(r)
      PROVE  LateOK'
  BY <1>1, <1>3, Zenon DEF Arrive, reqSemTake, Find, Remove, JoinThreads, Insert, Write
<1>4. ASSUME NEW r \in Req, CancelThreads(r) PROVE LateOK'
  BY <1>4, Zenon DEF CancelThreads, LateOK
<1>5. ASSUME NEW T, NEW params, createIntervalThread(T, params) PROVE LateOK'
  BY <1>5, Zenon DEF createIntervalThread, LateOK, TypeOK
<1>6. ASSUME NEW r \in Req, processConditionVector(r) PROVE LateOK'
  BY <1>5, <1>6, Zenon DEF processConditionVector
<1>7. ASSUME NEW t \in Tid, late[t] = 0, NEW pc, ThreadGoto(t, pc),
             UNCHANGED <<cancelReq, late>>
      PROVE  LateOK'
  BY <1>7, Zenon DEF ThreadGoto, LateOK, TypeOK
<1>8. ASSUME NEW t \in Tid, tpc[t] \notin {"enable", "sleep"} PROVE late[t] = 0
  BY <1>8, Zenon DEF LateOK
<1>9. ASSUME NEW t \in Tid, ThreadTake(t) PROVE LateOK'
  BY <1>7, <1>8, <1>9, Zenon DEF ThreadTake
<1>10. ASSUME NEW t \in Tid, GetContextSubscriptionInfo(t) \/ GetContextElementResponses(t)
                              \/ UpdateCsubNewNotification(t)
      PROVE  LateOK'
  BY <1>7, <1>8, <1>10, Zenon DEF GetContextSubscriptionInfo, GetContextElementResponses,
                    UpdateCsubNewNotification, ThreadGive
<1>11. ASSUME NEW t \in Tid, SendNotifyContextRequest(t) PROVE LateOK'
  <2>1. late[t] = 0
    BY <1>8, <1>11, Zenon DEF SendNotifyContextRequest
  <2> QED BY <1>11, <2>1 DEF SendNotifyContextRequest, ThreadGoto, LateOK, TypeOK
<1>12. ASSUME NEW t \in Tid, LoopStep(t) PROVE LateOK'
  BY <1>12, Zenon DEF LoopStep, Cancelable, ThreadGoto, LateOK, TypeOK
<1>13. ASSUME NEW t \in Tid, Exit(t) PROVE LateOK'
  BY <1>13, Zenon DEF Exit, ThreadGoto, LateOK, TypeOK
<1>14. CASE Crash
  BY <1>14, Zenon DEF Crash, LateOK
<1>15. CASE Restart
  BY <1>5, <1>15, Zenon DEF Restart
<1> QED
  BY <1>2, <1>3, <1>4, <1>6, <1>9, <1>10, <1>11, <1>12, <1>13, <1>14, <1>15, Zenon
  DEF Next, HandlerStep, ThreadStep

\* A subscription that was never stored is unknown to everybody but its request.
LEMMA NextFreshOK == Inv2 /\ [Next]_vars => FreshOK'
<1> SUFFICES ASSUME Inv2, [Next]_vars PROVE FreshOK'
  BY Zenon
<1> USE DEF Inv2, Inv1, memory, threads, history
<1>1. CASE UNCHANGED vars
  BY <1>1, Zenon DEF vars, FreshOK, Subscribing, Updating, SubOf
<1>2. ASSUME NEW r \in Req, Arrive(r) PROVE FreshOK'
  <2>1. PICK job \in Job : /\ job.op = "subscribe" => job.sub \notin oids
                           /\ oids' = IF job.op = "subscribe" THEN oids \cup {job.sub} ELSE oids
                           /\ rjob' = [rjob EXCEPT ![r] = job]
    BY <1>2, ZenonT(30) DEF Arrive
  <2>2. rpc[r] = "idle" /\ rpc' = [rpc EXCEPT ![r] = "take"]
    BY <1>2, Zenon DEF Arrive, Goto
  <2>3. UNCHANGED <<stored, csubs, sent, found, tpc, tjob>>
    BY <1>2, Zenon DEF Arrive
  <2>4. \A q \in Req : Updating(q)' => Updating(q) /\ rjob'[q] = rjob[q]
    BY <2>1, <2>2, Zenon DEF Updating, TypeOK
  <2>5. \A q \in Req : Subscribing(q)' =>
           \/ q = r /\ job.op = "subscribe" /\ rjob'[q] = job
           \/ q # r /\ Subscribing(q) /\ rjob'[q] = rjob[q]
    BY <2>1, <2>2, Zenon DEF Subscribing, TypeOK
  <2>6. \A q \in Req : Subscribing(q)' => rjob'[q].sub \in oids' /\ rjob'[q].sub \notin stored'
    BY <2>1, <2>3, <2>5 DEF FreshOK
  <2>7. \A p, q \in Req : Subscribing(p)' /\ Subscribing(q)' /\ rjob'[p].sub = rjob'[q].sub
                            => p = q
    BY <2>1, <2>5, SMTT(20) DEF FreshOK
  <2> QED BY <2>1, <2>3, <2>4, <2>6, <2>7, Zenon DEF FreshOK, SubOf
\* Steps that only move a handler on, or end it.
<1>3. ASSUME NEW r \in Req, rpc[r] # "idle",
             UNCHANGED <<oids, stored, csubs, sent, found, tpc, tjob>>,
             \/ Return(r)
             \/ /\ rjob' = rjob
                /\ \E pc \in RequestPC : Goto(r, pc)
                /\ Updating(r)' => csubs[rjob[r].sub] # None
      PROVE  FreshOK'
  <2>1. \A q \in Req : Subscribing(q)' => Subscribing(q) /\ rjob'[q] = rjob[q]
    BY <1>3, Zenon DEF Subscribing, Return, Finish, Goto, TypeOK
  <2>2. \A q \in Req : Updating(q)' => csubs'[rjob'[q].sub] # None
    <3> SUFFICES ASSUME NEW q \in Req, Updating(q)' PROVE csubs[rjob'[q].sub] # None
      BY <1>3, Zenon
    <3>1. CASE Return(r)
      BY <3>1, Zenon DEF Updating, Return, Finish, Goto, TypeOK, FreshOK
    <3>2. CASE ~Return(r)
      BY <1>3, <3>2, Zenon DEF Updating, Goto, TypeOK, FreshOK
    <3> QED BY <3>1, <3>2, Zenon
  <2> QED BY <1>3, <2>1, <2>2, Zenon DEF FreshOK, SubOf
<1>4. ASSUME NEW r \in Req, reqSemTake(r) PROVE FreshOK'
  <2>1. ~Updating(r)' \/ rjob[r].op = "subscribe"
    BY <1>4, Zenon DEF reqSemTake, Updating, Goto, TypeOK
  <2>2. ~Updating(r)'
    BY <1>4, <2>1, Zenon DEF reqSemTake, Updating
  <2> QED BY <1>3, <1>4, <2>2, Zenon DEF reqSemTake, RequestPC
<1>5. ASSUME NEW r \in Req, Find(r) PROVE FreshOK'
  <2>1. rjob[r].op \in {"update", "updateConditions", "unsubscribe"}
    BY <1>5, Zenon DEF Find, JobsOK, OpsAt
  <2> QED BY <1>3, <1>5, <2>1, Zenon DEF Find, Continue, RequestPC
<1>6. ASSUME NEW r \in Req, NEW s \in Sub, r \in InHandler, rjob[r].op = "unsubscribe",
             csubs' = [csubs EXCEPT ![s] = None], Continue(r, "cancel"),
             UNCHANGED <<oids, stored, sent, found, tpc, tjob>>
      PROVE  FreshOK'
  <2>1. \A q \in Req : Subscribing(q)' => Subscribing(q) /\ rjob'[q] = rjob[q]
    BY <1>6, Zenon DEF Subscribing, Continue, Goto, InHandler, TypeOK
  <2>2. \A q \in Req : ~Updating(q)'
    BY <1>6, SMTT(20) DEF Updating, Continue, Goto, InHandler, TypeOK, ReqSemExclusive
  <2>3. \A u \in Sub : csubs'[u] # None => csubs[u] # None
    BY <1>6, Zenon DEF TypeOK
  <2> QED BY <1>6, <2>1, <2>2, <2>3 DEF FreshOK, SubOf
<1>7. ASSUME NEW r \in Req, Remove(r) PROVE FreshOK'
  <2>1. r \in InHandler /\ rjob[r].op = "unsubscribe" /\ rjob[r].sub \in Sub
    BY <1>7, Zenon DEF Remove, JobsOK, OpsAt, InHandler, Job
  <2> QED BY <1>3, <1>6, <1>7, <2>1, Zenon DEF Remove, InHandler
<1>8. ASSUME NEW r \in Req, CancelThreads(r) \/ JoinThreads(r) PROVE FreshOK'
  <2>1. Updating(r)' => Updating(r) \/ Return(r)
    BY <1>8, Zenon DEF CancelThreads, JoinThreads, Updating, Continue, Goto
  <2>2. Updating(r) => csubs[rjob[r].sub] # None
    BY Zenon DEF FreshOK
  <2> QED BY <1>3, <1>8, <2>1, <2>2, Zenon DEF CancelThreads, JoinThreads, Continue, RequestPC
\* New threads have not read any document.
<1>9. ASSUME NEW T, NEW params, createIntervalThread(T, params)
      PROVE  \A t \in Tid : found'[t] => tpc'[t] # "unused" /\ SubOf(t)' \in stored
  BY <1>9, Zenon DEF createIntervalThread, FreshOK, SubOf, TypeOK
<1>10. ASSUME NEW r \in Req, processConditionVector(r) PROVE FreshOK'
  <2>1. rpc' = [rpc EXCEPT ![r] = IF rjob[r].op = "subscribe" THEN "insert" ELSE "write"]
    BY <1>10, Zenon DEF processConditionVector, Continue, Goto
  <2>2. rpc[r] = "conditions" /\ UNCHANGED <<rjob, csubs, oids, sent, stored>>
    BY <1>10, Zenon DEF processConditionVector, Continue
  <2>3. \A q \in Req : (Subscribing(q)' => Subscribing(q)) /\ (Updating(q)' => Updating(q))
    BY <2>1, <2>2, Zenon DEF Subscribing, Updating, TypeOK
  <2>4. \A t \in Tid : found'[t] => tpc'[t] # "unused" /\ SubOf(t)' \in stored
    BY <1>9, <1>10, Zenon DEF processConditionVector
  <2> QED BY <2>2, <2>3, <2>4, Zenon DEF FreshOK
<1>11. ASSUME NEW r \in Req, Insert(r) PROVE FreshOK'
  <2>1. Subscribing(r) /\ rjob[r].sub \in Sub
    BY <1>11, Zenon DEF Insert, JobsOK, OpsAt, Subscribing, Job
  <2>2. rpc' = [rpc EXCEPT ![r] = "idle"] /\ rjob' = [rjob EXCEPT ![r] = None]
    BY <1>11, Zenon DEF Insert, Return, Finish, Goto
  <2>3. CASE UNCHANGED <<csubs, stored>>
    BY <1>3, <1>11, <2>3, Zenon DEF Insert
  <2>4. CASE /\ csubs' = [csubs EXCEPT ![rjob[r].sub] = rjob[r].conds]
             /\ stored' = stored \cup {rjob[r].sub}
    <3>1. \A q \in Req : Subscribing(q)' => q # r /\ Subscribing(q) /\ rjob'[q] = rjob[q]
      BY <2>2, Zenon DEF Subscribing, TypeOK
    <3>2. \A q \in Req : ~Updating(q)'
      BY <1>11, <2>2, SMTT(20) DEF Insert, Updating, ReqSemExclusive, InHandler, TypeOK
    <3>3. \A q \in Req : Subscribing(q)' => rjob'[q].sub \in oids' /\ rjob'[q].sub \notin stored'
      BY <1>11, <2>1, <2>4, <3>1, Zenon DEF Insert, FreshOK
    <3>4. \A u \in Sub : csubs'[u] # None => u \in stored'
      BY <2>4, Zenon DEF FreshOK, TypeOK
    <3>5. stored' \subseteq oids' /\ sent' \subseteq stored'
      <4>1. stored \subseteq oids /\ sent \subseteq stored /\ rjob[r].sub \in oids
        BY <2>1, <1>11, Zenon DEF FreshOK
      <4>2. UNCHANGED <<oids, sent>>
        BY <1>11, Zenon DEF Insert
      <4> HIDE DEF Inv2, Inv1
      <4> QED BY <2>4, <4>1, <4>2, Zenon
    <3> QED BY <1>11, <2>4, <3>1, <3>2, <3>3, <3>4, <3>5, Zenon DEF Insert, FreshOK, SubOf
  <2> QED BY <1>11, <2>3, <2>4, Zenon DEF Insert
<1>12. ASSUME NEW r \in Req, Write(r) PROVE FreshOK'
  <2>1. Updating(r) /\ csubs[rjob[r].sub] # None /\ rjob[r] \in Job
    BY <1>12, Zenon DEF Write, JobsOK, OpsAt, Updating, FreshOK
  <2>2. \A u \in Sub : csubs'[u] # None => csubs[u] # None
    BY <1>12, <2>1, Zenon DEF Write, TypeOK
  <2>3. \A q \in Req : Subscribing(q)' => Subscribing(q) /\ rjob'[q] = rjob[q]
    BY <1>12, Zenon DEF Write, Return, Finish, Goto, Subscribing, TypeOK
  <2>4. \A q \in Req : ~Updating(q)'
    BY <1>12 DEF Write, Return, Finish, Goto, Updating, ReqSemExclusive, InHandler, TypeOK
  <2> QED BY <1>12, <2>2, <2>3, <2>4 DEF Write, FreshOK, SubOf
<1>13. ASSUME UNCHANGED <<rpc, rjob, csubs, oids, stored>>, sent' \subseteq stored,
              \A t \in Tid : found'[t] => tpc'[t] # "unused" /\ SubOf(t)' \in stored
       PROVE  FreshOK'
  BY <1>13, Zenon DEF FreshOK, Subscribing, Updating
<1>14. ASSUME NEW t \in Tid, tpc[t] # "unused", NEW pc, pc # "unused",
              ThreadGoto(t, pc), UNCHANGED <<rpc, rjob, csubs, oids, stored, sent, tjob, found>>
       PROVE  FreshOK'
  BY <1>13, <1>14, Zenon DEF ThreadGoto, TypeOK, FreshOK, SubOf
<1>15. ASSUME NEW t \in Tid, ThreadTake(t) PROVE FreshOK'
  BY <1>14, <1>15, Zenon DEF ThreadTake
<1>16. ASSUME NEW t \in Tid, GetContextSubscriptionInfo(t) PROVE FreshOK'
  <2>1. SubOf(t) \in Sub /\ tpc[t] # "unused"
    BY <1>16, Zenon DEF GetContextSubscriptionInfo, JobsOK, SubOf
  <2>2. PICK b \in BOOLEAN : /\ b => csubs[SubOf(t)] # None
                             /\ found' = [found EXCEPT ![t] = b]
    BY <1>16, Zenon DEF GetContextSubscriptionInfo
  <2>3. \A u \in Tid : tpc[u] # "unused" => tpc'[u] # "unused"
    BY <1>16, Zenon DEF GetContextSubscriptionInfo, ThreadGoto, TypeOK
  <2>4. UNCHANGED <<rpc, rjob, csubs, oids, stored, sent, tjob>>
    BY <1>16, Zenon DEF GetContextSubscriptionInfo, ThreadGive
  <2>5. \A u \in Tid : found'[u] => tpc[u] # "unused" /\ SubOf(u) \in stored
    BY <2>1, <2>2, Zenon DEF FreshOK, TypeOK
  <2> QED BY <1>13, <2>3, <2>4, <2>5, Zenon DEF SubOf, FreshOK
<1>17. ASSUME NEW t \in Tid, GetContextElementResponses(t) \/ UpdateCsubNewNotification(t)
       PROVE  FreshOK'
  BY <1>14, <1>17, Zenon DEF GetContextElementResponses, UpdateCsubNewNotification, UpdateCsub,
                      ThreadGive
<1>18. ASSUME NEW t \in Tid, SendNotifyContextRequest(t) PROVE FreshOK'
  <2>1. sent' \subseteq stored
    <3>1. sent' = sent \/ (found[t] /\ sent' = sent \cup {SubOf(t)})
      BY <1>18, Zenon DEF SendNotifyContextRequest, parseUrl
    <3>2. sent \subseteq stored /\ (found[t] => SubOf(t) \in stored)
      BY Zenon DEF FreshOK
    <3> HIDE DEF Inv2, Inv1
    <3> QED BY <3>1, <3>2, Zenon
  <2>2. \A u \in Tid : tpc[u] # "unused" => tpc'[u] # "unused"
    BY <1>18, Zenon DEF SendNotifyContextRequest, ThreadGoto, TypeOK
  <2> QED BY <1>13, <1>18, <2>1, <2>2, Zenon DEF SendNotifyContextRequest, SubOf, FreshOK
<1>19. ASSUME NEW t \in Tid, LoopStep(t) PROVE FreshOK'
  BY <1>14, <1>19, Zenon DEF LoopStep
<1>20. ASSUME NEW t \in Tid, Exit(t) PROVE FreshOK'
  <2>1. \A u \in Tid : found'[u] => u # t /\ found[u]
    BY <1>20, Zenon DEF Exit, TypeOK
  <2>2. \A u \in Tid : u # t => tpc'[u] = tpc[u] /\ tjob'[u] = tjob[u]
    BY <1>20, Zenon DEF Exit, ThreadGoto, TypeOK
  <2> QED BY <1>13, <1>20, <2>1, <2>2, Zenon DEF Exit, SubOf, FreshOK
<1>21. CASE Crash
  BY <1>21, Zenon DEF Crash, FreshOK, Subscribing, Updating
<1>22. CASE Restart
  <2>1. \A t \in Tid : found'[t] => tpc'[t] # "unused" /\ SubOf(t)' \in stored
    BY <1>9, <1>22, Zenon DEF Restart
  <2> QED BY <1>13, <1>22, <2>1, Zenon DEF Restart, FreshOK
<1> QED
  BY <1>1, <1>2, <1>4, <1>5, <1>7, <1>8, <1>10, <1>11, <1>12, <1>15, <1>16, <1>17,
     <1>18, <1>19, <1>20, <1>21, <1>22, Zenon
  DEF Next, HandlerStep, ThreadStep

\* The initial state satisfies the second invariant.
LEMMA InitInv2 == Init => Inv2
<1> SUFFICES ASSUME Init PROVE Inv2
  BY Zenon
<1>1. MapTracksThreads /\ LateOK
  BY Zenon DEF Init, MapTracksThreads, LateOK
<1>2. FreshOK
  BY Zenon DEF Init, FreshOK, Subscribing, Updating
<1> QED BY InitInv1, <1>1, <1>2, Zenon DEF Inv2

\* Every step keeps the second invariant.
LEMMA NextInv2 == Inv2 /\ [Next]_vars => Inv2'
  BY NextTypeOK, NextJobsOK, NextDownIsIdle, NextReqSemExclusive, NextMapTracksThreads,
     NextLateOK, NextFreshOK, Zenon
  DEF Inv1, Inv2

\* The second invariant holds in every reachable state.
LEMMA Inv2Always == Spec => []Inv2
  BY InitInv2, NextInv2, PTL DEF Spec

\* The map names exactly the running threads that were not canceled, so the
\* error return of destroyOntimeIntervalThreads is never taken.
THEOREM MapCorrect == Spec => []MapTracksThreads
  BY Inv2Always, PTL DEF Inv2

\* The threads of a subscription whose insert failed never notify anybody.
THEOREM NoPhantom == Spec => []NoPhantomNotification
<1>1. Inv2 => NoPhantomNotification
  BY Zenon DEF Inv2, FreshOK, NoPhantomNotification
<1> QED BY Inv2Always, <1>1, PTL

\* A canceled thread sends at most one more notification.
THEOREM LateNotifications == Spec => []AtMostOneLateNotification
<1>1. Inv2 => AtMostOneLateNotification
  BY DEF Inv2, LateOK, AtMostOneLateNotification
<1> QED BY Inv2Always, <1>1, PTL

\* No step brings a removed subscription back.
THEOREM RemovedForGood == Spec => NoResurrection
<1>1. ASSUME Inv2, [Next]_vars
      PROVE  [\A s \in stored : csubs[s] = None => csubs'[s] = None]_vars
  <2> USE <1>1 DEF Inv2, Inv1, memory, threads, history
  <2> SUFFICES ASSUME NEW s \in stored, csubs[s] = None PROVE csubs'[s] = None \/ UNCHANGED vars
    BY Zenon
  <2>1. s \in Sub
    BY Zenon DEF TypeOK
  <2>2. ASSUME NEW r \in Req, Insert(r) PROVE csubs'[s] = None
    <3>1. Subscribing(r)
      BY <2>2, Zenon DEF Insert, Subscribing, JobsOK, OpsAt
    <3>2. rjob[r].sub # s
      BY <3>1, Zenon DEF FreshOK
    <3> QED BY <2>1, <2>2, <3>2, Zenon DEF Insert, TypeOK
  <2>3. ASSUME NEW r \in Req, Write(r) PROVE csubs'[s] = None
    <3>1. Updating(r)
      BY <2>3, Zenon DEF Write, Updating, JobsOK, OpsAt
    <3>2. rjob[r].sub # s
      BY <3>1, Zenon DEF FreshOK
    <3> QED BY <2>1, <2>3, <3>2, Zenon DEF Write, TypeOK
  <2>4. ASSUME NEW r \in Req, Remove(r) PROVE csubs'[s] = None
    BY <2>1, <2>4, Zenon DEF Remove, TypeOK
  <2>5. ASSUME NEW r \in Req, Arrive(r) \/ reqSemTake(r) \/ Find(r) \/ CancelThreads(r)
                                \/ JoinThreads(r) \/ processConditionVector(r)
        PROVE  csubs'[s] = None
    BY <2>5, Zenon DEF Arrive, reqSemTake, Find, CancelThreads, JoinThreads, processConditionVector
  <2>6. ASSUME NEW t \in Tid, ThreadTake(t) \/ ThreadStep(t) PROVE csubs'[s] = None
    BY <2>6, Zenon DEF ThreadTake, ThreadStep, GetContextSubscriptionInfo,
      GetContextElementResponses, UpdateCsubNewNotification, UpdateCsub,
      SendNotifyContextRequest, LoopStep, Exit
  <2>7. CASE Crash \/ Restart
    BY <2>7, Zenon DEF Crash, Restart
  <2> QED BY <2>2, <2>3, <2>4, <2>5, <2>6, <2>7, Zenon DEF Next, HandlerStep
<1> QED BY Inv2Always, <1>1, PTL DEF Spec, NoResurrection

-----------------------------------------------------------------------------
(* The threads that run are those of the documents (ThreadsMatchDocument). *)

\* RunsExactly as a function of the map and the parameters; four lemmas say how the
\* steps of the broker change it.
RunsIn(map, job, s, C) ==
  /\ \A c \in C : \E t \in map : job[t] = <<s, c>>
  /\ \A t \in map : job[t][1] = s => job[t][2] \in C
  /\ \A t, u \in map : job[t][1] = s /\ job[t] = job[u] => t = u

\* RunsIn only depends on the parameters of the threads in the map.
LEMMA RunsInFrame ==
  ASSUME NEW map, NEW job, NEW job2, NEW s, NEW C,
         \A t \in map : job2[t] = job[t]
  PROVE  RunsIn(map, job, s, C) <=> RunsIn(map, job2, s, C)
  BY Zenon DEF RunsIn

\* Erasing the entries of u leaves u without threads and the others alone.
LEMMA RunsInErase ==
  ASSUME NEW map, NEW job, NEW u,
         NEW map2, map2 = map \ {t \in map : job[t][1] = u}
  PROVE  /\ RunsIn(map2, job, u, {})
         /\ \A s, C : s # u => (RunsIn(map, job, s, C) <=> RunsIn(map2, job, s, C))
<1>1. RunsIn(map2, job, u, {})
  BY Zenon DEF RunsIn
<1>2. ASSUME NEW s, NEW C, s # u
      PROVE  RunsIn(map, job, s, C) <=> RunsIn(map2, job, s, C)
  <2>1. \A t \in map : job[t][1] = s => t \in map2
    BY <1>2, Zenon
  <2>2. \A c : <<s, c>>[1] = s
    BY Zenon
  <2>3. \A c : (\E t \in map : job[t] = <<s, c>>) <=> (\E t \in map2 : job[t] = <<s, c>>)
    BY <2>1, <2>2, Zenon
  <2>4. (\A t, v \in map : job[t][1] = s /\ job[t] = job[v] => t = v)
          <=> (\A t, v \in map2 : job[t][1] = s /\ job[t] = job[v] => t = v)
    BY <2>1, Zenon
  <2>5. (\A t \in map : job[t][1] = s => job[t][2] \in C)
          <=> (\A t \in map2 : job[t][1] = s => job[t][2] \in C)
    BY <2>1, Zenon
  <2> QED BY <2>3, <2>4, <2>5, Zenon DEF RunsIn
<1> QED BY <1>1, <1>2, Zenon

\* Starting one thread per condition gives u exactly these threads.
LEMMA RunsInCreate ==
  ASSUME NEW map, NEW job, NEW u, NEW C, NEW T, NEW job2,
         \A t \in map : t \notin T /\ job2[t] = job[t],
         \A t \in T : job2[t] \in {u} \X C,
         \A t, v \in T : job2[t] = job2[v] => t = v
  PROVE  /\ (/\ \A p \in {u} \X C : \E t \in T : job2[t] = p
             /\ RunsIn(map, job, u, {})) => RunsIn(map \cup T, job2, u, C)
         /\ \A s, D : s # u => (RunsIn(map, job, s, D) <=> RunsIn(map \cup T, job2, s, D))
<1>1. ASSUME \A p \in {u} \X C : \E t \in T : job2[t] = p, RunsIn(map, job, u, {})
      PROVE  RunsIn(map \cup T, job2, u, C)
  <2>1. \A c \in C : \E t \in map \cup T : job2[t] = <<u, c>>
    BY <1>1, Zenon
  <2>2. \A t \in map : job2[t][1] # u
    BY <1>1, Zenon DEF RunsIn
  <2>3. \A t \in T : job2[t][1] = u /\ job2[t][2] \in C
    BY Zenon
  <2> QED BY <2>1, <2>2, <2>3, Zenon DEF RunsIn
<1>2. ASSUME NEW s, NEW D, s # u
      PROVE  RunsIn(map, job, s, D) <=> RunsIn(map \cup T, job2, s, D)
  <2>1. \A t \in map \cup T : job2[t][1] = s => t \in map
    BY <1>2, Zenon
  <2>2. \A c : <<s, c>>[1] = s
    BY Zenon
  <2>3. \A c : (\E t \in map : job[t] = <<s, c>>) <=> (\E t \in map \cup T : job2[t] = <<s, c>>)
    BY <2>1, <2>2
  <2>4. (\A t, v \in map : job[t][1] = s /\ job[t] = job[v] => t = v)
          <=> (\A t, v \in map \cup T : job2[t][1] = s /\ job2[t] = job2[v] => t = v)
    BY <2>1
  <2>5. (\A t \in map : job[t][1] = s => job[t][2] \in D)
          <=> (\A t \in map \cup T : job2[t][1] = s => job2[t][2] \in D)
    BY <2>1, Zenon
  <2> QED BY <2>3, <2>4, <2>5, Zenon DEF RunsIn
<1> QED BY <1>1, <1>2, Zenon

\* At start the map is empty and one thread is started per condition found.
LEMMA RunsInRecover ==
  ASSUME NEW S, NEW D, NEW T, NEW job, \A t \in T : job[t] \in S \X D,
         \A t, v \in T : job[t] = job[v] => t = v,
         NEW s \in S, NEW C, \A t \in T : job[t][1] = s => job[t][2] \in C,
         \A c \in C : \E t \in T : job[t] = <<s, c>>
  PROVE  RunsIn(T, job, s, C)
  BY Zenon DEF RunsIn

\* The subscription of r while r is changing its threads and its document:
\* none of its threads may be running, it may have no document, the threads of
\* the new conditions may be running already.
Empty(r) == \/ rpc[r] = "take" /\ rjob[r].op = "subscribe"
            \/ rpc[r] \in {"join", "conditions"}
Removed(r) == rpc[r] \in {"cancel", "join"} /\ rjob[r].op = "unsubscribe"
Started(r) == \/ rpc[r] = "insert"
              \/ rpc[r] = "write" /\ rjob[r].op = "updateConditions"

FluxOK ==
  \A r \in Req :
    /\ Empty(r) => RunsIn(threadsMap, tjob, rjob[r].sub, {})
    /\ Removed(r) => csubs[rjob[r].sub] = None
    /\ Started(r) => \/ rjob[r].sub \in dirty
                    \/ RunsIn(threadsMap, tjob, rjob[r].sub, rjob[r].conds)

\* Threads run for identifiers that were handed out.
ThreadsHaveOids == \A t \in Tid : tpc[t] # "unused" => SubOf(t) \in oids

\* ThreadsMatchDocument, in terms of RunsIn.
MatchOK ==
  up => \A s \in Sub \ dirty :
          \/ \E r \in Req : InFlux(r) /\ rjob[r].sub = s
          \/ RunsIn(threadsMap, tjob, s, CondsOf(s))

Inv3 == Inv2 /\ ThreadsHaveOids /\ FluxOK /\ MatchOK

\* A thread of the map belongs to a subscription whose id was generated.
LEMMA NextThreadsHaveOids == Inv3 /\ [Next]_vars => ThreadsHaveOids'
<1> SUFFICES ASSUME Inv3, [Next]_vars PROVE ThreadsHaveOids'
  BY Zenon
<1> USE DEF Inv3, Inv2, Inv1, memory, threads, history
<1>1. ASSUME oids \subseteq oids',
             \A t \in Tid : tpc'[t] # "unused" => tpc[t] # "unused" /\ tjob'[t] = tjob[t]
      PROVE  ThreadsHaveOids'
  BY <1>1, Zenon DEF ThreadsHaveOids, SubOf
<1>2. CASE UNCHANGED vars
  BY <1>1, <1>2, Zenon DEF vars
<1>3. ASSUME NEW r \in Req, Arrive(r) \/ reqSemTake(r) \/ Find(r) \/ Remove(r)
                              \/ CancelThreads(r) \/ JoinThreads(r) \/ Insert(r) \/ Write(r)
      PROVE  ThreadsHaveOids'
  BY <1>1, <1>3, Zenon
  DEF Arrive, reqSemTake, Find, Remove, CancelThreads, JoinThreads, Insert, Write
<1>4. ASSUME NEW T, NEW params, createIntervalThread(T, params), UNCHANGED oids,
             \A t \in T : params[t][1] \in oids
      PROVE  ThreadsHaveOids'
  BY <1>4, Zenon DEF createIntervalThread, ThreadsHaveOids, SubOf
<1>5. ASSUME NEW r \in Req, processConditionVector(r) PROVE ThreadsHaveOids'
  <2>1. Subscribing(r) \/ Updating(r)
    BY <1>5, Zenon DEF processConditionVector, JobsOK, OpsAt, Subscribing, Updating
  <2>2. rjob[r].sub \in oids
    BY <1>5, <2>1, Zenon DEF FreshOK, processConditionVector, JobsOK, Job
  <2>3. PICK T \in SUBSET Tid : \E params \in [T -> {rjob[r].sub} \X rjob[r].conds] :
          createIntervalThread(T, params)
    BY <1>5, Zenon DEF processConditionVector
  <2>4. PICK params \in [T -> {rjob[r].sub} \X rjob[r].conds] : createIntervalThread(T, params)
    BY <2>3, Zenon
  <2> QED BY <1>4, <1>5, <2>2, <2>4 DEF processConditionVector
<1>6. ASSUME NEW t \in Tid, tpc[t] # "unused", NEW pc, ThreadGoto(t, pc), UNCHANGED <<oids, tjob>>
      PROVE  ThreadsHaveOids'
  BY <1>1, <1>6, Zenon DEF ThreadGoto, TypeOK
<1>7. ASSUME NEW t \in Tid, ThreadTake(t) PROVE ThreadsHaveOids'
  BY <1>6, <1>7, Zenon DEF ThreadTake
<1>8. ASSUME NEW t \in Tid, ThreadStep(t), ~Exit(t) PROVE ThreadsHaveOids'
  BY <1>6, <1>8, Zenon DEF ThreadStep, GetContextSubscriptionInfo, GetContextElementResponses,
    UpdateCsubNewNotification, SendNotifyContextRequest, LoopStep, ThreadGive
<1>9. ASSUME NEW t \in Tid, Exit(t) PROVE ThreadsHaveOids'
  BY <1>1, <1>9, Zenon DEF Exit, ThreadGoto, TypeOK
<1>10. CASE Crash
  BY <1>1, <1>10, Zenon DEF Crash
<1>11. CASE Restart
  <2> DEFINE P == {p \in Sub \X Cond : csubs[p[1]] # None /\ p[2] \in csubs[p[1]]}
  <2>1. \A p \in P : p[1] \in oids
    BY Zenon DEF FreshOK
  <2>2. PICK T \in SUBSET Tid : \E params \in [T -> P] : createIntervalThread(T, params)
    BY <1>11, Zenon DEF Restart
  <2>3. PICK params \in [T -> P] : createIntervalThread(T, params)
    BY <2>2, Zenon
  <2>4. \A t \in T : params[t][1] \in oids
    BY <2>1, <2>3, Zenon
  <2> QED BY <1>4, <1>11, <2>3, <2>4, Zenon DEF Restart
<1> QED
  BY <1>2, <1>3, <1>5, <1>7, <1>8, <1>9, <1>10, <1>11, Zenon DEF Next, HandlerStep

\* Threads and document change together, but for the handler that is changing them.
LEMMA NextMatch == Inv3 /\ [Next]_vars => FluxOK' /\ MatchOK'
<1> SUFFICES ASSUME Inv3, [Next]_vars PROVE FluxOK' /\ MatchOK'
  BY Zenon
<1> USE DEF Inv3, Inv2, Inv1, memory, threads, history
<1> DEFINE R(s, C) == RunsIn(threadsMap, tjob, s, C)
           Rp(s, C) == RunsIn(threadsMap', tjob', s, C)
<1>1. ASSUME UNCHANGED threadsMap, \A t \in threadsMap : tjob'[t] = tjob[t]
      PROVE  \A s, C : R(s, C) <=> Rp(s, C)
  BY <1>1, RunsInFrame, Zenon
<1>2. ASSUME UNCHANGED <<threadsMap, csubs, dirty, up, rpc, rjob>>,
             \A t \in threadsMap : tjob'[t] = tjob[t]
      PROVE  FluxOK' /\ MatchOK'
  <2>1. \A s, C : R(s, C) <=> Rp(s, C)
    BY <1>1, <1>2, Zenon
  <2>2. \A r \in Req : (Empty(r)' <=> Empty(r)) /\ (Removed(r)' <=> Removed(r))
                         /\ (Started(r)' <=> Started(r)) /\ (InFlux(r)' <=> InFlux(r))
    BY <1>2, Zenon DEF Empty, Removed, Started, InFlux
  <2>3. FluxOK'
    BY <1>2, <2>1, <2>2, Zenon DEF FluxOK
  <2>4. \A s \in Sub : CondsOf(s)' = CondsOf(s)
    BY <1>2, Zenon DEF CondsOf
  <2>5. MatchOK'
    BY <1>2, <2>1, <2>2, <2>4, Zenon DEF MatchOK
  <2> QED BY <2>3, <2>5, Zenon
<1>3. CASE UNCHANGED vars
  BY <1>2, <1>3, Zenon DEF vars
<1>4. ASSUME NEW t \in Tid, ThreadTake(t) PROVE FluxOK' /\ MatchOK'
  BY <1>2, <1>4, Zenon DEF ThreadTake
<1>5. ASSUME NEW t \in Tid, ThreadStep(t), ~Exit(t) PROVE FluxOK' /\ MatchOK'
  BY <1>2, <1>5, Zenon DEF ThreadStep, GetContextSubscriptionInfo, GetContextElementResponses,
    UpdateCsubNewNotification, UpdateCsub, SendNotifyContextRequest, LoopStep, ThreadGive
<1>6. ASSUME NEW t \in Tid, Exit(t) PROVE FluxOK' /\ MatchOK'
  <2>1. t \notin threadsMap
    BY <1>6, Zenon DEF Exit, Cancelable, MapTracksThreads
  <2> QED BY <1>2, <1>6, <2>1, Zenon DEF Exit, TypeOK
<1>7. ASSUME NEW r \in Req, Arrive(r) PROVE FluxOK' /\ MatchOK'
  <2>1. PICK job \in Job : /\ job.op = "subscribe" => job.sub \notin oids
                           /\ rjob' = [rjob EXCEPT ![r] = job]
    BY <1>7, Zenon DEF Arrive
  <2>2. rpc[r] = "idle" /\ rpc' = [rpc EXCEPT ![r] = "take"]
    BY <1>7, Zenon DEF Arrive, Goto
  <2>3. UNCHANGED <<threadsMap, tjob, csubs, dirty, up>>
    BY <1>7, Zenon DEF Arrive
  <2>4. \A q \in Req : q # r => rpc'[q] = rpc[q] /\ rjob'[q] = rjob[q]
    BY <2>1, <2>2, Zenon DEF TypeOK
  <2>5. rpc'[r] = "take" /\ rjob'[r] = job
    BY <2>1, <2>2, Zenon DEF TypeOK
  <2>6. job.op = "subscribe" => R(job.sub, {})
    BY <2>1, Zenon DEF ThreadsHaveOids, MapTracksThreads, SubOf, RunsIn
  <2>7. FluxOK'
    BY <2>3, <2>4, <2>5, <2>6 DEF FluxOK, Empty, Removed, Started
  <2>8. \A q \in Req : InFlux(q) => InFlux(q)' /\ rjob'[q] = rjob[q]
    BY <2>2, <2>4, Zenon DEF InFlux
  <2>9. \A s \in Sub : CondsOf(s)' = CondsOf(s)
    BY <2>3, Zenon DEF CondsOf
  <2>10. MatchOK'
    BY <2>3, <2>8, <2>9, Zenon DEF MatchOK
  <2> QED BY <2>7, <2>10, Zenon
<1>8. ASSUME NEW r \in Req, reqSemTake(r) PROVE FluxOK' /\ MatchOK'
  <2>1. /\ rpc[r] = "take"
        /\ rpc' = [rpc EXCEPT ![r] = IF rjob[r].op = "subscribe" THEN "conditions" ELSE "find"]
    BY <1>8, Zenon DEF reqSemTake, Goto
  <2>2. UNCHANGED <<threadsMap, tjob, csubs, dirty, up, rjob>>
    BY <1>8, Zenon DEF reqSemTake
  <2>3. FluxOK'
    BY <2>1, <2>2, Zenon DEF FluxOK, Empty, Removed, Started, TypeOK
  <2>4. \A q \in Req : InFlux(q) => InFlux(q)'
    BY <2>1, <2>2, Zenon DEF InFlux, TypeOK
  <2>5. \A s \in Sub : CondsOf(s)' = CondsOf(s)
    BY <2>2, Zenon DEF CondsOf
  <2>6. MatchOK'
    BY <2>2, <2>4, <2>5, Zenon DEF MatchOK
  <2> QED BY <2>3, <2>6, Zenon
\* A step of the handler that holds the semaphore: the other requests are idle
\* or waiting, and only the subscription of the request is touched.
<1>9. ASSUME NEW r \in InHandler, NEW u, u = rjob[r].sub, UNCHANGED up,
             \A q \in Req : q # r => rpc'[q] = rpc[q] /\ rjob'[q] = rjob[q],
             \A s \in Sub : s # u => /\ csubs'[s] = csubs[s]
                                     /\ s \in dirty' <=> s \in dirty
                                     /\ \A C : R(s, C) <=> Rp(s, C),
             R(u, {}) => \/ Rp(u, {})
                         \/ \A q \in Req : q # r /\ Subscribing(q) => rjob[q].sub # u,
             Empty(r)' => Rp(rjob'[r].sub, {}),
             Removed(r)' => csubs'[rjob'[r].sub] = None,
             Started(r)' => rjob'[r].sub \in dirty' \/ Rp(rjob'[r].sub, rjob'[r].conds),
             \/ u \in dirty'
             \/ InFlux(r)' /\ rjob'[r].sub = u
             \/ Rp(u, CondsOf(u)')
      PROVE  FluxOK' /\ MatchOK'
  <2>1. \A q \in Req : q # r => rpc[q] \in {"idle", "take"}
    BY <1>9, Zenon DEF ReqSemExclusive, InHandler
  <2>2. ASSUME NEW q \in Req, q # r
        PROVE  /\ ~Removed(q)' /\ ~Started(q)' /\ ~InFlux(q) /\ ~InFlux(q)'
               /\ Empty(q)' => Rp(rjob'[q].sub, {})
    <3>1. rpc'[q] = rpc[q] /\ rjob'[q] = rjob[q] /\ rpc[q] \in {"idle", "take"}
      BY <1>9, <2>1, <2>2, Zenon
    <3>2. ~Removed(q)' /\ ~Started(q)' /\ ~InFlux(q) /\ ~InFlux(q)'
      BY <3>1, Zenon DEF Removed, Started, InFlux
    <3>3. ASSUME Empty(q)' PROVE Rp(rjob[q].sub, {})
      <4>1. Empty(q) /\ Subscribing(q) /\ rjob[q].sub \in Sub
        BY <3>1, <3>3, Zenon DEF Empty, Subscribing, JobsOK, Job
      <4>2. R(rjob[q].sub, {})
        BY <4>1, Zenon DEF FluxOK
      <4> QED BY <1>9, <2>2, <4>1, <4>2, Zenon
    <3> QED BY <3>1, <3>2, <3>3, Zenon
  <2>3. r \in Req
    BY Zenon DEF InHandler
  <2>4. FluxOK'
    BY <1>9, <2>2, <2>3, Zenon DEF FluxOK
  <2>5. ASSUME up', NEW s \in Sub \ dirty'
        PROVE  \/ \E q \in Req : InFlux(q)' /\ rjob'[q].sub = s
               \/ Rp(s, CondsOf(s)')
    <3>1. CASE s = u
      BY <1>9, <2>3, <2>5, <3>1, Zenon
    <3>2. CASE s # u
      <4>1. ~\E q \in Req : InFlux(q) /\ rjob[q].sub = s
        BY <1>9, <2>2, <3>2, Zenon
      <4>2. R(s, CondsOf(s))
        BY <1>9, <2>5, <3>2, <4>1, Zenon DEF MatchOK
      <4>3. CondsOf(s)' = CondsOf(s)
        BY <1>9, <3>2, Zenon DEF CondsOf
      <4> QED BY <1>9, <3>2, <4>2, <4>3, Zenon
    <3> QED BY <3>1, <3>2, Zenon
  <2>6. MatchOK'
    BY <2>5, Zenon DEF MatchOK
  <2> QED BY <2>4, <2>6, Zenon
<1>10. ASSUME NEW r \in InHandler
       PROVE  /\ r \in Req /\ up /\ rjob[r] \in Job /\ rjob[r].op \in OpsAt(rpc[r])
              /\ InFlux(r) \/ rjob[r].sub \in dirty \/ R(rjob[r].sub, CondsOf(rjob[r].sub))
  <2>1. r \in Req /\ rpc[r] # "idle"
    BY Zenon DEF InHandler
  <2>2. up /\ rjob[r] \in Job /\ rjob[r].op \in OpsAt(rpc[r]) /\ rjob[r].sub \in Sub
    BY <2>1, Zenon DEF DownIsIdle, JobsOK, Job
  <2>3. \A q \in Req : InFlux(q) => q = r
    BY Zenon DEF ReqSemExclusive, InHandler, InFlux
  <2> QED BY <2>1, <2>2, <2>3, Zenon DEF MatchOK
\* The same, for a step that leaves the threads alone.
<1>11. ASSUME NEW r \in InHandler, NEW u, u = rjob[r].sub, UNCHANGED <<up, threadsMap, tjob>>,
              \/ Return(r)
              \/ \E pc : Continue(r, pc) /\ rpc'[r] = pc /\ pc # "take",
              \A s \in Sub : s # u => /\ csubs'[s] = csubs[s]
                                      /\ s \in dirty' <=> s \in dirty,
              Empty(r)' => Empty(r),
              Removed(r)' => csubs'[u] = None,
              Started(r)' => Started(r) /\ dirty' = dirty,
              \/ u \in dirty'
              \/ InFlux(r)'
              \/ R(u, CondsOf(u)')
       PROVE  FluxOK' /\ MatchOK'
  <2>1. \A s, C : R(s, C) <=> Rp(s, C)
    BY <1>1, <1>11, Zenon
  <2>2. r \in Req
    BY Zenon DEF InHandler
  <2>3. CASE Return(r)
    <3>1. rpc' = [rpc EXCEPT ![r] = "idle"] /\ rjob' = [rjob EXCEPT ![r] = None]
      BY <2>3, Zenon DEF Return, Finish, Goto
    <3>2. /\ rpc'[r] = "idle"
          /\ \A q \in Req : q # r => rpc'[q] = rpc[q] /\ rjob'[q] = rjob[q]
      BY <2>2, <3>1, Zenon DEF TypeOK
    <3>3. ~Empty(r)' /\ ~Removed(r)' /\ ~Started(r)' /\ ~InFlux(r)'
      BY <3>2, Zenon DEF Empty, Removed, Started, InFlux
    <3> HIDE DEF R, Rp
    <3> QED BY <1>9, <1>11, <2>1, <3>2, <3>3, Zenon
  <2>4. CASE \E pc : Continue(r, pc)
    <3>1. rjob' = rjob /\ \A q \in Req : q # r => rpc'[q] = rpc[q]
      BY <2>4, Zenon DEF Continue, Goto, TypeOK
    <3>2. Empty(r)' => R(rjob[r].sub, {})
      BY <1>11, <2>2, Zenon DEF FluxOK
    <3>3. Started(r)' => rjob[r].sub \in dirty' \/ R(rjob[r].sub, rjob[r].conds)
      BY <1>11, <2>2, Zenon DEF FluxOK
    <3> HIDE DEF R, Rp
    <3> QED BY <1>9, <1>11, <2>1, <3>1, <3>2, <3>3
  <2> QED BY <1>11, <2>3, <2>4, Zenon
<1>12. ASSUME NEW r \in Req, Find(r) PROVE FluxOK' /\ MatchOK'
  <2>1. r \in InHandler /\ ~InFlux(r)
    BY <1>12, Zenon DEF Find, InHandler, InFlux
  <2>2. rjob[r].op \in {"update", "updateConditions", "unsubscribe"}
    BY <1>12, Zenon DEF Find, JobsOK, OpsAt
  <2>3. \/ Return(r)
        \/ /\ rjob[r].op = "unsubscribe" /\ Continue(r, "remove")
        \/ /\ rjob[r].op = "updateConditions" /\ Continue(r, "cancel")
        \/ /\ rjob[r].op = "update" /\ Continue(r, "write")
    BY <1>12, <2>2, Zenon DEF Find
  <2>4. UNCHANGED <<up, threadsMap, tjob, csubs, dirty>>
    BY <1>12, Zenon DEF Find
  <2>5. \A s : CondsOf(s)' = CondsOf(s)
    BY <2>4, Zenon DEF CondsOf
  <2>6. rjob[r].sub \in dirty \/ R(rjob[r].sub, CondsOf(rjob[r].sub))
    BY <1>10, <2>1, Zenon
  <2>7. ~Empty(r)' /\ ~Removed(r)' /\ ~Started(r)'
    BY <2>2, <2>3, Zenon DEF Return, Finish, Continue, Goto, TypeOK, Empty, Removed, Started
  <2>8. Return(r) \/ \E pc : Continue(r, pc) /\ rpc'[r] = pc /\ pc # "take"
    BY <2>3, Zenon DEF Continue, Goto, TypeOK
  <2>9. PICK u : u = rjob[r].sub
    BY Zenon
  <2> HIDE DEF R
  <2> QED BY <1>11, <2>1, <2>4, <2>5, <2>6, <2>7, <2>8, <2>9, Zenon
<1>13. ASSUME NEW r \in Req, Remove(r) PROVE FluxOK' /\ MatchOK'
  <2>1. r \in InHandler /\ ~InFlux(r) /\ rjob[r].op = "unsubscribe" /\ rjob[r].sub \in Sub
    BY <1>13, Zenon DEF Remove, InHandler, InFlux, JobsOK, OpsAt, Job
  <2>2. UNCHANGED <<up, threadsMap, tjob, dirty>>
    BY <1>13, Zenon DEF Remove
  <2>3. PICK u : u = rjob[r].sub
    BY Zenon
  <2>4. CASE Return(r) /\ UNCHANGED csubs
    <3>1. CondsOf(u)' = CondsOf(u)
      BY <2>4, Zenon DEF CondsOf
    <3>2. rjob[r].sub \in dirty \/ R(rjob[r].sub, CondsOf(rjob[r].sub))
      BY <1>10, <2>1, Zenon
    <3>3. ~Empty(r)' /\ ~Removed(r)' /\ ~Started(r)'
      BY <2>4, Zenon DEF Return, Finish, Goto, TypeOK, Empty, Removed, Started
    <3> HIDE DEF R
    <3> QED BY <1>11, <2>1, <2>2, <2>3, <2>4, <3>1, <3>2, <3>3, Zenon
  <2>5. CASE Continue(r, "cancel") /\ csubs' = [csubs EXCEPT ![rjob[r].sub] = None]
    <3>1. rpc'[r] = "cancel" /\ rjob' = rjob
      BY <2>5, Zenon DEF Continue, Goto, TypeOK
    <3>2. ~Empty(r)' /\ ~Started(r)' /\ InFlux(r)'
      BY <2>1, <3>1, Zenon DEF Empty, Started, InFlux
    <3>3. /\ csubs'[u] = None
          /\ \A s \in Sub : s # u => csubs'[s] = csubs[s]
      BY <2>1, <2>3, <2>5, Zenon DEF TypeOK
    <3> HIDE DEF R
    <3> QED BY <1>11, <2>1, <2>2, <2>3, <2>5, <3>1, <3>2, <3>3, Zenon
  <2> QED BY <1>13, <2>4, <2>5, Zenon DEF Remove
<1>14. ASSUME NEW r \in Req, CancelThreads(r) PROVE FluxOK' /\ MatchOK'
  <2>1. r \in InHandler /\ rjob[r].sub \in Sub /\ rpc[r] = "cancel"
    BY <1>14, Zenon DEF CancelThreads, InHandler, JobsOK, Job
  <2>2. rpc'[r] = "join" /\ \A q \in Req : q # r => rpc'[q] = rpc[q]
    BY <1>14, Zenon DEF CancelThreads, Goto, TypeOK
  <2>3. UNCHANGED <<up, rjob, csubs, tjob>> /\ \A s \in Sub : s # rjob[r].sub =>
          (s \in dirty' <=> s \in dirty)
    BY <1>14, Zenon DEF CancelThreads
  <2>4. PICK u : u = rjob[r].sub
    BY Zenon
  <2>5. threadsMap' = threadsMap \ {t \in threadsMap : tjob[t][1] = u}
    BY <1>14, <2>4, Zenon DEF CancelThreads, eraseThreads, ThreadsOf, SubOf
  <2>6. Rp(u, {}) /\ \A s, C : s # u => (R(s, C) <=> Rp(s, C))
    BY <2>3, <2>5, RunsInErase
  <2>7. Removed(r)' => csubs'[u] = None
    BY <2>1, <2>2, <2>3, <2>4, Zenon DEF Removed, FluxOK
  <2>8. ~Started(r)' /\ InFlux(r)'
    BY <2>2, Zenon DEF Started, InFlux
  <2> HIDE DEF R, Rp
  <2> QED BY <1>9, <2>1, <2>2, <2>3, <2>4, <2>6, <2>7, <2>8, Zenon
<1>15. ASSUME NEW r \in Req, JoinThreads(r) PROVE FluxOK' /\ MatchOK'
  <2>1. r \in InHandler /\ rpc[r] = "join"
    BY <1>15, Zenon DEF JoinThreads, InHandler
  <2>2. UNCHANGED <<up, threadsMap, tjob, dirty, csubs>>
    BY <1>15, Zenon DEF JoinThreads
  <2>3. PICK u : u = rjob[r].sub
    BY Zenon
  <2>4. Empty(r) /\ R(u, {})
    BY <2>1, <2>3, Zenon DEF Empty, FluxOK
  <2>5. CASE rjob[r].op = "unsubscribe" /\ Return(r)
    <3>1. csubs[u] = None
      BY <2>1, <2>3, <2>5, Zenon DEF FluxOK, Removed
    <3>2. CondsOf(u)' = {}
      BY <2>2, <3>1, Zenon DEF CondsOf
    <3>3. ~Removed(r)' /\ ~Started(r)'
      BY <2>5, Zenon DEF Return, Finish, Goto, TypeOK, Removed, Started
    <3> HIDE DEF R
    <3> QED BY <1>11, <2>1, <2>2, <2>3, <2>4, <2>5, <3>2, <3>3, Zenon
  <2>6. CASE rjob[r].op = "updateConditions" /\ Continue(r, "conditions")
    <3>1. rpc'[r] = "conditions"
      BY <2>6, Zenon DEF Continue, Goto, TypeOK
    <3>2. ~Removed(r)' /\ ~Started(r)' /\ InFlux(r)'
      BY <3>1, Zenon DEF Removed, Started, InFlux
    <3> HIDE DEF R
    <3> QED BY <1>11, <2>1, <2>2, <2>3, <2>4, <2>6, <3>1, <3>2, Zenon
  <2> QED BY <1>15, <2>5, <2>6, Zenon DEF JoinThreads
<1>16. ASSUME NEW r \in Req, Insert(r) PROVE FluxOK' /\ MatchOK'
  <2>1. r \in InHandler /\ rpc[r] = "insert" /\ rjob[r] \in Job
    BY <1>16, Zenon DEF Insert, InHandler, JobsOK
  <2>2. UNCHANGED <<up, threadsMap, tjob>> /\ Return(r)
    BY <1>16, Zenon DEF Insert
  <2>3. PICK u : u = rjob[r].sub
    BY Zenon
  <2>4. /\ \A s \in Sub : s # u => csubs'[s] = csubs[s] /\ (s \in dirty' <=> s \in dirty)
        /\ u \in dirty' \/ (CondsOf(u)' = rjob[r].conds /\ UNCHANGED dirty)
    BY <1>16, <2>1, <2>3, NoneAssumption, Zenon DEF Insert, CondsOf, TypeOK, Job
  <2>5. u \in dirty \/ R(u, rjob[r].conds)
    BY <2>1, <2>3, Zenon DEF FluxOK, Started
  <2>6. ~Empty(r)' /\ ~Removed(r)' /\ ~Started(r)'
    BY <2>2, Zenon DEF Return, Finish, Goto, TypeOK, Empty, Removed, Started
  <2> HIDE DEF R
  <2> QED BY <1>11, <2>1, <2>2, <2>3, <2>4, <2>5, <2>6, Zenon
<1>17. ASSUME NEW r \in Req, Write(r) PROVE FluxOK' /\ MatchOK'
  <2>1. /\ r \in InHandler /\ rpc[r] = "write" /\ rjob[r] \in Job
        /\ rjob[r].op \in {"update", "updateConditions"}
    BY <1>17, Zenon DEF Write, InHandler, JobsOK, OpsAt
  <2>2. UNCHANGED <<up, threadsMap, tjob>> /\ Return(r)
    BY <1>17, Zenon DEF Write
  <2>3. PICK u : u = rjob[r].sub
    BY Zenon
  <2>4. ~Empty(r)' /\ ~Removed(r)' /\ ~Started(r)'
    <3>1. rpc'[r] = "idle"
      BY <2>2, Zenon DEF Return, Finish, Goto, TypeOK
    <3> QED BY <3>1, Zenon DEF Empty, Removed, Started
  <2>5. CASE rjob[r].op = "update"
    <3>1. UNCHANGED <<csubs, dirty>>
      BY <1>17, <2>1, <2>5, Zenon DEF Write, TypeOK, Job
    <3>2. CondsOf(u)' = CondsOf(u)
      BY <3>1, Zenon DEF CondsOf
    <3>3. u \in dirty \/ R(u, CondsOf(u))
      BY <1>10, <2>1, <2>3, <2>5, Zenon DEF InFlux
    <3> HIDE DEF R
    <3> QED BY <1>11, <2>1, <2>2, <2>3, <2>4, <3>1, <3>2, <3>3, Zenon
  <2>6. CASE rjob[r].op = "updateConditions"
    <3>1. /\ \A s \in Sub : s # u => csubs'[s] = csubs[s] /\ (s \in dirty' <=> s \in dirty)
          /\ u \in dirty' \/ (CondsOf(u)' = rjob[r].conds /\ UNCHANGED dirty)
      BY <1>17, <2>1, <2>3, <2>6, NoneAssumption, Zenon DEF Write, CondsOf, TypeOK, Job
    <3>2. u \in dirty \/ R(u, rjob[r].conds)
      BY <2>1, <2>3, <2>6, Zenon DEF FluxOK, Started
    <3> HIDE DEF R
    <3> QED BY <1>11, <2>1, <2>2, <2>3, <2>4, <3>1, <3>2, Zenon
  <2> QED BY <2>1, <2>5, <2>6, Zenon
<1>18. ASSUME NEW r \in Req, processConditionVector(r) PROVE FluxOK' /\ MatchOK'
  <2>1. /\ r \in InHandler /\ rpc[r] = "conditions" /\ rjob[r] \in Job
        /\ rjob[r].op \in {"subscribe", "updateConditions"}
    BY <1>18, Zenon DEF processConditionVector, InHandler, JobsOK, OpsAt
  <2>2. UNCHANGED <<up, rjob, csubs>>
    BY <1>18, Zenon DEF processConditionVector, Continue
  <2>3. PICK u, C : u = rjob[r].sub /\ C = rjob[r].conds
    BY Zenon
  <2>4. rpc'[r] = (IF rjob[r].op = "subscribe" THEN "insert" ELSE "write")
        /\ \A q \in Req : q # r => rpc'[q] = rpc[q]
    BY <1>18, Zenon DEF processConditionVector, Continue, Goto, TypeOK
  <2>5. R(u, {})
    BY <2>1, <2>3, Zenon DEF FluxOK, Empty
  <2>6. /\ u \in dirty' \/ Rp(u, C)
        /\ \A s \in Sub : s # u => (s \in dirty' <=> s \in dirty)
        /\ \A s, D : s # u => (R(s, D) <=> Rp(s, D))
    <3>1. PICK T \in SUBSET Tid : \E params \in [T -> {u} \X C] :
            /\ createIntervalThread(T, params)
            /\ dirty' = IF \A p \in {u} \X C : \E t \in T : params[t] = p
                          THEN dirty \ {u} ELSE dirty \cup {u}
      <4>1. \E T \in SUBSET Tid : \E params \in [T -> {rjob[r].sub} \X rjob[r].conds] :
              /\ createIntervalThread(T, params)
              /\ dirty' = IF \A p \in {rjob[r].sub} \X rjob[r].conds : \E t \in T : params[t] = p
                            THEN dirty \ {rjob[r].sub} ELSE dirty \cup {rjob[r].sub}
        BY <1>18, Zenon DEF processConditionVector
      <4>2. rjob[r].sub = u /\ rjob[r].conds = C
        BY <2>3, Zenon
      <4> HIDE DEF Inv3, Inv2, Inv1, R, Rp
      <4> QED BY <4>1, <4>2
    <3>2. PICK params \in [T -> {u} \X C] :
            /\ createIntervalThread(T, params)
            /\ dirty' = IF \A p \in {u} \X C : \E t \in T : params[t] = p
                          THEN dirty \ {u} ELSE dirty \cup {u}
      BY <3>1, Zenon
    <3>3. \A t \in threadsMap : t \in Tid /\ t \notin T
      BY <3>2, Zenon DEF createIntervalThread, MapTracksThreads
    <3>4. /\ threadsMap' = threadsMap \cup T
          /\ \A t \in T : tjob'[t] = params[t]
          /\ \A t \in threadsMap : tjob'[t] = tjob[t]
          /\ \A t, v \in T : params[t] = params[v] => t = v
      BY <3>2, <3>3, Zenon DEF createIntervalThread
    <3>5. /\ (\A p \in {u} \X C : \E t \in T : params[t] = p) => Rp(u, C)
          /\ \A s, D : s # u => (R(s, D) <=> Rp(s, D))
      <4>1. /\ \A t \in T : tjob'[t] \in {u} \X C
            /\ \A t, v \in T : tjob'[t] = tjob'[v] => t = v
            /\ \A t \in threadsMap : t \notin T /\ tjob'[t] = tjob[t]
        BY <3>3, <3>4, Zenon
      <4> HIDE DEF Inv3, Inv2, Inv1
      <4>2. /\ (/\ \A p \in {u} \X C : \E t \in T : tjob'[t] = p
                /\ R(u, {})) => RunsIn(threadsMap \cup T, tjob', u, C)
            /\ \A s, D : s # u => (R(s, D) <=> RunsIn(threadsMap \cup T, tjob', s, D))
        BY <4>1, RunsInCreate, Zenon
      <4> QED BY <2>5, <3>4, <4>2, Zenon
    <3> HIDE DEF R, Rp
    <3> QED BY <3>2, <3>5, Zenon
  <2>7. \A q \in Req : q # r /\ Subscribing(q) => rjob[q].sub # u
    <3>1. Subscribing(r) \/ Updating(r)
      BY <2>1, Zenon DEF Subscribing, Updating
    <3> QED BY <2>1, <2>3, <3>1, Zenon DEF FreshOK, Job
  <2>8. ~Empty(r)' /\ ~Removed(r)' /\ InFlux(r)'
    BY <2>1, <2>2, <2>4, Zenon DEF Empty, Removed, InFlux
  <2>9. \A q \in Req : q # r => rpc'[q] = rpc[q] /\ rjob'[q] = rjob[q]
    BY <2>2, <2>4, Zenon
  <2> HIDE DEF R, Rp, Inv3, Inv2, Inv1
  <2>10. /\ InFlux(r)' /\ rjob'[r].sub = u
         /\ Started(r)' => rjob'[r].sub \in dirty' \/ Rp(rjob'[r].sub, rjob'[r].conds)
    BY <2>2, <2>3, <2>6, <2>8, Zenon
  <2>11. r \in InHandler /\ u = rjob[r].sub /\ UNCHANGED <<up, csubs>>
    BY <2>1, <2>2, <2>3, Zenon
  <2> QED BY <1>9, <2>6, <2>7, <2>8, <2>9, <2>10, <2>11, Zenon
<1>19. CASE Crash
  BY <1>19, Zenon DEF Crash, FluxOK, MatchOK, Empty, Removed, Started
<1>20. CASE Restart
  <2> DEFINE P == {p \in Sub \X Cond : csubs[p[1]] # None /\ p[2] \in csubs[p[1]]}
  <2>1. UNCHANGED <<rpc, rjob, csubs>> /\ ~up
    BY <1>20, Zenon DEF Restart
  <2>2. FluxOK'
    BY <2>1, Zenon DEF DownIsIdle, FluxOK, Empty, Removed, Started
  <2>3. PICK T \in SUBSET Tid : \E params \in [T -> P] :
          /\ createIntervalThread(T, params)
          /\ dirty' = {p[1] : p \in {q \in P : \A t \in T : params[t] # q}}
    BY <1>20, Zenon DEF Restart
  <2>4. PICK params \in [T -> P] :
          /\ createIntervalThread(T, params)
          /\ dirty' = {p[1] : p \in {q \in P : \A t \in T : params[t] # q}}
    BY <2>3, Zenon
  <2>5. threadsMap = {}
    BY <2>1, Zenon DEF DownIsIdle, MapTracksThreads
  <2>6. /\ threadsMap' = T
        /\ \A t \in T : tjob'[t] = params[t]
        /\ \A t, v \in T : params[t] = params[v] => t = v
    BY <2>4, <2>5, Zenon DEF createIntervalThread
  <2>7. ASSUME NEW s \in Sub \ dirty' PROVE Rp(s, CondsOf(s)')
    <3>1. CondsOf(s)' = CondsOf(s) /\ CondsOf(s) \in SUBSET Cond
      BY <2>1, Zenon DEF CondsOf, TypeOK
    <3>2. \A c \in Cond : <<s, c>> \in P <=> c \in CondsOf(s)
      BY Zenon DEF CondsOf
    <3>3. \A c \in CondsOf(s) : \E t \in T : params[t] = <<s, c>>
      <4> SUFFICES ASSUME NEW c \in CondsOf(s), \A t \in T : params[t] # <<s, c>>
                   PROVE  s \in dirty'
        BY <2>7, Zenon
      <4>1. <<s, c>> \in P
        BY <3>1, <3>2, Zenon
      <4>2. <<s, c>>[1] = s
        BY Zenon
      <4> HIDE DEF P
      <4> QED BY <2>4, <4>1, <4>2, Zenon
    <3>4. P \in SUBSET (Sub \X Cond)
      BY Zenon
    <3>5. PICK C \in SUBSET Cond : C = CondsOf(s)
      BY <3>1, Zenon
    <3> HIDE DEF P
    <3>6. /\ \A t \in T : tjob'[t] \in Sub \X Cond
          /\ \A t, v \in T : tjob'[t] = tjob'[v] => t = v
          /\ \A c \in C : \E t \in T : tjob'[t] = <<s, c>>
      BY <2>6, <3>3, <3>4, <3>5, Zenon
    <3>7. \A t \in T : tjob'[t][1] = s => tjob'[t][2] \in C
      BY <2>6, <3>2, <3>4, <3>5
    <3>8. RunsIn(T, tjob', s, C)
      BY <3>6, <3>7, RunsInRecover, Zenon
    <3> QED BY <2>6, <3>1, <3>5, <3>8, Zenon
  <2>8. MatchOK'
    BY <2>7, Zenon DEF MatchOK
  <2> QED BY <2>2, <2>8, Zenon
<1> QED
  BY <1>3, <1>4, <1>5, <1>6, <1>7, <1>8, <1>12, <1>13, <1>14, <1>15, <1>16, <1>17, <1>18,
     <1>19, <1>20, Zenon
  DEF Next, HandlerStep

\* The running threads of a subscription are the ones its document asks for.
THEOREM ThreadsFollowDocument == Spec => []ThreadsMatchDocument
<1>1. Init => Inv3
  <2> SUFFICES ASSUME Init PROVE Inv3
    BY Zenon
  <2>1. Inv2
    BY InitInv2, Zenon
  <2>2. ThreadsHaveOids /\ FluxOK
    BY Zenon DEF Init, ThreadsHaveOids, FluxOK, Empty, Removed, Started
  <2>3. MatchOK
    BY Zenon DEF Init, MatchOK, CondsOf, RunsIn
  <2> QED BY <2>1, <2>2, <2>3, Zenon DEF Inv3
<1>2. Inv3 /\ [Next]_vars => Inv3'
  BY NextInv2, NextThreadsHaveOids, NextMatch, Zenon DEF Inv3
<1>3. Inv3 => ThreadsMatchDocument
  <2> SUFFICES ASSUME Inv3, up, NEW s \in Sub \ dirty,
                      \A r \in Req : InFlux(r) => rjob[r].sub # s
               PROVE  RunsExactly(s, CondsOf(s))
    BY Zenon DEF ThreadsMatchDocument
  <2>1. RunsIn(threadsMap, tjob, s, CondsOf(s))
    BY Zenon DEF Inv3, MatchOK
  <2> QED BY <2>1, Zenon DEF RunsIn, RunsExactly, SubOf, CondOf
<1> QED BY <1>1, <1>2, <1>3, PTL DEF Spec

=============================================================================
