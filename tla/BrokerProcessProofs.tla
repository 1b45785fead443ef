------------------------- MODULE BrokerProcessProofs -------------------------
(***************************************************************************)
(* Proofs about the process and about the semaphores of its threads, for   *)
(* any tenants, any subscriptions and any set of threads: both semaphores  *)
(* keep their critical sections apart, and threads and documents of the    *)
(* interval subscriptions agree through any number of restarts.            *)
(***************************************************************************)
EXTENDS BackendSemaphores, BrokerProcess, SequenceTheorems, TLAPS

-----------------------------------------------------------------------------
(* reqSem: BackendSemaphores. *)

\* Every step of a thread preserves the types and the exclusion of reqSem.
LEMMA ReqSemStep ==
  ASSUME TypeOK, ReqSemExclusive, [Next]_vars
  PROVE  TypeOK' /\ ReqSemExclusive'
<1> USE SemaphoresAssumption DEF TypeOK, ReqSemExclusive, UnderReqSem, Place, Kind, Goto
<1>1. CASE UNCHANGED vars
  BY <1>1, Zenon DEF vars
<1>2. ASSUME NEW t \in Thread, NEW k \in Kind, NEW i \in Id, Arrive(t, k, i)
      PROVE  TypeOK' /\ ReqSemExclusive'
  BY <1>2 DEF Arrive
<1>3. ASSUME NEW t \in Thread, reqSemTake(t) PROVE TypeOK' /\ ReqSemExclusive'
  BY <1>3 DEF reqSemTake
<1>4. ASSUME NEW t \in Thread, OID(t) PROVE TypeOK' /\ ReqSemExclusive'
  <2>1. UnderReqSem(t)
    BY <1>4, Zenon DEF OID
  <2>2. CASE id[t] = "valid"
    BY <1>4, <2>2 DEF OID
  <2>3. CASE id[t] = "malformed"
    BY <1>4, <2>1, <2>3 DEF OID
  <2> QED BY <1>4, <2>2, <2>3, Zenon DEF OID
<1>5. ASSUME NEW t \in Thread, Call(t) PROVE TypeOK' /\ ReqSemExclusive'
  BY <1>5 DEF Call
<1>6. ASSUME NEW t \in Thread, mongoSemTake(t) PROVE TypeOK' /\ ReqSemExclusive'
  BY <1>6 DEF mongoSemTake
<1>7. ASSUME NEW t \in Thread, mongoSemGive(t) PROVE TypeOK' /\ ReqSemExclusive'
  BY <1>7 DEF mongoSemGive
<1>8. ASSUME NEW t \in Thread, reqSemGive(t) PROVE TypeOK' /\ ReqSemExclusive'
  BY <1>8 DEF reqSemGive
<1> QED BY <1>1, <1>2, <1>3, <1>4, <1>5, <1>6, <1>7, <1>8, Zenon DEF Next, Run

\* At most one handler is between reqSemTake and reqSemGive, whatever the ids.
THEOREM ReqSemCorrect == Spec => [](TypeOK /\ ReqSemExclusive)
<1>1. Init => TypeOK /\ ReqSemExclusive
  <2> SUFFICES ASSUME Init PROVE TypeOK /\ ReqSemExclusive
    BY Zenon
  <2>1. excess \in BOOLEAN
    BY Zenon DEF Init
  <2>2. TypeOK
    BY <2>1, SemaphoresAssumption DEF Init, TypeOK, Place, Kind
  <2>3. ReqSemExclusive
    BY DEF Init, ReqSemExclusive, UnderReqSem
  <2> QED BY <2>2, <2>3, Zenon
<1>2. TypeOK /\ ReqSemExclusive /\ [Next]_vars => (TypeOK /\ ReqSemExclusive)'
  BY ReqSemStep, Zenon
<1> QED BY <1>1, <1>2, PTL DEF Spec

-----------------------------------------------------------------------------
(* mongoSem: BackendSemaphores. *)

\* Every step preserves the exclusion of mongoSem; the step that breaks it is the one
\* that sets excess, and excess stays set.
LEMMA MongoSemStep ==
  ASSUME TypeOK, MongoSemExclusive, [Next]_vars
  PROVE  MongoSemExclusive'
<1> USE SemaphoresAssumption DEF TypeOK, MongoSemExclusive, OneInDatabase, UnderMongoSem, Place, Kind, Goto
<1>1. CASE UNCHANGED vars
  BY <1>1, Zenon DEF vars
<1>2. ASSUME NEW t \in Thread, NEW k \in Kind, NEW i \in Id, Arrive(t, k, i)
      PROVE  MongoSemExclusive'
  BY <1>2, Zenon DEF Arrive
<1>3. ASSUME NEW t \in Thread, reqSemTake(t) PROVE MongoSemExclusive'
  BY <1>3, ZenonT(30) DEF reqSemTake
<1>4. ASSUME NEW t \in Thread, OID(t) PROVE MongoSemExclusive'
  BY <1>4 DEF OID
<1>5. ASSUME NEW t \in Thread, Call(t) PROVE MongoSemExclusive'
  BY <1>5 DEF Call
<1>6. ASSUME NEW t \in Thread, mongoSemTake(t) PROVE MongoSemExclusive'
  BY <1>6 DEF mongoSemTake
<1>7. ASSUME NEW t \in Thread, mongoSemGive(t) PROVE MongoSemExclusive'
  BY <1>7 DEF mongoSemGive
<1>8. ASSUME NEW t \in Thread, reqSemGive(t) PROVE MongoSemExclusive'
  BY <1>8 DEF reqSemGive
<1> QED BY <1>1, <1>2, <1>3, <1>4, <1>5, <1>6, <1>7, <1>8 DEF Next, Run

\* At most one thread is in a database call that mongoSem guards, the
\* registrationsQuery after reqSemGive included, until a malformed id is handled.
THEOREM MongoSemCorrect == Spec => []MongoSemExclusive
<1>1. Init => MongoSemExclusive
  BY DEF Init, MongoSemExclusive, OneInDatabase, UnderMongoSem
<1>2. TypeOK /\ MongoSemExclusive /\ [Next]_vars => MongoSemExclusive'
  BY MongoSemStep, Zenon
<1> QED BY <1>1, <1>2, ReqSemCorrect, PTL DEF Spec

-----------------------------------------------------------------------------
(* The handlers implement SerialHandlers. *)

\* A thread that goes to another place moves its phase, and no other.
LEMMA GotoPhase ==
  ASSUME TypeOK, NEW t \in Thread, NEW place \in Place, Goto(t, place)
  PROVE  Phases' = [Phases EXCEPT ![t] = Phase(place)]
BY Zenon DEF TypeOK, Goto, Phases

\* The phases of the places.
LEMMA PhaseOfPlace ==
  /\ Phase("idle") = "idle" /\ Phase("wait") = "waiting"
  /\ \A p \in {"oid", "run", "mongo", "db"} : Phase(p) = "working"
  /\ \A p \in {"after", "mongoAfter", "dbAfter"} : Phase(p) = "leaving"
BY Zenon DEF Phase

\* A step within one phase changes none.
LEMMA SamePhase ==
  ASSUME TypeOK, NEW t \in Thread, NEW place \in Place, Goto(t, place), Phase(place) = Phase(pc[t])
  PROVE  Phases' = Phases
BY GotoPhase, Zenon DEF Phases

\* Every step of a thread is a step of SerialHandlers or changes no phase.
LEMMA SerialStep ==
  ASSUME TypeOK, ReqSemExclusive, [Next]_vars
  PROVE  [Handlers!Next]_Phases
<1> USE DEF Place, Kind
<1>0. \A u \in Thread : Phases[u] = Phase(pc[u])
  BY Zenon DEF Phases
<1>1. CASE UNCHANGED vars
  BY <1>1, Zenon DEF vars, Phases
<1>2. ASSUME NEW t \in Thread, NEW k \in Kind, NEW i \in Id, Arrive(t, k, i)
      PROVE  Handlers!Request(t)
  BY <1>0, <1>2, GotoPhase, PhaseOfPlace, ZenonT(30) DEF Arrive, Handlers!Request, Handlers!Become
<1>3. ASSUME NEW t \in Thread, reqSemTake(t) PROVE Handlers!Begin(t)
  <2>1. \A u \in Thread : ~UnderReqSem(u)
    BY <1>3 DEF reqSemTake, ReqSemExclusive, TypeOK
  <2>2. \A u \in Thread : Phases[u] # "working"
    BY <1>0, <2>1, PhaseOfPlace DEF UnderReqSem, TypeOK
  <2>3. Phases' = [Phases EXCEPT ![t] = "working"]
    BY <1>3, GotoPhase, PhaseOfPlace DEF reqSemTake
  <2> QED BY <1>0, <1>3, <2>2, <2>3, PhaseOfPlace, Zenon DEF reqSemTake, Handlers!Begin, Handlers!Become
<1>4. ASSUME NEW t \in Thread, OID(t) PROVE Handlers!End(t) \/ UNCHANGED Phases
  <2>1. CASE id[t] = "valid"
    BY <1>4, <2>1, SamePhase, PhaseOfPlace, Zenon DEF OID
  <2>2. CASE id[t] = "malformed"
    BY <1>0, <1>4, <2>2, GotoPhase, PhaseOfPlace DEF OID, Handlers!End, Handlers!Become
  <2> QED BY <1>4, <2>1, <2>2, Zenon DEF OID
<1>5. ASSUME NEW t \in Thread, Call(t) PROVE UNCHANGED Phases
  BY <1>5, SamePhase, PhaseOfPlace, Zenon DEF Call
<1>6. ASSUME NEW t \in Thread, mongoSemTake(t) PROVE UNCHANGED Phases
  BY <1>6, SamePhase, PhaseOfPlace, Zenon DEF mongoSemTake
<1>7. ASSUME NEW t \in Thread, mongoSemGive(t) PROVE Handlers!Leave(t) \/ UNCHANGED Phases
  <2>1. CASE pc[t] = "db"
    BY <1>7, <2>1, SamePhase, PhaseOfPlace, Zenon DEF mongoSemGive
  <2>2. CASE pc[t] = "dbAfter"
    BY <1>0, <1>7, <2>2, GotoPhase, PhaseOfPlace, Zenon DEF mongoSemGive, Handlers!Leave, Handlers!Become
  <2> QED BY <1>7, <2>1, <2>2, Zenon DEF mongoSemGive
<1>8. ASSUME NEW t \in Thread, reqSemGive(t) PROVE Handlers!End(t)
  BY <1>0, <1>8, GotoPhase, PhaseOfPlace DEF reqSemGive, Handlers!End, Handlers!Become
<1> QED BY <1>1, <1>2, <1>3, <1>4, <1>5, <1>6, <1>7, <1>8, Zenon DEF Next, Run, Handlers!Next

\* For any set of threads the handlers implement the specification of serial handlers:
\* each waits, works alone and ends once, the paths of the exceptions included.
THEOREM HandlersImplement == Spec => HandlersSerial
<1>1. Init => Handlers!Init
  BY PhaseOfPlace, Zenon DEF Init, Handlers!Init, Phases
<1>2. TypeOK /\ ReqSemExclusive /\ [Next]_vars => [Handlers!Next]_Phases
  BY SerialStep, Zenon
<1> QED BY <1>1, <1>2, ReqSemCorrect, PTL DEF Spec, HandlersSerial, Handlers!Spec

-----------------------------------------------------------------------------
(* Restarts: BrokerProcess. *)

\* A subscription is in one database.
StoredOnce == \A d, e \in stored : d.sub = e.sub => d = e

\* Threads are in memory.
DownWithoutThreads == running = "down" => threads = {}

\* The subscriptions of the database of tenant that still need their thread are those of
\* a database whose recovery failed or has not begun.
Accounted(tenant, sub) ==
  \/ \E th \in threads : th.sub = sub /\ composeDatabaseName(th.tenant) = composeDatabaseName(tenant)
  \/ \E t \in lost \cup pending : composeDatabaseName(t) = composeDatabaseName(tenant)

Recovering ==
  running \in {"recover", "serve"} /\ ~options.ngsi9Only =>
    \A tenant \in ClientTenant : \A sub \in OnTimeIntervalSubscriptions(tenant) : Accounted(tenant, sub)

\* mongoSem is taken in mongoConnect only, and what follows has the connection.
Connected ==
  /\ running = "login" => connection
  /\ running \in {"index", "init", "recover", "serve"} => connection /\ ~mongoTaken
  /\ running = "serve" => listening # {} /\ pending = {}

ProcessInv ==
  ProcessTypeOK /\ StoredOnce /\ DownWithoutThreads /\ ThreadsOfOwnDatabase /\ Recovering /\ Connected

-----------------------------------------------------------------------------
(* Names of databases. *)

\* What follows the first two elements of a sequence.
LEMMA AfterTwo ==
  ASSUME NEW S, NEW p \in Seq(S), NEW t \in Seq(S), Len(p) = 2
  PROVE  /\ p \o t \in Seq(S)
         /\ Len(p \o t) = 2 + Len(t)
         /\ 2 <= Len(p \o t)
         /\ SubSeq(p \o t, 1, 2) = SubSeq(p, 1, 2)
         /\ SubSeq(p \o t, 3, 2 + Len(t)) = t
<1>1. /\ p \o t \in Seq(S)
      /\ Len(p \o t) = Len(p) + Len(t)
      /\ \A i \in 1 .. Len(p) + Len(t) : (p \o t)[i] = IF i <= Len(p) THEN p[i] ELSE t[i - Len(p)]
  BY ConcatProperties, Zenon
<1>2. Len(t) \in Nat /\ \A i \in 1 .. Len(t) : t[i] \in S
  BY LenProperties, Zenon
<1>3. SubSeq(p \o t, 1, 2) = SubSeq(p, 1, 2)
  <2>1. 1 \in 1 .. Len(p) /\ 2 \in 1 .. Len(p)
    OBVIOUS
  <2> QED BY <2>1, SubSeqOfConcat1, Zenon
<1>4. SubSeq(p \o t, 3, 2 + Len(t)) = t
  <2>1. CASE t = << >>
    <3>1. 2 + Len(t) < 3 /\ 3 \in Int /\ 2 + Len(t) \in Int
      BY <2>1, EmptySeq
    <3>2. SubSeq(p \o t, 3, 2 + Len(t)) = << >>
      BY <3>1, SubSeqEmpty, Zenon
    <3> QED BY <2>1, <3>2, Zenon
  <2>2. CASE t # << >>
    <3>1. Len(t) \in Nat \ {0}
      BY <2>2, EmptySeq, Zenon
    <3> DEFINE n == 2 + Len(t)
    <3>2. 3 \in Len(p) + 1 .. Len(p) + Len(t) /\ n \in Len(p) + 1 .. Len(p) + Len(t)
      BY <3>1
    <3>3. 3 - Len(p) = 1 /\ n - Len(p) = Len(t)
      BY <3>1
    <3> HIDE DEF n
    <3>4. SubSeq(p \o t, 3, n) = SubSeq(t, 3 - Len(p), n - Len(p))
      BY <3>2, SubSeqOfConcat2, Zenon
    <3>5. SubSeq(t, 1, Len(t)) = t
      BY SubSeqFull, Zenon
    <3>6. SubSeq(p \o t, 3, n) = t
      BY <3>3, <3>4, <3>5, Zenon
    <3> QED BY <3>6, Zenon DEF n
  <2> QED BY <2>1, <2>2, Zenon
<1> QED BY <1>1, <1>2, <1>3, <1>4

\* The tenant is found again in the name of its database.
LEMMA TenantOfDatabase ==
  ASSUME NEW t \in Seq(Part)
  PROVE  /\ dbPrefix \o <<"-">> \o t \in Seq(Part)
         /\ BeginsWith(dbPrefix \o <<"-">> \o t, dbPrefix \o <<"-">>)
         /\ TenantOf(dbPrefix \o <<"-">> \o t) = t
<1> DEFINE p == dbPrefix \o <<"-">>
<1>0. dbPrefix \in Seq(Part) /\ Len(dbPrefix) = 1 /\ <<"-">> \in Seq(Part) /\ Len(<<"-">>) = 1
  BY ProcessAssumption DEF dbPrefix
<1>1. p \in Seq(Part) /\ Len(p) = Len(dbPrefix) + Len(<<"-">>)
  BY <1>0, ConcatProperties, Zenon
<1>2. Len(p) = 2
  BY <1>0, <1>1
<1> HIDE DEF p
<1>3. /\ p \o t \in Seq(Part)
      /\ Len(p \o t) = 2 + Len(t) /\ 2 <= Len(p \o t)
      /\ SubSeq(p \o t, 1, 2) = SubSeq(p, 1, 2)
      /\ SubSeq(p \o t, 3, 2 + Len(t)) = t
  BY <1>1, <1>2, AfterTwo
<1>4. BeginsWith(p \o t, p)
  <2>1. SubSeq(p, 1, 2) = p
    BY <1>1, <1>2, SubSeqFull, Zenon
  <2> QED BY <1>2, <1>3, <2>1, Zenon DEF BeginsWith
<1>5. TenantOf(p \o t) = t
  BY <1>0, <1>3 DEF TenantOf
<1> QED BY <1>3, <1>4, <1>5, Zenon DEF p

-----------------------------------------------------------------------------
(* Types. *)

\* The end of the process leaves the types as they are.
LEMMA GoneTypes ==
  ASSUME ProcessTypeOK, Gone, pidFile' \in BOOLEAN, parent' \in BOOLEAN
  PROVE  ProcessTypeOK'
<1>1. Usual \in Options
  BY Zenon DEF Options
<1>2. 0 \in 0 .. MaxTries
  BY ProcessAssumption
<1> QED BY <1>1, <1>2, Zenon DEF ProcessTypeOK, Gone

\* exit() and an uncaught exception leave the types as they are.
LEMMA EndTypes ==
  ASSUME ProcessTypeOK, exitFunc \/ Abort
  PROVE  ProcessTypeOK'
BY GoneTypes, Zenon DEF exitFunc, Abort, ProcessTypeOK

\* The documents found for a tenant are in its database.
LEMMA StoredForTenant ==
  ASSUME ProcessTypeOK, NEW tenant, NEW sub
  PROVE  sub \in OnTimeIntervalSubscriptions(tenant)
           <=> [db |-> composeDatabaseName(tenant), sub |-> sub] \in stored
BY DEF ProcessTypeOK, OnTimeIntervalSubscriptions

\* The database of a tenant has a name.
LEMMA NameOfDatabase ==
  ASSUME NEW tenant \in Seq(Part)
  PROVE  composeDatabaseName(tenant) \in Seq(Part)
<1>1. dbPrefix \in Seq(Part)
  BY ProcessAssumption DEF dbPrefix
<1> QED BY <1>1, TenantOfDatabase, Zenon DEF composeDatabaseName

\* Databases have names.
LEMMA DatabasesNamed ==
  ASSUME ProcessTypeOK
  PROVE  getOrionDatabases \subseteq Seq(Part)
BY Zenon DEF ProcessTypeOK, getOrionDatabases, Databases

\* What follows the separator in the name of a database is a name.
LEMMA TenantsNamed ==
  ASSUME NEW db \in Seq(Part)
  PROVE  TenantOf(db) \in Seq(Part)
<1>1. Len(dbPrefix) + 2 \in Nat /\ Len(db) \in Nat
  BY LenProperties DEF dbPrefix
<1>2. \A i \in Len(dbPrefix) + 2 .. Len(db) : db[i] \in Part
  BY <1>1, LenProperties
<1> QED BY <1>1, <1>2, SubSeqProperties DEF TenantOf

\* The types through every step that is not the end of the process.
LEMMA TypeStep ==
  ASSUME ProcessTypeOK, [ProcessNext]_processVars
  PROVE  ProcessTypeOK'
<1> USE ProcessAssumption
<1>1. CASE UNCHANGED processVars
  BY <1>1, Zenon DEF processVars, ProcessTypeOK
<1>2. CASE Start
  <2>1. PICK o \in Options :
          \/ exitFunc
          \/ /\ options' = o /\ running' = "pidFile" /\ parent' \in {FALSE, ~o.fg}
             /\ UNCHANGED <<pidFile, tries, mongoTaken, connection, pending, lost, listening, stored, threads>>
    BY <1>2, Zenon DEF Start
  <2>2. parent' \in {FALSE, ~o.fg} => parent' \in BOOLEAN
    BY Zenon
  <2> QED BY <2>1, <2>2, EndTypes, Zenon DEF ProcessTypeOK
<1>3. CASE ParentExit
  BY <1>3, Zenon DEF ParentExit, ProcessTypeOK
<1>4. CASE PidFile
  <2>1. pidFile' \in BOOLEAN /\ mongoTaken' \in BOOLEAN
    BY <1>4, Zenon DEF PidFile, orionInit, ProcessTypeOK
  <2> QED BY <1>4, <2>1, Zenon DEF PidFile, ProcessTypeOK
<1>5. CASE Connect
  <2>1. CASE exitFunc
    BY <2>1, EndTypes, Zenon
  <2>2. CASE ~exitFunc
    <3>1. mongoTaken' \in BOOLEAN /\ connection' \in BOOLEAN
      BY <1>5, <2>2, Zenon DEF Connect, ProcessTypeOK
    <3>2. tries' \in 0 .. MaxTries
      BY <1>5, <2>2 DEF Connect, ProcessTypeOK
    <3> QED BY <1>5, <2>2, <3>1, <3>2, Zenon DEF Connect, ProcessTypeOK
  <2> QED BY <2>1, <2>2, Zenon
<1>6. CASE Login
  BY <1>6, EndTypes, Zenon DEF Login, ProcessTypeOK
<1>7. CASE mongoInit
  BY <1>7, EndTypes, Zenon DEF mongoInit, ProcessTypeOK
<1>8. CASE contextBrokerInit
  <2>1. CASE Abort
    BY <2>1, EndTypes, Zenon
  <2>2. CASE ~Abort
    <3>1. pending' \subseteq Seq(Part)
      <4>1. << >> \in Seq(Part)
        BY EmptySeq, Zenon
      <4>2. \A db \in getOrionDatabases : TenantOf(db) \in Seq(Part)
        BY DatabasesNamed, TenantsNamed, Zenon
      <4> QED BY <1>8, <2>2, <4>1, <4>2, Zenon DEF contextBrokerInit
    <3> QED BY <1>8, <2>2, <3>1, Zenon DEF contextBrokerInit, ProcessTypeOK
  <2> QED BY <2>1, <2>2, Zenon
<1>9. CASE Serve
  <2>1. CASE exitFunc
    BY <2>1, EndTypes, Zenon
  <2>2. CASE ~exitFunc
    <3>1. listening' \subseteq {"v4", "v6"}
      BY <1>9, <2>2, Zenon DEF Serve, restInit, Wanted
    <3> QED BY <1>9, <2>2, <3>1, Zenon DEF Serve, ProcessTypeOK
  <2> QED BY <2>1, <2>2, Zenon
<1>10. ASSUME NEW tenant \in pending, Recover(tenant) PROVE ProcessTypeOK'
  <2>1. tenant \in Seq(Part)
    BY Zenon DEF ProcessTypeOK
  <2>2. \A x \in OnTimeIntervalSubscriptions(tenant) : x \in Subscription
    BY Zenon DEF OnTimeIntervalSubscriptions, ProcessTypeOK
  <2> QED BY <1>10, <2>1, <2>2 DEF Recover, ProcessTypeOK
<1>11. ASSUME NEW tenant \in ClientTenant, NEW sub \in Subscription, Subscribe(tenant, sub)
       PROVE  ProcessTypeOK'
  BY <1>11, NameOfDatabase DEF Subscribe, ProcessTypeOK
<1>12. ASSUME NEW tenant \in ClientTenant, NEW sub \in Subscription, Unsubscribe(tenant, sub)
       PROVE  ProcessTypeOK'
  BY <1>12, Zenon DEF Unsubscribe, ProcessTypeOK
<1>13. CASE orionExit
  BY <1>13, EndTypes, Zenon DEF orionExit, ProcessTypeOK
<1>14. CASE Exit \/ Signal \/ Killed
  BY <1>14, EndTypes, Zenon DEF Exit, Signal, Killed
<1> QED
  BY <1>1, <1>2, <1>3, <1>4, <1>5, <1>6, <1>7, <1>8, <1>9, <1>10, <1>11, <1>12, <1>13, <1>14, Zenon
  DEF ProcessNext

-----------------------------------------------------------------------------
(* The invariant. *)

\* The end of the process keeps it: there are no threads, and nothing is served.
LEMMA EndInv ==
  ASSUME ProcessInv, exitFunc \/ Abort
  PROVE  ProcessInv'
<1>1. Gone
  BY Zenon DEF exitFunc, Abort
<1>2. ProcessTypeOK'
  BY EndTypes, Zenon DEF ProcessInv
<1>3. running' = "down" /\ threads' = {} /\ stored' = stored
  BY <1>1, Zenon DEF Gone
<1> QED
  BY <1>2, <1>3, Zenon
  DEF ProcessInv, StoredOnce, DownWithoutThreads, ThreadsOfOwnDatabase, Recovering, Connected

\* So does a step that leaves the options, the documents, the threads and what is still
\* to be recovered alone and does not begin the recovery.
LEMMA QuietInv ==
  ASSUME ProcessInv, ProcessTypeOK', Connected',
         UNCHANGED <<options, pending, lost, stored, threads>>,
         running' = "down" => running = "down",
         running' \in {"recover", "serve"} => running \in {"recover", "serve"}
  PROVE  ProcessInv'
<1>1. \A t : composeDatabaseName(t)' = composeDatabaseName(t)
  BY Zenon DEF composeDatabaseName
<1>2. \A t : OnTimeIntervalSubscriptions(t)' = OnTimeIntervalSubscriptions(t)
  BY <1>1, Zenon DEF OnTimeIntervalSubscriptions
<1>3. StoredOnce' /\ DownWithoutThreads'
  BY Zenon DEF ProcessInv, StoredOnce, DownWithoutThreads
<1>4. ThreadsOfOwnDatabase'
  BY <1>1, Zenon DEF ProcessInv, ThreadsOfOwnDatabase
<1>5. Recovering'
  <2>1. ASSUME NEW tenant, NEW sub, Accounted(tenant, sub) PROVE Accounted(tenant, sub)'
    BY <1>1, <2>1, Zenon DEF Accounted
  <2> QED BY <1>2, <2>1, Zenon DEF ProcessInv, Recovering
<1> QED BY <1>3, <1>4, <1>5, Zenon DEF ProcessInv

\* The recovery begins: every database that clients reach is among the pending ones.
LEMMA RecoveryBegins ==
  ASSUME ProcessInv, contextBrokerInit, ~Abort
  PROVE  ProcessInv'
<1>0. /\ running = "init" /\ running' = "recover"
      /\ ~options.ngsi9Only => << >> \in pending'
      /\ ~options.ngsi9Only /\ options.mtenant => \A db \in getOrionDatabases : TenantOf(db) \in pending'
      /\ UNCHANGED <<options, parent, pidFile, tries, mongoTaken, connection, lost, listening, stored, threads>>
  BY Zenon DEF contextBrokerInit
<1>1. \A t : composeDatabaseName(t)' = composeDatabaseName(t)
  BY <1>0, Zenon DEF composeDatabaseName
<1>2. \A t : OnTimeIntervalSubscriptions(t)' = OnTimeIntervalSubscriptions(t)
  BY <1>0, <1>1, Zenon DEF OnTimeIntervalSubscriptions
<1>3. ProcessTypeOK'
  BY TypeStep, Zenon DEF ProcessInv, ProcessNext
<1>4. StoredOnce' /\ DownWithoutThreads' /\ Connected'
  BY <1>0, Zenon DEF ProcessInv, StoredOnce, DownWithoutThreads, Connected
<1>5. ThreadsOfOwnDatabase'
  BY <1>0, <1>1, Zenon DEF ProcessInv, ThreadsOfOwnDatabase
<1>6. ASSUME ~options.ngsi9Only, NEW tenant \in ClientTenant, NEW sub \in OnTimeIntervalSubscriptions(tenant)
      PROVE  \E t \in pending' : composeDatabaseName(t) = composeDatabaseName(tenant)
  <2>1. CASE ~options.mtenant \/ tenant = << >>
    BY <1>0, <1>6, <2>1, Zenon DEF composeDatabaseName
  <2>2. CASE options.mtenant /\ tenant # << >>
    <3> DEFINE db == dbPrefix \o <<"-">> \o tenant
    <3>1. composeDatabaseName(tenant) = db
      BY <2>2, Zenon DEF composeDatabaseName
    <3>2. BeginsWith(db, dbPrefix \o <<"-">>) /\ TenantOf(db) = tenant
      BY TenantOfDatabase, ProcessAssumption, Zenon
    <3> HIDE DEF db
    <3>3. [db |-> db, sub |-> sub] \in stored
      BY <3>1, StoredForTenant, Zenon DEF ProcessInv
    <3>4. db \in Databases
      BY <3>3 DEF Databases
    <3>5. db \in getOrionDatabases
      BY <3>2, <3>4, Zenon DEF getOrionDatabases
    <3>6. tenant \in pending'
      BY <1>0, <1>6, <2>2, <3>2, <3>5, Zenon
    <3> QED BY <3>6, Zenon
  <2> QED BY <2>1, <2>2, Zenon
<1>7. Recovering'
  <2>1. ASSUME ~options.ngsi9Only, NEW tenant \in ClientTenant, NEW sub \in OnTimeIntervalSubscriptions(tenant)
        PROVE  Accounted(tenant, sub)'
    BY <1>1, <1>6, <2>1, Zenon DEF Accounted
  <2> QED BY <1>0, <1>2, <2>1, Zenon DEF Recovering
<1> QED BY <1>3, <1>4, <1>5, <1>7, Zenon DEF ProcessInv

\* The recovery of a tenant: its subscriptions get their threads, or it is lost.
LEMMA RecoveryGoesOn ==
  ASSUME ProcessInv, NEW tenant \in pending, Recover(tenant)
  PROVE  ProcessInv'
<1>0. /\ running = "recover" /\ pending' = pending \ {tenant}
      /\ UNCHANGED <<options, running, parent, pidFile, tries, mongoTaken, connection, listening, stored>>
  BY Zenon DEF Recover
<1>1. \A t : composeDatabaseName(t)' = composeDatabaseName(t)
  BY <1>0, Zenon DEF composeDatabaseName
<1>2. \A t : OnTimeIntervalSubscriptions(t)' = OnTimeIntervalSubscriptions(t)
  BY <1>0, <1>1, Zenon DEF OnTimeIntervalSubscriptions
<1>3. ProcessTypeOK'
  BY TypeStep, Zenon DEF ProcessInv, ProcessNext
<1>4. StoredOnce' /\ DownWithoutThreads' /\ Connected'
  BY <1>0, Zenon DEF ProcessInv, StoredOnce, DownWithoutThreads, Connected
<1>5. ThreadsOfOwnDatabase'
  <2>1. \A s \in OnTimeIntervalSubscriptions(tenant) :
          [db |-> composeDatabaseName(tenant), sub |-> s] \in stored
    BY StoredForTenant, Zenon DEF ProcessInv
  <2>2. \A th \in threads' :
          th \in threads \/ \E s \in OnTimeIntervalSubscriptions(tenant) : th = [tenant |-> tenant, sub |-> s]
    BY Zenon DEF Recover
  <2>3. \A th \in threads' : [db |-> composeDatabaseName(th.tenant), sub |-> th.sub] \in stored
    BY <2>1, <2>2 DEF ProcessInv, ThreadsOfOwnDatabase
  <2> QED BY <1>0, <1>1, <2>3, Zenon DEF ThreadsOfOwnDatabase
<1>6. ASSUME NEW t, NEW sub \in OnTimeIntervalSubscriptions(t), Accounted(t, sub)
      PROVE  Accounted(t, sub)'
  <2>1. threads \subseteq threads' /\ lost \subseteq lost'
    BY Zenon DEF Recover
  <2>2. CASE composeDatabaseName(t) # composeDatabaseName(tenant)
    BY <1>0, <1>1, <1>6, <2>1, <2>2, Zenon DEF Accounted
  <2>3. CASE composeDatabaseName(t) = composeDatabaseName(tenant)
    <3>1. CASE tenant \in lost'
      BY <1>1, <2>3, <3>1, Zenon DEF Accounted
    <3>2. CASE tenant \notin lost'
      <4>1. sub \in OnTimeIntervalSubscriptions(tenant)
        BY <2>3, Zenon DEF OnTimeIntervalSubscriptions
      <4>2. [tenant |-> tenant, sub |-> sub] \in threads'
        BY <3>2, <4>1, Zenon DEF Recover
      <4> QED BY <1>1, <2>3, <4>2, Zenon DEF Accounted
    <3> QED BY <3>1, <3>2, Zenon
  <2> QED BY <2>2, <2>3, Zenon
<1>7. Recovering'
  BY <1>0, <1>2, <1>6, Zenon DEF ProcessInv, Recovering
<1> QED BY <1>3, <1>4, <1>5, <1>7, Zenon DEF ProcessInv

\* A subscription gets its document and its thread.
LEMMA SubscribeInv ==
  ASSUME ProcessInv, NEW tenant \in ClientTenant, NEW sub \in Subscription, Subscribe(tenant, sub)
  PROVE  ProcessInv'
<1> DEFINE doc == [db |-> composeDatabaseName(tenant), sub |-> sub]
<1> DEFINE th == [tenant |-> tenant, sub |-> sub]
<1>0. /\ running = "serve" /\ stored' = stored \cup {doc} /\ threads' = threads \cup {th}
      /\ \A d \in stored : d.sub # sub
      /\ UNCHANGED <<options, running, parent, pidFile, tries, mongoTaken, connection, pending, lost, listening>>
  BY Zenon DEF Subscribe
<1>d. doc.db = composeDatabaseName(tenant) /\ doc.sub = sub /\ th.tenant = tenant /\ th.sub = sub
  BY Zenon
<1> HIDE DEF doc, th
<1>1. \A t : composeDatabaseName(t)' = composeDatabaseName(t)
  BY <1>0, Zenon DEF composeDatabaseName
<1>3. ProcessTypeOK'
  BY TypeStep, Zenon DEF ProcessInv, ProcessNext
<1>4. StoredOnce' /\ DownWithoutThreads' /\ Connected'
  BY <1>0, <1>d, Zenon DEF ProcessInv, StoredOnce, DownWithoutThreads, Connected
<1>5. ThreadsOfOwnDatabase'
  <2>1. [db |-> composeDatabaseName(th.tenant), sub |-> th.sub] = doc
    BY <1>d, Zenon DEF doc
  <2> QED BY <1>0, <1>1, <2>1, Zenon DEF ProcessInv, ThreadsOfOwnDatabase
<1>6. ASSUME ~options.ngsi9Only, NEW t \in ClientTenant, NEW x \in OnTimeIntervalSubscriptions(t)'
      PROVE  Accounted(t, x)'
  <2>1. PICK d \in stored' : d.db = composeDatabaseName(t) /\ d.sub = x
    BY <1>1, Zenon DEF OnTimeIntervalSubscriptions
  <2>2. CASE d = doc
    BY <1>0, <1>1, <1>d, <2>1, <2>2, Zenon DEF Accounted
  <2>3. CASE d \in stored
    <3>1. x \in OnTimeIntervalSubscriptions(t)
      BY <2>1, <2>3, Zenon DEF OnTimeIntervalSubscriptions
    <3>2. Accounted(t, x)
      BY <1>0, <1>6, <3>1, Zenon DEF ProcessInv, Recovering
    <3> QED BY <1>0, <1>1, <3>2, Zenon DEF Accounted
  <2> QED BY <1>0, <2>2, <2>3, Zenon
<1>7. Recovering'
  BY <1>0, <1>6, Zenon DEF Recovering
<1> QED BY <1>3, <1>4, <1>5, <1>7, Zenon DEF ProcessInv

\* A subscription is removed with all its threads, whatever tenant they were made with.
LEMMA UnsubscribeInv ==
  ASSUME ProcessInv, NEW tenant \in ClientTenant, NEW sub \in Subscription, Unsubscribe(tenant, sub)
  PROVE  ProcessInv'
<1> DEFINE doc == [db |-> composeDatabaseName(tenant), sub |-> sub]
<1>0. /\ running = "serve" /\ stored' = stored \ {doc} /\ threads' = {th \in threads : th.sub # sub}
      /\ sub \in OnTimeIntervalSubscriptions(tenant)
      /\ UNCHANGED <<options, running, parent, pidFile, tries, mongoTaken, connection, pending, lost, listening>>
  BY Zenon DEF Unsubscribe
<1>d. doc.sub = sub /\ doc \in stored
  BY <1>0, StoredForTenant, Zenon DEF ProcessInv
<1>1. \A t : composeDatabaseName(t)' = composeDatabaseName(t)
  BY <1>0, Zenon DEF composeDatabaseName
<1>3. ProcessTypeOK'
  BY TypeStep, Zenon DEF ProcessInv, ProcessNext
<1>4. StoredOnce' /\ DownWithoutThreads' /\ Connected'
  BY <1>0, Zenon DEF ProcessInv, StoredOnce, DownWithoutThreads, Connected
<1>5. ThreadsOfOwnDatabase'
  <2>1. ASSUME NEW th \in threads'
        PROVE  [db |-> composeDatabaseName(th.tenant), sub |-> th.sub] \in stored'
    BY <1>0, <2>1, Zenon DEF ProcessInv, ThreadsOfOwnDatabase
  <2> QED BY <1>1, <2>1, Zenon DEF ThreadsOfOwnDatabase
<1> HIDE DEF doc
<1>6. ASSUME ~options.ngsi9Only, NEW t \in ClientTenant, NEW x \in OnTimeIntervalSubscriptions(t)'
      PROVE  Accounted(t, x)'
  <2>1. PICK d \in stored' : d.db = composeDatabaseName(t) /\ d.sub = x
    BY <1>1, Zenon DEF OnTimeIntervalSubscriptions
  <2>2. x # sub
    BY <1>0, <1>d, <2>1, Zenon DEF ProcessInv, StoredOnce
  <2>3. x \in OnTimeIntervalSubscriptions(t)
    BY <1>0, <2>1, Zenon DEF OnTimeIntervalSubscriptions
  <2>4. Accounted(t, x)
    BY <1>0, <1>6, <2>3, Zenon DEF ProcessInv, Recovering
  <2> QED BY <1>0, <1>1, <2>2, <2>4, Zenon DEF Accounted
<1>7. Recovering'
  BY <1>0, <1>6, Zenon DEF Recovering
<1> QED BY <1>3, <1>4, <1>5, <1>7, Zenon DEF ProcessInv

\* Every step of the process keeps the invariant.
LEMMA InvStep ==
  ASSUME ProcessInv, [ProcessNext]_processVars
  PROVE  ProcessInv'
<1>0. ProcessTypeOK'
  BY TypeStep, Zenon DEF ProcessInv
<1>1. CASE UNCHANGED processVars
  BY <1>0, <1>1, QuietInv, Zenon DEF processVars, ProcessInv, Connected
<1>2. CASE Start
  <2>1. CASE exitFunc
    BY <2>1, EndInv, Zenon
  <2>2. CASE ~exitFunc
    <3>1. running' = "pidFile" /\ stored' = stored /\ threads' = {}
      BY <1>2, <2>2, Zenon DEF Start, ProcessInv, DownWithoutThreads
    <3> QED
      BY <1>0, <3>1, Zenon
      DEF ProcessInv, StoredOnce, DownWithoutThreads, ThreadsOfOwnDatabase, Recovering, Connected
  <2> QED BY <2>1, <2>2, Zenon
<1>3. CASE ParentExit
  BY <1>0, <1>3, QuietInv, Zenon DEF ParentExit, ProcessInv, Connected
<1>4. CASE PidFile
  BY <1>0, <1>4, QuietInv, Zenon DEF PidFile, ProcessInv, Connected
<1>5. CASE Connect
  <2>1. CASE exitFunc
    BY <2>1, EndInv, Zenon
  <2>2. CASE ~exitFunc
    BY <1>0, <1>5, <2>2, QuietInv, Zenon DEF Connect, ProcessInv, Connected
  <2> QED BY <2>1, <2>2, Zenon
<1>6. CASE Login
  <2>1. CASE exitFunc \/ Abort
    BY <2>1, EndInv, Zenon
  <2>2. CASE ~(exitFunc \/ Abort)
    <3>1. connection
      BY <1>6, Zenon DEF Login, ProcessInv, Connected
    <3>2. /\ running = "login" /\ running' = "index" /\ mongoTaken' = FALSE /\ connection' = connection
          /\ UNCHANGED <<options, pending, lost, stored, threads>>
      BY <1>6, <2>2, Zenon DEF Login
    <3>3. Connected'
      BY <3>1, <3>2, Zenon DEF Connected
    <3> QED BY <1>0, <3>2, <3>3, QuietInv, Zenon
  <2> QED BY <2>1, <2>2, Zenon
<1>7. CASE mongoInit
  <2>1. CASE Abort
    BY <2>1, EndInv, Zenon
  <2>2. CASE ~Abort
    <3>1. /\ running = "index" /\ running' = "init"
          /\ UNCHANGED <<options, mongoTaken, connection, pending, lost, stored, threads>>
      BY <1>7, <2>2, Zenon DEF mongoInit
    <3>2. Connected'
      BY <3>1, Zenon DEF ProcessInv, Connected
    <3> QED BY <1>0, <3>1, <3>2, QuietInv, Zenon
  <2> QED BY <2>1, <2>2, Zenon
<1>8. CASE contextBrokerInit
  BY <1>8, EndInv, RecoveryBegins, Zenon
<1>9. CASE Serve
  <2>1. CASE exitFunc
    BY <2>1, EndInv, Zenon
  <2>2. CASE ~exitFunc
    <3>1. /\ running = "recover" /\ running' = "serve" /\ listening' # {} /\ pending = {}
          /\ UNCHANGED <<options, mongoTaken, connection, pending, lost, stored, threads>>
      <4>1. /\ running = "recover" /\ running' = "serve" /\ restInit /\ pending = {}
            /\ UNCHANGED <<options, mongoTaken, connection, pending, lost, stored, threads>>
        BY <1>9, <2>2, Zenon DEF Serve
      <4>2. listening' # {}
        BY <4>1, Zenon DEF restInit
      <4> QED BY <4>1, <4>2, Zenon
    <3>2. Connected'
      BY <3>1, Zenon DEF ProcessInv, Connected
    <3> QED BY <1>0, <3>1, <3>2, QuietInv, Zenon
  <2> QED BY <2>1, <2>2, Zenon
<1>10. ASSUME NEW tenant \in pending, Recover(tenant) PROVE ProcessInv'
  BY <1>10, RecoveryGoesOn, Zenon
<1>11. ASSUME NEW tenant \in ClientTenant, NEW sub \in Subscription,
              Subscribe(tenant, sub) \/ Unsubscribe(tenant, sub)
       PROVE  ProcessInv'
  BY <1>11, SubscribeInv, UnsubscribeInv, Zenon
<1>12. CASE orionExit
  <2>1. CASE Abort
    BY <2>1, EndInv, Zenon
  <2>2. CASE ~Abort
    <3>1. running' = "exit" /\ threads' \subseteq threads /\ UNCHANGED <<options, stored>>
      BY <1>12, <2>2, Zenon DEF orionExit
    <3>2. \A t : composeDatabaseName(t)' = composeDatabaseName(t)
      BY <3>1, Zenon DEF composeDatabaseName
    <3>3. ThreadsOfOwnDatabase'
      BY <3>1, <3>2, Zenon DEF ProcessInv, ThreadsOfOwnDatabase
    <3> QED
      BY <1>0, <3>1, <3>3, Zenon DEF ProcessInv, StoredOnce, DownWithoutThreads, Recovering, Connected
  <2> QED BY <2>1, <2>2, Zenon
<1>13. CASE Exit \/ Signal \/ Killed
  BY <1>13, EndInv, Zenon DEF Exit, Signal, Killed
<1> QED
  BY <1>1, <1>2, <1>3, <1>4, <1>5, <1>6, <1>7, <1>8, <1>9, <1>10, <1>11, <1>12, <1>13, Zenon
  DEF ProcessNext

\* The process begins in the invariant.
LEMMA InvInit ==
  ASSUME ProcessInit
  PROVE  ProcessInv
<1>1. options \in Options
  BY Zenon DEF ProcessInit, Options
<1>2. parent \in BOOLEAN /\ pidFile \in BOOLEAN /\ mongoTaken \in BOOLEAN /\ connection \in BOOLEAN
  BY Zenon DEF ProcessInit
<1>3. tries \in 0 .. MaxTries
  BY ProcessAssumption DEF ProcessInit
<1>4. Foreign \in Seq(Part) /\ (CHOOSE sub \in Subscription : TRUE) \in Subscription
  BY ProcessAssumption DEF Foreign
<1>5. stored = {[db |-> Foreign, sub |-> CHOOSE sub \in Subscription : TRUE]}
  BY Zenon DEF ProcessInit
<1>6. stored \subseteq [db : Seq(Part), sub : Subscription]
  BY <1>4, <1>5
<1>7. /\ running = "down" /\ pending = {} /\ lost = {} /\ listening = {} /\ threads = {}
  BY Zenon DEF ProcessInit
<1>8. ProcessTypeOK
  BY <1>1, <1>2, <1>3, <1>6, <1>7, Zenon DEF ProcessTypeOK
<1>9. StoredOnce
  BY <1>5, Zenon DEF StoredOnce
<1> QED
  BY <1>7, <1>8, <1>9, Zenon
  DEF ProcessInv, DownWithoutThreads, ThreadsOfOwnDatabase, Recovering, Connected

\* The invariant holds in every state of the process, through all its restarts.
THEOREM ProcessCorrect == ProcessSpec => []ProcessInv
BY InvInit, InvStep, PTL DEF ProcessSpec

\* For any tenants and subscriptions, every interval subscription stored in a database that
\* clients reach has its thread after a restart, unless the query of its database failed.
THEOREM RecoveryComplete == ProcessSpec => []IntervalsRecovered
<1>1. ProcessInv => IntervalsRecovered
  BY Zenon DEF ProcessInv, Recovering, Accounted, Connected, IntervalsRecovered
<1> QED BY <1>1, ProcessCorrect, PTL

\* The tenant of every interval thread leads to the database that holds its subscription.
THEOREM ThreadsInOwnDatabase == ProcessSpec => []ThreadsOfOwnDatabase
<1>1. ProcessInv => ThreadsOfOwnDatabase
  BY Zenon DEF ProcessInv
<1> QED BY <1>1, ProcessCorrect, PTL

\* Requests are served with the connection open, mongoSem free and a daemon listening.
THEOREM ServesWhenReady == ProcessSpec => []BackendReady
<1>1. ProcessInv => BackendReady
  BY Zenon DEF ProcessInv, Connected, BackendReady
<1> QED BY <1>1, ProcessCorrect, PTL

=============================================================================
