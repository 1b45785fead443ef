------------------------- MODULE BackendSemaphores -------------------------
(***************************************************************************)
(* How the handlers of mongoBackend use reqSem and mongoSem.               *)
(*                                                                         *)
(* A request thread runs one of three kinds of handler.  All take reqSem,  *)
(* make database calls, each between mongoSemTake and mongoSemGive, and    *)
(* give reqSem.  A "byId" handler (update and unsubscribe of both kinds of *)
(* subscription, update of a registration) first makes an OID of the id in *)
(* the request.  A "query" handler (mongoQueryContext) looks for a context *)
(* provider after it has given reqSem.                                     *)
(***************************************************************************)
EXTENDS Naturals

CONSTANTS
  Thread,
  Id,        \* the ids in the requests: "valid" or "malformed"
  MaxCalls,  \* bound on the database calls of a handler under reqSem
  MaxValue   \* bound: no more malformed ids once mongoSem has this value

ASSUME SemaphoresAssumption ==
  Id \subseteq {"valid", "malformed"} /\ MaxCalls \in Nat /\ MaxValue \in Nat

Kind == {"plain", "byId", "query"}

VARIABLES
  reqSem, mongoSem,   \* the values of the semaphores
  pc,
  kind, id,           \* the handler that a thread runs, and the id of its request
  calls,              \* the database calls it has made
  excess              \* history: mongoSem was given by a thread that had not taken it

vars == <<reqSem, mongoSem, pc, kind, id, calls, excess>>

\* The places of a handler: "wait" for reqSem, "oid" before the OID is made, "run"
\* between calls, "mongo" waiting for mongoSem, "db" in the call; "after" reqSem is
\* given, and then "mongoAfter" and "dbAfter".
Place == {"idle", "wait", "oid", "run", "mongo", "db", "after", "mongoAfter", "dbAfter"}

\* The semaphores never go below zero (sem_wait blocks) and every handler is at a place.
TypeOK ==
  /\ reqSem \in Nat /\ mongoSem \in Nat
  /\ pc \in [Thread -> Place]
  /\ kind \in [Thread -> Kind]
  /\ id \in [Thread -> {"valid", "malformed"}]
  /\ calls \in [Thread -> 0 .. MaxCalls]
  /\ excess \in BOOLEAN

\* semInit: both are free.
Init ==
  /\ reqSem = 1 /\ mongoSem = 1
  /\ pc = [t \in Thread |-> "idle"]
  /\ kind = [t \in Thread |-> "plain"]
  /\ id = [t \in Thread |-> "valid"]
  /\ calls = [t \in Thread |-> 0]
  /\ excess = FALSE

-----------------------------------------------------------------------------
Goto(t, place) == pc' = [pc EXCEPT ![t] = place]

Arrive(t, k, i) ==
  /\ pc[t] = "idle"
  /\ i = "malformed" => mongoSem < MaxValue
  /\ kind' = [kind EXCEPT ![t] = k]
  /\ id' = [id EXCEPT ![t] = i]
  /\ calls' = [calls EXCEPT ![t] = 0]
  /\ Goto(t, "wait")
  /\ UNCHANGED <<reqSem, mongoSem, excess>>

reqSemTake(t) ==
  /\ pc[t] = "wait"
  /\ reqSem > 0
  /\ reqSem' = reqSem - 1
  /\ Goto(t, IF kind[t] = "byId" THEN "oid" ELSE "run")
  /\ UNCHANGED <<mongoSem, kind, id, calls, excess>>

\* After the exception the handler begins again.
OIDAgain(t) ==
  /\ pc[t] = "oid"
  /\ \/ /\ id[t] = "valid"
        /\ calls' = [calls EXCEPT ![t] = IF MaxCalls = 0 THEN 0 ELSE 1]
        /\ Goto(t, "mongo")
        /\ UNCHANGED <<reqSem, mongoSem, excess>>
     \/ /\ id[t] = "malformed"
        /\ mongoSem' = mongoSem + 1
        /\ reqSem' = reqSem + 1
        /\ excess' = TRUE
        /\ Goto(t, "wait")
        /\ UNCHANGED calls
  /\ UNCHANGED <<kind, id>>

\* OID() throws for a malformed id, and the handler of AssertionException gives both
\* semaphores.
OID(t) ==
  /\ pc[t] = "oid"
  /\ \/ /\ id[t] = "valid"
        /\ calls' = [calls EXCEPT ![t] = IF MaxCalls = 0 THEN 0 ELSE 1]
        /\ Goto(t, "mongo")
        /\ UNCHANGED <<reqSem, mongoSem, excess>>
     \/ /\ id[t] = "malformed"
        /\ mongoSem' = mongoSem + 1
        /\ reqSem' = reqSem + 1
        /\ excess' = TRUE
        /\ Goto(t, "idle")
        /\ UNCHANGED calls
  /\ UNCHANGED <<kind, id>>

\* The next database call of the handler.
Call(t) ==
  /\ \/ /\ pc[t] = "run" /\ calls[t] < MaxCalls
        /\ calls' = [calls EXCEPT ![t] = @ + 1]
        /\ Goto(t, "mongo")
     \/ pc[t] = "after" /\ Goto(t, "mongoAfter") /\ UNCHANGED calls
  /\ UNCHANGED <<reqSem, mongoSem, kind, id, excess>>

mongoSemTake(t) ==
  /\ pc[t] \in {"mongo", "mongoAfter"}
  /\ mongoSem > 0
  /\ mongoSem' = mongoSem - 1
  /\ Goto(t, IF pc[t] = "mongo" THEN "db" ELSE "dbAfter")
  /\ UNCHANGED <<reqSem, kind, id, calls, excess>>

\* The exception handlers return without giving mongoSem.
GiveOnSuccessOnly(t) ==
  /\ pc[t] \in {"db", "dbAfter"}
  /\ mongoSem' \in {mongoSem, mongoSem + 1}
  /\ Goto(t, IF pc[t] = "db" THEN "run" ELSE "idle")
  /\ UNCHANGED <<reqSem, kind, id, calls, excess>>

\* The call returns or throws: the statement after it, or every exception handler,
\* gives mongoSem.
mongoSemGive(t) ==
  /\ pc[t] \in {"db", "dbAfter"}
  /\ mongoSem' = mongoSem + 1
  /\ Goto(t, IF pc[t] = "db" THEN "run" ELSE "idle")
  /\ UNCHANGED <<reqSem, kind, id, calls, excess>>

\* The handler is done, or returns early after an error: it gives reqSem. A query
\* without result goes on with registrationsQuery.
reqSemGive(t) ==
  /\ pc[t] = "run"
  /\ reqSem' = reqSem + 1
  /\ \/ Goto(t, "idle")
     \/ kind[t] = "query" /\ Goto(t, "after")
  /\ UNCHANGED <<mongoSem, kind, id, calls, excess>>

Run(t) ==
  \/ reqSemTake(t) \/ OID(t) \/ Call(t)
  \/ mongoSemTake(t) \/ mongoSemGive(t) \/ reqSemGive(t)

Next == \E t \in Thread : Run(t) \/ \E k \in Kind, i \in Id : Arrive(t, k, i)

Spec == Init /\ [][Next]_vars

\* Threads run; a semaphore that is given again and again is not refused to one of
\* the waiting threads forever.
Fairness ==
  \A t \in Thread : /\ WF_vars(Run(t))
                    /\ SF_vars(reqSemTake(t))
                    /\ SF_vars(mongoSemTake(t))


-----------------------------------------------------------------------------
UnderReqSem(t)   == pc[t] \in {"oid", "run", "mongo", "db"}
UnderMongoSem(t) == pc[t] \in {"db", "dbAfter"}

\* "has the 'req' semaphore" (reqSemTake): at most one handler is between reqSemTake
\* and reqSemGive, and the semaphore is free when none is.
ReqSemExclusive ==
  /\ reqSem = 1 <=> \A t \in Thread : ~UnderReqSem(t)
  /\ reqSem <= 1
  /\ \A t, u \in Thread : UnderReqSem(t) /\ UnderReqSem(u) => t = u

\* At most one thread is in a database call that mongoSem guards, and mongoSem is
\* free when none is.
OneInDatabase ==
  /\ mongoSem = 1 <=> \A t \in Thread : ~UnderMongoSem(t)
  /\ mongoSem <= 1
  /\ \A t, u \in Thread : UnderMongoSem(t) /\ UnderMongoSem(u) => t = u

\* mongoSemTake and mongoSemGive keep the database calls apart, of the handlers that
\* hold reqSem and of the query that does not, as long as no handler of an
\* AssertionException has given mongoSem.
MongoSemExclusive == ~excess => OneInDatabase

\* "has the 'mongo' semaphore" (mongoSemTake): the same after any request, one with
\* a malformed id included.
MongoSemAlwaysExclusive == OneInDatabase

\* What a handler looks like to one who does not see the semaphores.
Phase(place) ==
  CASE place = "idle" -> "idle"
    [] place = "wait" -> "waiting"
    [] place \in {"oid", "run", "mongo", "db"} -> "working"
    [] place \in {"after", "mongoAfter", "dbAfter"} -> "leaving"

Phases == [t \in Thread |-> Phase(pc[t])]

Handlers == INSTANCE SerialHandlers WITH phase <- Phases

\* The handlers implement SerialHandlers: each waits, works alone and ends once, on every
\* path, the exceptions included (reqSemTake and reqSemGive in every handler).
HandlersSerial == Handlers!Spec

\* Every request is answered: no handler keeps a semaphore on any of its paths, and
\* none waits for one that its holder can give only after it.
RequestServed == \A t \in Thread : pc[t] = "wait" ~> pc[t] = "idle"

=============================================================================
