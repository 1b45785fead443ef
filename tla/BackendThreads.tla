--------------------------- MODULE BackendThreads ---------------------------
(***************************************************************************)
(* The two models of threads that wait for semaphores: the handlers of     *)
(* mongoBackend with both semaphores (BackendSemaphores), and requests     *)
(* that create and destroy interval threads under reqSem (OntimeInterval). *)
(* A behaviour is one of the first or one of the second.                   *)
(***************************************************************************)
EXTENDS BackendSemaphores

CONSTANTS Sub, Cond, Tid, Req, None

VARIABLES
  about,         \* which of the two the behaviour is one of
  intervalSem,   \* reqSem of the second
  up, csubs, oids, rpc, rjob, canceled, tpc, tjob, found, threadsMap, cancelReq, detached,
  sent, stored, late, dirty

Interval == INSTANCE OntimeInterval WITH reqSem <- intervalSem

intervalVars == <<intervalSem, up, csubs, oids, rpc, rjob, canceled, tpc, tjob, found, threadsMap,
                  cancelReq, detached, sent, stored, late, dirty>>

ThreadsInit == Init /\ Interval!Init /\ about \in {"handlers", "interval threads"}

ThreadsNext ==
  \/ about = "handlers" /\ Next /\ UNCHANGED <<about, intervalVars>>
  \/ about = "interval threads" /\ Interval!Next /\ UNCHANGED <<about, vars>>

\* Nothing that fairness is about is enabled in the one that stands still.
ThreadsSpec ==
  /\ ThreadsInit /\ [][ThreadsNext]_<<about, vars, intervalVars>>
  /\ Fairness /\ Interval!Fairness

\* Every request is answered: no handler waits for ever, neither for a semaphore, which
\* every handler gives on each of its paths, nor, holding it, for the interval threads
\* it cancels (reqSemTake, destroyOntimeIntervalThreads).
EveryRequestAnswered == RequestServed /\ Interval!RequestAnswered

\* Every round of a thread comes to its end (sleep, or the end of the thread), and a
\* canceled thread ends, although cancelation is disabled for most of a round and the
\* round may have to wait for the semaphore.
ThreadsComeToEnd == Interval!RoundEnds /\ Interval!CanceledThreadEnds
=============================================================================
