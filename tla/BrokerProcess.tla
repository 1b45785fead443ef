--------------------------- MODULE BrokerProcess ----------------------------
(***************************************************************************)
(* The broker as a process: its start from the options of the command line *)
(* (main), the connection to the database, the databases of the tenants,   *)
(* the threads recovered for the ONTIMEINTERVAL subscriptions stored in    *)
(* them, the requests that store and remove such subscriptions, and the    *)
(* ways the process ends; what is in the database and the PID file stay.   *)
(*                                                                         *)
(* A database name is the sequence of its parts: "orion-a" is              *)
(* <<"orion", "-", "a">>.  A tenant is such a sequence too, <<>> for none. *)
(***************************************************************************)
EXTENDS Integers, Sequences

CONSTANTS
  Part,         \* the parts of names
  ClientTenant, \* the tenants that clients name; <<>> is no tenant
  Subscription, \* identifiers of ONTIMEINTERVAL subscriptions
  MaxTries      \* RECONNECT_RETRIES

ASSUME ProcessAssumption ==
  /\ {"orion", "-", "x"} \subseteq Part
  /\ ClientTenant \subseteq Seq(Part)
  /\ Subscription # {}
  /\ MaxTries \in Nat

VARIABLES
  options,    \* the options the process runs with
  running,    \* where main is; "down" when there is no process
  parent,     \* the process that daemonize() forked is still to call exit()
  pidFile,    \* the file at pidPath is there
  tries,      \* failed calls of connect
  mongoTaken, \* mongoSem is taken
  connection, \* the connection to mongo is open
  pending,    \* the tenants whose subscriptions are still to be recovered
  lost,       \* the tenants whose recovery failed in this process
  listening,  \* the IP versions a REST daemon was started for
  stored,     \* the subscriptions in the database: [db, sub]
  threads     \* the ONTIMEINTERVAL threads: [tenant, sub]

processVars == <<options, running, parent, pidFile, tries, mongoTaken, connection,
                 pending, lost, listening, stored, threads>>

dbPrefix == <<"orion">>

\* A database of another program whose name begins like those of the broker: "orionx".
Foreign == <<"orion", "x">>

\* What paParse leaves: ip is the choice of -ipv4 and -ipv6, https and rush tell apart the
\* values that main refuses.
Usual == [mtenant |-> FALSE, ngsi9Only |-> FALSE, fg |-> TRUE, dbName |-> "short", ip |-> "dual",
          https |-> "off", rush |-> "none"]

Unusual ==
  {[Usual EXCEPT !.mtenant = m, !.ngsi9Only = n, !.fg = f] : m, n, f \in BOOLEAN}
  \cup {[Usual EXCEPT !.dbName = "long"]}
  \cup {[Usual EXCEPT !.ip = v] : v \in {"v4", "v6", "both"}}
  \cup {[Usual EXCEPT !.https = h] : h \in {"on", "noKey", "noCert", "badFile"}}
  \cup {[Usual EXCEPT !.rush = r] : r \in {"good", "bad"}}

Options == {Usual} \cup Unusual

-----------------------------------------------------------------------------
\* Databases of tenants

composeDatabaseName(tenant) ==
  IF ~options.mtenant \/ tenant = <<>> THEN dbPrefix ELSE dbPrefix \o <<"-">> \o tenant

\* The names that listDatabases answers with: databases exist once something is stored.
Databases == {doc.db : doc \in stored}

\* strncmp(prefix, db, strlen(prefix)) == 0
BeginsWith(db, prefix) == Len(prefix) <= Len(db) /\ SubSeq(db, 1, Len(prefix)) = prefix

getOrionDatabases == {db \in Databases : BeginsWith(db, dbPrefix \o <<"-">>)}

\* The same with the name of the database taken for the tenant.
TenantIsDatabase(db) == db

\* orionDb.substr(dbName.length() + 1)
TenantOf(db) == SubSeq(db, Len(dbPrefix) + 2, Len(db))

\* The documents treatOnTimeIntervalSubscriptions finds for a tenant.
OnTimeIntervalSubscriptions(tenant) ==
  {doc.sub : doc \in {d \in stored : d.db = composeDatabaseName(tenant)}}

-----------------------------------------------------------------------------
\* The end of the process

Gone ==
  /\ running' = "down" /\ threads' = {} /\ listening' = {} /\ pending' = {} /\ lost' = {}
  /\ tries' = 0 /\ mongoTaken' = FALSE /\ connection' = FALSE /\ options' = Usual
  /\ UNCHANGED stored

\* exit() runs exitFunc(), which removes the PID file; LM_X and sigHandler call exit().
exitFunc == Gone /\ pidFile' = FALSE /\ UNCHANGED parent

\* An exception that nobody catches, and a process that is killed: no exit function runs.
Abort == Gone /\ UNCHANGED <<pidFile, parent>>

Signal == running # "down" /\ exitFunc
Killed == running # "down" /\ Abort

-----------------------------------------------------------------------------
\* main

BadOptions(o) == o.dbName = "long" \/ o.ip = "both" \/ o.https \in {"noKey", "noCert"}

\* main up to daemonize(): without -fg the process forks, unless it is a child of init,
\* and the one that goes on is the child; when the fork fails LM_X calls exit().
Start ==
  /\ running = "down" /\ ~parent
  /\ \E o \in Options :
       \/ BadOptions(o) /\ exitFunc
       \/ ~BadOptions(o) /\ ~o.fg /\ exitFunc
       \/ /\ ~BadOptions(o)
          /\ options' = o /\ running' = "pidFile" /\ parent' \in {FALSE, ~o.fg}
          /\ UNCHANGED <<pidFile, tries, mongoTaken, connection, pending, lost, listening, stored, threads>>

\* The parent of the daemon calls exit(0), and its exit function is the same.
ParentExit ==
  /\ parent /\ parent' = FALSE /\ pidFile' = FALSE
  /\ UNCHANGED <<options, running, tries, mongoTaken, connection, pending, lost, listening, stored, threads>>

\* semInit(): the semaphores are free.
orionInit == mongoTaken' = FALSE

\* pidFile(), whose result main ignores, and orionInit().
PidFile ==
  /\ running = "pidFile" /\ running' = "connect"
  /\ pidFile' \in {TRUE, pidFile} /\ orionInit
  /\ UNCHANGED <<options, parent, tries, connection, pending, lost, listening, stored, threads>>

\* mongoConnect(), with mongoSem taken: the connection is tried MaxTries times.
Connect ==
  /\ running = "connect"
  /\ \/ /\ tries < MaxTries /\ mongoTaken' = TRUE
        /\ \/ connection' = TRUE /\ running' = "login" /\ UNCHANGED tries
           \/ tries' = tries + 1 /\ UNCHANGED <<running, connection>>
        /\ UNCHANGED <<options, parent, pidFile, pending, lost, listening, stored, threads>>
     \/ tries = MaxTries /\ exitFunc

\* mongoConnect() from the authentication on: a refused user or a version that does not
\* parse ends the process (LM_X in mongoInit), and so does an exception of the driver.
Login ==
  /\ running = "login"
  /\ \/ /\ running' = "index" /\ mongoTaken' = FALSE
        /\ UNCHANGED <<options, parent, pidFile, tries, connection, pending, lost, listening, stored, threads>>
     \/ exitFunc
     \/ Abort

\* mongoInit() with the connection there: the names are set and the indexes made; nobody
\* catches an exception of the driver.
mongoInit ==
  /\ running = "index"
  /\ \/ /\ running' = "init"
        /\ UNCHANGED <<options, parent, pidFile, tries, mongoTaken, connection, pending, lost, listening, stored, threads>>
     \/ Abort

\* Nothing is recovered with -ngsi9, and without -multiservice no database of a tenant;
\* listing the databases may throw.
contextBrokerInit ==
  /\ running = "init"
  /\ \/ /\ running' = "recover"
        /\ pending' = IF options.ngsi9Only THEN {}
                      ELSE {<<>>} \cup {TenantOf(db) : db \in {d \in getOrionDatabases : options.mtenant}}
        /\ UNCHANGED <<options, parent, pidFile, tries, mongoTaken, connection, lost, listening, stored, threads>>
     \/ options.mtenant /\ ~options.ngsi9Only /\ Abort

\* recoverOntimeIntervalThreads(): a failed query is logged and the tenant is passed over.
Recover(tenant) ==
  /\ running = "recover" /\ tenant \in pending /\ pending' = pending \ {tenant}
  /\ \/ /\ threads' = threads \cup {[tenant |-> tenant, sub |-> s] : s \in OnTimeIntervalSubscriptions(tenant)}
        /\ UNCHANGED lost
     \/ lost' = lost \cup {tenant} /\ UNCHANGED threads
  /\ UNCHANGED <<options, running, parent, pidFile, tries, mongoTaken, connection, listening, stored>>

\* The IP versions for which restStart starts a daemon.
Wanted == {v \in {"v4", "v6"} : options.ip \in {"dual", v}}

\* The same without the test of mhdStartError.
restInitUntested == listening' \in SUBSET Wanted

\* It is enough that one daemon starts: without any LM_X ends the process.
restInit == listening' \in (SUBSET Wanted) \ {{}}

rushParse == options.rush # "bad"
loadFile  == options.https # "badFile"

\* The rest of main.
Serve ==
  /\ running = "recover" /\ pending = {}
  /\ \/ /\ rushParse /\ loadFile /\ restInit /\ running' = "serve"
        /\ UNCHANGED <<options, parent, pidFile, tries, mongoTaken, connection, pending, lost, stored, threads>>
     \/ exitFunc

-----------------------------------------------------------------------------
\* Requests

\* mongoSubscribeContext: the document and its thread.
Subscribe(tenant, sub) ==
  /\ running = "serve" /\ ~options.ngsi9Only
  /\ \A doc \in stored : doc.sub # sub
  /\ stored' = stored \cup {[db |-> composeDatabaseName(tenant), sub |-> sub]}
  /\ threads' = threads \cup {[tenant |-> tenant, sub |-> sub]}
  /\ UNCHANGED <<options, running, parent, pidFile, tries, mongoTaken, connection, pending, lost, listening>>

\* The same with the threads of the tenant only.
UnsubscribeOfTenant(tenant, sub) ==
  /\ running = "serve" /\ ~options.ngsi9Only
  /\ sub \in OnTimeIntervalSubscriptions(tenant)
  /\ stored' = stored \ {[db |-> composeDatabaseName(tenant), sub |-> sub]}
  /\ threads' = threads \ {[tenant |-> tenant, sub |-> sub]}
  /\ UNCHANGED <<options, running, parent, pidFile, tries, mongoTaken, connection, pending, lost, listening>>

\* mongoUnsubscribeContext: the threads are found by the subscription alone.
Unsubscribe(tenant, sub) ==
  /\ running = "serve" /\ ~options.ngsi9Only
  /\ sub \in OnTimeIntervalSubscriptions(tenant)
  /\ stored' = stored \ {[db |-> composeDatabaseName(tenant), sub |-> sub]}
  /\ threads' = {th \in threads : th.sub # sub}
  /\ UNCHANGED <<options, running, parent, pidFile, tries, mongoTaken, connection, pending, lost, listening>>

\* orionExit(): the threads of the databases found are cancelled, each database name taken
\* for a tenant; the connection is deleted, and exit() follows.
orionExit ==
  /\ running = "serve"
  /\ \/ /\ threads' = {th \in threads :
                         \A db \in getOrionDatabases : th.sub \notin OnTimeIntervalSubscriptions(db)}
        /\ connection' = FALSE /\ running' = "exit"
        /\ UNCHANGED <<options, parent, pidFile, tries, mongoTaken, pending, lost, listening, stored>>
     \/ Abort

Exit == running = "exit" /\ exitFunc

-----------------------------------------------------------------------------
ProcessInit ==
  /\ options = Usual /\ running = "down" /\ parent = FALSE /\ pidFile = FALSE
  /\ tries = 0 /\ mongoTaken = FALSE /\ connection = FALSE
  /\ pending = {} /\ lost = {} /\ listening = {} /\ threads = {}
  /\ stored = {[db |-> Foreign, sub |-> CHOOSE sub \in Subscription : TRUE]}

ProcessNext ==
  \/ Start \/ ParentExit \/ PidFile \/ Connect \/ Login \/ mongoInit \/ contextBrokerInit \/ Serve
  \/ \E tenant \in pending : Recover(tenant)
  \/ \E tenant \in ClientTenant, sub \in Subscription : Subscribe(tenant, sub) \/ Unsubscribe(tenant, sub)
  \/ orionExit \/ Exit \/ Signal \/ Killed

ProcessSpec == ProcessInit /\ [][ProcessNext]_processVars

-----------------------------------------------------------------------------
ProcessTypeOK ==
  /\ options \in Options /\ parent \in BOOLEAN /\ pidFile \in BOOLEAN
  /\ running \in {"down", "pidFile", "connect", "login", "index", "init", "recover", "serve", "exit"}
  /\ tries \in 0..MaxTries /\ mongoTaken \in BOOLEAN /\ connection \in BOOLEAN
  /\ listening \subseteq {"v4", "v6"}
  /\ pending \cup lost \subseteq Seq(Part)
  /\ stored \subseteq [db : Seq(Part), sub : Subscription]
  /\ threads \subseteq [tenant : Seq(Part), sub : Subscription]

\* After a restart every subscription stored in a database that clients reach has its
\* thread again, unless the query for that database failed: however the process ended,
\* whatever tenants came up before, and with the options changed (contextBrokerInit).
IntervalsRecovered ==
  running = "serve" /\ ~options.ngsi9Only =>
    \A tenant \in ClientTenant : \A sub \in OnTimeIntervalSubscriptions(tenant) :
      \/ \E th \in threads : th.sub = sub /\ composeDatabaseName(th.tenant) = composeDatabaseName(tenant)
      \/ \E t \in lost : composeDatabaseName(t) = composeDatabaseName(tenant)

\* A thread reads the subscription it was made for: its tenant leads to the database that
\* holds the document, never to that of another program (getOrionDatabases).
ThreadsOfOwnDatabase ==
  \A th \in threads : [db |-> composeDatabaseName(th.tenant), sub |-> th.sub] \in stored

\* Requests are served only with the connection open, mongoSem free for them, and a daemon
\* that listens (mongoConnect, restStart).
BackendReady == running = "serve" => connection /\ ~mongoTaken /\ listening # {}
=============================================================================
