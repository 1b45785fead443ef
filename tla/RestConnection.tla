--------------------------- MODULE RestConnection ---------------------------
(***************************************************************************)
(* A connection of the REST server.  libmicrohttpd (MHD) serves every      *)
(* connection with a thread of its own and calls connectionTreat() three   *)
(* times for a request: when the headers are read, when all the payload    *)
(* has arrived, and finally to serve it; then, or when the client goes     *)
(* away, it calls requestCompleted().  A client may send several requests  *)
(* over the connection, and payloads that fit use the buffer of the        *)
(* thread, so one request finds what the one before it left.               *)
(*                                                                         *)
(* A request that is served goes through the table of services             *)
(* (RestServices), the parser (its request tables and, for the root of the *)
(* XML vectors, ParseTables) and a service routine (RestRoutines).         *)
(***************************************************************************)
EXTENDS RestServices, RestRoutines, ParseTables

CONSTANTS Requests,  \* bound: requests over the connection
          Verbs      \* "GET", "POST", "PUT", "DELETE" and verbs that are not offered

VARIABLES phase,   \* what MHD has done: "idle", "headers", "payload", "replied"
          req,     \* the request as it comes from the client
          ci,      \* the ConnectionInfo object
          wire,    \* the reply MHD sends: the first that is queued
          served,  \* what restService() did for the request
          serial,  \* number of the request
          buffer,  \* the request whose payload is in static_buffer
          heap     \* the requests whose malloc'ed payload has not been freed

vars == <<phase, req, ci, wire, served, serial, buffer, heap>>

(* Lengths of a payload: none, STATIC_BUFFER_SIZE at most, more, and more  *)
(* than PAYLOAD_MAX_SIZE.                                                  *)
Lengths == {"none", "static", "heap", "huge"}

NoReq    == [verb |-> "", length |-> "none", type |-> "", paths |-> 1, fault |-> "", tenant |-> "ok"]
NoCi     == [status |-> 200, answer |-> FALSE, payload |-> "NULL", inFormat |-> "XML"]
NoServed == [row |-> 0, url |-> <<>>, parsed |-> "", asked |-> Nothing, from |-> 0, reported |-> ""]
NoReply  == [status |-> 0, error |-> FALSE]

Init ==
  /\ phase = "idle" /\ req = NoReq /\ ci = NoCi /\ wire = NoReply /\ served = NoServed
  /\ serial = 0 /\ buffer = 0 /\ heap = {}

-----------------------------------------------------------------------------
(* restReply(): MHD_queue_response, which refuses a second reply. *)
Reply(code, faulty) == IF wire = NoReply THEN [status |-> code, error |-> faulty] ELSE wire

(* restErrorReplyGet() renders an error and sets the status back to 200. *)
restErrorReplyGet(c) == [c EXCEPT !.status = 200]

(* The checks of the first call.  Each gives the ConnectionInfo it leaves  *)
(* and whether it has found an error, which is then in the answer.         *)
uriArgumentGet(c) == IF req'.fault = "parameter" THEN [c EXCEPT !.status = 400, !.answer = TRUE] ELSE c
urlCheck(c) == IF req'.fault = "url" THEN [c EXCEPT !.status = 400, !.answer = TRUE] ELSE c
servicePathSplit(c) == IF req'.fault = "servicePath" THEN [c EXCEPT !.answer = TRUE] ELSE c

(* Without a payload the content type does not matter. *)
BadContentType == req'.length # "none" /\ req'.type \notin {"xml", "json"}
contentTypeCheckReset(c) == IF BadContentType THEN restErrorReplyGet([c EXCEPT !.answer = TRUE]) ELSE c
contentTypeCheck(c) ==
  IF BadContentType THEN [restErrorReplyGet([c EXCEPT !.answer = TRUE]) EXCEPT !.status = 415] ELSE c

outFormatCheck(c) ==
  IF req'.fault = "accept" THEN [restErrorReplyGet([c EXCEPT !.answer = TRUE]) EXCEPT !.status = 406] ELSE c

formatParse(type) == CASE type = "xml" -> "XML" [] type = "json" -> "JSON" [] OTHER -> "NOFORMAT"

(* Call 1.  An error in the URI parameters or in the URL ends the call;    *)
(* one in the service paths is answered and the call goes on.              *)
Headers ==
  /\ phase = "idle" /\ serial < Requests
  /\ serial' = serial + 1
  /\ \E v \in Verbs, l \in Lengths, t \in {"xml", "json", "other"}, n \in {1, 2},
        f \in {"", "parameter", "url", "servicePath", "accept"}, tn \in {"ok", "bad"} :
       req' = [verb |-> v, length |-> l, type |-> t, paths |-> n, fault |-> f, tenant |-> tn]
  /\ LET first  == urlCheck(uriArgumentGet(NoCi))
         paths  == servicePathSplit(first)
         checked == IF BadContentType THEN contentTypeCheck(paths) ELSE outFormatCheck(paths)
         replied == IF paths.answer THEN [status |-> paths.status, error |-> TRUE]
                    ELSE [status |-> checked.status, error |-> TRUE]
     IN  IF first.answer
         THEN /\ ci' = first
              /\ wire' = Reply(first.status, TRUE) /\ phase' = "replied"
         ELSE /\ ci' = IF BadContentType \/ req'.fault = "accept" THEN checked
                       ELSE [checked EXCEPT !.inFormat = formatParse(req'.type)]
              /\ IF checked.answer THEN wire' = replied /\ phase' = "replied"
                 ELSE wire' = wire /\ phase' = "headers"
  /\ served' = NoServed
  /\ UNCHANGED <<buffer, heap>>

(* A payload of more than PAYLOAD_MAX_SIZE. *)
TooLarge(c) == [restErrorReplyGet([c EXCEPT !.answer = TRUE]) EXCEPT !.status = 413]

(* Call 2, all the payload being there.  It is kept in the buffer of the   *)
(* thread or in memory from malloc; one that is too large is only          *)
(* acknowledged.                                                           *)
Payload ==
  /\ phase = "headers" /\ req.length # "none"
  /\ phase' = "payload"
  /\ CASE req.length = "static" -> ci' = [ci EXCEPT !.payload = "static"] /\ buffer' = serial /\ heap' = heap
       [] req.length = "heap"   -> ci' = [ci EXCEPT !.payload = "heap"] /\ heap' = heap \cup {serial} /\ buffer' = buffer
       [] OTHER -> ci' = TooLarge(ci) /\ UNCHANGED <<buffer, heap>>
  /\ UNCHANGED <<req, wire, served, serial>>

-----------------------------------------------------------------------------
(* The URLs of a run: one for every pattern of the table, with a name for  *)
(* each "*" that tells what the name is there; the same with the version   *)
(* in capitals; and URLs that no pattern is made for.                      *)

(* What the component "*" of a pattern names, from the one before it. *)
Role(pattern, i) ==
  LET before == pattern[i - 1] IN
  CASE before \in {"contextEntities", "id"} -> "id"
    [] before \in {"type", "contextEntityTypes", "contextTypes"} -> "type"
    [] before = "attributes" -> "attribute"
    [] before = "*" -> "value"
    [] before \in {"contextSubscriptions", "contextAvailabilitySubscriptions"} -> "subscription"
    [] OTHER -> "level"

Names == [id |-> "anId", type |-> "aType", attribute |-> "anAttribute", value |-> "aValue",
          subscription |-> "aSubscription", level |-> "aLevel"]

Instance(pattern) == [i \in DOMAIN pattern |-> IF pattern[i] = "*" THEN Names[Role(pattern, i)] ELSE pattern[i]]

Patterns == {restServiceV[i].compV : i \in {i \in DOMAIN restServiceV : restServiceV[i].request # "InvalidRequest"}}

Urls ==
  {Instance(pattern) : pattern \in Patterns}
  \cup {[Instance(pattern) EXCEPT ![1] = "V1"] : pattern \in {p \in Patterns : p[1] = "v1"}}
  \cup {<<>>, <<"unknown">>, <<"ngsi9", "unknown">>, <<"ngsi10", "unknown">>,
        <<"v1", "unknown", "unknown", "unknown", "unknown", "unknown", "unknown">>}

(* The URI parameters entity::type and exist. *)
Params == {[type |-> "", exist |-> ""], [type |-> "uriType", exist |-> ""], [type |-> "", exist |-> "not"]}

(* The payloads of a vector, as far as routines compare them with the URL. *)
Blank == [id |-> "", type |-> "", isPattern |-> "", subscription |-> "", metadataId |-> ""]
Payloads(vector) ==
  CASE vector = "Acer" -> {[Blank EXCEPT !.id = id, !.type = type, !.isPattern = isPattern] :
                            id \in {"", "anId", "otherId"}, type \in {"", "uriType", "otherType"},
                            isPattern \in {"", "true"}}
    [] vector \in {"Ucas", "Ucsr"} -> {[Blank EXCEPT !.subscription = s] : s \in {"aSubscription", "other"}}
    [] vector = "Upcar" -> {[Blank EXCEPT !.metadataId = m] : m \in {"", "aValue", "other"}}
    [] OTHER -> {Blank}

(* The word that the XML payloads of a vector start with. *)
Roots == UNION {{<<v, r.path[1]>> : r \in XmlVectors[v].rows} : v \in DOMAIN XmlVectors}
Root(vector) == (CHOOSE root \in Roots : root[1] = vector)[2]

(* payloadParse(): the vector that parses the payload, "NULL" when there   *)
(* is none or when the payload does not match the URL (XML only).          *)
payloadParse(row) ==
  IF ci.inFormat = "JSON" THEN jsonRequestGet(row.request, req.verb)
  ELSE LET vector == xmlRequestGet(row.request, req.verb) IN
       IF vector \notin {"NULL", ""} /\ req.verb \in {"POST", "PUT"} /\ row.word \notin {"", Root(vector)}
       THEN "NULL" ELSE vector

(* tenantCheck() *)
TenantOk == req.tenant = "ok"

(* What the backend may answer: how many elements, and the status.  With   *)
(* more than one service path an update fails as a whole.                  *)
Outcomes(asked) ==
  CASE asked.op = "update" /\ req.paths > 1 -> {[elements |-> 0, code |-> "error"]}
    [] asked.op = "update" /\ req.paths <= 1 -> {[elements |-> 1, code |-> "ok"], [elements |-> 1, code |-> "error"]}
    [] asked.op = "query" -> {[elements |-> 1, code |-> "ok"], [elements |-> 0, code |-> "error"]}
    [] asked.op = "refused" -> {[elements |-> 1, code |-> "error"]}
    [] OTHER -> {[elements |-> 1, code |-> "ok"]}

(* What the routine makes of it: the first element of an empty response is *)
(* undefined.                                                              *)
Reported(asked, outcome) ==
  IF asked.via = "first" /\ outcome.elements = 0 THEN "undefined" ELSE outcome.code

(* The status of the reply of a routine: only a wrong verb has one of its  *)
(* own.  badRequest and its variants make their answer with                *)
(* restErrorReplyGet, and it goes out with 200.                            *)
RoutineStatus(routine) == IF Allow(routine) # {} THEN 405 ELSE 200

(* The request whose payload the parser reads. *)
ReadFrom == IF ci.payload = "static" THEN buffer ELSE serial

(* restService() *)
restService(url) ==
  LET row     == Service(req.verb, url)
      service == restServiceV[row]
      body    == row # 0 /\ ci.payload # "NULL" /\ service.verb # "*"
      vector  == IF body THEN payloadParse(service) ELSE ""
      Found   == [NoServed EXCEPT !.row = row, !.url = url, !.parsed = vector, !.from = IF body THEN ReadFrom ELSE 0]
  IN  IF url = <<>> \/ row = 0
      THEN served' = [Found EXCEPT !.row = 0] /\ wire' = Reply(restErrorReplyGet(ci).status, TRUE)
      ELSE \/ /\ body  \* the payload is not well formed, or it has no parser
              /\ served' = [Found EXCEPT !.reported = "unparsed"]
              /\ wire' = Reply(restErrorReplyGet(ci).status, TRUE)
           \/ /\ vector # "NULL" /\ ~TenantOk
              /\ served' = [Found EXCEPT !.reported = "tenant"]
              /\ wire' = Reply(ci.status, TRUE)
           \/ /\ vector # "NULL" /\ TenantOk
              /\ \E q \in Params, p \in Payloads(vector) :
                   LET asked == Treat(service.treat, req.verb, url, q, p, req.paths) IN
                   \E outcome \in Outcomes(asked) :
                     /\ served' = [Found EXCEPT !.asked = asked, !.reported = Reported(asked, outcome)]
                     /\ wire' = Reply(RoutineStatus(service.treat), outcome.code # "ok")

(* Call 3. *)
LengthRequired(url) == req.verb \in {"POST", "PUT"} /\ req.length = "none" /\ (Len(url) < 2 \/ url[1] # "log")
Final ==
  /\ \/ phase = "payload"
     \/ phase = "headers" /\ req.length = "none"
  /\ phase' = "replied"
  /\ \E url \in Urls :
       IF LengthRequired(url)
       THEN /\ ci' = [restErrorReplyGet(ci) EXCEPT !.status = 411]
            /\ wire' = Reply(ci'.status, TRUE) /\ served' = [NoServed EXCEPT !.reported = "length"]
       ELSE IF ci.answer
       THEN wire' = Reply(ci.status, TRUE) /\ UNCHANGED <<ci, served>>
       ELSE ci' = ci /\ restService(url)
  /\ UNCHANGED <<req, serial, buffer, heap>>

(* free(ciP->payload), unless it is the buffer of the thread *)
FreedNever == heap
Freed == IF ci.payload = "heap" THEN heap \ {serial} ELSE heap

(* The reply has been sent, or the client has gone. *)
requestCompleted ==
  /\ phase # "idle"
  /\ phase' = "idle"
  /\ heap' = Freed
  /\ req' = NoReq /\ ci' = NoCi /\ wire' = NoReply /\ served' = NoServed
  /\ UNCHANGED <<serial, buffer>>

Finished == phase = "idle" /\ serial = Requests /\ UNCHANGED vars

Next == Headers \/ Payload \/ Final \/ requestCompleted \/ Finished

Spec == Init /\ [][Next]_vars

-----------------------------------------------------------------------------
(* The status of the reply to r, which was served as s: that of the first  *)
(* error found.  A bad service path, and what restService finds (no such   *)
(* service, a payload that cannot be parsed, a bad tenant), are answered   *)
(* with 200 and an error in the body.                                      *)
StatusFor(r, s) ==
  IF r.fault \in {"parameter", "url"} THEN 400
  ELSE IF r.fault = "servicePath" THEN 200
  ELSE IF r.length # "none" /\ r.type = "other" THEN 415
  ELSE IF r.fault = "accept" THEN 406
  ELSE IF s.reported = "length" THEN 411
  ELSE IF r.length = "huge" THEN 413
  ELSE IF s.row = 0 \/ s.asked = Nothing THEN 200
  ELSE RoutineStatus(restServiceV[s.row].treat)

(* A request that connectionTreat() has found faulty, in its headers or by *)
(* its length, is never given to a service routine, although the error of  *)
(* the second call is only answered in the third one.  The client gets the *)
(* status of the first error found, and not the 200 that                   *)
(* restErrorReplyGet() leaves in the connection.  (A bad service path is   *)
(* answered with 200; and so is every error that restService() finds, an   *)
(* unknown service included, as the functional test erroneous_input        *)
(* expects: only a wrong verb has its status.)                             *)
FaultAnswered ==
  /\ served.row # 0 => /\ req.fault = "" /\ req.length # "huge"
                       /\ req.length # "none" => req.type \in {"xml", "json"}
                       /\ req.verb \in {"POST", "PUT"} /\ req.length = "none" => served.url[1] = "log"
  /\ phase = "replied" => wire.status = StatusFor(req, served)

(* The parser reads the payload of the request itself, not what another    *)
(* request has left in the buffer of the thread; and once a request is     *)
(* over, the memory it took is free.                                       *)
PayloadOwned ==
  /\ served.from \in {0, serial}
  /\ phase = "idle" => heap = {}
  /\ ci.payload = "heap" => heap = {serial}

(* Every name of the URL is taken in the role it has there: what follows   *)
(* contextEntities is the entity, what follows attributes the attribute,   *)
(* and so on.                                                              *)
TakesNames(service, asked) ==
  LET roles == {Role(service.compV, i) : i \in {i \in DOMAIN service.compV : service.compV[i] = "*"}}
  IN  /\ \A role \in roles : asked[role] = Names[role]
      /\ \A role \in {"attribute", "value", "subscription"} \ roles : asked[role] = ""

(* A service routine reads what is there, and for what it is.  It takes    *)
(* the names of the URL in their roles, in both versions of the URLs (the  *)
(* routines of NGSI9 recognise version 1 only in lower case).  Whatever    *)
(* the format, a payload that the table of services announces has a        *)
(* parser, the root of that parser's XML vector is the announced word, and *)
(* what it fills is what the routine reads.  And no routine takes the      *)
(* first element of an empty response of the backend, as long as the       *)
(* request has one service path.                                           *)
RoutineReads ==
  LET service == restServiceV[served.row]
      calls   == served.asked.op \notin {"none", "refused"}
  IN  /\ served.row # 0 /\ calls /\ served.asked.op # "trace" /\ served.url[1] # "V1" =>
           TakesNames(service, served.asked)
      /\ served.row # 0 /\ served.from # 0 /\ req.verb \in {"POST", "PUT"} /\ service.word # "" =>
           /\ served.parsed # "NULL"
           /\ Root(served.parsed) = service.word
           /\ calls => /\ served.asked.reads = served.parsed
                       /\ served.asked.parts \cap {"all", "attributes", "contextValue", "providingApplication"} # {}
      /\ req.paths = 1 => served.reported # "undefined"
=============================================================================
