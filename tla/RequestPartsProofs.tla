------------------------- MODULE RequestPartsProofs --------------------------
(***************************************************************************)
(* The parts around the backend, for any number of requests over a         *)
(* connection and any verbs: the payload that is parsed is that of the     *)
(* request and its memory is freed (PayloadOwned), and errors are answered *)
(* with their status and not served (FaultAnswered); and for any           *)
(* components and levels of service paths, updates, subscriptions and      *)
(* queries agree on what a path selects (PathsAgree).                      *)
(***************************************************************************)
EXTENDS RequestParts, WellFoundedInduction, SequenceTheorems, TLAPS

-----------------------------------------------------------------------------
(* The connection.                                                         *)

\* A request without an error in its headers.
Clean(r) ==
  /\ r.length \in Lengths
  /\ r.fault = ""
  /\ r.length # "none" => r.type \in {"xml", "json"}

\* The connection before a reply is queued: nothing was served.
Unserved == wire = NoReply /\ served = NoServed

CiType ==
  [status : Nat, answer : BOOLEAN, payload : {"NULL", "static", "heap"},
   inFormat : {"XML", "JSON", "NOFORMAT"}]

\* What the calls of connectionTreat() leave for the next one.
ConnInv ==
  /\ ci \in CiType
  /\ heap = IF ci.payload = "heap" THEN {serial} ELSE {}
  /\ ci.payload = "static" => buffer = serial
  /\ served.from \in {0, serial}
  /\ phase \in {"idle", "headers", "payload", "replied"}
  /\ phase = "idle" => Unserved /\ ci.payload = "NULL"
  /\ phase = "headers" => Unserved /\ Clean(req) /\ ci.payload = "NULL" /\ ci.status = 200 /\ ~ci.answer
  /\ phase = "payload" =>
       /\ Unserved /\ Clean(req) /\ req.length # "none"
       /\ IF req.length = "huge" THEN ci.answer /\ ci.status = 413 ELSE ~ci.answer /\ ci.status = 200
  /\ FaultAnswered

\* The routines that answer with an error of their own ask nothing of the backend.
LEMMA BadRoutine ==
  ASSUME NEW routine, NEW verb, NEW u, NEW q, NEW p, NEW paths, RoutineStatus(routine) # 200
  PROVE  Treat(routine, verb, u, q, p, paths) = Refused
<1>1. routine \in {"badVerbPostOnly", "badVerbGetOnly", "badVerbGetPostOnly", "badVerbGetDeleteOnly",
                   "badVerbPutDeleteOnly", "badVerbGetPostDeleteOnly", "badVerbGetPutDeleteOnly",
                   "badVerbAllFour"}
  BY DEF RoutineStatus, Allow
<1> QED
  BY <1>1, Zenon DEF Treat

\* To ask nothing is not to be refused.
LEMMA RefusedIsSome == Refused # Nothing
<1>1. Refused.op = "refused" /\ Nothing.op = "none"
  BY Zenon DEF Refused, Nothing
<1> QED
  BY <1>1, Zenon

\* The outcomes of the backend are told apart from the requests without length.
LEMMA ReportedWord ==
  ASSUME NEW asked, NEW out \in Outcomes(asked)
  PROVE  Reported(asked, out) # "length"
<1>1. out.code \in {"ok", "error"}
  BY DEF Outcomes
<1> QED
  BY <1>1, Zenon DEF Reported

\* The status of a request whose headers are good.
LEMMA CleanStatus ==
  ASSUME NEW r, NEW s, Clean(r)
  PROVE  StatusFor(r, s) =
           IF s.reported = "length" THEN 411
           ELSE IF r.length = "huge" THEN 413
           ELSE IF s.row = 0 \/ s.asked = Nothing THEN 200
           ELSE RoutineStatus(restServiceV[s.row].treat)
<1>1. r.fault \notin {"parameter", "url"} /\ r.fault # "servicePath" /\ r.fault # "accept"
  BY Zenon DEF Clean
<1>2. ~(r.length # "none" /\ r.type = "other")
  BY Zenon DEF Clean
<1> QED
  BY <1>1, <1>2, Zenon DEF StatusFor

\* The fields of the records at rest.
LEMMA AtRest ==
  /\ NoCi \in CiType /\ NoCi.status = 200 /\ ~NoCi.answer /\ NoCi.payload = "NULL"
  /\ NoServed.row = 0 /\ NoServed.from = 0 /\ NoServed.asked = Nothing /\ NoServed.reported = ""
<1>1. NoCi.status = 200 /\ ~NoCi.answer /\ NoCi.payload = "NULL"
  BY Zenon DEF NoCi
<1>2. NoServed.row = 0 /\ NoServed.from = 0 /\ NoServed.asked = Nothing /\ NoServed.reported = ""
  BY Zenon DEF NoServed
<1>3. NoCi \in CiType
  <2>1. 200 \in Nat
    OBVIOUS
  <2>2. \A a \in Nat, b \in BOOLEAN, c \in {"NULL", "static", "heap"}, d \in {"XML", "JSON", "NOFORMAT"} :
          [status |-> a, answer |-> b, payload |-> c, inFormat |-> d] \in CiType
    BY Zenon DEF CiType
  <2>3. FALSE \in BOOLEAN /\ "NULL" \in {"NULL", "static", "heap"} /\ "XML" \in {"XML", "JSON", "NOFORMAT"}
    BY Zenon
  <2> QED
    BY <2>1, <2>2, <2>3, ZenonT(30) DEF NoCi
<1> QED
  BY <1>1, <1>2, <1>3, Zenon

\* A connection starts without memory and without a reply.
LEMMA ConnInit == Init => ConnInv
<1> SUFFICES ASSUME Init PROVE ConnInv
  BY Zenon
<1>1. phase = "idle" /\ ci = NoCi /\ wire = NoReply /\ served = NoServed /\ heap = {}
  BY Zenon DEF Init
<1>2. FaultAnswered
  BY <1>1, AtRest, Zenon DEF FaultAnswered
<1> QED
  BY <1>1, <1>2, AtRest, Zenon DEF ConnInv, Unserved

\* What of a ConnectionInfo the invariant looks at.
CiIs(c, status_, answer, payload) ==
  c \in CiType /\ c.status = status_ /\ c.answer = answer /\ c.payload = payload

\* The checks and the calls set single fields: an error sets the status and the answer,
LEMMA SetError ==
  ASSUME NEW c \in CiType, NEW n \in Nat, NEW d, d = [c EXCEPT !.status = n, !.answer = TRUE]
  PROVE  CiIs(d, n, TRUE, c.payload)
  BY Zenon DEF CiType, CiIs

\* httpStatusCode alone,
LEMMA SetStatus ==
  ASSUME NEW c \in CiType, NEW n \in Nat, NEW d, d = [c EXCEPT !.status = n]
  PROVE  CiIs(d, n, c.answer, c.payload)
  BY Zenon DEF CiType, CiIs

\* the answer alone,
LEMMA SetAnswer ==
  ASSUME NEW c \in CiType, NEW d, d = [c EXCEPT !.answer = TRUE]
  PROVE  CiIs(d, c.status, TRUE, c.payload)
  BY Zenon DEF CiType, CiIs

\* the format of the payload,
LEMMA SetFormat ==
  ASSUME NEW c \in CiType, NEW f \in {"XML", "JSON", "NOFORMAT"}, NEW d, d = [c EXCEPT !.inFormat = f]
  PROVE  CiIs(d, c.status, c.answer, c.payload)
  BY Zenon DEF CiType, CiIs

\* and the memory of the payload.
LEMMA SetPayload ==
  ASSUME NEW c \in CiType, NEW p \in {"static", "heap"}, NEW d, d = [c EXCEPT !.payload = p]
  PROVE  CiIs(d, c.status, c.answer, p)
  BY Zenon DEF CiType, CiIs

\* The status of an error that is set after the answer was rendered.
LEMMA ErrorReply ==
  ASSUME NEW c \in CiType, NEW n \in Nat, NEW d,
         d = [restErrorReplyGet([c EXCEPT !.answer = TRUE]) EXCEPT !.status = n]
  PROVE  CiIs(d, n, TRUE, c.payload)
<1>1. PICK e : e = [c EXCEPT !.answer = TRUE]
  BY Zenon
<1>2. e \in CiType /\ e.answer = TRUE /\ e.payload = c.payload
  BY <1>1, SetAnswer, Zenon DEF CiIs
<1>3. 200 \in Nat
  OBVIOUS
<1>4. PICK g : g = restErrorReplyGet(e)
  BY Zenon
<1>5. g \in CiType /\ g.answer = TRUE /\ g.payload = c.payload
  BY <1>2, <1>3, <1>4, ZenonT(30) DEF CiType, restErrorReplyGet
<1>6. CiIs([g EXCEPT !.status = n], n, TRUE, c.payload)
  BY <1>5, Zenon DEF CiType, CiIs
<1> QED
  BY <1>1, <1>4, <1>6, Zenon

\* The words of formatParse().
LEMMA FormatWord ==
  ASSUME NEW type
  PROVE  formatParse(type) \in {"XML", "JSON", "NOFORMAT"}
  BY Zenon DEF formatParse

\* The first call: the request is answered with the status of its first error, or it has
\* none and waits for its payload.
LEMMA HeadersStep == ConnInv /\ Headers => ConnInv'
<1> SUFFICES ASSUME ConnInv, Headers PROVE ConnInv'
  BY Zenon
<1>1. /\ phase = "idle" /\ serial' = serial + 1 /\ served' = NoServed /\ buffer' = buffer /\ heap' = heap
      /\ ci.payload = "NULL" /\ wire = NoReply /\ heap = {}
  BY Zenon DEF Headers, ConnInv, Unserved
<1>2. /\ req'.length \in Lengths
      /\ req'.type \in {"xml", "json", "other"}
      /\ req'.fault \in {"", "parameter", "url", "servicePath", "accept"}
  <2>1. PICK v \in Verbs, l \in Lengths, t \in {"xml", "json", "other"}, n \in {1, 2},
             f \in {"", "parameter", "url", "servicePath", "accept"}, tn \in {"ok", "bad"} :
               req' = [verb |-> v, length |-> l, type |-> t, paths |-> n, fault |-> f, tenant |-> tn]
    BY Zenon DEF Headers
  <2>2. req'.length = l /\ req'.type = t /\ req'.fault = f
    BY <2>1, Zenon
  <2> QED
    BY <2>2, Zenon
<1>3. 200 \in Nat /\ 400 \in Nat /\ 415 \in Nat /\ 406 \in Nat
  OBVIOUS
<1> DEFINE first   == urlCheck(uriArgumentGet(NoCi))
           paths   == servicePathSplit(first)
           checked == IF BadContentType THEN contentTypeCheck(paths) ELSE outFormatCheck(paths)
           replied == IF paths.answer THEN [status |-> paths.status, error |-> TRUE]
                      ELSE [status |-> checked.status, error |-> TRUE]
<1>4. /\ first.answer => ci' = first /\ wire' = Reply(first.status, TRUE) /\ phase' = "replied"
      /\ ~first.answer =>
           /\ ci' = IF BadContentType \/ req'.fault = "accept" THEN checked
                    ELSE [checked EXCEPT !.inFormat = formatParse(req'.type)]
           /\ IF checked.answer THEN wire' = replied /\ phase' = "replied"
              ELSE wire' = wire /\ phase' = "headers"
  BY Zenon DEF Headers
<1> DEFINE Treated == /\ ci' \in CiType /\ ci'.payload = "NULL"
                   /\ \/ phase' = "replied" /\ wire'.status = StatusFor(req', served')
                      \/ /\ phase' = "headers" /\ wire' = NoReply /\ Clean(req')
                         /\ ci'.status = 200 /\ ~ci'.answer
<1>5. Treated => ConnInv'
  <2> SUFFICES ASSUME Treated PROVE ConnInv'
    BY Zenon
  <2>1. FaultAnswered'
    BY <1>1, AtRest, Zenon DEF FaultAnswered
  <2> QED
    BY <1>1, <2>1, AtRest, Zenon DEF ConnInv, Unserved
<1> HIDE DEF Treated
<1>6. CASE req'.fault \in {"parameter", "url"}
  <2>1. PICK e : e = [NoCi EXCEPT !.status = 400, !.answer = TRUE]
    BY Zenon
  <2>2. CiIs(e, 400, TRUE, "NULL")
    <3>1. CiIs(e, 400, TRUE, NoCi.payload)
      <4> HIDE DEF NoCi
      <4>1. NoCi \in CiType /\ 400 \in Nat
        BY <1>3, AtRest, Zenon
      <4> QED
        BY ONLY <4>1, <2>1, SetError, ZenonT(30)
    <3> QED
      BY <3>1, AtRest, Zenon
  <2>3. first = e
    <3>1. uriArgumentGet(NoCi) = IF req'.fault = "parameter" THEN e ELSE NoCi
      BY <2>1, Zenon DEF uriArgumentGet
    <3>2. req'.fault = "parameter" => urlCheck(e) = e
      BY Zenon DEF urlCheck
    <3>3. req'.fault = "url" => urlCheck(NoCi) = e
      BY <2>1, Zenon DEF urlCheck
    <3> QED
      BY <1>6, <3>1, <3>2, <3>3, Zenon
  <2>4. ci' = e /\ wire' = Reply(400, TRUE) /\ phase' = "replied"
    BY <1>4, <2>2, <2>3, ZenonT(30) DEF CiIs
  <2>5. wire'.status = 400 /\ StatusFor(req', served') = 400
    BY <1>1, <1>6, <2>4, Zenon DEF Reply, StatusFor
  <2> QED
    BY <1>5, <2>2, <2>4, <2>5, ZenonT(30) DEF Treated, CiIs
<1> DEFINE NotFirst == req'.fault \notin {"parameter", "url"}
<1>7. NotFirst => first = NoCi
  BY Zenon DEF urlCheck, uriArgumentGet
<1>8. CASE req'.fault = "servicePath"
  <2>1. PICK e : e = [NoCi EXCEPT !.answer = TRUE]
    BY Zenon
  <2>2. CiIs(e, 200, TRUE, "NULL")
    BY <2>1, SetAnswer, AtRest, ZenonT(30)
  <2>3. first = NoCi /\ paths = e
    BY <1>7, <1>8, <2>1, Zenon DEF servicePathSplit
  <2>4. replied.status = 200
    BY <2>2, <2>3, Zenon DEF CiIs
  <2>5. \E n : CiIs(checked, n, TRUE, "NULL")
    <3>1. BadContentType => CiIs(contentTypeCheck(e), 415, TRUE, "NULL")
      <4>1. e \in CiType /\ e.payload = "NULL"
        BY <2>2, Zenon DEF CiIs
      <4>2. BadContentType => contentTypeCheck(e) = [restErrorReplyGet([e EXCEPT !.answer = TRUE]) EXCEPT !.status = 415]
        BY Zenon DEF contentTypeCheck
      <4>3. PICK g : g = contentTypeCheck(e)
        BY Zenon
      <4>4. BadContentType => CiIs(g, 415, TRUE, e.payload)
        BY ONLY <1>3, <4>1, <4>2, <4>3, ErrorReply, ZenonT(30)
      <4> QED
        BY <4>1, <4>3, <4>4, Zenon
    <3>2. outFormatCheck(e) = e
      BY <1>8, Zenon DEF outFormatCheck
    <3> QED
      BY <2>2, <2>3, <3>1, <3>2, Zenon
  <2> PICK d, n : d = checked /\ CiIs(d, n, TRUE, "NULL")
    BY <2>5, Zenon
  <2>6. wire' = replied /\ phase' = "replied"
    BY <1>4, <2>3, AtRest, Zenon DEF CiIs
  <2>7. StatusFor(req', served') = 200
    BY <1>8, Zenon DEF StatusFor
  <2>8. ci' \in CiType /\ ci'.payload = "NULL"
    <3>1. ci' = d \/ ci' = [d EXCEPT !.inFormat = formatParse(req'.type)]
      BY <1>4, <2>3, AtRest, Zenon
    <3>2. d \in CiType /\ d.payload = "NULL"
      BY Zenon DEF CiIs
    <3>3. ci' = d \/ CiIs(ci', d.status, d.answer, d.payload)
      BY <3>1, <3>2, FormatWord, SetFormat, Zenon
    <3> QED
      BY <3>2, <3>3, Zenon DEF CiIs
  <2> QED
    BY <1>5, <2>4, <2>6, <2>7, <2>8, Zenon DEF Treated
<1>9. CASE req'.fault \in {"", "accept"}
  <2>1. first = NoCi /\ paths = NoCi
    BY <1>7, <1>9, Zenon DEF servicePathSplit
  <2> DEFINE chk == checked
  <2>5. chk = IF BadContentType THEN contentTypeCheck(NoCi) ELSE outFormatCheck(NoCi)
    BY <2>1, Zenon
  <2>6. /\ ci' = IF BadContentType \/ req'.fault = "accept" THEN chk
                 ELSE [chk EXCEPT !.inFormat = formatParse(req'.type)]
        /\ chk.answer => wire' = [status |-> chk.status, error |-> TRUE] /\ phase' = "replied"
        /\ ~chk.answer => wire' = NoReply /\ phase' = "headers"
    BY <1>1, <1>4, <2>1, AtRest, Zenon
  <2> HIDE DEF chk
  <2>2. CASE BadContentType
    <3>1. PICK e : e = contentTypeCheck(NoCi)
      BY Zenon
    <3>2. e = [restErrorReplyGet([NoCi EXCEPT !.answer = TRUE]) EXCEPT !.status = 415]
      BY <2>2, <3>1, Zenon DEF contentTypeCheck
    <3>3. CiIs(e, 415, TRUE, NoCi.payload)
      <4>1. NoCi \in CiType /\ 415 \in Nat
        BY <1>3, AtRest, Zenon
      <4> QED
        BY ONLY <3>2, <4>1, ErrorReply, ZenonT(30)
    <3>4. chk = e
      BY <2>5, <2>2, <3>1, Zenon
    <3>5. ci' = e /\ wire'.status = 415 /\ phase' = "replied"
      <4>1. e.answer /\ e.status = 415
        BY <3>3, Zenon DEF CiIs
      <4>2. wire' = [status |-> 415, error |-> TRUE] /\ phase' = "replied" /\ ci' = e
        BY <2>6, <2>2, <3>4, <4>1, Zenon
      <4> QED
        BY <4>2, Zenon
    <3>6. StatusFor(req', served') = 415
      BY <1>2, <1>9, <2>2, ZenonT(30) DEF StatusFor, BadContentType
    <3>7. ci' \in CiType /\ ci'.payload = "NULL"
      BY <3>3, <3>5, AtRest, ZenonT(30) DEF CiIs
    <3> QED
      BY <1>5, <3>5, <3>6, <3>7, Zenon DEF Treated
  <2>3. CASE ~BadContentType /\ req'.fault = "accept"
    <3>1. PICK e : e = outFormatCheck(NoCi)
      BY Zenon
    <3>2. e = [restErrorReplyGet([NoCi EXCEPT !.answer = TRUE]) EXCEPT !.status = 406]
      BY <2>3, <3>1, Zenon DEF outFormatCheck
    <3>3. CiIs(e, 406, TRUE, NoCi.payload)
      <4>1. NoCi \in CiType /\ 406 \in Nat
        BY <1>3, AtRest, Zenon
      <4> QED
        BY ONLY <3>2, <4>1, ErrorReply, ZenonT(30)
    <3>4. chk = e
      BY <2>5, <2>3, <3>1, Zenon
    <3>5. ci' = e /\ wire'.status = 406 /\ phase' = "replied"
      <4>1. e.answer /\ e.status = 406
        BY <3>3, Zenon DEF CiIs
      <4>2. wire' = [status |-> 406, error |-> TRUE] /\ phase' = "replied" /\ ci' = e
        BY <2>6, <2>3, <3>4, <4>1, Zenon
      <4> QED
        BY <4>2, Zenon
    <3>6. StatusFor(req', served') = 406
      BY <1>2, <2>3, ZenonT(30) DEF StatusFor, BadContentType
    <3>7. ci' \in CiType /\ ci'.payload = "NULL"
      BY <3>3, <3>5, AtRest, ZenonT(30) DEF CiIs
    <3> QED
      BY <1>5, <3>5, <3>6, <3>7, Zenon DEF Treated
  <2>4. CASE ~BadContentType /\ req'.fault = ""
    <3>1. chk = NoCi
      BY <2>4, <2>5, Zenon DEF outFormatCheck
    <3>2. ci' = [NoCi EXCEPT !.inFormat = formatParse(req'.type)] /\ wire' = NoReply /\ phase' = "headers"
      BY <2>4, <2>6, <3>1, AtRest, Zenon
    <3>3. CiIs(ci', NoCi.status, NoCi.answer, NoCi.payload)
      <4>1. NoCi \in CiType /\ formatParse(req'.type) \in {"XML", "JSON", "NOFORMAT"}
        BY AtRest, FormatWord, Zenon
      <4> QED
        BY ONLY <3>2, <4>1, SetFormat, Zenon
    <3>4. Clean(req')
      BY <1>2, <2>4, Zenon DEF Clean, BadContentType
    <3>5. ci' \in CiType /\ ci'.payload = "NULL" /\ ci'.status = 200 /\ ~ci'.answer
      BY <3>3, AtRest, Zenon DEF CiIs
    <3> QED
      BY <1>5, <3>2, <3>4, <3>5, Zenon DEF Treated
  <2> QED
    BY <1>9, <2>2, <2>3, <2>4, Zenon
<1> QED
  BY <1>2, <1>6, <1>8, <1>9, Zenon

\* The second call keeps the payload, or the error that it is too large.
LEMMA PayloadStep == ConnInv /\ Payload => ConnInv'
<1> SUFFICES ASSUME ConnInv, Payload PROVE ConnInv'
  BY Zenon
<1>1. /\ phase' = "payload" /\ req' = req /\ wire' = wire /\ served' = served /\ serial' = serial
      /\ req.length # "none"
  BY Zenon DEF Payload
<1>2. /\ Unserved /\ Clean(req) /\ CiIs(ci, 200, FALSE, "NULL") /\ heap = {}
  <2>1. phase = "headers"
    BY Zenon DEF Payload
  <2>2. ci \in CiType /\ ci.payload = "NULL" /\ ci.status = 200 /\ ~ci.answer
    BY <2>1, Zenon DEF ConnInv
  <2>3. ci.answer = FALSE
    BY <2>2, Zenon DEF CiType
  <2> QED
    BY <2>1, <2>2, <2>3, Zenon DEF ConnInv, CiIs
<1>3. FaultAnswered' /\ Unserved' /\ Clean(req)' /\ served'.from \in {0, serial'}
  <2>1. served'.row = 0 /\ served'.from = 0
    BY <1>1, <1>2, AtRest, Zenon DEF Unserved
  <2> QED
    BY <1>1, <1>2, <2>1, Zenon DEF FaultAnswered, Unserved
<1>4. CASE req.length \in {"static", "heap"}
  <2>1. PICK p \in {"static", "heap"} : p = req.length /\ ci' = [ci EXCEPT !.payload = p]
    BY <1>4, Zenon DEF Payload
  <2>2. CiIs(ci', ci.status, ci.answer, p)
    <3>1. ci \in CiType
      BY <1>2, Zenon DEF CiIs
    <3> QED
      BY ONLY <2>1, <3>1, SetPayload, Zenon
  <2>3. ci' \in CiType /\ ci'.status = 200 /\ ~ci'.answer /\ ci'.payload = p
    BY <1>2, <2>2, Zenon DEF CiIs
  <2>4. p = "static" => buffer' = serial' /\ heap' = {}
    BY <1>1, <1>2, <2>1, Zenon DEF Payload
  <2>5. p = "heap" => heap' = {serial'}
    <3>1. p = "heap" => heap' = heap \cup {serial}
      BY <2>1, Zenon DEF Payload
    <3> QED
      BY <1>1, <1>2, <3>1, Zenon
  <2>6. heap' = IF ci'.payload = "heap" THEN {serial'} ELSE {}
    BY <2>1, <2>3, <2>4, <2>5, Zenon
  <2> QED
    BY <1>1, <1>3, <2>1, <2>3, <2>4, <2>6, Zenon DEF ConnInv
<1>5. CASE req.length \notin {"static", "heap"}
  <2>1. ci' = [restErrorReplyGet([ci EXCEPT !.answer = TRUE]) EXCEPT !.status = 413] /\ heap' = heap
    BY <1>5, Zenon DEF Payload, TooLarge
  <2>5. 413 \in Nat
    OBVIOUS
  <2>2. 413 \in Nat /\ ci \in CiType /\ ci.payload = "NULL"
    BY <1>2, <2>5, Zenon DEF CiIs
  <2>3. CiIs(ci', 413, TRUE, ci.payload)
    BY ONLY <2>1, <2>2, ErrorReply, ZenonT(30)
  <2>4. ci' \in CiType /\ ci'.status = 413 /\ ci'.answer /\ ci'.payload = "NULL"
    BY <2>2, <2>3, Zenon DEF CiIs
  <2>6. req.length = "huge"
    BY <1>1, <1>2, <1>5, Zenon DEF Clean, Lengths
  <2> QED
    BY <1>1, <1>2, <1>3, <2>1, <2>4, <2>6, Zenon DEF ConnInv
<1> QED
  BY <1>4, <1>5, Zenon

\* requestCompleted frees the payload that was kept on the heap.
LEMMA CompletedStep == ConnInv /\ requestCompleted => ConnInv'
<1> SUFFICES ASSUME ConnInv, requestCompleted PROVE ConnInv'
  BY Zenon
<1>1. /\ phase' = "idle" /\ heap' = Freed /\ ci' = NoCi /\ wire' = NoReply /\ served' = NoServed
  BY Zenon DEF requestCompleted
<1>2. heap' = {}
  BY <1>1, Zenon DEF Freed, ConnInv
<1>3. FaultAnswered'
  BY <1>1, AtRest, Zenon DEF FaultAnswered
<1> QED
  BY <1>1, <1>2, <1>3, AtRest, Zenon DEF ConnInv, Unserved

\* What restService() may leave for a row of the table, and the status n of its reply: an
\* error before the routine, or the answer w of the routine that asked a of the backend.
MayServe(s, n, r, found, a, w) ==
  \/ s = [found EXCEPT !.row = 0] /\ n = 200
  \/ s = [found EXCEPT !.reported = w] /\ n = 200
  \/ /\ r # 0 /\ (RoutineStatus(restServiceV[r].treat) # 200 => a # Nothing)
     /\ s = [found EXCEPT !.asked = a, !.reported = w] /\ n = RoutineStatus(restServiceV[r].treat)

\* What that is for the invariant.
ServedWell(s, n, f, u) ==
  /\ s.from = f /\ (s.row # 0 => s.url = u) /\ s.reported # "length"
  /\ n = IF s.row = 0 \/ s.asked = Nothing THEN 200 ELSE RoutineStatus(restServiceV[s.row].treat)

\* The status is right for what was served.
LEMMA ServedAs ==
  ASSUME NEW r, NEW u, NEW v, NEW f, NEW a, NEW w, NEW found, NEW s, NEW n,
         found = [NoServed EXCEPT !.row = r, !.url = u, !.parsed = v, !.from = f],
         w # "length", MayServe(s, n, r, found, a, w)
  PROVE  ServedWell(s, n, f, u)
<1>1. PICK b : b = ""
  BY Zenon
<1>2. PICK m : m = Nothing
  BY Zenon
<1>3. PICK e : e = <<>>
  BY Zenon
<1>4. NoServed = [row |-> 0, url |-> e, parsed |-> b, asked |-> m, from |-> 0, reported |-> b]
  BY <1>1, <1>2, <1>3, Zenon DEF NoServed
<1>5. found = [row |-> r, url |-> u, parsed |-> v, asked |-> m, from |-> f, reported |-> b]
  BY ONLY <1>4, found = [NoServed EXCEPT !.row = r, !.url = u, !.parsed = v, !.from = f], Zenon
<1>6. CASE s = [found EXCEPT !.row = 0] /\ n = 200
  <2>1. s.row = 0 /\ s.from = f /\ s.reported = b
    BY ONLY <1>5, <1>6, Zenon
  <2> QED
    BY <1>1, <1>6, <2>1, Zenon DEF ServedWell
<1>7. CASE s = [found EXCEPT !.reported = w] /\ n = 200
  <2>1. s.url = u /\ s.from = f /\ s.reported = w /\ s.asked = m
    BY ONLY <1>5, <1>7, Zenon
  <2> QED
    BY <1>2, <1>7, <2>1, Zenon DEF ServedWell
<1>8. CASE /\ r # 0 /\ (RoutineStatus(restServiceV[r].treat) # 200 => a # Nothing)
           /\ s = [found EXCEPT !.asked = a, !.reported = w] /\ n = RoutineStatus(restServiceV[r].treat)
  <2>1. s = [found EXCEPT !.asked = a, !.reported = w]
    BY <1>8, Zenon
  <2>2. s.row = r /\ s.url = u /\ s.from = f /\ s.reported = w /\ s.asked = a
    BY ONLY <1>5, <2>1, Zenon
  <2> QED
    BY <1>8, <2>2, Zenon DEF ServedWell
<1> QED
  BY <1>6, <1>7, <1>8, Zenon DEF MayServe

\* A connection whose request has no error so far.
Serving == ConnInv /\ wire = NoReply /\ ci.status = 200

\* What the third call serves: a row of the table with the payload of the request, and a
\* status that is right for it.
LEMMA ServiceServes ==
  ASSUME Serving, NEW url, restService(url)
  PROVE  \E f \in {0, serial} : ServedWell(served', wire'.status, f, url)
<1> DEFINE row     == Service(req.verb, url)
           service == restServiceV[row]
           body    == row # 0 /\ ci.payload # "NULL" /\ service.verb # "*"
           vec     == IF body THEN payloadParse(service) ELSE ""
           from    == IF body THEN ReadFrom ELSE 0
           found   == [NoServed EXCEPT !.row = row, !.url = url, !.parsed = vec, !.from = from]
           asked(q, p) == Treat(service.treat, req.verb, url, q, p, req.paths)
<1>1. from \in {0, serial}
  <2>1. ReadFrom = serial
    BY Zenon DEF Serving, ReadFrom, ConnInv
  <2> QED
    BY <2>1, Zenon
<1>2. \/ /\ served' = [found EXCEPT !.row = 0] /\ wire' = Reply(restErrorReplyGet(ci).status, TRUE)
      \/ /\ row # 0
         /\ served' = [found EXCEPT !.reported = "unparsed"] /\ wire' = Reply(restErrorReplyGet(ci).status, TRUE)
      \/ /\ row # 0
         /\ served' = [found EXCEPT !.reported = "tenant"] /\ wire' = Reply(ci.status, TRUE)
      \/ /\ row # 0
         /\ \E q \in Params, p \in Payloads(vec) : \E outcome_ \in Outcomes(asked(q, p)) :
              /\ served' = [found EXCEPT !.asked = asked(q, p), !.reported = Reported(asked(q, p), outcome_)]
              /\ wire' = Reply(RoutineStatus(service.treat), outcome_.code # "ok")
  BY Zenon DEF restService
<1>3. restErrorReplyGet(ci).status = 200
  BY Zenon DEF Serving, restErrorReplyGet, ConnInv, CiType
<1>4. \A n, b : Reply(n, b).status = n
  BY Zenon DEF Serving, Reply
<1>5. ASSUME NEW q, NEW p, NEW out \in Outcomes(asked(q, p))
      PROVE  /\ Reported(asked(q, p), out) # "length"
             /\ RoutineStatus(service.treat) # 200 => asked(q, p) # Nothing
  <2>1. PICK t : t = service.treat
    BY Zenon
  <2>2. PICK v, n : v = req.verb /\ n = req.paths
    BY Zenon
  <2>3. PICK a : a = Treat(t, v, url, q, p, n)
    BY Zenon
  <2>4. asked(q, p) = a
    BY <2>1, <2>2, <2>3, Zenon
  <2>5. RoutineStatus(t) # 200 => a # Nothing
    BY ONLY <2>3, BadRoutine, RefusedIsSome, Zenon
  <2> HIDE DEF asked
  <2>6. out \in Outcomes(a)
    BY <1>5, <2>4, Zenon
  <2>7. Reported(a, out) # "length"
    BY ONLY <2>6, ReportedWord, Zenon
  <2> QED
    BY <2>1, <2>4, <2>5, <2>7, Zenon
<1> HIDE DEF row, vec, from, asked
<1>6. ASSUME NEW w, w # "length", NEW a, NEW s, NEW n, MayServe(s, n, row, found, a, w)
      PROVE  ServedWell(s, n, from, url)
  <2>1. found = [NoServed EXCEPT !.row = row, !.url = url, !.parsed = vec, !.from = from]
    BY Zenon
  <2> HIDE DEF found
  <2> QED
    BY ONLY <1>6, <2>1, ServedAs, Zenon
<1> HIDE DEF found
<1>7. \A s, w : s = [found EXCEPT !.row = 0] \/ s = [found EXCEPT !.reported = w] => MayServe(s, 200, row, found, 0, w)
  BY Zenon DEF MayServe
<1>8. ASSUME NEW w, w # "length", NEW b, wire' = Reply(200, b),
             served' = [found EXCEPT !.row = 0] \/ served' = [found EXCEPT !.reported = w]
      PROVE  ServedWell(served', wire'.status, from, url)
  <2>1. ServedWell(served', 200, from, url)
    <3>1. MayServe(served', 200, row, found, 0, w)
      BY ONLY <1>7, <1>8, Zenon
    <3>2. w # "length"
      BY <1>8, Zenon
    <3> QED
      BY ONLY <1>6, <3>1, <3>2, Zenon
  <2>2. wire'.status = 200
    <3>1. wire' = Reply(200, b)
      BY <1>8, Zenon
    <3> QED
      BY ONLY <1>4, <3>1, ZenonT(30)
  <2> QED
    BY ONLY <2>1, <2>2, Zenon
<1>9. ASSUME NEW q \in Params, NEW p \in Payloads(vec), NEW out \in Outcomes(asked(q, p)), row # 0,
             served' = [found EXCEPT !.asked = asked(q, p), !.reported = Reported(asked(q, p), out)],
             wire' = Reply(RoutineStatus(service.treat), out.code # "ok")
      PROVE  ServedWell(served', wire'.status, from, url)
  <2>1. PICK n : n = RoutineStatus(service.treat)
    BY Zenon
  <2>2. PICK a : a = asked(q, p)
    BY Zenon
  <2>3. PICK w : w = Reported(a, out)
    BY Zenon
  <2>4. w # "length" /\ (n # 200 => a # Nothing)
    BY ONLY <1>5, <1>9, <2>1, <2>2, <2>3, Zenon
  <2>5. served' = [found EXCEPT !.asked = a, !.reported = w]
    <3>1. served' = [found EXCEPT !.asked = asked(q, p), !.reported = Reported(asked(q, p), out)]
      BY <1>9, Zenon
    <3> QED
      BY ONLY <2>2, <2>3, <3>1, Zenon
  <2>6. MayServe(served', n, row, found, a, w)
    <3>1. row # 0 /\ n = RoutineStatus(restServiceV[row].treat)
      BY <1>9, <2>1, Zenon
    <3> QED
      BY ONLY <2>4, <2>5, <3>1, Zenon DEF MayServe
  <2>7. wire'.status = n
    BY ONLY <1>4, <1>9, <2>1, Zenon
  <2>8. ServedWell(served', n, from, url)
    BY ONLY <1>6, <2>4, <2>6, Zenon
  <2> QED
    BY ONLY <2>7, <2>8, Zenon
<1>10. ServedWell(served', wire'.status, from, url)
  <2>1. wire' = Reply(restErrorReplyGet(ci).status, TRUE) => wire' = Reply(200, TRUE)
    BY ONLY <1>3, Zenon
  <2>2. wire' = Reply(ci.status, TRUE) => wire' = Reply(200, TRUE)
    BY Zenon DEF Serving
  <2>3. "unparsed" # "length" /\ "tenant" # "length"
    BY ONLY Zenon
  <2> QED
    BY ONLY <1>2, <1>8, <1>9, <2>1, <2>2, <2>3, Zenon
<1> QED
  BY ONLY <1>1, <1>10, Zenon

\* The third call answers: that a length is required, that the payload is too large, or
\* what the service makes of the request.
LEMMA FinalStep == ConnInv /\ Final => ConnInv'
<1> SUFFICES ASSUME ConnInv, Final PROVE ConnInv'
  BY Zenon
<1>1. phase' = "replied" /\ req' = req /\ serial' = serial /\ buffer' = buffer /\ heap' = heap
  BY Zenon DEF Final
<1>2. /\ wire = NoReply /\ served = NoServed /\ Clean(req)
      /\ IF req.length = "huge" THEN ci.answer /\ ci.status = 413 ELSE ~ci.answer /\ ci.status = 200
  <2>1. CASE phase = "payload"
    BY <2>1, Zenon DEF ConnInv, Unserved
  <2>2. CASE phase = "headers" /\ req.length = "none"
    BY <2>2, Zenon DEF ConnInv, Unserved
  <2> QED
    BY <2>1, <2>2, Zenon DEF Final
<1>3. \A n, b : Reply(n, b).status = n
  BY <1>2, Zenon DEF Reply
<1>4. PICK url \in Urls :
        IF LengthRequired(url)
        THEN /\ ci' = [restErrorReplyGet(ci) EXCEPT !.status = 411]
             /\ wire' = Reply(ci'.status, TRUE) /\ served' = [NoServed EXCEPT !.reported = "length"]
        ELSE IF ci.answer
        THEN wire' = Reply(ci.status, TRUE) /\ UNCHANGED <<ci, served>>
        ELSE ci' = ci /\ restService(url)
  BY Zenon DEF Final
<1> DEFINE Answered(s, n) ==
      /\ s.from \in {0, serial}
      /\ s.row # 0 => /\ req.length # "huge"
                      /\ req.verb \in {"POST", "PUT"} /\ req.length = "none" => s.url[1] = "log"
      /\ n = StatusFor(req, s)
<1>5. ASSUME Answered(served', wire'.status), ci' \in CiType, ci'.payload = ci.payload
      PROVE  ConnInv'
  <2>1. FaultAnswered'
    BY <1>1, <1>2, <1>5, Zenon DEF FaultAnswered, Clean
  <2>2. /\ heap' = IF ci'.payload = "heap" THEN {serial'} ELSE {}
        /\ ci'.payload = "static" => buffer' = serial'
    BY <1>1, <1>5, Zenon DEF ConnInv
  <2> QED
    BY <1>1, <1>5, <2>1, <2>2, Zenon DEF ConnInv
<1>9. Clean(req)
  BY <1>2, Zenon
<1>6. CASE LengthRequired(url)
  <2>1. /\ ci' = [restErrorReplyGet(ci) EXCEPT !.status = 411]
        /\ wire' = Reply(ci'.status, TRUE) /\ served' = [NoServed EXCEPT !.reported = "length"]
    BY <1>4, <1>6, Zenon
  <2>2. 200 \in Nat /\ 411 \in Nat
    OBVIOUS
  <2>3. PICK c : c = restErrorReplyGet(ci)
    BY Zenon
  <2>4. c \in CiType /\ c.payload = ci.payload
    BY <2>2, <2>3, ZenonT(30) DEF ConnInv, CiType, restErrorReplyGet
  <2>5. ci' = [c EXCEPT !.status = 411]
    BY <2>1, <2>3, Zenon
  <2>6. ci' \in CiType /\ ci'.payload = ci.payload /\ ci'.status = 411
    <3>1. CiIs(ci', 411, c.answer, c.payload)
      BY ONLY <2>2, <2>4, <2>5, SetStatus, ZenonT(30)
    <3> QED
      BY ONLY <2>4, <3>1, Zenon DEF CiIs
  <2>7. served'.from = 0 /\ served'.row = 0 /\ served'.reported = "length"
    BY <2>1, Zenon DEF NoServed
  <2>8. wire'.status = 411
    <3>1. wire'.status = ci'.status
      BY <1>3, <2>1, Zenon
    <3> QED
      BY ONLY <2>6, <3>1, Zenon
  <2>9. StatusFor(req, served') = 411
    <3>1. StatusFor(req, served') =
            IF served'.reported = "length" THEN 411
            ELSE IF req.length = "huge" THEN 413
            ELSE IF served'.row = 0 \/ served'.asked = Nothing THEN 200
            ELSE RoutineStatus(restServiceV[served'.row].treat)
      BY ONLY <1>9, CleanStatus, Zenon
    <3> QED
      BY ONLY <2>7, <3>1, Zenon
  <2> QED
    BY <1>5, <2>6, <2>7, <2>8, <2>9, Zenon
<1>7. CASE ~LengthRequired(url) /\ ci.answer
  <2>1. wire' = Reply(ci.status, TRUE) /\ ci' = ci /\ served' = served
    BY <1>4, <1>7, Zenon
  <2>2. req.length = "huge" /\ ci.status = 413
    BY <1>2, <1>7, Zenon
  <2>3. served'.from = 0 /\ served'.row = 0 /\ served'.reported = ""
    BY <1>2, <2>1, AtRest, Zenon
  <2>4. wire'.status = 413
    <3>1. wire'.status = ci.status
      BY <1>3, <2>1, Zenon
    <3> QED
      BY ONLY <2>2, <3>1, Zenon
  <2>5. StatusFor(req, served') = 413
    <3>1. served'.reported # "length"
      BY <2>3, ZenonT(30)
    <3>2. StatusFor(req, served') =
            IF served'.reported = "length" THEN 411
            ELSE IF req.length = "huge" THEN 413
            ELSE IF served'.row = 0 \/ served'.asked = Nothing THEN 200
            ELSE RoutineStatus(restServiceV[served'.row].treat)
      BY ONLY <1>9, CleanStatus, Zenon
    <3> QED
      BY ONLY <2>2, <3>1, <3>2, Zenon
  <2>6. ci' \in CiType /\ ci'.payload = ci.payload
    BY <2>1, Zenon DEF ConnInv
  <2> QED
    BY <1>5, <2>3, <2>4, <2>5, <2>6, ZenonT(30)
<1>8. CASE ~LengthRequired(url) /\ ~ci.answer
  <2>1. ci' = ci /\ restService(url)
    BY <1>4, <1>8, Zenon
  <2>2. req.length # "huge" /\ ci.status = 200
    BY <1>2, <1>8, Zenon
  <2>3. Serving
    BY <1>2, <2>2, Zenon DEF Serving
  <2>4. PICK f \in {0, serial} : ServedWell(served', wire'.status, f, url)
    BY ONLY <2>1, <2>3, ServiceServes, Zenon
  <2>5. PICK s, n : s = served' /\ n = wire'.status /\ ServedWell(s, n, f, url)
    BY ONLY <2>4, Zenon
  <2>6. s.from \in {0, serial} /\ (s.row # 0 => s.url = url) /\ s.reported # "length"
    BY <2>5, Zenon DEF ServedWell
  <2>7. n = StatusFor(req, s)
    <3>1. n = IF s.row = 0 \/ s.asked = Nothing THEN 200 ELSE RoutineStatus(restServiceV[s.row].treat)
      BY ONLY <2>5, Zenon DEF ServedWell
    <3>2. StatusFor(req, s) =
            IF s.reported = "length" THEN 411
            ELSE IF req.length = "huge" THEN 413
            ELSE IF s.row = 0 \/ s.asked = Nothing THEN 200
            ELSE RoutineStatus(restServiceV[s.row].treat)
      BY ONLY <1>9, CleanStatus, Zenon
    <3> QED
      BY ONLY <2>2, <2>6, <3>1, <3>2, Zenon
  <2>8. req.verb \in {"POST", "PUT"} /\ req.length = "none" => url[1] = "log"
    BY <1>8, Zenon DEF LengthRequired
  <2>9. Answered(s, n)
    BY <2>2, <2>6, <2>7, <2>8, Zenon
  <2>10. ci' \in CiType /\ ci'.payload = ci.payload
    BY <2>1, Zenon DEF ConnInv
  <2> HIDE DEF Answered
  <2> QED
    BY ONLY <1>5, <2>5, <2>9, <2>10, ZenonT(30)
<1> QED
  BY <1>6, <1>7, <1>8, Zenon

\* Every step of a connection preserves the invariant, and so do the other parts.
LEMMA ConnStep == ConnInv /\ [PartsNext]_allVars => ConnInv'
<1> SUFFICES ASSUME ConnInv, [PartsNext]_allVars PROVE ConnInv'
  BY Zenon
<1>1. Next \/ UNCHANGED vars
  BY Zenon DEF PartsNext, allVars
<1>2. ASSUME UNCHANGED vars PROVE ConnInv'
  <2>1. /\ phase' = phase /\ req' = req /\ ci' = ci /\ wire' = wire /\ served' = served
        /\ serial' = serial /\ buffer' = buffer /\ heap' = heap
    BY <1>2, Zenon DEF vars
  <2>2. FaultAnswered' <=> FaultAnswered
    BY <2>1, Zenon DEF FaultAnswered
  <2>3. (Unserved' <=> Unserved) /\ (Clean(req)' <=> Clean(req))
    BY <2>1, Zenon DEF Unserved
  <2> QED
    BY <2>1, <2>2, <2>3, ZenonT(30) DEF ConnInv
<1>3. Finished => UNCHANGED vars
  BY Zenon DEF Finished
<1> QED
  BY <1>1, <1>2, <1>3, HeadersStep, PayloadStep, FinalStep, CompletedStep, ZenonT(30) DEF Next

\* For any number of requests over a connection and any verbs, the parser reads the payload
\* of the request itself, and the memory of a payload is freed with its request, also when
\* the client goes away between two calls of connectionTreat().
THEOREM PayloadOwnedAlways == PartsSpec => []PayloadOwned
<1>1. PartsInit => ConnInv
  BY ConnInit, Zenon DEF PartsInit
<1>2. ConnInv => PayloadOwned
  BY Zenon DEF ConnInv, PayloadOwned
<1> QED
  BY <1>1, <1>2, ConnStep, PTL DEF PartsSpec

\* For any number of requests over a connection and any verbs, a faulty request is never
\* given to a service routine, and every reply has the status of the first error found.
THEOREM FaultAnsweredAlways == PartsSpec => []FaultAnswered
<1>1. PartsInit => ConnInv
  BY ConnInit, Zenon DEF PartsInit
<1>2. ConnInv => FaultAnswered
  BY Zenon DEF ConnInv
<1> QED
  BY <1>1, <1>2, ConnStep, PTL DEF PartsSpec

-----------------------------------------------------------------------------
(* Service paths.                                                          *)

\* A set of numbers has a least one.
LEMMA LeastNumber ==
  ASSUME NEW T \in SUBSET Nat, T # {}
  PROVE  \E n \in T : \A m \in T : n <= m
<1> DEFINE R == OpToRel(<, Nat)
<1>1. IsWellFoundedOn(R, Nat)
  BY NatLessThanWellFounded, Zenon
<1>2. \A x, y \in Nat : <<x, y>> \in R <=> x < y
  BY Zenon DEF OpToRel
<1> HIDE DEF R
<1>3. \E x \in T : \A y \in T : ~(<<y, x>> \in R)
  BY <1>1, WFMin, Zenon
<1>4. PICK n \in T : \A y \in T : <<y, n>> \notin R
  BY <1>3, Zenon
<1>5. ASSUME NEW m \in T PROVE n <= m
  <2>1. m \in Nat /\ n \in Nat
    BY Zenon
  <2>2. ~(m < n)
    BY <1>2, <1>4, <2>1, Zenon
  <2> QED
    BY <2>1, <2>2
<1> QED
  BY <1>5, Zenon

\* The first elements of a sequence.
LEMMA FirstSeq ==
  ASSUME NEW S, NEW s \in Seq(S), NEW n \in 0 .. Len(s)
  PROVE  /\ SubSeq(s, 1, n) \in Seq(S)
         /\ Len(SubSeq(s, 1, n)) = n
         /\ \A i \in 1 .. n : SubSeq(s, 1, n)[i] = s[i]
         /\ n = Len(s) => SubSeq(s, 1, n) = s
<1> PICK t : t = SubSeq(s, 1, n)
  BY Zenon
<1>1. t \in Seq(S) /\ Len(t) = n /\ \A i \in 1 .. n : t[i] = s[i]
  OBVIOUS
<1>2. n = Len(s) => t = s
  BY <1>1
<1> QED
  BY <1>1, <1>2, Zenon

\* The separators at the end of a path can be told.
LEMMA TrailingSlash ==
  ASSUME NEW S, NEW p \in Seq(S)
  PROVE  Paths!removeTrailingSlash(p) \in Seq(S)
<1>1. PICK b : b = ""
  BY Zenon
<1> DEFINE IsEnd(i) == (i > 0 => p[i] # b) /\ \A j \in i + 1 .. Len(p) : p[j] = b
           end == CHOOSE i \in 0 .. Len(p) : IsEnd(i)
           T == {i \in 0 .. Len(p) : \A j \in i + 1 .. Len(p) : p[j] = b}
<1>2. T \in SUBSET Nat /\ Len(p) \in T
  OBVIOUS
<1>3. PICK i \in T : \A j \in T : i <= j
  BY <1>2, LeastNumber, Zenon
<1>4. IsEnd(i) /\ i \in 0 .. Len(p)
  <2>1. ASSUME i > 0, p[i] = b PROVE FALSE
    <3>1. i - 1 \in T
      BY <2>1
    <3>2. i \in Nat
      BY <1>2, <1>3, Zenon
    <3>3. i <= i - 1
      <4> HIDE DEF T
      <4> QED
        BY <1>3, <3>1, Zenon
    <3> QED
      BY ONLY <3>2, <3>3
  <2> QED
    BY <2>1, Zenon
<1>5. end \in 0 .. Len(p)
  <2> HIDE DEF IsEnd
  <2> QED
    BY <1>4, Zenon
<1>6. Paths!removeTrailingSlash(p) = SubSeq(p, 1, end)
  BY <1>1, Zenon DEF Paths!removeTrailingSlash
<1> HIDE DEF end
<1> QED
  BY <1>5, <1>6, FirstSeq

\* A path without empty components has no leading separators.
LEMMA SplitPlain ==
  ASSUME NEW S, NEW p \in Seq(S), NEW b, b = "", \A i \in 1 .. Len(p) : p[i] # b
  PROVE  Paths!stringSplit(p) = p
<1> DEFINE IsStart(i) == (i <= Len(p) => p[i] # b) /\ \A j \in 1 .. i - 1 : p[j] = b
           start == CHOOSE i \in 1 .. Len(p) + 1 : IsStart(i)
<1>1. PICK n \in Nat : n = Len(p)
  BY LenProperties, Zenon
<1>2. 1 \in 1 .. Len(p) + 1 /\ IsStart(1)
  BY ONLY <1>1, \A i \in 1 .. Len(p) : p[i] # b
<1>3. ASSUME NEW i \in 1 .. Len(p) + 1, IsStart(i) PROVE i = 1
  BY ONLY <1>1, <1>3, \A j \in 1 .. Len(p) : p[j] # b
<1>4. start = 1
  <2> HIDE DEF IsStart
  <2> QED
    BY <1>2, <1>3, Zenon
<1>5. Paths!stringSplit(p) = SubSeq(p, start, Len(p))
  BY b = "", Zenon DEF Paths!stringSplit
<1> HIDE DEF start
<1> QED
  BY ONLY <1>1, <1>4, <1>5, FirstSeq, p \in Seq(S)

\* A path of one component.
LEMMA OneElement ==
  ASSUME NEW S, NEW h \in S
  PROVE  <<h>> \in Seq(S)
OBVIOUS

\* The paths that lead to c with "#" behind one of them, and c itself, are the ones that
\* cover c.
LEMMA PrefixesCover ==
  ASSUME NEW S, NEW h \in S, NEW c \in Seq(S), NEW s \in Seq(S)
  PROVE  s \in {<<h>>, c} \cup {Append(SubSeq(c, 1, i), h) : i \in 1 .. Len(c)}
           <=> \/ s = c
               \/ s # <<>> /\ s[Len(s)] = h /\ Paths!IsPrefix(SubSeq(s, 1, Len(s) - 1), c)
<1>1. PICK m \in Nat : m = Len(c)
  BY LenProperties, Zenon
<1>2. PICK n \in Nat : n = Len(s)
  BY LenProperties, Zenon
<1>3. ASSUME s = <<h>>
      PROVE  s # <<>> /\ s[Len(s)] = h /\ Paths!IsPrefix(SubSeq(s, 1, Len(s) - 1), c)
  <2>1. Len(s) = 1 /\ s[1] = h /\ s # <<>>
    BY <1>3, Zenon
  <2>2. SubSeq(s, 1, 0) = <<>>
    BY <1>3
  <2>3. Paths!IsPrefix(<<>>, c)
    BY <1>1 DEF Paths!IsPrefix
  <2>4. Len(s) - 1 = 0
    BY <2>1
  <2> QED
    BY <2>1, <2>2, <2>3, <2>4, Zenon
<1>4. ASSUME NEW i \in 1 .. Len(c), s = Append(SubSeq(c, 1, i), h)
      PROVE  s # <<>> /\ s[Len(s)] = h /\ Paths!IsPrefix(SubSeq(s, 1, Len(s) - 1), c)
  <2>1. PICK t \in Seq(S) : t = SubSeq(c, 1, i) /\ Len(t) = i /\ \A j \in 1 .. i : t[j] = c[j]
    <3>1. i \in 0 .. Len(c)
      BY <1>1
    <3> QED
      BY <3>1, FirstSeq, Zenon
  <2>2. Len(s) = i + 1 /\ s[i + 1] = h /\ \A j \in 1 .. i : s[j] = t[j]
    BY <1>4, <2>1, <1>1
  <2>3. PICK f \in Seq(S) : f = SubSeq(s, 1, i) /\ Len(f) = i /\ \A j \in 1 .. i : f[j] = s[j]
    <3>1. i \in 0 .. Len(s)
      BY <1>1, <2>2
    <3> QED
      BY <3>1, FirstSeq, Zenon
  <2>4. Paths!IsPrefix(f, c)
    BY <1>1, <1>4, <2>1, <2>2, <2>3 DEF Paths!IsPrefix
  <2>5. s # <<>>
    <3>1. Len(s) # 0
      BY <1>1, <2>2
    <3> QED
      BY <3>1, EmptySeq, Zenon
  <2>6. Len(s) - 1 = i
    BY <2>2, <1>1, <1>4
  <2> QED
    BY <2>2, <2>3, <2>4, <2>5, <2>6
<1>5. ASSUME s # <<>>, s[Len(s)] = h, Paths!IsPrefix(SubSeq(s, 1, Len(s) - 1), c)
      PROVE  s = <<h>> \/ \E i \in 1 .. Len(c) : s = Append(SubSeq(c, 1, i), h)
  <2>1. n > 0
    BY <1>2, <1>5, EmptySeq
  <2>2. PICK i \in Nat : i = n - 1
    BY <2>1, <1>2
  <2>3. PICK f \in Seq(S) : f = SubSeq(s, 1, i) /\ Len(f) = i /\ \A j \in 1 .. i : f[j] = s[j]
    <3>1. i \in 0 .. Len(s)
      BY <1>2, <2>2
    <3> QED
      BY <3>1, FirstSeq, Zenon
  <2>4. i <= m /\ \A j \in 1 .. i : f[j] = c[j]
    <3>1. Len(s) - 1 = i
      BY <1>2, <2>2, Zenon
    <3>2. Paths!IsPrefix(f, c)
      BY <1>5, <2>3, <3>1, Zenon
    <3>3. DOMAIN f = 1 .. i
      BY <2>3
    <3> QED
      BY <1>1, <2>3, <3>2, <3>3, Zenon DEF Paths!IsPrefix
  <2>5. CASE i = 0
    <3>1. PICK t \in Seq(S) : t = <<h>>
      BY OneElement, Zenon
    <3>2. Len(t) = 1 /\ t[1] = h
      BY <3>1, Zenon
    <3>5. n = 1
      BY <2>2, <2>5
    <3>3. Len(s) = 1
      BY <1>2, <3>5, Zenon
    <3>4. \A j \in 1 .. Len(s) : s[j] = t[j]
      BY <1>5, <3>2, <3>3
    <3> QED
      BY <3>1, <3>2, <3>3, <3>4, SeqEqual, ZenonT(30)
  <2>6. CASE i > 0
    <3>1. PICK t \in Seq(S) : t = SubSeq(c, 1, i) /\ Len(t) = i /\ \A j \in 1 .. i : t[j] = c[j]
      <4>1. i \in 0 .. Len(c)
        BY <1>1, <2>2, <2>4
      <4> QED
        BY <4>1, FirstSeq, Zenon
    <3>2. PICK a \in Seq(S) : a = Append(t, h)
      BY <3>1, AppendProperties, Zenon
    <3>3. Len(a) = i + 1 /\ a[i + 1] = h /\ \A j \in 1 .. i : a[j] = t[j]
      BY <3>1, <3>2, <2>2
    <3>4. s = a
      <4>1. Len(s) = i + 1 /\ s[i + 1] = h
        BY <1>2, <1>5, <2>2
      <4>2. \A j \in 1 .. i : s[j] = a[j]
        BY <2>3, <2>4, <3>1, <3>3, ZenonT(30)
      <4>3. \A j \in 1 .. Len(s) : j \in 1 .. i \/ j = i + 1
        BY <2>2, <4>1
      <4>4. Len(s) = Len(a) /\ \A j \in 1 .. Len(s) : s[j] = a[j]
        BY <3>3, <4>1, <4>2, <4>3, ZenonT(30)
      <4> QED
        BY <4>4, SeqEqual, Zenon
    <3>5. i \in 1 .. Len(c)
      BY <1>1, <2>2, <2>4, <2>6
    <3> QED
      BY <3>1, <3>2, <3>4, <3>5, Zenon
  <2> QED
    BY <2>2, <2>5, <2>6
<1> QED
  BY <1>3, <1>4, <1>5, Zenon

Below(c, h) == {Append(SubSeq(c, 1, i), h) : i \in 1 .. Len(c)}

Leads(s, c, h) == s # <<>> /\ s[Len(s)] = h /\ Paths!IsPrefix(SubSeq(s, 1, Len(s) - 1), c)

\* The same, with names for the two sides.
LEMMA BelowLeads ==
  ASSUME NEW S, NEW h \in S, NEW c \in Seq(S), NEW s \in Seq(S)
  PROVE  s \in {<<h>>, c} \cup Below(c, h) <=> s = c \/ Leads(s, c, h)
<1>1. s \in {<<h>>, c} \cup {Append(SubSeq(c, 1, i), h) : i \in 1 .. Len(c)}
        <=> \/ s = c
            \/ s # <<>> /\ s[Len(s)] = h /\ Paths!IsPrefix(SubSeq(s, 1, Len(s) - 1), c)
  BY PrefixesCover, Zenon
<1> QED
  BY <1>1, Zenon DEF Below, Leads

Path == Seq(Component \cup {"#"})

\* The subscriptions that servicePathSubscriptionRegex selects for a path without empty
\* components are the ones that cover it.
LEMMA TriggersCovers ==
  ASSUME NEW p \in Path \cup {NoPath}, NEW s \in Path \cup {NoPath}, Paths!Plain(p)
  PROVE  Paths!Triggers(p, s) <=> Paths!Covers(s, p)
<1>1. PICK S : S = Component \cup {"#"}
  BY Zenon
<1>2. PICK h \in S : h = "#"
  BY <1>1, Zenon
<1>3. PICK c : c = IF p = NoPath THEN <<>> ELSE p
  BY Zenon
<1>4. c \in Seq(S)
  <2>1. CASE p = NoPath
    BY <1>3, <2>1, EmptySeq, Zenon
  <2>2. CASE p # NoPath
    BY <1>1, <1>3, <2>2, Zenon DEF Path
  <2> QED
    BY <2>1, <2>2, Zenon
<1>5. p # NoPath => Paths!stringSplit(p) = p
  <2>1. ASSUME p # NoPath PROVE Paths!stringSplit(p) = p
    <3>1. p \in Seq(S)
      BY <1>1, <2>1, Zenon DEF Path
    <3>2. PICK b : b = ""
      BY Zenon
    <3>3. \A i \in 1 .. Len(p) : p[i] # b
      BY <2>1, <3>2, Zenon DEF Paths!Plain
    <3> QED
      BY <3>1, <3>2, <3>3, SplitPlain, Zenon
  <2> QED
    BY <2>1, Zenon
<1>6. PICK below : below = Below(c, h)
  BY Zenon
<1>7. Paths!servicePathSubscriptionRegex(p) = {<<h>>, c} \cup below
  <2>1. PICK d : d = IF p = NoPath THEN <<>> ELSE Paths!stringSplit(p)
    BY Zenon
  <2>2. d = c
    BY <1>3, <1>5, <2>1, Zenon
  <2>3. Paths!servicePathSubscriptionRegex(p)
          = IF c = <<>> THEN {<<h>>, <<>>} ELSE {<<h>>, c} \cup below
    BY <1>2, <1>6, <2>1, <2>2, Zenon DEF Paths!servicePathSubscriptionRegex, Below
  <2>4. c = <<>> => below = {}
    <3>1. c = <<>> => Len(c) = 0
      BY EmptySeq, Zenon
    <3>2. 1 .. 0 = {}
      OBVIOUS
    <3> QED
      BY <1>6, <3>1, <3>2, Zenon DEF Below
  <2> QED
    BY <2>3, <2>4, Zenon
<1>8. CASE s = NoPath
  BY <1>8, Zenon DEF Paths!Triggers, Paths!Covers
<1>9. CASE s # NoPath
  <2>1. s \in Seq(S)
    BY <1>1, <1>9, Zenon DEF Path
  <2>2. Paths!Triggers(p, s) <=> s \in {<<h>>, c} \cup below
    BY <1>7, <1>9, Zenon DEF Paths!Triggers
  <2>3. s \in {<<h>>, c} \cup below <=> s = c \/ Leads(s, c, h)
    BY <1>4, <1>6, <2>1, BelowLeads, Zenon
  <2>4. Paths!Covers(s, p) <=> s = c \/ Leads(s, c, h)
    <3>1. Paths!Covers(s, p)
            <=> s = c \/ (Paths!EndsInHash(s) /\ Paths!IsPrefix(Paths!Front(s), c))
      BY <1>3, <1>9, Zenon DEF Paths!Covers
    <3>2. Paths!EndsInHash(s) <=> s # <<>> /\ s[Len(s)] = h
      BY <1>2, Zenon DEF Paths!EndsInHash, Paths!Last
    <3>3. Paths!Front(s) = SubSeq(s, 1, Len(s) - 1)
      BY Zenon DEF Paths!Front
    <3> QED
      BY <3>1, <3>2, <3>3, Zenon DEF Leads
  <2> QED
    BY <2>2, <2>3, <2>4, Zenon
<1> QED
  BY <1>8, <1>9, Zenon

\* A path without its last component leads to the path.
LEMMA FrontLeads ==
  ASSUME NEW S, NEW s \in Seq(S), s # <<>>
  PROVE  Paths!IsPrefix(Paths!Front(s), s)
<1>1. PICK n \in Nat : n = Len(s)
  BY LenProperties, Zenon
<1>2. n # 0
  BY <1>1, EmptySeq, Zenon
<1>3. PICK m \in 0 .. n : m = n - 1
  BY <1>2
<1>4. m \in 0 .. Len(s)
  BY <1>1, Zenon
<1>5. PICK f \in Seq(S) : f = SubSeq(s, 1, m) /\ Len(f) = m /\ \A i \in 1 .. m : f[i] = s[i]
  BY <1>4, FirstSeq, Zenon
<1>6. DOMAIN f = 1 .. m /\ m <= n
  BY <1>5
<1>7. f = Paths!Front(s)
  BY <1>1, <1>3, <1>5, Zenon DEF Paths!Front
<1>8. Paths!IsPrefix(f, s)
  BY <1>1, <1>5, <1>6, Zenon DEF Paths!IsPrefix
<1> QED
  BY <1>7, <1>8, Zenon

\* What fillQueryServicePath selects under a path is what the path covers.
LEMMA QueryCovers ==
  ASSUME NEW e \in Path \cup {NoPath}, NEW s \in Path \cup {NoPath}
  PROVE  Paths!fillQueryServicePath(IF s = NoPath THEN {} ELSE {s}, e) <=> Paths!Covers(s, e)
<1>1. CASE s = NoPath
  BY <1>1, Zenon DEF Paths!fillQueryServicePath, Paths!Covers
<1>2. CASE s # NoPath
  <2>1. PICK S : S = Component \cup {"#"}
    BY Zenon
  <2>2. PICK h \in S : h = "#"
    BY <2>1, Zenon
  <2>3. s \in Seq(S)
    BY <1>2, <2>1, Zenon DEF Path
  <2>4. Paths!fillQueryServicePath(IF s = NoPath THEN {} ELSE {s}, e)
          <=> Paths!QueryPathMatches(s, e)
    BY <1>2, Zenon DEF Paths!fillQueryServicePath
  <2>5. CASE e # NoPath
    <3>1. Paths!EndsInHash(s) => Paths!IsPrefix(Paths!Front(s), s)
      BY <2>3, FrontLeads, Zenon DEF Paths!EndsInHash
    <3> QED
      BY <1>2, <2>4, <2>5, <3>1, ZenonT(30) DEF Paths!QueryPathMatches, Paths!Covers
  <2>6. CASE e = NoPath
    <3>1. PICK c \in Seq(S) : c = <<>>
      BY EmptySeq, Zenon
    <3>2. PICK below : below = Below(c, h)
      BY Zenon
    <3>3. below = {}
      <4>1. Len(c) = 0
        BY <3>1, EmptySeq, Zenon
      <4>2. 1 .. 0 = {}
        OBVIOUS
      <4> QED
        BY <3>2, <4>1, <4>2, Zenon DEF Below
    <3>4. s \in {<<h>>, c} \cup below <=> s = c \/ Leads(s, c, h)
      BY <2>3, <3>2, BelowLeads, Zenon
    <3>5. Paths!Covers(s, e) <=> s = c \/ Leads(s, c, h)
      <4>1. Paths!Covers(s, e)
              <=> s = c \/ (Paths!EndsInHash(s) /\ Paths!IsPrefix(Paths!Front(s), c))
        BY <1>2, <2>6, <3>1, Zenon DEF Paths!Covers
      <4>2. Paths!EndsInHash(s) <=> s # <<>> /\ s[Len(s)] = h
        BY <2>2, Zenon DEF Paths!EndsInHash, Paths!Last
      <4>3. Paths!Front(s) = SubSeq(s, 1, Len(s) - 1)
        BY Zenon DEF Paths!Front
      <4> QED
        BY <4>1, <4>2, <4>3, Zenon DEF Leads
    <3>6. Paths!QueryPathMatches(s, e) <=> s \in {<<>>, <<h>>}
      BY <2>2, <2>6, Zenon DEF Paths!QueryPathMatches
    <3> QED
      BY <2>4, <3>1, <3>3, <3>4, <3>5, <3>6, ZenonT(30)
  <2> QED
    BY <2>5, <2>6, Zenon
<1> QED
  BY <1>1, <1>2, Zenon

-----------------------------------------------------------------------------

PathType == {updated, entity, subscribed} \subseteq Path \cup {NoPath}

\* A path that passed the checks is a path without its trailing separators.
LEMMA RequestPaths == Paths!RequestPath \subseteq Path
<1> SUFFICES ASSUME NEW r \in Paths!RequestPath PROVE r \in Path
  BY Zenon
<1>1. PICK S : S = Component \cup {"#"}
  BY Zenon
<1>2. PICK p \in Paths!BoundedSeq(S, MaxLevels) : r = Paths!removeTrailingSlash(p)
  BY <1>1, Zenon DEF Paths!RequestPath
<1>3. PICK k \in 0 .. MaxLevels : p \in [1 .. k -> S]
  BY <1>2, Zenon DEF Paths!BoundedSeq
<1>4. k \in Nat
  BY <1>3
<1>5. p \in Seq(S)
  BY <1>3, <1>4
<1> QED
  BY <1>1, <1>2, <1>5, TrailingSlash, ZenonT(30) DEF Path

\* The paths keep their type in every step.
LEMMA PathStep ==
  ASSUME PathType, [PartsNext]_allVars
  PROVE  PathType'
<1>1. CASE UNCHANGED pathVars
  BY <1>1, Zenon DEF PathType, pathVars
<1>2. CASE Paths!Next
  <2>1. PICK e \in Path : e = <<>>
    BY EmptySeq, Zenon DEF Path
  <2>2. ASSUME NEW p \in Paths!RequestPath \cup {NoPath},
               Paths!postUpdateContext(p) \/ Paths!mapUpdate(p) \/ Paths!mongoSubscribeContext(p)
        PROVE  PathType'
    <3>1. p \in Path \cup {NoPath}
      BY RequestPaths, Zenon
    <3>2. CASE Paths!postUpdateContext(p)
      BY <2>1, <3>1, <3>2, ZenonT(30) DEF Paths!postUpdateContext, PathType
    <3>3. CASE Paths!mapUpdate(p)
      BY <3>1, <3>3, Zenon DEF Paths!mapUpdate, PathType
    <3>4. CASE Paths!mongoSubscribeContext(p)
      BY <3>1, <3>4, Zenon DEF Paths!mongoSubscribeContext, PathType
    <3> QED
      BY <2>2, <3>2, <3>3, <3>4, ZenonT(30)
  <2>3. CASE Paths!createEntity
    BY <2>3, Zenon DEF Paths!createEntity, PathType
  <2> QED
    BY <1>2, <2>2, <2>3, Zenon DEF Paths!Next
<1>3. UNCHANGED pathVars \/ Paths!Next
  BY Zenon DEF PartsNext, allVars
<1> QED
  BY <1>1, <1>2, <1>3, Zenon

\* With paths of any length, servicePathSubscriptionRegex triggers the subscriptions
\* that cover the path of the update, and fillQueryServicePath finds the entities that
\* trigger them.
LEMMA TypeAgrees ==
  ASSUME PathType
  PROVE  PathsAgree
<1>1. updated \in Path \cup {NoPath} /\ entity \in Path \cup {NoPath} /\ subscribed \in Path \cup {NoPath}
  BY Zenon DEF PathType
<1>2. Paths!SubscriptionScope
  BY <1>1, TriggersCovers, Zenon DEF Paths!SubscriptionScope
<1>3. Paths!QueryAgreesWithSubscription
  <2> SUFFICES ASSUME Paths!Plain(entity)
               PROVE  Paths!fillQueryServicePath(IF subscribed = NoPath THEN {} ELSE {subscribed}, entity)
                        <=> Paths!Triggers(entity, subscribed)
    BY Zenon DEF Paths!QueryAgreesWithSubscription
  <2>1. Paths!Triggers(entity, subscribed) <=> Paths!Covers(subscribed, entity)
    BY <1>1, TriggersCovers, Zenon
  <2>2. Paths!fillQueryServicePath(IF subscribed = NoPath THEN {} ELSE {subscribed}, entity)
          <=> Paths!Covers(subscribed, entity)
    BY <1>1, QueryCovers, Zenon
  <2> QED
    BY <2>1, <2>2, Zenon
<1> QED
  BY <1>2, <1>3, Zenon DEF PathsAgree

\* Whatever the components and the number of levels, an update triggers exactly the
\* subscriptions whose service path covers its own, and a query finds an entity exactly
\* when a subscription under the path of the query is triggered by it: the expressions of
\* servicePathSubscriptionRegex and of fillQueryServicePath agree.
THEOREM PathsAgreeAlways == PartsSpec => []PathsAgree
<1>1. PartsInit => PathType
  BY Zenon DEF PartsInit, Paths!Init, PathType
<1>2. PathType /\ [PartsNext]_allVars => PathType'
  BY PathStep, Zenon
<1>3. PathType => PathsAgree
  BY TypeAgrees, Zenon
<1> QED
  BY <1>1, <1>2, <1>3, PTL DEF PartsSpec
=============================================================================
