----------------------------- MODULE HttpSender ------------------------------
(***************************************************************************)
(* How the broker sends a message: notifications are handed to a thread of *)
(* their own, which calls sendHttpSocket() and ends; requests forwarded to *)
(* a provider or to another broker call it directly and wait for the       *)
(* answer.  libcurl carries the message, over a relay (Rush) if one is     *)
(* configured and the message is no request to a provider.                 *)
(*                                                                         *)
(* The model follows one message: the threads share nothing.  libcurl may  *)
(* fail at every call, with the message delivered or not.                  *)
(***************************************************************************)
EXTENDS Naturals, Sequences

VARIABLES
  rush,      \* rushHost and rushPort are set
  message,   \* the message to send, or NoMessage
  params,    \* what sendHttpSocket is called with
  stage,     \* "idle", "created", "sending", "performed" or "over"
  memory,    \* what is allocated for it
  headers,   \* the HTTP headers of the request
  outcome,   \* what curl_easy_perform returned
  result,    \* what sendHttpSocket returns: "", "error" or "answer"
  received   \* the headers that the addressee, or the relay, has received

senderVars == <<rush, message, params, stage, memory, headers, outcome, result, received>>

NoMessage == [kind |-> "none"]
NoParams  == [protocol |-> "", servicePath |-> <<>>, rush |-> FALSE]
NoHeaders == [relay |-> "", servicePath |-> <<>>]

\* A message, the URL it goes to, the service paths of its elements and its size.
Messages ==
  [kind  : {"notifyContext", "notifyContextAvailability", "forward", "registerContext"},
   url   : {"malformed", "portZero", "http:", "https:"},
   paths : {<<p>> : p \in {"", "/", "/a"}} \cup {<<p, q>> : p, q \in {"", "/", "/a"}},
   large : BOOLEAN]

SenderInit ==
  /\ rush \in BOOLEAN
  /\ message = NoMessage /\ params = NoParams /\ stage = "idle" /\ memory = {}
  /\ headers = NoHeaders /\ outcome = "" /\ result = "" /\ received = {}

-----------------------------------------------------------------------------
\* The text of the list; "" is <<>>, and so is one that holds only an empty path.
Text(list) == IF list = <<"">> THEN <<>> ELSE list

\* The paths one after the other.
JoinedPaths(paths) ==
  LET list[n \in 0 .. Len(paths)] ==
        IF n = 0 THEN <<>> ELSE Append(Text(list[n - 1]), paths[n])
  IN  list[Len(paths)]

\* The paths are left out when one of them is the default.
spathListOfAll(paths) ==
  IF \A i \in DOMAIN paths : paths[i] # "/"
  THEN JoinedPaths(paths) ELSE <<>>

\* The paths of the elements with commas between them; none if all are the default.
spathList(paths) ==
  IF \E i \in DOMAIN paths : paths[i] # "/"
  THEN JoinedPaths(paths) ELSE <<>>

\* A thread is created for the message, with its parameters; when it is not, the
\* parameters stay allocated.
CreateThread(p) ==
  \/ /\ stage' = "created" /\ memory' = {"params"} /\ params' = p
     /\ UNCHANGED result
  \/ /\ stage' = "over" /\ memory' = {"params"} /\ result' = "error"
     /\ UNCHANGED params

Send(m) ==
  /\ stage = "idle"
  /\ message' = m
  /\ UNCHANGED <<rush, headers, outcome, received>>

\* parseUrl finds the URL of the reference malformed: nothing is sent.
Dropped(m) ==
  /\ m.url = "malformed"
  /\ stage' = "over" /\ result' = "error"
  /\ UNCHANGED <<params, memory>>

\* The handler leaves the sending to a thread.
sendNotifyContextRequest(m) ==
  /\ m.kind = "notifyContext" /\ Send(m)
  /\ \/ Dropped(m)
     \/ /\ m.url # "malformed"
        /\ CreateThread([protocol |-> m.url, servicePath |-> spathList(m.paths), rush |-> TRUE])

\* The protocol of the URL and the service paths are not among the parameters.
sendNotifyContextAvailabilityRequest(m) ==
  /\ m.kind = "notifyContextAvailability" /\ Send(m)
  /\ \/ Dropped(m)
     \/ /\ m.url # "malformed"
        /\ CreateThread([protocol |-> "", servicePath |-> <<>>, rush |-> TRUE])

\* A service routine calls sendHttpSocket itself.
Call(p) == params' = p /\ stage' = "created" /\ UNCHANGED <<memory, result>>

\* A query or an update for a provider, with the path of the request.
Forward(m) ==
  /\ m.kind = "forward" /\ Len(m.paths) = 1 /\ Send(m)
  /\ \/ Dropped(m)
     \/ m.url # "malformed" /\ Call([protocol |-> m.url, servicePath |-> Text(m.paths), rush |-> FALSE])

\* A registration goes to the broker of the command line, and over the relay as well.
fordwardRegisterContext(m) ==
  /\ m.kind = "registerContext" /\ m.url = "http:" /\ Len(m.paths) = 1 /\ Send(m)
  /\ Call([protocol |-> "http:", servicePath |-> Text(m.paths), rush |-> TRUE])

-----------------------------------------------------------------------------
(* sendHttpSocket and the end of startSenderThread.                        *)

\* The thread does not delete its parameters when the call has failed.
EndKeepsParams(text, kept) ==
  /\ stage' = "over" /\ result' = text
  /\ memory' = IF text = "error" THEN kept ELSE kept \ {"params"}

\* sendHttpSocket returns; a sender thread deletes its parameters.
End(text, kept) == stage' = "over" /\ result' = text /\ memory' = kept \ {"params"}

\* The port is zero, or curl_easy_init fails.
Refuse ==
  /\ stage = "created"
  /\ End("error", memory)
  /\ UNCHANGED <<rush, message, params, headers, outcome, received>>

\* The headers; Rush is told the host and, for https, the protocol.
Relayed == params.rush /\ rush

Prepare ==
  /\ stage = "created" /\ message.url # "portZero"
  /\ IF message.large
     THEN End("error", memory) /\ UNCHANGED headers
     ELSE /\ stage' = "sending"
          /\ memory' = memory \cup {"curl", "headers", "response"}
          /\ headers' = [relay |-> IF ~Relayed THEN "none"
                                   ELSE IF params.protocol = "https:" THEN "https" ELSE "http",
                         servicePath |-> params.servicePath]
          /\ UNCHANGED result
  /\ UNCHANGED <<rush, message, params, outcome, received>>

\* writeMemoryCallback for a part of the answer: without memory libcurl gives up, and
\* the old memory is lost.
writeMemoryCallback ==
  /\ stage = "sending" /\ outcome = ""
  /\ received' = {headers}
  /\ outcome' = "writeError"
  /\ memory' = (memory \ {"response"}) \cup {"lost"}
  /\ UNCHANGED <<rush, message, params, stage, headers, result>>

\* curl_easy_perform.
Perform ==
  /\ stage = "sending"
  /\ \/ outcome = "" /\ outcome' = "ok" /\ received' = {headers}
     \/ outcome = "" /\ outcome' = "failed" /\ received' \in {{}, {headers}}
     \/ outcome = "writeError" /\ UNCHANGED <<outcome, received>>
  /\ stage' = "performed"
  /\ UNCHANGED <<rush, message, params, memory, headers, result>>

Cleanup ==
  /\ stage = "performed"
  /\ End(IF outcome = "ok" THEN "answer" ELSE "", memory \ {"curl", "headers", "response"})
  /\ UNCHANGED <<rush, message, params, headers, outcome, received>>

Over == stage = "over" /\ UNCHANGED senderVars

SenderNext ==
  \/ \E m \in Messages : \/ sendNotifyContextRequest(m)
                         \/ sendNotifyContextAvailabilityRequest(m)
                         \/ Forward(m)
                         \/ fordwardRegisterContext(m)
  \/ Refuse \/ Prepare \/ writeMemoryCallback \/ Perform \/ Cleanup \/ Over

-----------------------------------------------------------------------------
\* Once a message is over, on whichever of its ways, nothing is kept for it: the thread
\* that sends it deletes what the handler has allocated. (Where pthread_create fails
\* there is no thread, and where realloc fails the memory of the answer is lost.)
NothingKept ==
  stage = "over" => memory = {} \/ memory = {"lost"} \/ (memory = {"params"} /\ params = NoParams)

\* What the service paths of a header are to its reader: without header all are "/".
Read(list, n) == IF list = <<>> THEN [i \in 1 .. n |-> "/"] ELSE list

\* What a notification arrives with is what sendNotifyContextRequest was to send. The
\* addressee can give every element its service path: the header has one for each, in
\* their order, or all have the default. (The list of an element without path, the empty
\* text, is also taken for the start of the list: such an element before others gets no
\* place in it.) And over the relay it reaches the subscriber with the protocol of the
\* reference. (Notifications of availability lose the protocol on the way to the thread.)
DeliveredAsAsked ==
  message.kind = "notifyContext" => \A h \in received :
    /\ (\A i \in DOMAIN message.paths : message.paths[i] # "") =>
         Read(h.servicePath, Len(message.paths)) = message.paths
    /\ rush => (h.relay = "https" <=> message.url = "https:")
=============================================================================
