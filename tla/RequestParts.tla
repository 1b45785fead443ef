---------------------------- MODULE RequestParts -----------------------------
(***************************************************************************)
(* The parts of the broker around the backend: the process itself          *)
(* (BrokerProcess), the connection of a request (RestConnection), the walk *)
(* of the parser over its payload (PayloadParser), the service path of its *)
(* header (ServicePathRequests) and the sending of messages (HttpSender).  *)
(*                                                                         *)
(* They share no state: the process accepts connections once it serves,    *)
(* the connection starts the parser with a vector and takes up when it has *)
(* ended (payloadParse), hands the service path on, and what is sent is    *)
(* built anew.  So one part moves while the others are at rest, and each   *)
(* is checked for all it can be started with: the connection for every     *)
(* outcome of the parser, the parser for every vector, the backend for     *)
(* every path that passed the checks.                                      *)
(***************************************************************************)
EXTENDS RestConnection, PayloadParser, HttpSender, BrokerProcess

CONSTANTS Component, Longer, MaxLevels, NoPath

VARIABLES updated, entity, subscribed

Paths == INSTANCE ServicePathRequests WITH req <- updated

pathVars == <<updated, entity, subscribed>>
allVars  == <<vars, parserVars, pathVars, senderVars, processVars>>

\* The parser before a document and the sender before a message, each in one state that
\* stands for all.
ParserAtRest == ParserInit /\ format = "XML" /\ name = "Upcr"
SenderAtRest == SenderInit /\ rush

PartsInit == Init /\ ParserInit /\ Paths!Init /\ SenderInit /\ ProcessInit /\ (ParserAtRest \/ SenderAtRest)

PartsNext ==
  \/ /\ Paths!Init /\ ParserAtRest /\ SenderAtRest /\ ProcessInit /\ Next
     /\ UNCHANGED <<parserVars, pathVars, senderVars, processVars>>
  \/ /\ Paths!Init /\ Init /\ SenderAtRest /\ ProcessInit /\ ParserNext
     /\ UNCHANGED <<vars, pathVars, senderVars, processVars>>
  \/ /\ Init /\ ParserAtRest /\ SenderAtRest /\ ProcessInit /\ Paths!Next
     /\ UNCHANGED <<vars, parserVars, senderVars, processVars>>
  \/ /\ Paths!Init /\ Init /\ ParserAtRest /\ ProcessInit /\ SenderNext
     /\ UNCHANGED <<vars, parserVars, pathVars, processVars>>
  \/ /\ Paths!Init /\ Init /\ ParserAtRest /\ SenderAtRest /\ ProcessNext
     /\ UNCHANGED <<vars, parserVars, pathVars, senderVars>>

PartsSpec == PartsInit /\ [][PartsNext]_allVars

-----------------------------------------------------------------------------
\* An update triggers the subscriptions whose service path covers its own
\* (servicePathSubscriptionRegex), and a query under a service path finds an entity
\* exactly when a subscription under that path is triggered by the entity
\* (fillQueryServicePath).
PathsAgree == Paths!SubscriptionScope /\ Paths!QueryAgreesWithSubscription
=============================================================================
