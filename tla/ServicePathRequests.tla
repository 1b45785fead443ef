------------------------ MODULE ServicePathRequests -------------------------
(***************************************************************************)
(* Requests with service paths: subscriptions and entities are made under  *)
(* any path, then updates and queries meet them.                           *)
(***************************************************************************)
EXTENDS ServicePath

VARIABLES
  req,        \* the path of an update that is being processed
  entity,     \* the path of a stored entity
  subscribed  \* the path of a subscription or of a query

vars == <<req, entity, subscribed>>

Init == req = NoPath /\ entity = NoPath /\ subscribed = NoPath

\* The standard operation checks the path once more and replaces an empty
\* header by the default path.
postUpdateContext(p) ==
  /\ p # NoPath => servicePathCheck(p)
  /\ req' = IF p = NoPath THEN <<>> ELSE p
  /\ UNCHANGED <<entity, subscribed>>

\* The convenience operations call mongoUpdateContext with the path as it is.
mapUpdate(p) == req' = p /\ UNCHANGED <<entity, subscribed>>

\* createEntity stores the path of the update as the entity's.
createEntity == entity' = req /\ UNCHANGED <<req, subscribed>>

mongoSubscribeContext(p) == subscribed' = p /\ UNCHANGED <<req, entity>>

Next ==
  \/ \E p \in RequestPath \cup {NoPath} :
       postUpdateContext(p) \/ mapUpdate(p) \/ mongoSubscribeContext(p)
  \/ createEntity

Spec == Init /\ [][Next]_vars

-----------------------------------------------------------------------------

\* Paths without empty components.
Plain(p) == p = NoPath \/ \A i \in 1 .. Len(p) : p[i] # ""

\* What a subscribed path stands for: "/a/#" for /a and everything below, "/a"
\* for /a only; what has no path is in the root.
Covers(s, p) ==
  LET q == IF p = NoPath THEN <<>> ELSE p
  IN  \/ s = NoPath
      \/ s # NoPath /\ EndsInHash(s) /\ IsPrefix(Front(s), q)
      \/ s # NoPath /\ s = q

\* The expression built by servicePathSubscriptionRegex selects exactly the
\* subscriptions whose path covers the path of the update. (For paths without empty
\* components: stringSplit drops leading slashes, so that an update under "//a" looks
\* for the subscriptions of "/a".)
SubscriptionScope ==
  Plain(req) /\ Plain(subscribed) => (Triggers(req, subscribed) <=> Covers(subscribed, req))

\* Queries and subscriptions agree: fillQueryServicePath selects an entity for a
\* client exactly when a subscription under the client's path is triggered by an
\* update that creates the entity, though the two expressions are built apart.
QueryAgreesWithSubscription ==
  Plain(entity) /\ Plain(subscribed)
    => LET paths == IF subscribed = NoPath THEN {} ELSE {subscribed}
       IN  fillQueryServicePath(paths, entity) <=> Triggers(entity, subscribed)

=============================================================================
