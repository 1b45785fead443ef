------------------------------ MODULE Registry ------------------------------
(***************************************************************************)
(* The documents of context availability, and the queries on them: which   *)
(* registrations offer the entities and attributes of a request, and which *)
(* availability subscriptions a registration triggers.                     *)
(*                                                                         *)
(* A registration document has a sequence crs of context registrations,    *)
(* each with entities [id, type] ("" when no type was given: the field is  *)
(* then absent), attribute names and a providing application prApp.  The   *)
(* collection is the sequence of its documents in the order of their _id.  *)
(***************************************************************************)
EXTENDS ServicePath

CONSTANT Regex  \* the ids that every pattern matches, as regexec() and match() say

\* An entity of a registration, and one of an availability subscription, whose id may be
\* a pattern.  isPattern may be "true", "1", "false", "0" or, in XML, left out: spelled
\* says that it is "true" or "false".
Entity   == [id : STRING, type : STRING]
EntityId == [id : STRING, type : STRING, isPattern : BOOLEAN, spelled : BOOLEAN]

\* An association, and a context registration with the ones it brings; spelled are the
\* entities that were registered with isPattern "false".
Association ==
  [name : STRING, source : Entity, target : Entity, attrs : SUBSET [source : STRING, target : STRING]]

ContextRegistration ==
  [entities : SUBSET Entity, spelled : SUBSET Entity, attrs : SUBSET STRING, prApp : STRING,
   assocs : {A \in SUBSET Association : IsFiniteSet(A)}]

\* A document of the registrations.
RegDoc ==
  [crs : Seq(ContextRegistration), servicePath : RequestPath \cup {NoPath}, expiration : Nat, fwdRegId : Nat]

CrEntities(doc) == UNION {cr.entities : cr \in ToSet(doc.crs)}
CrAttrs(doc) == UNION {cr.attrs : cr \in ToSet(doc.crs)}

\* A type "" is a wildcard on both sides.
includedEntity(en, enV) ==
  \E en2 \in enV :
    /\ IF en2.isPattern THEN en.id \in Regex[en2.id] ELSE en2.id = en.id
    /\ en.type = "" \/ en2.type = "" \/ en2.type = en.type

includedAttribute(attr, attrL) == attrL = {} \/ attr \in attrL

-----------------------------------------------------------------------------
(* registrationsQuery: the query is on the whole document, so that an id   *)
(* and a type, or an entity and an attribute, may be found in different    *)
(* parts of it; the context registrations are looked at afterwards.        *)

\* An empty type is looked for like any other.
EntityOrExact(doc, en) ==
  IF en.isPattern
  THEN \E e \in CrEntities(doc) : e.id \in Regex[en.id] /\ e.type = en.type
  ELSE \E e \in CrEntities(doc) : e.id = en.id /\ e.type = en.type

EntityOr(doc, en) ==
  IF en.isPattern
  THEN /\ \E e \in CrEntities(doc) : e.id \in Regex[en.id]
       /\ en.type # "" => \E e \in CrEntities(doc) : e.type = en.type
  ELSE \E e \in CrEntities(doc) : e.id = en.id /\ (en.type # "" => e.type = en.type)

RegistrationMatches(doc, enV, attrL, paths, time) ==
  /\ \E en \in enV : EntityOr(doc, en)
  /\ doc.expiration > time
  /\ attrL # {} => CrAttrs(doc) \cap attrL # {}
  /\ fillQueryServicePath(paths, doc.servicePath)

\* What is kept of a context registration.
crrOf(cr, enV, attrL) ==
  [entities |-> {en \in cr.entities : includedEntity(en, enV)},
   attrs    |-> {attr \in cr.attrs : includedAttribute(attr, attrL)},
   prApp    |-> cr.prApp]

\* The entities are not looked at.
AnyElement(cr, enV, attrL) ==
  IF attrL = {} \/ cr.attrs \cap attrL # {} THEN <<crrOf(cr, enV, attrL)>> ELSE <<>>

processContextRegistrationElement(cr, enV, attrL) ==
  LET crr == crrOf(cr, enV, attrL)
  IN  IF crr.entities # {} /\ (crr.attrs # {} \/ attrL = {}) THEN <<crr>> ELSE <<>>

MatchingDocs(docs, enV, attrL, paths, time) ==
  FlattenSeq([i \in DOMAIN docs |-> IF RegistrationMatches(docs[i], enV, attrL, paths, time) THEN <<docs[i]>> ELSE <<>>])

DocCrrs(doc, enV, attrL) ==
  FlattenSeq([i \in DOMAIN doc.crs |-> processContextRegistrationElement(doc.crs[i], enV, attrL)])

\* Limit and offset count documents, whatever each of them contributes.
registrationsQuery(docs, enV, attrL, paths, time, offset, limit) ==
  LET found == MatchingDocs(docs, enV, attrL, paths, time)
      page  == SubSeq(found, offset + 1, IF offset + limit < Len(found) THEN offset + limit ELSE Len(found))
  IN  FlattenSeq([i \in DOMAIN page |-> DocCrrs(page[i], enV, attrL)])

-----------------------------------------------------------------------------
(* addTriggeredSubscriptions of the registrations: the availability        *)
(* subscriptions that the context registration cr triggers.  Only the      *)
(* entities registered with isPattern "false" take part.                   *)

\* The entity of the query: { id, type, isPattern: "false" }.
Exactly(e) == [id |-> e.id, type |-> e.type, isPattern |-> FALSE, spelled |-> TRUE]

\* A subscription to all the attributes is not found.
NoPatternWithAttrs(sub, cr) ==
  /\ \E e \in cr.entities \cap cr.spelled : e.type # "" /\ Exactly(e) \in sub.entities
  /\ sub.attrs \cap cr.attrs # {}

\* { $in: entities }: the embedded documents are compared field by field, and
\* only the ones of subscriptions with a type have all the fields.
NoPatternMatches(sub, cr) ==
  /\ \E e \in cr.entities \cap cr.spelled : e.type # "" /\ Exactly(e) \in sub.entities
  /\ sub.attrs = {} \/ sub.attrs \cap cr.attrs # {}

\* The function of $where, for isPattern "true"; the attributes are not part of this query.
PatternMatches(sub, cr) ==
  \E p \in sub.entities : /\ p.isPattern /\ p.spelled /\ p.type # ""
                          /\ \E e \in cr.entities \cap cr.spelled : e.id \in Regex[p.id] /\ e.type = p.type

TriggeredBy(sub, cr, time) ==
  sub.expiration > time /\ (NoPatternMatches(sub, cr) \/ PatternMatches(sub, cr))

\* The documents of associations: [name, source, target, attrs], where attrs has the
\* attribute names of the two sides.  An entity without type is stored without the
\* field, and the query looks for a field that is there.
associationsQuery(assocs, enV, attrL, scope) ==
  LET Asked(e) == e.type # "" /\ \E en \in enV : en.id = e.id /\ en.type = e.type
  IN  IF scope = "SOURCES"
      THEN {a \in assocs : Asked(a.target) /\ (attrL # {} => \E x \in a.attrs : x.target \in attrL)}
      ELSE {a \in assocs : Asked(a.source) /\ (attrL # {} => \E x \in a.attrs : x.source \in attrL)}

=============================================================================
