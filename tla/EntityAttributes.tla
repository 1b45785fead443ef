-------------------------- MODULE EntityAttributes --------------------------
(***************************************************************************)
(* The attributes of an entity document and what UPDATE, APPEND and DELETE *)
(* of one request attribute do to them.                                    *)
(*                                                                         *)
(* A stored attribute is a record with name, id ("" if it has none), type, *)
(* value and md, the set of its custom metadata.  A request attribute also *)
(* has loc, the value of its location metadata ("" if it has none).  In a  *)
(* stored metadata the type may be missing, NoType, or be there and empty. *)
(***************************************************************************)
EXTENDS SequenceOps

CONSTANTS
  Compound,   \* the compound values
  Coords,     \* the values that string2coords parses
  NoType

ASSUME NoTypeAssumption == NoType \notin STRING

\* The request attributes, each with its metadata; check() rejects an empty name.
ContextAttribute ==
  [name : STRING \ {""}, id : STRING, type : STRING, value : STRING, loc : STRING,
   md : SUBSET [name : STRING, type : STRING, value : STRING]]

\* The attributes and the documents of the entities collection.
Text == STRING \cup {""}

StoredMetadata == [name : STRING, type : STRING \cup {NoType}, value : STRING]

Attribute == [name : Text, id : Text, type : Text, value : Text, md : SUBSET StoredMetadata]

EntityDoc == [attrs : Seq(Attribute), locAttr : Text, coords : Text]

\* What STR_FIELD reads from documents without a field is the empty string.
Blank == [name |-> "", id |-> "", type |-> "", value |-> "", md |-> {}]

smartAttrMatch(attr, ca) == attr.name = ca.name /\ attr.id = ca.id

\* Metadata of a new attribute: the type is stored even if it is empty.
contextAttributeCustomMetadataToBson(ca) == ca.md

NewAttr(ca) ==
  [name |-> ca.name, id |-> ca.id, type |-> ca.type, value |-> ca.value,
   md |-> contextAttributeCustomMetadataToBson(ca)]

-----------------------------------------------------------------------------
(* UPDATE, and APPEND of an attribute that exists.                         *)

\* Of the request's metadata, an empty type is not stored.
RequestMetadata(ca) == {[m EXCEPT !.type = IF @ = "" THEN NoType ELSE @] : m \in ca.md}

\* hasMetadata: the request names it, where a missing type reads as empty.
hasMetadata(m, ca) ==
  \E r \in ca.md : r.name = m.name /\ r.type = (IF m.type = NoType THEN "" ELSE m.type)

MergedMetadata(attr, ca) == RequestMetadata(ca) \cup {m \in attr.md : ~hasMetadata(m, ca)}

matchMetadata(m1, m2) == m1.name = m2.name /\ m1.type = m2.type

equalMetadataVectors(v1, v2) ==
  \A m1 \in v1, m2 \in v2 : matchMetadata(m1, m2) => m1.value = m2.value

\* The value of an attribute that does not match is copied as a string.
CopyAsString(attr, ca) ==
  IF smartAttrMatch(attr, ca)
  THEN [attr EXCEPT !.value = ca.value,
                    !.type = IF ca.type = "" THEN @ ELSE ca.type,
                    !.md = MergedMetadata(attr, ca)]
  ELSE [attr EXCEPT !.value = IF @ \in Compound THEN "" ELSE @]

\* The attribute after checkAndUpdate; an empty type leaves the old one.
checkAndUpdate(attr, ca) ==
  IF smartAttrMatch(attr, ca)
  THEN [attr EXCEPT !.value = ca.value,
                    !.type = IF ca.type = "" THEN @ ELSE ca.type,
                    !.md = MergedMetadata(attr, ca)]
  ELSE attr

\* A change is a change of the value only.
ValueChanged(attr, ca) == smartAttrMatch(attr, ca) /\ attr.value # ca.value

\* The flag that checkAndUpdate sets: always true for a compound value.
actualUpdate(attr, ca) ==
  /\ smartAttrMatch(attr, ca)
  /\ \/ ca.value \in Compound
     \/ attr.value # ca.value
     \/ ca.type # "" /\ attr.type # ca.type
     \/ Cardinality(MergedMetadata(attr, ca)) # Cardinality(attr.md)
     \/ ~equalMetadataVectors(attr.md, MergedMetadata(attr, ca))

Found(attrs, ca) == \E i \in DOMAIN attrs : smartAttrMatch(attrs[i], ca)

Changed(attrs, ca) == \E i \in DOMAIN attrs : actualUpdate(attrs[i], ca)

updateAttribute(attrs, ca) == [i \in DOMAIN attrs |-> checkAndUpdate(attrs[i], ca)]

appendAttribute(attrs, ca) ==
  IF Found(attrs, ca) THEN updateAttribute(attrs, ca) ELSE Append(attrs, NewAttr(ca))

-----------------------------------------------------------------------------
(* DELETE.                                                                 *)

\* checkAndDelete: an attribute that does not match is copied, with a value that
\* is read as a string; of one that matches nothing is copied.
checkAndDelete(attr, ca) ==
  IF smartAttrMatch(attr, ca) THEN Blank
  ELSE [attr EXCEPT !.value = IF @ \in Compound THEN "" ELSE @]

\* Only the first match is left out of the new array.
deleteAttribute(attrs, ca) ==
  LET first == CHOOSE i \in DOMAIN attrs : /\ smartAttrMatch(attrs[i], ca)
                                           /\ \A j \in 1 .. i - 1 : ~smartAttrMatch(attrs[j], ca)
  IN  RemoveAt([i \in DOMAIN attrs |-> checkAndDelete(attrs[i], ca)], first)

-----------------------------------------------------------------------------
(* ID metadata and location.                                               *)

\* Ids are not looked at.
AnyIdUsage(attrs, ca) == TRUE

\* legalIdUsage of an attribute that is appended to an entity.
legalIdUsage(attrs, ca) ==
  \A i \in DOMAIN attrs : attrs[i].name = ca.name => (attrs[i].id = "" <=> ca.id = "")

\* legalIdUsage of a new entity, which compares the types as well.
legalIdUsageOfNew(cav) ==
  \A i, j \in DOMAIN cav :
    cav[i].name = cav[j].name /\ cav[i].type = cav[j].type => (cav[i].id = "" <=> cav[j].id = "")

string2coords(value) == value \in Coords

\* processLocation: at most one attribute with the location metadata, which must
\* be WGS84, and a value that can be parsed.
Located(cav) == {i \in DOMAIN cav : cav[i].loc # ""}

processLocation(cav) ==
  /\ Cardinality(Located(cav)) <= 1
  /\ \A i \in Located(cav) : cav[i].loc = "WGS84" /\ string2coords(cav[i].value)

\* The document of a new entity: its attributes and its location.
NewEntity(cav) ==
  [attrs   |-> [i \in DOMAIN cav |-> NewAttr(cav[i])],
   locAttr |-> IF Located(cav) = {} THEN "" ELSE cav[CHOOSE i \in Located(cav) : TRUE].name,
   coords  |-> IF Located(cav) = {} THEN "" ELSE cav[CHOOSE i \in Located(cav) : TRUE].value]

-----------------------------------------------------------------------------
(* processContextAttributeVector: the attributes of the request one after  *)
(* the other, on acc: the attributes so far, the location (locAttr and     *)
(* coords), was the entity modified, the names that trigger subscriptions, *)
(* and the error that ended the processing ("ok" if none did).             *)

Action == {"update", "append", "delete"}

Fail(acc, code) == [acc EXCEPT !.code = code]

\* The coordinates are not renewed.
UpdateKeepsCoords(acc, ca) ==
  IF Found(acc.attrs, ca)
  THEN [acc EXCEPT !.attrs = updateAttribute(@, ca),
                   !.modified = @ \/ Changed(acc.attrs, ca),
                   !.triggered = IF Changed(acc.attrs, ca) THEN @ \cup {ca.name} ELSE @]
  ELSE Fail(acc, "attributeNotFound")

\* updateAttribute, then the location checks, then the triggers.
UpdateOne(acc, ca) ==
  LET done == [acc EXCEPT !.attrs = updateAttribute(@, ca),
                          !.modified = @ \/ Changed(acc.attrs, ca),
                          !.coords = IF acc.locAttr = ca.name THEN ca.value ELSE @,
                          !.triggered = IF Changed(acc.attrs, ca) THEN @ \cup {ca.name} ELSE @]
  IN  CASE ~Found(acc.attrs, ca) -> Fail(acc, "attributeNotFound")
        [] Found(acc.attrs, ca) /\ ca.loc # "" /\ ca.name # acc.locAttr -> Fail(acc, "invalid")
        [] Found(acc.attrs, ca) /\ acc.locAttr = ca.name /\ ~string2coords(ca.value)
             -> Fail(acc, "invalid")
        [] OTHER -> done

\* The location is looked at only if the request has the metadata.
AppendOne(acc, ca) ==
  LET modified == ~Found(acc.attrs, ca) \/ Changed(acc.attrs, ca)
      done     == [acc EXCEPT !.attrs = appendAttribute(@, ca),
                              !.modified = @ \/ modified,
                              !.locAttr = IF ca.loc # "" THEN ca.name ELSE @,
                              !.coords = IF ca.loc # "" THEN ca.value ELSE @,
                              !.triggered = @ \cup {ca.name}]
      legal    == /\ legalIdUsage(acc.attrs, ca)
                  /\ ca.loc # "" => /\ acc.locAttr \in {"", ca.name}
                                    /\ ca.loc = "WGS84"
                                    /\ string2coords(ca.value)
  IN  IF legal THEN done ELSE Fail(acc, "invalid")

\* A location that names the attribute is dropped with it.
DeleteOne(acc, ca) ==
  LET done == [acc EXCEPT !.attrs = deleteAttribute(@, ca),
                          !.modified = TRUE,
                          !.locAttr = IF @ = ca.name THEN "" ELSE @,
                          !.triggered = @ \cup {ca.name}]
  IN  IF Found(acc.attrs, ca) /\ ca.loc = "" THEN done ELSE Fail(acc, "invalid")

ProcessOne(action, acc, ca) ==
  CASE acc.code # "ok"   -> acc
    [] acc.code = "ok" /\ action = "update" -> UpdateOne(acc, ca)
    [] acc.code = "ok" /\ action = "append" -> AppendOne(acc, ca)
    [] acc.code = "ok" /\ action = "delete" -> DeleteOne(acc, ca)

processContextAttributeVector(action, doc, cav) ==
  LET start == [attrs |-> doc.attrs, locAttr |-> doc.locAttr, coords |-> doc.coords,
                modified |-> FALSE, triggered |-> {}, code |-> "ok"]
      after[n \in 0 .. Len(cav)] == IF n = 0 THEN start ELSE ProcessOne(action, after[n - 1], cav[n])
  IN  after[Len(cav)]

\* Attributes of one name, one with an ID and one without.
Mixed(a, b) == a.name = b.name /\ (a.id = "" <=> b.id # "")

=============================================================================
