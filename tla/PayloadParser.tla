---------------------------- MODULE PayloadParser ----------------------------
(***************************************************************************)
(* jsonTreat() and xmlTreat(): a payload is walked node by node, every     *)
(* node whose path is in the parse vector of the request is treated, and   *)
(* the check function of the request decides at the end.                   *)
(*                                                                         *)
(* The document is not built beforehand: it unfolds while it is parsed, as *)
(* any tree whose inner nodes have known paths, in any order and with any  *)
(* repetition.  An object of the request is named by the path of the node  *)
(* that created it and a bit that tells it from the object the cursor held *)
(* before, which is enough to tell the element being parsed from an        *)
(* earlier one.  Bound: text is in leaves only; the XML attributes of a    *)
(* node have no forbidden character and the type attribute of a compound   *)
(* is absent or "vector".                                                  *)
(***************************************************************************)
EXTENDS ParseTables, Integers

VARIABLES
  format,   \* "JSON" or "XML"
  name,     \* the parse vector of the request, by its prefix in FUNCS
  open,     \* the nodes from the root to the one whose children are parsed
  cursor,   \* the pointers of ParseData
  last,     \* lastContextAttribute
  error,    \* errorString is not empty
  status,   \* ciP->httpStatusCode
  invalid,  \* an invalid value is stored that the check of its field refuses
  progress, \* "parsing", "accepted", "refused", or "crashed"
  astray,   \* the objects the latest step wrote to in place of another, with that one
  seen      \* the anomalies the document has shown so far

parserVars == <<format, name, open, cursor, last, error, status, invalid, progress, astray, seen>>

----------------------------------------------------------------------------
vector == Vectors(format)[name]

(* The nodes of the vector that can be under the node with path p. *)
Under(p) == {r \in vector.rows : r.up = p}

CompoundRoots == IF format = "JSON" THEN JsonCompoundRoots ELSE XmlCompoundRoots

IsCompoundRoot(p) == p \in CompoundRoots

(* A path counts as compound when the text of a root is a prefix of it,    *)
(* whatever the vector: under p the name of a root, or one that begins     *)
(* with it ("value", "values"), also where the vector has no such node.    *)
StrayCompound(p) == \E root \in CompoundRoots : p = SubSeq(root, 1, Len(root) - 1)

(* The children of a node of the vector are looked at when it has nodes    *)
(* under it; of any other one every child is an error, except for a stray  *)
(* compound.                                                               *)
Opens(r) == r.inner \/ StrayCompound(r.path)

----------------------------------------------------------------------------
Object(at, bit) == [at |-> at, bit |-> bit]
Res   == Object(<<>>, 0)             \* the request of ParseData
NULL  == Object(<<"NULL">>, 0)
Wild  == Object(<<"Wild">>, 0)       \* a pointer that was never assigned
Stray == Object(<<"Stray">>, 0)      \* no object: the compound has no attribute of its own

Top   == open[Len(open)]

(* A write to object, meant for the object meant. *)
Astray(object, meant) == {<<object, meant>>} \ {<<meant, meant>>}

ParserInit ==
  /\ \E f \in {"JSON", "XML"} : format = f /\ name \in DOMAIN Vectors(f)
  /\ open = <<[path |-> <<>>, object |-> Res]>>
  /\ cursor = [c \in Cursors(vector.rows) |-> CASE c = "res" -> Res
                                         [] c \in vector.init -> NULL
                                         [] OTHER -> Wild]
  /\ last = NULL /\ error = FALSE /\ status = "SccOk" /\ invalid = FALSE
  /\ progress = "parsing" /\ astray = {} /\ seen = {}

----------------------------------------------------------------------------
\* A treat function creates its object only if its cursor is NULL.
treatKeepsCursor(r, good) ==
  LET fresh  == Object(r.path, CHOOSE b \in {0, 1} : \A c \in r.to : cursor[c] # Object(r.path, b))
      now    == [c \in DOMAIN cursor |-> IF c \in r.to /\ cursor[c] = NULL THEN fresh ELSE cursor[c]]
      here   == IF r.to = {} THEN Top.object ELSE fresh
      stores == r.sets # {} /\ (good \/ r.bad # "drop")
      missed == r.safe /\ now[r.of] = NULL
  IN  /\ cursor' = now
      /\ astray' = (IF r.vec = "none" THEN {} ELSE Astray(cursor[r.by], Top.object))
                   \cup (IF stores /\ ~missed THEN Astray(now[r.of], here) ELSE {})
      /\ last' = IF r.last THEN now[r.of] ELSE last
      /\ error' = (error \/ missed \/ (~good /\ r.bad = "error"))
      /\ invalid' = (invalid \/ (~good /\ r.bad = "store"))
      /\ open' = IF Opens(r) THEN Append(open, [path |-> r.path, object |-> here]) ELSE open

(* The treat function of row r on a value that is good or not: it creates  *)
(* an object, pushes it, and stores the value through its cursor.          *)
treat(r, good) ==
  LET fresh  == Object(r.path, CHOOSE b \in {0, 1} : \A c \in r.to : cursor[c] # Object(r.path, b))
      now    == [c \in DOMAIN cursor |-> IF c \in r.to THEN fresh ELSE cursor[c]]
      here   == IF r.to = {} THEN Top.object ELSE fresh
      stores == r.sets # {} /\ (good \/ r.bad # "drop")
      missed == r.safe /\ now[r.of] = NULL
  IN  /\ cursor' = now
      /\ astray' = (IF r.vec = "none" THEN {} ELSE Astray(cursor[r.by], Top.object))
                   \cup (IF stores /\ ~missed THEN Astray(now[r.of], here) ELSE {})
      /\ last' = IF r.last THEN now[r.of] ELSE last
      /\ error' = (error \/ missed \/ (~good /\ r.bad = "error"))
      /\ invalid' = (invalid \/ (~good /\ r.bad = "store"))
      /\ open' = IF Opens(r) THEN Append(open, [path |-> r.path, object |-> here]) ELSE open

(* A node under the open one can come.  An XML document has one root. *)
Child ==
  /\ progress = "parsing"
  /\ Len(open) = 1 /\ format = "XML" => status = "SccOk"

(* jsonParse() returns at the first error; xmlParse() goes on. *)
Fails(what) ==
  /\ status' = "SccBadRequest" /\ seen' = seen \cup {what}
  /\ progress' = IF format = "JSON" THEN "refused" ELSE progress

(* A node of the vector with a value its treat function accepts. *)
Visit(r) ==
  /\ Child /\ treat(r, TRUE)
  /\ UNCHANGED <<format, name, status, progress, seen>>

(* A value that its treat function finds invalid: the error text it may    *)
(* return is dropped by treat().                                           *)
VisitInvalid(r) ==
  /\ Child /\ r.bad # "any" /\ treat(r, FALSE) /\ seen' = seen \cup {"invalid"}
  /\ UNCHANGED <<format, name, status, progress>>

(* A value with a forbidden character: the treat function is not called.   *)
(* In XML this is the text of a node without XML attributes.               *)
VisitForbidden(r) ==
  /\ Child /\ ~r.inner /\ Fails("forbidden") /\ astray' = {}
  /\ UNCHANGED <<format, name, open, cursor, last, error, invalid>>

(* The text of an XML node with attributes is not looked at: those are     *)
(* looked at instead.                                                      *)
VisitUnchecked(r) ==
  /\ Child /\ format = "XML" /\ ~r.inner /\ treat(r, TRUE) /\ seen' = seen \cup {"unchecked"}
  /\ UNCHANGED <<format, name, status, progress>>

(* What eatCompound() and finish() make of a subtree: it is well formed,   *)
(* or there is an error in it.  In JSON the strings of a vector inside it  *)
(* have no names, and are not looked at.                                   *)
eatCompound ==
  \/ UNCHANGED <<status, progress, seen>>
  \/ format = "JSON" /\ seen' = seen \cup {"unchecked"} /\ UNCHANGED <<status, progress>>
  \/ Fails("compound")

(* A compound value: after treat, eatCompound() consumes the subtree and   *)
(* compoundValueEnd() gives it to the attribute; a tree that finish()      *)
(* finds wrong is given to it as well.                                     *)
VisitCompound(r) ==
  /\ Child /\ IsCompoundRoot(r.path)
  /\ LET owner == IF name = "Upcar" THEN Res ELSE IF r.last THEN cursor[r.of] ELSE last
     IN  astray' = Astray(cursor[r.of], Top.object) \cup Astray(owner, Top.object)
  /\ last' = IF r.last THEN cursor[r.of] ELSE last
  /\ eatCompound
  /\ UNCHANGED <<format, name, open, cursor, error, invalid>>

(* A compound the vector has no node for.  It is no unknown field:         *)
(* compoundValueEnd() gives it to the attribute that was treated last,     *)
(* through a pointer that is NULL when there was none.                     *)
VisitStray ==
  /\ Child /\ StrayCompound(Top.path)
  /\ LET owner == IF name = "Upcar" THEN Res ELSE last IN
     /\ astray' = {<<owner, Stray>>}
     /\ IF owner = NULL THEN progress' = "crashed" /\ UNCHANGED <<status, seen>> ELSE eatCompound
  /\ UNCHANGED <<format, name, open, cursor, last, error, invalid>>

(* A path that is not in the vector, or in JSON a named child where an     *)
(* array is expected.                                                      *)
Unknown ==
  /\ Child /\ Fails("unknown") /\ astray' = {}
  /\ UNCHANGED <<format, name, open, cursor, last, error, invalid>>

Leave ==
  /\ progress = "parsing" /\ Len(open) > (IF format = "JSON" THEN 1 ELSE 2)
  /\ open' = SubSeq(open, 1, Len(open) - 1) /\ astray' = {}
  /\ UNCHANGED <<format, name, cursor, last, error, status, invalid, progress, seen>>

\* xmlTreat does not look at the status code after xmlParse.
FinishUnlooked ==
  /\ progress = "parsing"
  /\ Len(open) = IF format = "JSON" \/ (Top.path = <<>> /\ status # "SccOk") THEN 1 ELSE 2
  /\ progress' \in IF (vector.looks /\ error) \/ invalid THEN {"refused"} ELSE {"refused", "accepted"}
  /\ astray' = {} /\ UNCHANGED <<format, name, open, cursor, last, error, status, invalid, seen>>

(* The end of the document: the check function refuses a payload with an   *)
(* error string (if it looks at it) or with an invalid field, and may      *)
(* refuse any other one, for what is missing.                              *)
Finish ==
  /\ progress = "parsing"
  /\ Len(open) = IF format = "JSON" \/ (Top.path = <<>> /\ status # "SccOk") THEN 1 ELSE 2
  /\ progress' \in IF status # "SccOk" \/ (vector.looks /\ error) \/ invalid
                THEN {"refused"} ELSE {"refused", "accepted"}
  /\ astray' = {} /\ UNCHANGED <<format, name, open, cursor, last, error, status, invalid, seen>>

Done == progress # "parsing" /\ UNCHANGED parserVars

ParserNext ==
  \/ \E r \in Under(Top.path) : \/ Visit(r) \/ VisitInvalid(r) \/ VisitForbidden(r)
                               \/ VisitUnchecked(r) \/ VisitCompound(r)
  \/ VisitStray \/ Unknown \/ Leave \/ Finish \/ Done

----------------------------------------------------------------------------
(* Every value, every pushed object and every compound goes to the object  *)
(* of the element it was written in: the pointer a treat function follows  *)
(* is never NULL, never unassigned, and never left over from an earlier    *)
(* element of a list or from the element of another list.  (The one        *)
(* exception is a compound for which the vector has no node, and whose     *)
(* path only begins like one of a compound value: see VisitStray.)         *)
ValuesBelong == \A write \in astray : write[2] = Stray

(* A payload is accepted only if it had no unknown field, no ill-formed    *)
(* compound and no forbidden character in a text that is looked at (the    *)
(* text of XML nodes with attributes and the strings of a JSON vector in a *)
(* compound are not; and a stray compound is not unknown).  An invalid     *)
(* flag or duration is refused too, except where the error text of the     *)
(* treat function is the only trace of it (treat() drops what a JSON treat *)
(* function returns) and in subscribeContext, whose check function does    *)
(* not look at the error string.                                           *)
AcceptedIsClean ==
  progress = "accepted" =>
    /\ seen \subseteq {"invalid", "unchecked"}
    /\ "invalid" \in seen => name = "Scr" \/ (format = "JSON" /\ name \in {"Rcr", "Scar", "Acer"})

(* The fields a vector stores, each with the vector of the request its     *)
(* object is in.                                                           *)
Fields(v) ==
  LET holder(c) == IF c = "res" THEN "res" ELSE (CHOOSE r \in v.rows : c \in r.to).vec
  IN  UNION {{<<holder(r.of), f, r.loc>> : f \in r.sets} : r \in v.rows}
      \cup {<<holder(r.by), r.vec, {}>> : r \in {q \in v.rows : q.vec # "none"}}

(* What one of the two formats stores and the other does not: XML has no   *)
(* domain name in an update, no restriction in the notify conditions of an *)
(* update of a subscription (where it also knows one name of the location  *)
(* scope only) and drops the domain metadata of a notification; it alone   *)
(* notes that a registration has its list of entities.                     *)
FormatGaps ==
  [Upcr |-> {<<"contextElementVector", "attributeDomainName", {}>>},
   Ucsr |-> {<<"notifyConditionVector", "restriction", {}>>,
             <<"scopeVector", "value", Locations>>, <<"scopeVector", "value", {FIWARE_LOCATION}>>},
   Ncr  |-> {<<"contextElementResponseVector", "domainMetadataVector", {}>>}
            \cup {<<"domainMetadataVector", f, {}>> : f \in {"name", "type", "value"}},
   Rcr  |-> {<<"contextRegistrationVector", "entityIdVectorPresent", {}>>}]

(* A request means the same in JSON and in XML: both vectors store the     *)
(* same fields of the same objects, up to FormatGaps.  (What an object     *)
(* holds for a field that is absent is not compared.)                      *)
FormatsAgree ==
  progress = "parsing" /\ Len(open) = 1 /\ format = "XML" /\ name \in DOMAIN JsonVectors =>
    LET json == Fields(JsonVectors[name])
        xml  == Fields(XmlVectors[name])
    IN  (json \ xml) \cup (xml \ json) = IF name \in DOMAIN FormatGaps THEN FormatGaps[name] ELSE {}
=============================================================================
