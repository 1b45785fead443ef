----------------------- MODULE EntityAttributesProofs -----------------------
(***************************************************************************)
(* What processContextAttributeVector makes of the attributes of a         *)
(* document, for any document and any number of request attributes: what   *)
(* it keeps, what it stores, and what the flags it gives back say.         *)
(***************************************************************************)
EXTENDS EntityAttributes, RegistryProofs, FiniteSetTheorems

-----------------------------------------------------------------------------
(* The attributes of a document.                                           *)

\* What processContextAttributeVector works on.
Processed ==
  [attrs : Seq(Attribute), locAttr : Text, coords : Text, modified : BOOLEAN,
   triggered : SUBSET STRING, code : {"ok", "invalid", "attributeNotFound"}]

\* The empty string is a text.
LEMMA EmptyText == STRING \subseteq Text /\ "" \in Text
  BY Zenon DEF Text

\* A function on the first numbers is a sequence.
LEMMA FunctionSeq ==
  ASSUME NEW S, NEW n \in Nat, NEW f \in [1 .. n -> S]
  PROVE  f \in Seq(S) /\ Len(f) = n
OBVIOUS

\* The metadata that an update stores.
LEMMA MergedType ==
  ASSUME NEW attr \in Attribute, NEW ca \in ContextAttribute
  PROVE  MergedMetadata(attr, ca) \in SUBSET StoredMetadata
<1>1. PICK b : b = ""
  BY Zenon
<1>2. RequestMetadata(ca) = {[m EXCEPT !.type = IF @ = b THEN NoType ELSE @] : m \in ca.md}
  BY <1>1, Zenon DEF RequestMetadata
<1>3. ca.md \in SUBSET [name : STRING, type : STRING, value : STRING]
  BY Zenon DEF ContextAttribute
<1>4. RequestMetadata(ca) \in SUBSET StoredMetadata
  BY <1>2, <1>3, Zenon DEF StoredMetadata
<1>5. attr.md \in SUBSET StoredMetadata
  BY Zenon DEF Attribute
<1> QED
  BY <1>4, <1>5, Zenon DEF MergedMetadata

\* An attribute that is updated stays an attribute.
LEMMA CheckAndUpdateType ==
  ASSUME NEW attr \in Attribute, NEW ca \in ContextAttribute
  PROVE  checkAndUpdate(attr, ca) \in Attribute
<1>1. PICK M \in SUBSET StoredMetadata : M = MergedMetadata(attr, ca)
  BY MergedType, Zenon
<1>2. ca.value \in Text /\ ca.type \in Text
  <2>1. ca.value \in STRING /\ ca.type \in STRING
    BY Zenon DEF ContextAttribute
  <2> QED
    BY ONLY <2>1, EmptyText, Zenon
<1>3. attr.type \in Text
  BY Zenon DEF Attribute
<1>4. PICK t \in Text : t = IF ca.type = "" THEN attr.type ELSE ca.type
  BY <1>2, <1>3, Zenon
<1>5. [attr EXCEPT !.value = ca.value, !.type = t, !.md = M] \in Attribute
  BY <1>2, Zenon DEF Attribute
<1>6. checkAndUpdate(attr, ca) = attr \/ checkAndUpdate(attr, ca) = [attr EXCEPT !.value = ca.value, !.type = t, !.md = M]
  BY <1>1, <1>4, Zenon DEF checkAndUpdate
<1> QED
  BY <1>5, <1>6, Zenon

\* updateAttribute keeps the number of attributes.
LEMMA UpdateAttributeType ==
  ASSUME NEW attrs \in Seq(Attribute), NEW ca \in ContextAttribute
  PROVE  updateAttribute(attrs, ca) \in Seq(Attribute)
<1>1. attrs \in [1 .. Len(attrs) -> Attribute] /\ DOMAIN attrs = 1 .. Len(attrs) /\ Len(attrs) \in Nat
  BY LenProperties, Zenon
<1>2. updateAttribute(attrs, ca) \in [1 .. Len(attrs) -> Attribute]
  BY <1>1, CheckAndUpdateType, Zenon DEF updateAttribute
<1> QED
  BY <1>1, <1>2, FunctionSeq, Zenon

\* An attribute that is new.
LEMMA NewAttrType ==
  ASSUME NEW ca \in ContextAttribute
  PROVE  NewAttr(ca) \in Attribute /\ ca.name \in Text /\ ca.value \in Text
<1>1. ca.name \in Text /\ ca.id \in Text /\ ca.type \in Text /\ ca.value \in Text
  <2>1. ca.name \in STRING /\ ca.id \in STRING /\ ca.type \in STRING /\ ca.value \in STRING
    BY Zenon DEF ContextAttribute
  <2> QED
    BY ONLY <2>1, EmptyText, Zenon
<1>2. ca.md \in SUBSET StoredMetadata
  BY Zenon DEF ContextAttribute, StoredMetadata
<1> QED
  BY <1>1, <1>2, Zenon DEF NewAttr, Attribute, contextAttributeCustomMetadataToBson

\* appendAttribute updates, or adds one.
LEMMA AppendAttributeType ==
  ASSUME NEW attrs \in Seq(Attribute), NEW ca \in ContextAttribute
  PROVE  appendAttribute(attrs, ca) \in Seq(Attribute)
<1>1. NewAttr(ca) \in Attribute
  BY NewAttrType, Zenon
<1> QED
  BY <1>1, UpdateAttributeType DEF appendAttribute

\* deleteAttribute removes the first match.
LEMMA FirstMatch ==
  ASSUME NEW attrs \in Seq(Attribute), NEW ca \in ContextAttribute, Found(attrs, ca)
  PROVE  \E first \in 1 .. Len(attrs) :
           /\ smartAttrMatch(attrs[first], ca)
           /\ deleteAttribute(attrs, ca) = RemoveAt([i \in DOMAIN attrs |-> checkAndDelete(attrs[i], ca)], first)
<1>1. attrs \in [1 .. Len(attrs) -> Attribute] /\ DOMAIN attrs = 1 .. Len(attrs) /\ Len(attrs) \in Nat
  BY LenProperties, Zenon
<1> DEFINE T == {i \in DOMAIN attrs : smartAttrMatch(attrs[i], ca)}
           IsFirst(i) == smartAttrMatch(attrs[i], ca) /\ \A j \in 1 .. i - 1 : ~smartAttrMatch(attrs[j], ca)
           first == CHOOSE i \in DOMAIN attrs : IsFirst(i)
<1>2. T \in SUBSET Nat /\ T # {}
  BY <1>1 DEF Found
<1>3. PICK i \in T : \A j \in T : i <= j
  BY <1>2, LeastNumber, Zenon
<1>4. i \in DOMAIN attrs /\ IsFirst(i)
  <2>1. ASSUME NEW j \in 1 .. i - 1 PROVE ~smartAttrMatch(attrs[j], ca)
    BY <1>1, <1>3
  <2> QED
    BY <2>1, Zenon
<1>5. first \in 1 .. Len(attrs) /\ IsFirst(first)
  <2> HIDE DEF IsFirst
  <2> QED
    BY <1>1, <1>4, Zenon
<1>6. deleteAttribute(attrs, ca) = RemoveAt([k \in DOMAIN attrs |-> checkAndDelete(attrs[k], ca)], first)
  BY Zenon DEF deleteAttribute
<1>7. smartAttrMatch(attrs[first], ca)
  BY <1>5, Zenon
<1> HIDE DEF first
<1> QED
  BY <1>5, <1>6, <1>7, Zenon

\* What is left are attributes.
LEMMA DeleteAttributeType ==
  ASSUME NEW attrs \in Seq(Attribute), NEW ca \in ContextAttribute, Found(attrs, ca)
  PROVE  deleteAttribute(attrs, ca) \in Seq(Attribute)
<1>1. attrs \in [1 .. Len(attrs) -> Attribute] /\ DOMAIN attrs = 1 .. Len(attrs) /\ Len(attrs) \in Nat
  BY LenProperties, Zenon
<1>2. ASSUME NEW i \in 1 .. Len(attrs) PROVE checkAndDelete(attrs[i], ca) \in Attribute
  <2>1. PICK a \in Attribute : a = attrs[i]
    BY <1>1, Zenon
  <2>2. PICK b \in Text : b = ""
    BY EmptyText, Zenon
  <2>3. PICK v \in Text : v = IF a.value \in Compound THEN b ELSE a.value
    BY Zenon DEF Attribute
  <2>4. [a EXCEPT !.value = v] \in Attribute
    BY Zenon DEF Attribute
  <2>5. [name |-> b, id |-> b, type |-> b, value |-> b, md |-> {}] \in Attribute
    BY Zenon DEF Attribute
  <2>6. \/ checkAndDelete(a, ca) = [name |-> b, id |-> b, type |-> b, value |-> b, md |-> {}]
        \/ checkAndDelete(a, ca) = [a EXCEPT !.value = v]
    BY <2>2, <2>3, Zenon DEF checkAndDelete, Blank
  <2> QED
    BY <2>1, <2>4, <2>5, <2>6, Zenon
<1> DEFINE kept == [i \in DOMAIN attrs |-> checkAndDelete(attrs[i], ca)]
<1>3. kept \in [1 .. Len(attrs) -> Attribute]
  BY <1>1, <1>2, Zenon
<1>4. PICK first \in 1 .. Len(attrs) : deleteAttribute(attrs, ca) = RemoveAt(kept, first)
  BY FirstMatch, Zenon
<1> HIDE DEF kept
<1>5. kept \in Seq(Attribute) /\ Len(kept) = Len(attrs)
  BY <1>1, <1>3, FunctionSeq, Zenon
<1> QED
  BY <1>4, <1>5, RemovedSeq, Zenon

-----------------------------------------------------------------------------
(* processContextAttributeVector.                                          *)

\* The attributes one by one.
LEMMA ProcessOneType ==
  ASSUME NEW acc \in Processed, NEW ca \in ContextAttribute, NEW action \in Action
  PROVE  /\ ProcessOne(action, acc, ca) \in Processed
         /\ action = "append" /\ acc.code # "attributeNotFound"
              => ProcessOne(action, acc, ca).code # "attributeNotFound"
<1>1. /\ acc.attrs \in Seq(Attribute) /\ acc.locAttr \in Text /\ acc.coords \in Text
      /\ acc.modified \in BOOLEAN /\ acc.triggered \in SUBSET STRING
      /\ ca.name \in STRING /\ ca.name \in Text /\ ca.value \in Text
  <2>1. ca.name \in STRING /\ ca.value \in STRING
    BY Zenon DEF ContextAttribute
  <2> QED
    BY <2>1, EmptyText, Zenon DEF Processed
<1>2. /\ Fail(acc, "invalid") \in Processed /\ Fail(acc, "invalid").code = "invalid"
      /\ Fail(acc, "attributeNotFound") \in Processed
  BY Zenon DEF Fail, Processed
<1>3. UpdateOne(acc, ca) \in Processed
  <2>1. PICK a \in Seq(Attribute) : a = updateAttribute(acc.attrs, ca)
    BY <1>1, UpdateAttributeType, Zenon
  <2>2. PICK m \in BOOLEAN : m = (acc.modified \/ Changed(acc.attrs, ca))
    BY <1>1, Zenon
  <2>3. PICK c \in Text : c = IF acc.locAttr = ca.name THEN ca.value ELSE acc.coords
    BY <1>1, Zenon
  <2>4. PICK t \in SUBSET STRING :
          t = IF Changed(acc.attrs, ca) THEN acc.triggered \cup {ca.name} ELSE acc.triggered
    BY <1>1, Zenon
  <2>5. [acc EXCEPT !.attrs = a, !.modified = m, !.coords = c, !.triggered = t] \in Processed
    BY Zenon DEF Processed
  <2>6. \/ UpdateOne(acc, ca) = Fail(acc, "attributeNotFound")
        \/ UpdateOne(acc, ca) = Fail(acc, "invalid")
        \/ UpdateOne(acc, ca) = [acc EXCEPT !.attrs = a, !.modified = m, !.coords = c, !.triggered = t]
    BY <2>1, <2>2, <2>3, <2>4, Zenon DEF UpdateOne
  <2> QED
    BY <1>2, <2>5, <2>6, Zenon
<1>4. AppendOne(acc, ca) \in Processed /\ AppendOne(acc, ca).code \in {acc.code, "invalid"}
  <2>1. PICK a \in Seq(Attribute) : a = appendAttribute(acc.attrs, ca)
    BY <1>1, AppendAttributeType, Zenon
  <2>2. PICK m \in BOOLEAN : m = (acc.modified \/ (~Found(acc.attrs, ca) \/ Changed(acc.attrs, ca)))
    BY <1>1, Zenon
  <2>3. PICK l \in Text : l = IF ca.loc # "" THEN ca.name ELSE acc.locAttr
    BY <1>1, Zenon
  <2>4. PICK c \in Text : c = IF ca.loc # "" THEN ca.value ELSE acc.coords
    BY <1>1, Zenon
  <2>5. PICK t \in SUBSET STRING : t = acc.triggered \cup {ca.name}
    BY <1>1, Zenon
  <2>6. \/ AppendOne(acc, ca) = Fail(acc, "invalid")
        \/ AppendOne(acc, ca)
             = [acc EXCEPT !.attrs = a, !.modified = m, !.locAttr = l, !.coords = c, !.triggered = t]
    BY <2>1, <2>2, <2>3, <2>4, <2>5, Zenon DEF AppendOne
  <2>7. PICK done : done = [acc EXCEPT !.attrs = a, !.modified = m, !.locAttr = l, !.coords = c,
                                       !.triggered = t]
    BY Zenon
  <2>8. done \in Processed /\ done.code = acc.code
    BY <2>7, Zenon DEF Processed
  <2>9. AppendOne(acc, ca) = Fail(acc, "invalid") \/ AppendOne(acc, ca) = done
    BY <2>6, <2>7, Zenon
  <2> QED
    BY <1>2, <2>8, <2>9, Zenon
<1>5. DeleteOne(acc, ca) \in Processed
  <2>1. CASE Found(acc.attrs, ca)
    <3>1. PICK a \in Seq(Attribute) : a = deleteAttribute(acc.attrs, ca)
      BY <1>1, <2>1, DeleteAttributeType, Zenon
    <3>2. PICK l \in Text : l = IF acc.locAttr = ca.name THEN "" ELSE acc.locAttr
      BY <1>1, EmptyText, Zenon
    <3>3. PICK t \in SUBSET STRING : t = acc.triggered \cup {ca.name}
      BY <1>1, Zenon
    <3>4. [acc EXCEPT !.attrs = a, !.modified = TRUE, !.locAttr = l, !.triggered = t] \in Processed
      BY Zenon DEF Processed
    <3>5. \/ DeleteOne(acc, ca) = Fail(acc, "invalid")
          \/ DeleteOne(acc, ca)
               = [acc EXCEPT !.attrs = a, !.modified = TRUE, !.locAttr = l, !.triggered = t]
      BY <3>1, <3>2, <3>3, Zenon DEF DeleteOne
    <3> QED
      BY <1>2, <3>4, <3>5, Zenon
  <2>2. CASE ~Found(acc.attrs, ca)
    <3>1. DeleteOne(acc, ca) = Fail(acc, "invalid")
      BY <2>2, Zenon DEF DeleteOne
    <3> QED
      BY <1>2, <3>1, Zenon
  <2> QED
    BY <2>1, <2>2, Zenon
<1>6. \/ ProcessOne(action, acc, ca) = acc
      \/ action = "update" /\ ProcessOne(action, acc, ca) = UpdateOne(acc, ca)
      \/ action = "append" /\ ProcessOne(action, acc, ca) = AppendOne(acc, ca)
      \/ action = "delete" /\ ProcessOne(action, acc, ca) = DeleteOne(acc, ca)
  BY Zenon DEF ProcessOne, Action
<1> QED
  BY <1>3, <1>4, <1>5, <1>6, Zenon

\* What the first n attributes of cav make of doc is f[n].
Runs(f, action, doc, cav) ==
  /\ f \in [0 .. Len(cav) -> Processed]
  /\ f[0].attrs = doc.attrs /\ f[0].locAttr = doc.locAttr /\ f[0].coords = doc.coords
  /\ f[0].code = "ok"
  /\ \A n \in 1 .. Len(cav) : f[n] = ProcessOne(action, f[n - 1], cav[n])

\* The loop over the attributes of a request.
LEMMA VectorSteps ==
  ASSUME NEW action \in Action, NEW doc \in EntityDoc, NEW cav \in Seq(ContextAttribute)
  PROVE  \E f : /\ Runs(f, action, doc, cav)
                /\ processContextAttributeVector(action, doc, cav) = f[Len(cav)]
<1>1. PICK N \in Nat : N = Len(cav) /\ cav \in [1 .. N -> ContextAttribute]
  BY LenProperties, Zenon
<1>2. PICK x \in Processed :
        x = [attrs |-> doc.attrs, locAttr |-> doc.locAttr, coords |-> doc.coords,
             modified |-> FALSE, triggered |-> {}, code |-> "ok"]
  BY Zenon DEF EntityDoc, Processed
<1>3. \A a \in Processed, c \in ContextAttribute : ProcessOne(action, a, c) \in Processed
  BY ProcessOneType, Zenon
<1> DEFINE h == [p \in Nat \X Processed |-> IF p[1] \in 1 .. N THEN ProcessOne(action, p[2], cav[p[1]]) ELSE p[2]]
<1>4. h \in StepFunction(Processed)
  <2>1. PICK R : R = Processed
    BY Zenon
  <2>2. h \in [Nat \X R -> R]
    BY <1>1, <1>3, <2>1, Zenon
  <2> QED
    BY <2>1, <2>2, Zenon DEF StepFunction
<1>5. ASSUME NEW i \in 1 .. N, NEW t \in Processed PROVE h[<<i, t>>] = ProcessOne(action, t, cav[i])
  <2>1. <<i, t>> \in Nat \X Processed
    OBVIOUS
  <2> QED
    BY <2>1, Zenon
<1> HIDE DEF h
<1>6. PICK f0 : IteratesFrom0(f0, N, Processed, x, h)
  BY <1>4, RecursionFrom0, Zenon
<1> DEFINE Eq(f) == f = [n \in 0 .. N |-> IF n = 0 THEN x ELSE ProcessOne(action, f[n - 1], cav[n])]
           after == CHOOSE f : Eq(f)
<1>7. Eq(f0)
  <2>1. /\ f0 \in [0 .. N -> Processed]
        /\ f0[0] = x
        /\ \A i \in 1 .. N : f0[i] = h[<<i, f0[i - 1]>>]
    BY <1>6, Zenon DEF IteratesFrom0
  <2>2. ASSUME NEW i \in 0 .. N
        PROVE  f0[i] = IF i = 0 THEN x ELSE ProcessOne(action, f0[i - 1], cav[i])
    <3>1. CASE i = 0
      BY <2>1, <3>1, Zenon
    <3>2. CASE i # 0
      <4>1. i - 1 \in 0 .. N /\ i \in 1 .. N
        BY <3>2
      <4>2. f0[i - 1] \in Processed /\ f0[i] = h[<<i, f0[i - 1]>>]
        BY <2>1, <4>1, Zenon
      <4> QED
        BY <1>5, <3>2, <4>1, <4>2, Zenon
    <3> QED
      BY <3>1, <3>2, Zenon
  <2> QED
    BY <2>1, <2>2, Zenon
<1>8. Eq(after)
  <2> HIDE DEF Eq
  <2> QED
    BY <1>7, Zenon
<1>9. processContextAttributeVector(action, doc, cav) = after[N]
  BY <1>1, <1>2, Zenon DEF processContextAttributeVector
<1> HIDE DEF after
<1>10. after[0] = x /\ \A i \in 1 .. N : after[i] = ProcessOne(action, after[i - 1], cav[i])
  <2>1. 0 \in 0 .. N /\ \A i \in 1 .. N : i \in 0 .. N /\ i # 0
    OBVIOUS
  <2> QED
    BY <1>8, <2>1, Zenon
<1>11. after \in [0 .. N -> Processed]
  <2> DEFINE T == {n \in Nat : n \in 0 .. N => after[n] \in Processed}
  <2>1. 0 \in T
    BY <1>10, Zenon
  <2>2. ASSUME NEW n \in T PROVE n + 1 \in T
    <3>1. ASSUME n + 1 \in 0 .. N PROVE after[n + 1] \in Processed
      <4>1. n \in 0 .. N /\ n + 1 \in 1 .. N /\ (n + 1) - 1 = n /\ after[n] \in Processed
        BY <3>1
      <4>2. after[n + 1] = ProcessOne(action, after[n], cav[n + 1]) /\ cav[n + 1] \in ContextAttribute
        BY <1>1, <1>10, <4>1, Zenon
      <4> QED
        BY <1>3, <4>1, <4>2, Zenon
    <3> QED
      BY <3>1
  <2>3. T = Nat
    <3> HIDE DEF T
    <3>1. T \in SUBSET Nat
      BY Zenon DEF T
    <3> QED
      BY <2>1, <2>2, <3>1, InductionSet, Zenon
  <2>4. \A n \in 0 .. N : after[n] \in Processed
    BY <2>3
  <2> QED
    BY <1>8, <2>4, Zenon
<1>12. Runs(after, action, doc, cav)
  <2>1. x.attrs = doc.attrs /\ x.locAttr = doc.locAttr /\ x.coords = doc.coords /\ x.code = "ok"
    BY <1>2, Zenon
  <2> HIDE DEF Eq
  <2> QED
    BY <1>1, <1>10, <1>11, <2>1, Zenon DEF Runs
<1> QED
  BY <1>1, <1>9, <1>12, Zenon

\* APPEND adds the attributes that are not there: none can be missing.
LEMMA AppendFinds ==
  ASSUME NEW f, NEW doc, NEW cav \in Seq(ContextAttribute), Runs(f, "append", doc, cav)
  PROVE  f[Len(cav)].code # "attributeNotFound"
<1>1. PICK N \in Nat : N = Len(cav) /\ cav \in [1 .. N -> ContextAttribute]
  BY LenProperties, Zenon
<1>2. /\ f \in [0 .. N -> Processed] /\ f[0].code = "ok"
      /\ \A n \in 1 .. N : f[n] = ProcessOne("append", f[n - 1], cav[n])
  BY <1>1, Zenon DEF Runs
<1> DEFINE T == {n \in Nat : n \in 0 .. N => f[n].code # "attributeNotFound"}
<1>3. 0 \in T
  BY <1>2, Zenon
<1>4. ASSUME NEW n \in T PROVE n + 1 \in T
  <2>1. ASSUME n + 1 \in 0 .. N PROVE f[n + 1].code # "attributeNotFound"
    <3>1. n \in 0 .. N /\ n + 1 \in 1 .. N /\ (n + 1) - 1 = n /\ f[n].code # "attributeNotFound"
      BY <2>1
    <3>2. f[n] \in Processed /\ cav[n + 1] \in ContextAttribute
      BY <1>1, <1>2, <3>1, Zenon
    <3>3. f[n + 1] = ProcessOne("append", f[n], cav[n + 1])
      BY <1>2, <3>1, Zenon
    <3>4. "append" \in Action
      BY Zenon DEF Action
    <3> QED
      BY <3>1, <3>2, <3>3, <3>4, ProcessOneType, Zenon
  <2> QED
    BY <2>1
<1>5. T = Nat
  <2> HIDE DEF T
  <2>1. T \in SUBSET Nat
    BY Zenon DEF T
  <2> QED
    BY <1>3, <1>4, <2>1, InductionSet, Zenon
<1>6. N \in T /\ N \in 0 .. N
  <2> HIDE DEF T
  <2> QED
    BY <1>5
<1> QED
  BY <1>1, <1>6, Zenon

\* c is what an update makes of the attribute a, or a DELETE of another one.
UpdatedTo(a, ca, c) ==
  /\ c.name = a.name /\ c.id = a.id
  /\ ~smartAttrMatch(a, ca) => c = a
  /\ smartAttrMatch(a, ca) => /\ c.value = ca.value
                              /\ c.type = IF ca.type = "" THEN a.type ELSE ca.type
                              /\ c.md = MergedMetadata(a, ca)

KeptAs(a, c) == c.name = a.name /\ c.id = a.id /\ c.md = a.md /\ (a.value \notin Compound => c = a)

\* An update leaves the name and the ID of an attribute, and one that does not match.
LEMMA CheckAndUpdateKeeps ==
  ASSUME NEW attr \in Attribute, NEW ca \in ContextAttribute
  PROVE  UpdatedTo(attr, ca, checkAndUpdate(attr, ca))
<1>1. CASE ~smartAttrMatch(attr, ca)
  BY <1>1, Zenon DEF checkAndUpdate, UpdatedTo
<1>2. CASE smartAttrMatch(attr, ca)
  <2>1. PICK t, M, c : /\ t = IF ca.type = "" THEN attr.type ELSE ca.type
                       /\ M = MergedMetadata(attr, ca)
                       /\ c = checkAndUpdate(attr, ca)
    BY Zenon
  <2>2. c = [attr EXCEPT !.value = ca.value, !.type = t, !.md = M]
    BY <1>2, <2>1, Zenon DEF checkAndUpdate
  <2>3. c.name = attr.name /\ c.id = attr.id /\ c.value = ca.value /\ c.type = t /\ c.md = M
    BY ONLY <2>2, attr \in Attribute, Zenon DEF Attribute
  <2> QED
    BY <1>2, <2>1, <2>3, Zenon DEF UpdatedTo
<1> QED
  BY <1>1, <1>2, Zenon

\* The attributes after an update, by their places.
LEMMA UpdateElements ==
  ASSUME NEW attrs \in Seq(Attribute), NEW ca \in ContextAttribute
  PROVE  /\ DOMAIN updateAttribute(attrs, ca) = DOMAIN attrs
         /\ \A i \in DOMAIN attrs : /\ attrs[i] \in Attribute
                                    /\ UpdatedTo(attrs[i], ca, updateAttribute(attrs, ca)[i])
<1>1. \A i \in DOMAIN attrs : attrs[i] \in Attribute
  BY LenProperties, ElementOfSeq, Zenon
<1>2. /\ DOMAIN updateAttribute(attrs, ca) = DOMAIN attrs
      /\ \A i \in DOMAIN attrs : updateAttribute(attrs, ca)[i] = checkAndUpdate(attrs[i], ca)
  BY Zenon DEF updateAttribute
<1> QED
  BY <1>1, <1>2, CheckAndUpdateKeeps, Zenon

\* The attributes with a new one.
LEMMA AppendElements ==
  ASSUME NEW S, NEW attrs \in Seq(S), NEW x
  PROVE  /\ DOMAIN Append(attrs, x) = DOMAIN attrs \cup {Len(attrs) + 1}
         /\ Append(attrs, x)[Len(attrs) + 1] = x
         /\ \A i \in DOMAIN attrs : Append(attrs, x)[i] = attrs[i]
OBVIOUS

\* checkAndDelete leaves what does not match, except compound values.
LEMMA CheckAndDeleteKeeps ==
  ASSUME NEW attr \in Attribute, NEW ca, ~smartAttrMatch(attr, ca)
  PROVE  KeptAs(attr, checkAndDelete(attr, ca))
<1>1. PICK b, v, c : /\ b = "" /\ v = (IF attr.value \in Compound THEN b ELSE attr.value)
                     /\ c = checkAndDelete(attr, ca)
  BY Zenon
<1>2. c = [attr EXCEPT !.value = v]
  BY <1>1, Zenon DEF checkAndDelete
<1>3. c.name = attr.name /\ c.id = attr.id /\ c.md = attr.md
  BY ONLY <1>2, attr \in Attribute, Zenon DEF Attribute
<1>4. attr.value \notin Compound => c = attr
  <2>1. ASSUME attr.value = v PROVE c = attr
    <3>1. PICK T : attr \in [name : T, id : T, type : T, value : T, md : SUBSET StoredMetadata]
      BY Zenon DEF Attribute
    <3> QED
      BY ONLY <1>2, <2>1, <3>1, Zenon
  <2> QED
    BY <1>1, <2>1, Zenon
<1> QED
  BY <1>1, <1>3, <1>4, Zenon DEF KeptAs

\* The attributes after a DELETE: those that do not match, and blanks.
LEMMA DeleteElements ==
  ASSUME NEW attrs \in Seq(Attribute), NEW ca \in ContextAttribute, Found(attrs, ca)
  PROVE  /\ \A j \in DOMAIN deleteAttribute(attrs, ca) :
              \/ deleteAttribute(attrs, ca)[j] = Blank
              \/ \E i \in DOMAIN attrs : /\ attrs[i] \in Attribute /\ ~smartAttrMatch(attrs[i], ca)
                                         /\ KeptAs(attrs[i], deleteAttribute(attrs, ca)[j])
         /\ \A i \in DOMAIN attrs : ~smartAttrMatch(attrs[i], ca) =>
              \E j \in DOMAIN deleteAttribute(attrs, ca) :
                KeptAs(attrs[i], deleteAttribute(attrs, ca)[j])
<1> DEFINE kept == [i \in DOMAIN attrs |-> checkAndDelete(attrs[i], ca)]
<1>1. PICK n \in Nat : n = Len(attrs) /\ DOMAIN attrs = 1 .. n /\ attrs \in [1 .. n -> Attribute]
  BY LenProperties, Zenon
<1>2. PICK first \in 1 .. n : /\ smartAttrMatch(attrs[first], ca)
                              /\ deleteAttribute(attrs, ca) = RemoveAt(kept, first)
  BY FirstMatch, <1>1, Zenon
<1>3. PICK R : kept \in Seq(R) /\ Len(kept) = n
  <2>1. PICK R : R = {checkAndDelete(attrs[i], ca) : i \in DOMAIN attrs}
    BY Zenon
  <2>2. kept \in [1 .. n -> R]
    BY <1>1, <2>1, Zenon
  <2> HIDE DEF kept
  <2> QED
    BY <2>2, FunctionSeq, Zenon
<1>4. \A i \in 1 .. n : kept[i] = checkAndDelete(attrs[i], ca) /\ attrs[i] \in Attribute
  BY <1>1, Zenon
<1> HIDE DEF kept
<1>5. PICK d \in Seq(R) : d = deleteAttribute(attrs, ca) /\ Len(d) = n - 1
                          /\ \A j \in 1 .. n - 1 : d[j] = IF j < first THEN kept[j] ELSE kept[j + 1]
  BY <1>2, <1>3, RemovedSeq, ZenonT(30)
<1>6. DOMAIN d = 1 .. n - 1
  BY <1>5, LenProperties, Zenon
<1>7. ASSUME NEW j \in DOMAIN d
      PROVE  d[j] = Blank \/ \E i \in 1 .. n : ~smartAttrMatch(attrs[i], ca) /\ d[j] = checkAndDelete(attrs[i], ca)
  <2>1. PICK i \in 1 .. n : d[j] = kept[i]
    <3>1. j \in 1 .. n /\ j + 1 \in 1 .. n /\ j \in 1 .. n - 1
      BY <1>6
    <3> QED
      BY <1>5, <3>1, Zenon
  <2> QED
    BY <1>4, <2>1, Zenon DEF checkAndDelete
<1>8. ASSUME NEW i \in 1 .. n, ~smartAttrMatch(attrs[i], ca)
      PROVE  \E j \in DOMAIN d : d[j] = checkAndDelete(attrs[i], ca)
  <2>1. i # first
    BY <1>2, <1>8, Zenon
  <2>2. CASE i < first
    <3>1. i \in 1 .. n - 1
      BY <2>2
    <3>2. d[i] = kept[i]
      BY <1>5, <2>2, <3>1, Zenon
    <3> QED
      BY <1>4, <1>6, <3>1, <3>2, Zenon
  <2>3. CASE i > first
    <3>1. PICK j : j = i - 1 /\ j \in 1 .. n - 1 /\ ~(j < first) /\ j + 1 = i
      BY <2>3
    <3>2. d[j] = kept[i]
      BY <1>5, <3>1, Zenon
    <3> QED
      BY <1>4, <1>6, <3>1, <3>2, Zenon
  <2> QED
    BY <2>1, <2>2, <2>3
<1>9. ASSUME NEW i \in 1 .. n, ~smartAttrMatch(attrs[i], ca) PROVE KeptAs(attrs[i], checkAndDelete(attrs[i], ca))
  BY <1>4, <1>9, CheckAndDeleteKeeps, Zenon
<1>10. \A j \in DOMAIN d : \/ d[j] = Blank
                           \/ \E i \in DOMAIN attrs : /\ attrs[i] \in Attribute /\ ~smartAttrMatch(attrs[i], ca)
                                                      /\ KeptAs(attrs[i], d[j])
  <2> SUFFICES ASSUME NEW j \in DOMAIN d, d[j] # Blank
               PROVE  \E i \in DOMAIN attrs : /\ attrs[i] \in Attribute /\ ~smartAttrMatch(attrs[i], ca)
                                              /\ KeptAs(attrs[i], d[j])
    BY Zenon
  <2>1. PICK i \in 1 .. n : ~smartAttrMatch(attrs[i], ca) /\ d[j] = checkAndDelete(attrs[i], ca)
    BY <1>7, Zenon
  <2>2. KeptAs(attrs[i], d[j])
    BY <1>9, <2>1, Zenon
  <2> QED
    BY <1>1, <1>4, <2>1, <2>2, Zenon
<1>11. ASSUME NEW i \in DOMAIN attrs, ~smartAttrMatch(attrs[i], ca) PROVE \E j \in DOMAIN d : KeptAs(attrs[i], d[j])
  <2>1. i \in 1 .. n /\ KeptAs(attrs[i], checkAndDelete(attrs[i], ca))
    BY <1>1, <1>9, <1>11, Zenon
  <2>2. PICK j \in DOMAIN d : d[j] = checkAndDelete(attrs[i], ca)
    BY <1>8, <1>11, <2>1, Zenon
  <2> QED
    BY <2>1, <2>2, Zenon
<1> QED
  BY <1>5, <1>10, <1>11, Zenon

\* Induction over the attributes of a request.
LEMMA RunInduction ==
  ASSUME NEW cav \in Seq(ContextAttribute), NEW G, 0 \in G,
         \A n \in 1 .. Len(cav) : n - 1 \in G => n \in G
  PROVE  Len(cav) \in G
<1>1. PICK N \in Nat : N = Len(cav)
  BY LenProperties, Zenon
<1>2. \A n \in 1 .. N : n - 1 \in G => n \in G
  BY <1>1, Zenon
<1> DEFINE T == {n \in Nat : n \in 0 .. N => n \in G}
<1>3. 0 \in T
  BY Zenon
<1>4. ASSUME NEW n \in T PROVE n + 1 \in T
  BY <1>2
<1>5. T \in SUBSET Nat
  BY Zenon
<1> HIDE DEF T
<1>6. T = Nat
  BY <1>3, <1>4, <1>5, InductionSet, Zenon
<1>7. N \in T
  BY <1>6, Zenon
<1> USE DEF T
<1>8. N \in G
  BY <1>7
<1> QED
  BY <1>1, <1>8, Zenon

\* One attribute of the request changes nothing, or updates, appends or deletes.
Skipped(acc, new) == new.attrs = acc.attrs /\ new.code # "ok"

Updates(acc, ca, new) ==
  /\ acc.code = "ok" /\ new.code = "ok" /\ Found(acc.attrs, ca)
  /\ new.attrs = updateAttribute(acc.attrs, ca)
  /\ new.modified <=> acc.modified \/ Changed(acc.attrs, ca)
  /\ acc.triggered \subseteq new.triggered
  /\ Changed(acc.attrs, ca) => ca.name \in new.triggered

Appends(acc, ca, new) ==
  /\ acc.code = "ok" /\ new.code = "ok" /\ ~Found(acc.attrs, ca) /\ legalIdUsage(acc.attrs, ca)
  /\ new.attrs = Append(acc.attrs, NewAttr(ca))
  /\ new.modified
  /\ new.triggered = acc.triggered \cup {ca.name}

Deletes(acc, ca, new) ==
  /\ acc.code = "ok" /\ new.code = "ok" /\ Found(acc.attrs, ca)
  /\ new.attrs = deleteAttribute(acc.attrs, ca)
  /\ new.triggered = acc.triggered \cup {ca.name}

\* What ProcessOne does to the attributes.
LEMMA ProcessOneStep ==
  ASSUME NEW acc \in Processed, NEW ca \in ContextAttribute, NEW action \in Action
  PROVE  \/ Skipped(acc, ProcessOne(action, acc, ca))
         \/ action # "delete" /\ Updates(acc, ca, ProcessOne(action, acc, ca))
         \/ action = "append" /\ Appends(acc, ca, ProcessOne(action, acc, ca))
         \/ action = "delete" /\ Deletes(acc, ca, ProcessOne(action, acc, ca))
<1>1. PICK new \in Processed : new = ProcessOne(action, acc, ca)
  BY ProcessOneType, Zenon
<1>2. ASSUME NEW code \in {"invalid", "attributeNotFound"}, new = Fail(acc, code) PROVE Skipped(acc, new)
  BY <1>2, Zenon DEF Fail, Skipped, Processed
<1>3. CASE acc.code # "ok"
  <2>1. new = acc
    BY <1>1, <1>3, Zenon DEF ProcessOne
  <2> QED
    BY <1>1, <1>3, <2>1, Zenon DEF Skipped
<1>4. CASE acc.code = "ok" /\ action = "update"
  <2>1. new = UpdateOne(acc, ca)
    BY <1>1, <1>4, Zenon DEF ProcessOne
  <2>2. PICK c, t : /\ c = IF acc.locAttr = ca.name THEN ca.value ELSE acc.coords
                    /\ t = IF Changed(acc.attrs, ca) THEN acc.triggered \cup {ca.name} ELSE acc.triggered
    BY Zenon
  <2>3. CASE /\ Found(acc.attrs, ca)
             /\ new = [acc EXCEPT !.attrs = updateAttribute(acc.attrs, ca),
                                  !.modified = acc.modified \/ Changed(acc.attrs, ca),
                                  !.coords = c, !.triggered = t]
    <3>1. /\ new.attrs = updateAttribute(acc.attrs, ca) /\ new.triggered = t /\ new.code = acc.code
          /\ new.modified = (acc.modified \/ Changed(acc.attrs, ca))
      BY <2>3, Zenon DEF Processed
    <3> QED
      BY <1>1, <1>4, <2>2, <2>3, <3>1, Zenon DEF Updates
  <2>4. CASE new = Fail(acc, "invalid") \/ new = Fail(acc, "attributeNotFound")
    BY <1>1, <1>2, <2>4, Zenon
  <2> QED
    BY <2>1, <2>2, <2>3, <2>4, Zenon DEF UpdateOne
<1>5. CASE acc.code = "ok" /\ action = "append"
  <2>1. new = AppendOne(acc, ca)
    BY <1>1, <1>5, Zenon DEF ProcessOne
  <2>2. PICK l, c, m : /\ l = IF ca.loc # "" THEN ca.name ELSE acc.locAttr
                       /\ c = IF ca.loc # "" THEN ca.value ELSE acc.coords
                       /\ m = (acc.modified \/ (~Found(acc.attrs, ca) \/ Changed(acc.attrs, ca)))
    BY Zenon
  <2>3. CASE /\ legalIdUsage(acc.attrs, ca)
             /\ new = [acc EXCEPT !.attrs = appendAttribute(acc.attrs, ca), !.modified = m, !.locAttr = l,
                                  !.coords = c, !.triggered = acc.triggered \cup {ca.name}]
    <3>1. /\ new.attrs = appendAttribute(acc.attrs, ca) /\ new.triggered = acc.triggered \cup {ca.name}
          /\ new.code = acc.code /\ new.modified = m
      BY <2>3, Zenon DEF Processed
    <3>2. CASE Found(acc.attrs, ca)
      BY <1>1, <1>5, <2>2, <3>1, <3>2, Zenon DEF Updates, appendAttribute
    <3>3. CASE ~Found(acc.attrs, ca)
      BY <1>1, <1>5, <2>2, <2>3, <3>1, <3>3, Zenon DEF Appends, appendAttribute
    <3> QED
      BY <3>2, <3>3, Zenon
  <2>4. CASE new = Fail(acc, "invalid")
    BY <1>1, <1>2, <2>4, Zenon
  <2> QED
    BY <2>1, <2>2, <2>3, <2>4, Zenon DEF AppendOne
<1>6. CASE acc.code = "ok" /\ action = "delete"
  <2>1. new = DeleteOne(acc, ca)
    BY <1>1, <1>6, Zenon DEF ProcessOne
  <2>2. PICK l : l = IF acc.locAttr = ca.name THEN "" ELSE acc.locAttr
    BY Zenon
  <2>3. CASE /\ Found(acc.attrs, ca)
             /\ new = [acc EXCEPT !.attrs = deleteAttribute(acc.attrs, ca), !.modified = TRUE, !.locAttr = l,
                                  !.triggered = acc.triggered \cup {ca.name}]
    <3>1. /\ new.attrs = deleteAttribute(acc.attrs, ca) /\ new.triggered = acc.triggered \cup {ca.name}
          /\ new.code = acc.code
      BY <2>3, Zenon DEF Processed
    <3> QED
      BY <1>1, <1>6, <2>3, <3>1, Zenon DEF Deletes
  <2>4. CASE new = Fail(acc, "invalid")
    BY <1>1, <1>2, <2>4, Zenon
  <2> QED
    BY <2>1, <2>2, <2>3, <2>4, Zenon DEF DeleteOne
<1> QED
  BY <1>3, <1>4, <1>5, <1>6, Zenon DEF Action

\* The steps of a run.
LEMMA RunStep ==
  ASSUME NEW action \in Action, NEW doc, NEW cav \in Seq(ContextAttribute), NEW f, Runs(f, action, doc, cav),
         NEW n \in 1 .. Len(cav)
  PROVE  /\ n - 1 \in 0 .. Len(cav) /\ n \in 0 .. Len(cav)
         /\ f[n - 1] \in Processed /\ f[n] \in Processed /\ f[n - 1].attrs \in Seq(Attribute)
         /\ cav[n] \in ContextAttribute
         /\ \/ Skipped(f[n - 1], f[n])
            \/ action # "delete" /\ Updates(f[n - 1], cav[n], f[n])
            \/ action = "append" /\ Appends(f[n - 1], cav[n], f[n])
            \/ action = "delete" /\ Deletes(f[n - 1], cav[n], f[n])
<1>1. n - 1 \in 0 .. Len(cav) /\ n \in 0 .. Len(cav)
  OBVIOUS
<1>2. cav[n] \in ContextAttribute
  BY ElementOfSeq, Zenon
<1>3. f[n - 1] \in Processed /\ f[n] \in Processed /\ f[n] = ProcessOne(action, f[n - 1], cav[n])
  BY <1>1, Zenon DEF Runs
<1>4. f[n - 1].attrs \in Seq(Attribute)
  BY <1>3, Zenon DEF Processed
<1> QED
  BY <1>1, <1>2, <1>3, <1>4, ProcessOneStep, Zenon

\* Attributes of one name with and without ID; and no ID without name, which the blanks
\* that checkAndDelete leaves rest on.
HasMixed(attrs) == \E i, j \in DOMAIN attrs : Mixed(attrs[i], attrs[j])

NamedIds(attrs) == \A i \in DOMAIN attrs : attrs[i].name = "" => attrs[i].id = ""

\* What has the names and IDs of other attributes, or none.
LEMMA IdsFrom ==
  ASSUME NEW attrs, NEW d, NamedIds(attrs),
         \A j \in DOMAIN d : \/ d[j].name = "" /\ d[j].id = ""
                             \/ \E i \in DOMAIN attrs : d[j].name = attrs[i].name /\ d[j].id = attrs[i].id
  PROVE  NamedIds(d) /\ (HasMixed(d) => HasMixed(attrs))
<1>1. ASSUME NEW j \in DOMAIN d, d[j].name = "" PROVE d[j].id = ""
  BY <1>1, Zenon DEF NamedIds
<1>2. ASSUME NEW i \in DOMAIN d, NEW j \in DOMAIN d, Mixed(d[i], d[j]) PROVE HasMixed(attrs)
  <2>1. d[i].name = d[j].name /\ (d[i].id = "" <=> d[j].id # "")
    BY <1>2, Zenon DEF Mixed
  <2>2. d[i].name # ""
    BY <1>1, <2>1, Zenon
  <2>3. PICK k \in DOMAIN attrs : d[i].name = attrs[k].name /\ d[i].id = attrs[k].id
    BY <2>2, Zenon
  <2>4. PICK l \in DOMAIN attrs : d[j].name = attrs[l].name /\ d[j].id = attrs[l].id
    BY <2>1, <2>2, Zenon
  <2>5. Mixed(attrs[k], attrs[l])
    BY <2>1, <2>3, <2>4, Zenon DEF Mixed
  <2> QED
    BY <2>5, Zenon DEF HasMixed
<1>3. HasMixed(d) => HasMixed(attrs)
  BY <1>2, Zenon DEF HasMixed
<1> QED
  BY <1>1, <1>3, Zenon DEF NamedIds

\* No attribute of a request mixes them.
LEMMA StepIds ==
  ASSUME NEW acc, NEW ca \in ContextAttribute, NEW new, acc.attrs \in Seq(Attribute), NamedIds(acc.attrs),
         Skipped(acc, new) \/ Updates(acc, ca, new) \/ Appends(acc, ca, new) \/ Deletes(acc, ca, new)
  PROVE  NamedIds(new.attrs) /\ (HasMixed(new.attrs) => HasMixed(acc.attrs))
<1>0. PICK attrs \in Seq(Attribute) : attrs = acc.attrs
  BY Zenon
<1>1. PICK d : attrs = acc.attrs /\ d = new.attrs
  BY <1>0, Zenon
<1>2. CASE Skipped(acc, new)
  BY <1>2, Zenon DEF Skipped
<1>3. CASE Updates(acc, ca, new)
  <2>1. d = updateAttribute(attrs, ca)
    BY <1>1, <1>3, Zenon DEF Updates
  <2>2. DOMAIN d = DOMAIN attrs /\ \A i \in DOMAIN attrs : UpdatedTo(attrs[i], ca, d[i])
    BY <2>1, UpdateElements, Zenon
  <2>3. \A i \in DOMAIN d : d[i].name = attrs[i].name /\ d[i].id = attrs[i].id
    BY <2>2, Zenon DEF UpdatedTo
  <2>4. NamedIds(attrs)
    BY <1>1, Zenon
  <2>5. NamedIds(d) /\ (HasMixed(d) => HasMixed(attrs))
    BY <2>2, <2>3, <2>4, IdsFrom, Zenon
  <2> QED
    BY <1>1, <2>5, Zenon
<1>4. CASE Appends(acc, ca, new)
  <2>1. d = Append(attrs, NewAttr(ca)) /\ legalIdUsage(attrs, ca) /\ NamedIds(attrs)
    BY <1>1, <1>4, Zenon DEF Appends
  <2>2. PICK l, x : l = Len(attrs) + 1 /\ x = NewAttr(ca)
    BY Zenon
  <2>3. DOMAIN d = DOMAIN attrs \cup {l} /\ d[l] = x /\ \A i \in DOMAIN attrs : d[i] = attrs[i]
    BY <2>1, <2>2, AppendElements
  <2>4. x.name = ca.name /\ x.id = ca.id /\ x.name # ""
    BY <2>2, Zenon DEF NewAttr, ContextAttribute
  <2>5. \A i \in DOMAIN attrs : ~Mixed(attrs[i], x) /\ ~Mixed(x, attrs[i])
    BY <2>1, <2>4, Zenon DEF legalIdUsage, Mixed
  <2>6. ~Mixed(x, x)
    BY Zenon DEF Mixed
  <2>7. NamedIds(d)
    BY <2>1, <2>3, <2>4, Zenon DEF NamedIds
  <2>8. ASSUME NEW i \in DOMAIN d, NEW j \in DOMAIN d, Mixed(d[i], d[j]) PROVE HasMixed(attrs)
    <3>1. i \in DOMAIN attrs \/ d[i] = x
      BY <2>3, Zenon
    <3>2. j \in DOMAIN attrs \/ d[j] = x
      BY <2>3, Zenon
    <3>3. i \in DOMAIN attrs /\ j \in DOMAIN attrs
      BY <2>3, <2>5, <2>6, <2>8, <3>1, <3>2, Zenon
    <3> QED
      BY <2>3, <2>8, <3>3, Zenon DEF HasMixed
  <2>9. HasMixed(d) => HasMixed(attrs)
    BY <2>8, Zenon DEF HasMixed
  <2> QED
    BY <1>1, <2>7, <2>9, Zenon
<1>5. CASE Deletes(acc, ca, new)
  <2>1. d = deleteAttribute(attrs, ca) /\ Found(attrs, ca) /\ NamedIds(attrs)
    BY <1>1, <1>5, Zenon DEF Deletes
  <2>2. Blank.name = "" /\ Blank.id = ""
    BY Zenon DEF Blank
  <2>3. \A j \in DOMAIN d : d[j] = Blank \/ \E i \in DOMAIN attrs : KeptAs(attrs[i], d[j])
    BY <2>1, DeleteElements, Zenon
  <2>4. \A j \in DOMAIN d : \/ d[j].name = "" /\ d[j].id = ""
                            \/ \E i \in DOMAIN attrs : d[j].name = attrs[i].name /\ d[j].id = attrs[i].id
    BY <2>2, <2>3, Zenon DEF KeptAs
  <2>5. NamedIds(d) /\ (HasMixed(d) => HasMixed(attrs))
    BY <2>1, <2>4, IdsFrom, Zenon
  <2> QED
    BY <1>1, <2>5, Zenon
<1> QED
  BY <1>2, <1>3, <1>4, <1>5, Zenon

\* No request mixes them.
LEMMA RunIds ==
  ASSUME NEW action \in Action, NEW doc, NEW cav \in Seq(ContextAttribute), NEW f, Runs(f, action, doc, cav),
         NamedIds(doc.attrs)
  PROVE  NamedIds(f[Len(cav)].attrs) /\ (HasMixed(f[Len(cav)].attrs) => HasMixed(doc.attrs))
<1>1. PICK G : G = {n \in 0 .. Len(cav) : NamedIds(f[n].attrs) /\ (HasMixed(f[n].attrs) => HasMixed(doc.attrs))}
  BY Zenon
<1>2. 0 \in G
  <2>1. 0 \in 0 .. Len(cav)
    BY LenProperties
  <2> QED
    BY <1>1, <2>1, Zenon DEF Runs
<1>3. ASSUME NEW n \in 1 .. Len(cav), n - 1 \in G PROVE n \in G
  <2>1. NamedIds(f[n - 1].attrs) /\ (HasMixed(f[n - 1].attrs) => HasMixed(doc.attrs))
    BY <1>1, <1>3, Zenon
  <2>2. /\ n \in 0 .. Len(cav) /\ f[n - 1].attrs \in Seq(Attribute) /\ cav[n] \in ContextAttribute
        /\ \/ Skipped(f[n - 1], f[n]) \/ Updates(f[n - 1], cav[n], f[n])
           \/ Appends(f[n - 1], cav[n], f[n]) \/ Deletes(f[n - 1], cav[n], f[n])
    BY RunStep, Zenon
  <2>3. NamedIds(f[n].attrs) /\ (HasMixed(f[n].attrs) => HasMixed(f[n - 1].attrs))
    BY <2>1, <2>2, StepIds, Zenon
  <2> QED
    BY <1>1, <2>1, <2>2, <2>3, Zenon
<1>4. Len(cav) \in G
  BY <1>2, <1>3, RunInduction, Zenon
<1> QED
  BY <1>1, <1>4, Zenon

\* a is one of the attributes.
In(a, attrs) == \E i \in DOMAIN attrs : attrs[i] = a

\* An attribute that the request attribute does not match stays.
LEMMA StepOthers ==
  ASSUME NEW acc, NEW ca \in ContextAttribute, NEW new, acc.attrs \in Seq(Attribute),
         NEW a, In(a, acc.attrs), ~smartAttrMatch(a, ca),
         \/ Skipped(acc, new) \/ Updates(acc, ca, new) \/ Appends(acc, ca, new)
         \/ Deletes(acc, ca, new) /\ a.value \notin Compound
  PROVE  In(a, new.attrs)
<1>0. PICK attrs \in Seq(Attribute) : attrs = acc.attrs
  BY Zenon
<1>1. PICK d : attrs = acc.attrs /\ d = new.attrs
  BY <1>0, Zenon
<1>2. PICK i \in DOMAIN attrs : attrs[i] = a
  BY <1>1, Zenon DEF In
<1>3. CASE Skipped(acc, new)
  BY <1>3, Zenon DEF Skipped
<1>4. CASE Updates(acc, ca, new)
  <2>1. d = updateAttribute(attrs, ca)
    BY <1>1, <1>4, Zenon DEF Updates
  <2>2. DOMAIN d = DOMAIN attrs /\ UpdatedTo(attrs[i], ca, d[i])
    BY <2>1, UpdateElements, Zenon
  <2>3. d[i] = a
    BY <1>2, <2>2, Zenon DEF UpdatedTo
  <2> QED
    BY <1>1, <2>2, <2>3, Zenon DEF In
<1>5. CASE Appends(acc, ca, new)
  <2>1. d = Append(attrs, NewAttr(ca))
    BY <1>1, <1>5, Zenon DEF Appends
  <2>2. PICK x : x = NewAttr(ca)
    BY Zenon
  <2>3. i \in DOMAIN d /\ d[i] = attrs[i]
    BY <2>1, <2>2, AppendElements
  <2> QED
    BY <1>1, <1>2, <2>3, Zenon DEF In
<1>6. CASE Deletes(acc, ca, new) /\ a.value \notin Compound
  <2>1. d = deleteAttribute(attrs, ca) /\ Found(attrs, ca)
    BY <1>1, <1>6, Zenon DEF Deletes
  <2>2. PICK j \in DOMAIN d : KeptAs(attrs[i], d[j])
    BY <1>2, <2>1, DeleteElements, Zenon
  <2>3. d[j] = a
    BY <1>2, <1>6, <2>2, Zenon DEF KeptAs
  <2> QED
    BY <1>1, <2>3, Zenon DEF In
<1> QED
  BY <1>3, <1>4, <1>5, <1>6, Zenon

\* An attribute that the request does not name stays.
LEMMA RunOthers ==
  ASSUME NEW action \in Action, NEW doc, NEW cav \in Seq(ContextAttribute), NEW f, Runs(f, action, doc, cav),
         NEW a, In(a, doc.attrs), \A i \in DOMAIN cav : ~smartAttrMatch(a, cav[i]),
         action = "delete" => a.value \notin Compound
  PROVE  In(a, f[Len(cav)].attrs)
<1>1. PICK G : G = {n \in 0 .. Len(cav) : In(a, f[n].attrs)}
  BY Zenon
<1>2. 0 \in G
  <2>1. 0 \in 0 .. Len(cav)
    BY LenProperties
  <2> QED
    BY <1>1, <2>1, Zenon DEF Runs
<1>3. ASSUME NEW n \in 1 .. Len(cav), n - 1 \in G PROVE n \in G
  <2>1. In(a, f[n - 1].attrs)
    BY <1>1, <1>3, Zenon
  <2>2. /\ n \in 0 .. Len(cav) /\ f[n - 1].attrs \in Seq(Attribute) /\ cav[n] \in ContextAttribute
        /\ \/ Skipped(f[n - 1], f[n])
           \/ action # "delete" /\ Updates(f[n - 1], cav[n], f[n])
           \/ action = "append" /\ Appends(f[n - 1], cav[n], f[n])
           \/ action = "delete" /\ Deletes(f[n - 1], cav[n], f[n])
    BY RunStep, Zenon
  <2>3. n \in DOMAIN cav
    BY LenProperties, Zenon
  <2>4. In(a, f[n].attrs)
    BY <2>1, <2>2, <2>3, StepOthers, Zenon
  <2> QED
    BY <1>1, <2>2, <2>4, Zenon
<1>4. Len(cav) \in G
  BY <1>2, <1>3, RunInduction, Zenon
<1> QED
  BY <1>1, <1>4, Zenon

\* An attribute is there, with the metadata O.
Keeps(a, O, attrs) == \E i \in DOMAIN attrs : smartAttrMatch(a, attrs[i]) /\ O \subseteq attrs[i].md

\* The metadata that the request attribute does not name stays.
LEMMA StepMetadata ==
  ASSUME NEW acc, NEW ca \in ContextAttribute, NEW new, acc.attrs \in Seq(Attribute),
         NEW a, NEW O, Keeps(a, O, acc.attrs),
         smartAttrMatch(a, ca) => \A m \in O : ~hasMetadata(m, ca),
         Skipped(acc, new) \/ Updates(acc, ca, new) \/ Appends(acc, ca, new)
  PROVE  Keeps(a, O, new.attrs)
<1>0. PICK attrs \in Seq(Attribute) : attrs = acc.attrs
  BY Zenon
<1>1. PICK d : attrs = acc.attrs /\ d = new.attrs
  BY <1>0, Zenon
<1>2. PICK i \in DOMAIN attrs : smartAttrMatch(a, attrs[i]) /\ O \subseteq attrs[i].md
  BY <1>1, Zenon DEF Keeps
<1>3. CASE Skipped(acc, new)
  BY <1>3, Zenon DEF Skipped
<1>4. CASE Updates(acc, ca, new)
  <2>1. d = updateAttribute(attrs, ca)
    BY <1>1, <1>4, Zenon DEF Updates
  <2>2. DOMAIN d = DOMAIN attrs /\ UpdatedTo(attrs[i], ca, d[i])
    BY <2>1, UpdateElements, Zenon
  <2>3. smartAttrMatch(a, d[i])
    BY <1>2, <2>2, Zenon DEF UpdatedTo, smartAttrMatch
  <2>4. O \subseteq d[i].md
    <3>1. CASE smartAttrMatch(attrs[i], ca)
      <4>1. \A m \in O : m \in attrs[i].md /\ ~hasMetadata(m, ca)
        BY <1>2, <3>1, Zenon DEF smartAttrMatch
      <4>2. d[i].md = MergedMetadata(attrs[i], ca)
        BY <2>2, <3>1, Zenon DEF UpdatedTo
      <4> QED
        BY <4>1, <4>2, Zenon DEF MergedMetadata
    <3>2. CASE ~smartAttrMatch(attrs[i], ca)
      BY <1>2, <2>2, <3>2, Zenon DEF UpdatedTo
    <3> QED
      BY <3>1, <3>2, Zenon
  <2> QED
    BY <1>1, <2>2, <2>3, <2>4, Zenon DEF Keeps
<1>5. CASE Appends(acc, ca, new)
  <2>1. d = Append(attrs, NewAttr(ca))
    BY <1>1, <1>5, Zenon DEF Appends
  <2>2. PICK x : x = NewAttr(ca)
    BY Zenon
  <2>3. i \in DOMAIN d /\ d[i] = attrs[i]
    BY <2>1, <2>2, AppendElements
  <2> QED
    BY <1>1, <1>2, <2>3, Zenon DEF Keeps
<1> QED
  BY <1>3, <1>4, <1>5, Zenon

\* The metadata that the request does not name stays.
LEMMA RunMetadata ==
  ASSUME NEW action \in Action, NEW doc, NEW cav \in Seq(ContextAttribute), NEW f, Runs(f, action, doc, cav),
         action # "delete", NEW a, NEW O, Keeps(a, O, doc.attrs),
         \A i \in DOMAIN cav : smartAttrMatch(a, cav[i]) => \A m \in O : ~hasMetadata(m, cav[i])
  PROVE  Keeps(a, O, f[Len(cav)].attrs)
<1>1. PICK G : G = {n \in 0 .. Len(cav) : Keeps(a, O, f[n].attrs)}
  BY Zenon
<1>2. 0 \in G
  <2>1. 0 \in 0 .. Len(cav)
    BY LenProperties
  <2> QED
    BY <1>1, <2>1, Zenon DEF Runs
<1>3. ASSUME NEW n \in 1 .. Len(cav), n - 1 \in G PROVE n \in G
  <2>1. Keeps(a, O, f[n - 1].attrs)
    BY <1>1, <1>3, Zenon
  <2>2. /\ n \in 0 .. Len(cav) /\ f[n - 1].attrs \in Seq(Attribute) /\ cav[n] \in ContextAttribute
        /\ Skipped(f[n - 1], f[n]) \/ Updates(f[n - 1], cav[n], f[n]) \/ Appends(f[n - 1], cav[n], f[n])
    BY RunStep, Zenon
  <2>3. n \in DOMAIN cav
    BY LenProperties, Zenon
  <2>4. Keeps(a, O, f[n].attrs)
    BY <2>1, <2>2, <2>3, StepMetadata, Zenon
  <2> QED
    BY <1>1, <2>2, <2>4, Zenon
<1>4. Len(cav) \in G
  BY <1>2, <1>3, RunInduction, Zenon
<1> QED
  BY <1>1, <1>4, Zenon

\* An attribute of the name n with ID v has the value w; there is one with ID v.
HasValue(attrs, n, v, w) ==
  \E i \in DOMAIN attrs : attrs[i].name = n /\ attrs[i].id = v /\ attrs[i].value = w

HasId(attrs, n, v) == \E i \in DOMAIN attrs : attrs[i].name = n /\ attrs[i].id = v

\* Without a trigger UPDATE and APPEND change no value.
LEMMA StepValues ==
  ASSUME NEW acc, NEW ca \in ContextAttribute, NEW new, acc.attrs \in Seq(Attribute),
         NEW n, n \notin new.triggered, NEW v, NEW w,
         Updates(acc, ca, new) \/ Appends(acc, ca, new)
  PROVE  /\ HasValue(new.attrs, n, v, w) <=> HasValue(acc.attrs, n, v, w)
         /\ n \notin acc.triggered
<1>0. PICK attrs \in Seq(Attribute) : attrs = acc.attrs
  BY Zenon
<1>1. PICK d : attrs = acc.attrs /\ d = new.attrs
  BY <1>0, Zenon
<1>2. CASE Updates(acc, ca, new)
  <2>1. d = updateAttribute(attrs, ca) /\ (Changed(attrs, ca) => ca.name \in new.triggered)
    BY <1>1, <1>2, Zenon DEF Updates
  <2>2. DOMAIN d = DOMAIN attrs /\ \A i \in DOMAIN attrs : UpdatedTo(attrs[i], ca, d[i])
    BY <2>1, UpdateElements, Zenon
  <2>3. ASSUME NEW i \in DOMAIN attrs, attrs[i].name = n PROVE d[i].value = attrs[i].value
    <3>1. CASE smartAttrMatch(attrs[i], ca)
      <4>1. ca.name = n
        BY <2>3, <3>1, Zenon DEF smartAttrMatch
      <4>2. ~actualUpdate(attrs[i], ca)
        BY <2>1, <4>1, Zenon DEF Changed
      <4>3. attrs[i].value = ca.value
        BY <3>1, <4>2, Zenon DEF actualUpdate
      <4> QED
        BY <2>2, <3>1, <4>3, Zenon DEF UpdatedTo
    <3>2. CASE ~smartAttrMatch(attrs[i], ca)
      BY <2>2, <3>2, Zenon DEF UpdatedTo
    <3> QED
      BY <3>1, <3>2, Zenon
  <2>4. \A i \in DOMAIN attrs : d[i].name = attrs[i].name /\ d[i].id = attrs[i].id
    BY <2>2, Zenon DEF UpdatedTo
  <2>5. HasValue(d, n, v, w) <=> HasValue(attrs, n, v, w)
    BY <2>2, <2>3, <2>4, Zenon DEF HasValue
  <2>6. n \notin acc.triggered
    BY <1>2, Zenon DEF Updates
  <2> QED
    BY <1>1, <2>5, <2>6, Zenon
<1>3. CASE Appends(acc, ca, new)
  <2>1. d = Append(attrs, NewAttr(ca)) /\ n # ca.name /\ n \notin acc.triggered
    BY <1>1, <1>3, Zenon DEF Appends
  <2>2. PICK l, x : l = Len(attrs) + 1 /\ x = NewAttr(ca)
    BY Zenon
  <2>3. DOMAIN d = DOMAIN attrs \cup {l} /\ d[l] = x /\ \A i \in DOMAIN attrs : d[i] = attrs[i]
    BY <2>1, <2>2, AppendElements
  <2>4. x.name # n
    BY <2>1, <2>2, Zenon DEF NewAttr
  <2>5. HasValue(d, n, v, w) <=> HasValue(attrs, n, v, w)
    BY <2>3, <2>4, Zenon DEF HasValue
  <2> QED
    BY <1>1, <2>1, <2>5, Zenon
<1> QED
  BY <1>2, <1>3, Zenon

\* Without a trigger DELETE takes no attribute away.
LEMMA StepDeleted ==
  ASSUME NEW acc, NEW ca \in ContextAttribute, NEW new, acc.attrs \in Seq(Attribute),
         NEW n, n \notin new.triggered, n # "", NEW v, Deletes(acc, ca, new)
  PROVE  /\ HasId(new.attrs, n, v) <=> HasId(acc.attrs, n, v)
         /\ n \notin acc.triggered
<1>0. PICK attrs \in Seq(Attribute) : attrs = acc.attrs
  BY Zenon
<1>1. PICK d : attrs = acc.attrs /\ d = new.attrs
  BY <1>0, Zenon
<1>2. d = deleteAttribute(attrs, ca) /\ Found(attrs, ca) /\ n # ca.name /\ n \notin acc.triggered
  BY <1>1, Zenon DEF Deletes
<1>3. Blank.name = ""
  BY Zenon DEF Blank
<1>4. \A j \in DOMAIN d : d[j] = Blank \/ \E i \in DOMAIN attrs : KeptAs(attrs[i], d[j])
  BY <1>2, DeleteElements, Zenon
<1>5. \A i \in DOMAIN attrs : ~smartAttrMatch(attrs[i], ca) => \E j \in DOMAIN d : KeptAs(attrs[i], d[j])
  BY <1>2, DeleteElements, Zenon
<1>6. ASSUME HasId(d, n, v) PROVE HasId(attrs, n, v)
  <2>1. PICK j \in DOMAIN d : d[j].name = n /\ d[j].id = v
    BY <1>6, Zenon DEF HasId
  <2>2. PICK i \in DOMAIN attrs : KeptAs(attrs[i], d[j])
    BY <1>3, <1>4, <2>1, Zenon
  <2> QED
    BY <2>1, <2>2, Zenon DEF KeptAs, HasId
<1>7. ASSUME HasId(attrs, n, v) PROVE HasId(d, n, v)
  <2>1. PICK i \in DOMAIN attrs : attrs[i].name = n /\ attrs[i].id = v
    BY <1>7, Zenon DEF HasId
  <2>2. PICK j \in DOMAIN d : KeptAs(attrs[i], d[j])
    BY <1>2, <1>5, <2>1, Zenon DEF smartAttrMatch
  <2> QED
    BY <2>1, <2>2, Zenon DEF KeptAs, HasId
<1> QED
  BY <1>1, <1>2, <1>6, <1>7, Zenon

\* The results of a run begin with the one before the first attribute.
LEMMA ZeroInRange ==
  ASSUME NEW cav \in Seq(ContextAttribute)
  PROVE  0 \in 0 .. Len(cav)
BY LenProperties

\* The values of a name that triggers nothing are those of the document.
LEMMA RunValues ==
  ASSUME NEW action \in Action, NEW doc, NEW cav \in Seq(ContextAttribute), NEW f, Runs(f, action, doc, cav),
         f[Len(cav)].code = "ok", NEW n, n # "", n \notin f[Len(cav)].triggered, NEW v, NEW w
  PROVE  /\ action # "delete" => (HasValue(f[Len(cav)].attrs, n, v, w) <=> HasValue(doc.attrs, n, v, w))
         /\ action = "delete" => (HasId(f[Len(cav)].attrs, n, v) <=> HasId(doc.attrs, n, v))
<1> DEFINE Same(attrs) == /\ action # "delete" => (HasValue(attrs, n, v, w) <=> HasValue(doc.attrs, n, v, w))
                          /\ action = "delete" => (HasId(attrs, n, v) <=> HasId(doc.attrs, n, v))
<1>1. PICK G : G = {i \in 0 .. Len(cav) : f[i].code = "ok" /\ n \notin f[i].triggered => Same(f[i].attrs)}
  BY Zenon
<1>2. 0 \in G
  <2>1. 0 \in 0 .. Len(cav)
    BY ZeroInRange, Zenon
  <2>2. f[0].attrs = doc.attrs
    BY Zenon DEF Runs
  <2>3. Same(f[0].attrs)
    BY <2>2, Zenon
  <2> HIDE DEF Same
  <2> QED
    BY <1>1, <2>1, <2>3, Zenon
<1>3. ASSUME NEW i \in 1 .. Len(cav), i - 1 \in G PROVE i \in G
  <2>0. cav[i] \in ContextAttribute
    BY RunStep, Zenon
  <2>1. PICK acc, new, ca : acc = f[i - 1] /\ new = f[i] /\ ca = cav[i] /\ ca \in ContextAttribute
    BY <2>0, Zenon
  <2>2. /\ i \in 0 .. Len(cav) /\ acc.attrs \in Seq(Attribute)
        /\ \/ Skipped(acc, new)
           \/ action # "delete" /\ Updates(acc, ca, new)
           \/ action = "append" /\ Appends(acc, ca, new)
           \/ action = "delete" /\ Deletes(acc, ca, new)
    <3>1. /\ i \in 0 .. Len(cav) /\ f[i - 1].attrs \in Seq(Attribute)
          /\ \/ Skipped(f[i - 1], f[i])
             \/ action # "delete" /\ Updates(f[i - 1], cav[i], f[i])
             \/ action = "append" /\ Appends(f[i - 1], cav[i], f[i])
             \/ action = "delete" /\ Deletes(f[i - 1], cav[i], f[i])
      BY RunStep, Zenon
    <3> QED
      BY <2>1, <3>1, Zenon
  <2>3. ASSUME new.code = "ok", n \notin new.triggered PROVE Same(new.attrs)
    <3>1. CASE action # "delete"
      <4>1. Updates(acc, ca, new) \/ Appends(acc, ca, new)
        BY <2>2, <2>3, <3>1, Zenon DEF Skipped
      <4>2. (HasValue(new.attrs, n, v, w) <=> HasValue(acc.attrs, n, v, w)) /\ n \notin acc.triggered
        BY <2>1, <2>2, <2>3, <4>1, StepValues, ZenonT(30)
      <4>3. acc.code = "ok"
        BY <4>1, Zenon DEF Updates, Appends
      <4>4. Same(acc.attrs)
        <5> HIDE DEF Same
        <5> QED
          BY <1>1, <1>3, <2>1, <4>2, <4>3, ZenonT(30)
      <4> QED
        BY <3>1, <4>2, <4>4, Zenon
    <3>2. CASE action = "delete"
      <4>1. Deletes(acc, ca, new)
        BY <2>2, <2>3, <3>2, Zenon DEF Skipped
      <4>2. (HasId(new.attrs, n, v) <=> HasId(acc.attrs, n, v)) /\ n \notin acc.triggered
        BY <2>1, <2>2, <2>3, <4>1, StepDeleted, ZenonT(30)
      <4>3. acc.code = "ok"
        BY <4>1, Zenon DEF Deletes
      <4>4. Same(acc.attrs)
        <5> HIDE DEF Same
        <5> QED
          BY <1>1, <1>3, <2>1, <4>2, <4>3, Zenon
      <4> QED
        BY <3>2, <4>2, <4>4, Zenon
    <3> QED
      BY <3>1, <3>2, Zenon
  <2> HIDE DEF Same
  <2> QED
    BY <1>1, <2>1, <2>2, <2>3, Zenon
<1> HIDE DEF Same
<1>4. Len(cav) \in G
  BY <1>2, <1>3, RunInduction, Zenon
<1>5. Same(f[Len(cav)].attrs)
  BY <1>1, <1>4, Zenon
<1> QED
  BY <1>5, Zenon DEF Same

\* An attribute has the value, the type and the metadata with a type of ca; one of attrs has.
HoldsIn(a, ca) ==
  /\ smartAttrMatch(a, ca)
  /\ a.value = ca.value
  /\ ca.type # "" => a.type = ca.type
  /\ \A m \in ca.md : m.type # "" => m \in a.md

HasHeld(attrs, ca) == \E i \in DOMAIN attrs : HoldsIn(attrs[i], ca)

\* Metadata with a type is stored as it is.
LEMMA MetadataStored ==
  ASSUME NEW attr, NEW ca \in ContextAttribute, NEW m \in ca.md, m.type # ""
  PROVE  m \in MergedMetadata(attr, ca)
<1>1. PICK b : b = ""
  BY Zenon
<1>2. m \in [name : STRING, type : STRING, value : STRING]
  BY Zenon DEF ContextAttribute
<1>3. m.type # b
  BY <1>1, Zenon
<1>4. [m EXCEPT !.type = IF @ = b THEN NoType ELSE @] = m
  BY ONLY <1>2, <1>3, Zenon
<1>5. [m EXCEPT !.type = IF @ = "" THEN NoType ELSE @] = m
  BY <1>1, <1>4, Zenon
<1>6. m \in RequestMetadata(ca)
  BY <1>5, Zenon DEF RequestMetadata
<1> QED
  BY <1>6, Zenon DEF MergedMetadata

\* UPDATE and APPEND store their attribute.
LEMMA StepStores ==
  ASSUME NEW acc, NEW ca \in ContextAttribute, NEW new, acc.attrs \in Seq(Attribute),
         Updates(acc, ca, new) \/ Appends(acc, ca, new)
  PROVE  HasHeld(new.attrs, ca)
<1>0. PICK attrs \in Seq(Attribute) : attrs = acc.attrs
  BY Zenon
<1>1. PICK d : attrs = acc.attrs /\ d = new.attrs
  BY <1>0, Zenon
<1>2. CASE Updates(acc, ca, new)
  <2>1. d = updateAttribute(attrs, ca) /\ Found(attrs, ca)
    BY <1>1, <1>2, Zenon DEF Updates
  <2>2. PICK i \in DOMAIN attrs : smartAttrMatch(attrs[i], ca)
    BY <2>1, Zenon DEF Found
  <2>3. DOMAIN d = DOMAIN attrs /\ UpdatedTo(attrs[i], ca, d[i])
    BY <2>1, UpdateElements, Zenon
  <2>4. /\ d[i].name = attrs[i].name /\ d[i].id = attrs[i].id /\ d[i].value = ca.value
        /\ d[i].type = (IF ca.type = "" THEN attrs[i].type ELSE ca.type)
        /\ d[i].md = MergedMetadata(attrs[i], ca)
    BY <2>2, <2>3, Zenon DEF UpdatedTo
  <2>5. smartAttrMatch(d[i], ca)
    BY <2>2, <2>4, Zenon DEF smartAttrMatch
  <2>6. \A m \in ca.md : m.type # "" => m \in d[i].md
    BY <2>4, MetadataStored, Zenon
  <2>7. HoldsIn(d[i], ca)
    BY <2>4, <2>5, <2>6, Zenon DEF HoldsIn
  <2> QED
    BY <1>1, <2>3, <2>7, Zenon DEF HasHeld
<1>3. CASE Appends(acc, ca, new)
  <2>1. d = Append(attrs, NewAttr(ca))
    BY <1>1, <1>3, Zenon DEF Appends
  <2>2. PICK l, x : l = Len(attrs) + 1 /\ x = NewAttr(ca)
    BY Zenon
  <2>3. l \in DOMAIN d /\ d[l] = x
    BY <2>1, <2>2, AppendElements, ZenonT(30)
  <2>4. HoldsIn(x, ca)
    BY <2>2, Zenon DEF HoldsIn, NewAttr, smartAttrMatch, contextAttributeCustomMetadataToBson
  <2> QED
    BY <1>1, <2>3, <2>4, Zenon DEF HasHeld
<1> QED
  BY <1>2, <1>3, Zenon

\* A later attribute that does not match leaves it.
LEMMA StepHolds ==
  ASSUME NEW acc, NEW ca \in ContextAttribute, NEW new, acc.attrs \in Seq(Attribute),
         NEW cb, HasHeld(acc.attrs, cb), ~smartAttrMatch(ca, cb),
         Updates(acc, ca, new) \/ Appends(acc, ca, new)
  PROVE  HasHeld(new.attrs, cb)
<1>1. PICK i \in DOMAIN acc.attrs : HoldsIn(acc.attrs[i], cb)
  BY Zenon DEF HasHeld
<1>2. PICK a : a = acc.attrs[i]
  BY Zenon
<1>3. In(a, acc.attrs)
  BY <1>2, Zenon DEF In
<1>4. ~smartAttrMatch(a, ca)
  BY <1>1, <1>2, Zenon DEF HoldsIn, smartAttrMatch
<1>5. In(a, new.attrs)
  BY <1>3, <1>4, StepOthers, Zenon
<1> QED
  BY <1>1, <1>2, <1>5, Zenon DEF In, HasHeld

\* No later attribute of the request is for the same attribute as the j-th.
IsFinal(cav, j) == \A l \in j + 1 .. Len(cav) : ~smartAttrMatch(cav[l], cav[j])

\* The attributes of the request that no later one overwrites are there in the end.
LEMMA RunHolds ==
  ASSUME NEW action \in Action, NEW doc, NEW cav \in Seq(ContextAttribute), NEW f, Runs(f, action, doc, cav),
         action # "delete", f[Len(cav)].code = "ok", NEW j \in DOMAIN cav, IsFinal(cav, j)
  PROVE  HasHeld(f[Len(cav)].attrs, cav[j])
<1>0. j \in 1 .. Len(cav) /\ Len(cav) \in Nat
  BY LenProperties, Zenon
<1>1. PICK G : G = {n \in 0 .. Len(cav) : n >= j /\ f[n].code = "ok" => HasHeld(f[n].attrs, cav[j])}
  BY Zenon
<1>2. 0 \in G
  <2>1. 0 \in 0 .. Len(cav) /\ ~(0 >= j)
    BY <1>0
  <2> QED
    BY <1>1, <2>1, Zenon
<1>3. ASSUME NEW n \in 1 .. Len(cav), n - 1 \in G PROVE n \in G
  <2>2. /\ n \in 0 .. Len(cav) /\ f[n - 1].attrs \in Seq(Attribute) /\ cav[n] \in ContextAttribute
        /\ \/ Skipped(f[n - 1], f[n])
           \/ action # "delete" /\ Updates(f[n - 1], cav[n], f[n])
           \/ action = "append" /\ Appends(f[n - 1], cav[n], f[n])
           \/ action = "delete" /\ Deletes(f[n - 1], cav[n], f[n])
    BY RunStep, Zenon
  <2>3. ASSUME n >= j, f[n].code = "ok" PROVE HasHeld(f[n].attrs, cav[j])
    <3>1. Updates(f[n - 1], cav[n], f[n]) \/ Appends(f[n - 1], cav[n], f[n])
      BY <2>2, <2>3, Zenon DEF Skipped
    <3>2. CASE n = j
      <4>1. HasHeld(f[n].attrs, cav[n])
        BY <2>2, <3>1, StepStores, Zenon
      <4> QED
        BY <3>2, <4>1, Zenon
    <3>3. CASE n # j
      <4>1. n - 1 >= j /\ n \in j + 1 .. Len(cav)
        BY <1>0, <2>3, <3>3
      <4>2. ~smartAttrMatch(cav[n], cav[j])
        BY <4>1, Zenon DEF IsFinal
      <4>3. f[n - 1].code = "ok"
        BY <3>1, Zenon DEF Updates, Appends
      <4>4. HasHeld(f[n - 1].attrs, cav[j])
        BY <1>1, <1>3, <4>1, <4>3, Zenon
      <4> QED
        BY <2>2, <3>1, <4>2, <4>4, StepHolds, ZenonT(30)
    <3> QED
      BY <3>2, <3>3, Zenon
  <2> QED
    BY <1>1, <2>2, <2>3, Zenon
<1>4. Len(cav) \in G
  BY <1>2, <1>3, RunInduction, Zenon
<1>5. Len(cav) >= j
  BY <1>0
<1> QED
  BY <1>1, <1>4, <1>5, Zenon

\* A new attribute has what the request says.
LEMMA NewAttrHolds ==
  ASSUME NEW ca, NEW x, x = NewAttr(ca)
  PROVE  HoldsIn(x, ca) /\ x.name = ca.name /\ x.id = ca.id /\ x.type = ca.type
  BY Zenon DEF HoldsIn, NewAttr, smartAttrMatch, contextAttributeCustomMetadataToBson

\* The attributes of a new entity.
LEMMA NewElements ==
  ASSUME NEW cav \in Seq(ContextAttribute)
  PROVE  /\ DOMAIN NewEntity(cav).attrs = DOMAIN cav
         /\ \A i \in DOMAIN cav : /\ NewEntity(cav).attrs[i] = NewAttr(cav[i])
                                  /\ HoldsIn(NewEntity(cav).attrs[i], cav[i])
                                  /\ NewEntity(cav).attrs[i].name # ""
<1>1. PICK d : d = [i \in DOMAIN cav |-> NewAttr(cav[i])]
  BY Zenon
<1>2. NewEntity(cav).attrs = d
  BY <1>1, Zenon DEF NewEntity
<1>3. ASSUME NEW i \in DOMAIN cav PROVE d[i] = NewAttr(cav[i]) /\ HoldsIn(d[i], cav[i]) /\ d[i].name # ""
  <2>1. cav[i] \in ContextAttribute
    BY LenProperties, ElementOfSeq, Zenon
  <2>2. d[i] = NewAttr(cav[i])
    BY <1>1, Zenon
  <2>3. HoldsIn(d[i], cav[i])
    BY <2>2, NewAttrHolds, Zenon
  <2>4. d[i].name # ""
    <3>1. d[i].name = cav[i].name
      BY <2>2, NewAttrHolds, Zenon
    <3>2. cav[i].name # ""
      BY <2>1, Zenon DEF ContextAttribute
    <3> QED
      BY <3>1, <3>2, Zenon
  <2> QED
    BY <2>2, <2>3, <2>4, Zenon
<1>4. DOMAIN d = DOMAIN cav
  BY <1>1, Zenon
<1> QED
  BY <1>2, <1>3, <1>4, Zenon

\* A new entity mixes IDs only where the types differ.
LEMMA NewIds ==
  ASSUME NEW cav \in Seq(ContextAttribute), legalIdUsageOfNew(cav), NEW attrs, attrs = NewEntity(cav).attrs
  PROVE  /\ NamedIds(attrs)
         /\ \A i, j \in DOMAIN attrs : Mixed(attrs[i], attrs[j]) => attrs[i].type # attrs[j].type
<1>1. DOMAIN attrs = DOMAIN cav /\ \A i \in DOMAIN cav : attrs[i] = NewAttr(cav[i]) /\ attrs[i].name # ""
  BY NewElements, Zenon
<1>2. ASSUME NEW i \in DOMAIN cav, NEW j \in DOMAIN cav, Mixed(attrs[i], attrs[j])
      PROVE  attrs[i].type # attrs[j].type
  <2>1. \A k \in DOMAIN cav : attrs[k].name = cav[k].name /\ attrs[k].id = cav[k].id /\ attrs[k].type = cav[k].type
    BY <1>1, NewAttrHolds, Zenon
  <2> QED
    BY <1>2, <2>1, ZenonT(30) DEF Mixed, legalIdUsageOfNew
<1> QED
  BY <1>1, <1>2, ZenonT(30) DEF NamedIds

-----------------------------------------------------------------------------
(* Metadata.                                                               *)

\* The type of a metadata as it is read; two that a request cannot tell apart; a set
\* without such.
ReadType(m) == IF m.type = NoType THEN "" ELSE m.type

SameMetadata(x, y) == x.name = y.name /\ ReadType(x) = ReadType(y)

Once(M) == IsFiniteSet(M) /\ \A x, y \in M : SameMetadata(x, y) => x = y

\* The metadata of a request attribute, as checkAndUpdate stores it.
Stored(m) == [m EXCEPT !.type = IF @ = "" THEN NoType ELSE @]

\* A metadata is read back with its type.
LEMMA StoredSame ==
  ASSUME NEW m \in [name : STRING, type : STRING, value : STRING]
  PROVE  /\ Stored(m) \in StoredMetadata
         /\ Stored(m).name = m.name /\ Stored(m).value = m.value
         /\ ReadType(Stored(m)) = m.type /\ ReadType(m) = m.type
         /\ m.type # "" => Stored(m) = m
<1>1. m.type \in STRING /\ m.type # NoType
  BY NoTypeAssumption, Zenon
<1>2. PICK t : t = IF m.type = "" THEN NoType ELSE m.type
  BY Zenon
<1>3. PICK s : s = Stored(m) /\ s = [m EXCEPT !.type = t]
  BY <1>2, Zenon DEF Stored
<1>4. s.name = m.name /\ s.value = m.value /\ s.type = t
  BY <1>3, Zenon
<1>5. s \in StoredMetadata
  BY <1>1, <1>2, <1>3, Zenon DEF StoredMetadata
<1>6. ReadType(s) = m.type /\ ReadType(m) = m.type
  BY <1>1, <1>2, <1>4, Zenon DEF ReadType
<1>7. t = m.type => s = m
  BY ONLY <1>3, m \in [name : STRING, type : STRING, value : STRING], Zenon
<1>8. m.type # "" => s = m
  BY <1>2, <1>7, Zenon
<1> QED
  BY <1>3, <1>4, <1>5, <1>6, <1>8, ZenonT(30)

\* Which metadata a request names, and what is stored of it.
LEMMA NamedMetadata ==
  ASSUME NEW ca \in ContextAttribute
  PROVE  /\ ca.md \in SUBSET [name : STRING, type : STRING, value : STRING]
         /\ RequestMetadata(ca) = {Stored(m) : m \in ca.md}
         /\ \A m : hasMetadata(m, ca) <=> \E r \in ca.md : SameMetadata(r, m)
<1>1. ca.md \in SUBSET [name : STRING, type : STRING, value : STRING]
  BY Zenon DEF ContextAttribute
<1>2. \A r \in ca.md : ReadType(r) = r.type
  BY <1>1, StoredSame, Zenon
<1>3. \A m : hasMetadata(m, ca) <=> \E r \in ca.md : r.name = m.name /\ r.type = ReadType(m)
  BY Zenon DEF hasMetadata, ReadType
<1>4. \A m : hasMetadata(m, ca) <=> \E r \in ca.md : SameMetadata(r, m)
  BY <1>2, <1>3, Zenon DEF SameMetadata
<1>5. RequestMetadata(ca) = {Stored(m) : m \in ca.md}
  BY Zenon DEF RequestMetadata, Stored
<1> QED
  BY <1>1, <1>4, <1>5, Zenon

\* Every metadata of an attribute that is updated has its successor.
LEMMA MergedSuccessor ==
  ASSUME NEW attr, NEW ca \in ContextAttribute, NEW d \in attr.md
  PROVE  \E y \in MergedMetadata(attr, ca) : SameMetadata(d, y)
<1>1. CASE ~hasMetadata(d, ca)
  BY <1>1, Zenon DEF MergedMetadata, SameMetadata
<1>2. CASE hasMetadata(d, ca)
  <2>1. PICK r \in ca.md : SameMetadata(r, d)
    BY <1>2, NamedMetadata, Zenon
  <2>2. r \in [name : STRING, type : STRING, value : STRING]
    BY NamedMetadata, Zenon
  <2>3. PICK y : y = Stored(r)
    BY Zenon
  <2>4. y \in MergedMetadata(attr, ca)
    BY <2>3, NamedMetadata, Zenon DEF MergedMetadata
  <2>5. y.name = r.name /\ ReadType(y) = ReadType(r)
    BY <2>2, <2>3, StoredSame, Zenon
  <2> QED
    BY <2>1, <2>4, <2>5, Zenon DEF SameMetadata
<1> QED
  BY <1>1, <1>2, Zenon

\* An update does not double a metadata.
LEMMA MergedOnce ==
  ASSUME NEW attr, NEW ca \in ContextAttribute, Once(attr.md), Once(ca.md)
  PROVE  Once(MergedMetadata(attr, ca))
<1>1. PICK R, K : R = RequestMetadata(ca) /\ K = {m \in attr.md : ~hasMetadata(m, ca)}
  BY Zenon
<1>2. MergedMetadata(attr, ca) = R \cup K
  BY <1>1, Zenon DEF MergedMetadata
<1>3. IsFiniteSet(R)
  <2>1. PICK f : f = [m \in ca.md |-> Stored(m)]
    BY Zenon
  <2>2. f \in Surjection(ca.md, R)
    <3>1. R = {Stored(m) : m \in ca.md}
      BY <1>1, NamedMetadata, Zenon
    <3>2. f \in [ca.md -> R] /\ \A y \in R : \E m \in ca.md : f[m] = y
      BY <2>1, <3>1, Zenon
    <3> QED
      BY <3>2, Zenon DEF Surjection
  <2>3. IsFiniteSet(ca.md)
    BY Zenon DEF Once
  <2> QED
    BY <2>2, <2>3, FS_Surjection, Zenon
<1>4. IsFiniteSet(K)
  <2>1. IsFiniteSet(attr.md) /\ K \in SUBSET attr.md
    BY <1>1, Zenon DEF Once
  <2> QED
    BY <2>1, FS_Subset, Zenon
<1>5. IsFiniteSet(R \cup K)
  BY <1>3, <1>4, FS_Union, Zenon
<1>6. ASSUME NEW x \in R
      PROVE  \E r \in ca.md : x = Stored(r) /\ x.name = r.name /\ ReadType(x) = ReadType(r)
  <2>1. PICK r \in ca.md : x = Stored(r)
    BY <1>1, <1>6, NamedMetadata, Zenon
  <2>2. r \in [name : STRING, type : STRING, value : STRING]
    BY NamedMetadata, Zenon
  <2>3. x.name = r.name /\ ReadType(x) = ReadType(r)
    BY <2>1, <2>2, StoredSame, Zenon
  <2> QED
    BY <2>1, <2>3, Zenon
<1>7. ASSUME NEW x \in R, NEW y \in K PROVE ~SameMetadata(x, y) /\ ~SameMetadata(y, x)
  <2>1. PICK r \in ca.md : x.name = r.name /\ ReadType(x) = ReadType(r)
    BY <1>6, <1>7, Zenon
  <2>2. ~SameMetadata(r, y)
    BY <1>1, <1>7, <2>1, NamedMetadata, ZenonT(30)
  <2> QED
    BY <2>1, <2>2, Zenon DEF SameMetadata
<1>8. ASSUME NEW x \in R, NEW y \in R, SameMetadata(x, y) PROVE x = y
  <2>1. PICK r \in ca.md : x = Stored(r) /\ x.name = r.name /\ ReadType(x) = ReadType(r)
    BY <1>6, <1>8, Zenon
  <2>2. PICK q \in ca.md : y = Stored(q) /\ y.name = q.name /\ ReadType(y) = ReadType(q)
    BY <1>6, <1>8, Zenon
  <2>3. SameMetadata(r, q)
    BY <1>8, <2>1, <2>2, Zenon DEF SameMetadata
  <2>4. r = q
    BY <2>3, Zenon DEF Once
  <2> QED
    BY <2>1, <2>2, <2>4, ZenonT(30)
<1>9. ASSUME NEW x \in K, NEW y \in K, SameMetadata(x, y) PROVE x = y
  BY <1>1, <1>9, Zenon DEF Once
<1>10. \A x, y \in R \cup K : SameMetadata(x, y) => x = y
  BY <1>7, <1>8, <1>9, ZenonT(30)
<1> QED
  BY <1>2, <1>5, <1>10, Zenon DEF Once

\* When the number of metadata stays and none that match differ, those with a type were there.
LEMMA UnmodifiedMetadata ==
  ASSUME NEW attr \in Attribute, NEW ca \in ContextAttribute, Once(attr.md), Once(ca.md),
         Cardinality(MergedMetadata(attr, ca)) = Cardinality(attr.md),
         equalMetadataVectors(attr.md, MergedMetadata(attr, ca)),
         NEW m \in ca.md, m.type # ""
  PROVE  m \in attr.md
<1>1. PICK M, A : M = MergedMetadata(attr, ca) /\ A = attr.md
  BY Zenon
<1>2. Once(M) /\ Once(A) /\ Cardinality(M) = Cardinality(A) /\ m \in M
  BY <1>1, MergedOnce, MetadataStored, Zenon
<1>3. m \in [name : STRING, type : STRING, value : STRING] /\ ReadType(m) = m.type
  BY NamedMetadata, StoredSame, Zenon
<1>4. ASSUME NEW d \in A, SameMetadata(d, m) PROVE d = m
  <2>1. ReadType(d) = m.type
    BY <1>3, <1>4, Zenon DEF SameMetadata
  <2>2. d.type = m.type
    BY <2>1, Zenon DEF ReadType
  <2>3. d.value = m.value /\ d.name = m.name
    BY <1>1, <1>2, <1>4, <2>2, ZenonT(30) DEF SameMetadata, equalMetadataVectors, matchMetadata
  <2>4. PICK T : d \in [name : STRING, type : T, value : STRING]
    BY <1>1, <1>4, Zenon DEF Attribute, StoredMetadata
  <2> QED
    BY ONLY <1>3, <2>2, <2>3, <2>4
<1>5. ASSUME m \notin A PROVE FALSE
  <2>1. PICK h : h = [d \in A |-> CHOOSE y \in M : SameMetadata(d, y)]
    BY Zenon
  <2>2. \A d \in A : h[d] \in M /\ SameMetadata(d, h[d])
    BY <1>1, <2>1, MergedSuccessor, Zenon
  <2>3. \A d \in A : h[d] # m
    BY <1>4, <1>5, <2>2, Zenon
  <2>4. \A d, e \in A : h[d] = h[e] => d = e
    <3>1. ASSUME NEW d \in A, NEW e \in A, h[d] = h[e] PROVE SameMetadata(d, e)
      BY <2>2, <3>1, Zenon DEF SameMetadata
    <3> QED
      BY <1>2, <3>1, Zenon DEF Once
  <2>5. h \in Injection(A, M \ {m})
    <3>1. h \in [A -> M \ {m}]
      <4>1. \A d \in A : (CHOOSE y \in M : SameMetadata(d, y)) \in M \ {m}
        <5>1. \A d \in A : h[d] = CHOOSE y \in M : SameMetadata(d, y)
          BY <2>1, Zenon
        <5> QED
          BY <2>2, <2>3, <5>1, Zenon
      <4> QED
        BY <2>1, <4>1, Zenon
    <3>2. DOMAIN h = A
      BY <2>1, Zenon
    <3>3. IsInjective(h)
      BY <2>4, <3>2, Zenon DEF IsInjective
    <3> QED
      BY <3>1, <3>3, Zenon DEF Injection
  <2>6. IsFiniteSet(M) /\ IsFiniteSet(A)
    BY <1>2, Zenon DEF Once
  <2>7. IsFiniteSet(M \ {m}) /\ Cardinality(M \ {m}) = Cardinality(M) - 1
    BY <1>2, <2>6, FS_RemoveElement, ZenonT(30)
  <2>8. Cardinality(A) <= Cardinality(M \ {m}) /\ Cardinality(M) \in Nat
    BY <2>5, <2>6, <2>7, FS_Injection, FS_CardinalityType, ZenonT(30)
  <2> QED
    BY ONLY <1>2, <2>7, <2>8
<1> QED
  BY <1>1, <1>5, Zenon

\* No attribute has a metadata twice.
AllOnce(attrs) == \A i \in DOMAIN attrs : Once(attrs[i].md)

\* Without metadata there is none twice.
LEMMA EmptyOnce == Once({})
<1>1. IsFiniteSet({})
  BY FS_EmptySet, Zenon
<1> QED
  BY <1>1, Zenon DEF Once

\* One attribute of a request that has no metadata twice.
LEMMA StepOnce ==
  ASSUME NEW acc, NEW ca \in ContextAttribute, NEW new, acc.attrs \in Seq(Attribute), AllOnce(acc.attrs), Once(ca.md),
         Skipped(acc, new) \/ Updates(acc, ca, new) \/ Appends(acc, ca, new) \/ Deletes(acc, ca, new)
  PROVE  AllOnce(new.attrs)
<1>0. PICK attrs \in Seq(Attribute) : attrs = acc.attrs
  BY Zenon
<1>1. PICK d : attrs = acc.attrs /\ d = new.attrs
  BY <1>0, Zenon
<1>2. \A i \in DOMAIN attrs : Once(attrs[i].md)
  BY <1>1, Zenon DEF AllOnce
<1>3. CASE Skipped(acc, new)
  BY <1>3, Zenon DEF Skipped
<1>4. CASE Updates(acc, ca, new)
  <2>1. d = updateAttribute(attrs, ca)
    BY <1>1, <1>4, Zenon DEF Updates
  <2>2. DOMAIN d = DOMAIN attrs /\ \A i \in DOMAIN attrs : UpdatedTo(attrs[i], ca, d[i])
    BY <2>1, UpdateElements, Zenon
  <2>3. ASSUME NEW i \in DOMAIN attrs PROVE Once(d[i].md)
    <3>1. d[i] = attrs[i] \/ d[i].md = MergedMetadata(attrs[i], ca)
      BY <2>2, <2>3, Zenon DEF UpdatedTo
    <3>2. Once(MergedMetadata(attrs[i], ca))
      BY <1>2, <2>3, MergedOnce, Zenon
    <3> QED
      BY <1>2, <2>3, <3>1, <3>2, ZenonT(30)
  <2> QED
    BY <1>1, <2>2, <2>3, Zenon DEF AllOnce
<1>5. CASE Appends(acc, ca, new)
  <2>1. d = Append(attrs, NewAttr(ca))
    BY <1>1, <1>5, Zenon DEF Appends
  <2>2. PICK l, x : l = Len(attrs) + 1 /\ x = NewAttr(ca)
    BY Zenon
  <2>3. DOMAIN d = DOMAIN attrs \cup {l} /\ d[l] = x /\ \A i \in DOMAIN attrs : d[i] = attrs[i]
    BY <2>1, <2>2, AppendElements
  <2>4. x.md = ca.md
    BY <2>2, Zenon DEF NewAttr, contextAttributeCustomMetadataToBson
  <2> QED
    BY <1>1, <1>2, <2>3, <2>4, Zenon DEF AllOnce
<1>6. CASE Deletes(acc, ca, new)
  <2>1. d = deleteAttribute(attrs, ca) /\ Found(attrs, ca)
    BY <1>1, <1>6, Zenon DEF Deletes
  <2>2. Blank.md = {}
    BY Zenon DEF Blank
  <2>3. \A j \in DOMAIN d : d[j] = Blank \/ \E i \in DOMAIN attrs : KeptAs(attrs[i], d[j])
    BY <2>1, DeleteElements, Zenon
  <2>4. \A j \in DOMAIN d : d[j].md = {} \/ \E i \in DOMAIN attrs : d[j].md = attrs[i].md
    BY <2>2, <2>3, Zenon DEF KeptAs
  <2> QED
    BY <1>1, <1>2, <2>4, EmptyOnce, ZenonT(30) DEF AllOnce
<1> QED
  BY <1>3, <1>4, <1>5, <1>6, ZenonT(30)

\* A request does not double a metadata.
LEMMA RunOnce ==
  ASSUME NEW action \in Action, NEW doc, NEW cav \in Seq(ContextAttribute), NEW f, Runs(f, action, doc, cav),
         AllOnce(doc.attrs), AllOnce(cav)
  PROVE  \A n \in 0 .. Len(cav) : AllOnce(f[n].attrs)
<1>1. PICK G : G = {n \in 0 .. Len(cav) : \A l \in 0 .. n : AllOnce(f[l].attrs)}
  BY Zenon
<1>2. 0 \in G
  <2>1. 0 \in 0 .. Len(cav) /\ \A l \in 0 .. 0 : l = 0
    BY LenProperties
  <2>2. f[0].attrs = doc.attrs
    BY Zenon DEF Runs
  <2> QED
    BY <1>1, <2>1, <2>2, Zenon
<1>3. ASSUME NEW n \in 1 .. Len(cav), n - 1 \in G PROVE n \in G
  <2>1. \A l \in 0 .. n - 1 : AllOnce(f[l].attrs)
    BY <1>1, <1>3, Zenon
  <2>2. /\ n \in 0 .. Len(cav) /\ f[n - 1].attrs \in Seq(Attribute) /\ cav[n] \in ContextAttribute
        /\ \/ Skipped(f[n - 1], f[n]) \/ Updates(f[n - 1], cav[n], f[n])
           \/ Appends(f[n - 1], cav[n], f[n]) \/ Deletes(f[n - 1], cav[n], f[n])
    BY RunStep, Zenon
  <2>3. n \in DOMAIN cav
    BY LenProperties, Zenon
  <2>4. n - 1 \in 0 .. n - 1 /\ \A l \in 0 .. n : l \in 0 .. n - 1 \/ l = n
    BY <2>2
  <2>5. AllOnce(f[n - 1].attrs) /\ Once(cav[n].md)
    BY <2>1, <2>3, <2>4, Zenon DEF AllOnce
  <2>6. AllOnce(f[n].attrs)
    BY <2>2, <2>5, StepOnce, Zenon
  <2> QED
    BY <1>1, <2>1, <2>2, <2>4, <2>6, ZenonT(30)
<1>4. Len(cav) \in G
  BY <1>2, <1>3, RunInduction, Zenon
<1> QED
  BY <1>1, <1>4, Zenon

\* Two attributes with the same name, ID, value and type, and the same metadata with a type.
Alike(a, c) ==
  /\ a.name = c.name /\ a.id = c.id /\ a.value = c.value /\ a.type = c.type
  /\ \A m : m.type \in STRING \ {""} => (m \in a.md <=> m \in c.md)

AllAlike(attrs, d) == DOMAIN attrs = DOMAIN d /\ \A i \in DOMAIN attrs : Alike(attrs[i], d[i])

\* An update without the flag actualUpdate leaves an attribute like it was, which holds
\* what the request asks for.
LEMMA UpdateUnmodified ==
  ASSUME NEW attr \in Attribute, NEW ca \in ContextAttribute, Once(attr.md), Once(ca.md),
         NEW c, UpdatedTo(attr, ca, c), ~actualUpdate(attr, ca)
  PROVE  Alike(attr, c) /\ (smartAttrMatch(attr, ca) => HoldsIn(attr, ca))
<1>1. CASE ~smartAttrMatch(attr, ca)
  <2>1. c = attr
    BY <1>1, Zenon DEF UpdatedTo
  <2> QED
    BY <1>1, <2>1, Zenon DEF Alike
<1>2. CASE smartAttrMatch(attr, ca)
  <2>1. PICK M : M = MergedMetadata(attr, ca)
    BY Zenon
  <2>2. /\ attr.value = ca.value /\ (ca.type # "" => attr.type = ca.type)
        /\ Cardinality(M) = Cardinality(attr.md) /\ equalMetadataVectors(attr.md, M)
    BY <1>2, <2>1, Zenon DEF actualUpdate
  <2>3. /\ c.name = attr.name /\ c.id = attr.id /\ c.value = ca.value /\ c.md = M
        /\ c.type = (IF ca.type = "" THEN attr.type ELSE ca.type)
    BY <1>2, <2>1, Zenon DEF UpdatedTo
  <2>4. c.type = attr.type
    BY <2>2, <2>3, Zenon
  <2>5. \A m \in ca.md : m.type # "" => m \in attr.md
    BY <2>1, <2>2, UnmodifiedMetadata, Zenon
  <2>6. HoldsIn(attr, ca)
    BY <1>2, <2>2, <2>5, Zenon DEF HoldsIn
  <2>7. ASSUME NEW m, m.type \in STRING \ {""}, m \in M PROVE m \in attr.md
    <3>1. CASE m \in attr.md
      BY <3>1, Zenon
    <3>2. CASE m \in RequestMetadata(ca)
      <4>1. PICK r \in ca.md : m = Stored(r)
        BY <3>2, NamedMetadata, Zenon
      <4>2. r \in [name : STRING, type : STRING, value : STRING]
        BY NamedMetadata, Zenon
      <4>3. ReadType(m) = r.type /\ (r.type # "" => m = r)
        BY <4>1, <4>2, StoredSame, ZenonT(30)
      <4>4. ReadType(m) = m.type /\ m.type # ""
        BY <2>7, NoTypeAssumption, Zenon DEF ReadType
      <4> QED
        BY <2>5, <4>3, <4>4, ZenonT(30)
    <3> QED
      BY <2>1, <2>7, <3>1, <3>2, ZenonT(30) DEF MergedMetadata
  <2>8. ASSUME NEW m, m.type \in STRING \ {""}, m \in attr.md PROVE m \in M
    <3>1. CASE ~hasMetadata(m, ca)
      BY <2>1, <2>8, <3>1, ZenonT(30) DEF MergedMetadata
    <3>2. CASE hasMetadata(m, ca)
      <4>1. PICK r \in ca.md : SameMetadata(r, m)
        BY <3>2, NamedMetadata, ZenonT(30)
      <4>2. r \in [name : STRING, type : STRING, value : STRING]
        BY NamedMetadata, Zenon
      <4>3. ReadType(m) = m.type /\ m.type # ""
        BY <2>8, NoTypeAssumption, Zenon DEF ReadType
      <4>4. r.type = m.type /\ r.name = m.name
        <5>1. ReadType(r) = r.type
          BY <4>2, StoredSame, Zenon
        <5> QED
          BY <4>1, <4>3, <5>1, ZenonT(30) DEF SameMetadata
      <4>5. r \in attr.md /\ r \in M
        BY <2>1, <2>5, <4>3, <4>4, MetadataStored, ZenonT(30)
      <4>6. SameMetadata(r, m) => r = m
        BY <2>8, <4>5, Zenon DEF Once
      <4> QED
        BY <4>1, <4>5, <4>6, ZenonT(30)
    <3> QED
      BY <3>1, <3>2, Zenon
  <2>9. Alike(attr, c)
    BY <2>2, <2>3, <2>4, <2>7, <2>8, ZenonT(30) DEF Alike
  <2> QED
    BY <2>6, <2>9, Zenon
<1> QED
  BY <1>1, <1>2, Zenon

\* A run that does not set the flag leaves the attributes like they were.
LEMMA RunUnmodified ==
  ASSUME NEW action \in Action, NEW doc, NEW cav \in Seq(ContextAttribute), NEW f, Runs(f, action, doc, cav),
         AllOnce(doc.attrs), AllOnce(cav), action # "delete",
         f[Len(cav)].code = "ok", ~f[Len(cav)].modified
  PROVE  AllAlike(doc.attrs, f[Len(cav)].attrs)
<1>1. PICK G : G = {n \in 0 .. Len(cav) : f[n].code = "ok" /\ ~f[n].modified => AllAlike(doc.attrs, f[n].attrs)}
  BY Zenon
<1>2. 0 \in G
  <2>1. 0 \in 0 .. Len(cav)
    BY LenProperties
  <2>2. f[0].attrs = doc.attrs
    BY Zenon DEF Runs
  <2> QED
    BY <1>1, <2>1, <2>2, ZenonT(30) DEF AllAlike, Alike
<1>3. ASSUME NEW n \in 1 .. Len(cav), n - 1 \in G PROVE n \in G
  <2>1. PICK acc, new, ca : acc = f[n - 1] /\ new = f[n] /\ ca = cav[n]
    BY Zenon
  <2>2. /\ n \in 0 .. Len(cav) /\ n - 1 \in 0 .. Len(cav) /\ acc.attrs \in Seq(Attribute) /\ ca \in ContextAttribute
        /\ \/ Skipped(acc, new) \/ Updates(acc, ca, new)
           \/ Appends(acc, ca, new) \/ action = "delete"
    BY <2>1, RunStep, Zenon
  <2>3. Once(ca.md) /\ AllOnce(acc.attrs)
    <3>1. n \in DOMAIN cav
      BY LenProperties, Zenon
    <3>2. AllOnce(f[n - 1].attrs)
      BY <2>2, RunOnce, Zenon
    <3> QED
      BY <2>1, <3>1, <3>2, Zenon DEF AllOnce
  <2>4. ASSUME new.code = "ok", ~new.modified PROVE AllAlike(doc.attrs, new.attrs)
    <3>1. Updates(acc, ca, new)
      BY <2>2, <2>4, Zenon DEF Skipped, Appends
    <3>2. PICK attrs \in Seq(Attribute) : attrs = acc.attrs
      BY <2>2, Zenon
    <3>3. /\ new.attrs = updateAttribute(attrs, ca) /\ acc.code = "ok" /\ ~acc.modified /\ ~Changed(attrs, ca)
      BY <2>4, <3>1, <3>2, ZenonT(30) DEF Updates
    <3>4. PICK d : d = new.attrs /\ DOMAIN d = DOMAIN attrs /\ \A i \in DOMAIN attrs : UpdatedTo(attrs[i], ca, d[i])
      BY <2>2, <3>3, UpdateElements, ZenonT(30)
    <3>5. ASSUME NEW i \in DOMAIN attrs PROVE Alike(attrs[i], d[i])
      <4>1. attrs[i] \in Attribute
        BY ElementOfSeq, LenProperties, Zenon
      <4>2. Once(attrs[i].md) /\ ~actualUpdate(attrs[i], ca) /\ UpdatedTo(attrs[i], ca, d[i])
        BY <2>3, <3>2, <3>3, <3>4, <3>5, ZenonT(30) DEF AllOnce, Changed
      <4> QED
        BY <2>2, <2>3, <4>1, <4>2, UpdateUnmodified, ZenonT(30)
    <3>6. AllAlike(doc.attrs, attrs)
      BY <1>1, <1>3, <2>1, <3>2, <3>3, ZenonT(30)
    <3> QED
      BY <3>4, <3>5, <3>6, ZenonT(30) DEF AllAlike, Alike
  <2> QED
    BY <1>1, <2>1, <2>2, <2>4, ZenonT(30)
<1>4. Len(cav) \in G
  BY <1>2, <1>3, RunInduction, ZenonT(30)
<1> QED
  BY <1>1, <1>4, Zenon

\* Attributes like those that hold ca hold it too.
LEMMA AlikeHolds ==
  ASSUME NEW attrs, NEW d, AllAlike(attrs, d), NEW ca \in ContextAttribute, HasHeld(d, ca)
  PROVE  HasHeld(attrs, ca)
<1>1. PICK i \in DOMAIN d : HoldsIn(d[i], ca)
  BY Zenon DEF HasHeld
<1>2. PICK a, c : a = attrs[i] /\ c = d[i]
  BY Zenon
<1>3. i \in DOMAIN attrs /\ Alike(a, c) /\ HoldsIn(c, ca)
  BY <1>1, <1>2, Zenon DEF AllAlike
<1>4. smartAttrMatch(a, ca)
  BY <1>3, Zenon DEF Alike, HoldsIn, smartAttrMatch
<1>5. \A m \in ca.md : m.type \in STRING
  BY NamedMetadata, Zenon
<1>6. \A m \in ca.md : m.type # "" => m \in a.md
  BY <1>3, <1>5, Zenon DEF Alike, HoldsIn
<1>7. HoldsIn(a, ca)
  BY <1>3, <1>4, <1>6, ZenonT(30) DEF Alike, HoldsIn
<1> QED
  BY <1>2, <1>3, <1>7, ZenonT(30) DEF HasHeld

-----------------------------------------------------------------------------
(* The location.                                                           *)

Named(attrs, n) == \E i \in DOMAIN attrs : attrs[i].name = n

\* The location names an attribute.
LocNamed(doc) == doc.locAttr # "" => Named(doc.attrs, doc.locAttr)

\* What one attribute of a request does to the location.
Relocates(action, acc, ca, new) ==
  /\ action = "update" => /\ new.locAttr = acc.locAttr
                          /\ new.coords = IF acc.locAttr = ca.name THEN ca.value ELSE acc.coords
  /\ action = "append" => IF ca.loc # ""
                          THEN /\ acc.locAttr \in {"", ca.name}
                               /\ new.locAttr = ca.name /\ new.coords = ca.value
                          ELSE new.locAttr = acc.locAttr /\ new.coords = acc.coords
  /\ action = "delete" => new.locAttr = IF acc.locAttr = ca.name THEN "" ELSE acc.locAttr

\* Where nothing fails, the location is that of the checks.
LEMMA ProcessOneLocation ==
  ASSUME NEW acc \in Processed, NEW ca \in ContextAttribute, NEW action \in Action,
         NEW new, new = ProcessOne(action, acc, ca), new.code = "ok"
  PROVE  Relocates(action, acc, ca, new)
<1>1. ASSUME NEW code \in {"invalid", "attributeNotFound"} PROVE new # Fail(acc, code)
  <2>1. PICK x : x = Fail(acc, code)
    BY Zenon
  <2>2. x.code = code
    BY <2>1, Zenon DEF Fail, Processed
  <2> QED
    BY <2>1, <2>2, Zenon
<1>2. acc.code = "ok"
  BY Zenon DEF ProcessOne
<1>3. CASE action = "update"
  <2>1. new = UpdateOne(acc, ca)
    BY <1>2, <1>3, Zenon DEF ProcessOne
  <2>2. PICK a, m, c, t : /\ a = updateAttribute(acc.attrs, ca)
                          /\ m = (acc.modified \/ Changed(acc.attrs, ca))
                          /\ c = IF acc.locAttr = ca.name THEN ca.value ELSE acc.coords
                          /\ t = IF Changed(acc.attrs, ca) THEN acc.triggered \cup {ca.name} ELSE acc.triggered
    BY Zenon
  <2>3. new = [acc EXCEPT !.attrs = a, !.modified = m, !.coords = c, !.triggered = t]
    BY <1>1, <2>1, <2>2, Zenon DEF UpdateOne
  <2>4. new.locAttr = acc.locAttr /\ new.coords = c
    BY ONLY <2>3, acc \in Processed, Zenon DEF Processed
  <2> QED
    BY <1>3, <2>2, <2>4, Zenon DEF Relocates
<1>4. CASE action = "append"
  <2>1. new = AppendOne(acc, ca)
    BY <1>2, <1>4, Zenon DEF ProcessOne
  <2>2. PICK a, m, t : /\ a = appendAttribute(acc.attrs, ca)
                       /\ m = (acc.modified \/ (~Found(acc.attrs, ca) \/ Changed(acc.attrs, ca)))
                       /\ t = acc.triggered \cup {ca.name}
    BY Zenon
  <2>3. PICK l, c : /\ l = IF ca.loc # "" THEN ca.name ELSE acc.locAttr
                    /\ c = IF ca.loc # "" THEN ca.value ELSE acc.coords
    BY Zenon
  <2>4. /\ new = [acc EXCEPT !.attrs = a, !.modified = m, !.locAttr = l, !.coords = c, !.triggered = t]
        /\ ca.loc # "" => acc.locAttr \in {"", ca.name}
    BY <1>1, <2>1, <2>2, <2>3, Zenon DEF AppendOne
  <2>5. new.locAttr = l /\ new.coords = c
    BY ONLY <2>4, acc \in Processed, Zenon DEF Processed
  <2> QED
    BY <1>4, <2>3, <2>4, <2>5, Zenon DEF Relocates
<1>5. CASE action = "delete"
  <2>1. new = DeleteOne(acc, ca)
    BY <1>2, <1>5, Zenon DEF ProcessOne
  <2>2. PICK a, l, t : /\ a = deleteAttribute(acc.attrs, ca)
                       /\ l = IF acc.locAttr = ca.name THEN "" ELSE acc.locAttr
                       /\ t = acc.triggered \cup {ca.name}
    BY Zenon
  <2>3. new = [acc EXCEPT !.attrs = a, !.modified = TRUE, !.locAttr = l, !.triggered = t]
    BY <1>1, <2>1, <2>2, Zenon DEF DeleteOne
  <2>4. new.locAttr = l
    BY ONLY <2>3, acc \in Processed, Zenon DEF Processed
  <2> QED
    BY <1>5, <2>2, <2>4, Zenon DEF Relocates
<1> QED
  BY <1>3, <1>4, <1>5, Zenon DEF Action

\* A name stays, unless attributes of this name are deleted.
LEMMA StepNamed ==
  ASSUME NEW acc, NEW ca \in ContextAttribute, NEW new, acc.attrs \in Seq(Attribute),
         NEW m, Named(acc.attrs, m),
         \/ Updates(acc, ca, new) \/ Appends(acc, ca, new)
         \/ Deletes(acc, ca, new) /\ m # ca.name
  PROVE  Named(new.attrs, m)
<1>0. PICK attrs \in Seq(Attribute) : attrs = acc.attrs
  BY Zenon
<1>1. PICK d : attrs = acc.attrs /\ d = new.attrs
  BY <1>0, Zenon
<1>2. PICK i \in DOMAIN attrs : attrs[i].name = m
  BY <1>1, Zenon DEF Named
<1>3. CASE Updates(acc, ca, new)
  <2>1. d = updateAttribute(attrs, ca)
    BY <1>1, <1>3, Zenon DEF Updates
  <2>2. DOMAIN d = DOMAIN attrs /\ UpdatedTo(attrs[i], ca, d[i])
    BY <2>1, UpdateElements, Zenon
  <2> QED
    BY <1>1, <1>2, <2>2, Zenon DEF Named, UpdatedTo
<1>4. CASE Appends(acc, ca, new)
  <2>1. d = Append(attrs, NewAttr(ca))
    BY <1>1, <1>4, Zenon DEF Appends
  <2>2. PICK x : x = NewAttr(ca)
    BY Zenon
  <2>3. i \in DOMAIN d /\ d[i] = attrs[i]
    BY <2>1, <2>2, AppendElements
  <2> QED
    BY <1>1, <1>2, <2>3, Zenon DEF Named
<1>5. CASE Deletes(acc, ca, new) /\ m # ca.name
  <2>1. d = deleteAttribute(attrs, ca) /\ Found(attrs, ca)
    BY <1>1, <1>5, Zenon DEF Deletes
  <2>2. ~smartAttrMatch(attrs[i], ca)
    BY <1>2, <1>5, Zenon DEF smartAttrMatch
  <2>3. PICK j \in DOMAIN d : KeptAs(attrs[i], d[j])
    BY <2>1, <2>2, DeleteElements, Zenon
  <2> QED
    BY <1>1, <1>2, <2>3, Zenon DEF Named, KeptAs
<1> QED
  BY <1>3, <1>4, <1>5, Zenon

\* A step of a run that does not fail.
Acts(action, acc, ca, new) ==
  \/ action # "delete" /\ (Updates(acc, ca, new) \/ Appends(acc, ca, new))
  \/ action = "delete" /\ Deletes(acc, ca, new)

\* One attribute of a request leaves a location that names an attribute.
LEMMA StepLocNamed ==
  ASSUME NEW acc, NEW ca \in ContextAttribute, NEW new, acc.attrs \in Seq(Attribute), NEW action \in Action,
         Acts(action, acc, ca, new), Relocates(action, acc, ca, new), LocNamed(acc), new.locAttr # ""
  PROVE  Named(new.attrs, new.locAttr)
<1>1. CASE new.locAttr = acc.locAttr /\ (action = "delete" => new.locAttr # ca.name)
  <2>1. Named(acc.attrs, new.locAttr)
    BY <1>1, Zenon DEF LocNamed
  <2> QED
    BY <1>1, <2>1, StepNamed, Zenon DEF Acts
<1>2. CASE action = "append" /\ new.locAttr = ca.name
  <2>1. HasHeld(new.attrs, ca)
    BY <1>2, StepStores, Zenon DEF Acts
  <2>2. Named(new.attrs, ca.name)
    BY <2>1, Zenon DEF HasHeld, HoldsIn, smartAttrMatch, Named
  <2> QED
    BY <1>2, <2>2, Zenon
<1>3. action = "update" => new.locAttr = acc.locAttr
  BY Zenon DEF Relocates
<1>4. action = "append" => new.locAttr = ca.name \/ new.locAttr = acc.locAttr
  BY Zenon DEF Relocates
<1>5. action = "delete" => new.locAttr = acc.locAttr /\ new.locAttr # ca.name
  BY Zenon DEF Relocates
<1> QED
  BY <1>1, <1>2, <1>3, <1>4, <1>5, ZenonT(30) DEF Action

\* The step of a run that does not fail, with the location.
LEMMA RunLocationStep ==
  ASSUME NEW action \in Action, NEW doc, NEW cav \in Seq(ContextAttribute), NEW f, Runs(f, action, doc, cav),
         NEW n \in 1 .. Len(cav), f[n].code = "ok"
  PROVE  /\ n \in 0 .. Len(cav) /\ f[n - 1].attrs \in Seq(Attribute) /\ cav[n] \in ContextAttribute
         /\ f[n - 1].code = "ok" /\ Relocates(action, f[n - 1], cav[n], f[n])
         /\ Acts(action, f[n - 1], cav[n], f[n])
<1>1. /\ n \in 0 .. Len(cav) /\ f[n - 1] \in Processed /\ f[n - 1].attrs \in Seq(Attribute)
      /\ cav[n] \in ContextAttribute
      /\ \/ Skipped(f[n - 1], f[n])
         \/ action # "delete" /\ Updates(f[n - 1], cav[n], f[n])
         \/ action = "append" /\ Appends(f[n - 1], cav[n], f[n])
         \/ action = "delete" /\ Deletes(f[n - 1], cav[n], f[n])
  BY RunStep, Zenon
<1>2. Acts(action, f[n - 1], cav[n], f[n])
  BY <1>1, Zenon DEF Skipped, Acts
<1>3. f[n - 1].code = "ok"
  BY <1>2, Zenon DEF Acts, Updates, Appends, Deletes
<1>4. f[n] = ProcessOne(action, f[n - 1], cav[n])
  BY Zenon DEF Runs
<1>5. Relocates(action, f[n - 1], cav[n], f[n])
  BY <1>1, <1>4, ProcessOneLocation, Zenon
<1> QED
  BY <1>1, <1>2, <1>3, <1>5, Zenon

\* A request that does not fail leaves a location that names an attribute.
LEMMA RunLocNamed ==
  ASSUME NEW action \in Action, NEW doc, NEW cav \in Seq(ContextAttribute), NEW f, Runs(f, action, doc, cav),
         LocNamed(doc), f[Len(cav)].code = "ok"
  PROVE  LocNamed(f[Len(cav)])
<1>1. PICK G : G = {n \in 0 .. Len(cav) : f[n].code = "ok" => LocNamed(f[n])}
  BY Zenon
<1>2. 0 \in G
  <2>1. LocNamed(f[0])
    BY Zenon DEF Runs, LocNamed
  <2> QED
    BY <1>1, <2>1, ZeroInRange, Zenon
<1>3. ASSUME NEW n \in 1 .. Len(cav), n - 1 \in G PROVE n \in G
  <2>1. ASSUME f[n].code = "ok" PROVE LocNamed(f[n])
    <3>1. /\ f[n - 1].attrs \in Seq(Attribute) /\ cav[n] \in ContextAttribute
          /\ f[n - 1].code = "ok" /\ Relocates(action, f[n - 1], cav[n], f[n])
          /\ Acts(action, f[n - 1], cav[n], f[n])
      BY <2>1, RunLocationStep, Zenon
    <3>2. LocNamed(f[n - 1])
      BY <1>1, <1>3, <3>1, Zenon
    <3>3. ASSUME f[n].locAttr # "" PROVE Named(f[n].attrs, f[n].locAttr)
      BY <3>1, <3>2, <3>3, StepLocNamed, Zenon
    <3> QED
      BY <3>3, Zenon DEF LocNamed
  <2>2. n \in 0 .. Len(cav)
    OBVIOUS
  <2> QED
    BY <1>1, <2>1, <2>2, Zenon
<1>4. Len(cav) \in G
  BY <1>2, <1>3, RunInduction, Zenon
<1> QED
  BY <1>1, <1>4, Zenon

\* No later attribute of the request has the name of the j-th.
IsLast(cav, j) == \A l \in j + 1 .. Len(cav) : cav[l].name # cav[j].name

\* The location is that of the request attribute ca.
LocatedAt(doc, ca) == doc.locAttr = ca.name /\ doc.coords = ca.value

\* The request attribute ca renews the coordinates of the location it names.
Relocating(action, ca) == action = "update" \/ (action = "append" /\ ca.loc # "")

\* The last attribute of the request for the location gives it its coordinates.
LEMMA RunCoords ==
  ASSUME NEW action \in Action, NEW doc, NEW cav \in Seq(ContextAttribute), NEW f, Runs(f, action, doc, cav),
         f[Len(cav)].code = "ok", NEW j \in DOMAIN cav, IsLast(cav, j), f[Len(cav)].locAttr = cav[j].name,
         Relocating(action, cav[j])
  PROVE  f[Len(cav)].coords = cav[j].value
<1>0. j \in 1 .. Len(cav) /\ Len(cav) \in Nat /\ cav[j] \in ContextAttribute
  BY LenProperties, ElementOfSeq, Zenon
<1>1. PICK G : G = {n \in 0 .. Len(cav) : f[n].code = "ok" =>
                      /\ action = "update" => f[n].locAttr = doc.locAttr
                      /\ n >= j /\ (action = "update" => doc.locAttr = cav[j].name) => LocatedAt(f[n], cav[j])}
  BY Zenon
<1>2. 0 \in G
  <2>1. 0 \in 0 .. Len(cav) /\ ~(0 >= j)
    BY <1>0
  <2>2. f[0].locAttr = doc.locAttr
    BY Zenon DEF Runs
  <2> QED
    BY <1>1, <2>1, <2>2, Zenon
<1>3. ASSUME NEW n \in 1 .. Len(cav), n - 1 \in G PROVE n \in G
  <2>1. n \in 0 .. Len(cav)
    OBVIOUS
  <2>2. ASSUME f[n].code = "ok" PROVE /\ cav[n] \in ContextAttribute /\ f[n - 1].code = "ok"
                                      /\ Relocates(action, f[n - 1], cav[n], f[n])
    BY <2>2, RunLocationStep, Zenon
  <2>3. ASSUME f[n].code = "ok", action = "update" PROVE f[n].locAttr = doc.locAttr /\ f[n - 1].locAttr = doc.locAttr
    <3>1. f[n - 1].locAttr = doc.locAttr
      BY <1>1, <1>3, <2>2, <2>3, ZenonT(30)
    <3> QED
      BY <2>2, <2>3, <3>1, Zenon DEF Relocates
  <2>4. ASSUME f[n].code = "ok", n >= j, action = "update" => doc.locAttr = cav[j].name
        PROVE  LocatedAt(f[n], cav[j])
    <3>1. CASE n = j
      <4>1. LocatedAt(f[n], cav[n])
        BY <2>2, <2>3, <2>4, <3>1, Zenon DEF Relocates, LocatedAt, Relocating
      <4> QED
        BY <3>1, <4>1, Zenon
    <3>2. CASE n # j
      <4>1. n - 1 >= j /\ n \in j + 1 .. Len(cav)
        BY <1>0, <2>4, <3>2
      <4>2. cav[n].name # cav[j].name
        BY <4>1, Zenon DEF IsLast
      <4>3. LocatedAt(f[n - 1], cav[j])
        BY <1>1, <1>3, <2>2, <2>4, <4>1, ZenonT(30)
      <4>4. cav[j].name # ""
        BY <1>0, Zenon DEF ContextAttribute
      <4>5. f[n - 1].locAttr # cav[n].name /\ f[n - 1].locAttr # ""
        BY <4>2, <4>3, <4>4, Zenon DEF LocatedAt
      <4>6. f[n].locAttr = f[n - 1].locAttr /\ f[n].coords = f[n - 1].coords
        BY <2>2, <2>4, <4>5, Zenon DEF Relocates, Relocating
      <4> QED
        BY <4>3, <4>6, Zenon DEF LocatedAt
    <3> QED
      BY <3>1, <3>2, Zenon
  <2> QED
    BY <1>1, <2>1, <2>3, <2>4, Zenon
<1>4. Len(cav) \in G
  BY <1>2, <1>3, RunInduction, Zenon
<1>5. Len(cav) >= j
  BY <1>0
<1>6. action = "update" => doc.locAttr = cav[j].name
  BY <1>1, <1>4, Zenon
<1>7. LocatedAt(f[Len(cav)], cav[j])
  BY <1>1, <1>4, <1>5, <1>6, ZenonT(30)
<1> QED
  BY <1>7, Zenon DEF LocatedAt

\* processLocation lets one attribute of a new entity be the location.
LEMMA OneLocated ==
  ASSUME NEW cav \in Seq(ContextAttribute), processLocation(cav), NEW i \in Located(cav), NEW j \in Located(cav)
  PROVE  i = j
<1>1. PICK L : L = Located(cav)
  BY Zenon
<1>2. IsFiniteSet(DOMAIN cav)
  <2>1. Len(cav) \in Int /\ 1 \in Int /\ DOMAIN cav = 1 .. Len(cav)
    BY LenProperties
  <2> QED
    BY <2>1, FS_Interval, Zenon
<1>3. L \in SUBSET DOMAIN cav /\ Cardinality(L) <= 1
  BY <1>1, Zenon DEF Located, processLocation
<1>4. IsFiniteSet(L)
  BY <1>2, <1>3, FS_Subset, Zenon
<1>5. IsFiniteSet(L \ {i}) /\ Cardinality(L \ {i}) = Cardinality(L) - 1
  BY <1>1, <1>4, FS_RemoveElement, Zenon
<1>6. Cardinality(L) \in Nat /\ Cardinality(L \ {i}) \in Nat
  BY <1>4, <1>5, FS_CardinalityType, Zenon
<1>7. Cardinality(L \ {i}) = 0
  BY <1>3, <1>5, <1>6
<1>8. L \ {i} = {}
  BY <1>5, <1>7, FS_EmptySet, Zenon
<1> QED
  BY <1>1, <1>8, Zenon

\* The location of a new entity.
LEMMA NewLocation ==
  ASSUME NEW cav \in Seq(ContextAttribute), processLocation(cav), NEW doc, doc = NewEntity(cav)
  PROVE  LocNamed(doc) /\ \A j \in DOMAIN cav : cav[j].loc # "" => LocatedAt(doc, cav[j])
<1>1. CASE Located(cav) = {}
  <2>1. doc.locAttr = ""
    BY <1>1, Zenon DEF NewEntity
  <2> QED
    BY <1>1, <2>1, Zenon DEF Located, LocNamed
<1>2. CASE Located(cav) # {}
  <2>1. PICK c \in Located(cav) : c = CHOOSE i \in Located(cav) : TRUE
    BY <1>2, Zenon
  <2>2. LocatedAt(doc, cav[c])
    BY <1>2, <2>1, Zenon DEF NewEntity, LocatedAt
  <2>3. \A j \in DOMAIN cav : cav[j].loc # "" => j = c
    BY OneLocated, <2>1, Zenon DEF Located
  <2>4. c \in DOMAIN cav
    BY Zenon DEF Located
  <2>5. PICK attrs : attrs = doc.attrs
    BY Zenon
  <2>6. /\ DOMAIN attrs = DOMAIN cav /\ attrs[c] = NewAttr(cav[c])
    BY <2>4, <2>5, NewElements, Zenon
  <2>7. attrs[c].name = cav[c].name
    BY <2>6, NewAttrHolds, Zenon
  <2>8. Named(attrs, cav[c].name)
    BY <2>4, <2>6, <2>7, Zenon DEF Named
  <2>9. LocNamed(doc)
    BY <2>2, <2>5, <2>8, Zenon DEF LocNamed, LocatedAt
  <2> QED
    BY <2>2, <2>3, <2>9, Zenon
<1> QED
  BY <1>1, <1>2, Zenon
=============================================================================
