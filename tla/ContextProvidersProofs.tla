----------------------- MODULE ContextProvidersProofs -----------------------
(***************************************************************************)
(* Proofs about ContextAvailability and ContextProviders, for any          *)
(* requests, any number of processes and any bounds: the ids that another  *)
(* broker gives for registrations (FwdRegIdKept), what subscribers know    *)
(* (SubscriberKnows), what discovery finds (DiscoverComplete), and the     *)
(* requests that are forwarded to context providers.                       *)
(***************************************************************************)
EXTENDS ContextProviders, RegistryProofs, FiniteSetTheorems

-----------------------------------------------------------------------------
(* Collections.                                                            *)

\* The places of a collection.
LEMMA Docs ==
  ASSUME NEW S, NEW s \in Seq(S)
  PROVE  /\ Len(s) \in Nat /\ DOMAIN s = 1 .. Len(s)
         /\ \A i \in DOMAIN s : s[i] \in S
OBVIOUS

\* A document is added to a collection.
LEMMA AppendedDoc ==
  ASSUME NEW S, NEW s \in Seq(S), NEW e \in S
  PROVE  /\ Append(s, e) \in Seq(S)
         /\ DOMAIN Append(s, e) = DOMAIN s \cup {Len(s) + 1}
         /\ Len(Append(s, e)) >= Len(s)
         /\ \A j \in DOMAIN s \ {Len(s) + 1} : Append(s, e)[j] = s[j]
         /\ Append(s, e)[Len(s) + 1] = e
<1>1. /\ DOMAIN s = 1 .. Len(s) /\ Len(s) \in Nat
      /\ Len(Append(s, e)) = Len(s) + 1
      /\ DOMAIN Append(s, e) = 1 .. Len(s) + 1
  OBVIOUS
<1> QED
  BY <1>1

\* A document of a collection is replaced.
LEMMA ReplacedDoc ==
  ASSUME NEW S, NEW s \in Seq(S), NEW e \in S, NEW i \in DOMAIN s
  PROVE  /\ [s EXCEPT ![i] = e] \in Seq(S)
         /\ DOMAIN [s EXCEPT ![i] = e] = DOMAIN s \cup {i}
         /\ Len([s EXCEPT ![i] = e]) = Len(s)
         /\ \A j \in DOMAIN s \ {i} : [s EXCEPT ![i] = e][j] = s[j]
         /\ [s EXCEPT ![i] = e][i] = e
<1>1. DOMAIN s = 1 .. Len(s) /\ Len(s) \in Nat
  BY Docs, Zenon
<1>2. [s EXCEPT ![i] = e] \in Seq(S) /\ Len([s EXCEPT ![i] = e]) = Len(s)
  BY <1>1
<1> QED
  BY <1>1, <1>2, Zenon

\* One or the other.
LEMMA StoredDoc ==
  ASSUME NEW S, NEW s \in Seq(S), NEW e \in S, NEW i \in 1 .. Len(s) + 1,
         NEW t, t = IF i > Len(s) THEN Append(s, e) ELSE [s EXCEPT ![i] = e]
  PROVE  /\ t \in Seq(S)
         /\ DOMAIN t = DOMAIN s \cup {i}
         /\ Len(t) >= Len(s)
         /\ \A j \in DOMAIN s \ {i} : t[j] = s[j]
         /\ t[i] = e
<1>1. DOMAIN s = 1 .. Len(s) /\ Len(s) \in Nat
  BY Docs, Zenon
<1>2. CASE i > Len(s)
  <2>1. i = Len(s) + 1 /\ t = Append(s, e)
    BY <1>1, <1>2
  <2> QED
    BY <2>1, AppendedDoc
<1>3. CASE ~(i > Len(s))
  <2>1. i \in DOMAIN s
    BY <1>1, <1>3
  <2>2. t = [s EXCEPT ![i] = e]
    BY <1>3, Zenon
  <2> QED
    BY <1>1, <2>1, <2>2, ReplacedDoc
<1> QED
  BY <1>2, <1>3, Zenon

-----------------------------------------------------------------------------
(* The ids of the other broker.                                            *)

\* A registration as it is asked for, and the places of a process with what it
\* remembers there.
RegRequest == [crs : Seq(ContextRegistration), servicePath : RequestPath \cup {NoPath}, duration : Nat]

Op ==
  {Idle}
  \cup [pc : {"forwardNew"}, reg : Nat]
  \cup [pc : {"setNew"}, reg : Nat, fwdRegId : Nat]
  \cup [pc : {"register"}, reg : Nat, req : RegRequest, fwdRegId : Nat]
  \cup [pc : {"set"}, reg : Nat, result : Nat, fwdRegId : Nat]
  \cup [pc : {"forwardUpdate"}, reg : Nat, fwdRegId : Nat]

New      == {"forwardNew", "setNew"}
Updating == {"register", "set", "forwardUpdate"}

\* The document of i was replaced, and a process is still to store its id again.
Restores(i) == \E q \in Proc : op[q].pc = "set" /\ op[q].reg = i /\ op[q].result = i

FwdType ==
  /\ registrations \in Seq(RegDoc)
  /\ op \in [Proc -> Op]
  /\ now \in Nat
  /\ fwdKnown \subseteq DOMAIN registrations
  /\ fwdPort = 0 => fwdKnown = {} /\ \A p \in Proc : op[p] = Idle

\* What processes remember belongs to their registration, and where the other broker
\* knows a registration, every process that updates it has read the id.
FwdOp(p) ==
  /\ op[p].pc \in New => op[p].reg \in 0 .. Len(registrations)
  /\ op[p].pc = "setNew" => op[p].fwdRegId = op[p].reg
  /\ op[p].pc = "set" => op[p].result \in {0, op[p].reg}
  /\ op[p].pc \in Updating => /\ op[p].reg \in DOMAIN registrations
                              /\ op[p].fwdRegId \in {0, op[p].reg}
                              /\ op[p].reg \in fwdKnown => op[p].fwdRegId = op[p].reg

\* The inductive invariant of FwdRegIdKept.  An update of a registration does not
\* overlap with the registration itself.
FwdInv ==
  /\ FwdType
  /\ \A i \in DOMAIN registrations : registrations[i].fwdRegId \in {0, i}
  /\ \A p \in Proc : FwdOp(p)
  /\ \A p, q \in Proc : op[p].pc \in New /\ op[q].pc \in Updating => op[p].reg # op[q].reg
  /\ \A i \in fwdKnown : registrations[i].fwdRegId = i \/ Restores(i)

\* The document of a registration that is stored has no id of the other broker, and the
\* other documents stay: update() with upsert.
LEMMA UpsertedDocs ==
  ASSUME registrations \in Seq(RegDoc), now \in Nat,
         NEW i \in 1 .. NewId, NEW r \in RegRequest
  PROVE  /\ Upserted(i, r) \in Seq(RegDoc)
         /\ DOMAIN Upserted(i, r) = DOMAIN registrations \cup {i}
         /\ Len(Upserted(i, r)) >= Len(registrations)
         /\ \A j \in DOMAIN registrations \ {i} : Upserted(i, r)[j] = registrations[j]
         /\ Upserted(i, r)[i] = regDoc(r)
<1>1. regDoc(r) \in RegDoc
  BY RequestsAssumption DEF regDoc, RegDoc, RegRequest, expirationAt
<1> QED
  BY <1>1, StoredDoc DEF Upserted, NewId

\* processRegisterContext and mongoRegisterContext either leave the registrations alone
\* or store the document of i.
LEMMA RegisterStep ==
  ASSUME NEW i, NEW r, NEW result,
         processRegisterContext(i, r, result) \/ mongoRegisterContext(i, r, result)
  PROVE  /\ registrations' \in {registrations, Upserted(i, r)}
         /\ result \in {i, 0}
<1>1. processRegisterContext(i, r, result) => registrations' \in {registrations, Upserted(i, r)} /\ result \in {i, 0}
  BY Zenon DEF processRegisterContext, Registers, LoopFails, UpsertFails
<1> QED
  BY <1>1, Zenon DEF mongoRegisterContext

\* An id of the other broker is stored in the document of i, and nothing else changes.
LEMMA SetFwdRegIdDocs ==
  ASSUME registrations \in Seq(RegDoc), NEW i \in DOMAIN registrations, NEW id \in Nat,
         SetFwdRegId(i, id)
  PROVE  /\ registrations' \in Seq(RegDoc)
         /\ DOMAIN registrations' = DOMAIN registrations
         /\ Len(registrations') = Len(registrations)
         /\ \A j \in DOMAIN registrations \ {i} : registrations'[j] = registrations[j]
         /\ registrations'[i] = [registrations[i] EXCEPT !.fwdRegId = id]
<1> DEFINE e == [registrations[i] EXCEPT !.fwdRegId = id]
<1>1. registrations[i] \in RegDoc
  BY Docs, Zenon
<1>2. e \in RegDoc
  BY <1>1, Zenon DEF RegDoc
<1>3. registrations' = [registrations EXCEPT ![i] = e]
  BY Zenon DEF SetFwdRegId
<1> HIDE DEF e
<1>4. /\ registrations' \in Seq(RegDoc)
      /\ DOMAIN registrations' = DOMAIN registrations
      /\ Len(registrations') = Len(registrations)
      /\ \A j \in DOMAIN registrations \ {i} : registrations'[j] = registrations[j]
      /\ registrations'[i] = e
  BY <1>2, <1>3, ReplacedDoc
<1> QED
  BY <1>4, Zenon DEF e

\* What the places of a process have in common.
LEMMA OpFields ==
  ASSUME NEW o \in Op
  PROVE  /\ o.pc \in New => o.reg \in Nat /\ o # Idle
         /\ o.pc = "setNew" => o.fwdRegId \in Nat
         /\ o.pc \in Updating => o.reg \in Nat /\ o.fwdRegId \in Nat /\ o # Idle
         /\ o.pc = "register" => o.req \in RegRequest
         /\ o.pc = "set" => o.result \in Nat
         /\ o = Idle => o.pc \notin New \cup Updating
  BY DEF Op, New, Updating, Idle

\* A new registration leaves the documents there are alone.
LEMMA NewDocs ==
  ASSUME registrations \in Seq(RegDoc), now \in Nat, NEW r \in RegRequest,
         registrations' \in {registrations, Upserted(NewId, r)}
  PROVE  /\ registrations' \in Seq(RegDoc)
         /\ DOMAIN registrations \subseteq DOMAIN registrations'
         /\ Len(registrations') >= Len(registrations)
         /\ \A j \in DOMAIN registrations : registrations'[j] = registrations[j]
         /\ \A j \in DOMAIN registrations' \ DOMAIN registrations : registrations'[j].fwdRegId = 0
<1>1. NewId \in 1 .. NewId /\ NewId \notin DOMAIN registrations
  BY Docs DEF NewId
<1>2. regDoc(r).fwdRegId = 0
  BY Zenon DEF regDoc
<1>3. Len(registrations) \in Nat
  BY Docs, Zenon
<1>4. CASE registrations' = registrations
  BY <1>3, <1>4
<1>5. CASE registrations' = Upserted(NewId, r)
  <2>1. /\ registrations' \in Seq(RegDoc)
        /\ DOMAIN registrations' = DOMAIN registrations \cup {NewId}
        /\ Len(registrations') >= Len(registrations)
        /\ \A j \in DOMAIN registrations \ {NewId} : registrations'[j] = registrations[j]
        /\ registrations'[NewId] = regDoc(r)
    BY <1>1, <1>5, UpsertedDocs, Zenon
  <2> QED
    BY <1>1, <1>2, <2>1, Zenon
<1> QED
  BY <1>4, <1>5, Zenon

\* The registration of a new document, whoever asks for it, leaves the others alone.
LEMMA FwdStoreNew ==
  ASSUME FwdInv, NEW r \in RegRequest,
         registrations' \in {registrations, Upserted(NewId, r)},
         op' \in [Proc -> Op],
         \A q \in Proc : \/ op'[q] = op[q]
                         \/ /\ fwdPort # 0 /\ op[q] = Idle /\ op'[q].pc = "forwardNew"
                            /\ op'[q].reg \in {0} \cup (DOMAIN registrations' \ DOMAIN registrations),
         UNCHANGED <<now, fwdKnown, fwdPort>>
  PROVE  FwdInv'
<1>1. /\ registrations' \in Seq(RegDoc)
      /\ DOMAIN registrations \subseteq DOMAIN registrations'
      /\ Len(registrations') >= Len(registrations)
      /\ \A j \in DOMAIN registrations : registrations'[j] = registrations[j]
      /\ \A j \in DOMAIN registrations' \ DOMAIN registrations : registrations'[j].fwdRegId = 0
  BY NewDocs, Zenon DEF FwdInv, FwdType
<1>2. FwdType'
  BY <1>1, Zenon DEF FwdInv, FwdType
<1>3. \A i \in DOMAIN registrations' : registrations'[i].fwdRegId \in {0, i}
  BY <1>1, Zenon DEF FwdInv
<1>4. \A p \in Proc : FwdOp(p)'
  <2> SUFFICES ASSUME NEW p \in Proc PROVE FwdOp(p)'
    BY Zenon
  <2>1. FwdOp(p) /\ op[p] \in Op
    BY Zenon DEF FwdInv, FwdType
  <2>2. /\ Len(registrations) \in Nat /\ Len(registrations') \in Nat
        /\ DOMAIN registrations' = 1 .. Len(registrations')
    BY <1>1, Docs, Zenon DEF FwdInv, FwdType
  <2>3. CASE op'[p] = op[p]
    <3>1. op[p].pc \in New => op[p].reg \in 0 .. Len(registrations')
      BY <1>1, <2>1, <2>2 DEF FwdOp
    <3>2. op[p].pc \in Updating => op[p].reg \in DOMAIN registrations'
      BY <1>1, <2>1, Zenon DEF FwdOp
    <3> QED
      BY <2>1, <2>3, <3>1, <3>2, ZenonT(30) DEF FwdOp
  <2>4. CASE op'[p].pc = "forwardNew" /\ op'[p].reg \in {0} \cup DOMAIN registrations'
    BY <2>2, <2>4 DEF FwdOp, New, Updating
  <2> QED
    BY <2>3, <2>4, Zenon
<1>5. ASSUME NEW p \in Proc, NEW q \in Proc, op'[p].pc \in New, op'[q].pc \in Updating
      PROVE  op'[p].reg # op'[q].reg
  <2>1. op'[q] = op[q]
    BY <1>5, Zenon DEF Updating
  <2>2. op[q].reg \in DOMAIN registrations /\ 0 \notin DOMAIN registrations
    BY <1>5, <2>1, Docs DEF FwdInv, FwdType, FwdOp
  <2> QED
    BY <1>5, <2>1, <2>2, Zenon DEF FwdInv
<1>6. ASSUME NEW i \in fwdKnown' PROVE registrations'[i].fwdRegId = i \/ Restores(i)'
  <2>1. i \in DOMAIN registrations /\ (registrations[i].fwdRegId = i \/ Restores(i))
    BY Zenon DEF FwdInv, FwdType
  <2>2. \A q \in Proc : op[q].pc = "set" => op'[q] = op[q]
    BY DEF Idle
  <2> QED
    BY <1>1, <2>1, <2>2, Zenon DEF Restores
<1> QED
  BY <1>2, <1>3, <1>4, <1>5, <1>6, Zenon DEF FwdInv

\* A registration that is stored first and forwarded afterwards: postRegisterContext.
LEMMA FwdPost ==
  ASSUME FwdInv, UNCHANGED fwdPort, NEW p \in Proc, NEW r \in RegRequest, postRegisterContext(p, r)
  PROVE  FwdInv'
<1>1. PICK result \in {NewId, 0} :
        /\ processRegisterContext(NewId, r, result)
        /\ op' = [op EXCEPT ![p] = [pc |-> "forwardNew", reg |-> result]]
  BY Zenon DEF postRegisterContext
<1>2. registrations \in Seq(RegDoc) /\ now \in Nat /\ op \in [Proc -> Op]
  BY Zenon DEF FwdInv, FwdType
<1>3. /\ DOMAIN registrations = 1 .. Len(registrations) /\ NewId = Len(registrations) + 1
      /\ NewId \in 1 .. NewId /\ NewId \notin DOMAIN registrations
  BY <1>2, Docs DEF NewId
<1>4. registrations' \in {registrations, Upserted(NewId, r)}
  BY <1>1, RegisterStep, Zenon
<1>5. result = 0 \/ result \in DOMAIN registrations' \ DOMAIN registrations
  <2>1. ASSUME result # 0 PROVE NewId \in DOMAIN registrations' /\ NewId \notin DOMAIN registrations
    <3>1. registrations' = Upserted(NewId, r)
      BY <1>1, <2>1, Zenon DEF processRegisterContext, Registers
    <3>2. DOMAIN registrations' = DOMAIN registrations \cup {NewId}
      BY <1>2, <1>3, <3>1, UpsertedDocs, Zenon
    <3> QED
      BY <1>3, <3>2, Zenon
  <2> QED
    BY <1>1, <2>1, Zenon
<1>6. [pc |-> "forwardNew", reg |-> result] \in Op
  BY <1>1, <1>3, <1>2, Docs DEF Op
<1>7. op' \in [Proc -> Op] /\ \A q \in Proc : q # p => op'[q] = op[q]
  BY <1>1, <1>2, <1>6, Zenon
<1>8. op'[p].pc = "forwardNew" /\ op'[p].reg = result
  BY <1>1, <1>2, Zenon
<1>9. fwdPort # 0 /\ op[p] = Idle /\ UNCHANGED <<now, fwdKnown, fwdPort>>
  BY Zenon DEF postRegisterContext
<1> QED
  BY <1>4, <1>5, <1>7, <1>8, <1>9, FwdStoreNew, ZenonT(30)

\* A notification of another broker is stored like a registration.
LEMMA FwdNotify ==
  ASSUME FwdInv, UNCHANGED fwdPort, NEW r \in RegRequest, mongoNotifyContextAvailability(r)
  PROVE  FwdInv'
<1>1. [r EXCEPT !.duration = 0] \in RegRequest
  BY Zenon DEF RegRequest
<1>2. registrations' \in {registrations, Upserted(NewId, [r EXCEPT !.duration = 0])}
  BY RegisterStep, Zenon DEF mongoNotifyContextAvailability
<1>3. UNCHANGED <<op, now, fwdKnown, fwdPort>> /\ op \in [Proc -> Op]
  BY Zenon DEF mongoNotifyContextAvailability, FwdInv, FwdType
<1> QED
  BY <1>1, <1>2, <1>3, FwdStoreNew, Zenon

\* A broker that does not forward has no such ids.
LEMMA FwdRegister ==
  ASSUME FwdInv, UNCHANGED fwdPort, NEW r \in RegRequest, NEW i \in 1 .. NewId, registerContext(i, r)
  PROVE  FwdInv'
<1>1. registrations \in Seq(RegDoc) /\ now \in Nat
  BY Zenon DEF FwdInv, FwdType
<1>2. /\ registrations' \in Seq(RegDoc)
      /\ \A j \in DOMAIN registrations' : registrations'[j].fwdRegId \in {0, j}
  <2>1. registrations' \in {registrations, Upserted(i, r)}
    BY RegisterStep, Zenon DEF registerContext
  <2>2. CASE registrations' = registrations
    BY <1>1, <2>2, Zenon DEF FwdInv
  <2>3. CASE registrations' = Upserted(i, r)
    <3>1. /\ registrations' \in Seq(RegDoc)
          /\ DOMAIN registrations' = DOMAIN registrations \cup {i}
          /\ \A j \in DOMAIN registrations \ {i} : registrations'[j] = registrations[j]
          /\ registrations'[i] = regDoc(r)
      BY <1>1, <2>3, UpsertedDocs, Zenon
    <3> QED
      BY <3>1 DEF regDoc, FwdInv
  <2> QED
    BY <2>1, <2>2, <2>3, Zenon
<1>3. fwdPort = 0 /\ UNCHANGED <<op, now, fwdKnown, fwdPort>>
  BY Zenon DEF registerContext
<1>4. fwdKnown = {} /\ op \in [Proc -> Op] /\ \A p \in Proc : op[p] = Idle
  BY <1>3, Zenon DEF FwdInv, FwdType
<1> QED
  BY <1>1, <1>2, <1>3, <1>4 DEF FwdInv, FwdType, FwdOp, New, Updating, Idle, Restores

\* A process goes on to the place o, with the documents and the ids as they are.
LEMMA FwdGoOn ==
  ASSUME FwdInv, NEW p \in Proc, NEW o \in Op, op' = [op EXCEPT ![p] = o],
         fwdPort # 0, UNCHANGED <<registrations, now, fwdPort>>, fwdKnown' \subseteq fwdKnown,
         FwdOp(p)',
         o.pc \in New => op[p].pc \in New /\ o.reg = op[p].reg,
         o.pc \in Updating => \/ op[p].pc \in Updating /\ o.reg = op[p].reg
                             \/ \A q \in Proc : op[q].pc \in New => op[q].reg # o.reg,
         op[p].pc = "set" /\ op[p].result = op[p].reg /\ op[p].reg \in fwdKnown' =>
           registrations[op[p].reg].fwdRegId = op[p].reg
  PROVE  FwdInv'
<1>1. op \in [Proc -> Op] /\ op' \in [Proc -> Op] /\ op'[p] = o /\ \A q \in Proc \ {p} : op'[q] = op[q]
  BY Zenon DEF FwdInv, FwdType
<1>2. FwdType'
  BY <1>1, Zenon DEF FwdInv, FwdType
<1>3. \A q \in Proc : FwdOp(q)'
  <2>1. ASSUME NEW q \in Proc \ {p} PROVE FwdOp(q)'
    <3>1. FwdOp(q) /\ op'[q] = op[q]
      BY <1>1, Zenon DEF FwdInv
    <3> QED
      BY <3>1, Zenon DEF FwdOp
  <2> QED
    BY <2>1, Zenon
<1>4. ASSUME NEW q1 \in Proc, NEW q2 \in Proc, op'[q1].pc \in New, op'[q2].pc \in Updating
      PROVE  op'[q1].reg # op'[q2].reg
  <2>1. \A q3, q4 \in Proc : op[q3].pc \in New /\ op[q4].pc \in Updating => op[q3].reg # op[q4].reg
    BY Zenon DEF FwdInv
  <2>2. q1 # q2
    BY <1>4, Zenon DEF New, Updating
  <2>3. CASE q1 = p
    BY <1>1, <1>4, <2>1, <2>2, <2>3, ZenonT(30)
  <2>4. CASE q2 = p
    BY <1>1, <1>4, <2>1, <2>2, <2>4
  <2>5. CASE q1 # p /\ q2 # p
    BY <1>1, <1>4, <2>1, <2>5, Zenon
  <2> QED
    BY <2>3, <2>4, <2>5, Zenon
<1>5. ASSUME NEW i \in fwdKnown' PROVE registrations'[i].fwdRegId = i \/ Restores(i)'
  <2>1. registrations[i].fwdRegId = i \/ Restores(i)
    BY Zenon DEF FwdInv
  <2>2. ASSUME NEW q \in Proc, op[q].pc = "set", op[q].reg = i, op[q].result = i
        PROVE  registrations[i].fwdRegId = i \/ Restores(i)'
    BY <1>1, <2>2, Zenon DEF Restores
  <2> QED
    BY <2>1, <2>2, Zenon DEF Restores
<1> QED
  BY <1>2, <1>3, <1>4, <1>5, Zenon DEF FwdInv

\* The same, with the document of its registration i replaced or given an id.
LEMMA FwdGoOnStoring ==
  ASSUME FwdInv, NEW p \in Proc, NEW o \in Op, op' = [op EXCEPT ![p] = o],
         fwdPort # 0, UNCHANGED <<now, fwdPort>>,
         NEW i \in DOMAIN registrations, i = op[p].reg,
         registrations' \in Seq(RegDoc),
         DOMAIN registrations' = DOMAIN registrations, Len(registrations') = Len(registrations),
         \A j \in DOMAIN registrations \ {i} : registrations'[j] = registrations[j],
         registrations'[i].fwdRegId \in {0, i},
         i \in fwdKnown' => registrations'[i].fwdRegId = i \/ Restores(i)',
         fwdKnown' \subseteq fwdKnown \cup {i},
         i \in fwdKnown' \ fwdKnown => \A q \in Proc : op[q].pc \in Updating => op[q].reg # i,
         FwdOp(p)',
         o.pc \notin New,
         o.pc \in Updating => op[p].pc \in Updating /\ o.reg = op[p].reg
  PROVE  FwdInv'
<1>1. op \in [Proc -> Op] /\ op' \in [Proc -> Op] /\ op'[p] = o /\ \A q \in Proc \ {p} : op'[q] = op[q]
  BY Zenon DEF FwdInv, FwdType
<1>2. FwdType'
  BY <1>1, Zenon DEF FwdInv, FwdType
<1>3. \A j \in DOMAIN registrations' : registrations'[j].fwdRegId \in {0, j}
  BY Zenon DEF FwdInv
<1>4. \A q \in Proc : FwdOp(q)'
  <2>1. ASSUME NEW q \in Proc \ {p} PROVE FwdOp(q)'
    <3>1. FwdOp(q) /\ op'[q] = op[q]
      BY <1>1, Zenon DEF FwdInv
    <3>2. op[q].pc \in Updating /\ op[q].reg \in fwdKnown' => op[q].reg \in fwdKnown
      BY Zenon
    <3> QED
      BY <3>1, <3>2, Zenon DEF FwdOp
  <2> QED
    BY <2>1, Zenon
<1>5. ASSUME NEW q1 \in Proc, NEW q2 \in Proc, op'[q1].pc \in New, op'[q2].pc \in Updating
      PROVE  op'[q1].reg # op'[q2].reg
  <2>1. \A q3, q4 \in Proc : op[q3].pc \in New /\ op[q4].pc \in Updating => op[q3].reg # op[q4].reg
    BY Zenon DEF FwdInv
  <2>2. q1 # p
    BY <1>1, <1>5, Zenon
  <2>3. CASE q2 = p
    BY <1>1, <1>5, <2>1, <2>2, <2>3
  <2>4. CASE q2 # p
    BY <1>1, <1>5, <2>1, <2>2, <2>4, ZenonT(30)
  <2> QED
    BY <2>3, <2>4, Zenon
<1>6. ASSUME NEW j \in fwdKnown', j # i PROVE registrations'[j].fwdRegId = j \/ Restores(j)'
  <2>1. j \in DOMAIN registrations /\ (registrations[j].fwdRegId = j \/ Restores(j))
    BY <1>6, Zenon DEF FwdInv, FwdType
  <2>2. ASSUME NEW q \in Proc, op[q].pc = "set", op[q].reg = j, op[q].result = j
        PROVE  Restores(j)'
    BY <1>1, <1>6, <2>2, Zenon DEF Restores
  <2>3. registrations'[j] = registrations[j]
    BY <1>6, <2>1, Zenon
  <2> QED
    BY <2>1, <2>2, <2>3, Zenon DEF Restores
<1> QED
  BY <1>2, <1>3, <1>4, <1>5, <1>6, ZenonT(30) DEF FwdInv

\* Only a broker that forwards has processes that are not idle.
LEMMA FwdBusy ==
  ASSUME FwdInv, NEW p \in Proc, op[p].pc \in New \cup Updating
  PROVE  fwdPort # 0 /\ op[p] \in Op /\ FwdOp(p)
<1>1. op[p] \in Op /\ FwdOp(p) /\ (fwdPort = 0 => op[p] = Idle)
  BY Zenon DEF FwdInv, FwdType
<1>2. op[p] # Idle
  BY DEF New, Updating, Idle
<1> QED
  BY <1>1, <1>2, Zenon

\* The other broker answers a new registration, or does not.
LEMMA FwdForwardNew ==
  ASSUME FwdInv, UNCHANGED fwdPort, NEW p \in Proc, fordwardRegisterContext(p)
  PROVE  FwdInv'
<1>1. op[p].pc = "forwardNew" /\ UNCHANGED <<registrations, fwdKnown, now, fwdPort>>
  BY Zenon DEF fordwardRegisterContext, registryVars
<1>2. fwdPort # 0 /\ op[p] \in Op /\ FwdOp(p) /\ op \in [Proc -> Op]
  BY <1>1, FwdBusy, Zenon DEF New, FwdInv, FwdType
<1>3. op[p].reg \in Nat
  BY <1>1, <1>2, OpFields, Zenon DEF New
<1>4. PICK o \in {[pc |-> "setNew", reg |-> op[p].reg, fwdRegId |-> op[p].reg], Idle} : op' = [op EXCEPT ![p] = o]
  BY Zenon DEF fordwardRegisterContext
<1>5. o \in Op
  BY <1>3, <1>4 DEF Op
<1>6. op'[p] = o
  BY <1>2, <1>4, Zenon
<1>7. o.pc \in New => o.reg = op[p].reg
  BY <1>4 DEF New, Idle
<1>8. o.pc \notin Updating
  BY <1>4 DEF Updating, Idle
<1>9. o.pc = "setNew" => o.fwdRegId = o.reg
  BY <1>4 DEF Idle
<1>10. FwdOp(p)'
  BY <1>1, <1>2, <1>6, <1>7, <1>8, <1>9, ZenonT(30) DEF FwdOp, New, Updating
<1> QED
  BY <1>1, <1>2, <1>4, <1>5, <1>7, <1>8, <1>10, FwdGoOn, ZenonT(30) DEF New

\* The id of a new registration is stored.
LEMMA FwdSetNew ==
  ASSUME FwdInv, UNCHANGED fwdPort, NEW p \in Proc, mongoSetFwdRegIdNew(p)
  PROVE  FwdInv'
<1>1. op[p].pc = "setNew" /\ UNCHANGED <<now, fwdPort>> /\ op' = [op EXCEPT ![p] = Idle]
  BY Zenon DEF mongoSetFwdRegIdNew
<1>2. fwdPort # 0 /\ op[p] \in Op /\ FwdOp(p) /\ op \in [Proc -> Op] /\ registrations \in Seq(RegDoc)
  BY <1>1, FwdBusy, Zenon DEF New, FwdInv, FwdType
<1>3. op[p].reg \in Nat /\ op[p].fwdRegId = op[p].reg /\ op[p].reg \in 0 .. Len(registrations)
  BY <1>1, <1>2, OpFields, Zenon DEF New, FwdOp
<1>4. Idle \in Op /\ Idle.pc \notin New \cup Updating
  BY Zenon DEF Op, Idle, New, Updating
<1>5. FwdOp(p)'
  BY <1>1, <1>2, <1>4, Zenon DEF FwdOp, Updating, New
<1>6. CASE UNCHANGED <<registrations, fwdKnown>>
  BY <1>1, <1>2, <1>4, <1>5, <1>6, FwdGoOn, ZenonT(30)
<1>7. CASE op[p].reg # 0 /\ SetFwdRegId(op[p].reg, op[p].fwdRegId) /\ fwdKnown' = fwdKnown \cup {op[p].reg}
  <2> DEFINE i == op[p].reg
  <2>1. i \in DOMAIN registrations
    BY <1>2, <1>3, <1>7, Docs
  <2>2. /\ registrations' \in Seq(RegDoc)
        /\ DOMAIN registrations' = DOMAIN registrations
        /\ Len(registrations') = Len(registrations)
        /\ \A j \in DOMAIN registrations \ {i} : registrations'[j] = registrations[j]
        /\ registrations'[i] = [registrations[i] EXCEPT !.fwdRegId = i]
    BY <1>2, <1>3, <1>7, <2>1, SetFwdRegIdDocs, ZenonT(30)
  <2>3. registrations'[i].fwdRegId = i
    <3>1. registrations[i] \in RegDoc
      BY <1>2, <2>1, Docs, Zenon
    <3> QED
      BY <2>2, <3>1, Zenon DEF RegDoc
  <2>4. \A q \in Proc : op[q].pc \in Updating => op[q].reg # i
    BY <1>1, Zenon DEF FwdInv, New
  <2>5. i = op[p].reg
    BY Zenon
  <2> HIDE DEF i
  <2> QED
    BY <1>1, <1>2, <1>4, <1>5, <1>7, <2>1, <2>2, <2>3, <2>4, <2>5, FwdGoOnStoring, ZenonT(30)
<1> QED
  BY <1>6, <1>7, Zenon DEF mongoSetFwdRegIdNew

\* An update begins by reading the id: mongoGetFwdRegId.
LEMMA FwdGet ==
  ASSUME FwdInv, UNCHANGED fwdPort, NEW p \in Proc, NEW i \in DOMAIN registrations, NEW r \in RegRequest,
         mongoGetFwdRegId(p, i, r)
  PROVE  FwdInv'
<1>1. /\ op[p] = Idle /\ fwdPort # 0 /\ UNCHANGED <<registrations, now, fwdPort>>
      /\ \A q \in Proc : op[q].pc \in New => op[q].reg # i
  BY Zenon DEF mongoGetFwdRegId, New
<1>2. PICK id \in {registrations[i].fwdRegId, 0} :
        /\ op' = [op EXCEPT ![p] = [pc |-> "register", reg |-> i, req |-> r, fwdRegId |-> id]]
        /\ fwdKnown' = IF Overlaps(i) \/ id # registrations[i].fwdRegId THEN fwdKnown \ {i} ELSE fwdKnown
  BY Zenon DEF mongoGetFwdRegId
<1> DEFINE o == [pc |-> "register", reg |-> i, req |-> r, fwdRegId |-> id]
<1>3. i \in Nat /\ op \in [Proc -> Op] /\ registrations[i].fwdRegId \in {0, i}
  BY Docs DEF FwdInv, FwdType
<1>4. o \in Op
  BY <1>2, <1>3 DEF Op
<1>5. i \in fwdKnown' => id = i
  <2>1. ASSUME i \in fwdKnown' PROVE id = i
    <3>1. ~Overlaps(i) /\ id = registrations[i].fwdRegId /\ i \in fwdKnown
      BY <1>2, <2>1, Zenon
    <3>2. registrations[i].fwdRegId = i \/ Restores(i)
      BY <3>1, Zenon DEF FwdInv
    <3> QED
      BY <3>1, <3>2, Zenon DEF Overlaps, Restores
  <2> QED
    BY <2>1, Zenon
<1>6. op'[p] = o
  BY <1>2, <1>3, Zenon
<1>7. o.pc = "register" /\ o.reg = i /\ o.fwdRegId = id
  BY Zenon
<1>8. op' = [op EXCEPT ![p] = o] /\ fwdKnown' \subseteq fwdKnown
  BY <1>2, Zenon
<1> HIDE DEF o
<1>9. FwdOp(p)'
  BY <1>1, <1>2, <1>3, <1>5, <1>6, <1>7, ZenonT(30) DEF FwdOp, New, Updating
<1>10. op[p].pc = "idle" /\ o.pc \notin New
  BY <1>1, <1>7 DEF Idle, New
<1> QED
  BY <1>1, <1>4, <1>7, <1>8, <1>9, <1>10, FwdGoOn, ZenonT(30)

\* The document of an update is stored, without an id.
LEMMA FwdUpdate ==
  ASSUME FwdInv, UNCHANGED fwdPort, NEW p \in Proc, updateRegistration(p)
  PROVE  FwdInv'
<1> PICK i, r : i = op[p].reg /\ r = op[p].req
  BY Zenon
<1>1. op[p].pc = "register" /\ UNCHANGED <<now, fwdPort>>
  BY Zenon DEF updateRegistration
<1>2. PICK result \in {i, 0} :
        /\ mongoRegisterContext(i, r, result)
        /\ op' = [op EXCEPT ![p] = [pc |-> "set", reg |-> i, result |-> result, fwdRegId |-> op[p].fwdRegId]]
        /\ fwdKnown' = IF result = 0 /\ registrations' # registrations THEN fwdKnown \ {i} ELSE fwdKnown
  BY Zenon DEF updateRegistration
<1>3. /\ fwdPort # 0 /\ op[p] \in Op /\ FwdOp(p) /\ op \in [Proc -> Op] /\ registrations \in Seq(RegDoc)
      /\ now \in Nat
  BY <1>1, FwdBusy, Zenon DEF Updating, FwdInv, FwdType
<1>4. /\ i \in Nat /\ r \in RegRequest /\ op[p].fwdRegId \in Nat /\ i \in DOMAIN registrations
      /\ op[p].fwdRegId \in {0, i} /\ (i \in fwdKnown => op[p].fwdRegId = i)
  BY <1>1, <1>3, OpFields, ZenonT(30) DEF Updating, FwdOp
<1> DEFINE o == [pc |-> "set", reg |-> i, result |-> result, fwdRegId |-> op[p].fwdRegId]
<1>5. o \in Op
  BY <1>2, <1>4 DEF Op
<1>6. o.pc = "set" /\ o.reg = i /\ o.result = result /\ o.fwdRegId = op[p].fwdRegId
  BY Zenon
<1>7. op' = [op EXCEPT ![p] = o] /\ op'[p] = o /\ fwdKnown' \subseteq fwdKnown
  BY <1>2, <1>3, Zenon
<1>8. o.pc \notin New /\ o.pc \in Updating /\ op[p].pc \in Updating /\ i = op[p].reg
  BY <1>1, Zenon DEF New, Updating
<1> HIDE DEF o
<1>9. DOMAIN registrations' = DOMAIN registrations => FwdOp(p)'
  BY <1>2, <1>3, <1>4, <1>6, <1>7, <1>8, ZenonT(30) DEF FwdOp
<1>10. CASE registrations' = registrations
  BY <1>1, <1>3, <1>5, <1>6, <1>7, <1>8, <1>9, <1>10, FwdGoOn, ZenonT(30)
<1>11. CASE registrations' # registrations
  <2>1. registrations' = Upserted(i, r)
    BY <1>2, <1>11, RegisterStep, ZenonT(30)
  <2>2. i \in 1 .. NewId
    BY <1>3, <1>4, Docs DEF NewId
  <2>3. /\ registrations' \in Seq(RegDoc)
        /\ DOMAIN registrations' = DOMAIN registrations \cup {i}
        /\ \A j \in DOMAIN registrations \ {i} : registrations'[j] = registrations[j]
        /\ registrations'[i] = regDoc(r)
    BY <1>3, <1>4, <2>1, <2>2, UpsertedDocs, ZenonT(30)
  <2>4. DOMAIN registrations' = DOMAIN registrations /\ Len(registrations') = Len(registrations)
    BY <1>3, <1>4, <2>3, Docs
  <2>5. registrations'[i].fwdRegId = 0
    BY <2>3 DEF regDoc
  <2>6. i \in fwdKnown' => result = i
    BY <1>2, <1>11, Zenon
  <2>7. i \in fwdKnown' => Restores(i)'
    BY <1>6, <1>7, <2>6, Zenon DEF Restores
  <2> QED
    BY <1>1, <1>3, <1>4, <1>5, <1>6, <1>7, <1>8, <1>9, <2>3, <2>4, <2>5, <2>7, FwdGoOnStoring, ZenonT(30)
<1> QED
  BY <1>10, <1>11, Zenon

\* The id that was read is stored again: mongoSetFwdRegId.
LEMMA FwdSet ==
  ASSUME FwdInv, UNCHANGED fwdPort, NEW p \in Proc, mongoSetFwdRegId(p)
  PROVE  FwdInv'
<1> PICK i, id, result : i = op[p].reg /\ id = op[p].fwdRegId /\ result = op[p].result
  BY Zenon
<1> DEFINE o == [pc |-> "forwardUpdate", reg |-> i, fwdRegId |-> id]
<1>1. op[p].pc = "set" /\ UNCHANGED <<now, fwdPort>> /\ op' = [op EXCEPT ![p] = o]
  BY Zenon DEF mongoSetFwdRegId
<1>2. /\ fwdPort # 0 /\ op[p] \in Op /\ FwdOp(p) /\ op \in [Proc -> Op] /\ registrations \in Seq(RegDoc)
      /\ DOMAIN registrations = 1 .. Len(registrations)
  BY <1>1, FwdBusy, Docs, ZenonT(30) DEF Updating, FwdInv, FwdType
<1>3. /\ i \in Nat /\ id \in Nat /\ i \in DOMAIN registrations
      /\ id \in {0, i} /\ (i \in fwdKnown => id = i) /\ result \in {0, i} /\ i # 0
  BY <1>1, <1>2, OpFields DEF Updating, FwdOp
<1>4. o \in Op
  BY <1>3, Zenon DEF Op
<1>5. o.pc = "forwardUpdate" /\ o.reg = i /\ o.fwdRegId = id
  BY Zenon
<1>6. op'[p] = o
  BY <1>1, <1>2, Zenon
<1>7. o.pc \notin New /\ o.pc \in Updating /\ op[p].pc \in Updating
  BY <1>1, Zenon DEF New, Updating
<1> HIDE DEF o
<1>8. fwdKnown' \subseteq fwdKnown /\ DOMAIN registrations' = DOMAIN registrations => FwdOp(p)'
  BY <1>3, <1>5, <1>6, <1>7, ZenonT(30) DEF FwdOp
<1>9. CASE /\ UNCHANGED registrations
           /\ \/ result # 0 /\ fwdKnown' = fwdKnown \ {i}
              \/ result = 0 /\ UNCHANGED fwdKnown
  BY <1>1, <1>2, <1>3, <1>4, <1>5, <1>7, <1>8, <1>9, FwdGoOn, ZenonT(30)
<1>10. CASE result # 0 /\ SetFwdRegId(result, id) /\ UNCHANGED fwdKnown
  <2>1. /\ registrations' \in Seq(RegDoc)
        /\ DOMAIN registrations' = DOMAIN registrations
        /\ Len(registrations') = Len(registrations)
        /\ \A j \in DOMAIN registrations \ {i} : registrations'[j] = registrations[j]
        /\ registrations'[i] = [registrations[i] EXCEPT !.fwdRegId = id]
    BY <1>2, <1>3, <1>10, SetFwdRegIdDocs, ZenonT(30)
  <2>2. registrations'[i].fwdRegId = id
    <3>1. registrations[i] \in RegDoc
      BY <1>2, <1>3, Docs, Zenon
    <3> QED
      BY <2>1, <3>1, Zenon DEF RegDoc
  <2> QED
    BY <1>1, <1>2, <1>3, <1>4, <1>5, <1>7, <1>8, <1>10, <2>1, <2>2, FwdGoOnStoring, ZenonT(30)
<1> QED
  BY <1>9, <1>10, Zenon DEF mongoSetFwdRegId

\* The update is forwarded.
LEMMA FwdForwardUpdate ==
  ASSUME FwdInv, UNCHANGED fwdPort, NEW p \in Proc, forwardUpdate(p)
  PROVE  FwdInv'
<1>1. /\ op[p].pc = "forwardUpdate" /\ op' = [op EXCEPT ![p] = Idle]
      /\ UNCHANGED <<registrations, fwdKnown, now, fwdPort>>
  BY Zenon DEF forwardUpdate, registryVars
<1>2. fwdPort # 0 /\ op \in [Proc -> Op]
  BY <1>1, FwdBusy, Zenon DEF Updating, FwdInv, FwdType
<1>3. Idle \in Op /\ Idle.pc \notin New \cup Updating
  BY Zenon DEF Op, Idle, New, Updating
<1>4. FwdOp(p)'
  BY <1>1, <1>2, <1>3, ZenonT(30) DEF FwdOp, New, Updating
<1> QED
  BY <1>1, <1>2, <1>3, <1>4, FwdGoOn, ZenonT(30)

\* Nothing that FwdInv is about changes, but the time.
LEMMA FwdFrame ==
  ASSUME FwdInv, UNCHANGED <<registrations, op, fwdKnown, fwdPort>>, now' \in Nat
  PROVE  FwdInv'
  BY DEF FwdInv, FwdType, FwdOp, Restores

\* Every step of the registry keeps the invariant.
LEMMA FwdNext ==
  ASSUME FwdInv, NextAvailability
  PROVE  FwdInv'
<1>1. NextRegistry /\ UNCHANGED fwdPort /\ now \in Nat
  BY Zenon DEF NextAvailability, FwdInv, FwdType
<1>2. RegisterRequests \subseteq RegRequest
  BY RequestsAssumption, Zenon DEF RegRequest
<1>3. ASSUME NEW p \in Proc, NEW r \in RegisterRequests, postRegisterContext(p, r) PROVE FwdInv'
  BY <1>1, <1>2, <1>3, FwdPost, ZenonT(30)
<1>4. ASSUME NEW p \in Proc, NEW r \in RegisterRequests, NEW i \in DOMAIN registrations, mongoGetFwdRegId(p, i, r)
      PROVE  FwdInv'
  BY <1>1, <1>2, <1>4, FwdGet, ZenonT(30)
<1>5. ASSUME NEW p \in Proc, fordwardRegisterContext(p) PROVE FwdInv'
  BY <1>1, <1>5, FwdForwardNew, Zenon
<1>6. ASSUME NEW p \in Proc, mongoSetFwdRegIdNew(p) PROVE FwdInv'
  BY <1>1, <1>6, FwdSetNew, ZenonT(30)
<1>7. ASSUME NEW p \in Proc, updateRegistration(p) PROVE FwdInv'
  BY <1>1, <1>7, FwdUpdate, Zenon
<1>8. ASSUME NEW p \in Proc, mongoSetFwdRegId(p) PROVE FwdInv'
  BY <1>1, <1>8, FwdSet, Zenon
<1>9. ASSUME NEW p \in Proc, forwardUpdate(p) PROVE FwdInv'
  BY <1>1, <1>9, FwdForwardUpdate, Zenon
<1>10. ASSUME NEW r \in RegisterRequests, mongoNotifyContextAvailability(r) PROVE FwdInv'
  BY <1>1, <1>2, <1>10, FwdNotify, ZenonT(30)
<1>11. ASSUME NEW r \in RegisterRequests, NEW i \in 1 .. NewId, registerContext(i, r) PROVE FwdInv'
  BY <1>1, <1>2, <1>11, FwdRegister, ZenonT(30)
<1>12. ASSUME NEW s \in SubId, mongoUnsubscribeContextAvailability(s) PROVE FwdInv'
  BY <1>1, <1>12, FwdFrame, Zenon DEF mongoUnsubscribeContextAvailability
<1>13. ASSUME NEW s \in SubId, NEW r \in AvailRequests, mongoSubscribeContextAvailability(s, r) PROVE FwdInv'
  BY <1>1, <1>13, FwdFrame, Zenon DEF mongoSubscribeContextAvailability
<1>14. ASSUME NEW s \in SubId, NEW r \in AvailRequests, mongoUpdateContextAvailabilitySubscription(s, r)
       PROVE  FwdInv'
  BY <1>1, <1>14, FwdFrame, ZenonT(30) DEF mongoUpdateContextAvailabilitySubscription
<1>15. ASSUME Tick PROVE FwdInv'
  BY <1>1, <1>15, FwdFrame DEF Tick, registryVars
<1> QED
  BY <1>1, <1>3, <1>4, <1>5, <1>6, <1>7, <1>8, <1>9, <1>10, <1>11, <1>12, <1>13, <1>14, <1>15, ZenonT(30) DEF NextRegistry

\* FwdInv is an invariant of context availability.
THEOREM FwdInvariant == AvailabilitySpec => []FwdInv
<1>1. InitAvailability => FwdInv
  <2> SUFFICES ASSUME InitAvailability PROVE FwdInv
    BY Zenon
  <2>1. /\ registrations = <<>> /\ fwdKnown = {} /\ now = 0
        /\ op = [p \in Proc |-> Idle]
    BY Zenon DEF InitAvailability
  <2>2. registrations \in Seq(RegDoc) /\ DOMAIN registrations = {}
    BY <2>1, Docs
  <2>3. op \in [Proc -> Op]
    BY <2>1, Zenon DEF Op
  <2> QED
    BY <2>1, <2>2, <2>3, Zenon DEF FwdInv, FwdType, FwdOp, New, Updating, Idle
<1>2. ASSUME FwdInv, UNCHANGED availabilityVars PROVE FwdInv'
  <2>1. now \in Nat
    BY <1>2, Zenon DEF FwdInv, FwdType
  <2> QED
    BY <1>2, <2>1, FwdFrame, Zenon DEF availabilityVars, registryVars
<1>3. FwdInv /\ [NextAvailability]_availabilityVars => FwdInv'
  BY <1>2, FwdNext, Zenon
<1> QED
  BY <1>1, <1>3, PTL DEF AvailabilitySpec

\* No registration ever gets the id that the other broker gave for another one, and the
\* id given for a registration survives every update of it, for any number of requests
\* that register, update and forward at the same time, and any failures.
THEOREM FwdRegIdKeptAlways == AvailabilitySpec => []FwdRegIdKept
<1>1. FwdInv => FwdRegIdKept
  BY Zenon DEF FwdInv, FwdOp, Updating, Restores, Overlaps, FwdRegIdKept
<1> QED
  BY <1>1, FwdInvariant, PTL

-----------------------------------------------------------------------------
(* What subscribers know.                                                  *)

\* The entity e, as registered, is asked for by q of a request, as regexec() or equality
\* and the type say.
AskedFor(e, q) == q.type = e.type /\ IF q.isPattern THEN e.id \in Regex[q.id] ELSE q.id = e.id

\* A notification holds what the subscriber wants of a registration that is not expired,
\* when the entities that are looked for ask for it and there is room.
LEMMA CrrsCover ==
  ASSUME NEW docs \in Seq(RegDoc), Len(docs) <= DefaultLimit, NEW sub, NEW enV,
         NEW j \in DOMAIN docs, docs[j].expiration > now,
         \A cr \in ToSet(docs[j].crs) : \A e \in Wanted(sub, cr) : \E q \in enV : AskedFor(e, q)
  PROVE  Covers(Crrs(docs, sub, enV), sub, docs[j])
<1> SUFFICES ASSUME NEW cr \in ToSet(docs[j].crs), Wanted(sub, cr) # {}
             PROVE  \E crr \in ToSet(Crrs(docs, sub, enV)) :
                      /\ Wanted(sub, cr) \subseteq crr.entities
                      /\ {a \in cr.attrs : includedAttribute(a, sub.attrs)} \subseteq crr.attrs
                      /\ crr.prApp = cr.prApp
  BY Zenon DEF Covers
<1> PICK e \in Wanted(sub, cr) : TRUE
  BY Zenon
<1> PICK q \in enV : AskedFor(e, q)
  BY Zenon
<1> DEFINE crr == crrOf(cr, enV, sub.attrs)
<1>1. e \in cr.entities /\ (sub.attrs = {} \/ sub.attrs \cap cr.attrs # {})
  BY Zenon DEF Wanted
<1>2. Wanted(sub, cr) \subseteq crr.entities
  <2> SUFFICES ASSUME NEW w \in Wanted(sub, cr) PROVE w \in crr.entities
    BY Zenon
  <2>1. w \in cr.entities
    BY Zenon DEF Wanted
  <2>2. PICK p \in enV : AskedFor(w, p)
    BY Zenon
  <2>3. includedEntity(w, enV)
    BY ONLY <2>2, Zenon DEF includedEntity, AskedFor
  <2> QED
    BY <2>1, <2>3, Zenon DEF crrOf
<1>3. crr.attrs = {a \in cr.attrs : includedAttribute(a, sub.attrs)} /\ crr.prApp = cr.prApp
  BY Zenon DEF crrOf
<1>4. Yields(cr, enV, sub.attrs, crr)
  BY <1>1, <1>2, <1>3, Zenon DEF Yields, includedAttribute
<1>5. e \in CrEntities(docs[j]) /\ cr.attrs \subseteq CrAttrs(docs[j])
  BY <1>1, Zenon DEF CrEntities, CrAttrs
<1>6. RegistrationMatches(docs[j], enV, sub.attrs, {}, now)
  <2>1. EntityOr(docs[j], q)
    BY <1>5, Zenon DEF EntityOr, AskedFor
  <2>2. sub.attrs # {} => CrAttrs(docs[j]) \cap sub.attrs # {}
    BY <1>1, <1>5, Zenon
  <2> QED
    BY <2>1, <2>2, Zenon DEF RegistrationMatches, fillQueryServicePath
<1> HIDE DEF crr
<1>7. crr \in ToSet(Crrs(docs, sub, enV))
  <2> PICK found, answer : /\ found = MatchingDocs(docs, enV, sub.attrs, {}, now)
                           /\ answer = registrationsQuery(docs, enV, sub.attrs, {}, now, 0, DefaultLimit)
    BY Zenon
  <2>1. found \in Seq(RegDoc) /\ Len(found) <= Len(docs)
    BY MatchingMembers, Zenon
  <2>2. Len(found) \in Nat /\ Len(docs) \in Nat /\ DefaultLimit \in Nat
    BY ONLY <2>1, docs \in Seq(RegDoc), LenProperties, RequestsAssumption, ZenonT(30)
  <2>3. Len(found) <= DefaultLimit
    BY <2>1, <2>2
  <2>4. Len(found) <= DefaultLimit =>
          \A i \in DOMAIN docs : RegistrationMatches(docs[i], enV, sub.attrs, {}, now) =>
            \A c \in ToSet(docs[i].crs) : \A x : Yields(c, enV, sub.attrs, x) => x \in ToSet(answer)
    BY <2>2, QueryMembers
  <2> QED
    BY <1>4, <1>6, <2>3, <2>4, ZenonT(30) DEF Crrs
<1> QED
  BY <1>2, <1>3, <1>7, Zenon


\* A document of the availability subscriptions.
Casub == [entities : SUBSET EntityId, attrs : SUBSET STRING, expiration : Nat, count : Nat]

Casubs(subs) == \A s \in DOMAIN subs : subs[s] \in Casub

KnowsType ==
  /\ acked \subseteq DOMAIN registrations
  /\ DOMAIN told = DOMAIN casubs
  /\ Casubs(casubs)

\* The inductive invariant of SubscriberKnows.
KnowsInv == KnowsType /\ SubscriberKnows

\* The queries of addTriggeredSubscriptions find every subscription that wants something
\* of a context registration.
LEMMA WantedTriggers ==
  ASSUME NEW sub \in Casub, NEW cr, NEW time, sub.expiration > time, Wanted(sub, cr) # {}
  PROVE  TriggeredBy(sub, cr, time)
<1> PICK e \in cr.entities \cap cr.spelled, q \in sub.entities :
           /\ e.type # "" /\ AskedFor(e, q) /\ q.spelled
           /\ sub.attrs = {} \/ sub.attrs \cap cr.attrs # {}
  BY Zenon DEF Wanted, AskedFor
<1>1. q \in EntityId
  BY Zenon DEF Casub
<1>2. CASE q.isPattern
  BY <1>2, Zenon DEF AskedFor, TriggeredBy, PatternMatches
<1>3. CASE ~q.isPattern
  <2>1. q = Exactly(e)
    BY <1>1, <1>3, Zenon DEF AskedFor, EntityId, Exactly
  <2> QED
    BY <2>1, Zenon DEF TriggeredBy, NoPatternMatches
<1> QED
  BY <1>2, <1>3, Zenon

\* What is to be sent depends on the entities and attributes of the subscription and on
\* the context registrations only.
LEMMA SameCovers ==
  ASSUME NEW crrs, NEW sub, NEW sub2, NEW doc, NEW doc2, Covers(crrs, sub, doc),
         sub2.entities = sub.entities, sub2.attrs = sub.attrs, doc2.crs = doc.crs
  PROVE  Covers(crrs, sub2, doc2)
<1>1. ASSUME NEW cr PROVE Wanted(sub2, cr) = Wanted(sub, cr)
  BY ZenonT(30) DEF Wanted
<1> QED
  BY <1>1, ZenonT(30) DEF Covers

\* The documents that are not in D stay.
Kept(docs, D) == \A j \in DOMAIN registrations \ D : docs[j] = registrations[j]

\* Of each subscription and registration of acks that both are valid, neither changed,
\* or the notification looks for what is wanted, or nothing is.
Noticed(docs, acks, subs, S, enV, D) ==
  \A s \in DOMAIN subs, j \in acks :
    subs[s].expiration > now /\ docs[j].expiration > now =>
      \/ /\ s \in DOMAIN casubs /\ j \in acked \ D
         /\ subs[s].entities = casubs[s].entities /\ subs[s].attrs = casubs[s].attrs
         /\ subs[s].expiration = casubs[s].expiration
      \/ /\ s \in S
         /\ \A cr \in ToSet(docs[j].crs) : \A e \in Wanted(subs[s], cr) : \E q \in enV : AskedFor(e, q)
      \/ Covers(<<>>, subs[s], docs[j])

\* The notifications tell what has changed, of the registrations D or of the
\* subscriptions, which now are subs.
LEMMA KnowsNotify ==
  ASSUME KnowsInv, now' = now, registrations \in Seq(RegDoc),
         NEW docs \in Seq(RegDoc), registrations' = docs, Len(docs) >= Len(registrations),
         NEW D, Kept(docs, D), acked' \subseteq DOMAIN docs,
         NEW subs, Casubs(subs), NEW S \in SUBSET DOMAIN subs, NEW enV, NEW out,
         processAvailabilitySubscription(docs, subs, S, enV, out),
         Noticed(docs, acked', subs, S, enV, D)
  PROVE  KnowsInv'
<1> DEFINE Sends(s) == s \in S /\ out[s] # "unread" /\ Crrs(docs, subs[s], enV) # <<>>
<1>1. /\ casubs' = [s \in DOMAIN subs |->
                      IF Sends(s) /\ out[s] = "sent" THEN mongoUpdateCasubNewNotification(subs[s]) ELSE subs[s]]
      /\ told' = [s \in DOMAIN subs |->
                    {i \in DOMAIN docs :
                       \/ /\ s \in DOMAIN casubs /\ i \in told[s]
                          /\ i \in DOMAIN registrations /\ docs[i] = registrations[i]
                          /\ <<subs[s].entities, subs[s].attrs>> = <<casubs[s].entities, casubs[s].attrs>>
                       \/ Sends(s) /\ Covers(Crrs(docs, subs[s], enV), subs[s], docs[i])}]
      /\ unread' = (unread \cap DOMAIN subs) \cup {s \in S : out[s] = "unread"}
  BY Zenon DEF processAvailabilitySubscription
<1>2. ASSUME NEW s \in DOMAIN subs
      PROVE  /\ casubs'[s] \in Casub /\ casubs'[s].entities = subs[s].entities
             /\ casubs'[s].attrs = subs[s].attrs /\ casubs'[s].expiration = subs[s].expiration
  <2>1. \A c \in Casub : LET d == mongoUpdateCasubNewNotification(c) IN
           d \in Casub /\ d.entities = c.entities /\ d.attrs = c.attrs /\ d.expiration = c.expiration
    BY SMTT(20) DEF mongoUpdateCasubNewNotification, Casub
  <2>2. casubs'[s] \in {subs[s], mongoUpdateCasubNewNotification(subs[s])}
    BY <1>1, Zenon
  <2> QED
    BY <2>1, <2>2, Zenon DEF Casubs
<1>3. KnowsType'
  BY <1>1, <1>2, Zenon DEF KnowsType, Casubs
<1>4. ASSUME Len(docs) <= DefaultLimit, NEW s \in DOMAIN subs \ unread', NEW j \in acked',
             subs[s].expiration > now, docs[j].expiration > now
      PROVE  j \in told'[s] \/ Covers(<<>>, subs[s], docs[j])
  <2>1. CASE /\ s \in DOMAIN casubs /\ j \in acked \ D
             /\ subs[s].entities = casubs[s].entities /\ subs[s].attrs = casubs[s].attrs
             /\ subs[s].expiration = casubs[s].expiration
    <3>1. j \in DOMAIN registrations /\ docs[j] = registrations[j] /\ j \in DOMAIN docs /\ s \notin unread
      BY <1>1, <1>4, <2>1, ZenonT(30) DEF KnowsInv, KnowsType, Kept
    <3>2. Len(registrations) <= DefaultLimit
      <4>1. Len(registrations) \in Nat /\ Len(docs) \in Nat /\ DefaultLimit \in Nat
        BY RequestsAssumption, LenProperties, Zenon
      <4> QED
        BY <1>4, <4>1
    <3>3. j \in told[s] \/ Covers(<<>>, casubs[s], registrations[j])
      BY <1>4, <2>1, <3>1, <3>2, ZenonT(30) DEF KnowsInv, SubscriberKnows
    <3>4. j \in told[s] => j \in told'[s]
      BY <1>1, <2>1, <3>1, Zenon
    <3> QED
      BY <2>1, <3>1, <3>3, <3>4, SameCovers, ZenonT(30)
  <2>2. CASE /\ s \in S
             /\ \A cr \in ToSet(docs[j].crs) : \A e \in Wanted(subs[s], cr) : \E q \in enV : AskedFor(e, q)
    <3>1. Covers(Crrs(docs, subs[s], enV), subs[s], docs[j])
      BY <1>4, <2>2, CrrsCover, Zenon
    <3>2. out[s] # "unread" /\ j \in DOMAIN docs
      BY <1>1, <1>4, <2>2, ZenonT(30)
    <3>3. CASE Crrs(docs, subs[s], enV) = <<>>
      BY <3>1, <3>3, Zenon
    <3>4. CASE Crrs(docs, subs[s], enV) # <<>>
      BY <1>1, <2>2, <3>1, <3>2, <3>4, ZenonT(30)
    <3> QED
      BY <3>3, <3>4, Zenon
  <2> QED
    BY <1>4, <2>1, <2>2, ZenonT(30) DEF Noticed
<1>5. SubscriberKnows'
  <2> SUFFICES ASSUME Len(registrations') <= DefaultLimit, NEW s \in DOMAIN casubs' \ unread', NEW j \in acked',
                      casubs'[s].expiration > now', registrations'[j].expiration > now'
               PROVE  j \in told'[s] \/ Covers(<<>>, casubs'[s], registrations'[j])
    BY Zenon DEF SubscriberKnows
  <2>1. s \in DOMAIN subs \ unread'
    BY <1>1, Zenon
  <2>2. j \in told'[s] \/ Covers(<<>>, subs[s], docs[j])
    BY <1>2, <1>4, <2>1, ZenonT(30)
  <2> QED
    BY <1>2, <2>1, <2>2, SameCovers, ZenonT(30)
<1> QED
  BY <1>3, <1>5, Zenon DEF KnowsInv

\* A registration that is stored is looked for in the notifications it triggers.
LEMMA KnowsRegisters ==
  ASSUME KnowsInv, now' = now, registrations \in Seq(RegDoc), now \in Nat,
         NEW i \in 1 .. NewId, NEW r \in RegRequest, Registers(i, r)
  PROVE  KnowsInv'
<1> PICK docs : docs = Upserted(i, r)
  BY Zenon
<1>1. /\ docs \in Seq(RegDoc) /\ DOMAIN docs = DOMAIN registrations \cup {i}
      /\ Len(docs) >= Len(registrations)
      /\ \A j \in DOMAIN registrations \ {i} : docs[j] = registrations[j]
      /\ docs[i] = regDoc(r)
  BY UpsertedDocs, Zenon
<1>2. registrations' = docs /\ acked' = acked \cup {i}
  BY Zenon DEF Registers
<1> PICK S, enV, subs : S = addTriggeredSubscriptions(r) /\ enV = triggerEntities(r) /\ subs = casubs
  BY Zenon
<1>3. PICK out : processAvailabilitySubscription(docs, subs, S, enV, out)
  BY <1>2, Zenon DEF Registers
<1>4. acked' \subseteq DOMAIN docs /\ Casubs(subs)
  BY <1>1, <1>2, Zenon DEF KnowsInv, KnowsType
<1>5. S \in SUBSET DOMAIN subs
  BY Zenon DEF addTriggeredSubscriptions
<1>6. docs[i].crs = r.crs
  BY <1>1 DEF regDoc
<1>7. ASSUME NEW s \in DOMAIN subs, subs[s].expiration > now, s \notin S
      PROVE  Covers(<<>>, subs[s], docs[i])
  <2>1. \A cr \in ToSet(r.crs) : ~TriggeredBy(subs[s], cr, now)
    BY <1>7, Zenon DEF addTriggeredSubscriptions
  <2>2. \A cr \in ToSet(r.crs) : Wanted(subs[s], cr) = {}
    BY <1>4, <1>7, <2>1, WantedTriggers, ZenonT(30) DEF Casubs
  <2> QED
    BY <1>6, <2>2, Zenon DEF Covers
<1>8. ASSUME NEW s, NEW cr \in ToSet(docs[i].crs), NEW e \in Wanted(subs[s], cr)
      PROVE  \E q \in enV : AskedFor(e, q)
  <2> DEFINE q == [id |-> e.id, type |-> e.type, isPattern |-> FALSE]
  <2>1. e \in cr.entities /\ cr \in ToSet(r.crs)
    BY <1>6, Zenon DEF Wanted
  <2>2. q \in enV
    BY <2>1, Zenon DEF triggerEntities
  <2>3. AskedFor(e, q)
    BY Zenon DEF AskedFor
  <2> QED
    BY <2>2, <2>3, ZenonT(30)
<1>9. Noticed(docs, acked', subs, S, enV, {i})
  BY <1>2, <1>7, <1>8, ZenonT(30) DEF Noticed
<1>10. Kept(docs, {i})
  BY <1>1, Zenon DEF Kept
<1> QED
  BY <1>1, <1>2, <1>3, <1>4, <1>5, <1>9, <1>10, KnowsNotify, ZenonT(30)

\* Nothing is acknowledged or told, and the documents of the registrations stay, but for
\* the id of the other broker.
LEMMA KnowsFrame ==
  ASSUME KnowsInv, UNCHANGED <<casubs, told, unread, acked>>, registrations \in Seq(RegDoc),
         now \in Nat, now' \in Nat, now' >= now,
         DOMAIN registrations' = DOMAIN registrations, Len(registrations') = Len(registrations),
         \A j \in DOMAIN registrations : /\ registrations'[j].crs = registrations[j].crs
                                         /\ registrations'[j].expiration = registrations[j].expiration
  PROVE  KnowsInv'
<1>1. KnowsType'
  BY Zenon DEF KnowsInv, KnowsType
<1>2. SubscriberKnows'
  <2> SUFFICES ASSUME Len(registrations') <= DefaultLimit, NEW s \in DOMAIN casubs \ unread, NEW j \in acked,
                      casubs[s].expiration > now', registrations'[j].expiration > now'
               PROVE  j \in told[s] \/ Covers(<<>>, casubs[s], registrations'[j])
    BY Zenon DEF SubscriberKnows
  <2>1. j \in DOMAIN registrations /\ casubs[s] \in Casub
    BY Zenon DEF KnowsInv, KnowsType, Casubs
  <2>2. registrations[j] \in RegDoc
    BY <2>1, ElementOfSeq, LenProperties, ZenonT(30)
  <2>3. casubs[s].expiration \in Nat /\ registrations[j].expiration \in Nat
    BY <2>1, <2>2, Zenon DEF Casub, RegDoc
  <2>4. casubs[s].expiration > now /\ registrations[j].expiration > now
    BY <2>1, <2>3
  <2>5. j \in told[s] \/ Covers(<<>>, casubs[s], registrations[j])
    BY <2>4, Zenon DEF KnowsInv, SubscriberKnows
  <2> QED
    BY <2>1, <2>5, SameCovers, ZenonT(30)
<1> QED
  BY <1>1, <1>2, Zenon DEF KnowsInv

\* The registration of a document fails or not, whether it is new or an update.
LEMMA KnowsRegister ==
  ASSUME KnowsInv, now' = now, registrations \in Seq(RegDoc), now \in Nat,
         NEW i \in 1 .. NewId, NEW r \in RegRequest, NEW result,
         processRegisterContext(i, r, result) \/ mongoRegisterContext(i, r, result)
  PROVE  KnowsInv'
<1>1. CASE Registers(i, r)
  BY <1>1, KnowsRegisters, Zenon
<1>2. CASE UNCHANGED <<registrations, casubs, told, unread, acked>>
  BY <1>2, KnowsFrame
<1>3. CASE /\ registrations' = Upserted(i, r) /\ acked' = acked \ {i}
           /\ told' = [s \in DOMAIN told |-> told[s] \ {i}] /\ UNCHANGED <<casubs, unread>>
  <2> PICK docs : docs = registrations'
    BY Zenon
  <2>1. /\ docs \in Seq(RegDoc) /\ DOMAIN docs = DOMAIN registrations \cup {i}
        /\ Len(docs) >= Len(registrations)
        /\ \A j \in DOMAIN registrations \ {i} : docs[j] = registrations[j]
    BY <1>3, UpsertedDocs, Zenon
  <2>2. KnowsType'
    BY <1>3, <2>1, Zenon DEF KnowsInv, KnowsType
  <2>3. Len(docs) <= DefaultLimit => Len(registrations) <= DefaultLimit
    <3>1. Len(registrations) \in Nat /\ Len(docs) \in Nat /\ DefaultLimit \in Nat
      BY <2>1, RequestsAssumption, LenProperties, Zenon
    <3> QED
      BY <2>1, <3>1
  <2>4. \A j \in acked' : j \in DOMAIN registrations \ {i} /\ j \in acked
    BY <1>3, Zenon DEF KnowsInv, KnowsType
  <2>5. \A s \in DOMAIN casubs, j \in acked' : told'[s] = told[s] \ {i} /\ docs[j] = registrations[j] /\ j # i
    BY <1>3, <2>1, <2>4, ZenonT(30) DEF KnowsInv, KnowsType
  <2>6. SubscriberKnows'
    BY <1>3, <2>3, <2>4, <2>5 DEF KnowsInv, SubscriberKnows
  <2> QED
    BY <2>2, <2>6, Zenon DEF KnowsInv
<1>4. processRegisterContext(i, r, result) => KnowsInv'
  BY <1>1, <1>2, <1>3, ZenonT(30) DEF processRegisterContext, LoopFails, UpsertFails
<1> QED
  BY <1>2, <1>4, Zenon DEF mongoRegisterContext

\* The subscription s is new or replaced: its notification looks for the entities it has.
LEMMA KnowsSubscribed ==
  ASSUME KnowsInv, UNCHANGED <<now, registrations, acked>>, registrations \in Seq(RegDoc),
         NEW s, NEW enV, NEW subs, NEW out, Casubs(subs), DOMAIN subs = DOMAIN casubs \cup {s}, subs[s].entities = enV,
         \A t \in DOMAIN casubs \ {s} : subs[t] = casubs[t],
         processAvailabilitySubscription(registrations, subs, {s}, enV, out)
  PROVE  KnowsInv'
<1> PICK docs : docs = registrations
  BY Zenon
<1>1. docs \in Seq(RegDoc) /\ registrations' = docs /\ Len(docs) >= Len(registrations) /\ Kept(docs, {})
  <2>1. Len(registrations) \in Nat
    BY LenProperties, Zenon
  <2> QED
    BY <2>1 DEF Kept
<1>2. acked' \subseteq DOMAIN docs /\ {s} \in SUBSET DOMAIN subs /\ now' = now
  BY Zenon DEF KnowsInv, KnowsType
<1>3. Noticed(docs, acked', subs, {s}, enV, {})
  <2>1. \A cr : \A e \in Wanted(subs[s], cr) : \E q \in enV : AskedFor(e, q)
    BY Zenon DEF Wanted, AskedFor
  <2> QED
    BY <2>1, Zenon DEF Noticed
<1> QED
  BY <1>1, <1>2, <1>3, KnowsNotify, ZenonT(30)

\* A new subscription is told at once what is registered: mongoSubscribeContextAvailability.
LEMMA KnowsSubscribe ==
  ASSUME KnowsInv, registrations \in Seq(RegDoc), now \in Nat, NEW s \in SubId, NEW r \in AvailRequests,
         mongoSubscribeContextAvailability(s, r)
  PROVE  KnowsInv'
<1> PICK new : new = [t \in DOMAIN casubs \cup {s} |->
                        IF t = s THEN casub(r, expirationAt(r.duration), 0) ELSE casubs[t]]
  BY Zenon
<1>1. s \notin DOMAIN casubs /\ UNCHANGED <<now, registrations, acked>>
  BY Zenon DEF mongoSubscribeContextAvailability
<1>2. /\ DOMAIN new = DOMAIN casubs \cup {s} /\ new[s] = casub(r, expirationAt(r.duration), 0)
      /\ \A t \in DOMAIN casubs \ {s} : new[t] = casubs[t]
  BY Zenon
<1>3. new[s] \in Casub /\ new[s].entities = r.entities
  <2>1. r \in [entities : SUBSET EntityId, attrs : SUBSET STRING, duration : Nat]
    BY RequestsAssumption, Zenon
  <2>2. expirationAt(r.duration) \in Nat
    BY <2>1, RequestsAssumption DEF expirationAt
  <2> QED
    BY <1>2, <2>1, <2>2, ZenonT(30) DEF casub, Casub
<1>4. Casubs(new)
  BY <1>2, <1>3, ZenonT(30) DEF Casubs, KnowsInv, KnowsType
<1>5. CASE \E out : processAvailabilitySubscription(registrations, new, {s}, r.entities, out)
  BY <1>1, <1>2, <1>3, <1>4, <1>5, KnowsSubscribed, ZenonT(30)
<1>6. CASE /\ casubs' = new /\ told' = [t \in DOMAIN told \cup {s} |-> IF t = s THEN {} ELSE told[t]]
           /\ unread' = unread \cup {s}
  <2>1. KnowsType'
    BY <1>1, <1>2, <1>4, <1>6, ZenonT(30) DEF KnowsInv, KnowsType
  <2>2. SubscriberKnows'
    BY <1>1, <1>2, <1>6, ZenonT(30) DEF KnowsInv, KnowsType, SubscriberKnows
  <2> QED
    BY <2>1, <2>2, ZenonT(30) DEF KnowsInv
<1> QED
  BY <1>5, <1>6, Zenon DEF mongoSubscribeContextAvailability

\* A subscription that changes is told again: mongoUpdateContextAvailabilitySubscription.
LEMMA KnowsUpdate ==
  ASSUME KnowsInv, registrations \in Seq(RegDoc), now \in Nat, NEW s \in SubId, NEW r \in AvailRequests,
         mongoUpdateContextAvailabilitySubscription(s, r)
  PROVE  KnowsInv'
<1> PICK new : new = [casubs EXCEPT ![s] = UpdatedCasub(s, r)]
  BY Zenon
<1>1. s \in DOMAIN casubs /\ UNCHANGED <<now, registrations, acked>>
  BY Zenon DEF mongoUpdateContextAvailabilitySubscription
<1>2. /\ DOMAIN new = DOMAIN casubs /\ DOMAIN casubs = DOMAIN casubs \cup {s} /\ new[s] = UpdatedCasub(s, r)
      /\ \A t \in DOMAIN casubs \ {s} : new[t] = casubs[t]
  BY <1>1, Zenon
<1>3. new[s] \in Casub /\ new[s].entities = r.entities
  <2>1. r \in [entities : SUBSET EntityId, attrs : SUBSET STRING, duration : Nat]
    BY RequestsAssumption, Zenon
  <2>2. expirationAt(r.duration) \in Nat
    BY <2>1, RequestsAssumption DEF expirationAt
  <2>3. casubs[s] \in Casub
    BY <1>1, Zenon DEF KnowsInv, KnowsType, Casubs
  <2> QED
    BY <1>2, <2>1, <2>2, <2>3, ZenonT(30) DEF UpdatedCasub, casub, Casub
<1>4. Casubs(new)
  BY <1>2, <1>3, Zenon DEF Casubs, KnowsInv, KnowsType
<1>5. CASE \E out : processAvailabilitySubscription(registrations, new, {s}, r.entities, out)
  BY <1>1, <1>2, <1>3, <1>4, <1>5, KnowsSubscribed, ZenonT(30)
<1>6. CASE casubs' = new /\ unread' = unread \cup {s} /\ told' = [told EXCEPT ![s] = {}]
  <2>1. KnowsType'
    BY <1>1, <1>2, <1>4, <1>6, ZenonT(30) DEF KnowsInv, KnowsType
  <2>2. SubscriberKnows'
    BY <1>1, <1>2, <1>6, ZenonT(30) DEF KnowsInv, KnowsType, SubscriberKnows
  <2> QED
    BY <2>1, <2>2, Zenon DEF KnowsInv
<1> QED
  BY <1>5, <1>6, ZenonT(30) DEF mongoUpdateContextAvailabilitySubscription

\* mongoUnsubscribeContextAvailability leaves the other subscriptions as they are.
LEMMA KnowsUnsubscribe ==
  ASSUME KnowsInv, NEW s \in SubId, mongoUnsubscribeContextAvailability(s)
  PROVE  KnowsInv'
<1>1. /\ casubs' = [t \in DOMAIN casubs \ {s} |-> casubs[t]] /\ told' = [t \in DOMAIN told \ {s} |-> told[t]]
      /\ unread' = unread \ {s} /\ UNCHANGED <<registrations, acked, now>>
  BY Zenon DEF mongoUnsubscribeContextAvailability
<1>2. KnowsType'
  BY <1>1, Zenon DEF KnowsInv, KnowsType, Casubs
<1>3. SubscriberKnows'
  BY <1>1, Zenon DEF KnowsInv, KnowsType, SubscriberKnows
<1> QED
  BY <1>2, <1>3, Zenon DEF KnowsInv

\* The id of the other broker is stored, or not.
LEMMA KnowsSet ==
  ASSUME FwdInv, KnowsInv, NEW p \in Proc, mongoSetFwdRegIdNew(p) \/ mongoSetFwdRegId(p)
  PROVE  KnowsInv'
<1>1. UNCHANGED <<casubs, told, unread, acked, now>> /\ now \in Nat /\ registrations \in Seq(RegDoc)
  BY Zenon DEF mongoSetFwdRegIdNew, mongoSetFwdRegId, FwdInv, FwdType
<1>2. CASE UNCHANGED registrations
  BY <1>1, <1>2, KnowsFrame
<1>3. ASSUME NEW i \in DOMAIN registrations, NEW id \in Nat, SetFwdRegId(i, id) PROVE KnowsInv'
  <2>1. /\ DOMAIN registrations' = DOMAIN registrations
        /\ Len(registrations') = Len(registrations)
        /\ \A j \in DOMAIN registrations \ {i} : registrations'[j] = registrations[j]
        /\ registrations'[i] = [registrations[i] EXCEPT !.fwdRegId = id]
    BY <1>1, <1>3, SetFwdRegIdDocs, ZenonT(30)
  <2>2. \A j \in DOMAIN registrations : /\ registrations'[j].crs = registrations[j].crs
                                        /\ registrations'[j].expiration = registrations[j].expiration
    <3>1. registrations[i] \in RegDoc
      BY <1>1, ElementOfSeq, LenProperties, ZenonT(30)
    <3> QED
      BY <2>1, <3>1, Zenon DEF RegDoc
  <2> QED
    BY <1>1, <2>1, <2>2, KnowsFrame
<1>4. CASE mongoSetFwdRegIdNew(p) /\ ~UNCHANGED registrations
  <2>1. op[p].pc = "setNew" /\ op[p].reg # 0 /\ SetFwdRegId(op[p].reg, op[p].fwdRegId)
    BY <1>4, Zenon DEF mongoSetFwdRegIdNew
  <2>2. op[p] \in Op /\ FwdOp(p)
    BY <2>1, FwdBusy, ZenonT(30) DEF New
  <2>3. op[p].reg \in DOMAIN registrations /\ op[p].fwdRegId \in Nat
    BY <1>1, <2>1, <2>2, OpFields, LenProperties, SMTT(20) DEF FwdOp, New
  <2> QED
    BY <1>3, <2>1, <2>3, Zenon
<1>5. CASE mongoSetFwdRegId(p) /\ ~UNCHANGED registrations
  <2>1. op[p].pc = "set" /\ op[p].result # 0 /\ SetFwdRegId(op[p].result, op[p].fwdRegId)
    BY <1>5, Zenon DEF mongoSetFwdRegId
  <2>2. op[p] \in Op /\ FwdOp(p)
    BY <2>1, FwdBusy, Zenon DEF Updating
  <2>3. op[p].result \in DOMAIN registrations /\ op[p].fwdRegId \in Nat
    BY <2>1, <2>2, OpFields, ZenonT(30) DEF FwdOp, Updating
  <2> QED
    BY <1>3, <2>1, <2>3, ZenonT(30)
<1> QED
  BY <1>2, <1>4, <1>5, Zenon

\* Every step of the registry keeps the invariant.
LEMMA KnowsNext ==
  ASSUME FwdInv, KnowsInv, NextAvailability
  PROVE  KnowsInv'
<1>1. NextRegistry /\ now \in Nat /\ registrations \in Seq(RegDoc) /\ NewId \in 1 .. NewId
  <2>1. NextRegistry /\ now \in Nat /\ registrations \in Seq(RegDoc)
    BY Zenon DEF NextAvailability, FwdInv, FwdType
  <2> QED
    BY <2>1, LenProperties, SMTT(20) DEF NewId
<1>2. RegisterRequests \subseteq RegRequest /\ \A r \in RegRequest : [r EXCEPT !.duration = 0] \in RegRequest
  BY RequestsAssumption, Zenon DEF RegRequest
<1>3. CASE UNCHANGED <<registryVars, now>>
  BY <1>1, <1>3, KnowsFrame DEF registryVars
<1>4. ASSUME NEW p \in Proc, NEW r \in RegisterRequests, postRegisterContext(p, r) PROVE KnowsInv'
  BY <1>1, <1>2, <1>4, KnowsRegister, ZenonT(30) DEF postRegisterContext
<1>5. ASSUME NEW p \in Proc, NEW r, NEW i, mongoGetFwdRegId(p, i, r) PROVE KnowsInv'
  BY <1>1, <1>5, KnowsFrame DEF mongoGetFwdRegId
<1>6. ASSUME NEW p \in Proc, updateRegistration(p) PROVE KnowsInv'
  <2>1. op[p].pc = "register" /\ now' = now
    BY <1>6, Zenon DEF updateRegistration
  <2>2. op[p].reg \in DOMAIN registrations /\ op[p].req \in RegRequest
    BY <2>1, FwdBusy, OpFields, ZenonT(30) DEF Updating, FwdOp
  <2>3. op[p].reg \in 1 .. NewId
    BY <1>1, <2>2, LenProperties DEF NewId
  <2>4. \E result : mongoRegisterContext(op[p].reg, op[p].req, result)
    BY <1>6, Zenon DEF updateRegistration
  <2> QED
    BY <1>1, <2>1, <2>2, <2>3, <2>4, KnowsRegister, ZenonT(30)
<1>7. ASSUME NEW p \in Proc, mongoSetFwdRegIdNew(p) \/ mongoSetFwdRegId(p) PROVE KnowsInv'
  BY <1>7, KnowsSet, Zenon
<1>8. ASSUME NEW p \in Proc, fordwardRegisterContext(p) \/ forwardUpdate(p) PROVE KnowsInv'
  BY <1>3, <1>8, Zenon DEF fordwardRegisterContext, forwardUpdate
<1>9. ASSUME NEW r \in RegisterRequests, mongoNotifyContextAvailability(r) PROVE KnowsInv'
  BY <1>1, <1>2, <1>9, KnowsRegister, ZenonT(30) DEF mongoNotifyContextAvailability
<1>10. ASSUME NEW r \in RegisterRequests, NEW i \in 1 .. NewId, registerContext(i, r) PROVE KnowsInv'
  BY <1>1, <1>2, <1>10, KnowsRegister, ZenonT(30) DEF registerContext
<1>11. ASSUME Tick PROVE KnowsInv'
  BY <1>1, <1>11, KnowsFrame DEF Tick, registryVars
<1> QED
  BY <1>1, <1>4, <1>5, <1>6, <1>7, <1>8, <1>9, <1>10, <1>11, KnowsSubscribe, KnowsUpdate, KnowsUnsubscribe, ZenonT(30) DEF NextRegistry

\* A subscriber knows what is registered, however registrations, subscriptions and their
\* updates follow each other, whatever fails in the database and whatever the number
\* of registrations up to the DefaultLimit of a notification.
THEOREM SubscriberKnowsAlways == AvailabilitySpec => []SubscriberKnows
<1>1. InitAvailability => KnowsInv
  BY DEF InitAvailability, KnowsInv, KnowsType, Casubs, SubscriberKnows
<1>2. ASSUME FwdInv, KnowsInv, UNCHANGED availabilityVars PROVE KnowsInv'
  <2>1. now \in Nat /\ registrations \in Seq(RegDoc)
    BY <1>2, Zenon DEF FwdInv, FwdType
  <2> QED
    BY <1>2, <2>1, KnowsFrame DEF availabilityVars, registryVars
<1>3. FwdInv /\ KnowsInv /\ [NextAvailability]_availabilityVars => KnowsInv'
  BY <1>2, KnowsNext, ZenonT(30)
<1>4. KnowsInv => SubscriberKnows
  BY Zenon DEF KnowsInv
<1> QED
  BY <1>1, <1>3, <1>4, FwdInvariant, PTL DEF AvailabilitySpec

-----------------------------------------------------------------------------
(* Discovery.                                                              *)

\* A finite set and its elements in some order.
LEMMA SetToSeqMembers ==
  ASSUME NEW S, IsFiniteSet(S)
  PROVE  /\ SetToSeq(S) \in Seq(S)
         /\ Len(SetToSeq(S)) = Cardinality(S)
         /\ ToSet(SetToSeq(S)) = S
<1>1. PICK n \in Nat : n = Cardinality(S) /\ ExistsBijection(1 .. n, S)
  BY FS_CardinalityType, Zenon
<1>2. PICK b \in [1 .. n -> S] : \A t \in S : \E i \in 1 .. n : b[i] = t
  BY <1>1, Zenon DEF ExistsBijection, Bijection, Surjection
<1>3. ToSet(b) = S
  BY <1>2, Zenon DEF ToSet
<1>4. PICK s : s = SetToSeq(S)
  BY Zenon
<1>5. s \in [1 .. n -> S] /\ ToSet(s) = S
  BY <1>1, <1>3, <1>4, ZenonT(30) DEF SetToSeq
<1>6. s \in Seq(S) /\ Len(s) = n
  BY ONLY <1>5, n \in Nat
<1> QED
  BY <1>1, <1>4, <1>5, <1>6, ZenonT(30)

\* The values of a function on a finite set.
LEMMA FiniteRange ==
  ASSUME NEW S, IsFiniteSet(S), NEW f, DOMAIN f = S
  PROVE  IsFiniteSet({f[x] : x \in S})
<1> PICK U : U = {f[x] : x \in S}
  BY Zenon
<1> PICK g : g = [x \in S |-> f[x]]
  BY Zenon
<1>1. g \in Surjection(S, U)
  BY Zenon DEF Surjection
<1> QED
  BY <1>1, FS_Surjection, Zenon

\* What is offered is in the answer, when the page has room for all the matching documents.
LEMMA OffersFound ==
  ASSUME registrations \in Seq(RegDoc), NEW enV, NEW attrL, NEW paths, NEW limit \in Nat,
         Len(MatchingDocs(registrations, enV, attrL, paths, now)) <= limit,
         NEW cr \in Offers(enV, attrL, paths)
  PROVE  /\ crrOf(cr, enV, attrL) \in ToSet(registrationsQuery(registrations, enV, attrL, paths, now, 0, limit))
         /\ \A e \in cr.entities : Named(e, enV) => e \in crrOf(cr, enV, attrL).entities
         /\ \A a \in cr.attrs : includedAttribute(a, attrL) => a \in crrOf(cr, enV, attrL).attrs
         /\ crrOf(cr, enV, attrL).prApp = cr.prApp
<1>1. PICK j \in DOMAIN registrations :
           /\ cr \in ToSet(registrations[j].crs) /\ registrations[j].expiration > now
           /\ fillQueryServicePath(paths, registrations[j].servicePath)
           /\ \E e \in cr.entities : Named(e, enV)
           /\ attrL # {} => cr.attrs \cap attrL # {}
  BY Zenon DEF Offers
<1>2. PICK e \in cr.entities, en \in enV :
           /\ IF en.isPattern THEN e.id \in Regex[en.id] ELSE en.id = e.id
           /\ en.type = "" \/ en.type = e.type
  BY <1>1, Zenon DEF Named
<1>3. e \in CrEntities(registrations[j]) /\ cr.attrs \subseteq CrAttrs(registrations[j])
  BY <1>1, Zenon DEF CrEntities, CrAttrs
<1>4. EntityOr(registrations[j], en)
  BY <1>2, <1>3, Zenon DEF EntityOr
<1>5. RegistrationMatches(registrations[j], enV, attrL, paths, now)
  BY <1>1, <1>3, <1>4, ZenonT(30) DEF RegistrationMatches
<1>6. \A y \in cr.entities : Named(y, enV) => includedEntity(y, enV)
  BY Zenon DEF Named, includedEntity
<1>7. /\ crrOf(cr, enV, attrL).entities = {y \in cr.entities : includedEntity(y, enV)}
      /\ crrOf(cr, enV, attrL).attrs = {a \in cr.attrs : includedAttribute(a, attrL)}
      /\ crrOf(cr, enV, attrL).prApp = cr.prApp
  BY Zenon DEF crrOf
<1>8. Yields(cr, enV, attrL, crrOf(cr, enV, attrL))
  <2>1. crrOf(cr, enV, attrL).entities # {}
    BY <1>1, <1>6, <1>7, ZenonT(30)
  <2>2. attrL # {} => crrOf(cr, enV, attrL).attrs # {}
    BY <1>1, <1>7, ZenonT(30) DEF includedAttribute
  <2> QED
    BY <2>1, <2>2, Zenon DEF Yields
<1>9. crrOf(cr, enV, attrL) \in ToSet(registrationsQuery(registrations, enV, attrL, paths, now, 0, limit))
  BY <1>1, <1>5, <1>8, QueryMembers, ZenonT(30)
<1> QED
  BY <1>6, <1>7, <1>9, ZenonT(30)

\* The associations of a discovery request.
LEMMA AssociationsFound ==
  ASSUME NEW assocs, IsFiniteSet(assocs), NEW found, found \subseteq assocs, NEW limit \in Nat, Cardinality(assocs) <= limit,
         NEW s, s = SetToSeq(found)
  PROVE  IsFiniteSet(found) /\ ToSet(SubSeq(s, 0 + 1, IF 0 + limit < Len(s) THEN 0 + limit ELSE Len(s))) = found
<1>1. IsFiniteSet(found) /\ Cardinality(found) <= Cardinality(assocs)
  BY FS_Subset, Zenon
<1>2. Cardinality(found) \in Nat /\ Cardinality(assocs) \in Nat
  BY <1>1, FS_CardinalityType, Zenon
<1>3. s \in Seq(found) /\ Len(s) = Cardinality(found) /\ ToSet(s) = found
  BY <1>1, SetToSeqMembers, ZenonT(30)
<1>4. 0 + 1 = 1 /\ ~(0 + limit < Len(s)) /\ Len(s) \in 0 .. Len(s)
  BY <1>1, <1>2, <1>3
<1>5. SubSeq(s, 1, Len(s)) = s
  BY <1>3, <1>4, FirstSeq, ZenonT(30)
<1> QED
  BY <1>1, <1>3, <1>4, <1>5, ZenonT(30)

\* The answers to the associations, one after the other.
LEMMA AnswersJoined ==
  ASSUME NEW S, IsFiniteSet(S), S \subseteq Seq(Crr), NEW z \in S, NEW y \in ToSet(z),
         NEW crrs, crrs = FlattenSeq(SetToSeq(S)), NEW holder
  PROVE  crrs # <<>> /\ y \in ToSet(Append(crrs, holder))
<1>1. PICK seqs : seqs = SetToSeq(S)
  BY Zenon
<1>2. seqs \in Seq(S) /\ ToSet(seqs) = S
  BY <1>1, SetToSeqMembers, ZenonT(30)
<1>3. seqs \in Seq(Seq(Crr))
  BY <1>2
<1>4. PICK i \in 1 .. Len(seqs) : seqs[i] = z
  BY <1>2, <1>3, LenProperties, ZenonT(30) DEF ToSet
<1>5. crrs = FlattenSeq(seqs)
  BY <1>1, Zenon
<1>6. crrs \in Seq(Crr) /\ y \in ToSet(crrs)
  BY <1>3, <1>4, <1>5, FlattenMembers, ZenonT(30)
<1>7. PICK j \in 1 .. Len(crrs) : y = crrs[j]
  BY <1>6, LenProperties, ZenonT(30) DEF ToSet
<1>8. crrs # <<>>
  BY <1>6, <1>7
<1>9. PICK S2 : S2 = Crr \cup {holder}
  BY Zenon
<1>10. crrs \in Seq(S2) /\ holder \in S2
  BY <1>6, <1>9
<1>11. Append(crrs, holder) \in Seq(S2) /\ Len(Append(crrs, holder)) = Len(crrs) + 1 /\ Append(crrs, holder)[j] = crrs[j]
  BY ONLY <1>10, j \in 1 .. Len(crrs)
<1>12. j \in DOMAIN Append(crrs, holder)
  BY ONLY <1>10, <1>11, j \in 1 .. Len(crrs)
<1> QED
  BY <1>7, <1>8, <1>11, <1>12, ZenonT(30) DEF ToSet

\* Conventional discovery.
LEMMA DiscoverConventional ==
  ASSUME registrations \in Seq(RegDoc), NEW q, q.limit \in Nat, q.offset = 0,
         NEW answer, answer = conventionalDiscoverContextAvailability(q), answer.count <= q.limit,
         NEW cr \in Offers(q.entities, q.attrs, q.paths)
  PROVE  \E crr \in ToSet(answer.crrs) :
           /\ {e \in cr.entities : Named(e, q.entities)} \subseteq crr.entities
           /\ {a \in cr.attrs : includedAttribute(a, q.attrs)} \subseteq crr.attrs
           /\ crr.prApp = cr.prApp
<1>1. PICK crr : crr = crrOf(cr, q.entities, q.attrs)
  BY Zenon
<1>2. /\ answer.crrs = registrationsQuery(registrations, q.entities, q.attrs, q.paths, now, 0, q.limit)
      /\ answer.count = Len(MatchingDocs(registrations, q.entities, q.attrs, q.paths, now))
  BY Zenon DEF conventionalDiscoverContextAvailability
<1>3. /\ crr \in ToSet(answer.crrs)
      /\ \A e \in cr.entities : Named(e, q.entities) => e \in crr.entities
      /\ \A a \in cr.attrs : includedAttribute(a, q.attrs) => a \in crr.attrs
      /\ crr.prApp = cr.prApp
  <2>1. PICK enV, attrL, paths, limit : enV = q.entities /\ attrL = q.attrs /\ paths = q.paths /\ limit = q.limit
    BY Zenon
  <2>2. limit \in Nat /\ Len(MatchingDocs(registrations, enV, attrL, paths, now)) <= limit /\ cr \in Offers(enV, attrL, paths)
    BY <1>2, <2>1, ZenonT(30)
  <2>3. /\ crrOf(cr, enV, attrL) \in ToSet(registrationsQuery(registrations, enV, attrL, paths, now, 0, limit))
        /\ \A e \in cr.entities : Named(e, enV) => e \in crrOf(cr, enV, attrL).entities
        /\ \A a \in cr.attrs : includedAttribute(a, attrL) => a \in crrOf(cr, enV, attrL).attrs
        /\ crrOf(cr, enV, attrL).prApp = cr.prApp
    BY <2>2, OffersFound
  <2> QED
    BY <1>1, <1>2, <2>1, <2>3, ZenonT(30)
<1> QED
  BY <1>3, Zenon

\* Discovery of sources.
LEMMA DiscoverSources ==
  ASSUME registrations \in Seq(RegDoc), IsFiniteSet(associations), NEW q, q.limit \in Nat, q.offset = 0, q.scope = "SOURCES",
         NEW answer, answer = associationsDiscoverContextAvailability(q),
         Cardinality(associations) <= q.limit, Len(registrations) <= DefaultLimit,
         NEW a \in associationsQuery(associations, q.entities, q.attrs, "SOURCES"), NEW x \in a.attrs,
         NEW source, source = {[id |-> a.source.id, type |-> a.source.type, isPattern |-> FALSE]},
         Offers(source, {x.source}, q.paths) # {}
  PROVE  \E crr \in ToSet(answer.crrs) : x.source \in crr.attrs /\ \E e \in crr.entities : Named(e, source)
<1> DEFINE A == associationsQuery(associations, q.entities, q.attrs, "SOURCES")
           Side(e) == {[id |-> e.id, type |-> e.type, isPattern |-> FALSE]}
           Of(b) == registrationsQuery(registrations, Side(b.source), {z.source : z \in b.attrs}, q.paths, now, 0, DefaultLimit)
           f == [b \in A |-> Of(b)]
           srcs == {z.source : z \in a.attrs}
<1>1. A \subseteq associations
  BY Zenon DEF associationsQuery
<1>2. a \in A
  BY Zenon
<1>3. PICK s : s = SetToSeq(A)
  BY Zenon
<1>4. /\ IsFiniteSet(A)
      /\ ToSet(SubSeq(s, 0 + 1, IF 0 + q.limit < Len(s) THEN 0 + q.limit ELSE Len(s))) = A
  <2>1. PICK found, limit : found = A /\ limit = q.limit
    BY Zenon
  <2>2. found \subseteq associations /\ limit \in Nat /\ Cardinality(associations) <= limit /\ s = SetToSeq(found)
    BY <1>1, <1>3, <2>1, ZenonT(30)
  <2>3. /\ IsFiniteSet(found)
        /\ ToSet(SubSeq(s, 0 + 1, IF 0 + limit < Len(s) THEN 0 + limit ELSE Len(s))) = found
    BY <2>2, AssociationsFound
  <2> QED
    BY <2>1, <2>3, Zenon
<1>5. PICK crrs : crrs = FlattenSeq(SetToSeq({f[b] : b \in A}))
  BY ZenonT(30)
<1>6. PICK holder : crrs # <<>> => answer.crrs = Append(crrs, holder)
  <2>1. {Of(b) : b \in A} = {f[b] : b \in A}
    <3> HIDE DEF A, Of
    <3> QED
      BY Zenon
  <2>2. PICK B : B = ToSet(SubSeq(s, q.offset + 1, IF q.offset + q.limit < Len(s) THEN q.offset + q.limit ELSE Len(s)))
    BY Zenon
  <2>3. B = A
    BY <1>4, <2>2, ZenonT(30)
  <2>4. PICK ss : ss = {Of(b) : b \in B}
    BY Zenon
  <2>5. FlattenSeq(SetToSeq(ss)) = crrs
    BY <1>5, <2>1, <2>3, <2>4, ZenonT(30)
  <2>6. PICK holder : holder = [entities |-> {}, attrs |-> {}, prApp |-> "association", assocs |-> B]
    BY Zenon
  <2>7. PICK none, some : /\ none = [crrs |-> <<>>, code |-> 404, count |-> 0]
                          /\ some = [crrs |-> Append(crrs, holder), code |-> 200, count |-> 0]
    BY Zenon
  <2>8. answer = IF crrs = <<>> THEN none ELSE some
    <3>1. answer = associationsDiscoverContextAvailability(q)
      BY Zenon
    <3> DEFINE Either(b) == IF q.scope = "SOURCES" THEN Of(b)
                            ELSE registrationsQuery(registrations, Side(b.target), {z.target : z \in b.attrs}, q.paths, now, 0, DefaultLimit)
               found == SetToSeq(associationsQuery(associations, q.entities, q.attrs, q.scope))
               page == ToSet(SubSeq(found, q.offset + 1, IF q.offset + q.limit < Len(found) THEN q.offset + q.limit ELSE Len(found)))
               joined == FlattenSeq(SetToSeq({Either(b) : b \in page}))
    <3>2. answer = IF q.scope = "ALL" THEN [crrs |-> <<>>, code |-> 501, count |-> 0]
                   ELSE IF joined = <<>> THEN [crrs |-> <<>>, code |-> 404, count |-> 0]
                   ELSE [crrs |-> Append(joined, [entities |-> {}, attrs |-> {}, prApp |-> "association", assocs |-> page]),
                         code |-> 200, count |-> 0]
      BY ONLY <3>1, Zenon DEF associationsDiscoverContextAvailability
    <3>3. page = B
      BY ONLY q.scope = "SOURCES", <1>3, <2>2, ZenonT(30)
    <3>4. {Either(b) : b \in page} = ss
      <4>1. \A b : Either(b) = Of(b)
        BY ONLY q.scope = "SOURCES", ZenonT(30)
      <4> HIDE DEF Either, Of, page
      <4> QED
        BY <2>4, <3>3, <4>1, ZenonT(30)
    <3>5. joined = crrs
      BY <2>5, <3>4, ZenonT(30)
    <3>6. q.scope # "ALL"
      BY Zenon
    <3> HIDE DEF joined, page
    <3> QED
      BY <2>6, <2>7, <3>2, <3>3, <3>5, <3>6, ZenonT(30)
  <2> QED
    BY <2>7, <2>8
<1>7. PICK cr : cr \in Offers(source, {x.source}, q.paths)
  BY Zenon
<1>8. cr \in Offers(source, srcs, q.paths) /\ x.source \in cr.attrs /\ includedAttribute(x.source, srcs)
  BY <1>7, ZenonT(30) DEF Offers, includedAttribute
<1>9. PICK e \in cr.entities : Named(e, source)
  BY <1>7, Zenon DEF Offers
<1>10. PICK y : y = crrOf(cr, source, srcs)
  BY Zenon
<1>11. Len(MatchingDocs(registrations, source, srcs, q.paths, now)) <= DefaultLimit
  <2> HIDE DEF srcs
  <2>1. PICK found : found = MatchingDocs(registrations, source, srcs, q.paths, now)
    BY Zenon
  <2>2. found \in Seq(RegDoc) /\ Len(found) <= Len(registrations)
    BY <2>1, MatchingMembers, ZenonT(30)
  <2>3. Len(found) \in Nat /\ Len(registrations) \in Nat /\ DefaultLimit \in Nat
    BY <2>2, LenProperties, RequestsAssumption, ZenonT(30)
  <2>4. Len(found) <= DefaultLimit
    BY <2>2, <2>3
  <2> QED
    BY <2>1, <2>4, ZenonT(30)
<1>12. y \in ToSet(Of(a)) /\ x.source \in y.attrs /\ e \in y.entities
  <2>1. DefaultLimit \in Nat
    BY RequestsAssumption, ZenonT(30)
  <2>2. Of(a) = registrationsQuery(registrations, source, srcs, q.paths, now, 0, DefaultLimit)
    BY Zenon
  <2> HIDE DEF srcs, Of
  <2>3. /\ crrOf(cr, source, srcs) \in ToSet(registrationsQuery(registrations, source, srcs, q.paths, now, 0, DefaultLimit))
        /\ \A d \in cr.entities : Named(d, source) => d \in crrOf(cr, source, srcs).entities
        /\ \A d \in cr.attrs : includedAttribute(d, srcs) => d \in crrOf(cr, source, srcs).attrs
    BY <1>8, <1>11, <2>1, OffersFound, ZenonT(30)
  <2> QED
    BY <1>8, <1>9, <1>10, <2>2, <2>3, ZenonT(30)
<1>13. f \in [A -> Seq(Crr)] /\ f[a] = Of(a)
  <2>1. \A b : Of(b) \in Seq(Crr)
    <3> TAKE b
    <3>1. PICK v, w : v = Side(b.source) /\ w = {z.source : z \in b.attrs}
      BY Zenon
    <3>2. registrationsQuery(registrations, v, w, q.paths, now, 0, DefaultLimit) \in Seq(Crr)
      BY QueryMembers, RequestsAssumption, ZenonT(30)
    <3> QED
      BY <3>1, <3>2, ZenonT(30)
  <2> HIDE DEF A, Of
  <2> QED
    BY <1>2, <2>1, ZenonT(30)
<1>14. crrs # <<>> /\ y \in ToSet(Append(crrs, holder))
  <2> HIDE DEF A, f, Of
  <2>1. y \in ToSet(f[a])
    BY <1>12, <1>13, ZenonT(30)
  <2>2. IsFiniteSet({f[b] : b \in A})
    <3>1. DOMAIN f = A
      BY <1>13, Zenon
    <3> QED
      BY <1>4, <3>1, FiniteRange, ZenonT(30)
  <2>3. {f[b] : b \in A} \subseteq Seq(Crr) /\ f[a] \in {f[b] : b \in A}
    BY <1>2, <1>13, Zenon
  <2> QED
    BY <1>5, <2>1, <2>2, <2>3, AnswersJoined, ZenonT(30)
<1> QED
  BY <1>6, <1>9, <1>12, <1>14, ZenonT(30)

\* The associations that a request has brought are finitely many.
LEMMA FiniteAssocs ==
  ASSUME NEW r \in RegRequest, NEW k \in 0 .. Len(r.crs)
  PROVE  IsFiniteSet(AssocsOf(r, k))
<1> DEFINE f == [j \in 1 .. k |-> r.crs[j].assocs]
<1>1. k \in Nat /\ \A j \in 1 .. k : j \in 1 .. Len(r.crs)
  BY DEF RegRequest
<1>2. \A j \in 1 .. k : IsFiniteSet(f[j])
  <2> TAKE j \in 1 .. k
  <2>1. r.crs \in Seq(ContextRegistration)
    BY Zenon DEF RegRequest
  <2>2. r.crs[j] \in ContextRegistration
    BY <1>1, <2>1, ElementOfSeq, ZenonT(30)
  <2>3. IsFiniteSet(r.crs[j].assocs)
    BY <2>2, ZenonT(30) DEF ContextRegistration
  <2> QED
    BY <2>3, Zenon
<1>3. IsFiniteSet(1 .. k)
  BY <1>1, FS_Interval
<1>4. PICK S : S = {f[j] : j \in 1 .. k}
  BY Zenon
<1>5. IsFiniteSet(S)
  BY <1>3, <1>4, FiniteRange, ZenonT(30)
<1>6. IsFiniteSet(UNION S)
  BY <1>2, <1>4, <1>5, FS_UNION, ZenonT(30)
<1>7. UNION S = AssocsOf(r, k)
  BY <1>4, Zenon DEF AssocsOf
<1> QED
  BY <1>6, <1>7, ZenonT(30)

\* The collection of the associations stays finite: the inductive invariant, with FwdInv,
\* of the discovery of sources.
Finite == IsFiniteSet(associations)

\* However far registerContext comes, it stores associations of the first k context
\* registrations.
LEMMA FiniteRegister ==
  ASSUME Finite, NEW i, NEW r \in RegRequest, NEW result,
         processRegisterContext(i, r, result) \/ mongoRegisterContext(i, r, result)
  PROVE  Finite'
<1>1. Len(r.crs) \in Nat
  BY DEF RegRequest
<1>2. associations' = associations \/ \E k \in 0 .. Len(r.crs) : associations' \subseteq associations \cup AssocsOf(r, k)
  <2>1. CASE LoopFails(r)
    <3>1. PICK k \in 1 .. Len(r.crs) : \E A \in SUBSET r.crs[k].assocs :
                 associations' = (associations \cup AssocsOf(r, k - 1)) \cup A
      BY <2>1, Zenon DEF LoopFails
    <3>2. k \in 0 .. Len(r.crs) /\ k \in 1 .. k /\ \A j \in 1 .. k - 1 : j \in 1 .. k
      BY <1>1
    <3>3. r.crs[k].assocs \subseteq AssocsOf(r, k) /\ AssocsOf(r, k - 1) \subseteq AssocsOf(r, k)
      BY <3>2, Zenon DEF AssocsOf
    <3>4. associations' \subseteq associations \cup AssocsOf(r, k)
      BY <3>1, <3>3, Zenon
    <3> QED
      BY <3>2, <3>4, Zenon
  <2>2. CASE Registers(i, r) \/ UpsertFails(i, r)
    <3>1. associations' = associations \cup AssocsOf(r, Len(r.crs))
      BY <2>2, Zenon DEF Registers, UpsertFails
    <3>2. Len(r.crs) \in 0 .. Len(r.crs)
      BY <1>1
    <3> QED
      BY <3>1, <3>2, Zenon
  <2>3. CASE UNCHANGED associations
    BY <2>3, Zenon
  <2> QED
    BY <2>1, <2>2, <2>3, ZenonT(30) DEF processRegisterContext, mongoRegisterContext
<1>3. \A k \in 0 .. Len(r.crs) : IsFiniteSet(associations \cup AssocsOf(r, k))
  BY FiniteAssocs, FS_Union, Zenon DEF Finite
<1> QED
  BY <1>2, <1>3, FS_Subset, ZenonT(30) DEF Finite

\* No other operation stores associations.
LEMMA FiniteNext ==
  ASSUME FwdInv, Finite, NextAvailability
  PROVE  Finite'
<1>1. NextRegistry
  BY ZenonT(30) DEF NextAvailability
<1>2. RegisterRequests \subseteq RegRequest /\ \A r \in RegRequest : [r EXCEPT !.duration = 0] \in RegRequest
  BY RequestsAssumption, Zenon DEF RegRequest
<1>3. CASE UNCHANGED associations
  BY <1>3, Zenon DEF Finite
<1>4. ASSUME NEW p \in Proc, NEW r \in RegisterRequests, postRegisterContext(p, r) PROVE Finite'
  BY <1>2, <1>4, FiniteRegister, ZenonT(30) DEF postRegisterContext
<1>5. ASSUME NEW p \in Proc, updateRegistration(p) PROVE Finite'
  <2>1. op[p].pc = "register"
    BY <1>5, Zenon DEF updateRegistration
  <2>2. op[p].req \in RegRequest
    BY <2>1, FwdBusy, OpFields, ZenonT(30) DEF Updating
  <2>3. \E result : mongoRegisterContext(op[p].reg, op[p].req, result)
    BY <1>5, Zenon DEF updateRegistration
  <2> QED
    BY <2>2, <2>3, FiniteRegister, ZenonT(30)
<1>6. ASSUME NEW r \in RegisterRequests, mongoNotifyContextAvailability(r) PROVE Finite'
  BY <1>2, <1>6, FiniteRegister, ZenonT(30) DEF mongoNotifyContextAvailability
<1>7. ASSUME NEW r \in RegisterRequests, NEW i, registerContext(i, r) PROVE Finite'
  BY <1>2, <1>7, FiniteRegister, ZenonT(30) DEF registerContext
<1>8. ASSUME NEW p, NEW r, NEW i, mongoGetFwdRegId(p, i, r) PROVE UNCHANGED associations
  BY <1>8, Zenon DEF mongoGetFwdRegId
<1>9. ASSUME NEW p, \/ fordwardRegisterContext(p) \/ mongoSetFwdRegIdNew(p) \/ mongoSetFwdRegId(p) \/ forwardUpdate(p)
      PROVE  UNCHANGED associations
  BY <1>9, ZenonT(30) DEF fordwardRegisterContext, mongoSetFwdRegIdNew, mongoSetFwdRegId, forwardUpdate, registryVars
<1>10. ASSUME NEW s, NEW r, mongoUnsubscribeContextAvailability(s) \/ mongoSubscribeContextAvailability(s, r)
                              \/ mongoUpdateContextAvailabilitySubscription(s, r)
       PROVE  UNCHANGED associations
  BY <1>10, Zenon DEF mongoUnsubscribeContextAvailability, mongoSubscribeContextAvailability,
               mongoUpdateContextAvailabilitySubscription
<1>11. ASSUME Tick PROVE UNCHANGED associations
  BY <1>11, Zenon DEF Tick, registryVars
<1> QED
  BY <1>1, <1>3, <1>4, <1>5, <1>6, <1>7, <1>8, <1>9, <1>10, <1>11, ZenonT(30) DEF NextRegistry

\* At any time finitely many associations are stored.
LEMMA FiniteInvariant == AvailabilitySpec => []Finite
<1>1. InitAvailability => Finite
  BY FS_EmptySet, Zenon DEF InitAvailability, Finite
<1>2. FwdInv /\ Finite /\ [NextAvailability]_availabilityVars => Finite'
  <2>1. ASSUME Finite, UNCHANGED availabilityVars PROVE Finite'
    BY <2>1, Zenon DEF Finite, availabilityVars, registryVars
  <2> QED
    BY <2>1, FiniteNext, Zenon
<1> QED
  BY <1>1, <1>2, FwdInvariant, PTL DEF AvailabilitySpec

\* Discovery misses nothing, whatever has been registered and by whom: an answer with
\* room for every matching document has all that is offered, and the sources of an
\* entity are found through every association.
THEOREM DiscoverCompleteAlways == AvailabilitySpec => []DiscoverComplete
<1>1. ASSUME FwdInv, Finite PROVE DiscoverComplete
  <2>1. registrations \in Seq(RegDoc)
    BY <1>1, Zenon DEF FwdInv, FwdType
  <2>2. ASSUME NEW q \in DiscoverRequests PROVE q.limit \in Nat
    BY RequestsAssumption, ZenonT(30)
  <2>3. ASSUME NEW q \in DiscoverRequests, q.scope = "", q.offset = 0, NEW answer, answer = mongoDiscoverContextAvailability(q),
               answer.count <= q.limit, NEW cr \in Offers(q.entities, q.attrs, q.paths)
        PROVE  \E crr \in ToSet(answer.crrs) :
                 /\ {e \in cr.entities : Named(e, q.entities)} \subseteq crr.entities
                 /\ {a \in cr.attrs : includedAttribute(a, q.attrs)} \subseteq crr.attrs
                 /\ crr.prApp = cr.prApp
    <3>1. answer = conventionalDiscoverContextAvailability(q)
      BY <2>3, Zenon DEF mongoDiscoverContextAvailability
    <3>2. q.limit \in Nat
      BY <2>2, Zenon
    <3> QED
      BY ONLY <2>1, <3>1, <3>2, q.offset = 0, answer.count <= q.limit, cr \in Offers(q.entities, q.attrs, q.paths),
              DiscoverConventional, SMTT(20)
  <2>4. ASSUME NEW q \in DiscoverRequests, q.scope = "SOURCES", q.offset = 0, NEW answer, answer = mongoDiscoverContextAvailability(q),
               Cardinality(associations) <= q.limit, Len(registrations) <= DefaultLimit,
               NEW a \in associations, NEW x \in a.attrs, a.target.type # "",
               [id |-> a.target.id, type |-> a.target.type, isPattern |-> FALSE] \in q.entities, x.target \in q.attrs,
               NEW source, source = {[id |-> a.source.id, type |-> a.source.type, isPattern |-> FALSE]},
               Offers(source, {x.source}, q.paths) # {}
        PROVE  \E crr \in ToSet(answer.crrs) : x.source \in crr.attrs /\ \E e \in crr.entities : Named(e, source)
    <3>1. "SOURCES" # ""
      BY Zenon
    <3>2. answer = associationsDiscoverContextAvailability(q)
      BY <2>4, <3>1, Zenon DEF mongoDiscoverContextAvailability
    <3>3. a \in associationsQuery(associations, q.entities, q.attrs, "SOURCES")
      <4>1. PICK en : en = [id |-> a.target.id, type |-> a.target.type, isPattern |-> FALSE]
        BY Zenon
      <4>2. en.id = a.target.id /\ en.type = a.target.type
        BY ONLY <4>1, Zenon
      <4> QED
        BY <2>4, <4>1, <4>2, ZenonT(30) DEF associationsQuery
    <3>4. Finite /\ q.limit \in Nat
      BY <1>1, <2>2, Zenon
    <3> QED
      BY ONLY <2>1, <3>2, <3>3, <3>4, q.offset = 0, q.scope = "SOURCES", Cardinality(associations) <= q.limit,
              Len(registrations) <= DefaultLimit, x \in a.attrs, Offers(source, {x.source}, q.paths) # {},
              source = {[id |-> a.source.id, type |-> a.source.type, isPattern |-> FALSE]}, DiscoverSources, ZenonT(30) DEF Finite
  <2> QED
    BY <2>3, <2>4, ZenonT(30) DEF DiscoverComplete
<1> QED
  BY <1>1, FwdInvariant, FiniteInvariant, PTL

-----------------------------------------------------------------------------
(* Context providers.                                                      *)

\* The requests for entities leave the registry alone: the broker with them is still
\* the one of ContextAvailability, whose theorems hold for it.
THEOREM AvailabilityImplemented == Spec => AvailabilitySpec
<1>1. Init => InitAvailability
  BY Zenon DEF Init
<1>2. [Next]_vars => [NextAvailability]_availabilityVars
  BY Zenon DEF Next, vars, mongoQueryContext, postUpdateContext, appendContext, providerOfQuery, forwardQuery,
         forwardUpdateContext, reply
<1> QED
  BY <1>1, <1>2, PTL DEF Spec, AvailabilitySpec

\* The provider of a query or of an element of an update has registered it.
LEMMA ProviderProvides ==
  ASSUME registrations \in Seq(RegDoc), NEW enV, NEW attrL, NEW paths,
         NEW crrV, crrV = Provider(enV, attrL, paths), crrV # <<>>
  PROVE  crrV[1].prApp \in STRING /\ Provides(crrV[1].prApp, enV, attrL, paths)
<1>1. crrV = registrationsQuery(registrations, enV, attrL, paths, now, 0, 1)
  BY Zenon DEF Provider
<1>2. /\ crrV \in Seq(Crr)
      /\ \A x \in ToSet(crrV) :
           \E i \in DOMAIN registrations :
             /\ RegistrationMatches(registrations[i], enV, attrL, paths, now)
             /\ \E cr \in ToSet(registrations[i].crs) : Yields(cr, enV, attrL, x)
  BY <1>1, QueryMembers, Zenon
<1> PICK x : x = crrV[1]
  BY ZenonT(30)
<1>3. x \in ToSet(crrV) /\ x \in Crr
  <2>1. 1 \in 1 .. Len(crrV)
    BY <1>2, LenProperties, EmptySeq
  <2> QED
    BY <1>2, <2>1, ToSetSeq
<1> PICK i \in DOMAIN registrations : /\ RegistrationMatches(registrations[i], enV, attrL, paths, now)
                                      /\ \E cr \in ToSet(registrations[i].crs) : Yields(cr, enV, attrL, x)
  BY <1>2, <1>3, Zenon
<1>4. PICK cr \in ToSet(registrations[i].crs) : Yields(cr, enV, attrL, x)
  BY ZenonT(30)
<1>5. x.prApp = cr.prApp /\ (\E e \in cr.entities : includedEntity(e, enV)) /\ (attrL # {} => cr.attrs \cap attrL # {})
  BY <1>4 DEF Yields, crrOf, includedAttribute
<1>6. registrations[i].expiration > now /\ fillQueryServicePath(paths, registrations[i].servicePath)
  BY Zenon DEF RegistrationMatches
<1> QED
  BY <1>3, <1>5, <1>6, ZenonT(30) DEF Provides, Crr

\* A search for an entity without a pattern that finds nothing in the first matching
\* document: no document matches, when each has one context registration.
LEMMA NobodyOffers ==
  ASSUME registrations \in Seq(RegDoc), Single, NEW enV, NoPattern(enV), NEW attrL, NEW paths,
         Provider(enV, attrL, paths) = <<>>
  PROVE  Offers(enV, attrL, paths) = {}
<1> SUFFICES ASSUME NEW c \in Offers(enV, attrL, paths) PROVE FALSE
  BY Zenon
<1> PICK found, answer : /\ found = MatchingDocs(registrations, enV, attrL, paths, now)
                         /\ answer = registrationsQuery(registrations, enV, attrL, paths, now, 0, 1)
  BY Zenon
<1>1. PICK j \in DOMAIN registrations :
           /\ c \in ToSet(registrations[j].crs) /\ registrations[j].expiration > now
           /\ fillQueryServicePath(paths, registrations[j].servicePath)
           /\ \E e \in c.entities : Named(e, enV)
           /\ attrL # {} => c.attrs \cap attrL # {}
  BY Zenon DEF Offers
<1>2. RegistrationMatches(registrations[j], enV, attrL, paths, now)
  <2>1. PICK e \in c.entities, q \in enV : q.id = e.id /\ (q.type = "" \/ q.type = e.type) /\ ~q.isPattern
    BY <1>1, Zenon DEF Named, NoPattern
  <2>2. e \in CrEntities(registrations[j]) /\ c.attrs \subseteq CrAttrs(registrations[j])
    BY <1>1, Zenon DEF CrEntities, CrAttrs
  <2>3. EntityOr(registrations[j], q)
    BY <2>1, <2>2, ZenonT(30) DEF EntityOr
  <2> QED
    BY <1>1, <2>2, <2>3, ZenonT(30) DEF RegistrationMatches
<1>3. /\ found \in Seq(RegDoc)
      /\ \A d : d \in ToSet(found) <=>
                 \E i \in DOMAIN registrations :
                   d = registrations[i] /\ RegistrationMatches(registrations[i], enV, attrL, paths, now)
  BY MatchingMembers
<1>4. Len(found) # 0 /\ found[1] \in ToSet(found) /\ found[1] \in RegDoc
  <2>1. Len(found) # 0
    BY <1>2, <1>3, ToSetSeq, ZenonT(30)
  <2>2. 1 \in 1 .. Len(found)
    BY <1>3, <2>1, LenProperties
  <2> QED
    BY <1>3, <2>1, <2>2, ToSetSeq, ZenonT(30)
<1>5. PICK i \in DOMAIN registrations :
           found[1] = registrations[i] /\ RegistrationMatches(registrations[i], enV, attrL, paths, now)
  BY <1>3, <1>4, Zenon
<1> PICK doc : doc = registrations[i]
  BY Zenon
<1>6. doc \in RegDoc /\ Len(doc.crs) = 1
  BY <1>4, <1>5, Zenon DEF Single
<1>7. PICK cr : ToSet(doc.crs) = {cr}
  <2>1. doc.crs \in Seq(ContextRegistration)
    BY <1>6, ZenonT(30) DEF RegDoc
  <2>2. \A x : x \in ToSet(doc.crs) <=> x = doc.crs[1]
    BY <1>6, <2>1, ToSetSeq
  <2>3. ToSet(doc.crs) = {doc.crs[1]}
    BY ONLY <2>2, Zenon
  <2> QED
    BY ONLY <2>3, Zenon
<1>8. CrEntities(doc) = cr.entities /\ CrAttrs(doc) = cr.attrs
  BY <1>7, Zenon DEF CrEntities, CrAttrs
<1>9. PICK e \in cr.entities, q \in enV : q.id = e.id /\ (q.type = "" \/ q.type = e.type) /\ ~q.isPattern
  BY <1>5, <1>8, ZenonT(30) DEF RegistrationMatches, EntityOr, NoPattern
<1>10. includedEntity(e, enV)
  BY <1>9, Zenon DEF includedEntity
<1>11. attrL # {} => cr.attrs \cap attrL # {}
  BY <1>5, <1>8, ZenonT(30) DEF RegistrationMatches
<1>12. Yields(cr, enV, attrL, crrOf(cr, enV, attrL))
  BY <1>9, <1>10, <1>11, ZenonT(30) DEF Yields, crrOf, includedAttribute
<1>13. answer = DocCrrs(found[1], enV, attrL)
  BY <1>4, QueryMembers
<1>14. crrOf(cr, enV, attrL) \in ToSet(DocCrrs(doc, enV, attrL))
  BY <1>6, <1>7, <1>12, DocMembers, ZenonT(30)
<1>15. answer = <<>> /\ ToSet(<<>>) = {}
  BY EmptySeq DEF Provider, ToSet
<1> QED
  BY <1>5, <1>13, <1>14, <1>15, ZenonT(30)

\* A response gets another code, or the whole request ends.
RecodedClient(ix, code) ==
  client' = UpdateOp(client.req, [client.responses EXCEPT ![ix].code = code], FALSE, client.history)

EndedClient == client' = UpdateOp(client.req, <<>>, TRUE, client.history)

\* One pass of the forwarding loop does one or the other.
LEMMA ForwardStep ==
  ASSUME forwardUpdateContext
  PROVE  (\E ix : \E code \in Nat : RecodedClient(ix, code)) \/ EndedClient
<1> PICK ix : ix = CHOOSE i \in FoundResponses(client.responses) : \A j \in FoundResponses(client.responses) : i <= j
  BY Zenon
<1>1. PICK c500, c200, c404 : c500 = 500 /\ c200 = 200 /\ c404 = 404
  BY Zenon
<1>2. RecodedClient(ix, c500) \/ RecodedClient(ix, c200) \/ RecodedClient(ix, c404) \/ EndedClient
  BY <1>1, ZenonT(30) DEF forwardUpdateContext, RecodedClient, EndedClient
<1>3. c500 \in Nat /\ c200 \in Nat /\ c404 \in Nat
  BY <1>1
<1> QED
  BY <1>2, <1>3, ZenonT(30)

\* A query is "not found" when the search for a provider found nothing: the registry
\* stands still until the answer.
FoundInv ==
  client.pc = "notFound" => Provider(client.query.entities, client.query.attrs, client.query.paths) = <<>>

\* No query without patterns is answered "not found" while an application offers what it
\* asks for, whatever is registered with one context registration each.
THEOREM ProviderFoundAlways == Spec => []ProviderFound
<1>1. Init => FoundInv
  BY DEF Init, FoundInv, Idle
<1>2. FoundInv /\ [Next]_vars => FoundInv'
  <2> SUFFICES ASSUME FoundInv, [Next]_vars PROVE FoundInv'
    BY Zenon
  <2>1. CASE client' = client /\ (client = Idle \/ UNCHANGED availabilityVars)
    BY <2>1 DEF FoundInv, Idle, Provider, availabilityVars, registryVars
  <2>2. CASE \E q \in QueryRequests : mongoQueryContext(q)
    BY <2>2 DEF mongoQueryContext, Answer, FoundInv
  <2>3. CASE \E r \in UpdateRequests : postUpdateContext(r)
    BY <2>3 DEF postUpdateContext, UpdateOp, FoundInv
  <2>4. CASE \E r \in UpdateRequests : appendContext(r)
    BY <2>1, <2>4, ZenonT(30) DEF appendContext
  <2>5. CASE providerOfQuery
    BY <2>5 DEF providerOfQuery, Answer, FoundInv, Provider, availabilityVars, registryVars
  <2>6. CASE forwardQuery
    BY <2>6 DEF forwardQuery, Answer, FoundInv
  <2>7. CASE forwardUpdateContext
    <3>1. \A r, v, w, m : UpdateOp(r, v, w, m).pc # "notFound"
      BY Zenon DEF UpdateOp
    <3>2. ASSUME NEW ix, NEW code, RecodedClient(ix, code) PROVE client'.pc # "notFound"
      BY <3>1, <3>2, Zenon DEF RecodedClient
    <3>3. ASSUME EndedClient PROVE client'.pc # "notFound"
      BY <3>1, <3>3, ZenonT(30) DEF EndedClient
    <3>4. client'.pc # "notFound"
      BY <2>7, <3>2, <3>3, ForwardStep, ZenonT(30)
    <3> QED
      BY <3>4, Zenon DEF FoundInv
  <2>8. CASE reply
    BY <2>8, Zenon DEF reply, Idle, FoundInv
  <2> QED
    BY <2>1, <2>2, <2>3, <2>4, <2>5, <2>6, <2>7, <2>8, ZenonT(30) DEF Next, vars
<1>3. FwdInv /\ FoundInv => ProviderFound
  BY NobodyOffers, Zenon DEF FwdInv, FwdType, FoundInv, ProviderFound
<1> QED
  BY <1>1, <1>2, <1>3, FwdInvariant, AvailabilityImplemented, PTL DEF Spec

\* The responses that may be forwarded: to a provider of an element that is not stored here.
OfProvider(r, k, prApp) ==
  /\ Provides(prApp, {EntityOf(r.elements[k])}, {r.elements[k].attr}, {r.path})
  /\ WithAttribute(r, r.elements[k]) = {}

Rightful(r) == {x \in Resp : x.code = 302 => OfProvider(r, x.elem, x.prApp)}

\* A response that is no redirection is one of them.
NoRedirection(code) == code \in Nat /\ code # 302

PlainResponse(k, code) == ElementResponse(k, code, "")

RightfulAnswer(r, k, x) == x \in Rightful(r) /\ x.elem = k

LEMMA AnswerRightful ==
  ASSUME NEW r, NEW k \in Nat, NEW code, NoRedirection(code)
  PROVE  RightfulAnswer(r, k, PlainResponse(k, code)) /\ PlainResponse(k, code).code = code
<1> PICK x : x = PlainResponse(k, code)
  BY Zenon
<1>1. x = [elem |-> k, code |-> code, prApp |-> ""]
  BY Zenon DEF PlainResponse, ElementResponse
<1>2. "" \in STRING \cup {""} /\ code \in Nat
  BY Zenon DEF NoRedirection
<1>3. x \in Resp /\ x.elem = k /\ x.code = code
  BY ONLY <1>1, <1>2, k \in Nat, ZenonT(30) DEF Resp
<1> QED
  BY <1>3, Zenon DEF Rightful, RightfulAnswer, NoRedirection

\* The ones of processContextElement, and the codes that the loop removes.
Done(k)           == PlainResponse(k, 200)
NotFoundHere(k)   == PlainResponse(k, 404)
Refused(k)        == PlainResponse(k, 472)
DatabaseError(k)  == PlainResponse(k, 500)
NotImplemented(k) == PlainResponse(k, 501)

Invalid(x)  == x.code = 472
Searched(x) == x.code = 302 \/ x.code = 404

LEMMA Answers ==
  ASSUME NEW r, NEW k \in Nat
  PROVE  /\ RightfulAnswer(r, k, Done(k))
         /\ RightfulAnswer(r, k, NotFoundHere(k)) /\ Searched(NotFoundHere(k))
         /\ RightfulAnswer(r, k, Refused(k)) /\ Invalid(Refused(k))
         /\ RightfulAnswer(r, k, DatabaseError(k))
         /\ RightfulAnswer(r, k, NotImplemented(k))
<1>3. RightfulAnswer(r, k, Done(k))
  <2>1. PICK code : code = 200 /\ NoRedirection(code)
    BY ONLY k \in Nat DEF NoRedirection
  <2>2. Done(k) = PlainResponse(k, code)
    BY ONLY <2>1 DEF Done
  <2>0. NoRedirection(code)
    BY ONLY <2>1
  <2> QED
    BY ONLY <2>0, <2>2, k \in Nat, AnswerRightful, ZenonT(30)
<1>4. RightfulAnswer(r, k, NotFoundHere(k)) /\ Searched(NotFoundHere(k))
  <2>1. PICK code : code = 404 /\ NoRedirection(code)
    BY ONLY k \in Nat DEF NoRedirection
  <2>2. NotFoundHere(k) = PlainResponse(k, code)
    BY ONLY <2>1 DEF NotFoundHere
  <2>0. NoRedirection(code)
    BY ONLY <2>1
  <2>3. RightfulAnswer(r, k, NotFoundHere(k)) /\ NotFoundHere(k).code = code
    BY ONLY <2>0, <2>2, k \in Nat, AnswerRightful, ZenonT(30)
  <2>4. Searched(NotFoundHere(k))
    BY ONLY <2>1, <2>3 DEF Searched
  <2> QED
    BY ONLY <2>3, <2>4, ZenonT(30)
<1>5. RightfulAnswer(r, k, Refused(k)) /\ Invalid(Refused(k))
  <2>1. PICK code : code = 472 /\ NoRedirection(code)
    BY ONLY k \in Nat DEF NoRedirection
  <2>2. Refused(k) = PlainResponse(k, code)
    BY ONLY <2>1 DEF Refused
  <2>0. NoRedirection(code)
    BY ONLY <2>1
  <2>3. RightfulAnswer(r, k, Refused(k)) /\ Refused(k).code = code
    BY ONLY <2>0, <2>2, k \in Nat, AnswerRightful, Zenon
  <2>4. Invalid(Refused(k))
    BY ONLY <2>1, <2>3 DEF Invalid
  <2> QED
    BY ONLY <2>3, <2>4, Zenon
<1>6. RightfulAnswer(r, k, DatabaseError(k))
  <2>1. PICK code : code = 500 /\ NoRedirection(code)
    BY ONLY k \in Nat DEF NoRedirection
  <2>2. DatabaseError(k) = PlainResponse(k, code)
    BY ONLY <2>1 DEF DatabaseError
  <2>0. NoRedirection(code)
    BY ONLY <2>1
  <2> QED
    BY ONLY <2>0, <2>2, k \in Nat, AnswerRightful, Zenon
<1>7. RightfulAnswer(r, k, NotImplemented(k))
  <2>1. PICK code : code = 501 /\ NoRedirection(code)
    BY ONLY k \in Nat DEF NoRedirection
  <2>2. NotImplemented(k) = PlainResponse(k, code)
    BY ONLY <2>1 DEF NotImplemented
  <2>0. NoRedirection(code)
    BY ONLY <2>1
  <2> QED
    BY ONLY <2>0, <2>2, k \in Nat, AnswerRightful, Zenon
<1> QED
  BY <1>3, <1>4, <1>5, <1>6, <1>7, ZenonT(30)

\* The response for an entity found: a 472 when it does not have the attribute.
LEMMA EntityAnswer ==
  ASSUME NEW r, NEW k \in Nat, NEW t, NEW fault
  PROVE  /\ RightfulAnswer(r, k, EntityResponse(r, k, t, fault))
         /\ r.elements[k].attr \notin local[<<r.elements[k].id, t>>] => Invalid(EntityResponse(r, k, t, fault))
<1> PICK x : x = EntityResponse(r, k, t, fault)
  BY Zenon
<1>1. x = Refused(k) \/ x = DatabaseError(k) \/ x = Done(k)
  BY ZenonT(30) DEF EntityResponse, Refused, DatabaseError, Done, PlainResponse
<1>2. r.elements[k].attr \notin local[<<r.elements[k].id, t>>] => x = Refused(k)
  BY ZenonT(30) DEF EntityResponse, Refused, PlainResponse
<1> QED
  BY <1>1, <1>2, Answers, ZenonT(30)

\* There are finitely many entities for an element.
LEMMA FoundFinite ==
  ASSUME NEW r, NEW e
  PROVE  IsFiniteSet(FoundTypes(r, e))
<1>1. FoundTypes(r, e) \subseteq EntityType
  BY Zenon DEF FoundTypes
<1> QED
  BY <1>1, EntityTypeAssumption, FS_Subset, Zenon

\* One response for every entity found.
EachAnswered(r, k, fault, found, t) ==
  /\ t \in Seq(Rightful(r))
  /\ Len(t) = Cardinality(found)
  /\ \A i \in 1 .. Cardinality(found) : t[i] = EntityResponse(r, k, SetToSeq(found)[i], fault)

LEMMA EntityAnswers ==
  ASSUME NEW r, NEW k \in Nat, NEW fault, NEW found, found = FoundTypes(r, r.elements[k]),
         NEW t, t = EntityResponses(r, k, fault)
  PROVE  EachAnswered(r, k, fault, found, t)
<1>1. IsFiniteSet(found)
  BY FoundFinite, Zenon
<1>2. PICK n \in Nat : n = Cardinality(found)
  BY <1>1, FS_CardinalityType, ZenonT(30)
<1>3. PICK f : f = [i \in 1 .. n |-> EntityResponse(r, k, SetToSeq(found)[i], fault)]
  BY Zenon
<1>4. f \in [1 .. n -> Rightful(r)] /\ \A i \in 1 .. n : f[i] = EntityResponse(r, k, SetToSeq(found)[i], fault)
  BY <1>3, EntityAnswer, ZenonT(30) DEF RightfulAnswer
<1>5. f \in Seq(Rightful(r)) /\ Len(f) = n
  BY ONLY <1>4, n \in Nat
<1>6. f = t
  BY <1>2, <1>3, ZenonT(30) DEF EntityResponses
<1> QED
  BY ONLY <1>2, <1>4, <1>5, <1>6, ZenonT(30) DEF EachAnswered

\* The search for a provider, for what is not stored.
LEMMA ProviderAnswer ==
  ASSUME registrations \in Seq(RegDoc), NEW r, NEW k \in Nat, NEW failing \in BOOLEAN,
         WithAttribute(r, r.elements[k]) = {}
  PROVE  RightfulAnswer(r, k, ProviderResponse(r, k, failing)) /\ Searched(ProviderResponse(r, k, failing))
<1> PICK e : e = r.elements[k]
  BY Zenon
<1> PICK crrV : crrV = Provider({EntityOf(e)}, {e.attr}, {r.path})
  BY Zenon
<1> PICK x : x = ProviderResponse(r, k, failing)
  BY Zenon
<1>1. CASE crrV = <<>> \/ failing
  <2>1. x = NotFoundHere(k)
    BY <1>1, ZenonT(30) DEF ProviderResponse, NotFoundHere, PlainResponse
  <2> QED
    BY <2>1, Answers, ZenonT(30)
<1>2. CASE ~(crrV = <<>> \/ failing)
  <2>1. crrV[1].prApp \in STRING /\ Provides(crrV[1].prApp, {EntityOf(e)}, {e.attr}, {r.path})
    BY <1>2, ProviderProvides, ZenonT(30)
  <2>2. OfProvider(r, k, crrV[1].prApp)
    BY <2>1, ZenonT(30) DEF OfProvider
  <2>3. x = [elem |-> k, code |-> 302, prApp |-> crrV[1].prApp]
    BY <1>2, ZenonT(30) DEF ProviderResponse, ElementResponse
  <2>4. x \in Resp /\ x.elem = k /\ Searched(x) /\ x.prApp = crrV[1].prApp
    <3>1. 302 \in Nat
      BY ONLY k \in Nat
    <3>2. crrV[1].prApp \in STRING \cup {""}
      BY <2>1, Zenon
    <3> QED
      BY ONLY <2>3, <3>1, <3>2, k \in Nat, ZenonT(30) DEF Resp, Searched
  <2>5. OfProvider(r, x.elem, x.prApp)
    BY ONLY <2>2, <2>4, Zenon
  <2> QED
    BY ONLY <2>4, <2>5, x = ProviderResponse(r, k, failing), ZenonT(30) DEF Rightful, RightfulAnswer
<1> QED
  BY <1>1, <1>2, ZenonT(30)

\* What processContextElement does with an element: one response, one for every entity
\* found, or these and the result of the search for a provider.
OneAnswer(r, k, s) == \E x : RightfulAnswer(r, k, x) /\ s = <<x>>

FoundAnswers(r, k, s, t) == WithAttribute(r, r.elements[k]) # {} /\ s = t

SearchedAnswers(r, k, s, t) ==
  WithAttribute(r, r.elements[k]) = {} /\ \E x : RightfulAnswer(r, k, x) /\ Searched(x) /\ s = Append(t, x)

LEMMA ElementCases ==
  ASSUME registrations \in Seq(RegDoc), NEW r, NEW k \in Nat, NEW fault,
         NEW s, s = ElementResponses(r, k, fault), NEW t, t = EntityResponses(r, k, fault)
  PROVE  OneAnswer(r, k, s) \/ FoundAnswers(r, k, s, t) \/ SearchedAnswers(r, k, s, t)
<1> PICK e : e = r.elements[k]
  BY Zenon
<1> PICK failing, x : failing = (fault.call = "provider") /\ x = ProviderResponse(r, k, failing)
  BY Zenon
<1>1. \/ s = <<NotImplemented(k)>> \/ s = <<Refused(k)>> \/ s = <<DatabaseError(k)>>
      \/ WithAttribute(r, e) # {} /\ s = t
      \/ WithAttribute(r, e) = {} /\ s = Append(t, x)
  <2>1. CASE e.flaw = "pattern"
    BY <2>1, ZenonT(30) DEF ElementResponses, NotImplemented, PlainResponse
  <2>2. CASE e.flaw # "pattern" /\ e.flaw = "empty"
    BY <2>2, ZenonT(30) DEF ElementResponses, Refused, PlainResponse
  <2>3. CASE e.flaw # "pattern" /\ e.flaw # "empty" /\ fault.call = "query"
    BY <2>3, ZenonT(30) DEF ElementResponses, DatabaseError, PlainResponse
  <2>4. CASE e.flaw # "pattern" /\ e.flaw # "empty" /\ fault.call # "query" /\ WithAttribute(r, e) # {}
    BY <2>4, ZenonT(30) DEF ElementResponses
  <2>5. CASE e.flaw # "pattern" /\ e.flaw # "empty" /\ fault.call # "query" /\ WithAttribute(r, e) = {}
    BY <2>5, ZenonT(30) DEF ElementResponses
  <2> QED
    BY <2>1, <2>2, <2>3, <2>4, <2>5, Zenon
<1>2. failing \in BOOLEAN
  BY Zenon
<1>3. ASSUME WithAttribute(r, e) = {} PROVE RightfulAnswer(r, k, x) /\ Searched(x)
  BY <1>2, <1>3, ProviderAnswer, ZenonT(30)
<1> QED
  BY <1>1, <1>3, Answers, ZenonT(30) DEF OneAnswer, FoundAnswers, SearchedAnswers

\* processContextElement has a provider only for what is not stored.
LEMMA ElementRightful ==
  ASSUME registrations \in Seq(RegDoc), NEW r, NEW k \in Nat, NEW fault
  PROVE  ElementResponses(r, k, fault) \in Seq(Rightful(r))
<1> PICK S, s, t : S = Rightful(r) /\ s = ElementResponses(r, k, fault) /\ t = EntityResponses(r, k, fault)
  BY Zenon
<1>1. t \in Seq(S)
  BY EntityAnswers, Zenon DEF EachAnswered
<1>2. /\ \A x \in S : <<x>> \in Seq(S)
      /\ \A x \in S : Append(t, x) \in Seq(S)
  BY ONLY <1>1
<1>3. OneAnswer(r, k, s) \/ FoundAnswers(r, k, s, t) \/ SearchedAnswers(r, k, s, t)
  BY ElementCases, Zenon
<1> QED
  BY <1>1, <1>2, <1>3, ZenonT(30) DEF OneAnswer, FoundAnswers, SearchedAnswers, RightfulAnswer

\* All the responses to an update, before the garbage is removed.
Responses(r, fault) ==
  FlattenSeq([k \in DOMAIN r.elements |-> ElementResponses(r, k, fault[k])])

\* Each of them that is to be forwarded goes to a provider.
LEMMA ResponsesRightful ==
  ASSUME registrations \in Seq(RegDoc), NEW r \in UpdateRequests, NEW fault
  PROVE  /\ Responses(r, fault) \in Seq(Rightful(r))
         /\ cleanResponses(Responses(r, fault), r) \in Seq(Rightful(r))
<1>1. PICK n \in Nat : DOMAIN r.elements = 1 .. n
  BY UpdateRequestsAssumption
<1> PICK ss : ss = [k \in 1 .. n |-> ElementResponses(r, k, fault[k])]
  BY Zenon
<1> PICK S : S = Rightful(r)
  BY Zenon
<1>2. \A k \in 1 .. n : ElementResponses(r, k, fault[k]) \in Seq(S)
  <2> TAKE k \in 1 .. n
  <2>1. k \in Nat
    OBVIOUS
  <2> QED
    BY <2>1, ElementRightful, ZenonT(30)
<1>3. ss \in Seq(Seq(S))
  <2>1. ss \in [1 .. n -> Seq(S)]
    BY <1>2, Zenon
  <2> QED
    BY ONLY <2>1, n \in Nat
<1>4. Responses(r, fault) = FlattenSeq(ss)
  BY <1>1, Zenon DEF Responses
<1>5. Responses(r, fault) \in Seq(S)
  BY <1>3, <1>4, FlattenMembers, ZenonT(30)
<1>6. removeGarbage(Responses(r, fault)) \in Seq(S)
  BY <1>5, GarbageRemoved, ZenonT(30)
<1> QED
  BY <1>5, <1>6, Zenon DEF cleanResponses

\* Whatever is forwarded goes to an application that registered the entity and the
\* attribute under the path of the request, and nothing stored here is forwarded.
THEOREM ForwardedToProviderAlways == Spec => ForwardedToProvider
<1>1. FwdInv /\ [Next]_vars => [Forwards]_vars
  <2> SUFFICES ASSUME FwdInv, [Next]_vars PROVE Forwards
    BY Zenon
  <2>0. registrations \in Seq(RegDoc)
    BY ZenonT(30) DEF FwdInv, FwdType
  <2>1. CASE client' = client
    BY <2>1 DEF Forwards, Idle
  <2>2. CASE \E q \in QueryRequests : mongoQueryContext(q)
    BY <2>2 DEF mongoQueryContext, Answer, Forwards, Idle
  <2>3. CASE \E r \in UpdateRequests : postUpdateContext(r)
    <3>1. PICK r \in UpdateRequests : postUpdateContext(r)
      BY <2>3, Zenon
    <3>2. PICK fault : client' = UpdateOp(r, cleanResponses(Responses(r, fault), r), FALSE,
                                          History(r, Responses(r, fault)))
      BY <3>1, Zenon DEF postUpdateContext, Responses
    <3>3. PICK v \in Seq(Rightful(r)) : client'.responses = v /\ client'.req = r
      BY <2>0, <3>2, ResponsesRightful, ZenonT(30) DEF UpdateOp
    <3>4. ASSUME NEW x \in ToForward(client') PROVE OfProvider(r, x.elem, x.prApp)
      <4>1. x \in ToSet(v) /\ x.code = 302
        BY <3>3, ZenonT(30) DEF ToForward
      <4>2. x \in Rightful(r)
        BY <4>1, ToSetSeq
      <4> QED
        BY <4>1, <4>2, ZenonT(30) DEF Rightful
    <3>5. client.pc # "lookup"
      BY <3>1, Zenon DEF postUpdateContext, Idle
    <3> QED
      BY <3>3, <3>4, <3>5, ZenonT(30) DEF Forwards, OfProvider
  <2>4. CASE \E r \in UpdateRequests : appendContext(r)
    BY <2>1, <2>4, ZenonT(30) DEF appendContext
  <2>5. CASE providerOfQuery
    <3>1. client.pc = "lookup" /\ client # Idle
      BY <2>5 DEF providerOfQuery, Idle
    <3>2. PICK q, crrV : q = client.query /\ crrV = Provider(q.entities, q.attrs, q.paths)
      BY ZenonT(30)
    <3>3. ASSUME client'.pc = "forwardQuery" PROVE crrV # <<>> /\ client'.prApp = crrV[1].prApp
      BY <2>5, <3>2, <3>3 DEF providerOfQuery, Answer
    <3>4. ASSUME client'.pc = "forwardQuery" PROVE Provides(client'.prApp, q.entities, q.attrs, q.paths)
      BY <2>0, <3>2, <3>3, <3>4, ProviderProvides, ZenonT(30)
    <3> QED
      BY <3>1, <3>2, <3>4, ZenonT(30) DEF Forwards
  <2>6. CASE forwardQuery
    <3>1. client.pc = "forwardQuery"
      BY <2>6, ZenonT(30) DEF forwardQuery
    <3>2. client # Idle
      BY ONLY <3>1, SMTT(20) DEF Idle
    <3> QED
      BY <3>1, <3>2, ZenonT(30) DEF Forwards
  <2>7. CASE forwardUpdateContext
    <3>1. client.pc = "forwardUpdateContext"
      BY <2>7, ZenonT(30) DEF forwardUpdateContext
    <3>2. client # Idle
      BY ONLY <3>1, SMTT(20) DEF Idle
    <3> QED
      BY <3>1, <3>2, ZenonT(30) DEF Forwards
  <2>8. CASE reply
    BY <2>8, ZenonT(30) DEF reply, Idle, Forwards
  <2> QED
    BY <2>1, <2>2, <2>3, <2>4, <2>5, <2>6, <2>7, <2>8 DEF Next, vars
<1> QED
  BY <1>1, FwdInvariant, AvailabilityImplemented, PTL DEF Spec, ForwardedToProvider

\* processContextElement makes one of these when at most one entity is found.
LEMMA ElementShape ==
  ASSUME registrations \in Seq(RegDoc), NEW r, NEW k \in Nat, NEW fault,
         Cardinality(FoundTypes(r, r.elements[k])) <= 1
  PROVE  Shape(k, ElementResponses(r, k, fault))
<1> PICK s, t, e, found : /\ s = ElementResponses(r, k, fault)
                          /\ t = EntityResponses(r, k, fault)
                          /\ e = r.elements[k]
                          /\ found = FoundTypes(r, r.elements[k])
  BY Zenon
<1>0. Rightful(r) \subseteq Resp
  BY ZenonT(30) DEF Rightful
<1>1. s \in Seq(Resp)
  <2>1. s \in Seq(Rightful(r))
    BY ElementRightful, Zenon
  <2> QED
    BY <1>0, <2>1
<1>20. IsFiniteSet(found)
  BY FoundFinite, Zenon
<1>2. /\ t \in Seq(Rightful(r)) /\ Len(t) = Cardinality(found)
      /\ \A i \in 1 .. Cardinality(found) : t[i] = EntityResponse(r, k, SetToSeq(found)[i], fault)
  <2>1. EachAnswered(r, k, fault, found, t)
    BY EntityAnswers, Zenon
  <2> QED
    BY ONLY <2>1, Zenon DEF EachAnswered
<1>3. PICK n \in Nat : n = Cardinality(found)
  BY <1>20, FS_CardinalityType, ZenonT(30)
<1>4. n = 0 \/ n = 1
  BY <1>3
<1>5. t \in Seq(Resp) /\ Len(t) = n
  BY <1>0, <1>2, <1>3
<1>6. \A i \in 1 .. n : t[i] = EntityResponse(r, k, SetToSeq(found)[i], fault) /\ t[i].elem = k
  <2> TAKE i \in 1 .. n
  <2>1. PICK z : z = SetToSeq(found)[i]
    BY Zenon
  <2>2. t[i] = EntityResponse(r, k, z, fault)
    BY ONLY <1>2, <1>3, <2>1, i \in 1 .. n, ZenonT(30)
  <2>3. RightfulAnswer(r, k, EntityResponse(r, k, z, fault))
    BY EntityAnswer, Zenon
  <2> QED
    BY ONLY <2>1, <2>2, <2>3, ZenonT(30) DEF RightfulAnswer
<1>7. ASSUME NEW x, RightfulAnswer(r, k, x), s = <<x>> PROVE Shape(k, s)
  <2>1. Len(s) = 1 /\ \A i \in 1 .. Len(s) : s[i] = x
    BY ONLY <1>7
  <2> QED
    BY <1>1, <1>7, <2>1, ZenonT(30) DEF Shape, RightfulAnswer
<1>8. ASSUME WithAttribute(r, e) # {}, s = t PROVE Shape(k, s)
  <2>1. found # {}
    BY <1>8, Zenon DEF WithAttribute
  <2>2. n # 0
    BY <1>20, <1>3, <2>1, FS_EmptySet, ZenonT(30)
  <2> QED
    BY <1>1, <1>4, <1>5, <1>6, <1>8, <2>2, ZenonT(30) DEF Shape
<1>9. ASSUME WithAttribute(r, e) = {}, NEW x, RightfulAnswer(r, k, x), Searched(x), s = Append(t, x)
      PROVE  Shape(k, s)
  <2>1. /\ Len(s) = n + 1 /\ s[n + 1] = x
        /\ \A i \in 1 .. n : s[i] = t[i]
    BY ONLY <1>5, <1>9, n \in Nat
  <2>2. x.elem = k
    BY <1>9, Zenon DEF RightfulAnswer
  <2>3. ASSUME NEW i \in 1 .. Len(s) PROVE s[i].elem = k
    <3>1. i \in 1 .. n \/ i = n + 1
      BY <2>1
    <3> QED
      BY <1>6, <2>1, <2>2, <3>1, ZenonT(30)
  <2>4. CASE n = 0
    <3>1. Len(s) = 1
      BY <2>1, <2>4
    <3> QED
      BY <1>1, <2>3, <3>1, ZenonT(30) DEF Shape
  <2>5. CASE n = 1
    <3>1. PICK z : z = SetToSeq(found)[1]
      BY Zenon
    <3>2. 1 \in 1 .. n
      BY <2>5
    <3>3. z \in found
      <4>1. SetToSeq(found) \in Seq(found) /\ Len(SetToSeq(found)) = n
        BY <1>20, <1>3, SetToSeqMembers, ZenonT(30)
      <4> QED
        BY <3>1, <3>2, <4>1
    <3>4. e.attr \notin local[<<e.id, z>>]
      BY <1>9, <3>3, ZenonT(30) DEF WithAttribute
    <3>5. s[1] = EntityResponse(r, k, z, fault)
      BY <1>6, <2>1, <3>1, <3>2, ZenonT(30)
    <3>6. Invalid(s[1])
      BY <3>4, <3>5, EntityAnswer, ZenonT(30)
    <3>7. Len(s) = 2 /\ s[2] = x
      BY ONLY <2>1, <2>5
    <3> QED
      BY ONLY <1>1, <1>9, <2>3, <3>6, <3>7 DEF Shape, Invalid, Searched
  <2> QED
    BY <1>4, <2>4, <2>5, ZenonT(30)
<1>10. OneAnswer(r, k, s) \/ FoundAnswers(r, k, s, t) \/ SearchedAnswers(r, k, s, t)
  BY ElementCases, Zenon
<1> QED
  BY <1>7, <1>8, <1>9, <1>10, ZenonT(30) DEF OneAnswer, FoundAnswers, SearchedAnswers

\* Numbers up to n, and no more than one of them.
LEMMA AtMostOne ==
  ASSUME NEW n \in Nat, NEW A \in SUBSET (1 .. n), Cardinality(A) <= 1
  PROVE  AllTheSame(A)
<1>1. IsFiniteSet(A)
  <2>1. IsFiniteSet(1 .. n)
    BY FS_Interval
  <2> QED
    BY <2>1, FS_Subset, ZenonT(30)
<1>2. Cardinality(A) = 0 \/ Cardinality(A) = 1
  BY <1>1, FS_CardinalityType
<1>3. A = {} \/ \E x : A = {x}
  BY <1>1, <1>2, FS_EmptySet, FS_Singleton, ZenonT(30)
<1> QED
  BY <1>3, Zenon DEF AllTheSame

\* At most one 472, and at most one entity for each element.
Plain(history) == Cardinality(history.invalid) <= 1 /\ ~history.several

\* What mongoUpdateContext and the loop leave for an update.
LEMMA UpdateAnswered ==
  ASSUME registrations \in Seq(RegDoc), NEW r \in UpdateRequests, NEW fault
  PROVE  /\ cleanResponses(Responses(r, fault), r) \in Seq(Resp)
         /\ Plain(History(r, Responses(r, fault))) =>
              InOrder(cleanResponses(Responses(r, fault), r), Len(r.elements))
<1>1. PICK n \in Nat : DOMAIN r.elements = 1 .. n /\ Len(r.elements) = n
  BY UpdateRequestsAssumption
<1> PICK ss, v : ss = [k \in 1 .. n |-> ElementResponses(r, k, fault[k])] /\ v = Responses(r, fault)
  BY Zenon
<1>2. v = FlattenSeq(ss)
  BY <1>1, Zenon DEF Responses
<1>3. cleanResponses(v, r) \in Seq(Resp)
  <2>1. cleanResponses(v, r) \in Seq(Rightful(r))
    BY ResponsesRightful, Zenon
  <2>2. Rightful(r) \subseteq Resp
    BY Zenon DEF Rightful
  <2> QED
    BY <2>1, <2>2
<1>4. ASSUME Plain(History(r, v)) PROVE InOrder(cleanResponses(v, r), n)
  <2>1. /\ Cardinality(InvalidParameter(v)) <= 1
        /\ \A k \in 1 .. n : ~(Cardinality(FoundTypes(r, r.elements[k])) > 1)
    BY <1>1, <1>4, ZenonT(30) DEF Plain, History
  <2>2. ASSUME NEW k \in 1 .. n PROVE Shape(k, ss[k])
    <3>1. k \in Nat
      OBVIOUS
    <3>2. PICK found : found = FoundTypes(r, r.elements[k])
      BY Zenon
    <3>3. Cardinality(found) \in Nat
      BY <3>2, FoundFinite, FS_CardinalityType, ZenonT(30)
    <3>4. ~(Cardinality(found) > 1)
      BY <2>1, <3>2, ZenonT(30)
    <3>5. Cardinality(found) <= 1
      BY ONLY <3>3, <3>4
    <3> QED
      BY <3>1, <3>2, <3>5, ElementShape, ZenonT(30)
  <2>3. ss \in Seq(Seq(Resp)) /\ Len(ss) = n
    <3>1. \A k \in 1 .. n : ss[k] \in Seq(Resp)
      BY <2>2, ZenonT(30) DEF Shape
    <3>2. ss \in [1 .. n -> Seq(Resp)]
      BY <3>1, Zenon
    <3> QED
      BY ONLY <3>2, n \in Nat
  <2>4. Shapes(ss)
    BY <2>2, <2>3, ZenonT(30) DEF Shapes
  <2>5. InvalidParameter(FlattenSeq(ss)) \in SUBSET (1 .. n)
    BY <2>3, <2>4, InvalidElements, ZenonT(30)
  <2>6. AllTheSame(InvalidParameter(FlattenSeq(ss)))
    BY <1>2, <2>1, <2>5, AtMostOne, ZenonT(30)
  <2> QED
    BY <1>1, <1>2, <2>3, <2>4, <2>6, PlacesKept, ZenonT(30)
<1> QED
  BY <1>1, <1>3, <1>4, ZenonT(30)

\* While an update is forwarded and until it is answered there is one response to each
\* element, in the order of the request.
AnswerInv ==
  client.pc = "updated" \/ client.pc = "forwardUpdateContext" =>
    /\ client.responses \in Seq(Resp)
    /\ client.pc = "forwardUpdateContext" => client.whole = FALSE
    /\ ~client.whole /\ Plain(client.history) =>
         InOrder(client.responses, Len(client.req.elements))

\* An update with at most one 472 and at most one entity for each element is answered
\* element by element, in the order of the request, whatever the providers answer.
THEOREM AnsweredOnceAlways == Spec => []AnsweredOnce
<1>1. Init => AnswerInv
  BY DEF Init, AnswerInv, Idle
<1>2. FwdInv /\ AnswerInv /\ [Next]_vars => AnswerInv'
  <2> SUFFICES ASSUME FwdInv, AnswerInv, [Next]_vars PROVE AnswerInv'
    BY Zenon
  <2>0. registrations \in Seq(RegDoc)
    BY Zenon DEF FwdInv, FwdType
  <2>1. CASE client' = client
    BY <2>1, ZenonT(30) DEF AnswerInv
  <2>2. CASE \E q \in QueryRequests : mongoQueryContext(q)
    BY <2>2 DEF mongoQueryContext, Answer, AnswerInv
  <2>3. CASE \E r \in UpdateRequests : postUpdateContext(r)
    <3>1. PICK r \in UpdateRequests : postUpdateContext(r)
      BY <2>3, Zenon
    <3>2. PICK fault : client' = UpdateOp(r, cleanResponses(Responses(r, fault), r), FALSE,
                                          History(r, Responses(r, fault)))
      BY <3>1, ZenonT(30) DEF postUpdateContext, Responses
    <3>3. PICK v, h : /\ v = cleanResponses(Responses(r, fault), r)
                      /\ h = History(r, Responses(r, fault))
      BY Zenon
    <3>4. v \in Seq(Resp) /\ (Plain(h) => InOrder(v, Len(r.elements)))
      BY <2>0, <3>3, UpdateAnswered, ZenonT(30)
    <3>5. client'.responses = v /\ client'.whole = FALSE /\ client'.history = h /\ client'.req = r
      BY <3>2, <3>3, ZenonT(30) DEF UpdateOp
    <3> QED
      BY <3>4, <3>5, ZenonT(30) DEF AnswerInv
  <2>4. CASE \E r \in UpdateRequests : appendContext(r)
    BY <2>1, <2>4, ZenonT(30) DEF appendContext
  <2>5. CASE providerOfQuery
    BY <2>5 DEF providerOfQuery, Answer, AnswerInv
  <2>6. CASE forwardQuery
    BY <2>6 DEF forwardQuery, Answer, AnswerInv
  <2>7. CASE forwardUpdateContext
    <3>1. client.pc = "forwardUpdateContext"
      BY <2>7, Zenon DEF forwardUpdateContext
    <3>2. /\ client.responses \in Seq(Resp)
          /\ Plain(client.history) => InOrder(client.responses, Len(client.req.elements))
      BY <3>1, Zenon DEF AnswerInv
    <3>3. ASSUME NEW ix, NEW code \in Nat, RecodedClient(ix, code) PROVE AnswerInv'
      <4>1. PICK v : v = [client.responses EXCEPT ![ix].code = code]
        BY Zenon
      <4>2. /\ v \in Seq(Resp)
            /\ Plain(client.history) => InOrder(v, Len(client.req.elements))
        BY <3>2, <4>1, RecodedInOrder, ZenonT(30)
      <4>3. client' = UpdateOp(client.req, v, FALSE, client.history)
        BY <3>3, <4>1, ZenonT(30) DEF RecodedClient
      <4>4. /\ client'.responses = v /\ client'.whole = FALSE
            /\ client'.history = client.history /\ client'.req = client.req
        BY <4>3, Zenon DEF UpdateOp
      <4> QED
        BY <4>2, <4>4, ZenonT(30) DEF AnswerInv
    <3>4. ASSUME EndedClient PROVE AnswerInv'
      <4>1. /\ client'.responses = <<>> /\ client'.whole = TRUE
            /\ client'.pc = IF FoundResponses(<<>>) = {} THEN "updated" ELSE "forwardUpdateContext"
        BY <3>4, ZenonT(30) DEF EndedClient, UpdateOp
      <4>2. FoundResponses(<<>>) = {} /\ <<>> \in Seq(Resp)
        BY DEF FoundResponses
      <4> QED
        BY <4>1, <4>2, ZenonT(30) DEF AnswerInv
    <3> QED
      BY <2>7, <3>3, <3>4, ForwardStep, ZenonT(30)
  <2>8. CASE reply
    BY <2>8, ZenonT(30) DEF reply, Idle, AnswerInv
  <2> QED
    BY <2>1, <2>2, <2>3, <2>4, <2>5, <2>6, <2>7, <2>8, ZenonT(30) DEF Next, vars
<1>3. AnswerInv => AnsweredOnce
  BY DEF AnswerInv, AnsweredOnce, InOrder, Plain
<1> QED
  BY <1>1, <1>2, <1>3, FwdInvariant, AvailabilityImplemented, PTL DEF Spec

=============================================================================
