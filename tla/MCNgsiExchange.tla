--------------------------- MODULE MCNgsiExchange ---------------------------
(* Small sets of messages for NgsiExchange. *)
EXTENDS NgsiExchange

Code(c, d) == [code |-> c, reasonPhrase |-> "x", details |-> d]
Ok    == Code("SccOk", "")
None  == Code("SccNone", "")
Lost  == Code("SccContextElementNotFound", "")
Wrong == Code("SccInvalidParameter", "x")

Entity1(id, isPattern) == [id |-> id, isPattern |-> isPattern]
E1 == Entity1("E1", "false")

Vectors1(S) == {<<>>} \cup {<<x>> : x \in S}

Plain(name, value) == [name |-> name, type |-> "t", value |-> value]
Assoc(name, s, l)  == [name |-> name, type |-> "Association", value |-> "", source |-> Entity1(s, ""),
                       target |-> E1, association |-> l]
Pair == [source |-> "A1", target |-> "A2"]

MdSets(extra) == {<<>>, <<Plain("M1", "v")>>, <<Plain("M1", "v"), Plain("M2", "v")>>} \cup {<<m>> : m \in extra}

Text(name) == [type |-> "String", name |-> name, childV |-> <<>>]
Node(type, name, childV) == [type |-> type, name |-> name, childV |-> childV]
Compounds == {NoCompound, Node("Object", "", <<Text("x")>>), Node("Vector", "", <<Text(""), Text("")>>),
              Node("Object", "", <<Node("Vector", "x", <<Text(""), Node("Object", "", <<Text("z")>>)>>), Text("y")>>),
              Node("Vector", "", <<Node("Vector", "", <<>>), Node("Object", "", <<Node("Object", "x", <<>>), Text("y")>>)>>)}

Attribute1(name, type, compound, mds) ==
  [name |-> name, type |-> type, compoundValueP |-> compound, metadataVector |-> mds]
Attributes1 ==
  {Attribute1("A1", type, compound, mds) :
     type \in {"", "t"}, compound \in Compounds, mds \in MdSets({})}
Typed == {Attribute1("A1", "t", NoCompound, <<>>), Attribute1("A2", "t", NoCompound, <<>>)}
Named(names) == [i \in DOMAIN names |-> Attribute1(names[i], "t", NoCompound, <<>>)]
Copies == {Named(<<"A1", "A1", "A1">>), Named(<<"A1", "A1", "A2">>), Named(<<"A1", "A2", "A1">>),
           Named(<<"A1", "A1", "A2", "A2">>), Named(<<"A1", "A2", "A2", "A1">>)}
Two(S) == {<<>>} \cup {<<a>> : a \in S} \cup {<<a, Attribute1(n, "t", NoCompound, <<>>)>> : a \in S, n \in {"A1", "A2"}}
          \cup Copies

Element1(e, avs, dmds, domain) ==
  {[entityId |-> e, contextAttributeVector |-> av, domainMetadataVector |-> d, attributeDomainName |-> n] :
     av \in avs, d \in dmds, n \in domain}
Elements(avs) == Element1(E1, avs, {<<>>}, {""})
Responses(avs, codes) == {[contextElement |-> ce, statusCode |-> sc] : ce \in Elements(avs), sc \in codes}
Short == {<<Attribute1("A1", "t", NoCompound, <<>>)>>}
ResponseVectors(avs, codes) ==
  {<<r>> : r \in Responses(avs, codes)} \cup {<<r, q>> : r \in Responses(avs, codes), q \in Responses(Short, codes)}
Simple == {a \in Attributes1 : a.compoundValueP = NoCompound}

RegAttr(mds) == {[name |-> "A1", isDomain |-> d, metadataVector |-> m] : d \in {"true", "false"}, m \in mds}
Registrations(mds, rmds, es, apps) ==
  {[entityIdVector |-> e, contextRegistrationAttributeVector |-> a, registrationMetadataVector |-> m,
    providingApplication |-> p, entityIdVectorPresent |-> pres] :
     e \in es, a \in Vectors1(RegAttr(mds)), m \in rmds, p \in apps, pres \in {TRUE}}
Known1 == Registrations(MdSets({}), MdSets({}), {<<E1>>, <<E1, E1>>}, {"http://cpr"})

MCPeerRequests ==
  {[formats |-> {"XML", "JSON"}, request |-> r] : r \in
     {[kind |-> "Ncr", subscriptionId |-> "id", originator |-> "localhost", contextElementResponseVector |-> v] :
        v \in ResponseVectors(Two(Attributes1), {Ok})}
     \cup {[kind |-> "Ncar", subscriptionId |-> "id", contextRegistrationResponseVector |-> v] :
        v \in {<<[contextRegistration |-> cr, errorCode |-> None]>> : cr \in Known1}}}
  \cup {[formats |-> {"XML"}, request |-> r] : r \in
     {[kind |-> "Upcr", contextElementVector |-> <<ce>>, updateActionType |-> a] :
        ce \in Elements(Two(Attributes1)), a \in {"UPDATE", "APPEND"}}}

Circle(r, la, inv) == [type |-> "FIWARE::Location", value |-> "", areaType |-> "circle",
                       area |-> [radius |-> r, latitude |-> la, longitude |-> "1", inverted |-> inv]]
Vertex(la) == [latitude |-> la, longitude |-> "1"]
Polygon(vs) == [type |-> "FIWARE::Location", value |-> "", areaType |-> "polygon", area |-> [vertexList |-> vs, inverted |-> ""]]
Other(v) == [type |-> "SimpleScope", value |-> v, areaType |-> "none"]
Restricted(scopes) ==
  {[restriction |-> [attributeExpression |-> "", scopeVector |-> <<>>], restrictions |-> n] : n \in {0, 1}}
  \cup {[restriction |-> [attributeExpression |-> x, scopeVector |-> <<s>>], restrictions |-> 1] : x \in {"", "x"}, s \in scopes}
Areas == {Circle("1", "1", ""), Circle("", "1", ""), Circle("1", "", ""), Circle("1", "", "true"), Circle("1", "bad", "true"),
          Polygon(<<Vertex("1"), Vertex("1")>>), Polygon(<<Vertex("1"), Vertex("bad"), Vertex("1")>>),
          Polygon(<<Vertex("1"), Vertex("1"), Vertex("1")>>)}
EntityIds == {<<>>, <<E1>>, <<Entity1("", "")>>, <<Entity1(".*", "true")>>, <<E1, Entity1("E2", "bad")>>}

Queries(kind, r) ==
  {[kind |-> kind, entityIdVector |-> e, attributeList |-> a, restriction |-> q.restriction, restrictions |-> q.restrictions] :
     e \in EntityIds, a \in {<<>>, <<"A1">>, <<"A1", "A2">>, <<"">>}, q \in r}

Conditions == {[type |-> "ONCHANGE", condValueList |-> <<"A1">>], [type |-> "ONCHANGE", condValueList |-> <<"">>],
               [type |-> "bad", condValueList |-> <<"A1">>]}

SubscriptionsOf(kind) ==
  {[kind |-> kind, entityIdVector |-> e, attributeList |-> <<>>, restriction |-> q.restriction, restrictions |-> q.restrictions,
    duration |-> d, throttling |-> d, notifyConditionVector |-> n, subscriptionId |-> i, reference |-> f] :
     e \in {<<>>, <<E1>>}, q \in Restricted({Other(""), Other("v")}), d \in {"", "PT1H", "bad"},
     n \in {<<c>> : c \in Conditions}, i \in {"id", "bad"}, f \in {"", "http://ref"}}

RegisterRequests ==
  {[kind |-> "Rcr", contextRegistrationVector |-> v, duration |-> d, registrationId |-> i] :
     v \in {<<>>} \cup {<<c>> : c \in Registrations({<<>>, <<Plain("M1", "v")>>}, MdSets({Plain("", "v"), Plain("M1", ""), Assoc("M1", "E2", <<Pair>>), Assoc("M1", "", <<>>), Assoc("M1", "E2", <<>>)}),
                                          EntityIds, {"", "http://cpr"})},
     d \in {"", "PT1H", "bad"}, i \in {"", "id", "bad"}}

UpdateRequests ==
  {[kind |-> "Upcr", contextElementVector |-> v, updateActionType |-> a] :
     v \in {<<>>} \cup {<<ce>> : ce \in Element1(E1, {<<>>, <<Attribute1("", "t", NoCompound, <<>>)>>} \cup Short, MdSets({Plain("", "v")}), {"", "d"})}
           \cup {<<ce, ce2>> : ce \in Elements(Short), ce2 \in Element1(Entity1("", ""), Short, {<<>>}, {""})},
     a \in {"APPEND", "bad"}}

MCClientRequests ==
  Queries("Qcr", Restricted(Areas \cup {Other("v"), Other("")})) \cup Queries("Dcar", Restricted({Other("v")}))
  \cup UNION {SubscriptionsOf(k) : k \in {"Scr", "Ucsr", "Scar", "Ucas"}}
  \cup RegisterRequests \cup UpdateRequests
  \cup {[kind |-> "Get"]}
  \cup {[kind |-> k, subscriptionId |-> i] : k \in {"Uncr", "Ucar"}, i \in {"id", "bad"}}
  \cup {[kind |-> k, contextAttributeVector |-> v, domainMetadataVector |-> d] :
          k \in {"Acer", "Ucer"}, v \in {<<>>, <<Attribute1("", "t", NoCompound, <<>>)>>} \cup Short, d \in MdSets({Plain("", "v")})}
  \cup {[kind |-> "Upcar", contextValue |-> v, compound |-> c, metadataVector |-> d] :
          v \in {"", "v"}, c \in {"none", "Object"}, d \in MdSets({Plain("", "v")})}
  \cup {[kind |-> "Rpr", metadataVector |-> d, duration |-> u, providingApplication |-> p, registrationId |-> i] :
          d \in MdSets({Plain("", "v")}), u \in {"", "PT1H", "bad"}, p \in {"", "http://cpr"}, i \in {"", "id", "bad"}}

Updated(kind, avs, request) ==
  {[kind |-> kind, contextElementResponseVector |-> <<r>>, errorCode |-> e, request |-> request] :
     r \in Responses(avs, {Ok, None, Lost, Wrong}), e \in {None, Lost}}

Elements2(kind) ==
  {[kind |-> kind, contextElementResponseVector |-> v, errorCode |-> e] :
     v \in {<<>>} \cup ResponseVectors(Two(Simple), {Ok, Lost}), e \in {None, Ok, Code("SccOk", "Count: 1"), Lost}}

Subscribed(kind) ==
  {[kind |-> kind, subscriptionId |-> i, duration |-> d, throttling |-> t, errorCode |-> e] :
     i \in {"", "id"}, d \in {"", "PT1H"}, t \in {"", "PT1H"}, e \in {None, Lost, Wrong}}

Discovered ==
  {[kind |-> "Dcars", responseVector |-> v, errorCode |-> e] :
     v \in {<<>>} \cup {<<[contextRegistration |-> cr, errorCode |-> None]>> : cr \in
                          Registrations({<<>>}, MdSets({Assoc("M1", "E2", <<Pair>>), Assoc("M1", "E2", <<>>)}), {<<E1>>, <<>>}, {"http://cpr"})},
     e \in {None, Lost}}

Registered ==
  {[kind |-> "Rcrs", registrationId |-> i, duration |-> d, errorCode |-> e] :
     i \in {"", "id"}, d \in {"", "PT1H"}, e \in {None, Ok, Wrong}}

Told(kind) == {[kind |-> kind, errorCode |-> e] : e \in {Ok, Wrong}}

EntityTypes1 == {[contextAttributeVector |-> v] : v \in {<<>>} \cup {<<a>> : a \in Typed} \cup {<<a, b>> : a \in Typed, b \in Typed} \cup Copies}

Got ==
  {[kind |-> "Cer", contextElementResponse |-> [contextElement |-> ce, statusCode |-> Ok],
    contextElementResponseVector |-> v, errorCode |-> e] :
     ce \in Elements({<<>>}), v \in {<<>>} \cup {<<r>> : r \in Responses(Two(Attributes1), {Ok, Lost})}, e \in {None, Lost}}
  \cup {[kind |-> "Car", contextAttributeResponse |-> [contextAttributeVector |-> v, statusCode |-> e], request |-> r] :
          v \in Two(Attributes1), e \in {Ok, Lost}, r \in {"IndividualContextEntityAttribute", "IndividualContextEntityAttributes"}}
  \cup {[kind |-> "Types", typeEntityVector |-> v, statusCode |-> e] :
          v \in {<<>>} \cup {<<t>> : t \in EntityTypes1} \cup {<<t, u>> : t \in EntityTypes1, u \in EntityTypes1}, e \in {Ok, Lost}}
  \cup {[kind |-> "Type", entityType |-> t, statusCode |-> e] : t \in EntityTypes1, e \in {Ok, Lost}}
  \cup {[kind |-> "Error", details |-> d] : d \in {"", "x"}}
  \cup Elements2("Qcrs") \cup Discovered \cup Updated("Status", Short, "x")

MCAnswers ==
  [Get |-> Got, Rcr |-> Registered, Dcar |-> Discovered, Scar |-> Subscribed("Scars"), Ucas |-> Subscribed("Ucass"),
   Ucar |-> Told("Ucars"), Ncar |-> Told("Ncars"), Qcr |-> Elements2("Qcrs"), Upcr |-> Elements2("Upcrs"),
   Scr |-> Subscribed("Scrs"), Uncr |-> Told("Uncrs"), Ucsr |-> Subscribed("Ucsrs"), Ncr |-> Told("Ncrs"),
   Acer |-> Updated("Acers", Two(Attributes1), "AppendContextElement") \cup Updated("Status", Short, "x"),
   Ucer |-> Updated("Ucers", Two(Attributes1), "UpdateContextElement"),
   Upcar |-> Updated("Status", Short, "x"), Rpr |-> Registered]

MCConnections ==
  {[outFormat |-> "XML", object |-> FALSE, collapse |-> c] : c \in BOOLEAN}
  \cup {[outFormat |-> "JSON", object |-> o, collapse |-> c] : o \in BOOLEAN, c \in BOOLEAN}
=============================================================================
