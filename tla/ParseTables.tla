----------------------------- MODULE ParseTables -----------------------------
(***************************************************************************)
(* The request tables of the two parsers (jsonRequest and xmlRequest): the *)
(* parse vector of each request type.                                      *)
(***************************************************************************)
EXTENDS Ngsi9ParseVectors, Ngsi10ParseVectors

JsonVectors ==
  [Rcr |-> JsonRcr, Dcar |-> JsonDcar, Scar |-> JsonScar, Ucar |-> JsonUcar, Ncar |-> JsonNcar,
   Ucas |-> JsonUcas, Qcr |-> JsonQcr, Upcr |-> JsonUpcr, Scr |-> JsonScr, Ncr |-> JsonNcr,
   Uncr |-> JsonUncr, Ucsr |-> JsonUcsr, Rpr |-> JsonRpr, Ucer |-> JsonUcer, Acer |-> JsonAcer,
   Upcar |-> JsonUpcar]

XmlVectors ==
  [Rcr |-> XmlRcr, Dcar |-> XmlDcar, Scar |-> XmlScar, Ucar |-> XmlUcar, Ncar |-> XmlNcar,
   Ucas |-> XmlUcas, Qcr |-> XmlQcr, Upcr |-> XmlUpcr, Scr |-> XmlScr, Ncr |-> XmlNcr,
   Uncr |-> XmlUncr, Ucsr |-> XmlUcsr, Rpr |-> XmlRpr, Ucer |-> XmlUcer, Acer |-> XmlAcer,
   Upcar |-> XmlUpcar, Rcrs |-> XmlRcrs, Qcrs |-> XmlQcrs, Upcrs |-> XmlUpcrs]

Vectors(f) == IF f = "JSON" THEN JsonVectors ELSE XmlVectors

(* The paths at which a node without text and with children is a compound. *)
JsonCompoundRoots ==
  {JCA & "value", <<"attributes", "attribute", "value">>,
   JNCE & "attributes" & "attribute" & "value", <<"value">>}

XmlCompoundRoots ==
  {XCA & "contextValue", XUPCAR & "contextValue"}
  \cup {root & "contextAttributeList" & "contextAttribute" & "contextValue" : root \in {XACER, XUCER}}
  \cup {XCER(XNCRQ) & "contextElement" & "contextAttributeList" & "contextAttribute" & "contextValue"}
=============================================================================
