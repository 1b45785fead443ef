--------------------------- MODULE MCRequestParts ---------------------------
(***************************************************************************)
(* RequestParts for model checking: clients with and without a tenant.     *)
(***************************************************************************)
EXTENDS RequestParts

NoneAndA == {<<>>, <<"a">>}
=============================================================================
