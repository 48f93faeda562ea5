------------------------------ MODULE MCAccess ------------------------------
(***************************************************************************)
(* Instance of Access for TLC: a request behind one proxy, with what a     *)
(* caller may have written into X-Forwarded-For.                           *)
(***************************************************************************)
EXTENDS Access

MCPrefixes == {<<>>, <<"forged">>, <<"garbage", "forged">>, <<"forged", "garbage">>}
=============================================================================
