----------------------------- MODULE MCProtocol -----------------------------
(* Instances of Protocol for TLC: what a client may do before LOGIN, with  *)
(* LOGIN and after it.                                                     *)
EXTENDS ProtocolProps

\* Payloads of every length after one another, and LOGIN in every position.
Sessions ==
  {<<"login", "order", "funds", "order">>, <<"login", "order", "status", "funds">>,
   <<"funds", "login", "login">>}
=============================================================================
