---------------------------- MODULE MCDispatcher ----------------------------
(* An instance of Dispatcher for TLC: an HTTP function, a function with a   *)
(* client factory, and an id nothing is registered for.  A legacy function  *)
(* does what the one with a factory does up to the factory, a generic one   *)
(* what the HTTP function does when its request comes in the gRPC body.     *)
EXTENDS Dispatcher

CONSTANTS http, client, other

MCFunctionIds == {http, client, other}
MCStyle == [f \in {http, client} |-> IF f = http THEN "http" ELSE "client"]
=============================================================================
