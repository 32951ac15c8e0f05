------------------------------- MODULE MCNode -------------------------------
(***************************************************************************)
(* Values of the constants of Node that a configuration file cannot write, *)
(* and a constraint that keeps a search short.                             *)
(***************************************************************************)
EXTENDS Node

OneTopic   == <<"rpc_response">>
\* The five subscriptions of the CONNECTED handler.
FiveTopics == <<"rpc_request", "rpc_response", "attr_response", "attributes", "fw">>

\* A broker that accepts connections and is slow to acknowledge subscriptions.
SlowBroker == acked = {}
=============================================================================
