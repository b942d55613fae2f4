----------------------------- MODULE MCRpcPair -----------------------------
(***************************************************************************)
(* An instance of RpcPair: a client that may have two calls waiting, and a    *)
(* server that takes one request at a time and sends a notification.          *)
(***************************************************************************)
EXTENDS RpcPair

OnlyClient == {"client"}
Calls2And1 == [client |-> 2, server |-> 1]
OneFromServer == [client |-> 0, server |-> 1]
============================================================================
