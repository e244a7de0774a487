-------------------------- MODULE MCGatewayServer --------------------------
(***************************************************************************)
(* GatewayServer for TLC: the streams of the HTTPS clients.                *)
(***************************************************************************)
EXTENDS GatewayServer

CONSTANT First  \* the client with the longer streams

End(r, n, c) == [part |-> "end", length |-> n, close |-> c, req |-> r]
Body(r) == [part |-> "body", length |-> 0, close |-> FALSE, req |-> r]

\* The first client sends a request with a body and one behind it, or one that
\* closes with another behind it; the others send one that is too long.
Streams ==
  [c \in TlsClients |->
     IF c = First
     THEN {<<End(1, 1, FALSE), Body(1), End(2, 0, FALSE)>>,
           <<End(1, 0, TRUE), End(2, 0, FALSE)>>}
     ELSE {<<End(1, MaxRequest, FALSE)>>}]
=============================================================================
