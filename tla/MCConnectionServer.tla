-------------------------- MODULE MCConnectionServer --------------------------
(* A small instance of ConnectionServer for TLC: two clients of two lines each *)
(* where a connection has several lines, of one line for "reverse", and one     *)
(* client more than there are slots where it has one request.                  *)
EXTENDS ConnectionServer

MCNumClients == [p \in Programs |-> IF p \in {"slots", "time"} THEN 3 ELSE 2]
MCMaxRequests ==
    [p \in Programs |-> IF p \in {"slots", "time", "reverse"} THEN 1 ELSE 2]

=============================================================================
