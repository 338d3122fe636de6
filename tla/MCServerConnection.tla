------------------------- MODULE MCServerConnection -------------------------
(* Instances of ServerConnection for TLC.                                   *)
EXTENDS ServerConnection

CONSTANT Busy  \* the connection that carries the requests

OnBusy == [r \in Requests |-> Busy]
=============================================================================
