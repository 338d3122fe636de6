--------------------------- MODULE MCRateLimiter ---------------------------
(* Instances of RateLimiter for TLC.                                        *)
EXTENDS RateLimiter

CONSTANT TheIp

OneIp == [x \in Conns \cup Acceptors |-> TheIp]
TwoMessagesThreeBytes == [period |-> 2, max_messages |-> 2, max_bytes |-> 3]
OneMessage == [period |-> 1, max_messages |-> 1, max_bytes |-> None]
=============================================================================
