----------------------------- MODULE MCTCPServer -----------------------------
(* Instances of TCPServer for TLC.                                         *)
EXTENDS TCPServer

\* All connections come from one address.
OneAddress == [c \in Conns |-> "a"]
=============================================================================
