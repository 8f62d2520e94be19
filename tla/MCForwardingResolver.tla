------------------------ MODULE MCForwardingResolver ------------------------
(* Instances of ForwardingResolver for TLC. *)
EXTENDS ForwardingResolver
=============================================================================
