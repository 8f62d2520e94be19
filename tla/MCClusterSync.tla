---------------------------- MODULE MCClusterSync ----------------------------
(* Instances of ClusterSync for TLC.                                       *)
EXTENDS ClusterSync, TLC

\* Leaving the cluster with and without the URL in the request, and staying.
AllSettings == {[mode |-> "primary", url |-> FALSE], [mode |-> "primary", url |-> TRUE],
                [mode |-> "secondary", url |-> TRUE]}
=============================================================================
