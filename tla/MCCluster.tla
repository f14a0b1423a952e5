------------------------------ MODULE MCCluster ------------------------------
(* Small instances of Cluster for TLC. *)
EXTENDS Cluster

CONSTANTS n1, n2, n3

\* Nothing tells the nodes apart, so that what holds of n1 holds of every node.
\* A manager that has lost its session leaves service.
StaleManagerLeaves == LeavesWhenStale(n1)

\* A process that is told to stop comes to an end, or waits for its etcd in vain.
ShutdownCompletes == ShutsDown(n1)
=============================================================================
