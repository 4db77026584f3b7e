------------------------- MODULE MCReplicatedVBucket -------------------------
(* ReplicatedVBucket for TLC: nodes and keys are interchangeable.          *)
EXTENDS ReplicatedVBucket, TLC

Symmetry == Permutations(Nodes) \cup Permutations(Keys)

Bound(nodes, keys, seqnos, uuids, failures) ==
    [nodes |-> nodes, keys |-> keys, seqnos |-> seqnos, branches |-> uuids,
     faults |-> failures]

(* Three seqnos and two keys: a snapshot leaves out a version of a key.    *)
(* Three uuids and a fault: a failover on top of a failover.  Three nodes: *)
(* the new active node and the old one have followed different nodes.      *)
FailoverScenarios ==
    {Bound(2, 2, 3, 2, 0), Bound(2, 1, 2, 3, 1), Bound(3, 1, 1, 3, 0)}

UnpersistedScenarios == {Bound(2, 1, 2, 2, 0)}

=============================================================================
