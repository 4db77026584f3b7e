------------------------ MODULE MCVBucketCheckpoints ------------------------
(* VBucketCheckpoints for TLC: keys are interchangeable.                   *)
EXTENDS VBucketCheckpoints, TLC

KeySymmetry == Permutations(Keys)

=============================================================================
