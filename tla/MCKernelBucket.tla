---------------------------- MODULE MCKernelBucket ----------------------------
(* Two callbacks and one packet in a bucket of up to three entries.        *)
EXTENDS KernelBucket, TLC

CONSTANTS n1, n2, n3, w1, w2, h1

MCNode == {n1, n2, n3}
MCWriter == {w1, w2}
MCHook == {h1}

(* The properties treat all blocks, and all callbacks, alike.              *)
MCSymmetry == Permutations(MCNode) \union Permutations(MCWriter)
=============================================================================
