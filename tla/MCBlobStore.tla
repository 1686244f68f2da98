---------------------------- MODULE MCBlobStore ----------------------------
(* Small instances of BlobStore for TLC: requests and ciphertexts are          *)
(* interchangeable.                                                            *)
EXTENDS BlobStore, TLC

CONSTANTS q1, q2, q3, b1, b2

Symmetry == Permutations(Requests) \cup Permutations(Bodies)
=============================================================================
