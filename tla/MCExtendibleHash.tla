--------------------------- MODULE MCExtendibleHash ---------------------------
(***************************************************************************)
(* ExtendibleHash for TLC.  The table is the instance the buffer pool and  *)
(* the tests use, keyed by integers: std::hash<int> of libstdc++ returns   *)
(* the integer itself, so distinct keys have distinct hashes.  Four keys   *)
(* of two bits and buckets of one pair make every insertion into an        *)
(* occupied bucket split it, take the directory to depth 2, and leave      *)
(* buckets shallower than the directory beside buckets as deep as it.      *)
(***************************************************************************)
EXTENDS ExtendibleHash

MCKeys == 0 .. 3

MCHash == [k \in MCKeys |-> k]

=============================================================================
