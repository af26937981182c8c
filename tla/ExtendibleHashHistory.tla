------------------------ MODULE ExtendibleHashHistory ------------------------
(***************************************************************************)
(* ExtendibleHash with a history variable.  Find and Remove read the       *)
(* bucket of their key under the directory mutex, release it, and lock the *)
(* bucket afterwards (extendible_hash.cpp:72-76 and 89-93).  Whether an    *)
(* answer is wrong depends on what the table held during the whole call,   *)
(* which no single state shows: `stable` records it.  The variable is read *)
(* by the property only and constrains no step of the table.               *)
(***************************************************************************)
EXTENDS MCExtendibleHash

VARIABLE stable   \* stable[t]: the key of t's call has been in the table since the call

varsH == <<vars, stable>>

InitH == Init /\ stable = [t \in Threads |-> FALSE]

NextH ==
    /\ Next
    /\ stable' = [t \in Threads |->
                    /\ op'[t] # NoCall
                    /\ op[t] # NoCall => stable[t]
                    /\ op'[t].key \in DOMAIN Contents']

SpecH == InitH /\ [][NextH]_varsH

(* The step in which Find or Remove looks into the bucket it locked. *)
Probes(t) == Find(t) \/ Remove(t)

(* A pair that is in the table from the call to the answer is seen: Find   *)
(* returns its value and Remove erases it, whatever other threads insert   *)
(* meanwhile.  Find and Remove use the bucket pointer they read before     *)
(* another thread's Insert split that bucket and moved the pair away.      *)
StablePairIsSeen ==
    [][\A t \in Threads : Probes(t) /\ stable[t] => ret'[t] \notin {NotFound, FALSE}]_varsH

=============================================================================
