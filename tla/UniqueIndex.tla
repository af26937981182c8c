----------------------------- MODULE UniqueIndex -----------------------------
(***************************************************************************)
(* What a unique index promises its callers: a set of keys whose           *)
(* operations take effect one at a time, each at some moment between its   *)
(* call and its return.  Insert adds its key and says whether it was new,  *)
(* Remove takes its key away, GetValue says whether its key is there.      *)
(* BPlusTree is checked to implement it.                                   *)
(***************************************************************************)
CONSTANTS
    Keys,       \* the keys callers use
    Threads     \* the calling threads

VARIABLES
    keys,       \* the keys in the index
    call,       \* call[t]: the operation thread t is in, and whether it has taken effect
    ret         \* ret[t]: what thread t's last Insert or GetValue returned

vars == <<keys, call, ret>>

NoCall == [type |-> "NONE"]

Calls == [type : {"INSERT", "DELETE", "READ"}, key : Keys]

Pending(c) == [type |-> c.type, key |-> c.key, done |-> FALSE]

Done(c) == [type |-> c.type, key |-> c.key, done |-> TRUE]

TypeOK ==
    /\ keys \subseteq Keys
    /\ call \in [Threads -> {NoCall} \cup {Pending(c) : c \in Calls} \cup {Done(c) : c \in Calls}]
    /\ ret \in [Threads -> BOOLEAN]

(* An index is opened empty or over what an earlier run has stored. *)
Init ==
    /\ keys \subseteq Keys
    /\ call = [t \in Threads |-> NoCall]
    /\ ret = [t \in Threads |-> FALSE]

(* What operation c of thread t does when it takes effect. *)
Effect(t, c) ==
    \/ /\ c.type = "INSERT"
       /\ keys' = keys \cup {c.key}
       /\ ret' = [ret EXCEPT ![t] = c.key \notin keys]
    \/ /\ c.type = "DELETE"
       /\ keys' = keys \ {c.key}
       /\ UNCHANGED ret
    \/ /\ c.type = "READ"
       /\ ret' = [ret EXCEPT ![t] = c.key \in keys]
       /\ UNCHANGED keys

Invoke(t, c) ==
    /\ call[t] = NoCall
    /\ call' = [call EXCEPT ![t] = Pending(c)]
    /\ UNCHANGED <<keys, ret>>

(* The operation takes effect; it may return in the same step. *)
TakeEffect(t) ==
    /\ call[t] # NoCall
    /\ ~call[t].done
    /\ Effect(t, call[t])
    /\ \/ call' = [call EXCEPT ![t] = Done(call[t])]
       \/ call' = [call EXCEPT ![t] = NoCall]

Return(t) ==
    /\ call[t] # NoCall
    /\ call[t].done
    /\ call' = [call EXCEPT ![t] = NoCall]
    /\ UNCHANGED <<keys, ret>>

(* An operation that is called, takes effect and returns in one step. *)
Immediate(t, c) ==
    /\ call[t] = NoCall
    /\ Effect(t, c)
    /\ UNCHANGED call

Next ==
    \E t \in Threads :
        \/ \E c \in Calls : Invoke(t, c) \/ Immediate(t, c)
        \/ TakeEffect(t)
        \/ Return(t)

Spec == Init /\ [][Next]_vars

=============================================================================
