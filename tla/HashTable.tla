------------------------------ MODULE HashTable ------------------------------
(***************************************************************************)
(* What a hash table promises its callers: a dictionary whose three        *)
(* operations take effect one at a time.  This is the contract a page      *)
(* table is used under ("find(k) returns the most recent value inserted    *)
(* for k and not removed since"), with no directory, bucket or latch in    *)
(* sight.  ExtendibleHash is checked to implement it.                      *)
(***************************************************************************)
EXTENDS Functions

CONSTANTS
    Keys,       \* the keys callers use
    Values,     \* the values they store
    Threads,    \* the calling threads
    NotFound    \* what Find reports for a key that is absent

VARIABLES
    table,      \* the dictionary: a function from the keys present to values
    call,       \* call[t]: the operation thread t has called and not finished
    ret         \* ret[t]: the result of thread t's last Find or Remove

vars == <<table, call, ret>>

NoCall == [type |-> "None"]

Calls ==
    [type : {"Find", "Remove"}, key : Keys]
        \cup [type : {"Insert"}, key : Keys, value : Values]

Results == Values \cup {NotFound} \cup BOOLEAN

TypeOK ==
    /\ \E present \in SUBSET Keys : table \in [present -> Values]
    /\ call \in [Threads -> Calls \cup {NoCall}]
    /\ ret \in [Threads -> Results]

Init ==
    /\ table = <<>>
    /\ call = [t \in Threads |-> NoCall]
    /\ ret = [t \in Threads |-> NotFound]

(* A thread with no operation under way calls one. *)
Invoke(t, c) ==
    /\ call[t] = NoCall
    /\ call' = [call EXCEPT ![t] = c]
    /\ UNCHANGED <<table, ret>>

(* Insert is an upsert: a key that is present gets the new value. *)
Insert(t, k, v) ==
    /\ table' = [x \in DOMAIN table \cup {k} |-> IF x = k THEN v ELSE table[x]]
    /\ UNCHANGED ret

Find(t, k) ==
    /\ ret' = [ret EXCEPT ![t] = IF k \in DOMAIN table THEN table[k] ELSE NotFound]
    /\ UNCHANGED table

(* Remove reports whether the key was there. *)
Remove(t, k) ==
    /\ table' = Restrict(table, DOMAIN table \ {k})
    /\ ret' = [ret EXCEPT ![t] = k \in DOMAIN table]

(* The operation a thread has called takes effect, all at once and on the  *)
(* key it was called with, and returns.                                    *)
Complete(t) ==
    /\ call[t] # NoCall
    /\ \/ call[t].type = "Insert" /\ Insert(t, call[t].key, call[t].value)
       \/ call[t].type = "Find" /\ Find(t, call[t].key)
       \/ call[t].type = "Remove" /\ Remove(t, call[t].key)
    /\ call' = [call EXCEPT ![t] = NoCall]

Next ==
    \E t \in Threads :
        \/ \E c \in Calls : Invoke(t, c)
        \/ Complete(t)

Spec == Init /\ [][Next]_vars

=============================================================================
