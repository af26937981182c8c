------------------------------ MODULE LRUQueue -------------------------------
(***************************************************************************)
(* What a replacer promises the buffer pool: the values that may be        *)
(* evicted, kept in the order of their last Insert.  Victim gives up the   *)
(* value inserted longest ago; Insert of a value that is already there     *)
(* makes it the most recent one again.  LRUReplacer is checked to          *)
(* implement this with its linked list and its map.                        *)
(***************************************************************************)
EXTENDS Naturals, Sequences, SequencesExt

CONSTANTS
    Values,     \* what the replacer tracks (frames, pages)
    None        \* Victim's answer when there is nothing to evict

VARIABLES
    order,      \* the tracked values, the most recently inserted first
    ret         \* what the last Victim, Erase and Size returned

vars == <<order, ret>>

TypeOK ==
    /\ order \in Seq(Values)
    /\ IsInjective(order)
    /\ ret \in [victim : Values \cup {None}, erased : BOOLEAN, size : Nat]

Init ==
    /\ order = <<>>
    /\ ret = [victim |-> None, erased |-> FALSE, size |-> 0]

Without(v) == SelectSeq(order, LAMBDA x : x # v)

Insert(v) ==
    /\ order' = <<v>> \o Without(v)
    /\ UNCHANGED ret

Victim ==
    \/ /\ order = <<>>
       /\ ret' = [ret EXCEPT !.victim = None]
       /\ UNCHANGED order
    \/ /\ order # <<>>
       /\ ret' = [ret EXCEPT !.victim = Last(order)]
       /\ order' = Front(order)

Erase(v) ==
    /\ ret' = [ret EXCEPT !.erased = v \in ToSet(order)]
    /\ order' = Without(v)

Size ==
    /\ ret' = [ret EXCEPT !.size = Len(order)]
    /\ UNCHANGED order

Next ==
    \/ \E v \in Values : Insert(v) \/ Erase(v)
    \/ Victim
    \/ Size

Spec == Init /\ [][Next]_vars

=============================================================================
