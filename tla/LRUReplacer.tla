----------------------------- MODULE LRUReplacer -----------------------------
(***************************************************************************)
(* The replacer of buffer/lru_replacer.cpp: a doubly linked list between   *)
(* two sentinels, the most recently inserted value next to `head`, and a   *)
(* map from each tracked value to its node.                                *)
(*                                                                         *)
(* Every public method holds the one mutex `latch` from its first          *)
(* statement to its return, so a method is one step here and the calls of  *)
(* several threads are the steps in some order.  A node holds one value    *)
(* and the map holds at most one node per value, so a node is named by its *)
(* value; a node that leaves the list is freed, and a value inserted again *)
(* gets a new node whose pointers are null.                                *)
(***************************************************************************)
EXTENDS Naturals, FiniteSets, Sequences, SequencesExt

CONSTANTS
    Values,     \* what the replacer tracks
    head,       \* the sentinel nodes made by the constructor
    tail,
    Null,       \* the null shared_ptr
    None        \* Victim returned false

VARIABLES
    next,       \* next[n], prev[n]: the pointers of node n
    prev,
    map,        \* the keys of the unordered_map; map[v] is the node of v
    ret         \* what the last Victim, Erase and Size returned

vars == <<next, prev, map, ret>>

Nodes == Values \cup {head, tail}

(* LRUReplacer(): the two sentinels, linked to each other. *)
Init ==
    /\ next = [n \in Nodes |-> IF n = head THEN tail ELSE Null]
    /\ prev = [n \in Nodes |-> IF n = tail THEN head ELSE Null]
    /\ map = {}
    /\ ret = [victim |-> None, erased |-> FALSE, size |-> 0]

(* Faulty variant: the successor's back pointer is left as it was. *)
UnlinkedForwardOnly(ptrs, cur) ==
    [next |-> [ptrs.next EXCEPT ![ptrs.prev[cur]] = ptrs.next[cur], ![cur] = Null],
     prev |-> [ptrs.prev EXCEPT ![cur] = Null]]

(* pre->next = nxt; nxt->prev = pre, for the node cur that goes away. *)
Unlinked(ptrs, cur) ==
    LET joined == [ptrs.next EXCEPT ![ptrs.prev[cur]] = ptrs.next[cur]]
        back   == [ptrs.prev EXCEPT ![ptrs.next[cur]] = ptrs.prev[cur]]
    IN  [next |-> [joined EXCEPT ![cur] = Null], prev |-> [back EXCEPT ![cur] = Null]]

(* Faulty variant: a value that is already tracked is pushed again without *)
(* being taken out of its place.                                           *)
InsertWithoutUnlink(value) ==
    LET first == next[head]
    IN  /\ next' = [next EXCEPT ![value] = first, ![head] = value]
        /\ prev' = [prev EXCEPT ![first] = value, ![value] = head]
        /\ map' = map \cup {value}
        /\ UNCHANGED ret

(* Insert: a tracked value leaves its place, then the node goes in right   *)
(* behind head and the map names it.                                       *)
Insert(value) ==
    LET ptrs  == IF value \in map
                 THEN Unlinked([next |-> next, prev |-> prev], value)
                 ELSE [next |-> next, prev |-> prev]
        first == ptrs.next[head]
    IN  /\ next' = [ptrs.next EXCEPT ![value] = first, ![head] = value]
        /\ prev' = [ptrs.prev EXCEPT ![first] = value, ![value] = head]
        /\ map' = map \cup {value}
        /\ UNCHANGED ret

(* Faulty variant: no test for an empty replacer. *)
VictimUnguarded ==
    LET last  == prev[tail]
        ptrs  == Unlinked([next |-> next, prev |-> prev], last)
    IN  /\ next' = ptrs.next
        /\ prev' = ptrs.prev
        /\ ret' = [ret EXCEPT !.victim = last]
        /\ map' = map \ {last}

(* Victim: false when the map is empty; else the node before tail leaves   *)
(* the list, its value is handed out and erased from the map.              *)
Victim ==
    \/ /\ map = {}
       /\ ret' = [ret EXCEPT !.victim = None]
       /\ UNCHANGED <<next, prev, map>>
    \/ /\ map # {}
       /\ LET last == prev[tail]
              ptrs == Unlinked([next |-> next, prev |-> prev], last)
          IN  /\ next' = ptrs.next
              /\ prev' = ptrs.prev
              /\ ret' = [ret EXCEPT !.victim = last]
              /\ map' = map \ {last}

(* Erase: unlink the node if the map has one; map.erase says whether. *)
Erase(value) ==
    LET ptrs == IF value \in map
                THEN Unlinked([next |-> next, prev |-> prev], value)
                ELSE [next |-> next, prev |-> prev]
    IN  /\ next' = ptrs.next
        /\ prev' = ptrs.prev
        /\ ret' = [ret EXCEPT !.erased = value \in map]
        /\ map' = map \ {value}

Size ==
    /\ ret' = [ret EXCEPT !.size = Cardinality(map)]
    /\ UNCHANGED <<next, prev, map>>

Next ==
    \/ \E value \in Values : Insert(value) \/ Erase(value)
    \/ Victim
    \/ Size

Spec == Init /\ [][Next]_vars

-----------------------------------------------------------------------------
(* Properties *)

TypeOK ==
    /\ next \in [Nodes -> Nodes \cup {Null}]
    /\ prev \in [Nodes -> Nodes \cup {Null}]
    /\ map \subseteq Values
    /\ ret \in [victim : Values \cup {None}, erased : BOOLEAN, size : 0 .. Cardinality(Values)]

(* The nodes met from node n along the pointers p, up to the sentinel      *)
(* `end`; a walk that runs into null or goes round in a circle stops when  *)
(* its fuel is spent.                                                      *)
RECURSIVE Walk(_, _, _, _)
Walk(p, n, end, fuel) ==
    IF n \in {end, Null} \/ fuel = 0
    THEN <<>>
    ELSE <<n>> \o Walk(p, p[n], end, fuel - 1)

Forward  == Walk(next, next[head], tail, Cardinality(Nodes))
Backward == Walk(prev, prev[tail], head, Cardinality(Nodes))

(* The list and the map say the same thing: walking from head to tail      *)
(* meets each mapped value once and nothing else, and walking back from    *)
(* tail meets the same nodes in the opposite order.  Victim decides by the *)
(* map that there is a node to pop and then pops by the list; Erase and    *)
(* Insert unlink through pointers they take from the map.                  *)
ListMatchesMap ==
    /\ ToSet(Forward) = map
    /\ Len(Forward) = Cardinality(map)
    /\ Backward = Reverse(Forward)

Queue == INSTANCE LRUQueue WITH order <- Forward

(* Insert, Victim and Erase, done through the pointers, are the operations *)
(* of a queue ordered by last insertion: Victim hands out the value whose  *)
(* last Insert is the oldest, an Insert of a tracked value moves it to the *)
(* front and keeps it once, Erase takes out that value alone.              *)
LeastRecentlyUsed == Queue!Spec

=============================================================================
