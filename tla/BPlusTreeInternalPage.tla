------------------------ MODULE BPlusTreeInternalPage ------------------------
(***************************************************************************)
(* The internal page of page/b_plus_tree_internal_page.cpp: an array of    *)
(* (key, child page id) pairs of which the first key is not a separator.   *)
(* The code counts slots from 0 and a sequence counts from 1: slot `index` *)
(* of the code is array[index + 1] here.                                   *)
(*                                                                         *)
(* An operation that moves pairs between pages, or tells children and      *)
(* parent about it through the buffer pool, is an operator from store to   *)
(* store; its asserts end the process (Abort), and so does a pointer or    *)
(* an index that leads nowhere.                                            *)
(***************************************************************************)
EXTENDS BPlusTreePage

Seqs == INSTANCE SequencesExt

(* A page as Init leaves it.  The buffer pool hands out zeroed memory. *)
Init(parent_id) ==
    [page_type |-> INTERNAL_PAGE, parent_page_id |-> parent_id,
     array |-> <<>>, next_page_id |-> INVALID_PAGE_ID]

KeyAt(page, index) == page.array[index + 1].first

SetKeyAt(page, index, key) == [page EXCEPT !.array[index + 1].first = key]

ValueAt(page, index) == page.array[index + 1].second

Children(page) == {page.array[i].second : i \in DOMAIN page.array}

(* The first slot that holds `value`, or -1. *)
ValueIndex(page, value) ==
    LET found == {i \in 0 .. GetSize(page) - 1 : ValueAt(page, i) = value}
    IN  IF found = {} THEN -1 ELSE CHOOSE i \in found : \A j \in found : i <= j

InRange(page, index) == index \in 0 .. GetSize(page) - 1

(* The loop of Lookup: where `begin` stands when it has passed `end`. *)
RECURSIVE BinarySearch(_, _, _, _)
BinarySearch(page, begin, end, key) ==
    IF begin > end
    THEN begin
    ELSE LET mid == (end - begin) \div 2 + begin
         IN  IF KeyAt(page, mid) <= key
             THEN BinarySearch(page, mid + 1, end, key)
             ELSE BinarySearch(page, begin, mid - 1, key)

(* The child to go down to for `key`; the caller has seen to size > 1. *)
Lookup(page, key) == ValueAt(page, BinarySearch(page, 1, GetSize(page) - 1, key) - 1)

(* Slot 0 gets the old child, slot 1 the key and the new child, and the    *)
(* size goes up by one.                                                    *)
PopulateNewRoot(page, old_value, new_key, new_value) ==
    LET written == <<[first |-> NoKey, second |-> old_value],
                     [first |-> new_key, second |-> new_value]>>
    IN  [page EXCEPT !.array = SubSeq(written, 1, GetSize(page) + 1)]

(* Faulty variant: the new pair goes in front of the old child's slot. *)
InsertNodeBefore(s, id, old_value, new_key, new_value) ==
    LET index == ValueIndex(s.pages[id], old_value)
    IN  [s EXCEPT !.pages[id].array =
                      Seqs!InsertAt(@, index + 1, [first |-> new_key, second |-> new_value])]

InsertNodeAfter(s, id, old_value, new_key, new_value) ==
    LET index == ValueIndex(s.pages[id], old_value) + 1
    IN  IF s.aborted \/ ~(index > 0)
        THEN Abort(s)
        ELSE [s EXCEPT !.pages[id].array =
                          Seqs!InsertAt(@, index + 1, [first |-> new_key, second |-> new_value])]

(* Faulty variant: the moved children are not told their new parent. *)
MoveHalfToSilently(s, this, recipient) ==
    LET page  == s.pages[this]
        total == GetMaxSize(page) + 1
        mid_index == total \div 2
    IN  [s EXCEPT !.pages[this].array = SubSeq(page.array, 1, mid_index),
                  !.pages[recipient].array = SubSeq(page.array, mid_index + 1, total)]

(* The upper half of an overfull page goes to the empty recipient, and     *)
(* the children that went are told their new parent.                       *)
MoveHalfTo(s, this, recipient) ==
    LET page  == s.pages[this]
        total == GetMaxSize(page) + 1
        mid_index == total \div 2
        moved == SubSeq(page.array, mid_index + 1, total)
        gone  == {moved[i].second : i \in DOMAIN moved}
    IN  IF s.aborted \/ ~(GetSize(page) = total /\ gone \subseteq DOMAIN s.pages)
        THEN Abort(s)
        ELSE [s EXCEPT !.pages =
                  SetParentPageId([@ EXCEPT ![this].array = SubSeq(page.array, 1, mid_index),
                                            ![recipient].array = moved],
                                  gone, recipient)]

Remove(s, id, index) ==
    IF s.aborted \/ ~InRange(s.pages[id], index)
    THEN Abort(s)
    ELSE [s EXCEPT !.pages[id].array = Seqs!RemoveAt(@, index + 1)]

(* The root gives up its last slot; the caller has read ValueAt(0). *)
RemoveAndReturnOnlyChild(s, id) ==
    IF s.aborted \/ ~(GetSize(s.pages[id]) = 1)
    THEN Abort(s)
    ELSE [s EXCEPT !.pages[id].array = <<>>]

(* Every pair of this page goes to the end of the recipient, its left      *)
(* sibling; the first of them takes the parent's separator as its key.     *)
MoveAllTo(s, this, recipient, index_in_parent) ==
    LET page   == s.pages[this]
        parent == s.pages[page.parent_page_id]
        joined == s.pages[recipient].array \o SetKeyAt(page, 0, KeyAt(parent, index_in_parent)).array
    IN  IF \/ s.aborted
           \/ ~(page.parent_page_id \in DOMAIN s.pages /\ InRange(parent, index_in_parent))
           \/ ~(Len(joined) <= GetMaxSize(page) /\ Children(page) \subseteq DOMAIN s.pages)
        THEN Abort(s)
        ELSE [s EXCEPT !.pages =
                  SetParentPageId([@ EXCEPT ![recipient].array = joined, ![this].array = <<>>],
                                  Children(page), recipient)]

(* The first pair of this page goes to the end of the recipient, its left  *)
(* sibling, under the key this page has in slot 0; the parent's separator  *)
(* for this page becomes the key now in slot 0 (MoveFirstToEndOf and       *)
(* CopyLastFrom).                                                          *)
MoveFirstToEndOf(s, this, recipient) ==
    LET page   == s.pages[this]
        pair   == Head(page.array)
        rest   == Tail(page.array)
        parent == s.pages[page.parent_page_id]
        index  == ValueIndex(parent, this)
        first  == IF rest = <<>> THEN pair.first ELSE Head(rest).first
    IN  IF \/ s.aborted
           \/ ~(GetSize(s.pages[recipient]) + 1 <= GetMaxSize(page))
           \/ ~(pair.second \in DOMAIN s.pages /\ page.parent_page_id \in DOMAIN s.pages)
           \/ ~InRange(parent, index)
        THEN Abort(s)
        ELSE [s EXCEPT !.pages =
                  [SetParentPageId(@, {pair.second}, recipient)
                      EXCEPT ![this].array = rest,
                             ![recipient].array = Append(@, pair),
                             ![page.parent_page_id] = SetKeyAt(@, index, first)]]

(* The last pair of this page goes to the front of the recipient, its      *)
(* right sibling, and its key becomes the parent's separator for the       *)
(* recipient (MoveLastToFrontOf and CopyFirstFrom).                        *)
MoveLastToFrontOf(s, this, recipient, parent_index) ==
    LET page   == s.pages[this]
        pair   == Seqs!Last(page.array)
        taker  == s.pages[recipient]
        parent == s.pages[taker.parent_page_id]
    IN  IF \/ s.aborted
           \/ ~(GetSize(taker) + 1 < GetMaxSize(taker))
           \/ ~(pair.second \in DOMAIN s.pages /\ taker.parent_page_id \in DOMAIN s.pages)
           \/ ~InRange(parent, parent_index)
        THEN Abort(s)
        ELSE [s EXCEPT !.pages =
                  [SetParentPageId(@, {pair.second}, recipient)
                      EXCEPT ![this].array = Seqs!Front(@),
                             ![recipient].array = <<pair>> \o @,
                             ![taker.parent_page_id] = SetKeyAt(@, parent_index, pair.first)]]

=============================================================================
