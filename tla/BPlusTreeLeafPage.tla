-------------------------- MODULE BPlusTreeLeafPage --------------------------
(***************************************************************************)
(* The leaf page: keys in increasing order, each with its record id, and   *)
(* the id of the next leaf.  The tree calls the leaf through the same      *)
(* names as the internal page (it is one template over both), and the      *)
(* operations are written the same way, from store to store.               *)
(***************************************************************************)
EXTENDS BPlusTreePage

Seqs == INSTANCE SequencesExt

Init(parent_id) ==
    [page_type |-> LEAF_PAGE, parent_page_id |-> parent_id,
     array |-> <<>>, next_page_id |-> INVALID_PAGE_ID]

KeyAt(page, index) == page.array[index + 1]

Lookup(page, key) == key \in Seqs!ToSet(page.array)

(* The first slot whose key is not below `key`: the size when there is     *)
(* none.                                                                   *)
KeyIndex(page, key) == Cardinality({i \in DOMAIN page.array : page.array[i] < key})

(* The key goes in where the order puts it. *)
Insert(s, id, key) ==
    LET below == SelectSeq(s.pages[id].array, LAMBDA k : k < key)
        above == SelectSeq(s.pages[id].array, LAMBDA k : k > key)
    IN  [s EXCEPT !.pages[id].array = below \o <<key>> \o above]

(* The key goes if it is there; the caller reads the size that is left. *)
RemoveAndDeleteRecord(s, id, key) ==
    [s EXCEPT !.pages[id].array = SelectSeq(@, LAMBDA k : k # key)]

(* Faulty variant: the new leaf is not told which leaf comes after it. *)
MoveHalfToEndOfChain(s, this, recipient) ==
    LET page == s.pages[this]
        keep == GetSize(page) \div 2
    IN  [s EXCEPT !.pages[this].array = SubSeq(page.array, 1, keep),
                  !.pages[this].next_page_id = recipient,
                  !.pages[recipient].array = SubSeq(page.array, keep + 1, GetSize(page))]

(* The upper half, rounded up, goes to the new leaf, which takes this      *)
(* leaf's place in front of the old next leaf.                             *)
MoveHalfTo(s, this, recipient) ==
    LET page == s.pages[this]
        keep == GetSize(page) \div 2
    IN  [s EXCEPT !.pages[this].array = SubSeq(page.array, 1, keep),
                  !.pages[this].next_page_id = recipient,
                  !.pages[recipient].array = SubSeq(page.array, keep + 1, GetSize(page)),
                  !.pages[recipient].next_page_id = page.next_page_id]

(* Everything goes to the left sibling, which inherits the next leaf. *)
MoveAllTo(s, this, recipient, index_in_parent) ==
    [s EXCEPT !.pages[recipient].array = @ \o s.pages[this].array,
              !.pages[recipient].next_page_id = s.pages[this].next_page_id,
              !.pages[this].array = <<>>]

(* The parent's separator for page `id` becomes `key`. *)
SetSeparator(s, id, key) ==
    LET parent_id == s.pages[id].parent_page_id
        slots     == {i \in DOMAIN s.pages[parent_id].array : s.pages[parent_id].array[i].second = id}
    IN  [s EXCEPT !.pages[parent_id].array =
                      [i \in DOMAIN @ |-> IF i \in slots THEN [@[i] EXCEPT !.first = key] ELSE @[i]]]

(* The first key goes to the end of the left sibling; this leaf's          *)
(* separator becomes the key that is first now.                            *)
MoveFirstToEndOf(s, this, recipient) ==
    LET page  == s.pages[this]
        moved == [s EXCEPT !.pages[this].array = Tail(page.array),
                           !.pages[recipient].array = Append(@, Head(page.array))]
    IN  SetSeparator(moved, this, Head(Tail(page.array)))

(* The last key goes to the front of the right sibling and becomes its     *)
(* separator.                                                              *)
MoveLastToFrontOf(s, this, recipient, parent_index) ==
    LET page  == s.pages[this]
        moved == [s EXCEPT !.pages[this].array = Seqs!Front(page.array),
                           !.pages[recipient].array = <<Seqs!Last(page.array)>> \o @]
    IN  SetSeparator(moved, recipient, Seqs!Last(page.array))

=============================================================================
