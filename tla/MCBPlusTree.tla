----------------------------- MODULE MCBPlusTree -----------------------------
(***************************************************************************)
(* BPlusTree for model checking: the indexes a run starts from.  The       *)
(* constructor takes the root page id of an index whose pages are in the   *)
(* page file already; the runs start from the empty index and from small   *)
(* trees in the shape the specification asks of a stored index.            *)
(***************************************************************************)
EXTENDS BPlusTree

LeafOf(parent, keys, next) ==
    [page_type |-> LEAF_PAGE, parent_page_id |-> parent, array |-> keys, next_page_id |-> next]

InternalOf(parent, slots) ==
    [page_type |-> INTERNAL_PAGE, parent_page_id |-> parent, array |-> slots,
     next_page_id |-> INVALID_PAGE_ID]

Slot(key, child) == [first |-> key, second |-> child]

EmptyIndex == [root_page_id |-> INVALID_PAGE_ID, pages |-> <<>>]

(* A root over two leaves, for leaves of at most three keys.               *)
(*              1:[ . | 4 ]                                                *)
(*        2:[1 2]   ->   3:[4 5 6]                                         *)
TwoLevels ==
    [root_page_id |-> 1,
     pages |-> <<InternalOf(INVALID_PAGE_ID, <<Slot(NoKey, 2), Slot(4, 3)>>),
                 LeafOf(1, <<1, 2>>, 3),
                 LeafOf(1, <<4, 5, 6>>, INVALID_PAGE_ID)>>]

(* A root over two internal pages, for leaves of a single key.  Slot 0 of  *)
(* page 3 holds the key that went up when the page was split off, as       *)
(* MoveHalfTo leaves it.                                                   *)
(*                     1:[ . | 3 ]                                         *)
(*          2:[ . | 2 ]           3:[ 3 | 4 ]                              *)
(*       4:[1] -> 5:[2]   ->   6:[3] -> 7:[4]                              *)
ThreeLevels ==
    [root_page_id |-> 1,
     pages |-> <<InternalOf(INVALID_PAGE_ID, <<Slot(NoKey, 2), Slot(3, 3)>>),
                 InternalOf(1, <<Slot(NoKey, 4), Slot(2, 5)>>),
                 InternalOf(1, <<Slot(3, 6), Slot(4, 7)>>),
                 LeafOf(2, <<1>>, 5),
                 LeafOf(2, <<2>>, 6),
                 LeafOf(3, <<3>>, 7),
                 LeafOf(3, <<4>>, INVALID_PAGE_ID)>>]

(* The same with four leaves on the left.                                  *)
(*                          1:[ . | 5 ]                                    *)
(*          2:[ . | 2 | 3 | 4 ]              3:[ 5 | 6 ]                   *)
(*   4:[1] -> 5:[2] -> 6:[3] -> 7:[4]   ->   8:[5] -> 9:[6]                *)
ThreeLevelsLeft ==
    [root_page_id |-> 1,
     pages |-> <<InternalOf(INVALID_PAGE_ID, <<Slot(NoKey, 2), Slot(5, 3)>>),
                 InternalOf(1, <<Slot(NoKey, 4), Slot(2, 5), Slot(3, 6), Slot(4, 7)>>),
                 InternalOf(1, <<Slot(5, 8), Slot(6, 9)>>),
                 LeafOf(2, <<1>>, 5),
                 LeafOf(2, <<2>>, 6),
                 LeafOf(2, <<3>>, 7),
                 LeafOf(2, <<4>>, 8),
                 LeafOf(3, <<5>>, 9),
                 LeafOf(3, <<6>>, INVALID_PAGE_ID)>>]

(* A root over two leaves of two keys each: scenario S1 of the             *)
(* specification.                                                          *)
(*              1:[ . | 3 ]                                                *)
(*        2:[1 2]   ->   3:[3 4]                                           *)
TwoLeaves ==
    [root_page_id |-> 1,
     pages |-> <<InternalOf(INVALID_PAGE_ID, <<Slot(NoKey, 2), Slot(3, 3)>>),
                 LeafOf(1, <<1, 2>>, 3),
                 LeafOf(1, <<3, 4>>, INVALID_PAGE_ID)>>]

FromLeaves == {EmptyIndex, TwoLevels}

FromTwoLeaves == {EmptyIndex, TwoLeaves}

FromThreeLevels == {ThreeLevels, ThreeLevelsLeft}

FromEmpty == {EmptyIndex}

-----------------------------------------------------------------------------
(***************************************************************************)
(* A page id is a name: nothing the tree does depends on which id a page   *)
(* has.  Canonical renames the pages by their place in the tree, the root  *)
(* first and every page before its children, so that two states which      *)
(* differ in the names alone are explored once.  Pages that hang under no  *)
(* root follow in the order of their ids; an id that names no page is kept *)
(* apart from all of these.                                                *)
(***************************************************************************)
RECURSIVE Preorder(_, _)
Preorder(ps, id) ==
    CASE id \notin DOMAIN ps -> <<>>
      [] IsLeafPage(ps[id]) -> <<id>>
      [] OTHER -> <<id>> \o Seqs!FlattenSeq([i \in DOMAIN ps[id].array |->
                                                Preorder(ps, ps[id].array[i].second)])

Order ==
    LET reached == Preorder(pages, root_page_id)
    IN  reached \o Seqs!SetToSortSeq(DOMAIN pages \ Seqs!ToSet(reached), <)

Rank(order, id) ==
    IF id \in Seqs!ToSet(order)
    THEN Seqs!SelectInSeq(order, LAMBDA x : x = id)
    ELSE IF id = INVALID_PAGE_ID THEN id ELSE -(id + 1)

Renamed(order, page) ==
    [page_type      |-> page.page_type,
     parent_page_id |-> Rank(order, page.parent_page_id),
     next_page_id   |-> Rank(order, page.next_page_id),
     array          |-> IF IsLeafPage(page)
                        THEN page.array
                        ELSE [i \in DOMAIN page.array |->
                                 Slot(page.array[i].first, Rank(order, page.array[i].second))]]

Canonical ==
    LET order == Order
    IN  <<Rank(order, root_page_id),
          [i \in DOMAIN order |-> Renamed(order, pages[order[i]])],
          [t \in Threads |-> [i \in DOMAIN page_set[t] |-> Rank(order, page_set[t][i])]],
          [t \in Threads |-> {Rank(order, id) : id \in deleted_set[t]}],
          [t \in Threads |-> Rank(order, node[t])],
          [t \in Threads |-> [nearNode[t] EXCEPT !.page_id = Rank(order, @)]],
          [t \in Threads |-> [i \in DOMAIN parent_page[t] |-> Rank(order, parent_page[t][i])]],
          [i \in DOMAIN order |-> pin_count[order[i]]],
          {pin_count[id] : id \in PageIds \ DOMAIN pages},
          pc, op, mRootLockedCnt, iterator, ret, alive>>

=============================================================================
