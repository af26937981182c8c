---------------------------- MODULE BPlusTreePage ----------------------------
(***************************************************************************)
(* What every page of the B+ tree carries, and the memory the pages live   *)
(* in.  A page is a record                                                 *)
(*                                                                         *)
(*   [page_type, parent_page_id, array, next_page_id]                      *)
(*                                                                         *)
(* whose `array` holds the live slots, so GetSize is its length: slots     *)
(* past the size are never read by the tree.  A leaf's slot is a key (the  *)
(* record id stored with it travels with the key and is left out), an      *)
(* internal page's slot is a pair [first |-> key, second |-> child].       *)
(* The page's id is its index in the store of pages.                       *)
(*                                                                         *)
(* The operations of the tree are written over a store                     *)
(*                                                                         *)
(*   [pages, root_page_id, pin_count, page_set, aborted]                   *)
(*                                                                         *)
(* with the pin counts of the buffer pool and the page set of the calling  *)
(* transaction, where `aborted` says that an assert has failed or a null pointer has    *)
(* been followed: the process is gone, and nothing after it is computed.   *)
(***************************************************************************)
EXTENDS Integers, Sequences, FiniteSets

CONSTANTS
    Keys,             \* the keys callers use; integers above zero
    PageIds,          \* bound: the page ids the buffer pool can have in use at once
    LeafMaxSize,      \* max_size of a leaf page
    InternalMaxSize   \* max_size of an internal page

ASSUME
    /\ Keys \subseteq Nat \ {0}
    /\ PageIds \subseteq Nat \ {0}
    /\ LeafMaxSize \in Nat \ {0}
    /\ InternalMaxSize \in Nat \ {0, 1}

INVALID_PAGE_ID == -1

NoKey == 0              \* the key field of a slot that was never written

LEAF_PAGE     == "LEAF_PAGE"
INTERNAL_PAGE == "INTERNAL_PAGE"

IsLeafPage(page) == page.page_type = LEAF_PAGE

IsRootPage(page) == page.parent_page_id = INVALID_PAGE_ID

GetSize(page) == Len(page.array)

GetMaxSize(page) == IF IsLeafPage(page) THEN LeafMaxSize ELSE InternalMaxSize

(* Half of max_size, rounded up; the root may go down to a single pair in  *)
(* a leaf and to two children in an internal page.                         *)
GetMinSize(page) ==
    IF IsRootPage(page)
    THEN IF IsLeafPage(page) THEN 1 ELSE 2
    ELSE (GetMaxSize(page) + 1) \div 2

(* Can the operation go through this page without a split or a merge      *)
(* reaching its parent?                                                    *)
isSafe(page, op) ==
    CASE op = "INSERT" -> GetSize(page) < GetMaxSize(page)
      [] op = "DELETE" -> GetSize(page) > GetMinSize(page)
      [] op = "READ"   -> TRUE

-----------------------------------------------------------------------------
(* The store *)

Abort(s) == [s EXCEPT !.aborted = TRUE]

(* BufferPoolManager::NewPage: the id of a page not in use, or nothing     *)
(* when every frame is taken.                                              *)
NewPageId(s) ==
    LET free == PageIds \ DOMAIN s.pages
    IN  IF free = {} THEN INVALID_PAGE_ID ELSE CHOOSE id \in free : \A other \in free : id <= other

(* Write `page` as page `id` of the store, new or not. *)
Put(ps, id, page) == [x \in DOMAIN ps \cup {id} |-> IF x = id THEN page ELSE ps[x]]

(* BufferPoolManager::FetchPage and UnpinPage, as far as the pin count of  *)
(* the page goes.                                                          *)
FetchPage(s, id) == [s EXCEPT !.pin_count[id] = @ + 1]

UnpinPage(s, id) == [s EXCEPT !.pin_count[id] = @ - 1]

(* BufferPoolManager::NewPage, with what the caller writes to the page: it *)
(* comes pinned once.                                                      *)
NewPage(s, page) ==
    [s EXCEPT !.pages = Put(@, NewPageId(s), page), !.pin_count[NewPageId(s)] = 1]

(* child->SetParentPageId(parent), for each of the children, through the   *)
(* buffer pool.                                                            *)
SetParentPageId(ps, children, parent) ==
    [x \in DOMAIN ps |-> IF x \in children THEN [ps[x] EXCEPT !.parent_page_id = parent] ELSE ps[x]]

=============================================================================
