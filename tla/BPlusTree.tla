------------------------------ MODULE BPlusTree ------------------------------
(***************************************************************************)
(* The B+ tree of index/b_plus_tree.cpp: Insert, Remove and GetValue over  *)
(* the pages of the buffer pool, with latch crabbing.                      *)
(*                                                                         *)
(* A thread's operation is cut where it can block, at the acquisition of   *)
(* the root latch or of a page latch; the code between two such points is  *)
(* one step:                                                               *)
(*                                                                         *)
(*   idle -Insert-> idle                        (the tree was empty)       *)
(*   idle -Insert/Remove/GetValue-> findLeaf -FindLeafPage-> crab          *)
(*        -CrabingProtocalFetchPage-> crab ... -> atLeaf                   *)
(*   atLeaf -GetValueAtLeaf/InsertAtLeaf-> idle                            *)
(*   atLeaf -RemoveAtLeaf-> idle, or underflow                             *)
(*        -UnderflowBelowRoot-> underflow ... -UnderflowAtRoot-> idle      *)
(*   idle -Begin/BeginFrom-> findLeaf ... -> atLeaf -Advance-> nextLeaf    *)
(*        -FetchNextLeaf-> atLeaf ... -Advance-> idle             (a scan) *)
(*                                                                         *)
(* A page is fetched, and pinned, before its latch is asked for: the step  *)
(* that latches a page chooses and fetches the next one (the child in      *)
(* FindLeafPage, the parent and the sibling in FindLeftSibling), and the   *)
(* thread then waits for that page's latch with the pin in its hand.       *)
(*                                                                         *)
(* The page latches a thread holds are the pages of its transaction's      *)
(* page set, write latches for Insert and Remove and read latches for      *)
(* GetValue: a page is latched and pushed, and unlatched when the set is   *)
(* drained, nowhere else.  Begin descends without a transaction and holds  *)
(* one page at a time; that page, and then the leaf of its iterator, is    *)
(* kept in the same variable.  The root latch is held by the threads whose *)
(* mRootLockedCnt is above zero.                                           *)
(*                                                                         *)
(* The iterator is not in the repository.  It is taken from section 4.2.6  *)
(* of the specification: it holds its leaf read-latched, and at the end of *)
(* the leaf it remembers next_page_id, gives the leaf back and then        *)
(* fetches and latches the next one.  A scan is Begin() or Begin(key)      *)
(* followed by the iterator run to its end; what it yields from a leaf it  *)
(* yields in the step that leaves the leaf.                                *)
(***************************************************************************)
EXTENDS BPlusTreePage

CONSTANTS
    Threads,        \* the calling threads
    Scanners,       \* those of them that open iterators
    ScanKeys,       \* the keys they open them at
    InitialIndex    \* the indexes the constructor may be given: [root_page_id, pages]

Internal == INSTANCE BPlusTreeInternalPage
Leaf     == INSTANCE BPlusTreeLeafPage
Seqs     == INSTANCE SequencesExt

VARIABLES
    root_page_id,
    pages,            \* the pages in use, by page id
    pin_count,        \* the buffer pool's pin count of every page
    pc,               \* where each thread is in its operation
    op,               \* its operation: [type, key]
    page_set,         \* transaction->GetPageSet(): the pages it has latched, in order
    deleted_set,      \* transaction->GetDeletedPageSet()
    mRootLockedCnt,   \* the thread_local count of root latches taken
    node,             \* the page its descent fetches next, or its way back up has reached
    nearNode,         \* the sibling FindLeftSibling has fetched for it, and on which side
    parent_page,      \* the parents its calls of CoalesceOrRedistribute hold, innermost last
    scanned,          \* the keys its iterator has yielded from the leaves it has left
    index_,           \* the slot at which its iterator has entered its leaf
    ret,              \* what its last Insert or GetValue returned
    alive             \* FALSE once an assert or a null pointer has ended the process

tree   == <<root_page_id, pages>>
wayUp  == <<deleted_set, nearNode, parent_page>>
iterator == <<scanned, index_>>
locals == <<pc, op, page_set, wayUp, mRootLockedCnt, node, iterator>>
vars   == <<tree, pin_count, locals, ret, alive>>

NoCall == [type |-> "NONE"]

Calls == [type : {"INSERT", "DELETE", "READ"}, key : Keys]

(* Begin() descends with the flag leftMost and a key nobody reads. *)
ScanCall == [type |-> "SCAN", key |-> NoKey]

(* Begin(key) descends to the leaf of its key. *)
Scans == [type : {"SCAN"}, key : Keys \cup {NoKey}]

IsScan(t) == op[t].type = "SCAN"

IsEmpty == root_page_id = INVALID_PAGE_ID

NoSibling == [page_id |-> INVALID_PAGE_ID, is_r_sibling |-> FALSE]

(* What thread t's operation works on. *)
Store(t) ==
    [pages |-> pages, root_page_id |-> root_page_id, pin_count |-> pin_count,
     page_set |-> page_set[t], aborted |-> FALSE]

Exclusive(t) == op[t].type \in {"INSERT", "DELETE"}

Latched(t) == Seqs!ToSet(page_set[t])

-----------------------------------------------------------------------------
(* Latches *)

(* Faulty variant: a read latch is given whoever holds the page. *)
CanLatchToRead(t, page_id, exclusive) ==
    exclusive => \A u \in Threads : page_id \notin Latched(u)

(* Page::WLatch and Page::RLatch return when no other holder is in the    *)
(* way; a thread that asks for a page it has write-latched waits for       *)
(* itself.                                                                 *)
CanLatch(t, page_id, exclusive) ==
    \A u \in Threads : page_id \in Latched(u) => ~exclusive /\ ~Exclusive(u)

(* Faulty variant: a writer waits for writers alone. *)
CanLockRootBesideReaders(exclusive, mode) ==
    \A u \in Threads : mRootLockedCnt[u] > 0 => mode[u] # "INSERT" /\ mode[u] # "DELETE"

(* mMutex_.WLock and mMutex_.RLock *)
CanLockRoot(exclusive, mode) ==
    \A u \in Threads : mRootLockedCnt[u] > 0 => ~exclusive /\ mode[u] # "INSERT" /\ mode[u] # "DELETE"

(* Faulty variant: the count of root latches never goes down. *)
TryUnlockedNever(count) == count

(* TryUnlockRootPageId *)
TryUnlocked(count) == IF count > 0 THEN count - 1 ELSE count

-----------------------------------------------------------------------------
(* One template over both kinds of page *)

InitPage(like, parent_id) ==
    IF IsLeafPage(like) THEN Leaf!Init(parent_id) ELSE Internal!Init(parent_id)

KeyAt(page, index) ==
    IF IsLeafPage(page) THEN Leaf!KeyAt(page, index) ELSE Internal!KeyAt(page, index)

MoveHalfTo(s, this, recipient) ==
    IF IsLeafPage(s.pages[this])
    THEN Leaf!MoveHalfTo(s, this, recipient)
    ELSE Internal!MoveHalfTo(s, this, recipient)

MoveAllTo(s, this, recipient, index) ==
    IF IsLeafPage(s.pages[this])
    THEN Leaf!MoveAllTo(s, this, recipient, index)
    ELSE Internal!MoveAllTo(s, this, recipient, index)

MoveFirstToEndOf(s, this, recipient) ==
    IF IsLeafPage(s.pages[this])
    THEN Leaf!MoveFirstToEndOf(s, this, recipient)
    ELSE Internal!MoveFirstToEndOf(s, this, recipient)

MoveLastToFrontOf(s, this, recipient, index) ==
    IF IsLeafPage(s.pages[this])
    THEN Leaf!MoveLastToFrontOf(s, this, recipient, index)
    ELSE Internal!MoveLastToFrontOf(s, this, recipient, index)

-----------------------------------------------------------------------------
(* Insertion, from store to store *)

(* A new page takes the upper half of `node_id`.  Its id is NewPageId(s);  *)
(* it is write-latched and pushed on the page set like the pages of the    *)
(* descent, and is unlatched and unpinned with them when the operation     *)
(* ends.                                                                   *)
Split(s, node_id) ==
    LET new_page_id == NewPageId(s)
        new_node    == InitPage(s.pages[node_id], s.pages[node_id].parent_page_id)
    IN  IF s.aborted \/ new_page_id = INVALID_PAGE_ID
        THEN Abort(s)
        ELSE MoveHalfTo([NewPage(s, new_node) EXCEPT !.page_set = Append(@, new_page_id)],
                        node_id, new_page_id)

(* The parent learns of the page split off `old_node`: a new root above a  *)
(* root that has split, else one more pair in the parent, which may split  *)
(* in its turn.                                                            *)
RECURSIVE InsertIntoParent(_, _, _, _)
InsertIntoParent(s, old_node, key, new_node) ==
    LET root_id  == NewPageId(s)
        new_root == Internal!PopulateNewRoot(Internal!Init(INVALID_PAGE_ID), old_node, key, new_node)
        par_id   == s.pages[old_node].parent_page_id
        fetched  == FetchPage([s EXCEPT !.pages[new_node].parent_page_id = par_id], par_id)
        linked   == Internal!InsertNodeAfter(fetched, par_id, old_node, key, new_node)
        new_page == NewPageId(linked)
        halved   == Split(linked, par_id)
    IN  CASE s.aborted -> s
          [] IsRootPage(s.pages[old_node]) ->
                IF root_id = INVALID_PAGE_ID
                THEN Abort(s)
                ELSE UnpinPage([NewPage(s, new_root) EXCEPT
                                   !.root_page_id = root_id,
                                   !.pages = SetParentPageId(@, {old_node, new_node}, root_id)],
                               root_id)
          [] par_id \notin DOMAIN s.pages -> Abort(s)
          [] linked.aborted -> linked
          [] GetSize(linked.pages[par_id]) <= GetMaxSize(linked.pages[par_id]) -> UnpinPage(linked, par_id)
          [] halved.aborted -> halved
          [] OTHER -> UnpinPage(InsertIntoParent(halved, par_id, KeyAt(halved.pages[new_page], 0), new_page),
                                par_id)

(* Faulty variant: a leaf that is over full is left as it is. *)
InsertIntoLeafUnsplit(s, leaf_page, key) == Leaf!Insert(s, leaf_page, key)

(* The part of InsertIntoLeaf that follows the duplicate test. *)
InsertIntoLeaf(s, leaf_page, key) ==
    LET stored   == Leaf!Insert(s, leaf_page, key)
        new_leaf == NewPageId(stored)
        halved   == Split(stored, leaf_page)
    IN  CASE GetSize(stored.pages[leaf_page]) <= GetMaxSize(stored.pages[leaf_page]) -> stored
          [] halved.aborted -> halved
          [] OTHER -> InsertIntoParent(halved, leaf_page, KeyAt(halved.pages[new_leaf], 0), new_leaf)

-----------------------------------------------------------------------------
(* Removal, from store to store *)

(* The sibling FindLeftSibling picks: the left one, or the right one for   *)
(* the first child.  INVALID_PAGE_ID when the parent does not list the     *)
(* page or has no such slot.                                               *)
FindLeftSibling(s, node_id) ==
    LET parent       == s.pages[s.pages[node_id].parent_page_id]
        index        == Internal!ValueIndex(parent, node_id)
        siblingIndex == IF index = 0 THEN index + 1 ELSE index - 1
    IN  IF index >= 0 /\ Internal!InRange(parent, siblingIndex)
        THEN Internal!ValueAt(parent, siblingIndex)
        ELSE INVALID_PAGE_ID

FitsInOnePage(s, node_id, sibling) ==
    GetSize(s.pages[node_id]) + GetSize(s.pages[sibling]) <= GetMaxSize(s.pages[node_id])

(* Coalesce up to its recursion: `node_id` is the right one of the two. *)
Coalesce(s, neighbor_node, node_id) ==
    LET parent_id == s.pages[node_id].parent_page_id
        index     == Internal!ValueIndex(s.pages[parent_id], node_id)
    IN  Internal!Remove(MoveAllTo(s, node_id, neighbor_node, index), parent_id, index)

(* Faulty variant: the pair always comes from the neighbour's tail. *)
RedistributeFromTail(s, neighbor_node, node_id) ==
    MoveLastToFrontOf(s, neighbor_node, node_id,
                      Internal!ValueIndex(s.pages[s.pages[node_id].parent_page_id], node_id))

Redistribute(s, neighbor_node, node_id) ==
    LET index == Internal!ValueIndex(s.pages[s.pages[node_id].parent_page_id], node_id)
    IN  IF index = 0
        THEN MoveFirstToEndOf(s, neighbor_node, node_id)
        ELSE MoveLastToFrontOf(s, neighbor_node, node_id, index)

(* Faulty variant: the child that becomes the root keeps the pointer to    *)
(* the page it replaces.                                                   *)
AdjustRootKeepingParent(s, old_root) ==
    LET child == Internal!ValueAt(s.pages[old_root], 0)
    IN  CASE IsLeafPage(s.pages[old_root]) -> [s EXCEPT !.root_page_id = INVALID_PAGE_ID]
          [] GetSize(s.pages[old_root]) = 1 ->
                [Internal!RemoveAndReturnOnlyChild(s, old_root) EXCEPT !.root_page_id = child]
          [] OTHER -> s

(* A leaf root is only adjusted when it is empty, an internal root gives   *)
(* way to its only child.                                                  *)
AdjustRoot(s, old_root) ==
    LET child == Internal!ValueAt(s.pages[old_root], 0)
    IN  CASE IsLeafPage(s.pages[old_root]) -> [s EXCEPT !.root_page_id = INVALID_PAGE_ID]
          [] GetSize(s.pages[old_root]) = 1 ->
                IF child \in DOMAIN s.pages
                THEN UnpinPage([FetchPage(Internal!RemoveAndReturnOnlyChild(s, old_root), child) EXCEPT
                                   !.root_page_id = child,
                                   !.pages = SetParentPageId(@, {child}, INVALID_PAGE_ID)],
                               child)
                ELSE Abort(s)
          [] OTHER -> s

(* Does AdjustRoot hand the old root over for deletion? *)
DeletesOldRoot(page) == IsLeafPage(page) \/ GetSize(page) = 1

-----------------------------------------------------------------------------
(* The integrity test the tree has for itself *)

RECURSIVE isBalanced(_, _), isPageCorr(_, _)

(* The height of the subtree under `pid` when all the subtrees of each of  *)
(* its pages have one height, and -1 when they do not.                     *)
isBalanced(ps, pid) ==
    LET heights == {isBalanced(ps, child) : child \in Internal!Children(ps[pid])}
    IN  CASE IsLeafPage(ps[pid]) \/ heights = {} -> 0
          [] Cardinality(heights) = 1 /\ heights \subseteq Nat -> 1 + CHOOSE h \in heights : TRUE
          [] OTHER -> -1

(* The keys of a leaf do not go down; each separator of an internal page   *)
(* is above the one before it, above the last key of the page to its left  *)
(* and not above the first key of the page to its right, and those pages   *)
(* pass the test themselves.                                               *)
KeysInOrder(ps, pid) ==
    LET page     == ps[pid]
        child(i) == isPageCorr(ps, Internal!ValueAt(page, i))
    IN  \A i \in 1 .. GetSize(page) - 1 :
            IF IsLeafPage(page)
            THEN KeyAt(page, i - 1) <= KeyAt(page, i)
            ELSE /\ child(i - 1).ret /\ child(i).ret
                 /\ child(i - 1).second < KeyAt(page, i)
                 /\ KeyAt(page, i) <= child(i).first
                 /\ i = 1 \/ KeyAt(page, i - 1) < KeyAt(page, i)

(* The pair isPageCorr hands to the page above: the key of the first slot  *)
(* and the key of the last.                                                *)
KeyRange(page, ok) ==
    [ret    |-> ok,
     first  |-> IF GetSize(page) = 0 THEN NoKey ELSE KeyAt(page, 0),
     second |-> IF GetSize(page) = 0 THEN NoKey ELSE KeyAt(page, GetSize(page) - 1)]

(* Faulty variant: a page may be as small as it likes. *)
isPageCorrUpToMax(ps, pid) ==
    KeyRange(ps[pid], GetSize(ps[pid]) <= GetMaxSize(ps[pid]) /\ KeysInOrder(ps, pid))

isPageCorr(ps, pid) ==
    KeyRange(ps[pid], /\ GetSize(ps[pid]) \in GetMinSize(ps[pid]) .. GetMaxSize(ps[pid])
                      /\ KeysInOrder(ps, pid))

(* Check(true), called between operations. *)
Check ==
    /\ IsEmpty \/ isPageCorr(pages, root_page_id).ret
    /\ IsEmpty \/ isBalanced(pages, root_page_id) >= 0
    /\ \A id \in PageIds : pin_count[id] = 0

-----------------------------------------------------------------------------
(* The steps of a thread *)

Init ==
    /\ \E index \in InitialIndex :
          /\ root_page_id = index.root_page_id
          /\ pages = index.pages
    /\ pin_count = [id \in PageIds |-> 0]
    /\ pc = [t \in Threads |-> "idle"]
    /\ op = [t \in Threads |-> NoCall]
    /\ page_set = [t \in Threads |-> <<>>]
    /\ deleted_set = [t \in Threads |-> {}]
    /\ mRootLockedCnt = [t \in Threads |-> 0]
    /\ node = [t \in Threads |-> INVALID_PAGE_ID]
    /\ nearNode = [t \in Threads |-> NoSibling]
    /\ parent_page = [t \in Threads |-> <<>>]
    /\ scanned = [t \in Threads |-> <<>>]
    /\ index_ = [t \in Threads |-> 0]
    /\ ret = [t \in Threads |-> FALSE]
    /\ alive = TRUE

At(t, label) == alive /\ pc[t] = label

(* A failed assert or a null pointer followed: the process ends. *)
Crash ==
    /\ alive' = FALSE
    /\ UNCHANGED <<tree, pin_count, locals, ret>>

Goto(t, label) == pc' = [pc EXCEPT ![t] = label]

(* The operation is on its way to FindLeafPage. *)
Called(t, call) ==
    /\ op' = [op EXCEPT ![t] = call]
    /\ Goto(t, "findLeaf")
    /\ UNCHANGED <<tree, pin_count, page_set, wayUp, mRootLockedCnt, node, iterator, ret, alive>>

(* The operation returns `result` to its caller. *)
Return(t, result) ==
    /\ Goto(t, "idle")
    /\ op' = [op EXCEPT ![t] = NoCall]
    /\ node' = [node EXCEPT ![t] = INVALID_PAGE_ID]
    /\ nearNode' = [nearNode EXCEPT ![t] = NoSibling]
    /\ parent_page' = [parent_page EXCEPT ![t] = <<>>]
    /\ deleted_set' = [deleted_set EXCEPT ![t] = {}]
    /\ scanned' = [scanned EXCEPT ![t] = <<>>]
    /\ index_' = [index_ EXCEPT ![t] = 0]
    /\ ret' = [ret EXCEPT ![t] = result]

(* buffer_pool_manager_->DeletePage of the pages handed over. *)
AfterDeletePage(ps, deleted) == [id \in DOMAIN ps \ deleted |-> ps[id]]

(* The tree and the pins are left as in store `s`, less the pages deleted. *)
Stored(s, deleted) ==
    /\ root_page_id' = s.root_page_id
    /\ pages' = AfterDeletePage(s.pages, deleted)
    /\ pin_count' = s.pin_count

(* UnpinPage of each of `page_ids`. *)
Unpinned(s, page_ids) == Seqs!FoldLeft(UnpinPage, s, page_ids)

(* FreePagesInTransaction at the end of an operation that leaves           *)
(* `store` and has handed over `deleted`: the root latch goes if held,     *)
(* every page of the set is unlatched and unpinned, those handed over are  *)
(* deleted (each of them must be in the set), and the operation returns    *)
(* `result`.  The store is worked out once.                                *)
Released(t, store, deleted, result) ==
    \E s \in {store} :
        IF s.aborted \/ ~(deleted \subseteq Seqs!ToSet(s.page_set))
        THEN Crash
        ELSE /\ \E freed \in {Unpinned(s, s.page_set)} : Stored(freed, deleted)
             /\ mRootLockedCnt' = [mRootLockedCnt EXCEPT ![t] = TryUnlocked(@)]
             /\ page_set' = [page_set EXCEPT ![t] = <<>>]
             /\ Return(t, result)
             /\ UNCHANGED alive

(* Faulty variant: the first leaf stays pinned. *)
StartNewTreePinned(s, key) ==
    [NewPage(s, [Leaf!Init(INVALID_PAGE_ID) EXCEPT !.array = <<key>>]) EXCEPT !.root_page_id = NewPageId(s)]

StartNewTree(s, key) ==
    LET root == [Leaf!Init(INVALID_PAGE_ID) EXCEPT !.array = <<key>>]
    IN  IF NewPageId(s) = INVALID_PAGE_ID
        THEN Abort(s)
        ELSE UnpinPage([NewPage(s, root) EXCEPT !.root_page_id = NewPageId(s)], NewPageId(s))

(* Insert up to the call of InsertIntoLeaf: under the root latch, an empty *)
(* tree gets its first leaf.                                               *)
Insert(t, key) ==
    /\ At(t, "idle")
    /\ CanLockRoot(TRUE, [u \in Threads |-> op[u].type])
    /\ \/ /\ IsEmpty
          /\ IF StartNewTree(Store(t), key).aborted
             THEN Crash
             ELSE /\ Stored(StartNewTree(Store(t), key), {})
                  /\ Return(t, TRUE)
                  /\ UNCHANGED <<page_set, mRootLockedCnt, alive>>
       \/ /\ ~IsEmpty
          /\ Called(t, [type |-> "INSERT", key |-> key])

(* Remove up to the call of FindLeafPage: it looks at root_page_id_        *)
(* without the root latch, and has nothing to do in an empty tree.         *)
Remove(t, key) ==
    /\ At(t, "idle")
    /\ \/ /\ IsEmpty
          /\ UNCHANGED vars
       \/ /\ ~IsEmpty
          /\ Called(t, [type |-> "DELETE", key |-> key])

GetValue(t, key) ==
    /\ At(t, "idle")
    /\ Called(t, [type |-> "READ", key |-> key])

(* Begin() up to its call of FindLeafPage. *)
Begin(t) ==
    /\ At(t, "idle")
    /\ t \in Scanners
    /\ Called(t, ScanCall)

(* Begin(key) up to its call of FindLeafPage. *)
BeginFrom(t, key) ==
    /\ At(t, "idle")
    /\ t \in Scanners
    /\ Called(t, [type |-> "SCAN", key |-> key])

(* FindLeafPage up to the latch of the root, which it reads and fetches    *)
(* under the root latch.  Of its callers GetValue tests for the null       *)
(* pointer an empty tree gives, and Begin hands it to an iterator that is  *)
(* at its end at once.                                                     *)
FindLeafPage(t) ==
    /\ At(t, "findLeaf")
    /\ CanLockRoot(Exclusive(t), [u \in Threads |-> op[u].type])
    /\ IF IsEmpty
       THEN IF Exclusive(t)
            THEN Crash
            ELSE /\ Return(t, IF IsScan(t) THEN ret[t] ELSE FALSE)
                 /\ UNCHANGED <<tree, pin_count, page_set, mRootLockedCnt, alive>>
       ELSE /\ mRootLockedCnt' = [mRootLockedCnt EXCEPT ![t] = @ + 1]
            /\ node' = [node EXCEPT ![t] = root_page_id]
            /\ pin_count' = FetchPage(Store(t), root_page_id).pin_count
            /\ Goto(t, "crab")
            /\ UNCHANGED <<tree, op, page_set, wayUp, iterator, ret, alive>>

(* Faulty variant: the ancestors are released whether the child is safe    *)
(* or not.                                                                 *)
ReleasesAncestorsAlways(t, page_id, previous) == previous > 0

ReleasesAncestors(t, page_id, previous) ==
    previous > 0 /\ (~Exclusive(t) \/ isSafe(pages[page_id], op[t].type))

(* Faulty variant: the leftmost leaf is looked for one slot to the right. *)
ChildRightOfFirst(page, key, leftMost) ==
    IF leftMost THEN Internal!ValueAt(page, 1) ELSE Internal!Lookup(page, key)

(* The page FindLeafPage's loop goes on to from an internal page. *)
Child(page, key, leftMost) ==
    IF leftMost THEN Internal!ValueAt(page, 0) ELSE Internal!Lookup(page, key)

(* Begin and Begin(key) once FindLeafPage has returned the leaf: the       *)
(* iterator starts at slot 0 or at the slot KeyIndex gives for the key.    *)
(* When that is the size of the leaf, the iterator is on a slot past the   *)
(* last pair and yields what the slot happens to hold.                     *)
Positioned(t, leaf) ==
    LET idx == IF op[t] = ScanCall THEN 0 ELSE Leaf!KeyIndex(leaf, op[t].key)
    IN  IF IsScan(t) /\ idx >= GetSize(leaf)
        THEN /\ index_' = [index_ EXCEPT ![t] = idx]
             /\ \E stale \in Keys \cup {NoKey} : scanned' = [scanned EXCEPT ![t] = <<stale>>]
        ELSE /\ index_' = [index_ EXCEPT ![t] = IF IsScan(t) THEN idx ELSE 0]
             /\ UNCHANGED scanned

(* One turn of FindLeafPage's loop, from the latch on the page the turn    *)
(* before has fetched to the fetch of the next: the page is latched, the   *)
(* pages above it are unlatched and unpinned when the operation cannot     *)
(* change them, and in an internal page the child is chosen and fetched.   *)
(* `previous` is the page latched last.  Begin and Begin(key) give back    *)
(* the root latch as soon as FindLeafPage has returned the leaf.           *)
CrabingProtocalFetchPage(t) ==
    LET page_id  == node[t]
        previous == IF page_set[t] = <<>> THEN INVALID_PAGE_ID ELSE Seqs!Last(page_set[t])
        leftMost == op[t] = ScanCall
        releases == ReleasesAncestors(t, page_id, previous)
        freed    == IF releases THEN Unpinned(Store(t), page_set[t]) ELSE Store(t)
        child    == Child(pages[page_id], op[t].key, leftMost)
    IN  /\ At(t, "crab")
        /\ IF page_id \notin DOMAIN pages
           THEN Crash
           ELSE /\ CanLatch(t, page_id, Exclusive(t))
                /\ IF ~IsLeafPage(pages[page_id]) /\ GetSize(pages[page_id]) <= 1 /\ ~leftMost
                   THEN Crash
                   ELSE /\ page_set' = [page_set EXCEPT ![t] = IF releases THEN <<page_id>> ELSE Append(@, page_id)]
                        /\ mRootLockedCnt' = [mRootLockedCnt EXCEPT ![t] =
                               IF releases \/ (IsScan(t) /\ IsLeafPage(pages[page_id])) THEN TryUnlocked(@) ELSE @]
                        /\ IF IsLeafPage(pages[page_id])
                           THEN /\ pin_count' = freed.pin_count
                                /\ Positioned(t, pages[page_id])
                                /\ Goto(t, "atLeaf")
                                /\ UNCHANGED node
                           ELSE /\ pin_count' = FetchPage(freed, child).pin_count
                                /\ node' = [node EXCEPT ![t] = child]
                                /\ UNCHANGED <<pc, iterator>>
                        /\ UNCHANGED <<tree, op, wayUp, ret, alive>>

GetValueAtLeaf(t) ==
    /\ At(t, "atLeaf")
    /\ op[t].type = "READ"
    /\ Released(t, Store(t), {}, Leaf!Lookup(pages[node[t]], op[t].key))

(* The iterator at the end of its leaf: the keys of the leaf have been     *)
(* yielded, the leaf is unlatched and unpinned, and the scan is over or    *)
(* goes for the leaf that next_page_id named while the latch was held.     *)
FromSlot(leaf, idx) == SubSeq(leaf.array, idx + 1, GetSize(leaf))

Advance(t) ==
    LET leaf == pages[node[t]]
    IN  /\ At(t, "atLeaf")
        /\ IsScan(t)
        /\ page_set' = [page_set EXCEPT ![t] = <<>>]
        /\ pin_count' = UnpinPage(Store(t), node[t]).pin_count
        /\ IF leaf.next_page_id = INVALID_PAGE_ID
           THEN Return(t, ret[t])
           ELSE /\ scanned' = [scanned EXCEPT ![t] = @ \o FromSlot(leaf, index_[t])]
                /\ index_' = [index_ EXCEPT ![t] = 0]
                /\ node' = [node EXCEPT ![t] = leaf.next_page_id]
                /\ Goto(t, "nextLeaf")
                /\ UNCHANGED <<op, wayUp, ret>>
        /\ UNCHANGED <<tree, mRootLockedCnt, alive>>

(* The iterator fetches and read-latches the leaf it remembered.  What it  *)
(* gets when that page has been deleted since, or is in use again as      *)
(* another page, is not defined.                                           *)
FetchNextLeaf(t) ==
    /\ At(t, "nextLeaf")
    /\ IF node[t] \notin DOMAIN pages \/ ~IsLeafPage(pages[node[t]])
       THEN Crash
       ELSE /\ CanLatch(t, node[t], FALSE)
            /\ page_set' = [page_set EXCEPT ![t] = <<node[t]>>]
            /\ pin_count' = FetchPage(Store(t), node[t]).pin_count
            /\ Goto(t, "atLeaf")
            /\ UNCHANGED <<tree, op, wayUp, mRootLockedCnt, node, iterator, ret, alive>>

(* InsertIntoLeaf once the leaf is latched. *)
InsertAtLeaf(t) ==
    /\ At(t, "atLeaf")
    /\ op[t].type = "INSERT"
    /\ \/ /\ Leaf!Lookup(pages[node[t]], op[t].key)
          /\ Released(t, Store(t), {}, FALSE)
       \/ /\ ~Leaf!Lookup(pages[node[t]], op[t].key)
          /\ Released(t, InsertIntoLeaf(Store(t), node[t], op[t].key), {}, TRUE)

(* CoalesceOrRedistribute of `node_id` up to where it waits, reached with  *)
(* store `s`, the pages `deleted` handed over and the parents `parents`    *)
(* held by the calls around it.  For a root nothing is fetched.  For any   *)
(* other page FindLeftSibling fetches the parent, reads the sibling from   *)
(* it and fetches the sibling, whose latch it then waits for.              *)
CoalesceOrRedistribute(t, s, node_id, deleted, parents) ==
    LET below     == ~IsRootPage(s.pages[node_id])
        parent_id == s.pages[node_id].parent_page_id
        sibling   == FindLeftSibling(s, node_id)
        index     == Internal!ValueIndex(s.pages[parent_id], node_id)
    IN  IF below /\ (parent_id \notin DOMAIN s.pages \/ sibling \notin DOMAIN s.pages)
        THEN Crash
        ELSE /\ Stored(IF below THEN FetchPage(FetchPage(s, parent_id), sibling) ELSE s, {})
             /\ page_set' = [page_set EXCEPT ![t] = s.page_set]
             /\ deleted_set' = [deleted_set EXCEPT ![t] = deleted]
             /\ node' = [node EXCEPT ![t] = node_id]
             /\ nearNode' = [nearNode EXCEPT ![t] =
                    IF below THEN [page_id |-> sibling, is_r_sibling |-> index = 0] ELSE NoSibling]
             /\ parent_page' = [parent_page EXCEPT ![t] =
                    IF below THEN Append(parents, parent_id) ELSE parents]
             /\ Goto(t, "underflow")
             /\ UNCHANGED <<op, mRootLockedCnt, iterator, ret, alive>>

(* Remove once the leaf is latched. *)
RemoveAtLeaf(t) ==
    LET removed == Leaf!RemoveAndDeleteRecord(Store(t), node[t], op[t].key)
        tar     == removed.pages[node[t]]
    IN  /\ At(t, "atLeaf")
        /\ op[t].type = "DELETE"
        /\ \/ /\ GetSize(tar) < GetMinSize(tar)
              /\ CoalesceOrRedistribute(t, removed, node[t], {}, <<>>)
           \/ /\ GetSize(tar) >= GetMinSize(tar)
              /\ Released(t, removed, {}, ret[t])

(* Faulty variant: the calls of CoalesceOrRedistribute return without the  *)
(* unpin of the parent.                                                    *)
ReturnedPinned(s, parents) == s

(* The calls of CoalesceOrRedistribute return, innermost first, and each   *)
(* unpins the parent it has fetched.                                       *)
Returned(s, parents) == Unpinned(s, Seqs!Reverse(parents))

(* CoalesceOrRedistribute of a root. *)
UnderflowAtRoot(t) ==
    LET old_root == node[t]
        deleted  == deleted_set[t] \cup (IF DeletesOldRoot(pages[old_root]) THEN {old_root} ELSE {})
    IN  /\ At(t, "underflow")
        /\ IsRootPage(pages[old_root])
        /\ Released(t, Returned(AdjustRoot(Store(t), old_root), parent_page[t]), deleted, ret[t])

(* CoalesceOrRedistribute of any other page, from the latch of its sibling *)
(* to the recursion into the parent or the end of Remove: FindLeftSibling  *)
(* gives back the parent, which is fetched again for the merge or the      *)
(* redistribution.                                                         *)
UnderflowBelowRoot(t) ==
    LET node_id   == node[t]
        parent_id == pages[node_id].parent_page_id
        sibling   == nearNode[t].page_id
        survivor  == IF nearNode[t].is_r_sibling THEN node_id ELSE sibling
        merged    == IF nearNode[t].is_r_sibling THEN sibling ELSE node_id
        latched   == [UnpinPage(Store(t), Seqs!Last(parent_page[t])) EXCEPT !.page_set = Append(@, sibling)]
        parents   == Append(Seqs!Front(parent_page[t]), parent_id)
        coalesced == Coalesce(FetchPage(latched, parent_id), survivor, merged)
        parent    == coalesced.pages[parent_id]
    IN  /\ At(t, "underflow")
        /\ ~IsRootPage(pages[node_id])
        /\ IF parent_id \notin DOMAIN pages \/ sibling \notin DOMAIN pages
           THEN Crash
           ELSE /\ CanLatch(t, sibling, TRUE)
                /\ \/ /\ FitsInOnePage(latched, node_id, sibling)
                      /\ ~coalesced.aborted
                      /\ GetSize(parent) <= GetMinSize(parent)
                      /\ CoalesceOrRedistribute(t, coalesced, parent_id, deleted_set[t] \cup {merged}, parents)
                   \/ /\ FitsInOnePage(latched, node_id, sibling)
                      /\ coalesced.aborted \/ GetSize(parent) > GetMinSize(parent)
                      /\ Released(t, Returned(coalesced, parents), deleted_set[t] \cup {merged}, ret[t])
                   \/ /\ ~FitsInOnePage(latched, node_id, sibling)
                      /\ Released(t, Returned(Redistribute(FetchPage(latched, parent_id), sibling, node_id), parents),
                                  deleted_set[t], ret[t])

(* The process has ended: nothing moves. *)
Halted ==
    /\ ~alive
    /\ UNCHANGED vars

Step(t) ==
    \/ FindLeafPage(t)
    \/ CrabingProtocalFetchPage(t)
    \/ GetValueAtLeaf(t)
    \/ Advance(t)
    \/ FetchNextLeaf(t)
    \/ InsertAtLeaf(t)
    \/ RemoveAtLeaf(t)
    \/ UnderflowAtRoot(t)
    \/ UnderflowBelowRoot(t)

Next ==
    \/ \E t \in Threads, key \in Keys :
          \/ Insert(t, key)
          \/ Remove(t, key)
          \/ GetValue(t, key)
    \/ \E t \in Threads, key \in ScanKeys : BeginFrom(t, key)
    \/ \E t \in Threads : Begin(t) \/ Step(t)
    \/ Halted

Fairness == \A t \in Threads : WF_vars(Step(t))

Spec == Init /\ [][Next]_vars /\ Fairness

-----------------------------------------------------------------------------
(* What is checked *)

RECURSIVE LeftMostLeaf(_, _), Chain(_, _, _), KeysUnder(_, _), PagesUnder(_, _), Height(_, _)

LeftMostLeaf(ps, id) ==
    IF IsLeafPage(ps[id]) THEN id ELSE LeftMostLeaf(ps, Internal!ValueAt(ps[id], 0))

(* The leaves from `id` on, by next_page_id; `fuel` stops a chain that     *)
(* runs in a circle.                                                       *)
Chain(ps, id, fuel) ==
    IF id \notin DOMAIN ps \/ fuel = 0
    THEN <<>>
    ELSE <<id>> \o Chain(ps, ps[id].next_page_id, fuel - 1)

LeafChain ==
    IF root_page_id \in DOMAIN pages
    THEN Chain(pages, LeftMostLeaf(pages, root_page_id), Cardinality(DOMAIN pages))
    ELSE <<>>

(* What an iterator started at the leftmost leaf would return. *)
Scan ==
    LET leaves == LeafChain
    IN  Seqs!FlattenSeq([i \in DOMAIN leaves |-> pages[leaves[i]].array])

KeysUnder(ps, id) ==
    IF IsLeafPage(ps[id])
    THEN Seqs!ToSet(ps[id].array)
    ELSE UNION {KeysUnder(ps, child) : child \in Internal!Children(ps[id]) \cap DOMAIN ps}

PagesUnder(ps, id) ==
    IF IsLeafPage(ps[id])
    THEN {id}
    ELSE {id} \cup UNION {PagesUnder(ps, child) : child \in Internal!Children(ps[id]) \cap DOMAIN ps}

Height(ps, id) ==
    IF IsLeafPage(ps[id]) THEN 0 ELSE 1 + Height(ps, Internal!ValueAt(ps[id], 0))

Increasing(keys) == \A i, j \in DOMAIN keys : i < j => keys[i] < keys[j]

Pages ==
    [page_type : {LEAF_PAGE}, parent_page_id : PageIds \cup {INVALID_PAGE_ID},
     array : Seq(Keys), next_page_id : PageIds \cup {INVALID_PAGE_ID}]
    \cup
    [page_type : {INTERNAL_PAGE}, parent_page_id : PageIds \cup {INVALID_PAGE_ID},
     array : Seq([first : Keys \cup {NoKey}, second : PageIds]), next_page_id : {INVALID_PAGE_ID}]

TypeOK ==
    /\ root_page_id \in PageIds \cup {INVALID_PAGE_ID}
    /\ DOMAIN pages \subseteq PageIds
    /\ \A id \in DOMAIN pages : pages[id] \in Pages /\ GetSize(pages[id]) <= GetMaxSize(pages[id]) + 1
    /\ pc \in [Threads -> {"idle", "findLeaf", "crab", "atLeaf", "nextLeaf", "underflow"}]
    /\ op \in [Threads -> Calls \cup Scans \cup {NoCall}]
    /\ scanned \in [Threads -> Seq(Keys \cup {NoKey})]
    /\ index_ \in [Threads -> 0 .. LeafMaxSize]
    /\ \A t \in Threads : page_set[t] \in Seq(DOMAIN pages)
    /\ deleted_set \in [Threads -> SUBSET PageIds]
    /\ mRootLockedCnt \in [Threads -> {0, 1}]
    /\ node \in [Threads -> PageIds \cup {INVALID_PAGE_ID}]
    /\ nearNode \in [Threads -> [page_id : PageIds \cup {INVALID_PAGE_ID}, is_r_sibling : BOOLEAN]]
    /\ parent_page \in [Threads -> Seq(PageIds)]
    /\ pin_count \in [PageIds -> Int]
    /\ ret \in [Threads -> BOOLEAN]
    /\ alive \in BOOLEAN

(* The index is in the shape section 3.2 of the specification asks for.    *)
Balanced(id) ==
    \A child \in Internal!Children(pages[id]) :
        /\ child \in DOMAIN pages
        /\ pages[child].parent_page_id = id
        /\ Height(pages, child) + 1 = Height(pages, id)

(* Slot 0 of an internal page that is not a first child repeats the key    *)
(* its parent holds for it: MoveFirstToEndOf takes that key along.         *)
SlotZeroRepeatsSeparator(id) ==
    \A i \in DOMAIN pages[id].array :
        LET child == pages[pages[id].array[i].second]
        IN  i > 1 /\ ~IsLeafPage(child) => Internal!KeyAt(child, 0) = pages[id].array[i].first

SeparatorsBound(id) ==
    \A i \in DOMAIN pages[id].array :
        \A k \in KeysUnder(pages, pages[id].array[i].second) :
            /\ i > 1 => pages[id].array[i].first <= k
            /\ i < GetSize(pages[id]) => k < pages[id].array[i + 1].first

WellFormed ==
    IF IsEmpty
    THEN pages = <<>>
    ELSE /\ root_page_id \in DOMAIN pages
         /\ IsRootPage(pages[root_page_id])
         /\ PagesUnder(pages, root_page_id) = DOMAIN pages
         /\ \A id \in DOMAIN pages :
               /\ GetSize(pages[id]) \in GetMinSize(pages[id]) .. GetMaxSize(pages[id])
               /\ ~IsLeafPage(pages[id]) => Balanced(id) /\ SeparatorsBound(id) /\ SlotZeroRepeatsSeparator(id)
         /\ Seqs!ToSet(LeafChain) = {id \in DOMAIN pages : IsLeafPage(pages[id])}
         /\ Increasing(Scan)

(* The root is an internal page that lists one child: what                 *)
(* PopulateNewRoot leaves behind.                                          *)
RootIsStub ==
    /\ root_page_id \in DOMAIN pages
    /\ ~IsLeafPage(pages[root_page_id])
    /\ GetSize(pages[root_page_id]) < 2

(* Whenever no Remove is on its way back up the tree, the pages form a B+  *)
(* tree: the root is a page of the pool, every page in the pool hangs      *)
(* under it, all leaves are at one depth, every page but the root is at    *)
(* least half full and none is over full, the keys of an internal page     *)
(* bound the keys below its children, every child names its parent, and    *)
(* the leaf chain runs through all leaves in key order.  This is what      *)
(* Split, InsertIntoParent, Coalesce, Redistribute and AdjustRoot have to  *)
(* restore between them; the state PopulateNewRoot leaves is set aside,    *)
(* it is the matter of RootHasTwoChildren.                                 *)
WellFormedBetweenOperations ==
    (\A t \in Threads : pc[t] # "underflow") /\ ~RootIsStub => WellFormed

(* An internal root lists at least two children: PopulateNewRoot           *)
(* "initializes a two-child root".                                         *)
RootHasTwoChildren == ~RootIsStub

(* The only assert that ever fails is the one of Lookup, on a page with a  *)
(* single child: InsertNodeAfter finds the old page in its parent,         *)
(* CopyFirstFrom and CopyLastFrom have room, FreePagesInTransaction finds  *)
(* every page handed over for deletion among the latched ones, and no page *)
(* is fetched that the pool does not have.                                 *)
OnlyLookupAsserts ==
    ~alive => \E t \in Threads : pc[t] = "crab" /\ node[t] \in DOMAIN pages /\ GetSize(pages[node[t]]) < 2

(* Between operations the tree's own test and the invariants of the       *)
(* specification give one verdict: Check accepts every tree that Insert    *)
(* and Remove leave well formed, and it rejects the root of one child that *)
(* the first split of a root leaves.                                       *)
CheckAgreesWithWellFormed ==
    alive /\ (\A t \in Threads : pc[t] = "idle") => (Check <=> WellFormed)

(* An Insert or a Remove has a leaf to work on: when FindLeafPage finds     *)
(* the tree empty and returns a null pointer, the caller is a GetValue,    *)
(* which tests for it.  Insert and Remove look at root_page_id_ before     *)
(* they call FindLeafPage and follow the pointer it returns.               *)
LeafIsFound ==
    ~alive => ~\E t \in Threads : pc[t] = "findLeaf" /\ IsEmpty

(* The threads that hold, in a mode that excludes the one asked for, the   *)
(* latch thread t is about to take: the root latch in FindLeafPage, a page *)
(* latch in CrabingProtocalFetchPage or in the iterator, the sibling's in  *)
(* CoalesceOrRedistribute.                                                 *)
Holders(t) ==
    LET excludes(u) == Exclusive(t) \/ Exclusive(u)
        wanted      == IF pc[t] = "underflow" THEN nearNode[t].page_id ELSE node[t]
    IN  CASE pc[t] = "findLeaf" -> {u \in Threads : mRootLockedCnt[u] > 0 /\ excludes(u)}
          [] pc[t] \in {"crab", "nextLeaf", "underflow"} ->
                 {u \in Threads : wanted \in Latched(u) /\ excludes(u)}
          [] OTHER -> {}

(* No thread waits for ever while the process lives: whenever operations   *)
(* are in progress, one of them can take its next step, because no thread  *)
(* holds the latch it asks for.  The latches of a descent are taken from   *)
(* the root down and the sibling's latch of FindLeftSibling under the      *)
(* parent's, an iterator holds one leaf and asks for none while it does,   *)
(* and no operation returns with the root latch or a page latch still held *)
(* (TryUnlockRootPageId, FreePagesInTransaction).                          *)
SomeOperationCanStep ==
    alive /\ (\E t \in Threads : pc[t] # "idle") =>
        \E t \in Threads : pc[t] # "idle" /\ Holders(t) = {}

(* No operations wait for each other's latches in a cycle: "the ordering   *)
(* is parent -> (node, sibling) and the sibling is taken after the node    *)
(* under the same parent-held lock, preventing cycles".  FindLeftSibling   *)
(* picks the sibling on either side, and Coalesce goes on to the parent    *)
(* with whatever latches the descent has kept.                             *)
NoLatchCycle ==
    ~\E waiting \in SUBSET Threads \ {{}} : \A t \in waiting : Holders(t) \cap waiting # {}

(* What a page holds apart from the pointer to its parent. *)
Content(page) == <<page.array, page.next_page_id>>

Moves(t) == <<pc[t], page_set[t], node[t]>> # <<pc[t], page_set[t], node[t]>>'

(* The keys, children and leaf-chain pointer of a page do not change while  *)
(* another thread than the one that changes them has the page latched, and *)
(* the thread that changes a page it has latched holds a write latch:      *)
(* Split, Coalesce and Redistribute, and the page operations they call on  *)
(* the parent, touch no page another operation is reading or writing       *)
(* ("mutated only while write-latched by the current operation").          *)
ChangesUnderOwnLatch ==
    [][\A id \in DOMAIN pages \cap DOMAIN pages' :
          Content(pages[id]) # Content(pages'[id]) =>
              \A t \in Threads : id \in Latched(t) => Exclusive(t) /\ Moves(t)]_vars

(* root_page_id_ is written by no thread while another one holds the root  *)
(* latch: a descent reads root_page_id_ in one step and fetches that page  *)
(* in the next (FindLeafPage), and StartNewTree, InsertIntoParent and      *)
(* AdjustRoot, which also write the header page that has no latch of its   *)
(* own, must still own the root latch they took on the way down when they  *)
(* run.                                                                    *)
RootChangesUnderRootLatch ==
    [][root_page_id' # root_page_id =>
          \A t \in Threads : mRootLockedCnt[t] > 0 => Exclusive(t) /\ Moves(t)]_vars

(* FreePagesInTransaction calls DeletePage for no page that is pinned: a   *)
(* page goes "after unpinning", when the buffer pool can let go of it and  *)
(* nobody is left with a pointer into its frame.  An operation fetches a   *)
(* page only under the latch of the page that names it, and who deletes    *)
(* the page holds that latch.  An iterator between two leaves is under no  *)
(* latch: the leaf it goes for may be deleted, which is the matter of      *)
(* ScanIsIncreasing.                                                       *)
DeletedPageIsUnpinned ==
    [][\A id \in DOMAIN pages \ DOMAIN pages' : pin_count'[id] = 0]_vars

(* The pages thread t has fetched and not unpinned: those it has latched,  *)
(* the parents its calls of CoalesceOrRedistribute hold, and the page      *)
(* whose latch it waits for in CrabingProtocalFetchPage or in              *)
(* FindLeftSibling.                                                        *)
Pointers(t) ==
    page_set[t] \o parent_page[t]
        \o (IF pc[t] = "crab" THEN <<node[t]>> ELSE <<>>)
        \o (IF nearNode[t] = NoSibling THEN <<>> ELSE <<nearNode[t].page_id>>)

(* Every FetchPage and NewPage is "balanced by exactly one unpin": the pin *)
(* count of a page is the number of pointers to it that the operations in  *)
(* progress hold, so that no page stays pinned when its operation has      *)
(* returned and none is unpinned twice.  The unpins are spread over        *)
(* StartNewTree, InsertIntoParent and its recursion, FindLeftSibling,      *)
(* CoalesceOrRedistribute on each level it returns through, AdjustRoot     *)
(* and FreePagesInTransaction.                                             *)
PinsAreBalanced ==
    \A id \in PageIds :
        pin_count[id] = Seqs!MapThenSumSet(LAMBDA t : Cardinality({i \in DOMAIN Pointers(t) : Pointers(t)[i] = id}),
                                           Threads)

(* What the scan of thread t has yielded: the keys of the leaves it has    *)
(* left and of the leaf its iterator holds.                                *)
Yielded(t) ==
    scanned[t] \o (IF pc[t] = "atLeaf" /\ IsScan(t) THEN FromSlot(pages[node[t]], index_[t]) ELSE <<>>)

(* The keys in the leaves of the pool, in increasing order. *)
LiveKeys ==
    Seqs!SetToSortSeq(UNION {Seqs!ToSet(pages[id].array) : id \in {l \in DOMAIN pages : IsLeafPage(pages[l])}}, <)

(* The scan of thread t, the only thread, ends in this step. *)
LoneScanEnds(t) == Threads = {t} /\ IsScan(t) /\ op'[t] = NoCall

FromKey(t) == SelectSeq(LiveKeys, LAMBDA k : k >= op[t].key)

(* A scan that no other operation runs beside "yields keys in strictly     *)
(* increasing order and visits every live key exactly once": from Begin()  *)
(* to its end the iterator returns what the leaves of the pool hold, and   *)
(* from Begin(key), for a key of the index, the keys from that key on      *)
(* ("begin(5) yields [5,6,8]").  Begin has to reach the first leaf         *)
(* whatever the height of the tree is, Begin(key) the leaf of its key and  *)
(* the slot of the key in it, and every split and merge has to leave       *)
(* next_page_id leading through all the leaves (MoveHalfTo, MoveAllTo,     *)
(* Coalesce's choice of the page that survives).                           *)
LoneScanYieldsIndex ==
    [][\A t \in Threads :
          LoneScanEnds(t) /\ op[t].key \in Seqs!ToSet(LiveKeys) \cup {NoKey} => Yielded(t) = FromKey(t)]_vars

(* Begin(key) gives an iterator over the keys that are not below its key,  *)
(* whether the key is in the index or not: the iterator of Begin(key) is   *)
(* on a pair of the index, or at its end.                                  *)
LoneScanStartsAtKey ==
    [][\A t \in Threads : LoneScanEnds(t) => Yielded(t) = FromKey(t)]_vars

(* A scan yields its keys in strictly increasing order ("the leaf chain,   *)
(* followed from begin(), yields keys in strictly increasing order"),      *)
(* whatever other threads insert and remove meanwhile.  The iterator       *)
(* holds no latch between two leaves, and Redistribute moves pairs from    *)
(* leaf to leaf.                                                           *)
ScanIsIncreasing ==
    \A t \in Threads : Increasing(Yielded(t))

(* Every operation that has started returns, unless the process ends: no   *)
(* latch is asked for by the thread that holds it, and the root latch is   *)
(* given back as often as it is taken (LockRootPageId and                  *)
(* TryUnlockRootPageId, FindLeftSibling's latch on the sibling).           *)
OperationReturns ==
    \A t \in Threads : pc[t] # "idle" ~> (pc[t] = "idle" \/ ~alive)

(* The tree is a set of keys whose operations take effect one at a time,   *)
(* each between its call and its return: Insert and Remove change what the *)
(* leaf chain holds by their own key and by nothing else, GetValue and     *)
(* Insert answer for their own key by what the chain holds, and no split,  *)
(* merge or redistribution loses, invents or hides a key.  A Remove has    *)
(* taken effect when it is on its way back up the tree.                    *)
IndexKeys == UNION {Seqs!ToSet(pages[id].array) : id \in Seqs!ToSet(LeafChain)}

IndexCall ==
    [t \in Threads |->
        IF op[t].type \in {"NONE", "SCAN"}
        THEN NoCall
        ELSE [type |-> op[t].type, key |-> op[t].key, done |-> pc[t] = "underflow"]]

Index == INSTANCE UniqueIndex WITH keys <- IndexKeys, call <- IndexCall

Linearizable == Index!Spec

=============================================================================
