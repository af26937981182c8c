# TLA+ models of SCUDatabase_2022

This directory holds TLA+ specifications of the storage-engine components in
this repository, the TLC configurations that check them, and `PROJECT.json`,
which lists the components, the runs, the mapping from definitions to source
lines, the findings and the hazards. Every definition that models code was
written from the C++ source; where a file the code depends on is not in the
repository (leaf page, page header, buffer pool, latches, transaction,
iterator), the
definition follows `spec.md` and the way the source calls it, and is marked
`spec_modelled` in the map.

Run a configuration with `tlc -workers 2 -config <file>.cfg <module>`; the
module of each configuration is given in the table of runs below.

## 1. The system

| Component | Source | State | Operations |
|---|---|---|---|
| Extendible hash table | `hash/extendible_hash.cpp`, `.h` | directory `buckets`, `globalDepth`, `bucketNum`, per bucket `localDepth`, `keyMap`, `bucketLatch`; directory mutex `latch` | constructor, `getIndex`, `Find`, `Remove`, `Insert` (split, directory doubling, retry loop), `GetGlobalDepth`, `GetLocalDepth`, `GetNumBuckets` |
| LRU replacer | `buffer/lru_replacer.cpp`, `.h` | sentinels `head`, `tail`, the `prev`/`next` pointers, `map` from value to node, one mutex | constructor, `Insert`, `Victim`, `Erase`, `Size` |
| B+ tree driver | `index/b_plus_tree.cpp` | `root_page_id_`, the pages, per operation the transaction's page set and deleted page set, the root latch and the thread-local `mRootLockedCnt` | `Insert`, `Remove`, `GetValue`, `Begin()`, `Begin(key)`, `StartNewTree`, `FindLeafPage`, `CrabingProtocalFetchPage`, `InsertIntoLeaf`, `Split`, `InsertIntoParent`, `CoalesceOrRedistribute`, `FindLeftSibling`, `Coalesce`, `Redistribute`, `AdjustRoot`, `FreePagesInTransaction`, `LockRootPageId`, `TryUnlockRootPageId` |
| Internal page | `page/b_plus_tree_internal_page.cpp` | array of (key, child) pairs, size, parent id | `Init`, `Lookup`, `PopulateNewRoot`, `InsertNodeAfter`, `MoveHalfTo`, `Remove`, `RemoveAndReturnOnlyChild`, `MoveAllTo`, `MoveFirstToEndOf`, `MoveLastToFrontOf`, `CopyFirstFrom`, `CopyLastFrom` |
| Leaf page, page header | not in the repository | array of keys, size, parent id, `next_page_id` | as `spec.md` section 4.3 describes them |
| Index iterator | not in the repository | current leaf, index within it | as `spec.md` section 4.2.6 describes it |
| Buffer pool | not in the repository | the pages, the pin count of each | `NewPage`, `FetchPage`, `UnpinPage`, `DeletePage`, as the tree calls them |
| Page latch, transaction, header page | not in the repository | | seen only through the calls the tree makes |

How they interact. The hash table and the replacer are independent building
blocks of a buffer pool (page table and eviction order); each is thread-safe
by its own mutexes. The B+ tree reaches every page through the buffer pool,
latches pages top-down (crabbing), records the latched pages in the
transaction's page set and the pages to free in its deleted page set, and
releases both in `FreePagesInTransaction`. The internal page's move operations
reach into other pages through the buffer pool: they set the parent pointer of
the children they move and rewrite the separator key in the parent.

What makes the code hard:

* the hash table reads the directory outside any lock and locks the bucket
  afterwards, while splits rewire the directory under two nested mutexes;
* the B+ tree decides during the descent, before it changes anything, which
  latches it can give up (`isSafe`), and the restructuring on the way back up
  has to stay inside what is still latched;
* splits, merges and redistributions of internal pages depend on a convention
  nobody states: slot 0 of an internal page that is not a first child repeats
  the separator its parent holds for it;
* an iterator holds one leaf at a time and nothing between two leaves,
  while writers move keys from leaf to leaf and delete leaves;
* every `FetchPage` needs its `UnpinPage` on every way out of a recursion
  that fetches the same parent once per level;
* failed asserts and null pointers end the process in the middle of an
  operation.

## 2. Modules

| Module | Models | Notes |
|---|---|---|
| `HashTable` | what a hash table promises: a dictionary with pending calls | abstract specification |
| `ExtendibleHash` | `extendible_hash.cpp` | one action per stretch of code between two lock operations or unlocked reads of shared memory |
| `MCExtendibleHash` | constants for TLC | integer keys hashed to themselves, as `std::hash<int>` does |
| `ExtendibleHashHistory` | `ExtendibleHash` with a history variable | `stable[t]`: the key of t's call has been in the table since the call |
| `LRUQueue` | what a replacer promises: a queue of distinct values | abstract specification |
| `LRUReplacer` | `lru_replacer.cpp` | one action per method: each holds the mutex throughout |
| `BPlusTreePage` | page header and the store of pages | from `spec.md` |
| `BPlusTreeInternalPage` | `b_plus_tree_internal_page.cpp` | operators from store to store; `Lookup`'s loop is the recursive operator `BinarySearch` |
| `BPlusTreeLeafPage` | leaf page | from `spec.md` |
| `BPlusTree` | `b_plus_tree.cpp` | the threads' operations, the latches, the tree's own `Check`, and the properties |
| `UniqueIndex` | what the index promises: a set of keys with pending calls | abstract specification |
| `MCBPlusTree` | seed trees and the view for TLC | |

### ExtendibleHash

A thread's program counter follows the code:
`idle -> readBucket -> lockBucket -> (idle | lockDir -> split -> getIndex -> readBucket ...)`.
`Call` is the call with `getIndex` (directory mutex taken and released);
`ReadBucket` is the read `cur = buckets[index]` made with no lock held;
`Find`, `Remove` and `Insert` start by acquiring the bucket's mutex;
`LockDirectory` acquires the directory mutex with the bucket's mutex held;
`SplitBucket` is the whole block under the directory mutex (doubling, the new
bucket, the rehash loop, the rewiring loop); `RetryGetIndex` is the `getIndex`
at the bottom of the loop. `OutOfMemory` ends the process when the directory
would grow past `MaxDepth`, the named bound on `globalDepth`.

`ExtendibleHashHistory` adds the history variable `stable` and the
specification `SpecH`, which takes the steps of `Spec` and updates `stable`
beside them. The variable is read by `StablePairIsSeen` only; it restricts no
step of the table.

### LRUReplacer

Nodes are named by the value they hold (the map holds at most one node per
value). `next` and `prev` are the pointers, `map` the key set of the
`unordered_map`. The refinement mapping reads the list from `head` to `tail`
and reverses it: the queue's front is the node before `tail`.

### BPlusTree

Page operations are operators from store to store, where a store is
`[pages, root_page_id, pin_count, page_set, aborted]`; the driver's recursive functions
(`InsertIntoParent`, the recursion of `Coalesce` into
`CoalesceOrRedistribute`) compose them. A thread's operation is cut where it
can block, that is, where it acquires the root latch or a page latch:

```
idle -Insert-> idle                            (empty tree: StartNewTree)
idle -Insert/Remove/GetValue-> findLeaf -FindLeafPage-> crab
     -CrabingProtocalFetchPage-> crab ... -> atLeaf
atLeaf -GetValueAtLeaf / InsertAtLeaf-> idle
atLeaf -RemoveAtLeaf-> idle | underflow
underflow -UnderflowBelowRoot-> underflow | idle   (latches the sibling)
underflow -UnderflowAtRoot-> idle                  (AdjustRoot)
idle -Begin/BeginFrom-> findLeaf -FindLeafPage-> crab ... -> atLeaf
atLeaf -Advance-> nextLeaf -FetchNextLeaf-> atLeaf ... -Advance-> idle
```

`CrabingProtocalFetchPage` is one turn of the loop of `FindLeafPage`: the page
chosen by the turn before is latched, the ancestors are released if the
operation cannot change them, and the child for the key is looked up, still
under the latch. The child is latched in the next step, which may be after
steps of other threads. `CoalesceOrRedistribute` is the part of the function
of that name up to the latch of the sibling: it reads the sibling's id from
the parent, fetches the sibling and the parent (line 260; the fetch of the
parent in `FindLeftSibling` is given back at line 295) and leaves the operation waiting at `underflow` with the sibling in
`nearNode` and the parent in `parent_page`, one entry per level of the
recursion. `UnderflowBelowRoot` is the rest: the latch of the sibling, the
merge or the redistribution, and either the next level or the return through
all levels (`Returned`), which unpins the parent of each.

A scan is `Begin()` or `Begin(key)` followed by the iterator run to its end,
by the threads of the constant `Scanners`, for the keys of the constant
`ScanKeys`. Both descend like `GetValue`, but without a transaction, `Begin()`
by `ValueAt(0)` instead of `Lookup` (`Child`): they hold one page at a time,
and give the root latch back when they have the leaf. `Positioned` is the
rest of `Begin(key)`: the iterator starts at the slot `KeyIndex` gives, the
number of keys of the leaf below the key asked for. The
iterator is not in the repository and follows section 4.2.6 of `spec.md`:
`Advance` is the end of a leaf (the leaf is unlatched and unpinned, its
`next_page_id` remembered, or the scan is over), `FetchNextLeaf` the fetch and
read latch of the leaf remembered. The variable `index_` is the slot the
iterator starts from in the leaf it holds; the keys from that slot on are
added to `scanned` in the step that leaves the leaf, and `Yielded` adds those
of the leaf the iterator holds. `is_end()` is true only for a null leaf, so
an iterator that starts at the size of its leaf first yields the slot past
the last pair: any key, or the key of a slot never written (`NoKey`). A remembered id that
names no page any more, or a page that is not a leaf, ends the process: what
the iterator would read there is not defined.

Every action includes the `FreePagesInTransaction` its code ends with
(`Released`): the root latch goes, the page set is drained, the pages handed
over for deletion are deleted, and the assert that the deleted set is empty is
evaluated. `Released` binds the store it is given with `\E s \in {store}`:
TLC then computes the store once, also where it evaluates `ENABLED` for the
fairness of `OperationReturns`.

Modelling decisions:

* **Debug build.** A failed `assert`, a null pointer followed, and an index
  that leads to no page set `alive` to `FALSE`; the state is otherwise left as
  it was and nothing moves afterwards.
* **Pages hold their live slots.** `array` is a sequence of length `GetSize`;
  the code never reads a slot past the size before an assert stops it.
* **Latches are who holds them.** A page latch is held by the threads whose
  page set contains the page (write latch for Insert and Remove, read latch
  for GetValue); the root latch by the threads whose `mRootLockedCnt` is
  positive.
* **Keys only.** A leaf slot is a key; the record id stored with it travels
  with the key and no property is about it.
* **Seed trees.** The constructor takes the root page id of an index that is
  already in the page file. Runs start from the empty index and from
  well-formed trees of two and three levels, because, as `bptree_new_root`
  shows, the code cannot build a tree of two usable levels itself.
* **Calls carry a transaction.** `Insert` and `Remove` without one fail an
  assert in `FreePagesInTransaction`; for `GetValue` the path without a
  transaction holds the same latches as the path with one.
* **The tree's own test.** `isBalanced`, `isPageCorr` and `Check` are
  recursive operators over the pages, written from the code with its
  peculiarities: `isPageCorr` hands up the first and the last key of a page,
  for an internal page the key of slot 0 and the last separator.
  `CheckAllUnpined` is that every pin count is zero.
* **Pins are counted.** `pin_count` gains one at every `FetchPage` and
  `NewPage` of the code and loses one at every `UnpinPage`, inside the
  operators from store to store as well as in the actions. A page that is
  fetched and unpinned again within one function without a step in between
  (`Unlock`, the children whose parent pointer a move rewrites) leaves the
  count as it was and is not written out.

## 3. Runs

| Run | Module, configuration | Threads | Result | Distinct states |
|---|---|---|---|---|
| `hash_single` | `MCExtendibleHash`, `HashSingle.cfg` | 1 | pass | 53,354 |
| `hash_threads` | `MCExtendibleHash`, `HashThreads.cfg` | 2 | pass | 445,743 |
| `hash_race` | `MCExtendibleHash`, `HashRace.cfg` | 2 | `KeyInItsBucket` violated | |
| `hash_stale` | `ExtendibleHashHistory`, `HashStale.cfg` | 2 | `StablePairIsSeen` violated | |
| `lru` | `LRUReplacer`, `LRU.cfg` | 1 | pass | 3,250 |
| `bptree_leaves` | `MCBPlusTree`, `BPlusTreeLeaves.cfg` | 1 | pass | 33,850 |
| `bptree_levels` | `MCBPlusTree`, `BPlusTreeLevels.cfg` | 1 | pass | about 169,000 (under the view) |
| `bptree_threads` | `MCBPlusTree`, `BPlusTreeThreads.cfg` | 2, one of them also scanning | pass | 699,856 |
| `bptree_new_root` | `MCBPlusTree`, `BPlusTreeNewRoot.cfg` | 1 | `RootHasTwoChildren` violated | |
| `bptree_null_leaf` | `MCBPlusTree`, `BPlusTreeNullLeaf.cfg` | 2 | `LeafIsFound` violated | |
| `bptree_latch_cycle` | `MCBPlusTree`, `BPlusTreeLatchCycle.cfg` | 2 | `NoLatchCycle` violated | |
| `bptree_scan` | `MCBPlusTree`, `BPlusTreeScan.cfg` | 2, one of them scanning | `ScanIsIncreasing` violated | |

Every run takes about a minute or less. The single-thread runs let their
thread scan as well, from the first key and from every key. In `bptree_threads` one of the two threads may scan: what a
scan beside a writer keeps is checked there, what it does not keep is the
matter of `bptree_scan`.
Three further configurations of `MCBPlusTree` are not among the runs of
`PROJECT.json`; each ends in a violation within seconds:

| Configuration | Property violated | Shows |
|---|---|---|
| `BPlusTreeUnlatched.cfg` | `ChangesUnderOwnLatch` | finding 5: two threads on a three-level tree |
| `BPlusTreeBeginKey.cfg` | `LoneScanStartsAtKey` | finding 12: `Begin(key)` for a key above every key of its leaf |
| `BPlusTreeSmallPool.cfg` | `OnlyLookupAsserts` | finding 13: a pool of two pages, the root leaf splits |

### Properties

* `ImplementsHashTable` (hash), `Linearizable` (B+ tree) and
  `LeastRecentlyUsed` (LRU) are
  refinements: the detailed specification implements the abstract one under a
  mapping (`INSTANCE ... WITH`). The abstract specifications of the hash table
  and of the index carry each thread's pending call, so an operation may only
  take effect on the key it was called with, between its call and its return.
* `DirectoryConsistent`: the slots of every bucket are exactly the directory
  indices that agree in the bucket's low `localDepth` bits.
* `NumBucketsExact`: `GetNumBuckets` is the number of buckets the directory
  reaches.
* `LockOrder`: mutexes nest only as bucket, then directory.
* `SomeCallCanStep` (hash): whenever calls are in progress, one of them
  waits for no mutex. With `LockOrder` this is what stands for progress in
  the run with two threads, which has no liveness property: an `Insert` that
  kept the mutex of the bucket it has split while it locks the next one
  would wait for itself.
* `KeyInItsBucket`: every pair is in the bucket the directory names for it.
* `StablePairIsSeen`: a `Find` or `Remove` whose key is in the table from the
  call to the answer finds it. A state cannot tell a wrong answer from a
  right one given before another thread's insertion, so the property reads
  the history variable `stable`.
* `ListMatchesMap`: the list walked forward and backward holds exactly the
  values of the map, each once.
* `WellFormedBetweenOperations`: when no Remove is on its way up the tree, the
  pages form a B+ tree (reachability, parent pointers, balance, fill bounds,
  separators, slot-0 convention, leaf chain in key order).
* `OnlyLookupAsserts`: the only assert that fails is `Lookup`'s on a one-child
  root. It is checked on trees of two levels (`bptree_leaves`); on three
  levels the assert of `FreePagesInTransaction` fails with one thread
  (finding 5), and the properties of `bptree_levels` speak of the states in
  which the process lives.
* `CheckAgreesWithWellFormed`: between operations the code's `Check` and the
  invariant `WellFormed` give the same verdict, on the trees every sequence
  of operations within the bounds produces.
* `ChangesUnderOwnLatch` (action property): the keys, children and chain
  pointer of a page do not change while a thread other than the one taking
  the step has the page latched, and the thread that changes a page it has
  latched holds a write latch. The parent pointer is left out: the page moves
  write it in children they have not latched, by design. An iterator's
  leaf is latched by the scanning thread, so the property also says that no
  leaf changes while an iterator reads it.
* `RootChangesUnderRootLatch` (action property): `root_page_id_` changes in
  no step while a thread other than the one taking the step holds the root
  latch. A descent reads `root_page_id_` in one step and fetches that page in
  the next; `StartNewTree`, `InsertIntoParent` and `AdjustRoot`, which also
  write the unlatched header page, must still own the root latch when they
  run.
* `DeletedPageIsUnpinned` (action property): a page that leaves the pool in
  a step has pin count zero after it: `DeletePage` is called for no page that
  an operation of the tree has fetched and not given back, in particular none
  that a thread waits to latch. The page an
  iterator remembers between two leaves is under no latch and is not counted:
  that window is finding 11, shown by `ScanIsIncreasing`.
* `LoneScanYieldsIndex` (action property): a scan that runs alone yields, from
  `Begin()` to its end, the keys of all leaves of the pool, each once and in
  increasing order, and from `Begin(key)`, for a key of the index, the keys
  from that key on. The reference is the set of keys in the leaf pages, not
  the leaf chain: a split or merge that leaves a leaf out of the chain fails
  it.
* `LoneScanStartsAtKey` (action property, `BPlusTreeBeginKey.cfg`): the same
  for every key, in the index or not.
* `PinsAreBalanced`: the pin count of every page is the number of pointers to
  it that the operations in progress hold: the pages of their page sets, the
  page fetched and waiting to be latched, the parents and the sibling a
  `Remove` keeps on its way up. Between operations every count is zero. A
  pin too many on any path of `InsertIntoParent`, `CoalesceOrRedistribute`,
  `Coalesce`, `AdjustRoot` or `FreePagesInTransaction` fails it, at whatever
  level of the recursion, and so does an `UnpinPage` too many.
* `ScanIsIncreasing`: what a scan has yielded so far is strictly increasing,
  whatever other threads do meanwhile.
* `SomeOperationCanStep`: whenever an operation is in progress and the
  process lives, some thread that is in an operation waits for no latch
  (`Holders(t) = {}`), and so can take its next step. This is stronger than
  TLC's deadlock check, because a thread that is not in an operation can
  always call: it also fails when one thread waits for a latch that an
  operation has returned without releasing. On the states of
  `bptree_threads`, `Holders(t) = {}` is the same as `ENABLED Step(t)` for
  every thread in an operation (checked once as an invariant; `ENABLED` makes
  the run five times as long).
* `NoLatchCycle`: no set of threads in which each waits for a latch another
  one of them holds.
* `LeafIsFound`: `FindLeafPage` returns a null pointer only to `GetValue`.
* `RootHasTwoChildren`: what `spec.md` says of a new root.
* `CallReturns` (hash) and `OperationReturns` (B+ tree): every operation
  that has started returns (or the process has ended).
* `TypeOK`, one per detailed module.

Each property of a passing run has a mutant in `PROJECT.json`: a faulty
variant of a mapped definition (defined just before it in the module) under
which the property fails.

### Findings

1. **Hash table, stale bucket in `Insert`** (`extendible_hash.cpp:108`, 144;
   run `hash_race`). The bucket is read from the directory before it is
   locked. With two threads a split in between makes `Insert` store a pair
   where `Find` no longer looks.
2. **Hash table, stale bucket in `Find` and `Remove`**
   (`extendible_hash.cpp:75`, 91; run `hash_stale`). One thread inserts key 1;
   the other calls `Find(1)` and reads the bucket; the first inserts key 0,
   which splits the bucket and moves key 1 to the new one; `Find` locks the
   old bucket and reports key 1 absent.
3. **Hash table, default constructor** (`extendible_hash.cpp:19`). The body
   constructs a temporary; the object itself is left uninitialized.
4. **New root of size one** (`b_plus_tree_internal_page.cpp:119`; run
   `bptree_new_root`). `PopulateNewRoot` increments a size of zero by one
   after writing two slots. The next descent fails `assert(GetSize() > 1)`.
5. **Restructuring outside the latched pages** (`b_plus_tree.cpp:327`;
   configuration `BPlusTreeUnlatched.cfg`). `Coalesce` recurses when the
   parent's size is at most
   its minimum, but a parent with one pair more than the minimum was judged
   safe during the descent and its ancestors were unlatched. There a
   `Remove` changes the root while the other thread's operation holds the
   root's write latch. With one thread the same path ends in the failed
   assert of `FreePagesInTransaction` (line 489), because the page handed
   over for deletion was never latched.
6. **Two Removes wait for each other** (`b_plus_tree.cpp:293`; run
   `bptree_latch_cycle`). A consequence of finding 5 and of
   `FindLeftSibling` taking the right sibling for a leftmost page: one
   `Remove` holds the root and the left internal page and asks for the right
   one, the other has released the root, holds the right internal page and
   asks for the left one.
7. **Null leaf** (`b_plus_tree.cpp:83`, 228; run `bptree_null_leaf`).
   `Insert` gives the root latch back between its `IsEmpty` test and
   `InsertIntoLeaf`, and `Remove` tests `IsEmpty` without the latch. When the
   other thread removes the last key in between, `FindLeafPage` returns a null
   pointer, which both follow.
8. **Scenario S3 of `spec.md`** contradicts both the code and the rule of
   `spec.md` itself: two leaves whose sizes add up to the maximum are merged,
   not redistributed.
9. **`InsertRecord` on every new tree** (`b_plus_tree.cpp:104`).
   `StartNewTree` inserts a header record also when the index had one and was
   emptied; `spec.md` says the record is inserted on first root creation.
10. **`Check` compares separators, not keys** (`b_plus_tree.cpp:663`). For
    an internal page `isPageCorr` hands up the key of slot 0 and the last
    separator; on trees of three levels the root's separators are never
    compared with the keys of the leaves. On the trees the operations produce
    `Check` and `WellFormed` agree.
11. **A scan beside a writer repeats or misses keys** (`b_plus_tree.cpp:347`;
    run `bptree_scan`). `spec.md` promises that the leaf chain followed from
    `begin()` yields keys in strictly increasing order, each live key once,
    and describes an iterator that gives a leaf back before it latches the
    next. In the run the scan has left the leaf `[1,2,3]` when a `Remove` of
    the other thread takes the next leaf below its minimum and
    `Redistribute` moves key 3 into it: the scan yields 3 twice. The same
    window lets `MoveFirstToEndOf` hide a key from the scan and `Coalesce`
    delete the leaf the iterator is about to fetch. The two statements of
    `spec.md` cannot both hold beside writers.
12. **`Begin(key)` past the last pair** (`b_plus_tree.cpp:413`;
    configuration `BPlusTreeBeginKey.cfg`). `Begin(key)` hands the iterator
    the index `KeyIndex` returns without comparing it with the size of the
    leaf. For a key above every key of its leaf the iterator stands on the
    slot past the last pair and yields it: with the index `{1}`, `Begin(2)`
    yields one stale slot. `spec.md` speaks only of keys of the index, for
    which `LoneScanYieldsIndex` holds.
13. **`NewPage` without a test** (`b_plus_tree.cpp:98`, 156, 184;
    configuration `BPlusTreeSmallPool.cfg`). The comments above
    `StartNewTree` and `Split`, and `spec.md`, promise an exception when the
    pool has no page left; the code follows the null pointer. With a pool of
    two pages the process ends after the root leaf has been split and before
    the two halves have a root.
14. **The file drivers repeat their last key** (`b_plus_tree.cpp:570`, 587).
    `while (input) { input >> key; ... }` tests the stream before the read:
    the last key is inserted or removed twice, and an empty file makes one
    call with a key never written.

## 4. Bounds and why they are enough

| Constant | Value | Why |
|---|---|---|
| hash `Keys` / `Hash` | `0..3`, identity | two hash bits: splits by bit 0 and bit 1, buckets shallower than the directory beside buckets as deep as it |
| `bucketSize` | 1 | every insertion into an occupied bucket splits it |
| `MaxDepth` | 3 (one thread), 2 (two threads) | bound on `globalDepth`; with two threads a bucket can be deepened twice before either split runs, so the bound is reached and `OutOfMemory` fires |
| hash `Threads` | 1 or 2 | two threads give every interleaving of two splits, and of a split with any other operation |
| LRU `Values` | 4 values | head, tail, middle and single-element positions all occur |
| `LeafMaxSize`, `InternalMaxSize` | 3 and 4 (`bptree_leaves`), 1 and 4 (`bptree_levels`) | odd leaf and even internal maximum; leaves of one key keep three-level trees within seven keys |
| `PageIds` | 6 and 12 | more pages than any reachable tree uses: exhaustion would end the process and violate `OnlyLookupAsserts`, as it does in `BPlusTreeSmallPool.cfg` |
| `ScanKeys` | every key (`bptree_leaves`, `bptree_levels`), `{3}` (`bptree_threads`), none elsewhere | with one thread `Begin(key)` is tried for every key, in the index or not, on every tree; beside a writer one key in the middle of the seed tree sends the scan to either leaf, depending on what the writer has done |
| `Keys` | `1..6`, `1..7` | keys below, between and above the keys of the seed trees |
| `bptree_threads` | `Keys` `1..5`, `PageIds` `1..5`, sizes 3 and 4, seed of two leaves, `Scanners` one of the two threads | two threads meet in every pair of operations on a tree that splits a leaf, merges and redistributes leaves, grows a root and shrinks to a single leaf and to the empty tree; the scan meets each of them at each of its steps; a sixth key multiplies the number of states by five |
| `bptree_null_leaf` | `Keys` `1..2`, empty seed | one key to remove and one to insert is all the race needs |
| `bptree_scan` | as `bptree_threads`, one thread scanning | a root over two leaves is enough for a key to cross between the leaf left and the leaf to come |
| `bptree_latch_cycle`, `BPlusTreeUnlatched.cfg` | `Keys` `1..6`, `PageIds` `1..10`, sizes 1 and 4, seed of three levels | the smallest tree in which an internal page below the root can coalesce |
| B+ tree `Threads` | 1 or 2 | every race found needs two operations; three threads are out of reach of an exhaustive run |

`hash_threads` and `hash_race` use `VIEW Structure`, which leaves out the
callers' results. `bptree_levels`, `bptree_latch_cycle` and
`BPlusTreeUnlatched.cfg` use `VIEW Canonical`, which renames page ids by
their position in a preorder walk: allocation only needs some unused id, so
trees that differ in page names behave alike. The runs with a scan beside a
writer (`bptree_threads`, `bptree_scan`) do not use it: an iterator may remember
the id of a page that has been deleted, and whether that id is given out
again depends on which ids are free. Views are used only in runs without
liveness properties.

## 5. Fairness

`Fairness == \A t \in Threads : WF_vars(Step(t))`: a thread that has been
called and can take its next step eventually takes it. This is what the
operating system's scheduler and mutexes that are eventually acquired when
they stay free provide. Nothing obliges a caller to call: the call actions are
not fair. The LRU replacer has no liveness property and no fairness.

Liveness (`CallReturns`, `OperationReturns`) is checked with one thread only. With two
threads a step that waits for a latch is enabled and disabled again by the
other thread's steps, so termination would need strong fairness, which neither
`std::mutex` nor the `RWMutex` of the pages promises. What the two-thread runs
check instead are the safety properties that termination rests on:
`SomeCallCanStep`, `SomeOperationCanStep` and `NoLatchCycle`.

Deadlock is checked in every passing run.

## 6. Plan

Done: the hash table (sequential refinement, two-thread invariants, the two
races), the replacer, the B+ tree with one thread (refinement,
well-formedness, the tree's own `Check`, termination, scans from the first
key and from any key, pin counts) and with two
threads (refinement, latch discipline of pages and of the root, deletion of
pages, pin counts, progress, the races on the empty tree and on trees of three levels,
and a scan beside a writer).

Left, in order of importance:

1. **Two threads on three levels** in a passing run. The path of finding 5
   violates the latch properties on every such tree, so the run would have
   to stay clear of internal pages at their minimum size plus one.
2. **Termination with two threads**, under a model of the reader-writer
   latch that says who is served next.
3. **The header page**, once `InsertRecord` for a name that has a record is
   specified.

## 7. Not modelled

* **Buffer pool**: disk I/O, eviction and the dirty flag. Its source is not
  in the repository; the model takes `FetchPage` to find every page of the
  tree and `NewPage` to return an unused id, ends the process when there is
  none, and counts the pins. No page is ever evicted, so a pin that is
  missing shows in `PinsAreBalanced` and not in a page lost.
* **Header page**: `InsertRecord` and `UpdateRecord` are calls into code that
  is not in the repository, and `spec.md` does not say what `InsertRecord`
  does for a name that has a record, which is the case finding 9 is about.
  `UpdateRootPageId` is called next to every assignment to `root_page_id_`
  and nothing in the tree reads the record back, so a variable for it would
  say what the root page id says.
* **Record ids**: a key stands for its pair; the tree never looks into the
  value.
* **The iterator's steps within its leaf**: a scan takes a leaf's keys from
  its index on in one step, the one that leaves the leaf. Changes of a leaf
  while the iterator holds it are excluded by its read latch.
* **`ToString`, `InsertFromFile`, `RemoveFromFile`**: output and file input
  around the operations that are modelled; what the input loop does at the
  end of the file is finding 14.
* **`Insert` and `Remove` without a transaction**: the default argument
  leads straight to `assert(!exclusive && cur >= 0)` in
  `FreePagesInTransaction` (line 473), on every call.
* **Writer preference of the reader-writer latch**: the model lets a reader
  in whenever no writer holds the latch. A latch that holds readers back
  while a writer waits allows fewer behaviours, so the safety properties
  carry over; a reader kept waiting by a waiting writer is a kind of wait
  that `SomeOperationCanStep` and `NoLatchCycle` do not see.
* **Release builds**, in which asserts are compiled out and the paths of
  findings 4, 5 and 7 run on into undefined behaviour.
