---------------------------- MODULE ExtendibleHash ----------------------------
(***************************************************************************)
(* The extendible hash table of hash/extendible_hash.cpp: a directory of   *)
(* 2^globalDepth slots, each naming a bucket; buckets that split when they *)
(* overflow; the directory mutex `latch` and one mutex per bucket.         *)
(*                                                                         *)
(* Each thread runs Find, Remove or Insert as the code does, one step per  *)
(* stretch of code between two lock operations or two accesses of shared   *)
(* memory made without a lock:                                             *)
(*                                                                         *)
(*   idle -Call-> readBucket -ReadBucket-> lockBucket -Find/Remove-> idle  *)
(*   lockBucket -Insert-> idle                  (the pair fits, or exists) *)
(*   lockBucket -Insert-> lockDir -LockDirectory-> split -SplitBucket->    *)
(*        getIndex -RetryGetIndex-> readBucket ...        (the while loop) *)
(*                                                                         *)
(* getIndex reads globalDepth under `latch`; the read of buckets[index]    *)
(* that follows it is made with no lock held, and the bucket's latch is    *)
(* taken only afterwards.                                                  *)
(***************************************************************************)
EXTENDS Integers, FiniteSets, Functions, TLC

CONSTANTS
    Keys,        \* keys the callers use
    Values,      \* values they store
    Threads,     \* the calling threads
    Hash,        \* Hash[k]: what std::hash<K> gives for key k
    bucketSize,  \* the constructor's argument: pairs a bucket holds
    MaxDepth,    \* bound: a directory of more than 2^MaxDepth slots cannot be allocated
    NoThread,    \* the owner of a mutex nobody holds
    NotFound     \* Find's answer for an absent key

ASSUME
    /\ Hash \in [Keys -> Nat]
    /\ bucketSize \in Nat \ {0}
    /\ MaxDepth \in Nat
    /\ NoThread \notin Threads

VARIABLES
    buckets,      \* the directory: slot index -> bucket (std::vector<shared_ptr<Bucket>>)
    globalDepth,
    bucketNum,
    latch,        \* holder of the directory mutex
    localDepth,   \* localDepth[b], keyMap[b], bucketLatch[b]: the fields of bucket b
    keyMap,
    bucketLatch,
    pc,           \* where each thread is in its operation
    op,           \* the call a thread is running: [type, key, value]
    curIndex,     \* the locals of Find, Remove and Insert
    cur,
    mask,
    ret,          \* what the thread's last Find or Remove returned
    alive         \* FALSE once an allocation has failed: the process is gone

shared == <<buckets, globalDepth, bucketNum, localDepth, keyMap>>
locals == <<op, curIndex, cur, mask, ret>>
vars   == <<shared, latch, bucketLatch, pc, locals, alive>>

Calls ==
    [type : {"Find", "Remove"}, key : Keys] \cup
    [type : {"Insert"}, key : Keys, value : Values]

Allocated == DOMAIN localDepth          \* the buckets made so far

NoCall == [type |-> "None"]             \* the op of a thread that runs no operation

-----------------------------------------------------------------------------
(* Helpers of the class *)

HashKey(key) == Hash[key]

(* h & m for m a power of two: is that bit of h set? *)
BitSet(h, m) == (h \div m) % 2 = 1

(* HashKey(key) & ((1 << globalDepth) - 1); the caller holds `latch`. *)
getIndex(key) == HashKey(key) % (2 ^ globalDepth)

GetGlobalDepth == globalDepth

GetNumBuckets == bucketNum

GetLocalDepth(bucket_id) ==
    IF keyMap[buckets[bucket_id]] # <<>> THEN localDepth[buckets[bucket_id]] ELSE -1

(* The bucket whose mutex thread t holds through a lock_guard, if any. *)
HeldBy(t) == {b \in Allocated : bucketLatch[b] = t}

Running(t, label) == alive /\ pc[t] = label

Goto(t, label) == pc' = [pc EXCEPT ![t] = label]

(* The operation returns and its locals are gone. *)
Return(t) ==
    /\ Goto(t, "idle")
    /\ op' = [op EXCEPT ![t] = NoCall]
    /\ curIndex' = [curIndex EXCEPT ![t] = 0]
    /\ cur' = [cur EXCEPT ![t] = 0]
    /\ mask' = [mask EXCEPT ![t] = 1]

-----------------------------------------------------------------------------
(* The constructor: one bucket of depth 0 behind a directory of one slot. *)
Init ==
    /\ buckets = [i \in {0} |-> 0]
    /\ globalDepth = 0
    /\ bucketNum = 1
    /\ latch = NoThread
    /\ localDepth = [b \in {0} |-> 0]
    /\ keyMap = [b \in {0} |-> <<>>]
    /\ bucketLatch = [b \in {0} |-> NoThread]
    /\ pc = [t \in Threads |-> "idle"]
    /\ op = [t \in Threads |-> NoCall]
    /\ curIndex = [t \in Threads |-> 0]
    /\ cur = [t \in Threads |-> 0]
    /\ mask = [t \in Threads |-> 1]
    /\ ret = [t \in Threads |-> NotFound]
    /\ alive = TRUE

-----------------------------------------------------------------------------
(* The steps every operation starts with *)

(* A call and its first statement, `index = getIndex(key)`, which takes    *)
(* and drops the directory mutex around the read of globalDepth.           *)
Call(t, call) ==
    /\ Running(t, "idle")
    /\ latch = NoThread
    /\ op' = [op EXCEPT ![t] = call]
    /\ curIndex' = [curIndex EXCEPT ![t] = getIndex(call.key)]
    /\ Goto(t, "readBucket")
    /\ UNCHANGED <<shared, latch, bucketLatch, cur, mask, ret, alive>>

(* Faulty variant: the lock_guard is declared outside the loop, so the old *)
(* bucket stays locked when the next one is read.                          *)
ReadBucketKeepingLatch(t) ==
    /\ Running(t, "readBucket")
    /\ cur' = [cur EXCEPT ![t] = buckets[curIndex[t]]]
    /\ Goto(t, "lockBucket")
    /\ UNCHANGED <<shared, latch, bucketLatch, op, curIndex, mask, ret, alive>>

(* `cur = buckets[index]`, with no lock held.  In Insert's loop this is    *)
(* the last statement of an iteration: the lock_guard of the bucket just   *)
(* split is destroyed right after it.                                      *)
ReadBucket(t) ==
    /\ Running(t, "readBucket")
    /\ cur' = [cur EXCEPT ![t] = buckets[curIndex[t]]]
    /\ bucketLatch' = [b \in Allocated |-> IF b \in HeldBy(t) THEN NoThread ELSE bucketLatch[b]]
    /\ Goto(t, "lockBucket")
    /\ UNCHANGED <<shared, latch, op, curIndex, mask, ret, alive>>

-----------------------------------------------------------------------------
(* Find and Remove: lock the bucket, probe its map, unlock *)

Find(t) ==
    /\ Running(t, "lockBucket")
    /\ op[t].type = "Find"
    /\ bucketLatch[cur[t]] = NoThread
    /\ ret' = [ret EXCEPT ![t] = IF op[t].key \in DOMAIN keyMap[cur[t]]
                                   THEN keyMap[cur[t]][op[t].key]
                                   ELSE NotFound]
    /\ Return(t)
    /\ UNCHANGED <<shared, latch, bucketLatch, alive>>

Remove(t) ==
    /\ Running(t, "lockBucket")
    /\ op[t].type = "Remove"
    /\ bucketLatch[cur[t]] = NoThread
    /\ keyMap' = [keyMap EXCEPT ![cur[t]] = Restrict(@, DOMAIN @ \ {op[t].key})]
    /\ ret' = [ret EXCEPT ![t] = op[t].key \in DOMAIN keyMap[cur[t]]]
    /\ Return(t)
    /\ UNCHANGED <<buckets, globalDepth, bucketNum, localDepth, latch, bucketLatch, alive>>

-----------------------------------------------------------------------------
(* Insert *)

(* The test at the top of the loop: the pair goes in when its key is       *)
(* already there or the bucket has room.                                   *)
Fits(b, key) == key \in DOMAIN keyMap[b] \/ Cardinality(DOMAIN keyMap[b]) < bucketSize

(* keyMap[key] = value *)
Stored(m, key, value) == [k \in DOMAIN m \cup {key} |-> IF k = key THEN value ELSE m[k]]

(* One pass of the loop under the bucket's mutex: store and leave, or      *)
(* note the bit that will tell the two halves apart, deepen the bucket     *)
(* and go for the directory with the bucket still locked.                  *)
Insert(t) ==
    LET b == cur[t] IN
    /\ Running(t, "lockBucket")
    /\ op[t].type = "Insert"
    /\ bucketLatch[b] = NoThread
    /\ \/ /\ Fits(b, op[t].key)
          /\ keyMap' = [keyMap EXCEPT ![b] = Stored(@, op[t].key, op[t].value)]
          /\ Return(t)
          /\ UNCHANGED <<localDepth, bucketLatch>>
       \/ /\ ~Fits(b, op[t].key)
          /\ mask' = [mask EXCEPT ![t] = 2 ^ localDepth[b]]
          /\ localDepth' = [localDepth EXCEPT ![b] = @ + 1]
          /\ bucketLatch' = [bucketLatch EXCEPT ![b] = t]
          /\ Goto(t, "lockDir")
          /\ UNCHANGED <<keyMap, op, curIndex, cur>>
    /\ UNCHANGED <<buckets, globalDepth, bucketNum, latch, ret, alive>>

(* Faulty variant: the split block is entered without gLock. *)
LockDirectoryNever(t) ==
    /\ Running(t, "lockDir")
    /\ Goto(t, "split")
    /\ UNCHANGED <<shared, latch, bucketLatch, locals, alive>>

(* std::lock_guard<std::mutex> gLock(latch), the bucket's mutex held. *)
LockDirectory(t) ==
    /\ Running(t, "lockDir")
    /\ latch = NoThread
    /\ latch' = t
    /\ Goto(t, "split")
    /\ UNCHANGED <<shared, bucketLatch, locals, alive>>

(* The bucket has outgrown the directory. *)
NeedsDoubling(b) == localDepth[b] > globalDepth

(* Faulty variant: the copy loop stops one slot early. *)
DoubledShort(dir) ==
    LET length == Cardinality(DOMAIN dir)
    IN  [i \in 0 .. 2 * length - 2 |-> dir[i % length]]

(* Every slot pushed again at the end: slot i + length names what slot i names. *)
Doubled(dir) ==
    LET length == Cardinality(DOMAIN dir)
    IN  [i \in 0 .. 2 * length - 1 |-> dir[i % length]]

(* Faulty variant: the mask is taken after localDepth++, one bit too high. *)
MovedKeysNextBit(b, m) == {k \in DOMAIN keyMap[b] : BitSet(HashKey(k), 2 * m)}

(* The pairs of bucket b that move to the new bucket. *)
MovedKeys(b, m) == {k \in DOMAIN keyMap[b] : BitSet(HashKey(k), m)}

(* Faulty variants: the rewiring loop without `buckets[i] == cur`, and     *)
(* without `i & mask`.                                                     *)
RewiredAnyBucket(dir, b, m, newBucket) ==
    [i \in DOMAIN dir |-> IF BitSet(i, m) THEN newBucket ELSE dir[i]]

RewiredAnySlot(dir, b, m, newBucket) ==
    [i \in DOMAIN dir |-> IF dir[i] = b THEN newBucket ELSE dir[i]]

(* The slots of b whose index has the bit set now name the new bucket. *)
Rewired(dir, b, m, newBucket) ==
    [i \in DOMAIN dir |-> IF dir[i] = b /\ BitSet(i, m) THEN newBucket ELSE dir[i]]

(* The block under the directory mutex: double the directory if the bucket *)
(* is deeper than it, make the new bucket, move the pairs whose hash has   *)
(* the mask bit, and point the bucket's slots with that bit at the new one.*)
SplitBucket(t) ==
    LET b         == cur[t]
        dir       == IF NeedsDoubling(b) THEN Doubled(buckets) ELSE buckets
        newBucket == bucketNum
        moved     == MovedKeys(b, mask[t])
    IN  /\ Running(t, "split")
        /\ NeedsDoubling(b) => globalDepth < MaxDepth
        /\ globalDepth' = IF NeedsDoubling(b) THEN globalDepth + 1 ELSE globalDepth
        /\ bucketNum' = bucketNum + 1
        /\ localDepth' = localDepth @@ (newBucket :> localDepth[b])
        /\ keyMap' = [keyMap EXCEPT ![b] = Restrict(@, DOMAIN @ \ moved)]
                        @@ (newBucket :> Restrict(keyMap[b], moved))
        /\ bucketLatch' = bucketLatch @@ (newBucket :> NoThread)
        /\ buckets' = Rewired(dir, b, mask[t], newBucket)
        /\ latch' = NoThread
        /\ Goto(t, "getIndex")
        /\ UNCHANGED <<locals, alive>>

(* buckets.push_back cannot get the memory for a directory deeper than     *)
(* MaxDepth: the exception is caught nowhere and ends the process.         *)
OutOfMemory(t) ==
    /\ Running(t, "split")
    /\ NeedsDoubling(cur[t])
    /\ globalDepth = MaxDepth
    /\ alive' = FALSE
    /\ UNCHANGED <<shared, latch, bucketLatch, pc, locals>>

(* Faulty variant: the loop goes round without computing the index anew. *)
RetryStaleIndex(t) ==
    /\ Running(t, "getIndex")
    /\ latch = NoThread
    /\ Goto(t, "readBucket")
    /\ UNCHANGED <<shared, latch, bucketLatch, locals, alive>>

(* `curIndex = getIndex(key)` at the bottom of the loop, the old bucket's  *)
(* mutex still held.                                                       *)
RetryGetIndex(t) ==
    /\ Running(t, "getIndex")
    /\ latch = NoThread
    /\ curIndex' = [curIndex EXCEPT ![t] = getIndex(op[t].key)]
    /\ Goto(t, "readBucket")
    /\ UNCHANGED <<shared, latch, bucketLatch, op, cur, mask, ret, alive>>

-----------------------------------------------------------------------------

(* What a thread does once it has been called. *)
Step(t) ==
    \/ ReadBucket(t)
    \/ Find(t)
    \/ Remove(t)
    \/ Insert(t)
    \/ LockDirectory(t)
    \/ SplitBucket(t)
    \/ OutOfMemory(t)
    \/ RetryGetIndex(t)

(* Nothing runs in a process that has died. *)
Halted == ~alive /\ UNCHANGED vars

Next ==
    \/ \E t \in Threads : (\E call \in Calls : Call(t, call)) \/ Step(t)
    \/ Halted

(* A thread that can take its next step takes it: the scheduler runs every *)
(* runnable thread, and a mutex that stays free is acquired.  Nothing      *)
(* obliges the callers to call.                                            *)
Fairness == \A t \in Threads : WF_vars(Step(t))

Spec == Init /\ [][Next]_vars /\ Fairness

-----------------------------------------------------------------------------
(* Properties *)

(* What the directory, the buckets and the mutexes are, without the        *)
(* callers' results: the state the structural invariants are about.        *)
Structure == <<shared, latch, bucketLatch, pc, op, curIndex, cur, mask, alive>>

Depths == 0 .. MaxDepth + 1

TypeOK ==
    /\ globalDepth \in 0 .. MaxDepth
    /\ bucketNum \in Nat \ {0}
    /\ buckets \in [0 .. 2 ^ globalDepth - 1 -> Allocated]
    /\ latch \in Threads \cup {NoThread}
    /\ localDepth \in [Allocated -> Depths]
    /\ DOMAIN keyMap = Allocated
    /\ \A b \in Allocated : \E present \in SUBSET Keys : keyMap[b] \in [present -> Values]
    /\ bucketLatch \in [Allocated -> Threads \cup {NoThread}]
    /\ pc \in [Threads -> {"idle", "readBucket", "lockBucket", "lockDir", "split", "getIndex"}]
    /\ op \in [Threads -> Calls \cup {NoCall}]
    /\ curIndex \in [Threads -> Nat]
    /\ cur \in [Threads -> Allocated]
    /\ mask \in [Threads -> {2 ^ d : d \in Depths}]
    /\ ret \in [Threads -> Values \cup {NotFound} \cup BOOLEAN]
    /\ alive \in BOOLEAN

(* The table as Find sees it: for each key, what the bucket behind the     *)
(* key's directory slot holds for it.                                      *)
Contents ==
    LET home(k) == keyMap[buckets[getIndex(k)]]
    IN  [k \in {x \in Keys : x \in DOMAIN home(x)} |-> home(k)[k]]

Table == INSTANCE HashTable WITH table <- Contents, call <- op

(* Every step of Find, Remove and Insert, directory doubling and bucket    *)
(* splits included, is the step of a plain dictionary that the caller's    *)
(* own operation makes on its own key, or leaves the dictionary as it is:  *)
(* Insert(k, v) then Find(k) gives v, Remove(k) then                       *)
(* Find(k) finds nothing, and a split loses, duplicates or changes no pair *)
(* (Find, Remove, Insert and the rehash loop of Insert).                   *)
ImplementsHashTable == Table!Spec

(* A pair is stored in the bucket the directory names for its key: "for    *)
(* any key k, directory[hash(k) mod 2^G] is the unique bucket that may     *)
(* contain k".  Insert stores into the bucket it read before locking it.   *)
KeyInItsBucket ==
    \A b \in Allocated : \A k \in DOMAIN keyMap[b] : buckets[getIndex(k)] = b

(* A bucket between `localDepth++` and the block that splits it. *)
Splitting(b) == \E t \in Threads : pc[t] \in {"lockDir", "split"} /\ cur[t] = b

(* The directory slots of a bucket are exactly the indices that agree in   *)
(* the bucket's low localDepth bits, and no bucket is deeper than the      *)
(* directory; for a bucket whose split is under way, the depth it had      *)
(* before.  Doubling copies slots and the rewiring loop of Insert picks    *)
(* slots by one bit: between them they must keep every bucket's slots a    *)
(* residue class, whatever order two threads split in.                     *)
DirectoryConsistent ==
    \A b \in Allocated :
        LET depth == IF Splitting(b) THEN localDepth[b] - 1 ELSE localDepth[b]
            slots == {i \in DOMAIN buckets : buckets[i] = b}
        IN  /\ depth <= globalDepth
            /\ \E sig \in 0 .. 2 ^ depth - 1 :
                   slots = {i \in DOMAIN buckets : i % (2 ^ depth) = sig}

(* GetNumBuckets counts the buckets the directory reaches: every bucket    *)
(* made by a split is wired into the directory by the same split, and none *)
(* is ever dropped from it (bucketNum++ and the rewiring loop of Insert).  *)
NumBucketsExact == GetNumBuckets = Cardinality(Range(buckets))

(* The only nesting of mutexes is bucket then directory: a thread that     *)
(* waits for a bucket's mutex holds no mutex at all, and a thread holds    *)
(* the directory mutex only inside the split block.  Insert's loop keeps   *)
(* the old bucket locked through getIndex and must drop it before it       *)
(* locks the next one.                                                     *)
LockOrder ==
    \A t \in Threads :
        /\ pc[t] \in {"idle", "lockBucket"} => HeldBy(t) = {}
        /\ latch = t <=> pc[t] = "split"
        /\ Cardinality(HeldBy(t)) <= 1

(* Thread t is in an operation and waits for a mutex another thread holds. *)
Blocked(t) ==
    \/ pc[t] \in {"lockDir", "getIndex"} /\ latch # NoThread
    \/ pc[t] = "lockBucket" /\ bucketLatch[cur[t]] # NoThread

(* Whenever operations are in progress, one of them can take its next      *)
(* step: no thread waits for a mutex that an operation in progress will    *)
(* not give back, its own included.  Insert holds the mutex of the bucket  *)
(* it has split through getIndex and the read of the next bucket, which    *)
(* may be the same bucket, and takes the directory mutex under it, while   *)
(* Find, Remove and getIndex of other threads take one or the other.       *)
SomeCallCanStep ==
    alive /\ (\E t \in Threads : pc[t] # "idle")
        => \E t \in Threads : pc[t] # "idle" /\ ~Blocked(t)

(* An operation that has started returns: the loop of Insert ends, because *)
(* every split separates the keys of the bucket by one more bit of their   *)
(* hashes and distinct keys have distinct hashes.                          *)
CallReturns == \A t \in Threads : pc[t] # "idle" ~> pc[t] = "idle"

=============================================================================
