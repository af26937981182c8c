\* Two callers: is every pair in the bucket the directory names for its key?
SPECIFICATION Spec
CONSTANTS
    Keys <- MCKeys
    Hash <- MCHash
    Values = {v1}
    Threads = {t1, t2}
    bucketSize = 1
    MaxDepth = 2
    NoThread = NoThread
    NotFound = NotFound
INVARIANT KeyInItsBucket
VIEW Structure
