\* One caller: the table against the dictionary it implements.
SPECIFICATION Spec
CONSTANTS
    Keys <- MCKeys
    Hash <- MCHash
    Values = {v1, v2}
    Threads = {t1}
    bucketSize = 1
    MaxDepth = 3
    NoThread = NoThread
    NotFound = NotFound
PROPERTY ImplementsHashTable
PROPERTY CallReturns
