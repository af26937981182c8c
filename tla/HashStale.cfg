\* Two callers: does Find or Remove see a pair that stays in the table during the call?
SPECIFICATION SpecH
CONSTANTS
    Keys <- MCKeys
    Hash <- MCHash
    Values = {v1}
    Threads = {t1, t2}
    bucketSize = 1
    MaxDepth = 2
    NoThread = NoThread
    NotFound = NotFound
PROPERTY StablePairIsSeen
