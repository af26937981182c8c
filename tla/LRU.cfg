\* The linked list against the queue it implements.
SPECIFICATION Spec
CONSTANTS
    Values = {a, b, c, d}
    head = head
    tail = tail
    Null = Null
    None = None
INVARIANT TypeOK
INVARIANT ListMatchesMap
PROPERTY LeastRecentlyUsed
