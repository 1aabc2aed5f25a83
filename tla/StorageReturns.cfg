SPECIFICATION MCSpec
CONSTANTS
    child = child
    parent = parent
    t1 = t1
    t2 = t2
    x = x
    s = s
    a = a
    Provider = {child, parent}
    Element = {t1, t2, s}
    Name = {a}
    Thread = {p, q}
    NoThread = NoThread
    NoCall = NoCall
    NoElement = NoElement
    NoProvider = NoProvider
    Chain <- MCChain
    KindOf <- MCKindOf
    NameOf <- MCNameOf
    PrimaryOf <- MCPrimaryOf
    Request <- ReturnRequests
INVARIANTS HeldIsOwned
PROPERTIES EveryCallReturns
CHECK_DEADLOCK FALSE
CONSTANT Budget = 2
