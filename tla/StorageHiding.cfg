SPECIFICATION Spec
CONSTANTS
    child = child
    parent = parent
    t1 = t1
    t2 = t2
    x = x
    s = s
    a = a
    Provider = {child, parent}
    Element = {t1, t2}
    Name = {a}
    Thread = {p, q}
    NoThread = NoThread
    NoCall = NoCall
    NoElement = NoElement
    NoProvider = NoProvider
    Chain <- MCChain
    KindOf <- MCKindOf
    NameOf <- MCNameOf
    PrimaryOf <- MCPrimaryOf
    Request <- AddRequests
PROPERTIES HidesOnlyByPut
