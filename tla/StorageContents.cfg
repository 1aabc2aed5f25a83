SPECIFICATION Spec
CONSTANTS
    child = child
    parent = parent
    t1 = t1
    t2 = t2
    x = x
    s = s
    a = a
    Provider = {child, parent}
    Element = {t1, t2, x}
    Name = {a}
    Thread = {p, q}
    NoThread = NoThread
    NoCall = NoCall
    NoElement = NoElement
    NoProvider = NoProvider
    Chain <- MCChain
    KindOf <- MCKindOf
    NameOf <- MCNameOf
    PrimaryOf <- MCPrimaryOf
    Request <- AllRequests
SYMMETRY ThreadSymmetry
INVARIANTS LocksHeld EntryStays WalkedPastNothing SeenIsCurrent
PROPERTIES ImplementsContents
CHECK_DEADLOCK FALSE
