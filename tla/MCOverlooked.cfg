SPECIFICATION Spec
CONSTANTS
    base = base
    a = a
    b = b
    c = c
    sub = sub
    deep = deep
    void = void
    long = long
    inner = inner
    outer = outer
    pipe = pipe
    outside = outside
    Node <- AllNodes
    Base = base
    Parent <- TreeParent
    Kind <- TreeKind
    Link <- TreeLink
INVARIANTS ScanErrorsTell
CHECK_DEADLOCK FALSE
