SPECIFICATION Spec
CONSTANTS
    p = p
    q = q
    h1 = h1
    h2 = h2
    h3 = h3
    main = main
    release = release
    t1 = t1
    t2 = t2
    Nothing = Nothing
    Prs = {p, q}
    Heads = {h1, h2, h3}
    Bases = {main, release}
    Texts = {t1, t2}
    Shape <- MCShape
    TooLarge = {h3}
    Supported = {main}
    MaxChanges = 2
    MaxReads = 2
INVARIANT OnlyMovedIsChanged AloneOnItsHead
PROPERTY ImplementsAtomicSnapshot
