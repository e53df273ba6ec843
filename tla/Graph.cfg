\* Two nodes, new entities and links to them, two mentions, one fault; or three
\* nodes with the rows and links of two entities and one mention each, so that
\* one node may pull while the hub commits what another one has pushed.  Pages
\* of one record, so that a page ends between links with the same stamp.  The
\* sync threads never stop, so there is no deadlock.
CONSTANTS
    a = a
    b = b
    k = k
    l = l
    Nodes = {n1, n2, n3}
    NoNode = NoNode
    Targets = {1, 2, 3}
    Entities = {1, 2}
    Aliases = {a, b}
    Kinds = {k, l}
    NoKind = NoKind
    PageSize = 1
    Facts <- AllViews
    MaxWrites = 3
    MaxFaults = 1
SPECIFICATION MCSpec
SYMMETRY Symmetry
INVARIANTS MentionsKept OfferedIsHeld
