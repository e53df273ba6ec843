SPECIFICATION WatchSpec
CONSTANTS
    f = f
    g = g
    a = a
    b = b
    Absent = Absent
    NoImport = NoImport
    Files = {f, g}
    Texts = {a, b}
    Drafts = {}
    MaxWrites = 3
    MaxWatchFaults = 0
SYMMETRY Symmetry
INVARIANTS
    TwinsVisible
