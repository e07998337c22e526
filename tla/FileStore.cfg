SPECIFICATION Spec
CONSTANTS
    c1 = c1
    c2 = c2
    k1 = k1
    k2 = k2
    short = short
    long = long
    Absent = Absent
    Empty = Empty
    Torn = Torn
    None = None
    Calls = {c1, c2}
    Keys = {k1, k2}
    Values = {short, long}
    Long = {long}
    Ttls = {0, 1}
    MaxTime = 2
SYMMETRY Symmetric
INVARIANTS
    TypeOK
    AtRestWhole
    SweepsThorough
PROPERTIES
    LiveEntriesStay
