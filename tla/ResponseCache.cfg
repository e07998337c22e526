SPECIFICATION Spec
CONSTANTS
    r1 = r1
    r2 = r2
    r3 = r3
    k1 = k1
    k2 = k2
    None = None
    Requests = {r1, r2, r3}
    Keys = {k1, k2}
    EmptyKey = k1
    MaxEntries = 1
    Ttls = {0, 1}
    Storages = {"memory", "remote"}
    MaxTime = 1
    MaxVersion = 1
SYMMETRY Symmetric
INVARIANTS
    TypeOK
    OneFetchPerKey
PROPERTIES
    CapacityHeld
    NoNeedlessFetch
    HitsAreFresh
    NeverBack
    KeepsFlights
