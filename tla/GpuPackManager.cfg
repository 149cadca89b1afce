SPECIFICATION Spec
CONSTANTS
    None = None
    Servers = {a}
    Installed = {ka, kc}
    a = a
    b = b
    ka = ka
    kb = kb
    kc = kc
    Procs = {a, b}
    Packs = {ka, kb, kc}
    PackOf <- TwoVersions
    Chunks = 2
    MaxFaults = 1
INVARIANTS
    TypeOK
    OneMutator
    TransfersDoNotMix
PROPERTY
    PacksArePublishedWhole
CHECK_DEADLOCK FALSE
