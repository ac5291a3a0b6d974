SPECIFICATION Spec
CONSTANTS
    Vims = {v1, v2}
    Spellings = {{t1, T1}, {t2}}
    Files = {f1, f2}
    v1 = v1
    v2 = v2
    t1 = t1
    T1 = T1
    t2 = t2
    f1 = f1
    f2 = f2
INVARIANTS
    TypeOK
    TagHonest
    NothingStale
