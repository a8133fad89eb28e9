\* Two readers, a writer and the importer, two keys, room for one entry.
SPECIFICATION FairSpec
CONSTANTS
    k1 = k1
    k2 = k2
    Keys <- TwoKeys
    TTL <- MCTTL
    Readers = {r1, r2}
    Writers = {w1}
    MaxEntries = 1
    MaxVersion = 2
PROPERTIES
    EventuallyFresh
INVARIANTS
    TypeOK
    SizeBound
    StaleOnlyByRace
    ReadYourWrites
    HitsAreYoung
