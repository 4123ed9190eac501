SPECIFICATION FairSpec
CONSTANTS
    Ids = {i1, i2}
    Wallets = {alice}
    Overlapping = {}
    Threads = {t1, t2}
    i1 = i1
    i2 = i2
    alice = alice
    t1 = t1
    t2 = t2
    NoId = NoId
    NoThread = NoThread
    TokenIdTTL = 1
    CheckInterval = 1
    Faults = {}
PROPERTY StampedTimersEnd
