SPECIFICATION Spec
CONSTANTS
    Ids = {i1}
    Wallets = {alice, bob}
    Overlapping = {bob}
    Threads = {t1, t2}
    i1 = i1
    alice = alice
    bob = bob
    t1 = t1
    t2 = t2
    NoId = NoId
    NoThread = NoThread
    TokenIdTTL = 0
    CheckInterval = 0
    Faults = {"crash", "acquire", "delete", "release"}
INVARIANT PoppedIsUntimed
PROPERTY IdsArePooled
SYMMETRY Symmetry
