SPECIFICATION Spec
CONSTANTS
    Ids = {i1, i2}
    Wallets = {alice}
    Overlapping = {}
    Threads = {t1}
    i1 = i1
    i2 = i2
    alice = alice
    t1 = t1
    NoId = NoId
    NoThread = NoThread
    TokenIdTTL = 1
    CheckInterval = 1
    Faults = {"crash", "acquire", "delete", "release"}
INVARIANTS TypeOK WalletKeepsOne
SYMMETRY Symmetry
