SPECIFICATION FairSpec
CONSTANTS
    alice = alice
    bob = bob
    Users = {alice, bob}
    Minters = {alice}
    MaxBlocks = 6
    MaxOther = 1
    MaxUnsaved = 2
    Undecodable = {5}
    ZeroAddress = ZeroAddress
    Nothing = Nothing
INVARIANTS TypeOK TablesAreOfOneBlock LikesAreNotLost ToldIsCurrent
PROPERTIES FollowsTheChain CatchesUp
