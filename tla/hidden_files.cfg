SPECIFICATION Spec
CONSTANTS
    alice = alice
    bob = bob
    carol = carol
    Users = {alice, bob, carol}
    Minters = {alice}
    Dishonest = {bob}
    Chains = {home, other}
    Home = home
    MaxDeals = 2
    MaxLag = 2
    Junk = Junk
    Nothing = Nothing
INVARIANTS TypeOK TransferKeyIsItsOwn DeliveredIsReadable
