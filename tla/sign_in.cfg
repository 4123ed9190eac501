SPECIFICATION FairSpec
CONSTANTS
    desktop = desktop
    phone = phone
    Pages = {desktop, phone}
    Devices = {desktop, phone}
    DeviceOf <- Alone
    MaxPairs = 2
    Reloaded = {desktop}
    MaxRequests = 2
    Nothing = Nothing
INVARIANTS TypeOK ShownIsHeld 
PROPERTIES DeadSessionEnds
