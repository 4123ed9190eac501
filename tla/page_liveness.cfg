SPECIFICATION Spec
CONSTANTS
    me = me
    other = other
    FirstOwners = {other}
    Openers = {"placeOrder"}
    Entries = {"at once"}
    MaxDeals = 1
    MaxLag = 1
    MaxChannel = 1
    MaxRequests = 2
    Nothing = Nothing
PROPERTIES LoadingEnds PageCatchesUp
