SPECIFICATION Spec
CONSTANTS
    me = me
    other = other
    FirstOwners = {me, other}
    Openers = {"placeOrder", "initTransfer"}
    Entries = {"another token"}
    MaxDeals = 1
    MaxLag = 1
    MaxChannel = 1
    MaxRequests = 2
    Nothing = Nothing
INVARIANTS TypeOK ButtonsWait 
PROPERTIES AnswerIsOfThisToken
