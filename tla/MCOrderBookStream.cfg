CONSTANTS
    o1 = o1  o2 = o2
    Offers = {o1, o2}
    Amounts = {1}
    offerCompactionWindow = 2
    MaxLedger = 5
    MaxBuilds = 2
    MaxFaults = 1
SPECIFICATION FairSpec
INVARIANTS TypeOK GraphIsLedger TableHoldsUpdates
PROPERTY StreamHeals
