SPECIFICATION FairSpec
CONSTANTS
    HeadSizes = {1, 3, 4}
    BodySizes = {0, 1, 3}
    MaxCuts = 2
    MaxToSend = 12
INVARIANTS TypeOK WirePrefix OffersTheRest
PROPERTY WriteReturns
