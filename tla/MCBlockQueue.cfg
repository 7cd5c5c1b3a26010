SPECIFICATION FairSpec
CONSTANTS
    Values = {v1, v2}
    NoValue = NoValue
    Consumers = {c1, c2}
    Nobody = Nobody
    MaxSize = 3
INVARIANTS TypeOK RingMatchesSize NobodySleepsOnValues
PROPERTIES ImplementsFifo ValuesAreTaken
