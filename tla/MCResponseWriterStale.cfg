SPECIFICATION Spec
CONSTANTS
    HeadSizes = {1, 3}
    BodySizes = {0, 1, 3}
    MaxCuts = 0
    MaxToSend = 8
INVARIANT AllSentIsNoticed
