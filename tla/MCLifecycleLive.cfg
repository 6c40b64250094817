SPECIFICATION FairSpec
CONSTANTS
    Apps = {a1}
    Requests = {r1, r2}
    None = None
    Initial = Initial
PROPERTIES EveryRequestEnds
