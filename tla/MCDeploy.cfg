SPECIFICATION Spec
CONSTANTS
    First = v1
    Upgrades = {u1, u2}
    None = None
    MaxFaults = 2
INVARIANTS CurrentIsReady ServiceMatchesDatabase
PROPERTIES FailureRestores StoppedServiceReturns
