SPECIFICATION Spec
CONSTANTS
    Apps = {a1}
    Requests = {r1, r2, r3}
    None = None
    Initial = Initial
SYMMETRY RequestSymmetry
INVARIANTS ActionRowCurrent CheckingIsExplained
PROPERTIES SuccessIsConfirmed SerialSpec
