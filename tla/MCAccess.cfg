CONSTANTS
    Choices <- MCChoices
    Hand <- MCHand
    Firewalls <- MCFirewalls
    Absent = Absent
SPECIFICATION Spec
INVARIANTS
    DeployedStarts
    ReadersAgree
    BindingSeen
    ExposureWarned
