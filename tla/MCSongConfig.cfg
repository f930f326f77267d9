SPECIFICATION Spec
CONSTANTS
    Programs = {"program"}
    Volumes = {}
    Values = {0, 1}
    Default = 0
    MaxVoices = 1
    MaxCalls = 7
    Buttons <- SomeButtons
    MaxMishaps = 1
CHECK_DEADLOCK FALSE
CONSTRAINT FewMishaps
INVARIANTS
    TypeOK
    LocksAgree
    RoundTrip
    CountsAgree
PROPERTIES
    LockHolds
