SPECIFICATION Spec
CONSTANTS
    Programs = {}
    Volumes = {"volume"}
    Values = {0, 1}
    Default = 0
    MaxVoices = 1
    MaxCalls = 3
    Buttons <- VoiceButtons
    MaxMishaps = 1
CHECK_DEADLOCK FALSE
CONSTRAINT FewMishaps
INVARIANT VoicesTold
