SPECIFICATION FairSpec
CONSTANTS
    Settings <- AllSettings
    Modes <- BothModes
    Faults <- AllFaults
PROPERTY SetupFinishes
PROPERTY LinkGetsAddress
PROPERTY LedsFollowLink
