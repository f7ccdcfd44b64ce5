SPECIFICATION Spec
CONSTANTS
    Configs <- MCSignature
    Answers <- MCSigned
    MaxSwitches = 0
INVARIANT SignatureReachesClient
