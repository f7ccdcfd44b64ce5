SPECIFICATION Spec
CONSTANTS
    Configs <- MCConfigs
    Answers <- MCAnswers
    MaxSwitches = 1
INVARIANT TypeOK
INVARIANT WellFormed
INVARIANT SameAsNonStreaming
INVARIANT HonestEnding
INVARIANT CommitMatchesClient
INVARIANT AliasHidden

