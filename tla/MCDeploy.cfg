CONSTANTS
    NumRanks = 3
    Numel <- MCNumel
    Jobs <- MCJobs
    TagUB = 24
    Hash <- MCHash
    MaxFetches = 2
SPECIFICATION Spec
INVARIANTS
    TagsAgree
    BroadcastsMatch
    ParamsWhole
    NeverStuck
