CONSTANTS
    NumRanks = 3
    Numel <- MCNumel
    Jobs <- BufferJobs
    TagUB = 24
    Hash <- MCHash
    MaxFetches = 2
SPECIFICATION Spec
INVARIANT
    BuffersDeployed
