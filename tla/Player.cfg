SPECIFICATION FairSpec
CONSTANTS
    Linux = TRUE
    MaxLikes = 2
    MaxSyncs = 2
    MaxSeeks = 1
INVARIANTS TypeOK SetOnce HeartIsRepaired
PROPERTIES PauseIsObeyed ErrorPagePasses
