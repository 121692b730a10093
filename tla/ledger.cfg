CONSTANTS
    Wallets = {1, 2, 3, 4}
    Commitments = {c1, c2}
    Rank <- SeedGivesRank
    Targets = {0, 1, 2, 3}
SPECIFICATION LedgerSpec
INVARIANTS
    CandidatesAreBestSeen
CHECK_DEADLOCK FALSE
