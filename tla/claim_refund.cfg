CONSTANTS
    Wallets = {1}
    Commitments = {c1}
    Rank <- MCRank
    Creator = 10
    Authority = 11
    Vault = 12
    AllowEarlyUpload = FALSE
    MIN_ACTIVE_DURATION_SECS = 1
    MAX_ACTIVE_DURATION_SECS = 2
    MIN_UPLOAD_DURATION_SECS = 1
    MAX_UPLOAD_DURATION_SECS = 2
    DEFAULT_REMEDIATION_WINDOW_SECS = 1
    MAX_REVEALS_PER_BATCH = 2
    MAX_WINNERS_PER_BATCH = 2
    RENT = 1
    MAX_PERMITTED_DATA_INCREASE = 10240
    Payouts = {400}
    WinnerCounts = {1, 400}
    FeeRates = {0}
    CreatorFunds = 401
    MaxTime = 3
SPECIFICATION FairSpec
PROPERTY EmptyGiveawayIsRefunded
