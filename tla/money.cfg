CONSTANTS
    Wallets = {1, 2, 3}
    Commitments = {c1}
    Rank <- MCRank
    Creator = 1
    Authority = 11
    Vault = 12
    AllowEarlyUpload = FALSE
    MIN_ACTIVE_DURATION_SECS = 1
    MAX_ACTIVE_DURATION_SECS = 1
    MIN_UPLOAD_DURATION_SECS = 1
    MAX_UPLOAD_DURATION_SECS = 1
    DEFAULT_REMEDIATION_WINDOW_SECS = 1
    MAX_REVEALS_PER_BATCH = 2
    MAX_WINNERS_PER_BATCH = 1
    RENT = 3
    MAX_PERMITTED_DATA_INCREASE = 10240
    Payouts = {2, 7, 20}
    WinnerCounts = {1, 2, 3}
    FeeRates = {0, 2500, 9999}
    CreatorFunds = 22
    MaxTime = 3
SPECIFICATION Spec
INVARIANTS
    BooksBalance
    VaultCoversObligations
    SharesInvariant
PROPERTIES
    ImplementsEscrow
