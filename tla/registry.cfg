CONSTANTS
    Authority = authority
    Creators = {c1, c2}
    Wallets = {w1, w2}
    Commitments = {h1}
    RENT = 1
    Payouts = {5}
    WinnerCounts = {2}
    FeeRates = {0, 4000}
    CreatorFunds = 12
    MaxGiveaways = 2
    MaxEntries = 2
SYMMETRY Interchangeable
SPECIFICATION Spec
INVARIANTS
    IdsAreSequential
    VaultsFollowTheirLedgers
    AccountsBalance
    WinnersTookPart
    LedgersInvariant
    EscrowsInvariant
    AttestationsAreReceipted
    ReceiptInvariant
    CountsAreOfOwnEntries
PROPERTIES
    GiveawaysAreSeparateEscrows
