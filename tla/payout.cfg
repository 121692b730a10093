CONSTANTS
    Payees <- NinePayees
    Authority = 11
    RENT = 6
    MAX_WINNERS_PER_BATCH = 2
    WinnerCounts = {1, 3, 9}
    Totals = {3, 20, 80}
    FeeRates = {2500}
    Fragile = {9, 11}
SPECIFICATION FairSpec
INVARIANTS
    PayoutInvariant
    BitmapIsPayments
    UnpaidWinnerIsPayable
    OnlyListedWinnersVerify
PROPERTIES
    PaysAsEscrow
    CreditableWinnerIsPaid
    SettledOnceAllCreditable
