CONSTANTS
    alice = alice
    carol = carol
    dave = dave
    erin = erin
    btc = btc
    usd = usd
    Wallets = {alice, carol, dave}
    Mints = {btc, usd}
    MaxShare = 1
    NoCap = 9
    Scenarios <- MCScenarios
    MaxSupplied = 1
SPECIFICATION Spec
VIEW AccountsOnly
CHECK_DEADLOCK FALSE
INVARIANTS
    VaultsCoverBooks
    BooksMatchPositions
    WhitelistCountMatches
    ClientTxAccepted
PROPERTY OnlyTheEntitled
