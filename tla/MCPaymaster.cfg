CONSTANTS
    patron = patron client = client miner = miner s1 = s1 s2 = s2 c1 = c1 c2 = c2
    Paymasters = {patron}
    Senders = {client}
    Amounts = {1, 2}
    GasLimits = {2, 4}
    Gas = {1, 2}
    Lifetimes = {1, 2}
    MaxVouchers = 2
    MaxGas = 2
    MaxHeight = 3
    MaxBalance = 3
    MaxUses = 3
    MinActive <- MCMinActive
    Addresses = {patron, miner}
    Miner = miner
    Payers = {patron}
    Credits = {1}
    FeeAmounts = {2}
    Rates = {1}
    RentStates = {s1, s2}
    CollectEvery = 2
    MinerShare = 600
    Calls = {c1, c2}
    MaxIssued = 2
    MaxRecords = 3
    MaxCollections = 2
SPECIFICATION SponsorSpec
SYMMETRY EconomySymmetry
CHECK_DEADLOCK FALSE
INVARIANTS SponsorshipsAddUp
PROPERTIES EndedVouchersStay EconomyAddsUp
