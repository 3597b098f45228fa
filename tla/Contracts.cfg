SPECIFICATION ContractsSpec
CONSTANTS
    ann = ann
    bob = bob
    cy = cy
    v1 = v1
    v2 = v2
    h1 = h1
    h2 = h2
    k1 = k1
    k2 = k2
    e1 = e1
    e2 = e2
    d1 = d1
    NoOne = NoOne
    NoVault = NoVault
    Accounts <- const_Accounts
    Vaults <- const_Vaults
    MAX_TOKENS = 3
    Addresses <- const_People
    Hashes <- const_Hashes
    Deployed = h1
    SchemaOf <- const_SchemaOf
    MAX_CALLS = 5
    EmptyKey = EmptyKey
    None = None
    Users <- const_Users
    Keys <- const_Keys
    EvmAddresses <- const_Evm
    Members <- const_People
    NoMember = NoMember
    Subjects <- const_Subjects
    Explored <- const_Explored
    Creations <- const_Creations
    Durations <- const_Durations
    MIN_DURATION = 1
    MAX_DURATION = 7
    TIMELOCK_DELAY = 1
    PROPOSAL_TTL = 2
    INVITE_TTL = 2
    MAX_TIME = 4
    MAX_EPOCH = 2
    EvmAccounts <- const_People
    ZeroAddress = ZeroAddress
    Docs <- const_Docs
    Creator = ann
    Invited <- const_Invited
    Holders <- const_Holders
    Delegators <- const_Signers
    Targets <- const_Targets
    BlsSigners <- const_Signers
    Nonces <- const_Nonces
    Toggles <- const_Toggles
    REQUEST_TTL = 1
    MAX_PASSES = 2
    MAX_REQUESTS = 1
    MAX_TIMESTAMP = 2
    MAX_VERSION = 2
INVARIANTS
    BalancesCountTokens
    CouncilKeepsItsRules
    PassBooksBalance
PROPERTIES
    BurnedForGood
    UpgradesAreVoted
    RevocationOfKeysHolds
    EvmStepsAreSafe
CHECK_DEADLOCK FALSE
