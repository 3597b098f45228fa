SPECIFICATION PlannedSpec
CONSTANTS
    ann = ann
    bob = bob
    cy = cy
    g1 = g1
    e1 = e1
    NoOne = NoOne
    Accounts <- const_Accounts
    SigKeys <- const_Keys
    SigNonces <- const_Nonces
    BlsSigners <- const_Accounts
    FheShares <- const_Fhe
    ShareHolders <- const_None
    Gates <- const_Gates
    Registries <- const_Registry
    Gids <- const_Gids
    EvmSigners <- const_Evm
    Conditions <- const_Conditions
    INVITE_TTL = 1
    REQUEST_TTL = 1
    MAX_VAULTS = 1
    MAX_DOCS = 1
    MAX_REQUESTS = 2
    MAX_TIME = 1
    MAX_NONCE = 2
    MAX_VERSION = 3
INVARIANTS
    ApprovedHasQuorum
CHECK_DEADLOCK FALSE
