SPECIFICATION ServicesSpec
CONSTANTS
    Tabs = {t1, t2}
    Acts = {"a1"}
    KindsOf <- const_KindsOf
    BACKGROUND_SYNC = TRUE
    MAX_OFFLINE_FAULTS = 1
    MAX_RECORDS = 2
    Queries = {q1, q2}
    Providers <- const_Providers
    BLOCK_OF <- const_BLOCK_OF
    MAX_BLOCK = 4
    FROM_BLOCK = 2
    CHUNK = 2
    LAG = 1
    AccessKeys = {"k1"}
    VaultKeys = {"v1"}
    TTL_TICKS = 2
    FLIGHT = 1
    Supported = {"approveAccessDelegated", "setEmergencyMode", "configureVaultRelease", "proveLife",
                 "setBeneficiary", "authorizeKeeperBySig", "revokeKeeper", "proveLifeByKeeper", "revokeDelegation"}
    MAX_FETCHES = 2
    MAX_WRITES = 1
    MAX_NOW = 3
    Users = {"u1", "u2"}
    MAX_VAULTS = 1
    MAX_TOKENS = 2
    MAX_DOCS = 1
    MAX_REQUESTS = 2
    SCAN_DEPTH = 2
    MAX_LOG = 5
    Accounts = {"a1"}
    Chains = {"avalanche", "stellar"}
    MAX_SWITCHES = 3
    Pages = {"/", "/vaults"}
    Assets = {"app.js"}
    Cids = {"cid"}
    MAX_DEPLOYS = 2
    KTabs = {t1, t2}
    p = p
    q = q
    Pins = {p, q}
    RATE_LIMIT = 1
    MAX_OPS = 2
    MAX_KR_FAULTS = 1
    LockAccounts = {"a", "b"}
    MAX_MANAGERS = 4
    Payloads = {"x", "y"}
    POOL_SIZE = 2
    MAX_CALLS = 3
    MAY_TERMINATE = TRUE
    Docs = {1}
    INBOX_LIMIT = 2
    MAX_PINS = 2
    MAX_ASKED = 1
    MAX_KEYPAIRS = 2
    RTabs = {"t1", "t2"}
    Envelopes = {"e1", "e2"}
    MAX_RKEYS = 4
INVARIANTS SyncedMeansDone StalenessBounded 
      HelpersStayMatched
PROPERTY CacheIsMirror
CHECK_DEADLOCK FALSE
