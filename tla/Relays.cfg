SPECIFICATION Spec
CONSTANTS
    LOG <- const_LOG
    Answers <- const_Answers
    Configured <- const_Configured
    START_BLOCK = 1
    SWEEP = 1
    PAGE = 2
    MAX_ATTEMPTS = 2
    MAX_COMPLETED = 1
    MAX_DEAD = 2
    MAX_BLOCK = 1
    MAX_FAULTS = 1
    Cycles = {c1, c2}
    EntityTypes <- const_Types
    THRESHOLD = 3
    EXTENSION = 4
    BATCH = 1
    MAX_ENTRIES = 2
    MAX_RETRIES = 2
    PERIOD = 1
    MAX_FAILURES = 1
    MAX_COUNT = 1
    MAX_LEDGER = 6
    VaultIds <- const_VaultIds
    Chain = "evm"
    INACTIVITY = 6
    RUN_EVERY = 1
    MAX_ABORTS = 1
    AUTHORIZED_UNTIL = 13
    MAX_TIME = 13
    Trackings = {k1}
    Grants = {r1}
    Nonces = {1, 2}
    Devices = {d1, d2}
    TTL = 1
    MAX_CLOCK = 2
    MAX_RESTARTS = 1
    SpGuardians = {11, 12}
    SpVaults = {1}
    CreatorOf <- const_CreatorOf
    VaultOfRequest <- const_Requests
    MAX_COST = 1
    Deposits = {1}
    MAX_OPS_PER_WINDOW = 1
    MAX_VAULT_OPS_PER_WINDOW = 2
    RATE_WINDOW = 2
    MAX_BUNDLE = 2
    MAX_SIGNED = 3
    MAX_DEPOSITS = 2
    MAX_SPTIME = 4
INVARIANTS
    RelayBooksHold
    
    
PROPERTIES
    JobsSettleOnce
CHECK_DEADLOCK FALSE
