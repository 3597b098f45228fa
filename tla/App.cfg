SPECIFICATION AppSpec
CONSTANTS
    FreighterAccounts = {"f1", "f2"}
    NoAccount = "none"
    MAX_POLLS = 2
    MAX_ACCOUNT_SWITCHES = 2
    MAX_TX = 1
    MAX_SESSIONS = 2
    Users = {"a", "b", "c"}
    MAX_LVAULTS = 1
    MAX_LDOCS = 1
    MAX_LREQUESTS = 2
    CONFIRMATION = 1
    BASE_DELAY = 1
    JITTERS = {0, 1}
    LVTabs = {"t1", "t2"}
    MAX_LCLOCK = 4
    MAX_CYCLES = 2
    Hashes = {"h1", "h2"}
    Backups = {"j1", "j2"}
    Readers = {"r1"}
    Synthetic = {"s1"}
    MAX_EVENTS = 2
    BATCH_SIZE = 2
    MAX_STARTS = 2
    DAccounts = {"a", "b"}
    Disconnected = "none"
    MAX_LOADS = 3
    PAccounts = {"a", "b"}
    NoWallet = "none"
    PVaults = {1}
    MAX_SKEW = 1
    MAX_NOW = 3
    MAX_JOBS = 3
    MAX_KEYS = 2
    EvmIds = {"e1", "e2"}
    StellarIds = {"s1", "s2"}
    NoId = "none"
    BINDING_AGE = 0
    MAX_SIGNATURES = 4
    MAX_IDCLOCK = 1
    MAX_FORM = 3
INVARIANTS
    
    CopiesAreTrue
    SessionMissesNothing
    

    
    
CHECK_DEADLOCK FALSE
