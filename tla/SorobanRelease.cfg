SPECIFICATION PlannedSpec
CONSTANTS
    alice = alice
    kim = kim
    g1 = g1
    k1 = k1
    NoOne = NoOne
    Creator = alice
    Accounts <- const_Accounts
    Gids <- const_Gids
    EvmKeys <- const_EvmKeys
    TickSteps <- const_Ticks
    ExpiryTimes <- const_Expiry
    MIN_POST_DEATH_SEQUENCE_DELTA = 2
    EMERGENCY_UNLOCK_BASE_DELAY = 3
    DEFAULT_EMERGENCY_JITTER_WINDOW = 1
    MIN_JITTER_WINDOW = 1
    MAX_JITTER_WINDOW = 3
    MIN_EMERGENCY_UNLOCK_CONFIRMATIONS = 1
    MIN_EMERGENCY_UNLOCK_SEQUENCE_DELTA = 1
    EMERGENCY_SECONDS_PER_LEDGER = 2
    HEARTBEAT_SKEW = 1
    DEFAULT_INACTIVITY_PERIOD = 4
    MIN_INACTIVITY_PERIOD = 2
    MAX_INACTIVITY_PERIOD = 4
    MAX_TIME = 12
    MAX_CYCLE = 2
    OWNER_HORIZON = 4
    RELAY_HORIZON = 7
INVARIANTS
    LifeIsAttested
    EmergencyNotBeforeDelay
PROPERTIES
    SignOfLifeRevives
    ProofOfLifeRegressionBounded
    OneDrawPerCycle
    ReleasesHappen
CHECK_DEADLOCK FALSE
