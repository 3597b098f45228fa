SPECIFICATION CodesSpec
CONSTANTS
    VSS_Q = 11
    VSS_P = 23
    VSS_G = 4
    PSS_FIELD_PRIME = 13
    Scalars = {1, 7}
    Secrets <- SmallSecrets
    MAX_SHARES = 3
    MAX_EPOCHS = 1
    ShardConfigs <- SmallConfigs
    Payloads <- SmallPayloads
    NodeLists <- SmallNodeLists
    Moduli = {35, 77}
    Delays = {1, 3, 4, 8}
    Elements = {2, 6, 80}
    Digests = {0, 5, 12}
    CHUNK_SIZE = 2
    MAX_FILE = 6
    SLICE_SIZES = {1, 2, 5}
    FHE_PRIME = 5
    FHE_LWE_DIMENSION = 2
    FHE_ROWS = 1
    FheSamples = {1, 3}
    FheFactors = {1, 7}
    FHE_GUARDIANS = 3
    FHE_THRESHOLDS = {1, 2, 3}
    BlsGuardians = {"a", "b"}
    OtherGuardians = {"c"}
    BLS_ORDER = 5
    BlsScalars = {1, 2}
    BLS_REQUEST = 3
    BLS_THRESHOLD = 2
    MAX_STORES = 2
    P256Keys = {"p1", "p2"}
    X25519Keys = {"x1", "x2"}
    KemKeys = {"k1", "k2"}
    Messages = {"m1", "m2"}
    MAX_SEALED = 2
    Gateways = {g1, g2}
    Lookups = {f1, f2}
    FAILURE_THRESHOLD = 2
    COOLDOWN = 2
    MIN_BACKOFF = 1
    MAX_BACKOFF = 4
    TOP = 2
    MAX_LATE = 1
    Passphrases = {"", "p"}
    ShareSchemes <- PaperSchemes
    Authenticators <- SmallAuthenticators
    MAX_PASSKEYS = 2
  
PROPERTY GatewaysRecover
CHECK_DEADLOCK FALSE
