------------------------------ MODULE ClientKeys -----------------------------
(***************************************************************************)
(* The keys a browser keeps: the key ring that holds an account's private  *)
(* key, the way of a document's key to a beneficiary, and the rotation of  *)
(* a compromised key.                                                      *)
(***************************************************************************)
EXTENDS Integers, Sequences, FiniteSets
(***************************************************************************)
(* The client keyring of one account: browser tabs over one IndexedDB      *)
(* record (src/services/clientKeyring.service.ts), the OPAQUE client       *)
(* (opaqueKeyring.service.ts) and its server (scripts/lib/                 *)
(* opaqueKeyringServer.mjs).                                               *)
(*                                                                         *)
(* Key pairs are numbers, 0 is none.  OPAQUE is external: a registration   *)
(* with a PIN fixes an export key <<reg, pin>>, a login with the same PIN  *)
(* gives it again, and an envelope opens with the export key it was made   *)
(* with.  An awaited call of the server or of IndexedDB is a step.         *)
(***************************************************************************)
CONSTANTS KTabs, Pins,
    RATE_LIMIT,               \* rateLimitAttempts
    MAX_OPS,                  \* operations begun in a behaviour
    MAX_KR_FAULTS

VARIABLES
    record,                   \* the IndexedDB record
    cred,                     \* the server's credential: the registration's number and PIN, "none" when there is none
    attempts,                 \* login attempts of the window
    tokens,                   \* tabs holding a management token the server accepts
    keyCache,                 \* tab |-> sessionKeyCache
    op,                       \* tab |-> the operation under way
    keysMade,                 \* key pairs generated
    opsBegun,
    torn,                     \* history: an enrolment was cut between the server and IndexedDB
    krFaults

keyringVars == <<record, cred, attempts, tokens, keyCache, op, keysMade, opsBegun, torn, krFaults>>
serverVars  == <<cred, attempts, tokens>>
restVars    == <<keysMade, opsBegun, krFaults>>

NoEnvelope == [exp |-> <<0, "none">>, key |-> 0]
NoLegacy   == [pin |-> "none", key |-> 0]
NoRecord   == [pub |-> 0, opaque |-> NoEnvelope, legacy |-> NoLegacy, passkey |-> 0]
NoOp       == [stage |-> "idle"]
NoCred     == [reg |-> 0, pin |-> "none"]

\* A new browser, or one with a record from before OPAQUE (zkpp or a passphrase envelope).
KeyringInit ==
    /\ record \in {NoRecord} \cup {[NoRecord EXCEPT !.pub = 1, !.legacy = [pin |-> p, key |-> 1]] : p \in Pins}
    /\ keysMade = record.pub /\ opsBegun = 0
    /\ cred = NoCred /\ attempts = 0 /\ tokens = {}
    /\ keyCache = [t \in KTabs |-> 0]
    /\ op = [t \in KTabs |-> NoOp]
    /\ torn = FALSE /\ krFaults = 0

Fail(t) == op' = [op EXCEPT ![t] = NoOp]
BeginOp(t) == op[t].stage = "idle" /\ opsBegun < MAX_OPS /\ opsBegun' = opsBegun + 1
Go(t, stage) == op' = [op EXCEPT ![t].stage = stage]
hasKeyPair(r) == r.pub # 0 /\ (r.legacy # NoLegacy \/ r.passkey # 0 \/ r.opaque # NoEnvelope)
-----------------------------------------------------------------------------
(* Operations begin. *)
\* createPasskeyProtection gives the blob's key, or 0 when it is not to be had.
createPasskeyProtection(key) == {0, key}

\* generateAndSaveKeyPair: a PIN enrols; without one the passkey alone is stored, and without
\* either nothing is.
generateAndSaveKeyPair(t, pin) ==
    /\ BeginOp(t) /\ keysMade' = keysMade + 1
    /\ \E pk \in createPasskeyProtection(keysMade') :
          /\ ~(pin = "none" /\ pk = 0)
          /\ op' = [op EXCEPT ![t] = [stage |-> IF pin = "none" THEN "put passkey" ELSE "register", kind |-> "generate",
                                      pin |-> pin, key |-> keysMade', pub |-> keysMade', passkey |-> pk, existing |-> record]]
    /\ UNCHANGED <<record, serverVars, keyCache, torn, krFaults>>

\* saveKeyPair and importKeyBackup: a pair exported earlier, under a new PIN.
importKeyBackup(t, pin) ==
    /\ BeginOp(t)
    /\ \E k \in 1..keysMade :
          op' = [op EXCEPT ![t] = [stage |-> "register", kind |-> "save", pin |-> pin, key |-> k,
                                   pub |-> k, passkey |-> 0, existing |-> record]]
    /\ UNCHANGED <<record, serverVars, keyCache, keysMade, torn, krFaults>>

\* decryptRecordWithPasskey: the blob's key, or 0 when the authenticator is not used.
decryptRecordWithPasskey(r) == {0, r.passkey}

\* unlockRecord: a login for an OPAQUE envelope; an older record (zkpp or passphrase) that the
\* PIN opens is enrolled.
unlockRecord(t, pin) ==
    \/ /\ record.opaque # NoEnvelope
       /\ op' = [op EXCEPT ![t] = [stage |-> "start login", kind |-> "unlock", pin |-> pin, existing |-> record]]
    \/ /\ record.opaque = NoEnvelope /\ record.legacy.pin = pin
       /\ op' = [op EXCEPT ![t] = [stage |-> "register", kind |-> "migrate", pin |-> pin, key |-> record.legacy.key,
                                   pub |-> record.pub, passkey |-> 0, existing |-> record]]

\* getDecryptedPrivateKey: the cache, else by what the record holds; with no PIN the passkey.
getDecryptedPrivateKey(t, pin) ==
    /\ BeginOp(t) /\ keyCache[t] = 0 /\ hasKeyPair(record)
    /\ \/ /\ pin = "none" /\ record.passkey # 0 /\ UNCHANGED op
          /\ \E k \in decryptRecordWithPasskey(record) : keyCache' = [keyCache EXCEPT ![t] = k]
       \/ pin # "none" /\ unlockRecord(t, pin) /\ UNCHANGED keyCache
    /\ UNCHANGED <<record, serverVars, keysMade, krFaults, torn>>
-----------------------------------------------------------------------------
(* OPAQUE. *)
Putting(t) == \E u \in KTabs \ {t} : op[u].stage = "put"

\* The server's finishRegistration: an account that has a credential needs a management token;
\* then all tokens are revoked and a new one goes to the caller.
finishRegistration(t) ==
    /\ cred.pin = "none" \/ t \in tokens
    /\ cred' = [reg |-> cred.reg + 1, pin |-> op[t].pin] /\ tokens' = {t} /\ UNCHANGED attempts

\* wrapPrivateKey: the record with the private key sealed under an export key.
Wrapped(r, exp, key) == [r EXCEPT !.opaque = [exp |-> exp, key |-> key]]

\* enrollAndWrap with an export key: the envelope that persistKeyPair will write.
enrollAndWrap(t, exp) ==
    op' = [op EXCEPT ![t] = [@ EXCEPT !.stage = "put",
                                      !.existing = Wrapped(op[t].existing, exp, op[t].key)]]

\* register: OPAQUE_CREDENTIAL_EXISTS turns it into a login.  The answer may be lost.
register(t) ==
    /\ op[t].stage = "register"
    /\ \/ /\ cred.pin # "none" /\ t \notin tokens
          /\ Go(t, "start login") /\ UNCHANGED <<serverVars, torn, krFaults>>
       \/ /\ finishRegistration(t) /\ enrollAndWrap(t, <<cred'.reg, op[t].pin>>)
          /\ torn' = (torn \/ Putting(t)) /\ UNCHANGED krFaults
       \/ /\ krFaults < MAX_KR_FAULTS /\ krFaults' = krFaults + 1
          /\ finishRegistration(t) /\ Fail(t) /\ torn' = TRUE
    /\ UNCHANGED <<record, keyCache, keysMade, opsBegun>>

\* The attempts after one more, or -1 when it is refused.
consumeAttempt(n) == IF n >= RATE_LIMIT THEN -1 ELSE n + 1

startLogin(t) ==
    /\ op[t].stage = "start login"
    /\ IF consumeAttempt(attempts) = -1 THEN Fail(t) /\ UNCHANGED attempts
       ELSE /\ attempts' = consumeAttempt(attempts)
            /\ op' = [op EXCEPT ![t].stage = IF op[t].kind = "unlock" THEN "prove unlock" ELSE "prove enrol"]
    /\ UNCHANGED <<record, cred, tokens, keyCache, restVars, torn>>

\* The server's finishLogin.
finishLogin(t) == attempts' = 0 /\ tokens' = tokens \cup {t}

\* verifyAndUnwrap: the key, or 0 when the export key is not the envelope's.
verifyAndUnwrap(envelope, exp) == IF envelope.exp = exp THEN envelope.key ELSE 0

\* The rest of login: the client checks the server's answer with its PIN; then the server checks
\* the client's proof, unless the login has expired; only after that is the export key used.
login(t) ==
    /\ op[t].stage \in {"prove unlock", "prove enrol"}
    /\ LET exp == <<cred.reg, cred.pin>> IN
       \/ /\ op[t].pin = cred.pin /\ finishLogin(t)
          /\ \/ op[t].stage = "prove enrol" /\ enrollAndWrap(t, exp) /\ UNCHANGED keyCache
             \/ /\ op[t].stage = "prove unlock" /\ Fail(t)
                /\ keyCache' = [keyCache EXCEPT ![t] = verifyAndUnwrap(op[t].existing.opaque, exp)]
       \/ Fail(t) /\ UNCHANGED <<attempts, tokens, keyCache>>
    /\ UNCHANGED <<record, cred, restVars, torn>>

\* Mutant: the fields of the existing record win over the new ones.
persistKeyPair_keeps(o) == [o.existing EXCEPT !.pub = o.pub, !.opaque = IF record.opaque # NoEnvelope THEN record.opaque ELSE @,
                                              !.legacy = NoLegacy]

\* The record persistKeyPair writes: the existing one with a new public key and envelope.
persistKeyPair(o) == [o.existing EXCEPT !.pub = o.pub, !.legacy = NoLegacy]

idbPut(t) ==
    /\ op[t].stage = "put"
    /\ \/ /\ record' = persistKeyPair(op[t]) /\ keyCache' = [keyCache EXCEPT ![t] = op[t].key]
          /\ IF op[t].kind = "generate" /\ op[t].passkey # 0 THEN Go(t, "add passkey") ELSE Fail(t)
          /\ UNCHANGED <<torn, krFaults>>
       \/ /\ krFaults < MAX_KR_FAULTS /\ krFaults' = krFaults + 1 /\ torn' = TRUE
          /\ Fail(t) /\ UNCHANGED <<record, keyCache>>
    /\ UNCHANGED <<serverVars, keysMade, opsBegun>>

\* generateAndSaveKeyPair after the PIN envelope, or with a passkey alone.
putPasskey(t) ==
    /\ \/ /\ op[t].stage = "add passkey"
          /\ record' = IF record.pub = 0 THEN record ELSE [record EXCEPT !.passkey = op[t].passkey]
       \/ /\ op[t].stage = "put passkey"
          /\ record' = [NoRecord EXCEPT !.pub = op[t].pub, !.passkey = op[t].passkey]
    /\ keyCache' = [keyCache EXCEPT ![t] = op[t].key]
    /\ Fail(t) /\ UNCHANGED <<serverVars, restVars, torn>>

deleteCredential(t) == t \in tokens /\ cred' = [cred EXCEPT !.pin = "none"] /\ tokens' = {}

\* deleteKeyPair: the cache first, then the credential if the tab may, then the record.
deleteKeyPair(t) ==
    /\ BeginOp(t) /\ record # NoRecord
    /\ keyCache' = [keyCache EXCEPT ![t] = 0]
    /\ \/ deleteCredential(t) /\ torn' = (torn \/ Putting(t))
       \/ UNCHANGED <<cred, tokens, torn>>
    /\ op' = [op EXCEPT ![t] = [stage |-> "delete"]]
    /\ UNCHANGED <<record, attempts, keysMade, krFaults>>

idbDelete(t) ==
    /\ op[t].stage = "delete" /\ record' = NoRecord /\ Fail(t)
    /\ UNCHANGED <<serverVars, keyCache, restVars, torn>>
-----------------------------------------------------------------------------
(* Locking. *)
lockAccount(t) ==
    /\ keyCache[t] # 0 /\ keyCache' = [keyCache EXCEPT ![t] = 0] /\ tokens' = tokens \ {t}
    /\ UNCHANGED <<record, cred, attempts, restVars, op, torn>>

\* A tab is loaded again: its memory is gone, and what it was doing.
ReloadTab(t) ==
    /\ krFaults < MAX_KR_FAULTS /\ krFaults' = krFaults + 1
    /\ keyCache' = [keyCache EXCEPT ![t] = 0] /\ tokens' = tokens \ {t}
    /\ Fail(t)
    /\ torn' = (torn \/ op[t].stage = "put")
    /\ UNCHANGED <<record, cred, attempts, keysMade, opsBegun>>

\* Time on the server: the window of the rate limit ends, a token expires, the server restarts.
WindowEnds ==
    /\ attempts > 0 /\ attempts' = 0
    /\ UNCHANGED <<record, cred, tokens, keyCache, restVars, op, torn>>
cleanup ==
    /\ tokens # {} /\ \E ts \in SUBSET tokens : tokens' = ts
    /\ UNCHANGED <<record, cred, attempts, keyCache, restVars, op, torn>>

KeyringNext ==
    \/ \E t \in KTabs :
          \/ \E p \in Pins \cup {"none"} : generateAndSaveKeyPair(t, p) \/ getDecryptedPrivateKey(t, p)
          \/ \E p \in Pins : importKeyBackup(t, p)
          \/ register(t) \/ startLogin(t) \/ login(t) \/ idbPut(t) \/ putPasskey(t)
          \/ deleteKeyPair(t) \/ idbDelete(t) \/ lockAccount(t) \/ ReloadTab(t)
    \/ WindowEnds \/ cleanup

KeyringSpec == KeyringInit /\ [][KeyringNext]_keyringVars
-----------------------------------------------------------------------------
\* Through any sequence of generating, importing, unlocking, locking and deleting, in any tabs,
\* the envelope in IndexedDB opens with the PIN of the server's credential, unless an enrolment
\* was cut short between the server's write and IndexedDB's (persistKeyPair).
EnvelopeMatchesCredential ==
    (~torn /\ record.opaque # NoEnvelope /\ cred.pin # "none" /\ \A t \in KTabs : op[t].stage # "put") =>
       record.opaque.exp = <<cred.reg, cred.pin>>
------------------------------------------------------------------------------
(***************************************************************************)
(* The way of a document's key from the wallet that uploads it to a        *)
(* beneficiary: the upload, sharing and import handlers of                 *)
(* src/pages/Documents.tsx and src/pages/AccessCenter.tsx, the per-tab key *)
(* store (keyStore.service.ts), the in-app inbox of pinned key envelopes   *)
(* (keyInbox.service.ts) and the collector that unpins those of dead       *)
(* requests (keyEnvelopeGC.service.ts).                                    *)
(*                                                                         *)
(* The key of document d is the value d; 0 is no key and -1 a key of       *)
(* another deployment of the contract.  The contract and the pinning       *)
(* service are external.  Each awaited call is a step.                     *)
(***************************************************************************)
CONSTANTS Docs,               \* document ids
    INBOX_LIMIT,              \* the 40 envelopes an inbox fetch takes
    MAX_PINS, MAX_ASKED, MAX_KEYPAIRS
ASSUME DocsAreNumbers == Docs \subseteq Nat \ {0}

VARIABLES
    onChain,                  \* documents added to the contract
    status, access,           \* the beneficiary's latest request and active access, by document
    requests,                 \* requests made
    keyPair,                  \* the beneficiary's registered key pair, 0 before the first
    upload,                   \* the owner's handleUpload: [stage, doc]
    ownerStore,               \* documents whose key the owner's tab holds
    packages,                 \* the last key file written: [doc, key, to, net]; to = 0 is a plain backup
    sharing,                  \* sendBeneficiaryKeyToInbox under way: [doc, to]
    pins, pinned,             \* pinned envelopes [id, doc, key, to, net], and how many ever were
    keyStore,                    \* the beneficiary's tab: document |-> key
    page,                     \* the requests its AccessCenter loaded, by document
    inbox,                    \* handleFetchInboxKeys under way: envelopes left to look at
    gc                        \* the collections under way: documents and hashes left

docKeyVars == <<onChain, status, access, requests, keyPair, upload, ownerStore, packages, sharing,
                pins, pinned, keyStore, page, inbox, gc>>
chainState == <<onChain, status, access, requests, keyPair>>
ownerState == <<upload, ownerStore, sharing>>
readerState == <<keyStore, page, inbox>>
pinState == <<pins, pinned>>

Idle == [stage |-> "idle", doc |-> 0]
NotSharing == [doc |-> 0, to |-> 0]
NoCollection == [docs |-> {}, hashes |-> {}]

DocumentKeysInit ==
    /\ onChain = {} /\ status = [d \in Docs |-> "none"] /\ access = [d \in Docs |-> FALSE]
    /\ requests = 0 /\ keyPair = 0 /\ upload = Idle /\ ownerStore = {} /\ packages = {} /\ sharing = NotSharing
    /\ pins = {} /\ pinned = 0 /\ keyStore = [d \in Docs |-> 0] /\ inbox = {} /\ gc = NoCollection
    /\ page = status
-----------------------------------------------------------------------------
(* The contract, as the pages use it. *)
\* A pending request past its time counts as expired whether or not the contract says so yet.
isRequestExpiredOrRejected(s) == s \in {"rejected", "expired"}

Decide(d, s, grants) ==
    /\ status' = [status EXCEPT ![d] = s] /\ access' = [access EXCEPT ![d] = grants]
    /\ UNCHANGED <<onChain, keyPair, ownerState, packages, pinState, readerState, gc>>

handleRequestAccess(d) ==
    /\ d \in onChain /\ status[d] # "pending" /\ ~access[d] /\ requests < MAX_ASKED
    /\ requests' = requests + 1 /\ Decide(d, "pending", FALSE)
GuardiansDecide(d) ==
    /\ status[d] = "pending" /\ UNCHANGED requests
    /\ Decide(d, "approved", TRUE) \/ Decide(d, "rejected", FALSE) \/ Decide(d, "expired", FALSE)
RevokeAccess(d) == access[d] /\ UNCHANGED requests /\ Decide(d, status[d], FALSE)

\* The beneficiary registers a first or a new public key; the keyring holds the pair.
registerKeyPair ==
    /\ keyPair < MAX_KEYPAIRS /\ keyPair' = keyPair + 1
    /\ UNCHANGED <<onChain, status, access, requests, ownerState, packages, pinState, readerState, gc>>
-----------------------------------------------------------------------------
(* The owner's Documents page. *)
OwnerOnly == UNCHANGED <<status, access, requests, keyPair, sharing, packages, pinState, readerState, gc>>

\* handleUpload: encrypt, pin the file, submit.  It can be given up before the transaction; a
\* transaction may fail, or be mined without the page learning the id.
handleUpload(d) ==
    /\ upload = Idle /\ d \notin onChain /\ upload' = [stage |-> "uploading", doc |-> d]
    /\ UNCHANGED <<onChain, ownerStore>> /\ OwnerOnly
handleAbortUpload ==
    /\ upload.stage = "uploading" /\ upload' = Idle
    /\ UNCHANGED <<onChain, ownerStore>> /\ OwnerOnly
submitUpload ==
    /\ upload.stage = "uploading"
    /\ \/ /\ onChain' = onChain \cup {upload.doc}
          /\ \/ ownerStore' = ownerStore \cup {upload.doc} /\ upload' = [upload EXCEPT !.stage = "back up"]
             \/ UNCHANGED ownerStore /\ upload' = Idle
       \/ upload' = Idle /\ UNCHANGED <<onChain, ownerStore>>
    /\ OwnerOnly

\* The key dialog of a finished upload closes once the backup file is written.
handleCloseKeyModal ==
    /\ upload.stage = "back up" /\ upload' = Idle
    /\ packages' = {[doc |-> upload.doc, key |-> upload.doc, to |-> 0, net |-> "ours"]}
    /\ UNCHANGED <<chainState, ownerStore, sharing, pinState, readerState, gc>>

\* downloadBeneficiaryKeyPackage: encrypted to the key registered now.
downloadBeneficiaryKeyPackage(d) ==
    /\ d \in ownerStore /\ keyPair # 0
    /\ packages' = {[doc |-> d, key |-> d, to |-> keyPair, net |-> "ours"]}
    /\ UNCHANGED <<chainState, ownerState, pinState, readerState, gc>>

pin(e) ==
    /\ pinned < MAX_PINS /\ pinned' = pinned + 1
    /\ pins' = pins \cup {[id |-> pinned', doc |-> e.doc, key |-> e.key, to |-> e.to, net |-> e.net]}

\* sendBeneficiaryKeyToInbox: the public key is read, then the envelope is pinned.
sendBeneficiaryKeyToInbox(d) ==
    /\ sharing = NotSharing /\ d \in ownerStore /\ keyPair # 0 /\ sharing' = [doc |-> d, to |-> keyPair]
    /\ UNCHANGED <<chainState, upload, ownerStore, packages, pinState, readerState, gc>>
sendKeyEnvelope ==
    /\ sharing # NotSharing /\ sharing' = NotSharing
    /\ \/ pin([doc |-> sharing.doc, key |-> sharing.doc, to |-> sharing.to, net |-> "ours"])
       \/ UNCHANGED pinState
    /\ UNCHANGED <<chainState, upload, ownerStore, packages, readerState, gc>>

\* Another deployment's owner shares a document with the same number.
ForeignEnvelope(d) ==
    /\ keyPair # 0
    /\ LET e == [doc |-> d, key |-> -1, to |-> keyPair, net |-> "other"] IN
       \/ pin(e) /\ UNCHANGED packages
       \/ packages' = {e} /\ UNCHANGED pinState
    /\ UNCHANGED <<chainState, ownerState, readerState, gc>>
-----------------------------------------------------------------------------
(* The beneficiary's AccessCenter page. *)
\* loadData, with the collection it starts.
loadData ==
    /\ page' = status
    /\ gc' = [gc EXCEPT !.docs = @ \cup {d \in onChain : isRequestExpiredOrRejected(status[d])}]
    /\ UNCHANGED <<chainState, ownerState, packages, pinState, keyStore, inbox>>

\* Mutant: the deployment is not compared.
sameDeployment_any(e) == TRUE

\* The contract address and chain id of a package or an envelope are this deployment's.
sameDeployment(e) == e.net = "ours"

\* What a package or an envelope holds for the keyring's private key: 0 when it does not open.
decryptWithPrivateKey(e) == IF e.to \in {0, keyPair} THEN e.key ELSE 0

\* keyStoreService.set, which refuses an empty key.
keySet(d, k) == keyStore' = IF k = 0 THEN keyStore ELSE [keyStore EXCEPT ![d] = k]

handleImportKeyBackup(f) ==
    /\ sameDeployment(f) /\ keySet(f.doc, decryptWithPrivateKey(f))
    /\ page' = status
    /\ UNCHANGED <<chainState, ownerState, packages, pinState, inbox, gc>>

\* The envelopes for a beneficiary, newest first, at most so many (the listing walks the pages
\* of the pin list, then each envelope is fetched and they are sorted by time of issue).
fetchBeneficiaryInbox == {e \in pins : Cardinality({x \in pins : x.id > e.id}) < INBOX_LIMIT}

\* The newest envelope of each document.
latestByDoc(es) == {e \in es : \A x \in es : x.doc = e.doc => x.id <= e.id}

handleFetchInboxKeys ==
    /\ inbox = {} /\ pins # {} /\ inbox' = latestByDoc(fetchBeneficiaryInbox)
    /\ UNCHANGED <<chainState, ownerState, packages, pinState, keyStore, page, gc>>

\* One envelope: skipped when of another deployment; with no access now, its document's dead
\* request (as the page loaded it) has its envelopes unpinned; else its key is stored.
importEnvelope(e) ==
    /\ inbox' = inbox \ {e} /\ UNCHANGED pinned
    /\ IF ~sameDeployment(e) THEN UNCHANGED <<keyStore, pins>>
       ELSE IF ~access[e.doc]
       THEN /\ UNCHANGED keyStore
            /\ pins' = IF isRequestExpiredOrRejected(page[e.doc])         \* unpinEnvelopesForRequest
                       THEN {x \in pins : x.doc # e.doc} ELSE pins
       ELSE UNCHANGED pins /\ keySet(e.doc, decryptWithPrivateKey(e))
    /\ UNCHANGED <<chainState, ownerState, packages, page, gc>>

\* runGarbageCollection for the account: a dead document's envelopes are listed, then unpinned
\* one by one; an unpin may fail and is only counted.
findEnvelopeHashes(d) ==
    /\ gc.hashes = {} /\ d \in gc.docs
    /\ gc' = [docs |-> gc.docs \ {d}, hashes |-> {e \in pins : e.doc = d}]
    /\ UNCHANGED <<chainState, ownerState, packages, pinState, readerState>>
unpinKeyEnvelope(e) ==
    /\ gc' = [gc EXCEPT !.hashes = @ \ {e}] /\ UNCHANGED pinned
    /\ \/ pins' = pins \ {e}
       \/ UNCHANGED pins
    /\ UNCHANGED <<chainState, ownerState, packages, readerState>>

DocumentKeysNext ==
    \/ \E d \in Docs :
          \/ handleRequestAccess(d) \/ GuardiansDecide(d) \/ RevokeAccess(d) \/ handleUpload(d)
          \/ downloadBeneficiaryKeyPackage(d) \/ sendBeneficiaryKeyToInbox(d) \/ ForeignEnvelope(d)
          \/ findEnvelopeHashes(d)
    \/ registerKeyPair \/ handleAbortUpload \/ submitUpload \/ handleCloseKeyModal \/ sendKeyEnvelope
    \/ loadData \/ handleFetchInboxKeys
    \/ \E f \in packages : handleImportKeyBackup(f)
    \/ \E e \in inbox : importEnvelope(e)
    \/ \E e \in gc.hashes : unpinKeyEnvelope(e)

DocumentKeysSpec == DocumentKeysInit /\ [][DocumentKeysNext]_docKeyVars
-----------------------------------------------------------------------------
\* A key the beneficiary's tab stores for a document, by either import, opens that document,
\* though another deployment's keys for a document of the same number lie in the same inbox.
StoredKeyOpens == \A d \in Docs : keyStore[d] \in {0, d}
------------------------------------------------------------------------------
(***************************************************************************)
(* The answer to a compromised key (src/services/keyRotation.service.ts):  *)
(* rotateCompromisedKey re-encrypts the share envelopes and then revokes   *)
(* the key on both chains, emergencyBatchRevoke revokes first.  Two tabs   *)
(* may rotate the same key.  Keys are numbers, 1 the key in use at first.  *)
(* The contracts (revokeKey, revoke_key) and the keyring are external:     *)
(* a chain replaces the key registered by one never revoked there.         *)
(***************************************************************************)
CONSTANTS RTabs, Envelopes, MAX_RKEYS
RChains == {"evm", "soroban"}

VARIABLES
    registered, revoked,      \* chain |-> the key registered, the keys blacklisted
    kept,                     \* the key pair the keyring holds
    rotation,                 \* tab |-> the rotation under way
    late,                     \* revocations still to land after their rotation failed: [chain, old, new]
    rkeys,                    \* key pairs generated
    reported                  \* history: new keys of rotations that returned their report

rotationVars == <<registered, revoked, kept, rotation, late, rkeys, reported>>
NoRotation == [mode |-> "none", stage |-> "idle", old |-> 0, new |-> 0, left |-> {}, sent |-> {}, failed |-> FALSE]

KeyRotationInit ==
    /\ registered = [c \in RChains |-> 1] /\ revoked = [c \in RChains |-> {}] /\ kept = 1
    /\ rotation = [t \in RTabs |-> NoRotation] /\ late = {} /\ rkeys = 1 /\ reported = {}

Set(t, r) == rotation' = [rotation EXCEPT ![t] = r]

\* Both begin alike: check the arguments, make the new pair, prove the old key opens the first
\* envelope that has a payload; the two differ in what comes next.
FirstStage(mode) == IF mode = "rotate" THEN "reencrypt" ELSE "revoke"
begin(t, mode, ok) ==
    /\ rotation[t] = NoRotation /\ rkeys < MAX_RKEYS /\ rkeys' = rkeys + 1
    /\ IF ok THEN Set(t, [NoRotation EXCEPT !.mode = mode, !.stage = FirstStage(mode), !.old = kept, !.new = rkeys',
                                            !.left = Envelopes])
       ELSE UNCHANGED rotation                                  \* KeyOwnershipProofError
    /\ UNCHANGED <<registered, revoked, kept, late, reported>>
rotateCompromisedKey(t, ok) == begin(t, "rotate", ok)
emergencyBatchRevoke(t, ok) == begin(t, "emergency", ok)

\* One envelope after the other; a failure is noted and the next one follows.
reencryptVaultBatch(t) ==
    /\ rotation[t].stage = "reencrypt"
    /\ IF rotation[t].left = {}
       THEN Set(t, [rotation[t] EXCEPT !.stage = IF rotation[t].mode = "rotate" THEN "revoke" ELSE "save"])
       ELSE \E e \in rotation[t].left : Set(t, [rotation[t] EXCEPT !.left = @ \ {e}])
    /\ UNCHANGED <<registered, revoked, kept, late, rkeys, reported>>

\* What a chain does with a revocation.
Replace(c, old, new) ==
    /\ registered[c] = old /\ new \notin revoked[c]
    /\ registered' = [registered EXCEPT ![c] = new] /\ revoked' = [revoked EXCEPT ![c] = @ \cup {old}]

\* The revocations go out at once and land in any order; each may be refused.
revokeKey(t, c) ==
    /\ rotation[t].stage = "revoke" /\ c \notin rotation[t].sent
    /\ LET r == rotation[t] IN
       \/ Replace(c, r.old, r.new) /\ Set(t, [r EXCEPT !.sent = @ \cup {c}])
       \/ UNCHANGED <<registered, revoked>> /\ Set(t, [r EXCEPT !.sent = @ \cup {c}, !.failed = TRUE])
    /\ UNCHANGED <<kept, late, rkeys, reported>>
LateRevocation(l) ==
    /\ late' = late \ {l}
    /\ Replace(l.chain, l.old, l.new) \/ UNCHANGED <<registered, revoked>>
    /\ UNCHANGED <<kept, rotation, rkeys, reported>>

NextStage(t) == [rotation[t] EXCEPT !.stage = IF rotation[t].mode = "rotate" THEN "save" ELSE "reencrypt"]

\* Mutant: Promise.allSettled in place of Promise.all.
bothRevoked_settled(t) ==
    /\ rotation[t].stage = "revoke" /\ rotation[t].sent = RChains /\ Set(t, NextStage(t))
    /\ UNCHANGED <<registered, revoked, kept, late, rkeys, reported>>

\* Promise.all: a refusal on either chain ends the rotation, the other's effect stays or comes.
bothRevoked(t) ==
    /\ rotation[t].stage = "revoke"
    /\ LET r == rotation[t] IN
       IF r.failed THEN /\ Set(t, NoRotation)
                        /\ late' = late \cup {[chain |-> c, old |-> r.old, new |-> r.new] : c \in RChains \ r.sent}
       ELSE r.sent = RChains /\ Set(t, NextStage(t)) /\ UNCHANGED late
    /\ UNCHANGED <<registered, revoked, kept, rkeys, reported>>

saveKeyPair(t) ==
    /\ rotation[t].stage = "save" /\ Set(t, NoRotation)
    /\ \/ kept' = rotation[t].new /\ reported' = reported \cup {rotation[t].new}
       \/ UNCHANGED <<kept, reported>>
    /\ UNCHANGED <<registered, revoked, late, rkeys>>

KeyRotationNext ==
    \E t \in RTabs :
       \/ \E ok \in BOOLEAN : rotateCompromisedKey(t, ok) \/ emergencyBatchRevoke(t, ok)
       \/ reencryptVaultBatch(t) \/ bothRevoked(t) \/ saveKeyPair(t)
       \/ \E c \in RChains : revokeKey(t, c)
       \/ \E l \in late : LateRevocation(l)

KeyRotationSpec == KeyRotationInit /\ [][KeyRotationNext]_rotationVars
-----------------------------------------------------------------------------
\* A key pair whose rotation was reported done was accepted by both chains, and no two rotations
\* of the same key, in two tabs, are both reported done unless the second replaced the first's.
ReportedIsOnChain == \A k \in reported, c \in RChains : registered[c] = k \/ k \in revoked[c]

\* Stored keys open what they are stored for: the key envelope opens with the server's credential,
\* a document key kept for a document opens it, and a rotation reported done is on both chains
\* (clientKeyring.service.ts, keyInbox.service.ts, keyRotation.service.ts).
StoredKeysWork == EnvelopeMatchesCredential /\ StoredKeyOpens /\ ReportedIsOnChain
==============================================================================
