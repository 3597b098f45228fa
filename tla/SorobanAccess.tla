--------------------------- MODULE SorobanAccess ----------------------------
(***************************************************************************)
(* Vaults, guardians, documents and access requests of the Soroban         *)
(* contract (contracts-stellar/src/lib.rs): invitations, the four ways a   *)
(* pending request collects approvals (one guardian at a time, a batch of  *)
(* Ed25519 signatures, an aggregated BLS signature, an FHE share), local   *)
(* and cross-chain revocation, and deactivation.                           *)
(*                                                                         *)
(* Each entrypoint is one atomic transaction.  Ids are handed out by       *)
(* counters, so a vault, document or request exists when its id is at most *)
(* its counter; fields of ids not handed out yet hold defaults.            *)
(*                                                                         *)
(* Left out: names, hashes and encrypted shares (payloads no decision      *)
(* reads), storage TTLs, events, and LatestReq, which is the greatest id   *)
(* among an account's requests for a document.                             *)
(***************************************************************************)
EXTENDS Integers, FiniteSets

CONSTANTS
    Accounts,      \* Stellar accounts
    NoOne,         \* stands for an absent account or revoker
    SigKeys,       \* Ed25519 keys that sign approval batches
    SigNonces,     \* replay nonces a batch may carry
    BlsSigners,    \* guardians that may register a BLS key
    FheShares,     \* FHE payloads by length: "empty", "short" of 96 bytes, "share", or "wide"
    ShareHolders,  \* accounts FHE shares are stored for
    Registries,    \* access registries: "records" or "refuses"
    Gids,          \* global ids of EVM counterparts
    EvmSigners,    \* EVM accounts that sign revocation broadcasts
    Conditions,    \* release conditions documents may carry
    Gates,         \* sets of release conditions a vault may satisfy at once
    INVITE_TTL,    \* 7 days in create_vault
    REQUEST_TTL,   \* 3 days in request_access
    MAX_VAULTS, MAX_DOCS, MAX_REQUESTS, MAX_TIME, MAX_NONCE, MAX_VERSION   \* bounds

ASSUME AccessConstants ==
    /\ IsFiniteSet(Accounts) /\ NoOne \notin Accounts \cup EvmSigners
    /\ BlsSigners \subseteq Accounts
    /\ FheShares \subseteq {"empty", "short", "share", "wide"}
    /\ Registries \subseteq {"records", "refuses"}
    /\ ShareHolders \subseteq Accounts
    /\ Conditions \subseteq {"Anytime", "LiveOnly", "EmergencyOnly", "PostDeathOnly"}
    /\ INVITE_TTL \in Nat /\ REQUEST_TTL \in Nat
    /\ MAX_VAULTS \in Nat /\ MAX_DOCS \in Nat /\ MAX_REQUESTS \in Nat
    /\ MAX_TIME \in Nat /\ MAX_NONCE \in Nat /\ MAX_VERSION \in Nat

VaultIds   == 1 .. MAX_VAULTS
DocIds     == 1 .. MAX_DOCS
RequestIds == 1 .. MAX_REQUESTS

\* Signed revocation broadcasts: global vault id, document, beneficiary, nonce.
Broadcasts == Gids \X DocIds \X Accounts \X (1 .. MAX_NONCE)

\* What a batch of keys may have signed: a message (the approval of one request, or 0 for
\* anything else) with a nonce and the last ledger it is good for.
Batches == [keys : SUBSET SigKeys, message : RequestIds \cup {0}, nonce : SigNonces,
            expiration_ledger : 0 .. MAX_TIME]

VARIABLES
    timestamp,           \* ledger close time
    sequence,            \* ledger sequence number
    vault_count, creator, guardians, approval_threshold, is_active,
    invited,             \* invited[v]: accounts holding an unaccepted invite
    invite_expires,      \* invite_expires[v]: when the invites of v lapse
    doc_count, doc_vault, uploaded_by, release_condition,
    req_count, document_id, requester, status, expires_at,
    approved_by,         \* approved_by[r]: length of the request's list
    approved_req,        \* ApprovedReq keys: <<request, guardian>>
    has_access,          \* HasAccess keys that hold true: <<document, account>>
    access_lvl,          \* AccessLvl keys present: <<document, account>>
    access_version,      \* VaultAccessVersion
    used_nonce,          \* UsedNonce keys of threshold_sig.rs
    bls_key,             \* GuardianBLSKey keys: <<vault, guardian>>
    fhe_gshare,          \* FheGShare keys: <<document, guardian>>
    fhe_bshare,          \* FheBShare: <<request, guardian, length of the share>>
    fhe_acc,             \* FheAccumulator, by length
    fhe_count,           \* FheAccumulatorCount
    registry,            \* AccessRegistry
    gid_vault, revoker, revocation_nonce,
    open,                \* open[v]: release conditions satisfied (see SorobanRelease)
    recorded,            \* external: requests whose grant a registry has recorded
    sig_grants,          \* history: <<request, message, nonce>> of the batches that granted
    relayed              \* history: how often each relayed broadcast took effect

vaultVars   == <<vault_count, creator, guardians, approval_threshold, invited, invite_expires>>
docVars     == <<doc_count, doc_vault, uploaded_by, release_condition>>
newReqVars  == <<req_count, document_id, requester, expires_at>>
reqVars     == <<status, approved_by, approved_req>>
accessVars  == <<has_access, access_lvl, recorded>>
fheVars     == <<fhe_bshare, fhe_acc, fhe_count>>
linkVars    == <<gid_vault, revoker>>
relayVars   == <<revocation_nonce, relayed>>
vars == <<timestamp, sequence, is_active, open, registry, bls_key, fhe_gshare, used_nonce, sig_grants,
          access_version, vaultVars, docVars, newReqVars, reqVars, accessVars, fheVars,
          linkVars, relayVars>>

VaultExists(v) == v \in 1 .. vault_count
DocExists(d)   == d \in 1 .. doc_count
ReqExists(r)   == r \in 1 .. req_count
VaultOf(r)     == doc_vault[document_id[r]]
Approvers(r)   == {g \in Accounts : <<r, g>> \in approved_req}

SettledByBatch(r) == \E x \in sig_grants : x[1] = r

Contributors(r) == {g \in Accounts : \E s \in FheShares : <<r, g, s>> \in fhe_bshare}
-----------------------------------------------------------------------------
Init ==
    /\ timestamp = 0 /\ sequence = 0
    /\ vault_count = 0 /\ doc_count = 0 /\ req_count = 0
    /\ creator = [v \in VaultIds |-> NoOne]
    /\ guardians = [v \in VaultIds |-> {}]
    /\ approval_threshold = [v \in VaultIds |-> 0]
    /\ is_active = [v \in VaultIds |-> FALSE]
    /\ invited = [v \in VaultIds |-> {}]
    /\ invite_expires = [v \in VaultIds |-> 0]
    /\ doc_vault = [d \in DocIds |-> 0]
    /\ uploaded_by = [d \in DocIds |-> NoOne]
    /\ release_condition = [d \in DocIds |-> "Anytime"]
    /\ document_id = [r \in RequestIds |-> 0]
    /\ requester = [r \in RequestIds |-> NoOne]
    /\ status = [r \in RequestIds |-> "None"]
    /\ expires_at = [r \in RequestIds |-> 0]
    /\ approved_by = [r \in RequestIds |-> 0]
    /\ approved_req = {} /\ has_access = {} /\ access_lvl = {}
    /\ access_version = [p \in VaultIds \X Accounts |-> 1]
    /\ used_nonce = {} /\ bls_key = {} /\ fhe_gshare = {} /\ fhe_bshare = {}
    /\ fhe_acc = [r \in RequestIds |-> "empty"]
    /\ fhe_count = [r \in RequestIds |-> 0]
    /\ registry = [v \in VaultIds |-> "none"]
    /\ gid_vault = [g \in Gids |-> 0]
    /\ revoker = [v \in VaultIds |-> NoOne]
    /\ revocation_nonce = [k \in Gids \X DocIds \X Accounts |-> 0]
    /\ open = [v \in VaultIds |-> {"Anytime", "LiveOnly"}]
    /\ recorded = {} /\ sig_grants = {}
    /\ relayed = [m \in Broadcasts |-> 0]

CloseLedger ==
    /\ timestamp < MAX_TIME
    /\ timestamp' \in (timestamp + 1) .. MAX_TIME
    /\ sequence' = sequence + 1
    /\ UNCHANGED <<is_active, open, registry, bls_key, fhe_gshare, used_nonce, sig_grants,
                   access_version, vaultVars, docVars, newReqVars, reqVars, accessVars,
                   fheVars, linkVars, relayVars>>

\* The release state of a vault moves on its own: silence, proofs of life, emergencies.
ReleaseMoves(v) ==
    /\ VaultExists(v)
    /\ \E g \in Gates : open' = [open EXCEPT ![v] = g]
    /\ UNCHANGED <<timestamp, sequence, is_active, registry, bls_key, fhe_gshare, used_nonce, sig_grants,
                   access_version, vaultVars, docVars, newReqVars, reqVars, accessVars,
                   fheVars, linkVars, relayVars>>
-----------------------------------------------------------------------------
(* Vaults, guardians and documents. *)

create_vault(by, list, threshold) ==
    LET v == vault_count + 1
        external == list \ {by}
    IN  /\ v \in VaultIds
        /\ external # {}
        /\ threshold > 0 /\ threshold <= Cardinality(external) + 1
        /\ vault_count' = v
        /\ creator' = [creator EXCEPT ![v] = by]
        /\ guardians' = [guardians EXCEPT ![v] = {by}]
        /\ approval_threshold' = [approval_threshold EXCEPT ![v] = threshold]
        /\ is_active' = [is_active EXCEPT ![v] = TRUE]
        /\ invited' = [invited EXCEPT ![v] = external]
        /\ invite_expires' = [invite_expires EXCEPT ![v] = timestamp + INVITE_TTL]
        /\ UNCHANGED <<timestamp, sequence, open, registry, bls_key, fhe_gshare, used_nonce, sig_grants,
                       access_version, docVars, newReqVars, reqVars, accessVars, fheVars,
                       linkVars, relayVars>>

accept_guardian_invite(guardian, v) ==
    /\ VaultExists(v) /\ is_active[v]
    /\ guardian \notin guardians[v]
    /\ guardian \in invited[v]
    /\ timestamp < invite_expires[v]
    /\ invited' = [invited EXCEPT ![v] = @ \ {guardian}]
    /\ guardians' = [guardians EXCEPT ![v] = @ \cup {guardian}]
    /\ UNCHANGED <<timestamp, sequence, vault_count, creator, approval_threshold, is_active, invite_expires,
                   open, registry, bls_key, fhe_gshare, used_nonce, sig_grants, access_version,
                   docVars, newReqVars, reqVars, accessVars, fheVars, linkVars, relayVars>>

add_document(uploader, v, condition) ==
    LET d == doc_count + 1
    IN  /\ d \in DocIds
        /\ VaultExists(v) /\ is_active[v]
        /\ uploader \in guardians[v]
        /\ doc_count' = d
        /\ doc_vault' = [doc_vault EXCEPT ![d] = v]
        /\ uploaded_by' = [uploaded_by EXCEPT ![d] = uploader]
        /\ release_condition' = [release_condition EXCEPT ![d] = condition]
        /\ has_access' = has_access \cup {<<d, uploader>>}
        /\ access_lvl' = access_lvl \cup {<<d, uploader>>}
        /\ UNCHANGED <<timestamp, sequence, is_active, open, registry, bls_key, fhe_gshare, used_nonce,
                       sig_grants, access_version, vaultVars, newReqVars, reqVars, recorded,
                       fheVars, linkVars, relayVars>>

set_access_registry(owner, v, kind) ==
    /\ VaultExists(v)
    /\ creator[v] = owner
    /\ registry' = [registry EXCEPT ![v] = kind]
    /\ UNCHANGED <<timestamp, sequence, is_active, open, bls_key, fhe_gshare, used_nonce, sig_grants,
                   access_version, vaultVars, docVars, newReqVars, reqVars, accessVars,
                   fheVars, linkVars, relayVars>>

deactivate_vault(owner, v) ==
    /\ VaultExists(v)
    /\ creator[v] = owner
    /\ is_active[v]
    /\ is_active' = [is_active EXCEPT ![v] = FALSE]
    /\ UNCHANGED <<timestamp, sequence, open, registry, bls_key, fhe_gshare, used_nonce, sig_grants,
                   access_version, vaultVars, docVars, newReqVars, reqVars, accessVars,
                   fheVars, linkVars, relayVars>>

register_guardian_bls_key(guardian, v) ==
    /\ VaultExists(v) /\ is_active[v]
    /\ guardian \in guardians[v]
    /\ bls_key' = bls_key \cup {<<v, guardian>>}
    /\ UNCHANGED <<timestamp, sequence, is_active, open, registry, fhe_gshare, used_nonce, sig_grants,
                   access_version, vaultVars, docVars, newReqVars, reqVars, accessVars,
                   fheVars, linkVars, relayVars>>

save_guardian_shares_fhe(uploader, d, list) ==
    /\ DocExists(d)
    /\ uploader \in guardians[doc_vault[d]] \/ uploader = creator[doc_vault[d]]
    /\ fhe_gshare' = fhe_gshare \cup ({d} \X list)
    /\ UNCHANGED <<timestamp, sequence, is_active, open, registry, bls_key, used_nonce, sig_grants,
                   access_version, vaultVars, docVars, newReqVars, reqVars, accessVars,
                   fheVars, linkVars, relayVars>>
-----------------------------------------------------------------------------
(* Requests and their approval. *)

request_access(who, d) ==
    LET r == req_count + 1
    IN  /\ r \in RequestIds
        /\ DocExists(d) /\ is_active[doc_vault[d]]
        /\ <<d, who>> \notin has_access
        /\ release_condition[d] \in open[doc_vault[d]]
        /\ req_count' = r
        /\ document_id' = [document_id EXCEPT ![r] = d]
        /\ requester' = [requester EXCEPT ![r] = who]
        /\ expires_at' = [expires_at EXCEPT ![r] = timestamp + REQUEST_TTL]
        /\ status' = [status EXCEPT ![r] = "Pending"]
        /\ UNCHANGED <<timestamp, sequence, is_active, open, registry, bls_key, fhe_gshare, used_nonce,
                       sig_grants, access_version, vaultVars, docVars, approved_by, approved_req,
                       accessVars, fheVars, linkVars, relayVars>>

\* Mutant: a request that is already settled can still be approved.
Approvable_settled(r) ==
    ReqExists(r) /\ timestamp < expires_at[r] /\ is_active[VaultOf(r)]

\* Mutant: is_active is not looked at.
Approvable_inactive(r) ==
    ReqExists(r) /\ status[r] = "Pending" /\ timestamp < expires_at[r]

\* The checks every approval path starts with.
Approvable(r) ==
    /\ ReqExists(r)
    /\ status[r] = "Pending"
    /\ timestamp < expires_at[r]
    /\ is_active[VaultOf(r)]

\* Mutant: approved_by grows but the ApprovedReq marks are not written.
MarkApproved_unmarked(r, new) ==
    /\ approved_by' = [approved_by EXCEPT ![r] = @ + Cardinality(new)]
    /\ UNCHANGED approved_req

\* Guardians without a mark yet are marked and appended to approved_by.
MarkApproved(r, new) ==
    /\ approved_req' = approved_req \cup ({r} \X new)
    /\ approved_by' = [approved_by EXCEPT ![r] = @ + Cardinality(new)]

\* Mutant: a registry that refuses the call is passed over.
notify_access_registry_swallowed(r) ==
    \/ registry[VaultOf(r)] # "records" /\ UNCHANGED recorded
    \/ registry[VaultOf(r)] = "records" /\ recorded' = recorded \cup {r}

\* The registry, where one is configured, records the grant; one that refuses the call
\* reverts the whole approval.
notify_access_registry(r) ==
    \/ registry[VaultOf(r)] = "none" /\ UNCHANGED recorded
    \/ registry[VaultOf(r)] = "records" /\ recorded' = recorded \cup {r}

Grant(r) ==
    /\ status' = [status EXCEPT ![r] = "Approved"]
    /\ has_access' = has_access \cup {<<document_id[r], requester[r]>>}
    /\ access_lvl' = access_lvl \cup {<<document_id[r], requester[r]>>}
    /\ notify_access_registry(r)

\* Mutant: one approval more than the threshold is waited for.
GrantAtThreshold_strict(r, n) ==
    \/ n > approval_threshold[VaultOf(r)] /\ Grant(r)
    \/ n <= approval_threshold[VaultOf(r)] /\ UNCHANGED <<status, accessVars>>

\* Mutant: the registry is notified of every approval.
GrantAtThreshold_notify_always(r, n) ==
    \/ n >= approval_threshold[VaultOf(r)] /\ Grant(r)
    \/ /\ n < approval_threshold[VaultOf(r)]
       /\ notify_access_registry(r)
       /\ UNCHANGED <<status, has_access, access_lvl>>

\* The end of an approval that leaves n entries in the request's approved_by list.
GrantAtThreshold(r, n) ==
    \/ n >= approval_threshold[VaultOf(r)] /\ Grant(r)
    \/ n < approval_threshold[VaultOf(r)] /\ UNCHANGED <<status, accessVars>>

approve_access(approver, r) ==
    /\ Approvable(r)
    /\ approver \in guardians[VaultOf(r)]
    /\ <<r, approver>> \notin approved_req
    /\ MarkApproved(r, {approver})
    /\ GrantAtThreshold(r, approved_by[r] + 1)
    /\ UNCHANGED <<timestamp, sequence, is_active, open, registry, bls_key, fhe_gshare, used_nonce,
                   sig_grants, access_version, vaultVars, docVars, newReqVars, fheVars,
                   linkVars, relayVars>>

\* Mutant: the nonce of a batch is never used up.
VerifyBatch_reusable(batch, message, threshold) ==
    /\ threshold # 0
    /\ Cardinality(batch.keys) >= threshold
    /\ sequence <= batch.expiration_ledger
    /\ batch.message = message
    /\ used_nonce' = used_nonce \cup {batch.nonce}

\* The batch check of threshold_sig.rs: enough distinct keys, not expired, fresh nonce, and
\* signatures over the payload rebuilt from this message, nonce and expiry.  Which accounts
\* the keys belong to is not looked at.
VerifyBatch(batch, message, threshold) ==
    /\ threshold # 0
    /\ Cardinality(batch.keys) >= threshold
    /\ sequence <= batch.expiration_ledger
    /\ batch.nonce \notin used_nonce
    /\ batch.message = message
    /\ used_nonce' = used_nonce \cup {batch.nonce}

\* Anyone may have a batch over any message verified; that uses its nonce up too.
verify_threshold_signatures(batch, threshold) ==
    /\ VerifyBatch(batch, batch.message, threshold)
    /\ UNCHANGED <<timestamp, sequence, is_active, open, registry, bls_key, fhe_gshare, sig_grants,
                   access_version, vaultVars, docVars, newReqVars, reqVars, accessVars,
                   fheVars, linkVars, relayVars>>

\* The message commits to the request's id, which fixes its vault.
approve_access_threshold(r, batch) ==
    /\ Approvable(r)
    /\ VerifyBatch(batch, r, approval_threshold[VaultOf(r)])
    /\ Grant(r)
    /\ sig_grants' = sig_grants \cup {<<r, batch.message, batch.nonce>>}
    /\ UNCHANGED <<timestamp, sequence, is_active, open, registry, bls_key, fhe_gshare,
                   access_version, vaultVars, docVars, newReqVars, approved_by, approved_req,
                   fheVars, linkVars, relayVars>>

\* The list has len entries naming the guardians in list, repetitions allowed; those
\* not recorded yet are appended.  The signature check looks at lengths and flag bits.
approve_access_bls(r, list, len) ==
    LET new == {g \in list : <<r, g>> \notin approved_req}
    IN  /\ Approvable(r)
        /\ len >= Cardinality(list) /\ len >= approval_threshold[VaultOf(r)]
        /\ list \subseteq guardians[VaultOf(r)]
        /\ requester[r] \notin list
        /\ \A g \in list : <<VaultOf(r), g>> \in bls_key
        /\ MarkApproved(r, new)
        /\ GrantAtThreshold(r, approved_by[r] + Cardinality(new))
        /\ UNCHANGED <<timestamp, sequence, is_active, open, registry, bls_key, fhe_gshare, used_nonce,
                       sig_grants, access_version, vaultVars, docVars, newReqVars, fheVars,
                       linkVars, relayVars>>

\* Mutant: the lengths of the two ciphertexts are not compared.
AddFheShare_unchecked(r, approver, share) ==
    \/ /\ share # "empty"
       /\ fhe_bshare' = fhe_bshare \cup {<<r, approver, share>>}
       /\ fhe_acc' = [fhe_acc EXCEPT ![r] = share]
       /\ fhe_count' = [fhe_count EXCEPT ![r] = @ + 1]
    \/ share = "empty" /\ UNCHANGED fheVars

\* fhe_add takes the first ciphertext as it is, and reverts unless two of them have the same,
\* full length; the sum has that length too.
FheAddable(acc, share) == acc # "empty" => share = acc /\ share # "short"

\* A payload that is not empty is stored, added to the accumulator and counted.
AddFheShare(r, approver, share) ==
    \/ /\ share # "empty"
       /\ FheAddable(fhe_acc[r], share)
       /\ fhe_bshare' = fhe_bshare \cup {<<r, approver, share>>}
       /\ fhe_acc' = [fhe_acc EXCEPT ![r] = share]
       /\ fhe_count' = [fhe_count EXCEPT ![r] = @ + 1]
    \/ share = "empty" /\ UNCHANGED fheVars

approve_access_fhe(approver, r, share) ==
    /\ Approvable(r)
    /\ requester[r] # approver
    /\ approver \in guardians[VaultOf(r)]
    /\ <<r, approver>> \notin approved_req
    /\ MarkApproved(r, {approver})
    /\ AddFheShare(r, approver, share)
    /\ GrantAtThreshold(r, approved_by[r] + 1)
    /\ UNCHANGED <<timestamp, sequence, is_active, open, registry, bls_key, fhe_gshare, used_nonce,
                   sig_grants, access_version, vaultVars, docVars, newReqVars, linkVars, relayVars>>
-----------------------------------------------------------------------------
(* Revocation. *)

\* Mutant: the access level of the beneficiary is kept.
apply_revocation_keep_level(d, target) ==
    /\ access_version[<<doc_vault[d], target>>] < MAX_VERSION
    /\ has_access' = has_access \ {<<d, target>>}
    /\ access_version' = [access_version EXCEPT ![<<doc_vault[d], target>>] = @ + 1]
    /\ UNCHANGED <<timestamp, sequence, is_active, open, registry, bls_key, fhe_gshare, used_nonce,
                   sig_grants, vaultVars, docVars, newReqVars, reqVars, access_lvl, recorded,
                   fheVars, linkVars>>

apply_revocation(d, target) ==
    /\ access_version[<<doc_vault[d], target>>] < MAX_VERSION
    /\ has_access' = has_access \ {<<d, target>>}
    /\ access_lvl' = access_lvl \ {<<d, target>>}
    /\ access_version' = [access_version EXCEPT ![<<doc_vault[d], target>>] = @ + 1]
    /\ UNCHANGED <<timestamp, sequence, is_active, open, registry, bls_key, fhe_gshare, used_nonce,
                   sig_grants, vaultVars, docVars, newReqVars, reqVars, recorded, fheVars, linkVars>>

revoke_access(guardian, d, target) ==
    /\ DocExists(d)
    /\ guardian \in guardians[doc_vault[d]]
    /\ apply_revocation(d, target)
    /\ UNCHANGED relayVars

link_cross_chain_vault(owner, v, gid, evm_revoker) ==
    /\ VaultExists(v)
    /\ creator[v] = owner
    /\ gid_vault[gid] = 0
    /\ gid_vault' = [gid_vault EXCEPT ![gid] = v]
    /\ revoker' = [revoker EXCEPT ![v] = evm_revoker]
    /\ UNCHANGED <<timestamp, sequence, is_active, open, registry, bls_key, fhe_gshare, used_nonce, sig_grants,
                   access_version, vaultVars, docVars, newReqVars, reqVars, accessVars, fheVars,
                   relayVars>>

\* Mutant: the last nonce is accepted again.
relay_revoke_access_replayed(gid, d, target, nonce, signer) ==
    /\ gid_vault[gid] # 0
    /\ DocExists(d)
    /\ doc_vault[d] = gid_vault[gid]
    /\ nonce >= revocation_nonce[<<gid, d, target>>]
    /\ signer = revoker[gid_vault[gid]]
    /\ revocation_nonce' = [revocation_nonce EXCEPT ![<<gid, d, target>>] = nonce]
    /\ apply_revocation(d, target)
    /\ relayed' = [relayed EXCEPT ![<<gid, d, target, nonce>>] = @ + 1]

\* A broadcast signed by an EVM account, relayed by anyone, any number of times.
relay_revoke_access(gid, d, target, nonce, signer) ==
    /\ gid_vault[gid] # 0
    /\ DocExists(d)
    /\ doc_vault[d] = gid_vault[gid]
    /\ nonce > revocation_nonce[<<gid, d, target>>]
    /\ signer = revoker[gid_vault[gid]]
    /\ revocation_nonce' = [revocation_nonce EXCEPT ![<<gid, d, target>>] = nonce]
    /\ apply_revocation(d, target)
    /\ relayed' = [relayed EXCEPT ![<<gid, d, target, nonce>>] = @ + 1]
-----------------------------------------------------------------------------
VaultStep(v) ==
    \/ ReleaseMoves(v)
    \/ \E a \in Accounts :
          \/ accept_guardian_invite(a, v)
          \/ \E c \in Conditions : add_document(a, v, c)
          \/ \E k \in Registries : set_access_registry(a, v, k)
          \/ deactivate_vault(a, v)
          \/ \E g \in Gids, e \in EvmSigners : link_cross_chain_vault(a, v, g, e)
    \/ \E a \in BlsSigners : register_guardian_bls_key(a, v)

DocStep(d) ==
    \E a \in Accounts :
       \/ request_access(a, d)
       \/ \E u \in Accounts : revoke_access(a, d, u)
       \/ \E list \in SUBSET ShareHolders : save_guardian_shares_fhe(a, d, list)
       \/ \E g \in Gids, n \in 1 .. MAX_NONCE, e \in EvmSigners : relay_revoke_access(g, d, a, n, e)

RequestStep(r) ==
    \/ \E a \in Accounts : approve_access(a, r)
    \/ \E b \in Batches : approve_access_threshold(r, b)
    \/ \E list \in SUBSET BlsSigners, len \in 0 .. Cardinality(BlsSigners) :
          approve_access_bls(r, list, len)
    \/ \E a \in Accounts, s \in FheShares : approve_access_fhe(a, r, s)

Next ==
    \/ CloseLedger
    \/ \E a \in Accounts, list \in SUBSET Accounts, t \in 0 .. Cardinality(Accounts) :
          create_vault(a, list, t)
    \/ \E v \in VaultIds : VaultStep(v)
    \/ \E d \in DocIds : DocStep(d)
    \/ \E r \in RequestIds : RequestStep(r)
    \/ \E b \in Batches, t \in 0 .. Cardinality(SigKeys) : verify_threshold_signatures(b, t)

Spec == Init /\ [][Next]_vars
-----------------------------------------------------------------------------
(* Properties. *)

\* The types of what vaults, documents, requests, access and cross-chain links hold.
VaultTypes ==
    /\ timestamp \in Nat /\ sequence \in Nat
    /\ vault_count \in 0 .. MAX_VAULTS
    /\ creator \in [VaultIds -> Accounts \cup {NoOne}]
    /\ guardians \in [VaultIds -> SUBSET Accounts]
    /\ approval_threshold \in [VaultIds -> Nat]
    /\ is_active \in [VaultIds -> BOOLEAN]
    /\ invited \in [VaultIds -> SUBSET Accounts]
    /\ invite_expires \in [VaultIds -> Nat]
    /\ registry \in [VaultIds -> {"none", "records", "refuses"}]
    /\ bls_key \subseteq (1 .. vault_count) \X Accounts

DocTypes ==
    /\ doc_count \in 0 .. MAX_DOCS
    /\ doc_vault \in [DocIds -> 0 .. vault_count]
    /\ \A d \in 1 .. doc_count : doc_vault[d] \in 1 .. vault_count
    /\ uploaded_by \in [DocIds -> Accounts \cup {NoOne}]
    /\ release_condition \in [DocIds -> Conditions \cup {"Anytime"}]
    /\ fhe_gshare \subseteq (1 .. doc_count) \X Accounts

RequestTypes ==
    /\ req_count \in 0 .. MAX_REQUESTS
    /\ document_id \in [RequestIds -> 0 .. doc_count]
    /\ \A r \in 1 .. req_count : document_id[r] \in 1 .. doc_count
    /\ requester \in [RequestIds -> Accounts \cup {NoOne}]
    /\ \A r \in 1 .. req_count : requester[r] \in Accounts
    /\ status \in [RequestIds -> {"None", "Pending", "Approved"}]
    /\ \A r \in RequestIds : status[r] = "None" <=> r > req_count
    /\ expires_at \in [RequestIds -> Nat]
    /\ approved_by \in [RequestIds -> Nat]
    /\ approved_req \subseteq (1 .. req_count) \X Accounts

AccessTypes ==
    /\ has_access \subseteq (1 .. doc_count) \X Accounts
    /\ access_lvl \subseteq (1 .. doc_count) \X Accounts
    /\ recorded \subseteq 1 .. req_count
    /\ used_nonce \subseteq SigNonces
    /\ sig_grants \subseteq (1 .. req_count) \X (RequestIds \cup {0}) \X SigNonces
    /\ fhe_bshare \subseteq (1 .. req_count) \X Accounts \X FheShares
    /\ fhe_acc \in [RequestIds -> FheShares \cup {"empty"}]
    /\ fhe_count \in [RequestIds -> Nat]

LinkTypes ==
    /\ access_version \in [VaultIds \X Accounts -> Nat]
    /\ gid_vault \in [Gids -> 0 .. vault_count]
    /\ revoker \in [VaultIds -> EvmSigners \cup {NoOne}]
    /\ revocation_nonce \in [Gids \X DocIds \X Accounts -> Nat]
    /\ relayed \in [Broadcasts -> Nat]

\* Every variable keeps its type, ids handed out stay within their counters, and
\* what was never created has no state (the DataKey layout of lib.rs).
TypeOK ==
    /\ VaultTypes /\ DocTypes /\ RequestTypes /\ AccessTypes /\ LinkTypes
    /\ open \in [VaultIds -> Gates \cup {{"Anytime", "LiveOnly"}}]

\* However the four approval paths interleave on one request, approved_by holds each
\* guardian that has an ApprovedReq mark exactly once, and nobody but guardians.
ApprovalsAreGuardians ==
    \A r \in 1 .. req_count :
       /\ approved_by[r] = Cardinality(Approvers(r))
       /\ Approvers(r) \subseteq guardians[VaultOf(r)]

\* However approvals are ordered, the guardians' own approvals settle a request exactly when
\* they reach approval_threshold: never below it, and not a transaction later.
QuorumDecides ==
    \A r \in 1 .. req_count : ~SettledByBatch(r) =>
       (status[r] = "Approved" <=> approved_by[r] >= approval_threshold[VaultOf(r)])

\* A batch of signatures settles only the request its keys signed for, and its nonce settles
\* at most one, also when the public verify entrypoint is called in between.
BatchesSettleOnce ==
    /\ \A x \in sig_grants : x[2] = x[1] /\ status[x[1]] = "Approved"
    /\ \A x, y \in sig_grants : x[3] = y[3] => x = y

\* HasAccess is never true for an account that neither uploaded the document nor had a
\* request for it approved, and AccessLvl exists for exactly the accounts with access.
AccessHasOrigin ==
    /\ access_lvl = has_access
    /\ \A p \in has_access :
          \/ uploaded_by[p[1]] = p[2]
          \/ \E r \in 1 .. req_count :
                status[r] = "Approved" /\ document_id[r] = p[1] /\ requester[r] = p[2]

\* The FHE accumulator of a request has absorbed one share per contributing guardian, each of
\* which approved the request and is not its requester.
FheCountsContributors ==
    \A r \in 1 .. req_count :
       /\ fhe_count[r] = Cardinality(Contributors(r))
       /\ Contributors(r) \subseteq Approvers(r) \ {requester[r]}

\* The shares a request has stored all have the length of its accumulator, and where there is
\* more than one it is that of a full ciphertext: fhe_add never mixed two lengths.
FheLengthsMatch ==
    /\ \A x \in fhe_bshare : x[3] = fhe_acc[x[1]] /\ x[3] # "empty"
    /\ \A r \in RequestIds :
          /\ fhe_count[r] = 0 <=> fhe_acc[r] = "empty"
          /\ fhe_count[r] > 1 => fhe_acc[r] # "short"

\* A relayed revocation broadcast takes effect at most once however often it is submitted,
\* also after a re-grant or a second link of the vault (RevocationNonce).
RelayedOnce == \A m \in Broadcasts : relayed[m] <= 1

\* A registry only knows of approved requests: a refused notification reverts the approval.
RegistryKnowsApproved == \A r \in recorded : status[r] = "Approved"

\* Approved is final: no later approval, revocation or deactivation reopens a request or
\* adds to its approvals.
ApprovedIsFinal ==
    [][\A r \in 1 .. req_count : status[r] = "Approved" =>
          status'[r] = "Approved" /\ approved_by'[r] = approved_by[r]]_vars

\* deactivate_vault is permanent: a deactivated vault gains no guardian, no document, no
\* request and no access.
DeactivatedGrantsNothing ==
    [][\A v \in 1 .. vault_count : ~is_active[v] =>
          /\ ~is_active'[v]
          /\ guardians'[v] = guardians[v]
          /\ \A d \in 1 .. doc_count' : doc_vault'[d] = v =>
                /\ d <= doc_count
                /\ \A a \in Accounts : <<d, a>> \in has_access' => <<d, a>> \in has_access
                /\ \A r \in (req_count + 1) .. req_count' : document_id'[r] # d]_vars

\* Access that was revoked (or never held) on an existing document comes back only in a
\* step that turns a pending, unexpired request of that account Approved.
RevocationSticks ==
    [][\A p \in has_access' \ has_access : p[1] <= doc_count =>
          \E r \in 1 .. req_count :
             /\ document_id[r] = p[1] /\ requester[r] = p[2]
             /\ status[r] = "Pending" /\ status'[r] = "Approved"
             /\ timestamp < expires_at[r]]_vars

\* The books of a request agree: guardians' approvals settle it exactly at the threshold, the FHE
\* accumulator has absorbed one share per contributing guardian, all of one length, and a registry
\* only knows of approved requests (lib.rs: approve_access, approve_access_fhe, fhe_add).
RequestBooksAgree ==
    QuorumDecides /\ FheCountsContributors /\ FheLengthsMatch /\ RegistryKnowsApproved

\* A request that turns Approved in a vault with a registry is recorded there in the same
\* transaction: no refusal is swallowed (notify_access_registry).
GrantsAreReported ==
    [][\A r \in 1 .. req_count :
          /\ status[r] # "Approved" /\ status'[r] = "Approved"
          /\ registry[VaultOf(r)] # "none"
          => r \in recorded']_vars

\* Approvals stand: what is Approved stays so with its approvals, and no access registry of the
\* vault was left out when it was granted (lib.rs: approve_access and the other three paths).
ApprovalsStand == ApprovedIsFinal /\ GrantsAreReported

\* What is granted was due: a signature batch settles the one request it was signed for, and a
\* deactivated vault grants nothing more (threshold_sig.rs: verify_threshold_signatures_internal;
\* lib.rs: approve_access_threshold, deactivate_vault).
GrantsAreDue == []BatchesSettleOnce /\ DeactivatedGrantsNothing

-----------------------------------------------------------------------------
(* What documents, comments and tests of the repository say of this code, which runs refute. *)

\* fuzz_targets/state_machine.rs: an Approved request has at least approval_threshold entries in
\* approved_by.
ApprovedHasQuorum ==
    \A r \in 1 .. req_count :
       status[r] = "Approved" => approved_by[r] >= approval_threshold[VaultOf(r)]

\* ARCHITECTURE.md: an approval never originates from the request's beneficiary.
NoSelfApproval == \A r \in 1 .. req_count : requester[r] \notin Approvers(r)
=============================================================================
