------------------------------ MODULE EvmAccess -----------------------------
(***************************************************************************)
(* Passes and document access of one SpooVault vault (SpooVault.sol):      *)
(* ERC-721 access tokens, requests, the four approval paths, grants that   *)
(* carry an access version, and revocation.                                *)
(*                                                                         *)
(* A grant is good while its version equals the holder's vault access      *)
(* version; losing the last pass or being revoked bumps that version.      *)
(* Version 0 means never set and reads as 1.  Ciphertexts, shares, URIs    *)
(* and the access level stored beside hasAccess are left out.  The         *)
(* guardians and the threshold move as EvmGovernance lets them.  Whether a *)
(* release condition holds or a guardian's key is blacklisted is decided   *)
(* elsewhere and may change between any two calls, so it is an input.      *)
(***************************************************************************)
EXTENDS Integers, Sequences, FiniteSets
CONSTANTS
    EvmAccounts, ZeroAddress, Docs,
    Creator, Invited,  \* the vault's creator and the accounts createVault invited
    BlsSigners,        \* guardians that may register a BLS key
    Holders,           \* accounts that passes go to
    Targets,           \* accounts whose access guardians revoke
    Delegators,        \* guardians that sign delegations
    Nonces,            \* nonces of signed guardian delegations
    Toggles,           \* values of crossChainRevocationEnabled the creator may set
    REQUEST_TTL, MAX_PASSES, MAX_REQUESTS, MAX_TIMESTAMP, MAX_VERSION

ASSUME EvmAccessConstants ==
    /\ ZeroAddress \notin EvmAccounts /\ IsFiniteSet(EvmAccounts)
    /\ Creator \in EvmAccounts /\ Invited \subseteq EvmAccounts \ {Creator} /\ BlsSigners \subseteq EvmAccounts
    /\ Holders \subseteq EvmAccounts
    /\ Targets \subseteq EvmAccounts /\ Delegators \subseteq EvmAccounts
    /\ Toggles \subseteq BOOLEAN /\ Nonces \subseteq Nat
    /\ REQUEST_TTL \in Nat /\ MAX_PASSES \in Nat /\ MAX_REQUESTS \in Nat
    /\ MAX_TIMESTAMP \in Nat \ {0} /\ MAX_VERSION \in Nat

VARIABLES
    timestamp,           \* block.timestamp
    vaultGuardians, guardianInvites,
    vaultThreshold,      \* the approvalThreshold of the vault
    docs,                \* documents added
    owners,              \* token id -> owner, ZeroAddress once burned
    balances,            \* _ownedVaultTokenBalance
    activeTokenSupply,
    accessVersion,       \* _vaultAccessVersion
    grants,              \* hasAccess, with _documentAccessVersion as its value
    accessRequests, hasApprovedRequest, blsKeys, revokedNonces,
    crossChainEnabled, revocationNonce
envVars     == <<timestamp, vaultGuardians, guardianInvites, vaultThreshold>>
tokenVars   == <<owners, balances, activeTokenSupply>>
requestVars == <<accessRequests, hasApprovedRequest, blsKeys, revokedNonces>>
bridgeVars  == <<crossChainEnabled, revocationNonce>>
passVars == <<envVars, docs, tokenVars, accessVersion, grants, requestVars, bridgeVars>>

NoGrant == 0           \* delete _documentAccessVersion, hasAccess = false

PassInit ==
    /\ timestamp = 1 /\ vaultGuardians = {Creator} /\ guardianInvites = Invited
    /\ vaultThreshold \in 1 .. Cardinality(Invited) + 1
    /\ docs = {}
    /\ owners = <<>> /\ balances = [a \in EvmAccounts |-> 0] /\ activeTokenSupply = 0
    /\ accessVersion = [a \in EvmAccounts |-> 0]
    /\ grants = [p \in Docs \X EvmAccounts |-> NoGrant]
    /\ accessRequests = <<>> /\ hasApprovedRequest = {}
    /\ blsKeys = {} /\ revokedNonces = {}
    /\ crossChainEnabled = FALSE /\ revocationNonce = [p \in Docs \X EvmAccounts |-> 0]

\* block.timestamp moves.
BlockMined ==
    /\ timestamp < MAX_TIMESTAMP /\ timestamp' = timestamp + 1
    /\ UNCHANGED <<vaultGuardians, guardianInvites, vaultThreshold, docs, tokenVars, accessVersion, grants,
                   requestVars, bridgeVars>>

\* EvmGovernance: an invite is accepted, a guardian removed, a threshold set.
Reconfigured ==
    /\ \/ \E g \in guardianInvites :
             /\ vaultGuardians' = vaultGuardians \cup {g} /\ guardianInvites' = guardianInvites \ {g}
             /\ UNCHANGED vaultThreshold
       \/ \E g \in vaultGuardians :
             vaultGuardians' = vaultGuardians \ {g} /\ UNCHANGED <<guardianInvites, vaultThreshold>>
       \/ /\ vaultThreshold' \in 1 .. Cardinality(vaultGuardians)
          /\ UNCHANGED <<vaultGuardians, guardianInvites>>
    /\ UNCHANGED <<timestamp, docs, tokenVars, accessVersion, grants, requestVars,
                   bridgeVars>>

currentAccessVersion(u) == IF accessVersion[u] = 0 THEN 1 ELSE accessVersion[u]
ownsVaultToken(u) == balances[u] > 0

\* _hasActiveAccess: what requestAccess, checkAccess and every reader of a document ask.
hasActiveAccess(d, u) ==
    \/ u \in vaultGuardians
    \/ /\ grants[<<d, u>>] # NoGrant
       /\ ownsVaultToken(u)
       /\ grants[<<d, u>>] = currentAccessVersion(u)

grantAccess(d, u) == grants' = [grants EXCEPT ![<<d, u>>] = currentAccessVersion(u)]
-----------------------------------------------------------------------------
(* Documents and passes. *)
addDocument(sender, d) ==
    /\ sender \in vaultGuardians /\ d \in Docs \ docs
    /\ docs' = docs \cup {d}
    /\ grantAccess(d, sender)
    /\ UNCHANGED <<envVars, tokenVars, accessVersion, requestVars, bridgeVars>>

\* Mutant: losing the last pass leaves the version alone.
update_unversioned(from, to) ==
    LET less == IF from # ZeroAddress /\ balances[from] > 0 THEN [balances EXCEPT ![from] = @ - 1]
                ELSE balances
        more == IF to # ZeroAddress THEN [less EXCEPT ![to] = @ + 1] ELSE less
    IN /\ balances' = more
       /\ activeTokenSupply' = activeTokenSupply + (IF from = ZeroAddress THEN 1 ELSE 0)
                                                 - (IF to = ZeroAddress THEN 1 ELSE 0)
       /\ accessVersion' = [u \in EvmAccounts |->
             IF u = to /\ accessVersion[u] = 0 THEN 1 ELSE accessVersion[u]]

\* _update: balances first, then the first pass sets version 1, then a balance that dropped
\* to zero bumps the version, so a transfer to oneself changes nothing.
update(from, to) ==
    LET less == IF from # ZeroAddress /\ balances[from] > 0 THEN [balances EXCEPT ![from] = @ - 1]
                ELSE balances
        more == IF to # ZeroAddress THEN [less EXCEPT ![to] = @ + 1] ELSE less
        held == [u \in EvmAccounts |-> IF u = to /\ accessVersion[u] = 0 THEN 1 ELSE accessVersion[u]]
    IN /\ balances' = more
       /\ activeTokenSupply' = activeTokenSupply + (IF from = ZeroAddress THEN 1 ELSE 0)
                                                 - (IF to = ZeroAddress THEN 1 ELSE 0)
       /\ accessVersion' = [u \in EvmAccounts |->
             IF u = from /\ more[u] = 0 THEN held[u] + 1 ELSE held[u]]

Bumpable(u) == accessVersion[u] < MAX_VERSION

mintAccessToken(sender, to) ==
    /\ Len(owners) < MAX_PASSES
    /\ sender \in vaultGuardians
    /\ owners' = Append(owners, to)
    /\ update(ZeroAddress, to)
    /\ UNCHANGED <<envVars, docs, grants, requestVars, bridgeVars>>

\* An ERC-721 transfer by the owner or an operator it approved.
transferFrom(t, to) ==
    /\ owners[t] # ZeroAddress /\ Bumpable(owners[t])
    /\ owners' = [owners EXCEPT ![t] = to]
    /\ update(owners[t], to)
    /\ UNCHANGED <<envVars, docs, grants, requestVars, bridgeVars>>

\* Mutant: the token's vault is forgotten before it is burned, so no balance moves.
burnAccessToken_unmapped(t) ==
    /\ owners[t] # ZeroAddress /\ Bumpable(owners[t])
    /\ owners' = [owners EXCEPT ![t] = ZeroAddress]
    /\ activeTokenSupply' = activeTokenSupply - 1
    /\ UNCHANGED <<envVars, docs, balances, accessVersion, grants, requestVars, bridgeVars>>

burnAccessToken(t) ==
    /\ owners[t] # ZeroAddress /\ Bumpable(owners[t])
    /\ owners' = [owners EXCEPT ![t] = ZeroAddress]
    /\ update(owners[t], ZeroAddress)
    /\ UNCHANGED <<envVars, docs, grants, requestVars, bridgeVars>>
-----------------------------------------------------------------------------
(* Requests and approvals. *)
Pending(r) == accessRequests[r].status = "PENDING" /\ accessRequests[r].expiresAt > timestamp

\* satisfied is the verdict of _isReleaseConditionSatisfied.  The latest request of an
\* account for a document is pending, or all of them are over.
requestAccess(sender, d, satisfied) ==
    /\ Len(accessRequests) < MAX_REQUESTS
    /\ d \in docs
    /\ ~hasActiveAccess(d, sender)
    /\ satisfied
    /\ ownsVaultToken(sender)
    /\ \A r \in DOMAIN accessRequests :
          accessRequests[r].documentId = d /\ accessRequests[r].requester = sender => ~Pending(r)
    /\ accessRequests' = Append(accessRequests, [documentId |-> d, requester |-> sender,
          approvedBy |-> <<>>, status |-> "PENDING", expiresAt |-> timestamp + REQUEST_TTL])
    /\ UNCHANGED <<envVars, docs, tokenVars, accessVersion, grants, hasApprovedRequest, blsKeys,
                   revokedNonces, bridgeVars>>

\* Mutant: the requester's pass is not looked at again.
Settle_passless(r, approvers, enough) ==
    LET req == accessRequests[r]
        status == IF enough THEN "APPROVED" ELSE "PENDING"
    IN /\ accessRequests' = [accessRequests EXCEPT ![r] =
             [req EXCEPT !.approvedBy = approvers, !.status = status]]
       /\ IF enough THEN grantAccess(req.documentId, req.requester) ELSE UNCHANGED grants

\* The end of every approval: at the threshold the request is granted, or rejected when the
\* requester holds no pass any more.
Settle(r, approvers, enough) ==
    LET req == accessRequests[r]
        status == IF ~enough THEN "PENDING"
                  ELSE IF ownsVaultToken(req.requester) THEN "APPROVED" ELSE "REJECTED"
    IN /\ accessRequests' = [accessRequests EXCEPT ![r] =
             [req EXCEPT !.approvedBy = approvers, !.status = status]]
       /\ IF status = "APPROVED" THEN grantAccess(req.documentId, req.requester)
                                 ELSE UNCHANGED grants

\* Mutant: hasApprovedRequest is not consulted.
Approve_again(guardian, sender, r, revokedKey) ==
    LET approvers == Append(accessRequests[r].approvedBy, guardian) IN
    /\ Pending(r)
    /\ accessRequests[r].requester \notin {guardian, sender}
    /\ guardian \in vaultGuardians /\ ~revokedKey
    /\ hasApprovedRequest' = hasApprovedRequest \cup {<<r, guardian>>}
    /\ Settle(r, approvers, Len(approvers) >= vaultThreshold)
    /\ UNCHANGED <<envVars, docs, tokenVars, accessVersion, blsKeys, revokedNonces, bridgeVars>>

\* _approveAccess: guardian is the account that approves, sender the one that calls;
\* revokedKey says whether the guardian's registered key is blacklisted.
Approve(guardian, sender, r, revokedKey) ==
    LET approvers == Append(accessRequests[r].approvedBy, guardian) IN
    /\ Pending(r)
    /\ accessRequests[r].requester \notin {guardian, sender}
    /\ guardian \in vaultGuardians /\ ~revokedKey
    /\ <<r, guardian>> \notin hasApprovedRequest
    /\ hasApprovedRequest' = hasApprovedRequest \cup {<<r, guardian>>}
    /\ Settle(r, approvers, Len(approvers) >= vaultThreshold)
    /\ UNCHANGED <<envVars, docs, tokenVars, accessVersion, blsKeys, revokedNonces, bridgeVars>>

approveAccess(sender, r, revokedKey) == Approve(sender, sender, r, revokedKey)
approveAccessFHE(sender, r, revokedKey) == Approve(sender, sender, r, revokedKey)

\* A delegation <<guardian, delegate, validUntil, nonce>> signed off chain by the guardian.
verifyDelegation(guardian, validUntil, nonce) ==
    timestamp <= validUntil /\ <<guardian, nonce>> \notin revokedNonces /\ guardian \in vaultGuardians

approveAccessDelegated(sender, r, guardian, validUntil, nonce, revokedKey) ==
    verifyDelegation(guardian, validUntil, nonce) /\ Approve(guardian, sender, r, revokedKey)

revokeDelegation(sender, nonce) ==
    /\ revokedNonces' = revokedNonces \cup {<<sender, nonce>>}
    /\ UNCHANGED <<envVars, docs, tokenVars, accessVersion, grants, accessRequests,
                   hasApprovedRequest, blsKeys, bridgeVars>>

registerGuardianBLSKey(sender) ==
    /\ sender \in vaultGuardians
    /\ blsKeys' = blsKeys \cup {sender}
    /\ UNCHANGED <<envVars, docs, tokenVars, accessVersion, grants, accessRequests,
                   hasApprovedRequest, revokedNonces, bridgeVars>>

\* One aggregated signature of the guardians in list; the request keeps no trace of them and
\* a blacklisted public key is not asked about.
approveAccessBLS(r, list) ==
    /\ Pending(r)
    /\ Cardinality(list) >= vaultThreshold
    /\ list \subseteq (vaultGuardians \cap blsKeys) \ {accessRequests[r].requester}
    /\ Settle(r, accessRequests[r].approvedBy, TRUE)
    /\ UNCHANGED <<envVars, docs, tokenVars, accessVersion, hasApprovedRequest, blsKeys,
                   revokedNonces, bridgeVars>>
-----------------------------------------------------------------------------
(* Revocation. *)
setCrossChainRevocationEnabled(sender, enabled) ==
    /\ sender = Creator /\ crossChainEnabled' = enabled
    /\ UNCHANGED <<envVars, docs, tokenVars, accessVersion, grants, requestVars, revocationNonce>>

revokeAccess(sender, d, u) ==
    /\ d \in docs /\ sender \in vaultGuardians /\ Bumpable(u)
    /\ grants' = [grants EXCEPT ![<<d, u>>] = NoGrant]
    /\ accessVersion' = [accessVersion EXCEPT ![u] = @ + 1]
    /\ revocationNonce' = IF crossChainEnabled
                          THEN [revocationNonce EXCEPT ![<<d, u>>] = @ + 1] ELSE revocationNonce
    /\ UNCHANGED <<envVars, docs, tokenVars, requestVars, crossChainEnabled>>
-----------------------------------------------------------------------------
TokenStep(t) ==
    \/ \E to \in Holders : transferFrom(t, to)
    \/ burnAccessToken(t)

RequestStep(r) ==
    \/ \E sender \in EvmAccounts, revokedKey \in BOOLEAN :
          \/ approveAccess(sender, r, revokedKey)
          \/ approveAccessFHE(sender, r, revokedKey)
          \/ \E g \in Delegators, until \in 1 .. MAX_TIMESTAMP, nonce \in Nonces :
                approveAccessDelegated(sender, r, g, until, nonce, revokedKey)
    \/ \E list \in SUBSET BlsSigners : approveAccessBLS(r, list)

AccountStep(sender) ==
    \/ \E to \in Holders : mintAccessToken(sender, to)
    \/ \E nonce \in Nonces : sender \in Delegators /\ revokeDelegation(sender, nonce)
    \/ sender \in BlsSigners /\ registerGuardianBLSKey(sender)
    \/ \E e \in Toggles : setCrossChainRevocationEnabled(sender, e)
    \/ \E d \in Docs :
          \/ addDocument(sender, d)
          \/ \E satisfied \in BOOLEAN : requestAccess(sender, d, satisfied)
          \/ \E u \in Targets : revokeAccess(sender, d, u)

PassNext ==
    \/ BlockMined
    \/ Reconfigured
    \/ \E sender \in EvmAccounts : AccountStep(sender)
    \/ \E t \in DOMAIN owners : TokenStep(t)
    \/ \E r \in DOMAIN accessRequests : RequestStep(r)

PassSpec == PassInit /\ [][PassNext]_passVars
-----------------------------------------------------------------------------
AccessRequest ==
    [documentId : Docs, requester : EvmAccounts, approvedBy : Seq(EvmAccounts),
     status : {"PENDING", "APPROVED", "REJECTED"}, expiresAt : Nat]

\* Types; the supply counter counts the tokens that exist.
PassTypeOK ==
    /\ timestamp \in 1 .. MAX_TIMESTAMP /\ vaultThreshold \in Nat
    /\ vaultGuardians \subseteq EvmAccounts /\ guardianInvites \subseteq EvmAccounts
    /\ docs \subseteq Docs
    /\ owners \in Seq(EvmAccounts \cup {ZeroAddress}) /\ balances \in [EvmAccounts -> Nat]
    /\ activeTokenSupply = Cardinality({t \in DOMAIN owners : owners[t] # ZeroAddress})
    /\ accessVersion \in [EvmAccounts -> Nat] /\ grants \in [Docs \X EvmAccounts -> Nat]
    /\ accessRequests \in Seq(AccessRequest)
    /\ hasApprovedRequest \subseteq (1 .. MAX_REQUESTS) \X EvmAccounts
    /\ blsKeys \subseteq EvmAccounts /\ revokedNonces \subseteq EvmAccounts \X Nonces
    /\ crossChainEnabled \in BOOLEAN /\ revocationNonce \in [Docs \X EvmAccounts -> Nat]

\* _ownedVaultTokenBalance, which every access decision reads instead of the tokens, is the
\* number of passes really held, whatever is minted, moved to oneself or others, or burned.
BalancesCountPasses ==
    \A u \in EvmAccounts : balances[u] = Cardinality({t \in DOMAIN owners : owners[t] = u})

\* However a guardian's approvals of one request are submitted (itself, by a delegate, with
\* an FHE share), it counts once, and the requester's own never does.
EachGuardianOnce ==
    \A r \in DOMAIN accessRequests : LET by == accessRequests[r].approvedBy IN
       /\ Cardinality({by[i] : i \in DOMAIN by}) = Len(by)
       /\ \A i \in DOMAIN by : by[i] # accessRequests[r].requester

\* The books of passes and requests of a vault: the balances and the supply are the numbers of live
\* passes held, and no guardian is counted twice in a request whatever mix of the four approval
\* paths was used (SpooVault.sol: _update, approveAccess, approveAccessFHE,
\* approveAccessDelegated, approveAccessBLS).
PassBooksBalance == PassTypeOK /\ BalancesCountPasses /\ EachGuardianOnce

Stale(d, u) == grants[<<d, u>>] < currentAccessVersion(u)
ApprovedNow(d, u) ==
    \E r \in DOMAIN accessRequests :
       /\ accessRequests[r].documentId = d /\ accessRequests[r].requester = u
       /\ Pending(r) /\ accessRequests'[r].status = "APPROVED" /\ ownsVaultToken(u)

\* _update's comment, "re-acquiring a pass requires fresh guardian approval": a grant that is
\* stale or revoked, or whose holder parts with its last pass in this step, is good for
\* nothing afterwards, whatever passes come and go, until a request for it is approved while
\* the account holds a pass, also when the pass was given away after the request.
GrantsStayLost ==
    \A d \in docs, u \in EvmAccounts :
       Stale(d, u) \/ (ownsVaultToken(u) /\ ~ownsVaultToken(u)')
          => \/ Stale(d, u)' /\ (u \in vaultGuardians' \/ ~hasActiveAccess(d, u)')
             \/ ApprovedNow(d, u)
NoResurrection == [][GrantsStayLost]_passVars
=============================================================================
