--------------------------- MODULE CrossChainRelay --------------------------
(***************************************************************************)
(* src/services/crossChainRelayer.service.ts and                           *)
(* crossChainHeartbeat.service.ts: signed approvals and revocations carried*)
(* from the EVM chain to Soroban by a service that remembers in memory what*)
(* it has processed, and heartbeats recorded on both chains in turn.       *)
(*                                                                         *)
(* A message is delivered any number of times, in any order.  Only messages*)
(* whose MAC verifies are modelled: the others are rejected first and      *)
(* change nothing.                                                         *)
(***************************************************************************)
EXTENDS Integers, FiniteSets
CONSTANTS
    Trackings,         \* (vault, guardian, approval type, chains) of an approval
    Grants,            \* (vault, document, user) of a revocation
    Nonces,            \* subset of Nat
    Devices,           \* callers of synchronizeHeartbeat
    TTL,               \* DEFAULT_APPROVAL_MESSAGE_TTL_MS
    MAX_CLOCK, MAX_RESTARTS

ASSUME CrossConstants == Nonces \subseteq Nat

NoNonce == -1          \* payload.nonce undefined

VARIABLES
    crossClock, restarts,
    processedHashes, lastApprovalNonces, lastRevocationNonces,  \* the service's memory
    accepted,          \* history: how often each approval was accepted
    contractNonce,     \* RevocationNonce of the Soroban contract
    revocations,       \* history: nonces the contract applied, per grant, in order
    relaying,          \* revocations accepted by the service, on their way to the contract
    evmProof, stellarProof, heartbeat  \* proofs of life; per device, the synchronisation under way

memory    == <<processedHashes, lastApprovalNonces, lastRevocationNonces>>
crossVars == <<crossClock, restarts, memory, accepted, contractNonce, revocations, relaying,
               evmProof, stellarProof, heartbeat>>

\* normalizeApprovalPayload: the expiry is the default one.
Approvals == [key : Trackings, nonce : Nonces \cup {NoNonce}, timestamp : 0 .. MAX_CLOCK]
NoBeat == [pc |-> "idle", timestamp |-> 0]

CrossInit ==
    /\ crossClock = 0 /\ restarts = 0 /\ accepted = [m \in Approvals |-> 0] /\ relaying = {}
    /\ processedHashes = {} /\ lastApprovalNonces = [k \in Trackings |-> 0]
    /\ lastRevocationNonces = [g \in Grants |-> 0]
    /\ contractNonce = [g \in Grants |-> 0] /\ revocations = [g \in Grants |-> {}]
    /\ evmProof = 0 /\ stellarProof = 0 /\ heartbeat = [d \in Devices |-> NoBeat]

CrossTick ==
    /\ crossClock < MAX_CLOCK /\ crossClock' = crossClock + 1
    /\ UNCHANGED <<restarts, memory, accepted, contractNonce, revocations, relaying,
                   evmProof, stellarProof, heartbeat>>

\* The service starts anew: its maps are empty.
Restart ==
    /\ restarts < MAX_RESTARTS /\ restarts' = restarts + 1
    /\ processedHashes' = {} /\ lastApprovalNonces' = [k \in Trackings |-> 0]
    /\ lastRevocationNonces' = [g \in Grants |-> 0] /\ relaying' = {}
    /\ UNCHANGED <<crossClock, accepted, contractNonce, revocations, evmProof, stellarProof, heartbeat>>

\* Mutant: a message without a nonce is not looked up.
processMessage_nonceOnly(m) ==
    /\ crossClock <= m.timestamp + TTL
    /\ m.nonce # NoNonce => m.nonce > lastApprovalNonces[m.key]
    /\ lastApprovalNonces' = IF m.nonce = NoNonce THEN lastApprovalNonces
                             ELSE [lastApprovalNonces EXCEPT ![m.key] = m.nonce]
    /\ processedHashes' = processedHashes \cup {m}
    /\ accepted' = [accepted EXCEPT ![m] = @ + 1]
    /\ UNCHANGED <<crossClock, restarts, lastRevocationNonces, contractNonce, revocations, relaying,
                   evmProof, stellarProof, heartbeat>>

\* processMessage: an approval in time, not processed before, and with a newer nonce if it
\* has one.
processMessage(m) ==
    /\ crossClock <= m.timestamp + TTL
    /\ m \notin processedHashes
    /\ m.nonce # NoNonce => m.nonce > lastApprovalNonces[m.key]
    /\ lastApprovalNonces' = IF m.nonce = NoNonce THEN lastApprovalNonces
                             ELSE [lastApprovalNonces EXCEPT ![m.key] = m.nonce]
    /\ processedHashes' = processedHashes \cup {m}
    /\ accepted' = [accepted EXCEPT ![m] = @ + 1]
    /\ UNCHANGED <<crossClock, restarts, lastRevocationNonces, contractNonce, revocations, relaying,
                   evmProof, stellarProof, heartbeat>>

\* processRevocationBroadcast: a newer nonce for the grant; the payload is handed on.
processRevocationBroadcast(g, n) ==
    /\ n > lastRevocationNonces[g]
    /\ lastRevocationNonces' = [lastRevocationNonces EXCEPT ![g] = n]
    /\ relaying' = relaying \cup {<<g, n>>}
    /\ UNCHANGED <<crossClock, restarts, processedHashes, lastApprovalNonces, accepted, contractNonce,
                   revocations, evmProof, stellarProof, heartbeat>>

\* Mutant: the contract takes any nonce, and leaves the order to the service.
relayRevocation_any(g, n) ==
    /\ <<g, n>> \in relaying /\ relaying' = relaying \ {<<g, n>>}
    /\ contractNonce' = [contractNonce EXCEPT ![g] = n]
    /\ revocations' = [revocations EXCEPT ![g] = @ \cup {<<n, Cardinality(@)>>}]
    /\ UNCHANGED <<crossClock, restarts, memory, accepted, evmProof, stellarProof, heartbeat>>

\* relayRevocationToSoroban and relay_revoke_access: revocations may overtake each other on
\* the way; the contract has the last word on the nonce.
relayRevocationToSoroban(g, n) ==
    /\ <<g, n>> \in relaying /\ relaying' = relaying \ {<<g, n>>}
    /\ IF n > contractNonce[g]
       THEN /\ contractNonce' = [contractNonce EXCEPT ![g] = n]
            /\ revocations' = [revocations EXCEPT ![g] = @ \cup {<<n, Cardinality(@)>>}]
       ELSE UNCHANGED <<contractNonce, revocations>>
    /\ UNCHANGED <<crossClock, restarts, memory, accepted, evmProof, stellarProof, heartbeat>>
-----------------------------------------------------------------------------
\* synchronizeHeartbeat up to the EVM transaction: the timestamp is taken and signed.
signHeartbeatPayload(d) ==
    /\ heartbeat[d].pc = "idle"
    /\ heartbeat' = [heartbeat EXCEPT ![d] = [pc |-> "evm", timestamp |-> crossClock]]
    /\ UNCHANGED <<crossClock, restarts, memory, accepted, contractNonce, revocations, relaying,
                   evmProof, stellarProof>>

\* recordProofOfLife: the EVM chain notes its own time, or the call fails and so does the
\* synchronisation.
recordProofOfLife(d) ==
    /\ heartbeat[d].pc = "evm"
    /\ \/ evmProof' = crossClock /\ heartbeat' = [heartbeat EXCEPT ![d].pc = "stellar"]
       \/ heartbeat' = [heartbeat EXCEPT ![d] = NoBeat] /\ UNCHANGED evmProof
    /\ UNCHANGED <<crossClock, restarts, memory, accepted, contractNonce, revocations, relaying,
                   stellarProof>>

\* Mutant: both chains are written at once, in no order.
syncProofOfLife_first(d) ==
    /\ heartbeat[d].pc \in {"evm", "stellar"}
    /\ stellarProof' = heartbeat[d].timestamp /\ heartbeat' = [heartbeat EXCEPT ![d] = NoBeat]
    /\ UNCHANGED <<crossClock, restarts, memory, accepted, contractNonce, revocations, relaying,
                   evmProof>>

\* syncProofOfLife: the signed timestamp goes to Soroban, or the call fails.
syncProofOfLife(d) ==
    /\ heartbeat[d].pc = "stellar" /\ heartbeat' = [heartbeat EXCEPT ![d] = NoBeat]
    /\ stellarProof' \in {stellarProof, heartbeat[d].timestamp}
    /\ UNCHANGED <<crossClock, restarts, memory, accepted, contractNonce, revocations, relaying,
                   evmProof>>

ApprovalNext == \E m \in Approvals : processMessage(m)

RevocationNext ==
    \E g \in Grants, n \in Nonces :
       processRevocationBroadcast(g, n) \/ relayRevocationToSoroban(g, n)

HeartbeatNext ==
    \E d \in Devices : signHeartbeatPayload(d) \/ recordProofOfLife(d) \/ syncProofOfLife(d)

CrossNext == CrossTick \/ Restart \/ ApprovalNext \/ RevocationNext \/ HeartbeatNext

CrossSpec == CrossInit /\ [][CrossNext]_crossVars
-----------------------------------------------------------------------------
\* An approval is accepted once in the life of the service, with or without a nonce, and
\* again only after a restart (processMessage).
AcceptedOnce == \A m \in Approvals : accepted[m] <= 1 + restarts

\* Revocations of a grant take effect in the order of their nonces and each of them once,
\* over restarts that empty lastRevocationNonces (processRevocationBroadcast and the
\* contract's nonce together).
RevocationsInOrder ==
    \A g \in Grants : \A x, y \in revocations[g] : x[2] < y[2] => x[1] < y[1]

\* Soroban never believes the owner to have been alive later than the EVM chain does, however
\* the synchronisations of two devices interleave and fail (synchronizeHeartbeat).
StellarNeverAhead == stellarProof <= evmProof

\* Across the chains nothing is done twice or out of order: approvals are accepted once per life of
\* the service, revocations take effect in the order of their nonces, and Soroban never believes
\* the owner alive later than the EVM chain does (the cross-chain relayer and heartbeat services).
ChainsStayInStep == AcceptedOnce /\ RevocationsInOrder /\ StellarNeverAhead
=============================================================================
