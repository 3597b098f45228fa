--------------------------- MODULE SorobanRegistry ---------------------------
(***************************************************************************)
(* What the Soroban contract (lib.rs) keeps for all vaults together.       *)
(*                                                                         *)
(* Upgrade governance: a contract-wide admin set, set once, approves Wasm  *)
(* hashes through a single pending proposal.  A call for another hash      *)
(* replaces the pending proposal; the approval that completes the          *)
(* threshold swaps the code in its own transaction.  migrate brings the    *)
(* schema version to the one of the running code.                          *)
(*                                                                         *)
(* Encryption keys and cross-chain identities: registration, revocation    *)
(* with rotation, the blacklist of revoked keys, and the links between EVM *)
(* and Stellar accounts with the copy of the key that                      *)
(* resolve_evm_to_public_key serves.  No entrypoint touches both, so each  *)
(* half has a specification of its own.                                    *)
(***************************************************************************)
EXTENDS Integers, Sequences, FiniteSets

CONSTANTS
    Addresses,
    Hashes,             \* Wasm hashes present on the ledger
    Deployed,           \* the hash the contract was deployed with
    SchemaOf,           \* CURRENT_SCHEMA_VERSION of each code
    MAX_CALLS           \* bound on the recorded approvals

ASSUME UpgradeConstants ==
    /\ IsFiniteSet(Addresses)
    /\ Deployed \in Hashes
    /\ SchemaOf \in [Hashes -> Nat]
    /\ MAX_CALLS \in Nat

VARIABLES
    admins, admin_threshold, schema_version,
    proposal,           \* UpgradeProposal: a set holding at most one record
    wasm,               \* hash of the running code
    calls               \* history: approvals as <<admin, hash>>, oldest first

upgradeVars == <<admins, admin_threshold, schema_version, proposal, wasm, calls>>

UpgradeInit ==
    /\ admins = {} /\ admin_threshold = 0 /\ schema_version = 0
    /\ proposal = {}
    /\ wasm = Deployed
    /\ calls = <<>>

init_admins(list, threshold) ==
    /\ admins = {}
    /\ threshold > 0 /\ threshold <= Cardinality(list)
    /\ admins' = list
    /\ admin_threshold' = threshold
    /\ schema_version' = SchemaOf[wasm]
    /\ UNCHANGED <<proposal, wasm, calls>>

\* Mutant: the approvals of the pending proposal are kept when the hash changes.
Approvals_carried(hash) == UNION {p.approved_by : p \in proposal}

\* Admins counted towards hash before this call: those of the pending proposal if it is
\* for the same hash, nobody otherwise.
Approvals(hash) == UNION {p.approved_by : p \in {q \in proposal : q.new_wasm_hash = hash}}

\* Mutant: the proposal is left in place by the call that executes it.
ExecuteOrStore_kept(hash, approved) ==
    /\ proposal' = {[new_wasm_hash |-> hash, approved_by |-> approved]}
    /\ wasm' = IF Cardinality(approved) >= admin_threshold THEN hash ELSE wasm

ExecuteOrStore(hash, approved) ==
    \/ /\ Cardinality(approved) >= admin_threshold
       /\ proposal' = {} /\ wasm' = hash
    \/ /\ Cardinality(approved) < admin_threshold
       /\ proposal' = {[new_wasm_hash |-> hash, approved_by |-> approved]}
       /\ UNCHANGED wasm

upgrade_contract(admin, hash) ==
    /\ Len(calls) < MAX_CALLS
    /\ admin \in admins
    /\ admin \notin Approvals(hash)
    /\ ExecuteOrStore(hash, Approvals(hash) \cup {admin})
    /\ calls' = Append(calls, <<admin, hash>>)
    /\ UNCHANGED <<admins, admin_threshold, schema_version>>

migrate(admin) ==
    /\ admin \in admins
    /\ schema_version < SchemaOf[wasm]
    /\ schema_version' = SchemaOf[wasm]
    /\ UNCHANGED <<admins, admin_threshold, proposal, wasm, calls>>

UpgradeNext ==
    \/ \E list \in SUBSET Addresses, t \in 0 .. Cardinality(Addresses) : init_admins(list, t)
    \/ \E a \in Addresses, h \in Hashes : upgrade_contract(a, h)
    \/ \E a \in Addresses : migrate(a)

UpgradeSpec == UpgradeInit /\ [][UpgradeNext]_upgradeVars
-----------------------------------------------------------------------------
\* Types; at most one proposal is pending (DataKey::UpgradeProposal is a single slot).
UpgradeTypeOK ==
    /\ admins \in SUBSET Addresses /\ admin_threshold \in 0 .. Cardinality(Addresses)
    /\ schema_version \in Nat
    /\ proposal \in SUBSET [new_wasm_hash : Hashes, approved_by : SUBSET Addresses]
    /\ \A p, q \in proposal : p = q
    /\ wasm \in Hashes
    /\ calls \in Seq(Addresses \X Hashes)

\* The places of the last n entries of a history.
Latest(s, n) == {i \in 1 .. Len(s) : i > Len(s) - n}

\* A pending proposal never holds a quorum, and its approvers are the admins of the latest
\* calls, all for its hash: what was approved before another hash came in does not count.
ProposalIsLatestRun ==
    \A p \in proposal :
       LET run == Latest(calls, Cardinality(p.approved_by))
       IN  /\ p.approved_by # {} /\ Cardinality(p.approved_by) < admin_threshold
           /\ p.approved_by = {calls[i][1] : i \in run}
           /\ \A i \in run : calls[i][2] = p.new_wasm_hash

\* The code changes only when the latest admin_threshold calls are distinct admins' approvals
\* of the new hash, with no call for another hash in between.
UpgradedByQuorum ==
    wasm' # wasm =>
       LET run == Latest(calls', admin_threshold)
       IN  /\ Cardinality({calls'[i][1] : i \in run}) = admin_threshold
           /\ \A i \in run : calls'[i][1] \in admins /\ calls'[i][2] = wasm'
UpgradeNeedsQuorum == [][UpgradedByQuorum]_upgradeVars

\* The running code of the Soroban contract changes only by a quorum of the admins for that hash,
\* and the pending proposal holds exactly the approvals since the hash last changed
\* (lib.rs: upgrade_contract).
UpgradesAreVoted == [](UpgradeTypeOK /\ ProposalIsLatestRun) /\ UpgradeNeedsQuorum
-----------------------------------------------------------------------------
(* Keys and identities. *)

CONSTANTS
    Users, Keys, EvmAddresses,
    EmptyKey,      \* the empty string, which register_public_key accepts
    None           \* an absent entry

ASSUME KeyConstants ==
    /\ None \notin Users \cup Keys \cup EvmAddresses
    /\ EmptyKey \in Keys

VARIABLES
    pub_key,          \* PubKey
    revoked,          \* RevokedKey entries
    evm_to_stellar, stellar_to_evm,
    evm_to_pub_key,   \* EvmToPubKey: the key given when the identity was registered
    revoked_by        \* history: <<user, key>> of every revocation

keyVars == <<pub_key, revoked, evm_to_stellar, stellar_to_evm, evm_to_pub_key, revoked_by>>

KeyInit ==
    /\ pub_key = [u \in Users |-> None]
    /\ revoked = {}
    /\ evm_to_stellar = [e \in EvmAddresses |-> None]
    /\ stellar_to_evm = [u \in Users |-> None]
    /\ evm_to_pub_key = [e \in EvmAddresses |-> None]
    /\ revoked_by = {}

\* Mutant: the blacklist is not consulted.
register_public_key_any(user, key) ==
    /\ pub_key' = [pub_key EXCEPT ![user] = key]
    /\ UNCHANGED <<revoked, evm_to_stellar, stellar_to_evm, evm_to_pub_key, revoked_by>>

register_public_key(user, key) ==
    /\ key \notin revoked
    /\ pub_key' = [pub_key EXCEPT ![user] = key]
    /\ UNCHANGED <<revoked, evm_to_stellar, stellar_to_evm, evm_to_pub_key, revoked_by>>

revoke_key(user, old, new) ==
    /\ new # EmptyKey /\ old # new /\ new \notin revoked
    /\ pub_key[user] = old
    /\ old \notin revoked
    /\ revoked' = revoked \cup {old}
    /\ pub_key' = [pub_key EXCEPT ![user] = new]
    /\ revoked_by' = revoked_by \cup {<<user, old>>}
    /\ UNCHANGED <<evm_to_stellar, stellar_to_evm, evm_to_pub_key>>

\* Mutant: the link's copy of the key is stored without consulting the blacklist.
register_cross_chain_identity_any(user, evm, key) ==
    /\ evm_to_stellar' = [evm_to_stellar EXCEPT ![evm] = user]
    /\ stellar_to_evm' = [stellar_to_evm EXCEPT ![user] = evm]
    /\ evm_to_pub_key' = [evm_to_pub_key EXCEPT ![evm] = IF key = None THEN @ ELSE key]
    /\ pub_key' = [pub_key EXCEPT ![user] = IF key \in revoked \cup {None} THEN @ ELSE key]
    /\ UNCHANGED <<revoked, revoked_by>>

\* The links in both directions are overwritten; an entry that pointed at the account or at
\* the EVM address before is left behind.
register_cross_chain_identity(user, evm, key) ==
    /\ key \notin revoked
    /\ evm_to_stellar' = [evm_to_stellar EXCEPT ![evm] = user]
    /\ stellar_to_evm' = [stellar_to_evm EXCEPT ![user] = evm]
    /\ evm_to_pub_key' = [evm_to_pub_key EXCEPT ![evm] = IF key = None THEN @ ELSE key]
    /\ pub_key' = [pub_key EXCEPT ![user] = IF key = None THEN @ ELSE key]
    /\ UNCHANGED <<revoked, revoked_by>>

KeyNext ==
    \E user \in Users :
       \/ \E key \in Keys : register_public_key(user, key)
       \/ \E old, new \in Keys : revoke_key(user, old, new)
       \/ \E evm \in EvmAddresses, key \in Keys \cup {None} :
             register_cross_chain_identity(user, evm, key)

KeySpec == KeyInit /\ [][KeyNext]_keyVars
-----------------------------------------------------------------------------
\* Types; the blacklist holds exactly the keys that somebody revoked.
KeyTypeOK ==
    /\ pub_key \in [Users -> Keys \cup {None}]
    /\ revoked \subseteq Keys /\ revoked = {p[2] : p \in revoked_by}
    /\ evm_to_stellar \in [EvmAddresses -> Users \cup {None}]
    /\ stellar_to_evm \in [Users -> EvmAddresses \cup {None}]
    /\ evm_to_pub_key \in [EvmAddresses -> Keys \cup {None}]
    /\ revoked_by \subseteq Users \X Keys

\* Whoever revoked a key never has it registered again, neither directly nor through an
\* identity link, and each key is revoked by one holder only.
RevokedNeverReturns ==
    /\ \A p \in revoked_by : pub_key[p[1]] # p[2]
    /\ \A p, q \in revoked_by : p[2] = q[2] => p = q

\* No step takes a key off the blacklist or writes one that is on it to an account or a link.
WritesNoRevoked ==
    /\ revoked \subseteq revoked'
    /\ \A u \in Users : pub_key'[u] # pub_key[u] => pub_key'[u] \notin revoked'
    /\ \A e \in EvmAddresses :
          evm_to_pub_key'[e] # evm_to_pub_key[e] => evm_to_pub_key'[e] \notin revoked'

\* A key on the blacklist is written to no account and no identity link, by any entrypoint.
BlacklistIsFinal == [][WritesNoRevoked]_keyVars

\* A key that was revoked is no user's key again, and stays on the blacklist (lib.rs: revoke_key,
\* register_public_key, register_cross_chain_identity).
RevocationOfKeysHolds == [](KeyTypeOK /\ RevokedNeverReturns) /\ BlacklistIsFinal
==============================================================================
