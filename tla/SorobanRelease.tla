--------------------------- MODULE SorobanRelease ---------------------------
(***************************************************************************)
(* The dead man's switch of one Soroban vault (contracts-stellar/src/      *)
(* lib.rs): proofs of life by the creator, by a delegated keeper and by a  *)
(* relayed cross-chain heartbeat, the inactivity period, emergency mode    *)
(* with its randomised unlock schedule, deactivation, and the release      *)
(* conditions that requests for documents are checked against.             *)
(*                                                                         *)
(* Every entrypoint is one transaction: it either runs to its end or       *)
(* panics and leaves no trace, so each is one action whose guard is the    *)
(* conjunction of the entrypoint's assertions.  The ledger has two clocks, *)
(* the close time and the sequence number; several transactions may run    *)
(* between two ledger closes.                                              *)
(***************************************************************************)
EXTENDS Integers

CONSTANTS
    Accounts,     \* Stellar accounts that submit transactions
    Creator,      \* the account that created the vault
    NoOne,        \* stands for an absent keeper or relayer
    Gids,         \* global vault ids a heartbeat may name
    EvmKeys,      \* secp256k1 keys of EVM owners
    TickSteps,    \* seconds one ledger close may add to the close time
    ExpiryTimes,  \* expiry times a keeper grant may carry
    MIN_POST_DEATH_SEQUENCE_DELTA,
    EMERGENCY_UNLOCK_BASE_DELAY,
    DEFAULT_EMERGENCY_JITTER_WINDOW,
    MIN_JITTER_WINDOW,
    MAX_JITTER_WINDOW,
    MIN_EMERGENCY_UNLOCK_CONFIRMATIONS,
    MIN_EMERGENCY_UNLOCK_SEQUENCE_DELTA,
    EMERGENCY_SECONDS_PER_LEDGER,
    HEARTBEAT_SKEW,              \* 300 s in sync_proof_of_life
    DEFAULT_INACTIVITY_PERIOD,   \* 30 days in create_vault
    MIN_INACTIVITY_PERIOD,       \* 1 day in configure_vault_release
    MAX_INACTIVITY_PERIOD,       \* 365 days in configure_vault_release
    MAX_TIME,                    \* bound: the close time stops here
    MAX_CYCLE,                   \* bound: emergency cycles per vault
    OWNER_HORIZON,               \* the owner takes no step after this time
    RELAY_HORIZON                \* bound: no heartbeat is relayed after this time

ASSUME AccountsAssumption == Creator \in Accounts /\ NoOne \notin Accounts

ASSUME ClockAssumption ==
    /\ TickSteps \subseteq Nat \ {0}
    /\ ExpiryTimes \subseteq Nat
    /\ MAX_TIME \in Nat /\ MAX_CYCLE \in Nat
    /\ OWNER_HORIZON \in Nat /\ RELAY_HORIZON \in Nat

ASSUME DelayAssumption ==
    /\ MIN_POST_DEATH_SEQUENCE_DELTA \in Nat \ {0}
    /\ EMERGENCY_UNLOCK_BASE_DELAY \in Nat
    /\ MIN_JITTER_WINDOW \in Nat \ {0}
    /\ MAX_JITTER_WINDOW \in Nat
    /\ DEFAULT_EMERGENCY_JITTER_WINDOW \in MIN_JITTER_WINDOW .. MAX_JITTER_WINDOW
    /\ MIN_EMERGENCY_UNLOCK_CONFIRMATIONS \in Nat
    /\ MIN_EMERGENCY_UNLOCK_SEQUENCE_DELTA \in Nat
    /\ EMERGENCY_SECONDS_PER_LEDGER \in Nat \ {0}
    /\ HEARTBEAT_SKEW \in Nat
    /\ MIN_INACTIVITY_PERIOD \in Nat /\ MAX_INACTIVITY_PERIOD \in Nat
    /\ DEFAULT_INACTIVITY_PERIOD \in MIN_INACTIVITY_PERIOD .. MAX_INACTIVITY_PERIOD

VARIABLES
    timestamp,                    \* close time of the current ledger
    sequence,                     \* sequence number of the current ledger
    is_active,
    emergency_mode,
    inactivity_period,
    last_proof_of_life,
    last_proof_of_life_sequence,
    keeper_auth,                  \* KeeperAuth(vault)
    heartbeat_binding,            \* CrossChainHeartbeat(vault)
    schedule,                     \* EmergencyUnlock(vault)
    cycle,                        \* EmergencyUnlockCycle(vault)
    jitter_window,                \* EmergencyJitterWindow(vault)
    owner_seen,                   \* history: latest time the owner is known to have acted
    enabled_at                    \* history: when the current emergency began

clock    == <<timestamp, sequence>>
release  == <<emergency_mode, inactivity_period>>
life     == <<last_proof_of_life, last_proof_of_life_sequence>>
delegate == <<keeper_auth, heartbeat_binding>>
unlock   == <<schedule, cycle, jitter_window>>
history  == <<owner_seen, enabled_at>>
vars     == <<clock, is_active, release, life, delegate, unlock, history>>

KeeperAuthorization == [keeper : Accounts \cup {NoOne}, expires_at : Nat]

\* An EVM owner is 20 bytes of a hash of the key's uncompressed SEC-1 form:
\* an Ethereum address hashes the 64 bytes of the point, "sec1" all 65 bytes.
EvmOwners     == [key : EvmKeys, hashed : {"point", "sec1"}]
EthAddress(k) == [key |-> k, hashed |-> "point"]
NoOwner       == [key |-> NoOne, hashed |-> "point"]

CrossChainHeartbeatBinding ==
    [relayer : Accounts \cup {NoOne}, gid : Gids \cup {NoOne}, evm_owner : EvmOwners \cup {NoOwner}]

\* Cycle 0 stands for "no schedule stored": a stored one has a cycle >= 1.
EmergencyUnlockSchedule ==
    [cycle : Nat, request_sequence : Nat, fulfilled : BOOLEAN,
     unlock_at : Nat, unlock_sequence : Nat, jitter_seconds : Nat]
NoSchedule == [cycle |-> 0, request_sequence |-> 0, fulfilled |-> FALSE,
               unlock_at |-> 0, unlock_sequence |-> 0, jitter_seconds |-> 0]

NoKeeper  == [keeper |-> NoOne, expires_at |-> 0]
NoBinding == [relayer |-> NoOne, gid |-> NoOne, evm_owner |-> NoOwner]

Later(a, b) == IF a >= b THEN a ELSE b
-----------------------------------------------------------------------------
(* The release conditions. *)

is_dead ==
    /\ timestamp >= last_proof_of_life + inactivity_period
    /\ sequence >= last_proof_of_life_sequence + MIN_POST_DEATH_SEQUENCE_DELTA

is_emergency_unlock_mature ==
    /\ schedule.fulfilled
    /\ timestamp >= schedule.unlock_at
    /\ sequence >= schedule.unlock_sequence

is_release_condition_satisfied(condition) ==
    \/ condition = "Anytime"
    \/ condition = "LiveOnly" /\ ~is_dead
    \/ condition = "EmergencyOnly" /\ (is_dead \/ (emergency_mode /\ is_emergency_unlock_mature))
    \/ condition = "PostDeathOnly" /\ is_dead
-----------------------------------------------------------------------------
Init ==
    /\ timestamp = 0 /\ sequence = 0
    /\ is_active = TRUE
    /\ emergency_mode = FALSE
    /\ inactivity_period = DEFAULT_INACTIVITY_PERIOD
    /\ last_proof_of_life = 0 /\ last_proof_of_life_sequence = 0
    /\ keeper_auth = NoKeeper
    /\ heartbeat_binding = NoBinding
    /\ schedule = NoSchedule /\ cycle = 0
    /\ jitter_window = DEFAULT_EMERGENCY_JITTER_WINDOW
    /\ owner_seen = 0 /\ enabled_at = 0

\* A ledger closes: its sequence number is the next one, its close time later.
CloseLedger ==
    \E d \in TickSteps :
        /\ timestamp + d <= MAX_TIME
        /\ timestamp' = timestamp + d
        /\ sequence' = sequence + 1
        /\ UNCHANGED <<is_active, release, life, delegate, unlock, history>>

\* require_auth of the creator: the owner is acting now.
OwnerActs(owner) ==
    /\ owner = Creator
    /\ timestamp <= OWNER_HORIZON
    /\ owner_seen' = Later(owner_seen, timestamp)

\* Mutant: the ledger sequence of the proof of life is not refreshed.
RecordProofOfLife_time_only(at) ==
    /\ last_proof_of_life' = at
    /\ UNCHANGED last_proof_of_life_sequence

RecordProofOfLife(at) ==
    /\ last_proof_of_life' = at
    /\ last_proof_of_life_sequence' = sequence

prove_life(owner) ==
    /\ OwnerActs(owner)
    /\ is_active
    /\ RecordProofOfLife(timestamp)
    /\ UNCHANGED <<clock, is_active, release, delegate, unlock, enabled_at>>

authorize_keeper(owner, keeper, expires_at) ==
    /\ OwnerActs(owner)
    /\ is_active
    /\ expires_at > timestamp
    /\ keeper_auth' = [keeper |-> keeper, expires_at |-> expires_at]
    /\ UNCHANGED <<clock, is_active, release, life, heartbeat_binding, unlock, enabled_at>>

revoke_keeper(owner) ==
    /\ OwnerActs(owner)
    /\ keeper_auth' = NoKeeper
    /\ UNCHANGED <<clock, is_active, release, life, heartbeat_binding, unlock, enabled_at>>

\* Mutant: the keeper's grant is used without looking at its expiry.
prove_life_by_keeper_expired(keeper) ==
    /\ is_active
    /\ keeper_auth.keeper = keeper
    /\ RecordProofOfLife(timestamp)
    /\ UNCHANGED <<clock, is_active, release, delegate, unlock, history>>

prove_life_by_keeper(keeper) ==
    /\ is_active
    /\ keeper_auth.keeper = keeper
    /\ timestamp < keeper_auth.expires_at
    /\ RecordProofOfLife(timestamp)
    /\ UNCHANGED <<clock, is_active, release, delegate, unlock, history>>

bind_cross_chain_heartbeat(owner, gid, evm_owner, relayer) ==
    /\ OwnerActs(owner)
    /\ is_active
    /\ heartbeat_binding' = [relayer |-> relayer, gid |-> gid, evm_owner |-> evm_owner]
    /\ UNCHANGED <<clock, is_active, release, life, keeper_auth, unlock, enabled_at>>

\* secp256k1_recover yields all 65 bytes of the key and they are hashed as they are.
recovered_owner(key) == [key |-> key, hashed |-> "sec1"]

\* Mutant: a heartbeat stamped arbitrarily far ahead is accepted.
sync_proof_of_life_future(relayer, gid, evm_owner, at, key) ==
    /\ heartbeat_binding = [relayer |-> relayer, gid |-> gid, evm_owner |-> evm_owner]
    /\ at > last_proof_of_life
    /\ recovered_owner(key) = evm_owner
    /\ RecordProofOfLife(at)
    /\ owner_seen' = Later(owner_seen, at)
    /\ UNCHANGED <<clock, is_active, release, delegate, unlock, enabled_at>>

\* A relayer submits a heartbeat signed with an EVM key over (gid, owner, at).
sync_proof_of_life(relayer, gid, evm_owner, at, key) ==
    /\ heartbeat_binding.relayer = relayer
    /\ heartbeat_binding.gid = gid
    /\ heartbeat_binding.evm_owner = evm_owner
    /\ at > last_proof_of_life
    /\ at <= timestamp + HEARTBEAT_SKEW
    /\ recovered_owner(key) = evm_owner
    /\ RecordProofOfLife(at)
    /\ owner_seen' = Later(owner_seen, at)
    /\ UNCHANGED <<clock, is_active, release, delegate, unlock, enabled_at>>

configure_vault_release(owner, period) ==
    /\ OwnerActs(owner)
    /\ is_active
    /\ period \in MIN_INACTIVITY_PERIOD .. MAX_INACTIVITY_PERIOD
    /\ inactivity_period' = period
    /\ UNCHANGED <<clock, is_active, emergency_mode, life, delegate, unlock, enabled_at>>

PendingSchedule(c) ==
    [cycle |-> c, request_sequence |-> sequence, fulfilled |-> FALSE,
     unlock_at |-> 0, unlock_sequence |-> 0, jitter_seconds |-> 0]

\* Mutant: the schedule carries the cycle read before the increment.
enable_emergency_mode_old_cycle(owner) ==
    /\ OwnerActs(owner)
    /\ is_active
    /\ schedule = NoSchedule \/ schedule.fulfilled
    /\ cycle < MAX_CYCLE
    /\ emergency_mode' = TRUE
    /\ cycle' = cycle + 1
    /\ schedule' = PendingSchedule(cycle)
    /\ enabled_at' = timestamp
    /\ UNCHANGED <<clock, is_active, inactivity_period, life, delegate, jitter_window>>

\* set_emergency_mode(true): starts a cycle unless one is still waiting for its draw.
enable_emergency_mode(owner) ==
    /\ OwnerActs(owner)
    /\ is_active
    /\ schedule = NoSchedule \/ schedule.fulfilled
    /\ cycle < MAX_CYCLE
    /\ emergency_mode' = TRUE
    /\ cycle' = cycle + 1
    /\ schedule' = PendingSchedule(cycle + 1)
    /\ enabled_at' = timestamp
    /\ UNCHANGED <<clock, is_active, inactivity_period, life, delegate, jitter_window>>

\* set_emergency_mode(false): drops the schedule, keeps the cycle counter.
disable_emergency_mode(owner) ==
    /\ OwnerActs(owner)
    /\ is_active
    /\ emergency_mode' = FALSE
    /\ schedule' = NoSchedule
    /\ UNCHANGED <<clock, is_active, inactivity_period, life, delegate, cycle, jitter_window, enabled_at>>

set_emergency_jitter_window(owner, window) ==
    /\ OwnerActs(owner)
    /\ window \in MIN_JITTER_WINDOW .. MAX_JITTER_WINDOW
    /\ jitter_window' = window
    /\ UNCHANGED <<clock, is_active, release, life, delegate, schedule, cycle, enabled_at>>

base_delay_ledgers == EMERGENCY_UNLOCK_BASE_DELAY \div EMERGENCY_SECONDS_PER_LEDGER

\* Mutant: the jitter is recorded but delays nothing.
DrawnSchedule_no_jitter(jitter) ==
    [cycle |-> schedule.cycle,
     request_sequence |-> schedule.request_sequence,
     fulfilled |-> TRUE,
     unlock_at |-> timestamp + EMERGENCY_UNLOCK_BASE_DELAY,
     unlock_sequence |-> sequence + base_delay_ledgers + MIN_EMERGENCY_UNLOCK_SEQUENCE_DELTA,
     jitter_seconds |-> jitter]

DrawnSchedule(jitter) ==
    [cycle |-> schedule.cycle,
     request_sequence |-> schedule.request_sequence,
     fulfilled |-> TRUE,
     unlock_at |-> timestamp + EMERGENCY_UNLOCK_BASE_DELAY + jitter,
     unlock_sequence |-> sequence + base_delay_ledgers
                           + MIN_EMERGENCY_UNLOCK_SEQUENCE_DELTA
                           + jitter \div EMERGENCY_SECONDS_PER_LEDGER,
     jitter_seconds |-> jitter]

\* Mutant: a schedule that is already drawn can be drawn again.
fulfill_emergency_unlock_delay_again(jitter) ==
    /\ emergency_mode
    /\ schedule # NoSchedule
    /\ sequence >= schedule.request_sequence + MIN_EMERGENCY_UNLOCK_CONFIRMATIONS
    /\ jitter < jitter_window
    /\ schedule' = DrawnSchedule(jitter)
    /\ UNCHANGED <<clock, is_active, release, life, delegate, cycle, jitter_window, history>>

\* Anyone may fulfil; the jitter is the host's random word modulo the window.
fulfill_emergency_unlock_delay(jitter) ==
    /\ emergency_mode
    /\ schedule # NoSchedule
    /\ ~schedule.fulfilled
    /\ schedule.cycle = cycle /\ schedule.cycle # 0
    /\ sequence >= schedule.request_sequence + MIN_EMERGENCY_UNLOCK_CONFIRMATIONS
    /\ jitter < jitter_window
    /\ schedule' = DrawnSchedule(jitter)
    /\ UNCHANGED <<clock, is_active, release, life, delegate, cycle, jitter_window, history>>

deactivate_vault(owner) ==
    /\ OwnerActs(owner)
    /\ is_active
    /\ is_active' = FALSE
    /\ UNCHANGED <<clock, release, life, delegate, unlock, enabled_at>>

\* A heartbeat is stamped by its EVM owner, so no stamp is later than the owner's last act.
SyncProofOfLife ==
    /\ timestamp <= RELAY_HORIZON
    /\ \E relayer \in Accounts, gid \in Gids, evm_owner \in EvmOwners,
          at \in 0 .. OWNER_HORIZON, key \in EvmKeys :
             sync_proof_of_life(relayer, gid, evm_owner, at, key)

FulfillEmergencyUnlockDelay ==
    \E jitter \in 0 .. MAX_JITTER_WINDOW - 1 : fulfill_emergency_unlock_delay(jitter)

OwnerStep(owner) ==
    \/ prove_life(owner)
    \/ \E keeper \in Accounts, e \in ExpiryTimes : authorize_keeper(owner, keeper, e)
    \/ revoke_keeper(owner)
    \/ \E gid \in Gids, evm_owner \in EvmOwners, relayer \in Accounts :
          bind_cross_chain_heartbeat(owner, gid, evm_owner, relayer)
    \/ \E p \in 0 .. MAX_INACTIVITY_PERIOD + 1 : configure_vault_release(owner, p)
    \/ enable_emergency_mode(owner)
    \/ disable_emergency_mode(owner)
    \/ \E w \in 0 .. MAX_JITTER_WINDOW + 1 : set_emergency_jitter_window(owner, w)
    \/ deactivate_vault(owner)

Next ==
    \/ CloseLedger
    \/ \E owner \in Accounts : OwnerStep(owner)
    \/ \E keeper \in Accounts : prove_life_by_keeper(keeper)
    \/ SyncProofOfLife
    \/ FulfillEmergencyUnlockDelay

Spec == Init /\ [][Next]_vars

\* Ledgers keep closing and, fulfilment being open to everyone, someone sends it.
FairSpec == Spec /\ WF_vars(CloseLedger) /\ WF_vars(FulfillEmergencyUnlockDelay)
-----------------------------------------------------------------------------
(* Properties. *)

TypeOK ==
    /\ timestamp \in Nat /\ sequence \in Nat
    /\ is_active \in BOOLEAN /\ emergency_mode \in BOOLEAN
    /\ inactivity_period \in MIN_INACTIVITY_PERIOD .. MAX_INACTIVITY_PERIOD
    /\ last_proof_of_life \in Nat /\ last_proof_of_life_sequence \in Nat
    /\ keeper_auth \in KeeperAuthorization
    /\ heartbeat_binding \in CrossChainHeartbeatBinding
    /\ schedule \in EmergencyUnlockSchedule /\ cycle \in Nat
    /\ jitter_window \in MIN_JITTER_WINDOW .. MAX_JITTER_WINDOW
    /\ owner_seen \in Nat /\ enabled_at \in Nat

\* A schedule is stored exactly while emergency mode is on, and it is the one of
\* the current cycle: set_emergency_mode writes the flag, the cycle and the
\* schedule under three keys, and fulfilment refuses a schedule of another cycle.
ScheduleMatchesEmergency ==
    /\ emergency_mode <=> schedule # NoSchedule
    /\ emergency_mode => schedule.cycle = cycle /\ cycle > 0

\* While the owner is not presumed dead, emergency documents open only after the
\* base delay and the drawn jitter counted from the moment emergency mode was
\* switched on, and after the confirmation, base-delay, safety and jitter ledgers
\* counted from the request, no matter how the request, the draw, re-requests and
\* changes of the jitter window interleave.
EmergencyNotBeforeDelay ==
    is_release_condition_satisfied("EmergencyOnly") /\ ~is_dead =>
        /\ timestamp >= enabled_at + EMERGENCY_UNLOCK_BASE_DELAY + schedule.jitter_seconds
        /\ sequence >= schedule.request_sequence
                         + MIN_EMERGENCY_UNLOCK_CONFIRMATIONS
                         + base_delay_ledgers
                         + MIN_EMERGENCY_UNLOCK_SEQUENCE_DELTA
                         + schedule.jitter_seconds \div EMERGENCY_SECONDS_PER_LEDGER

\* The recorded proof of life is never later than the owner's own last act (a
\* call or a heartbeat stamp) except under a keeper grant the owner has not
\* withdrawn, and then it is earlier than the grant's expiry: a keeper cannot
\* keep a vault alive on its own past the time it was given.
LifeIsAttested ==
    \/ last_proof_of_life <= owner_seen
    \/ keeper_auth # NoKeeper /\ last_proof_of_life < keeper_auth.expires_at

\* Accepting a sign of life, from the owner, a keeper or a late relay, always
\* ends the presumption of death: both clocks must run again from it.
SignOfLifeRevives ==
    [][last_proof_of_life' # last_proof_of_life => ~is_dead']_vars

\* A proof of life moves the recorded time back by at most the accepted clock
\* skew: a heartbeat stamped ahead of the ledger can be followed by a direct one.
ProofOfLifeRegressionBounded ==
    [][last_proof_of_life' >= last_proof_of_life - HEARTBEAT_SKEW]_vars

\* A stored unlock schedule changes in three ways only: it is dropped, its own
\* cycle's draw fills it once, or, once filled, a later cycle replaces it.  A
\* pending draw is never restarted and a drawn delay never drawn again.
OneDrawPerCycle ==
    [][schedule # NoSchedule /\ schedule' # schedule =>
          \/ schedule' = NoSchedule
          \/ ~schedule.fulfilled /\ schedule'.fulfilled /\ schedule'.cycle = schedule.cycle
          \/ schedule.fulfilled /\ ~schedule'.fulfilled /\ schedule'.cycle > schedule.cycle]_vars

\* A requested draw happens unless the owner leaves emergency mode: a stored
\* schedule is never one that fulfilment refuses for good.
EmergencyDrawHappens ==
    emergency_mode /\ ~schedule.fulfilled ~> schedule.fulfilled \/ ~emergency_mode

\* Once the owner falls silent the vault ends up, and stays, released post death,
\* whatever keepers do under the grants they hold and whichever heartbeats signed
\* earlier are still relayed (up to RELAY_HORIZON).
OwnerSilenceReleases == <>[]is_release_condition_satisfied("PostDeathOnly")

\* A heartbeat that the bound EVM account signed, that is newer than the last
\* proof of life and not from the future, can be relayed into the vault.
SignedHeartbeatAccepted ==
    \A key \in EvmKeys, at \in 0 .. timestamp + HEARTBEAT_SKEW :
        /\ heartbeat_binding.evm_owner = EthAddress(key)
        /\ at > last_proof_of_life
        => ENABLED sync_proof_of_life(heartbeat_binding.relayer, heartbeat_binding.gid,
                                      heartbeat_binding.evm_owner, at, key)
=============================================================================
