---------------------------- MODULE KeeperRelays -----------------------------
(***************************************************************************)
(* The scripts that keep vaults and ledger entries alive.                  *)
(***************************************************************************)
EXTENDS Integers, Sequences, FiniteSets
(***************************************************************************)
(* scripts/keeper-relay-evm.mjs and keeper-relay-soroban.mjs: jobs run from*)
(* time to time that relay proof of life for a list of vaults, one after   *)
(* the other.  An error in one vault ends the run, and with it the vaults  *)
(* after it.                                                               *)
(***************************************************************************)

CONSTANTS
    VaultIds,          \* the vaults on the command line
    Chain,             \* "evm": relay once half of the window is used; "soroban": always
    INACTIVITY,        \* the vaults' inactivity period
    RUN_EVERY,         \* time from one run to the next, and at most the length of a run
    MAX_ABORTS,        \* runs that are cut short by an error
    AUTHORIZED_UNTIL, MAX_TIME

Due(elapsed) == Chain = "soroban" \/ 2 * elapsed >= INACTIVITY

\* The margin: half the window is left when the job first acts, and each run it misses costs
\* one interval.
ASSUME KeeperMargin == INACTIVITY >= 2 * (MAX_ABORTS + 2) * RUN_EVERY

\* Without a vault to look after main ends at once.
ASSUME KeeperConstants ==
    /\ INACTIVITY \in Nat /\ RUN_EVERY \in Nat /\ MAX_ABORTS \in Nat
    /\ AUTHORIZED_UNTIL \in Nat /\ MAX_TIME \in Nat
    /\ VaultIds \in Seq(Nat) /\ VaultIds # <<>>

VARIABLES
    now, proof, authorized,    \* the chain: time, last proof of life, keeper authorisations
    job,                       \* the run: next vault (0 when idle), step, start, nowSeconds
    lastRun, aborts

keeperVars == <<now, proof, authorized, job, lastRun, aborts>>

NoJob == [at |-> 0, pc |-> "idle", nowSeconds |-> 0]
Vaults == DOMAIN VaultIds

\* The owner's authorisation of the keeper stands.
isAuthorized(v) == authorized[v] /\ AUTHORIZED_UNTIL > now

KeeperInit ==
    /\ now = 0 /\ lastRun = 0 /\ aborts = 0 /\ job = NoJob
    /\ proof = [v \in Vaults |-> 0] /\ authorized = [v \in Vaults |-> TRUE]

KeeperTick ==
    /\ now < MAX_TIME /\ now - lastRun < RUN_EVERY
    /\ now' = now + 1
    /\ UNCHANGED <<proof, authorized, job, lastRun, aborts>>

\* The owner takes the authorisation back, at any time.
RevokeKeeper(v) ==
    /\ authorized[v] /\ authorized' = [authorized EXCEPT ![v] = FALSE]
    /\ UNCHANGED <<now, proof, job, lastRun, aborts>>

main ==
    /\ job = NoJob
    /\ job' = [at |-> 1, pc |-> "authorization", nowSeconds |-> 0] /\ lastRun' = now
    /\ UNCHANGED <<now, proof, authorized, aborts>>

\* The loop of main goes on with the next vault.
NextVault ==
    IF job.at < Len(VaultIds) THEN [at |-> job.at + 1, pc |-> "authorization", nowSeconds |-> 0]
                              ELSE NoJob

\* checkAndRelay up to its second await: the authorisation is read, then the clock.
checkAuthorization ==
    LET v == job.at
    IN  /\ job.pc = "authorization"
        /\ job' = IF isAuthorized(v)
                  THEN [at |-> v, pc |-> "state", nowSeconds |-> now] ELSE NextVault
        /\ UNCHANGED <<now, proof, authorized, lastRun, aborts>>

\* Mutant: the job waits for the whole window.
checkDue_late ==
    /\ job.pc = "state"
    /\ job' = IF job.nowSeconds - proof[job.at] >= INACTIVITY
              THEN [job EXCEPT !.pc = "relay"] ELSE NextVault
    /\ UNCHANGED <<now, proof, authorized, lastRun, aborts>>

\* ... the release state is read and compared with the clock read before it.
checkDue ==
    /\ job.pc = "state"
    /\ job' = IF Due(job.nowSeconds - proof[job.at])
              THEN [job EXCEPT !.pc = "relay"] ELSE NextVault
    /\ UNCHANGED <<now, proof, authorized, lastRun, aborts>>

\* proveLifeByKeeper: the contract checks the authorisation again.  A revert ends the run.
proveLifeByKeeper ==
    LET v == job.at
    IN  /\ job.pc = "relay"
        /\ IF isAuthorized(v)
           THEN proof' = [proof EXCEPT ![v] = now] /\ job' = NextVault /\ UNCHANGED aborts
           ELSE /\ aborts < MAX_ABORTS /\ aborts' = aborts + 1
                /\ job' = NoJob /\ UNCHANGED proof
        /\ UNCHANGED <<now, authorized, lastRun>>

\* A call fails: main's catch clause ends the process.
keeperFails ==
    /\ job # NoJob /\ aborts < MAX_ABORTS /\ aborts' = aborts + 1 /\ job' = NoJob
    /\ UNCHANGED <<now, proof, authorized, lastRun>>

KeeperNext ==
    \/ KeeperTick \/ \E v \in Vaults : RevokeKeeper(v)
    \/ main \/ checkAuthorization \/ checkDue \/ proveLifeByKeeper \/ keeperFails

KeeperSpec == KeeperInit /\ [][KeeperNext]_keeperVars
-----------------------------------------------------------------------------
\* A vault whose keeper is authorised never exceeds its inactivity period while the job is
\* run at its interval, although each vault waits for those before it and an error in one of
\* them ends the run.
KeptAlive ==
    \A v \in Vaults :
       isAuthorized(v) => now - proof[v] <= INACTIVITY
------------------------------------------------------------------------------
(***************************************************************************)
(* scripts/soroban-ttl-relayer.mjs: cycles that read the remaining lifetime*)
(* of the contract instance and of every vault, document and request, and  *)
(* submit extensions for those below a threshold.  setInterval starts a    *)
(* cycle whether or not the last one is over, so two may run at a time.    *)
(*                                                                         *)
(* The relayer has its secret key (without one it only reports).  Encoding *)
(* of keys and values, and the log, are left out.                          *)
(***************************************************************************)
CONSTANTS
    Cycles,            \* slots for cycles running at a time
    EntityTypes,       \* the sequence of types a cycle scans: Vault, Doc, Request
    THRESHOLD, EXTENSION, BATCH, MAX_ENTRIES, MAX_RETRIES,
    PERIOD,            \* ledgers that close at most from one cycle to the next, or in a cycle
    MAX_FAILURES,      \* calls that fail
    MAX_COUNT, MAX_LEDGER

\* The margin the defaults have by far: 10000 ledgers against some 12 in a polling interval.
ASSUME TtlMargin == THRESHOLD >= (MAX_FAILURES + 2) * PERIOD /\ EXTENSION >= THRESHOLD

\* The cap on the ids of a type is above what the contract ever holds of it.
ASSUME TtlConstants ==
    /\ THRESHOLD \in Nat /\ EXTENSION \in Nat /\ PERIOD \in Nat /\ MAX_FAILURES \in Nat
    /\ BATCH \in Nat \ {0} /\ MAX_RETRIES \in Nat /\ MAX_LEDGER \in Nat
    /\ MAX_COUNT \in Nat /\ MAX_ENTRIES \in Nat /\ MAX_COUNT <= MAX_ENTRIES
    /\ EntityTypes \in Seq(STRING) /\ EntityTypes # <<>>

VARIABLES
    ledger, count, liveUntil,  \* the chain: entity counts, and when an entry runs out
    cycle,                     \* per slot: pc, latestLedger, type, id, idsToBump, attempt
    lastStart, failures

ttlVars == <<ledger, count, liveUntil, cycle, lastStart, failures>>

Instance == <<0, 0>>           \* the contract instance; entity id of type k is <<k, id>>
Types    == DOMAIN EntityTypes
Idle     == [pc |-> "idle", latest |-> 0, type |-> 1, id |-> 1, limit |-> 0, todo |-> <<>>,
             attempt |-> 1]
Running  == {c \in Cycles : cycle[c].pc # "idle"}
Entries  == {Instance} \cup (Types \X (1 .. MAX_COUNT))
Exists(e) == e = Instance \/ e[2] <= count[e[1]]

TtlInit ==
    /\ ledger = 0 /\ lastStart = 0 /\ failures = 0
    /\ count = [k \in Types |-> 0]
    /\ liveUntil = [e \in Entries |-> IF e = Instance THEN THRESHOLD ELSE 0]
    /\ cycle = [c \in Cycles |-> Idle]

\* A ledger closes.  PERIOD is the pace of the relayer against that of the chain.
CloseLedgerTtl ==
    /\ ledger < MAX_LEDGER /\ ledger - lastStart < PERIOD
    /\ \A c \in Running : ledger - cycle[c].latest < PERIOD
    /\ ledger' = ledger + 1
    /\ UNCHANGED <<count, liveUntil, cycle, lastStart, failures>>

\* A vault, document or request is created, with a lifetime of its own.
CreateEntity(k) ==
    /\ count[k] < MAX_COUNT /\ count' = [count EXCEPT ![k] = count[k] + 1]
    /\ liveUntil' = [liveUntil EXCEPT ![<<k, count[k] + 1>>] = ledger + THRESHOLD]
    /\ UNCHANGED <<ledger, cycle, lastStart, failures>>

Fail == failures < MAX_FAILURES /\ failures' = failures + 1

\* runRelayerCycle: the latest ledger is read once, for the whole cycle.  Failing to read it
\* is the one error that ends the cycle.
runRelayerCycle(c) ==
    /\ cycle[c].pc = "idle" /\ lastStart' = ledger
    /\ \/ /\ cycle' = [cycle EXCEPT ![c] = [Idle EXCEPT !.pc = "instance", !.latest = ledger]]
          /\ UNCHANGED failures
       \/ Fail /\ UNCHANGED cycle
    /\ UNCHANGED <<ledger, count, liveUntil>>

Tried(r, n) == [r EXCEPT !.attempt = n]

\* withRetry: a failed call is made again until the attempts are used up; then the caller's
\* catch clause goes on with next.
withRetry(c, next) ==
    /\ Fail
    /\ cycle' = [cycle EXCEPT ![c] =
                    IF cycle[c].attempt < MAX_RETRIES
                    THEN Tried(cycle[c], cycle[c].attempt + 1) ELSE Tried(next, 1)]

\* The call succeeds.
onto(c, next) == cycle' = [cycle EXCEPT ![c] = Tried(next, 1)] /\ UNCHANGED failures

\* fetchEntryTtl and the comparison with the threshold, against the cycle's own ledger: an
\* entry that has run out is not found, and left.
Below(c, e) == liveUntil[e] >= ledger /\ liveUntil[e] - cycle[c].latest < THRESHOLD

\* Step 1 of the cycle: the lifetime of the instance.
fetchInstanceTtl(c) ==
    /\ cycle[c].pc = "instance"
    /\ \/ onto(c, [cycle[c] EXCEPT !.pc = IF Below(c, Instance) THEN "extend" ELSE "count"])
       \/ withRetry(c, [cycle[c] EXCEPT !.pc = "count"])
    /\ UNCHANGED <<ledger, count, liveUntil, lastStart>>

Extended(batch) ==
    [e \in Entries |-> IF e \in batch THEN ledger + EXTENSION ELSE liveUntil[e]]

\* submitBatchTtlExtensionTx: one transaction for a batch of entries.  One whose polling timed
\* out counts as failed and may still have been applied.
submitBatchTtlExtensionTx(c, batch, next) ==
    /\ \/ onto(c, next) /\ liveUntil' = Extended(batch)
       \/ withRetry(c, next) /\ liveUntil' \in {liveUntil, Extended(batch)}
    /\ UNCHANGED <<ledger, count, lastStart>>

extendInstance(c) ==
    /\ cycle[c].pc = "extend"
    /\ submitBatchTtlExtensionTx(c, {Instance}, [cycle[c] EXCEPT !.pc = "count"])

\* On to the next type, or the end of the cycle.
NextType(c) ==
    IF cycle[c].type < Len(EntityTypes)
    THEN [Idle EXCEPT !.pc = "count", !.latest = cycle[c].latest, !.type = cycle[c].type + 1]
    ELSE Idle

\* Mutant: the last entity is not scanned.
limitOf_short(k) == count[k] - 1

\* How far scanAndBumpEntityType goes.
limitOf(k) == IF count[k] < MAX_ENTRIES THEN count[k] ELSE MAX_ENTRIES

\* queryEntityCount: the ids to scan.  If it fails the type is passed over in this cycle.
queryEntityCount(c) ==
    /\ cycle[c].pc = "count"
    /\ \/ onto(c, [cycle[c] EXCEPT !.pc = "scan", !.limit = limitOf(cycle[c].type)])
       \/ Fail /\ cycle' = [cycle EXCEPT ![c] = NextType(c)]
    /\ UNCHANGED <<ledger, count, liveUntil, lastStart>>

\* The loop of scanAndBumpEntityType: one entity is looked at and noted if it is low.
scanEntity(c) ==
    LET e    == <<cycle[c].type, cycle[c].id>>
        next == [cycle[c] EXCEPT !.id = cycle[c].id + 1]
    IN  /\ cycle[c].pc = "scan" /\ cycle[c].id <= cycle[c].limit
        /\ \/ onto(c, IF Below(c, e) THEN [next EXCEPT !.todo = Append(next.todo, e)] ELSE next)
           \/ withRetry(c, next)
        /\ UNCHANGED <<ledger, count, liveUntil, lastStart>>

Scanned(c) == cycle[c].pc = "scan" /\ cycle[c].id > cycle[c].limit

\* The batches of scanAndBumpEntityType.
bumpBatch(c) ==
    LET todo == cycle[c].todo
        n    == IF Len(todo) < BATCH THEN Len(todo) ELSE BATCH
    IN  /\ Scanned(c) /\ n > 0
        /\ submitBatchTtlExtensionTx(c, {todo[i] : i \in 1 .. n},
              [cycle[c] EXCEPT !.todo = SubSeq(todo, n + 1, Len(todo))])

endOfType(c) ==
    /\ Scanned(c) /\ cycle[c].todo = <<>>
    /\ cycle' = [cycle EXCEPT ![c] = NextType(c)]
    /\ UNCHANGED <<ledger, count, liveUntil, lastStart, failures>>

TtlNext ==
    \/ CloseLedgerTtl \/ \E k \in Types : CreateEntity(k)
    \/ \E c \in Cycles :
          \/ runRelayerCycle(c) \/ fetchInstanceTtl(c) \/ extendInstance(c)
          \/ queryEntityCount(c) \/ scanEntity(c) \/ bumpBatch(c) \/ endOfType(c)

TtlSpec == TtlInit /\ [][TtlNext]_ttlVars
-----------------------------------------------------------------------------
\* No entry runs out while the relayer keeps its pace, although each cycle judges by the
\* ledger it started with, calls fail, and cycles overlap.
NothingExpires == \A e \in Entries : Exists(e) => liveUntil[e] >= ledger

\* The keepers keep up: no ledger entry expires while the TTL relayer runs at its pace, and no
\* vault with an authorised keeper passes its inactivity period while the job runs at its interval,
\* although calls fail, cycles overlap and an error ends a run (ttl-relayer, keeper-relay).
RelaysKeepUp == NothingExpires /\ KeptAlive
==============================================================================
