------------------------------ MODULE ViewCache ------------------------------
(***************************************************************************)
(* The read side of src/services/contract.service.ts: the ten-second       *)
(* caches of hasActiveAccess and getVault (src/utils/ttlCache.ts), the     *)
(* writes that invalidate them, and the connection they are read through.  *)
(*                                                                         *)
(* A key is one document's access of one user or one vault; its value on   *)
(* the chain is a version that grows.  changedAt says when a version was   *)
(* superseded.  Fetches take at most FLIGHT ticks, as RPC time-outs see to.*)
(***************************************************************************)
EXTENDS Integers, Sequences, FiniteSets
CONSTANTS AccessKeys, VaultKeys,
    TTL_TICKS,                \* VIEW_CALL_TTL_MS
    FLIGHT,                   \* the longest a fetch takes
    Supported,                \* functions the deployed contract has
    MAX_FETCHES, MAX_WRITES, MAX_NOW

ASSUME ViewConstants == TTL_TICKS \in Nat \ {0} /\ FLIGHT \in Nat

VARIABLES
    clock,
    connection,               \* "none", "read" or "write": initialize and clear
    version,                  \* key |-> its version on the chain
    supersededAt,             \* key |-> the times at which its versions 0, 1, ... ended
    entry,                    \* key |-> [v, at] or NoEntry: TTLCache.cache
    pending,                  \* key |-> is there a fetch callers may join: TTLCache.pending
    fetches,                  \* the fetches under way
    served,                   \* the answers given by this step: [key, v, at]
    write,                    \* the transaction under way, or NoWrite
    writes

viewVars == <<clock, connection, version, supersededAt, entry, pending, fetches,
              served, write, writes>>
chainVars == <<version, supersededAt>>
-----------------------------------------------------------------------------
Keys    == AccessKeys \cup VaultKeys
NoEntry == [v |-> -1, at |-> 0]
NoWrite == [fn |-> "none"]

ViewInit ==
    /\ clock = 0 /\ connection = "none"
    /\ version = [k \in Keys |-> 0] /\ supersededAt = [k \in Keys |-> <<>>]
    /\ entry = [k \in Keys |-> NoEntry] /\ pending = [k \in Keys |-> FALSE]
    /\ fetches = {} /\ served = {}
    /\ write = NoWrite /\ writes = 0

\* Time passes; no fetch outlives FLIGHT.
ViewTick ==
    /\ clock < MAX_NOW /\ \A f \in fetches : clock - f.from < FLIGHT
    /\ clock' = clock + 1
    /\ served' = {} /\ UNCHANGED <<connection, chainVars, entry, pending, fetches, write, writes>>

\* What the contract gives for the keys a transaction touches changes.
Change(keys) ==
    /\ version' = [k \in Keys |-> IF k \in keys THEN version[k] + 1 ELSE version[k]]
    /\ supersededAt' = [k \in Keys |-> IF k \in keys THEN Append(supersededAt[k], clock)
                                       ELSE supersededAt[k]]
-----------------------------------------------------------------------------
\* TTLCache.clear of every key, or invalidate of one.
Forget(keys) ==
    /\ entry' = [k \in Keys |-> IF k \in keys THEN NoEntry ELSE entry[k]]
    /\ pending' = [k \in Keys |-> IF k \in keys THEN FALSE ELSE pending[k]]

clearAccessCache        == Forget(AccessKeys)
invalidateVaultCache(v) == Forget({v})

initialize(signer) ==
    /\ connection = "none"
    /\ connection' = IF signer THEN "write" ELSE "read"
    /\ served' = {} /\ UNCHANGED <<clock, chainVars, entry, pending, fetches, write, writes>>

clear ==
    /\ connection # "none" /\ connection' = "none"
    /\ Forget(Keys)
    /\ served' = {} /\ UNCHANGED <<clock, chainVars, fetches, write, writes>>

Fresh(k) == entry[k] # NoEntry /\ clock - entry[k].at < TTL_TICKS

\* Mutant: a hit renews the entry.
Renewed_sliding(ks) == [k \in Keys |-> IF k \in ks /\ Fresh(k) THEN [entry[k] EXCEPT !.at = clock] ELSE entry[k]]

\* The entries after a lookup of ks: a hit leaves its entry as it is.
Renewed(ks) == entry

\* TTLCache.fetch for several keys at once: a fresh entry answers, another caller joins the
\* fetch under way or starts one.
fetch(ks) ==
    LET hits  == {k \in ks : Fresh(k)}
        begun == {k \in ks \ hits : ~pending[k]}
    IN  /\ connection # "none" /\ Cardinality(fetches) + Cardinality(begun) <= MAX_FETCHES
        /\ served' = {[key |-> k, v |-> entry[k].v, at |-> clock] : k \in hits}
        /\ entry' = Renewed(ks)
        /\ pending' = [k \in Keys |-> pending[k] \/ k \in begun]
        /\ fetches' = fetches \cup {[key |-> k, n |-> Cardinality({f \in fetches : f.key = k}), from |-> clock, v |-> -1] : k \in begun}
        /\ UNCHANGED <<clock, connection, chainVars, write, writes>>

\* The RPC node reads the chain some time after the call ...
nodeReads(f) ==
    /\ f.v = -1
    /\ fetches' = (fetches \ {f}) \cup {[f EXCEPT !.v = version[f.key]]}
    /\ served' = {} /\ UNCHANGED <<clock, connection, chainVars, entry, pending, write, writes>>

\* ... and the answer is stored under its key, whatever happened to the key meanwhile, and
\* given to every caller that waits; after a failure nothing is stored.
fetched(f) ==
    /\ f.v >= 0
    /\ fetches' = fetches \ {f}
    /\ pending' = [pending EXCEPT ![f.key] = FALSE]
    /\ \/ /\ entry' = [entry EXCEPT ![f.key] = [v |-> f.v, at |-> clock]]
          /\ served' = {[key |-> f.key, v |-> f.v, at |-> clock]}
       \/ served' = {} /\ UNCHANGED entry
    /\ UNCHANGED <<clock, connection, chainVars, write, writes>>

\* The reads that go through the caches, by their keys.
hasActiveAccess(k)     == fetch({k} \cap AccessKeys)
getActiveAccessMap(ks) == fetch(ks \cap AccessKeys)
cachedGetVault(k)      == fetch({k} \cap VaultKeys)
-----------------------------------------------------------------------------
\* A write (fn "uncached": the service empties no cache for it): the signer and the function must be there, the transaction is mined, and the
\* keys it touches change; what the service does after the receipt waits for settle.
Send(fn, needs, touched) ==
    /\ connection = "write" /\ needs \subseteq Supported
    /\ write = NoWrite /\ writes < MAX_WRITES /\ writes' = writes + 1
    /\ Change(touched)
    /\ write' = [fn |-> fn, touched |-> touched]
    /\ served' = {} /\ UNCHANGED <<clock, connection, entry, pending, fetches>>

proxiedApproveAccess(k)          == Send("approveAccess", {}, {k})
proxiedApproveAccessBLS(k)       == Send("uncached", {}, {k})
approveAccessDelegated(k)        == Send("approveAccessDelegated", {"approveAccessDelegated"}, {k})
burnAccessToken                  == Send("burnAccessToken", {}, AccessKeys)
acceptGuardianInvite(v)          == Send("acceptGuardianInvite", {}, {v})
proxiedAcceptGuardianInvite(v)   == Send("acceptGuardianInvite on Stellar", {}, {v} \cup AccessKeys)
mintAccessToken                  == Send("uncached", {}, {})
setEmergencyMode                 == Send("uncached", {"setEmergencyMode"}, AccessKeys)
registerGuardianBLSKey           == Send("uncached", {}, {})
configureVaultRelease            == Send("uncached", {"configureVaultRelease"}, {})
recordProofOfLife                == Send("uncached", {"proveLife"}, AccessKeys)
setBeneficiary                   == Send("uncached", {"setBeneficiary"}, {})
relayKeeperAuthorization         == Send("uncached", {"authorizeKeeperBySig"}, {})
revokeKeeper                     == Send("uncached", {"revokeKeeper"}, {})
relayProofOfLife                 == Send("uncached", {"proveLifeByKeeper"}, AccessKeys)
revokeDelegation                 == Send("uncached", {"revokeDelegation"}, {})

\* After the receipt: the caches the write makes stale are emptied.
settle(w) ==
    /\ w # NoWrite /\ write' = NoWrite
    /\ CASE w.fn \in {"approveAccess", "approveAccessDelegated", "burnAccessToken",
                       "acceptGuardianInvite on Stellar"} -> clearAccessCache
         [] w.fn = "acceptGuardianInvite" -> \E v \in w.touched : invalidateVaultCache(v)
         [] OTHER -> UNCHANGED <<entry, pending>>
    /\ served' = {}
    /\ UNCHANGED <<clock, connection, chainVars, fetches, writes>>

\* waitForReceipt throws: nothing is invalidated.
receiptLost ==
    /\ write # NoWrite /\ write' = NoWrite
    /\ served' = {} /\ UNCHANGED <<clock, connection, chainVars, entry, pending, fetches, writes>>

\* Somebody else's transaction.
OthersWrite ==
    /\ writes < MAX_WRITES /\ writes' = writes + 1
    /\ \E k \in Keys : Change({k})
    /\ served' = {} /\ UNCHANGED <<clock, connection, entry, pending, fetches, write>>

ViewNext ==
    \/ ViewTick \/ clear \/ \E signer \in BOOLEAN : initialize(signer)
    \/ \E k \in AccessKeys : \/ hasActiveAccess(k) \/ proxiedApproveAccess(k)
                              \/ proxiedApproveAccessBLS(k) \/ approveAccessDelegated(k)
    \/ \E v \in VaultKeys : \/ cachedGetVault(v) \/ acceptGuardianInvite(v)
                             \/ proxiedAcceptGuardianInvite(v)
    \/ getActiveAccessMap(AccessKeys)
    \/ \E f \in fetches : nodeReads(f) \/ fetched(f)
    \/ burnAccessToken \/ mintAccessToken \/ setEmergencyMode \/ registerGuardianBLSKey
    \/ configureVaultRelease \/ recordProofOfLife \/ setBeneficiary \/ relayKeeperAuthorization
    \/ revokeKeeper \/ relayProofOfLife \/ revokeDelegation \/ settle(write) \/ receiptLost
    \/ OthersWrite

ViewSpec == ViewInit /\ [][ViewNext]_viewVars
-----------------------------------------------------------------------------
\* An answer of hasActiveAccess or getVault is never older than the ten seconds the cache
\* promises plus the time of one call: the version served was the chain's at some moment of
\* that window, however reads, writes and invalidations overlap.
StalenessBounded ==
    \A s \in served : s.v < version[s.key] =>
       supersededAt[s.key][s.v + 1] > s.at - (TTL_TICKS + FLIGHT)

=============================================================================
