------------------------------ MODULE EventLogs ------------------------------
(***************************************************************************)
(* getEventLogs of src/services/contract.service.ts: the events of one     *)
(* filter, kept in localStorage and extended on every query from the block *)
(* after the last one copied, in chunks, from the first RPC provider that  *)
(* answers to the end.  Several queries of the same filter may be under    *)
(* way; a provider may lag behind the chain or fail in the middle.         *)
(*                                                                         *)
(* The events of the filter are numbered as the chain orders them, by      *)
(* block and by index within it; event n is in block BLOCK_OF[n].  The     *)
(* contract was deployed at FROM_BLOCK.                                    *)
(***************************************************************************)
EXTENDS Integers, Sequences, FiniteSets
CONSTANTS
    Queries,                 \* queries that may be under way together
    Providers,               \* the RPC endpoints, in order
    BLOCK_OF,                \* the blocks of the filter's events, in order
    FROM_BLOCK, CHUNK,       \* VITE_CONTRACT_DEPLOY_BLOCK, VITE_LOG_CHUNK_SIZE
    LAG,                     \* how far behind the chain a provider may be
    MAX_BLOCK                \* bound: the last block of the chain

ASSUME LogConstants ==
    /\ FROM_BLOCK \in Nat /\ LAG \in Nat /\ LAG < FROM_BLOCK
    /\ CHUNK \in Nat /\ CHUNK > 0 /\ MAX_BLOCK \in Nat
    /\ BLOCK_OF \in Seq(Nat)
    /\ \A n \in DOMAIN BLOCK_OF : BLOCK_OF[n] >= FROM_BLOCK
    /\ \A m, n \in DOMAIN BLOCK_OF : m < n => BLOCK_OF[m] <= BLOCK_OF[n]

VARIABLES
    chainHead,
    logCache,                \* the localStorage entry, or NoCache
    query                    \* per query: its stage and what it has read

logVars == <<chainHead, logCache, query>>
-----------------------------------------------------------------------------
NoCache == [lastSyncedBlock |-> 0, logs |-> <<>>]
NoQuery == [stage |-> "idle"]

\* How many events the blocks up to b hold, and the events of the blocks from .. to.
Count(b) == Cardinality({n \in DOMAIN BLOCK_OF : BLOCK_OF[n] <= b})
LogsOf(from, to) == [i \in 1 .. Count(to) - Count(from - 1) |-> Count(from - 1) + i]

LogsInit ==
    /\ chainHead = FROM_BLOCK /\ logCache = NoCache
    /\ query = [q \in Queries |-> NoQuery]

NewBlock ==
    /\ chainHead < MAX_BLOCK /\ chainHead' = chainHead + 1
    /\ UNCHANGED <<logCache, query>>

getFromBlock      == FROM_BLOCK
getReadProviders  == Providers
getLogChunkSize   == CHUNK
readEventLogCache == logCache

\* The i-th of some places of a list; the entries there, in the order they have; the logs from
\* the deploy block on.
Place(places, i)      == CHOOSE k \in places : Cardinality({j \in places : j <= k}) = i
Entries(logs, places) == [i \in 1 .. Cardinality(places) |-> logs[Place(places, i)]]
sinceDeployment(logs) ==
    Entries(logs, {k \in DOMAIN logs : BLOCK_OF[logs[k]] >= getFromBlock})

\* By block, then by index; the sort is stable, so an entry's rank counts the entries below it
\* and the equal ones up to itself.
Before(a, b) == BLOCK_OF[a] < BLOCK_OF[b] \/ (BLOCK_OF[a] = BLOCK_OF[b] /\ a < b)
Rank(logs, k) ==
    Cardinality({j \in DOMAIN logs : Before(logs[j], logs[k]) \/ (logs[j] = logs[k] /\ j <= k)})
sortLogsAscending(logs) ==
    [i \in DOMAIN logs |-> logs[CHOOSE k \in DOMAIN logs : Rank(logs, k) = i]]

\* A write the storage refuses is ignored.
writeEventLogCache(to, logs) ==
    \/ logCache' = [lastSyncedBlock |-> to, logs |-> logs]
    \/ UNCHANGED logCache

\* getEventLogs up to its first provider: the cache is read once, at the start.
getEventLogs(q) ==
    /\ query[q].stage \in {"idle", "answered"}
    /\ query' = [query EXCEPT ![q] =
          [stage |-> "head", provider |-> 1, cached |-> readEventLogCache,
           cachedLogs |-> sinceDeployment(readEventLogCache.logs),
           logs |-> <<>>, current |-> 0, to |-> 0]]
    /\ UNCHANGED <<chainHead, logCache>>

canUseCache(r, start, to) ==
    /\ r.cached # NoCache
    /\ r.cached.lastSyncedBlock >= start /\ r.cached.lastSyncedBlock <= to
    /\ r.cachedLogs # <<>>

\* Mutant: the last block of the cache is asked for again.
incrementalStart_overlap(r, start, to) ==
    IF canUseCache(r, start, to)
    THEN IF r.cached.lastSyncedBlock > start THEN r.cached.lastSyncedBlock ELSE start
    ELSE start

incrementalStart(r, start, to) ==
    IF canUseCache(r, start, to)
    THEN IF r.cached.lastSyncedBlock + 1 > start THEN r.cached.lastSyncedBlock + 1 ELSE start
    ELSE start

\* The provider tells its head; the copy starts from the cache or from nothing.
getBlockNumber(q) ==
    LET r == query[q]
    IN  /\ r.stage = "head"
        /\ \E to \in chainHead - LAG .. chainHead :
              LET start == IF getFromBlock < to THEN getFromBlock ELSE to
              IN  query' = [query EXCEPT ![q] =
                     [r EXCEPT !.stage = "chunks", !.to = to,
                               !.logs = IF canUseCache(r, start, to) THEN r.cachedLogs ELSE <<>>,
                               !.current = incrementalStart(r, start, to)]]
        /\ UNCHANGED <<chainHead, logCache>>

\* One chunk of getLogs.
getLogs(q) ==
    LET r   == query[q]
        end == IF r.current + getLogChunkSize - 1 < r.to THEN r.current + getLogChunkSize - 1 ELSE r.to
    IN  /\ r.stage = "chunks" /\ r.current <= r.to
        /\ query' = [query EXCEPT ![q] =
              [r EXCEPT !.logs = r.logs \o LogsOf(r.current, end),
                        !.current = r.current + getLogChunkSize]]
        /\ UNCHANGED <<chainHead, logCache>>

\* All chunks are there: sort, write the cache, answer.
finishQuery(q) ==
    LET r == query[q]
        logs == sortLogsAscending(r.logs)
    IN  /\ r.stage = "chunks" /\ r.current > r.to
        /\ writeEventLogCache(r.to, logs)
        /\ query' = [query EXCEPT ![q] = [stage |-> "answered", logs |-> logs]]
        /\ UNCHANGED chainHead

\* The provider fails, at its head or at a chunk: the next one starts over; after the last
\* one the cached logs are the answer, or the query throws.
providerFails(q) ==
    LET r == query[q]
    IN  /\ r.stage \in {"head", "chunks"}
        /\ query' = [query EXCEPT ![q] =
              IF r.provider < Len(getReadProviders)
              THEN [r EXCEPT !.stage = "head", !.provider = r.provider + 1]
              ELSE IF r.cachedLogs # <<>>
                   THEN [stage |-> "answered", logs |-> sortLogsAscending(r.cachedLogs)]
                   ELSE NoQuery]
        /\ UNCHANGED <<chainHead, logCache>>

LogsNext ==
    \/ NewBlock
    \/ \E q \in Queries :
          getEventLogs(q) \/ getBlockNumber(q) \/ getLogs(q) \/ finishQuery(q) \/ providerFails(q)

LogsSpec == LogsInit /\ [][LogsNext]_logVars
-----------------------------------------------------------------------------
\* The contract's log from the deploy block to block n, of which LogMirror's copy is made.
CopyOf(n) == LogsOf(FROM_BLOCK, n)
Mirror == INSTANCE LogMirror WITH height <- chainHead, copied <- logCache.lastSyncedBlock,
                                  copy <- logCache.logs, EventsOf <- CopyOf

\* The localStorage copy is, whatever the providers do and however the queries overlap, an
\* exact prefix of the contract's log: every event from the deploy block to lastSyncedBlock
\* once, in order (getEventLogs appends to what it read and replaces the entry as a whole).
CacheIsMirror == Mirror!MirrorSpec

\* An answer to a query has no hole and no repetition, even one made of the cached logs after
\* every provider failed (the end of getEventLogs).
AnswersExact ==
    \A q \in Queries : query[q].stage = "answered" =>
       \E n \in 0 .. chainHead : query[q].logs = CopyOf(n)
=============================================================================
