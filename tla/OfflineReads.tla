---------------------------- MODULE OfflineReads -----------------------------
(***************************************************************************)
(* Reads that survive a lost connection: the IndexedDB mirrors behind      *)
(* withOfflineFallback (src/services/offline/) and the useOfflineVaults    *)
(* hook that shows them.                                                   *)
(*                                                                         *)
(* What a chain answers is one item, named for the network and the account *)
(* it was asked about, which may vanish; a mirror row is the item under    *)
(* the account and network it was filed for.  The network is the user's    *)
(* choice in localStorage and may be switched at any moment, also while a  *)
(* read is under way.                                                      *)
(***************************************************************************)
EXTENDS Integers, FiniteSets
CONSTANTS Accounts, Chains,
    MAX_SWITCHES

VARIABLES
    chosen,                   \* getEcosystem()
    reachable,                \* does the network answer
    indexedDb,                \* getDb finds an IndexedDB
    vanished,                 \* what the chains no longer return: <<chain, account>>
    mirror,                   \* rows [kind, account, chain, item]
    read,                     \* the read under way, or NoRead
    hook,                     \* useOfflineVaults: [account, chain, loads, shown, isLoaded, failed]
    switches

offlineReadVars == <<chosen, reachable, indexedDb, vanished, mirror, read, hook, switches>>

NoRead == [stage |-> "none"]
Rows(kind, a, c) == {r \in mirror : r.kind = kind /\ r.account = a /\ r.chain = c}
Live(c, a) == IF <<c, a>> \in vanished THEN {} ELSE {<<c, a>>}

OfflineReadsInit ==
    /\ chosen \in Chains /\ reachable = TRUE /\ indexedDb \in BOOLEAN
    /\ vanished = {} /\ mirror = {} /\ read = NoRead
    /\ hook = [account |-> "none", chain |-> chosen, loads |-> {}, shown |-> {}, isLoaded |-> TRUE, failed |-> FALSE]
    /\ switches = 0

\* The world: the network, the chains, the user's choice of one.
WorldChanges ==
    /\ switches < MAX_SWITCHES /\ switches' = switches + 1
    /\ \/ reachable' = ~reachable /\ UNCHANGED <<chosen, vanished>>
       \/ chosen' \in Chains \ {chosen} /\ UNCHANGED <<reachable, vanished>>
       \/ \E c \in Chains, a \in Accounts : vanished' = vanished \cup {<<c, a>>} /\ UNCHANGED <<chosen, reachable>>
    /\ UNCHANGED <<indexedDb, mirror, read, hook>>
-----------------------------------------------------------------------------
(* The mirrors. *)
Filed(kind, a, c, items) == {[kind |-> kind, account |-> a, chain |-> c, item |-> i] : i \in items}

putVaults(a, c, items)    == mirror \cup Filed("vaults", a, c, items)
putDocuments(a, c, items) == mirror \cup Filed("documents", a, c, items)
\* Invites are replaced: those of the account and network, or all of them in memory.
putInvites(a, c, items) ==
    (mirror \ (IF indexedDb THEN Rows("invites", a, c) ELSE {r \in mirror : r.kind = "invites"}))
    \cup Filed("invites", a, c, items)
\* A key is one row; an empty key is a row too.
putPublicKey(a, c, items) ==
    (mirror \ Rows("keyring", a, c)) \cup Filed("keyring", a, c, IF items = {} THEN {<<"no", "key">>} ELSE items)

getCachedVaults(a, c)    == {r.item : r \in Rows("vaults", a, c)}
getCachedDocuments(a, c) == {r.item : r \in Rows("documents", a, c)}
getCachedInvites(a, c)   == {r.item : r \in Rows("invites", a, c)}
getCachedPublicKey(a, c) == {r.item : r \in Rows("keyring", a, c)}

writeCache(kind, a, c, items) ==
    CASE kind = "vaults"    -> putVaults(a, c, items)
      [] kind = "documents" -> putDocuments(a, c, items)
      [] kind = "invites"   -> putInvites(a, c, items)
      [] kind = "keyring"   -> putPublicKey(a, c, items)
readCache(kind, a, c) ==
    CASE kind = "vaults"    -> getCachedVaults(a, c)
      [] kind = "documents" -> getCachedDocuments(a, c)
      [] kind = "invites"   -> getCachedInvites(a, c)
      [] kind = "keyring"   -> getCachedPublicKey(a, c)

\* Mutant: every read asks for the network again once the answer is there.
fileUnder_late(r) == chosen

\* The network a read's cache accesses use: the documents' read remembers the one it began
\* with, the others ask again after the answer.
fileUnder(r) == IF r.kind = "documents" THEN r.chain ELSE chosen

StartRead(kind, a) ==
    /\ read.stage = "none"
    /\ read' = [stage |-> "live", kind |-> kind, account |-> a, chain |-> chosen]
    /\ UNCHANGED <<chosen, reachable, indexedDb, vanished, mirror, hook, switches>>

proxiedFetchVaultsForAccount(a)   == StartRead("vaults", a)
proxiedFetchDocumentsForVaults(a) == StartRead("documents", a)
proxiedFetchPendingInvites(a)     == StartRead("invites", a)
proxiedGetUserPublicKey(a)        == StartRead("keyring", a)

\* fetchLive settles: an answer waits to be mirrored, a network failure to be replaced by the
\* mirror, and any other failure is the caller's.
fetchLive ==
    /\ read.stage = "live"
    /\ \/ reachable /\ read' = [stage |-> "store", kind |-> read.kind, account |-> read.account,
                                   chain |-> read.chain, items |-> Live(read.chain, read.account)]
       \/ ~reachable /\ read' = [read EXCEPT !.stage = "fall back"]
       \/ reachable /\ read' = NoRead
    /\ UNCHANGED <<chosen, reachable, indexedDb, vanished, mirror, hook, switches>>

\* withOfflineFallback after the call: mirror the answer (a failing write is ignored), or
\* answer from the mirror, if it holds anything.
withOfflineFallback ==
    /\ \/ /\ read.stage = "store"
          /\ mirror' \in {writeCache(read.kind, read.account, fileUnder(read), read.items), mirror}
          /\ read' = [stage |-> "answered", kind |-> read.kind, account |-> read.account,
                      chain |-> read.chain, items |-> read.items]
       \/ /\ read.stage = "fall back" /\ UNCHANGED mirror
          /\ LET cached == readCache(read.kind, read.account, fileUnder(read))
             IN  read' = IF cached = {} THEN NoRead
                         ELSE [stage |-> "answered", kind |-> read.kind, account |-> read.account,
                               chain |-> read.chain, items |-> cached]
    /\ UNCHANGED <<chosen, reachable, indexedDb, vanished, hook, switches>>

Answered ==
    /\ read.stage = "answered" /\ read' = NoRead
    /\ UNCHANGED <<chosen, reachable, indexedDb, vanished, mirror, hook, switches>>

\* The page is loaded again: what is under way and what is only in memory is gone.
Reload ==
    /\ switches < MAX_SWITCHES /\ switches' = switches + 1
    /\ read' = NoRead /\ mirror' = IF indexedDb THEN mirror ELSE {}
    /\ hook' = [hook EXCEPT !.account = "none", !.loads = {}, !.shown = {}, !.isLoaded = TRUE, !.failed = FALSE]
    /\ UNCHANGED <<chosen, reachable, indexedDb, vanished>>
-----------------------------------------------------------------------------
(* useOfflineVaults: loads under way are [account, chain, cancelled]. *)
useOfflineVaults(a, c) ==
    /\ <<a, c>> # <<hook.account, hook.chain>> /\ switches < MAX_SWITCHES /\ switches' = switches + 1
    /\ hook' = [account |-> a, chain |-> c,
                loads |-> {[l EXCEPT !.cancelled = TRUE] : l \in hook.loads} \cup
                          (IF a = "none" THEN {} ELSE {[account |-> a, chain |-> c, cancelled |-> FALSE]}),
                shown |-> IF a = "none" THEN {} ELSE hook.shown,
                isLoaded |-> a = "none", failed |-> a # "none" /\ hook.failed]
    /\ UNCHANGED <<chosen, reachable, indexedDb, vanished, mirror, read>>

\* What is shown of a load's rows here: the account and network they are filed under, if any.
OwnersOf(rows, l) == IF rows = {} THEN {} ELSE {<<l.account, l.chain>>}

\* Mutant: a load that was cancelled is shown.
loaded_always(l) ==
    hook' = [hook EXCEPT !.loads = @ \ {l}, !.isLoaded = TRUE, !.failed = FALSE,
                         !.shown = OwnersOf(getCachedVaults(l.account, l.chain) \cup getCachedDocuments(l.account, l.chain), l)]

\* A load ends: a cancelled one changes nothing, a failing one only ends the loading.
loaded(l) ==
    \/ l.cancelled /\ hook' = [hook EXCEPT !.loads = @ \ {l}]
    \/ /\ ~l.cancelled
       /\ hook' = [hook EXCEPT !.loads = @ \ {l}, !.isLoaded = TRUE, !.failed = FALSE,
                               !.shown = OwnersOf(getCachedVaults(l.account, l.chain) \cup getCachedDocuments(l.account, l.chain), l)]
    \/ ~l.cancelled /\ hook' = [hook EXCEPT !.loads = @ \ {l}, !.isLoaded = TRUE, !.failed = TRUE]

LoadEnds == \E l \in hook.loads :
    loaded(l) /\ UNCHANGED <<chosen, reachable, indexedDb, vanished, mirror, read, switches>>
-----------------------------------------------------------------------------
\* The reads of some kinds; reads of different kinds have nothing in common but the network.
OfflineReadsNext(kinds) ==
    \/ WorldChanges \/ fetchLive \/ withOfflineFallback \/ Answered \/ Reload \/ LoadEnds
    \/ \E a \in Accounts : \/ "vaults" \in kinds /\ proxiedFetchVaultsForAccount(a)
                           \/ "documents" \in kinds /\ proxiedFetchDocumentsForVaults(a)
                           \/ "invites" \in kinds /\ proxiedFetchPendingInvites(a)
                           \/ "keyring" \in kinds /\ proxiedGetUserPublicKey(a)
    \/ \E a \in Accounts \cup {"none"} : useOfflineVaults(a, chosen)

ReadKinds == {"vaults", "documents", "invites", "keyring"}
OfflineReadsSpec == OfflineReadsInit /\ [][OfflineReadsNext(ReadKinds)]_offlineReadVars

\* The document mirror never mixes networks or accounts: each of its rows is filed under the
\* account and network it was read for, though the user may switch networks while the read is
\* under way (proxiedFetchDocumentsForVaults remembers the network it began with).
DocumentsFiledRight ==
    \A r \in mirror : r.kind = "documents" => r.item = <<r.chain, r.account>>

\* Once its load has ended, the hook shows rows of the account and network it was called with
\* and no others, however loads overlap (the cancelled flag of useOfflineVaults); a load that
\* failed leaves what was shown before.
ShownIsCurrent ==
    hook.isLoaded /\ ~hook.failed =>
       hook.shown \subseteq {<<hook.account, hook.chain>>}
------------------------------------------------------------------------------
(***************************************************************************)
(* The caches of the service worker (src/sw.ts): what it stores while the  *)
(* network answers, and what it answers.  A worker may be installed and    *)
(* activated again at any time, over the caches of earlier releases.  The  *)
(* replay messages it passes on are in Offline.                            *)
(***************************************************************************)
CONSTANTS Pages, Assets, Cids, MAX_DEPLOYS
ASSUME StartPage == "/" \in Pages

VARIABLES
    swNetwork,                \* does the network answer
    release,                  \* the release the server holds
    cacheOf,                  \* cache name |-> (request |-> release it was stored from, 0 if none)
    swStage,                  \* "none", "installed" or "active"
    fulfilled                 \* history: requests answered well since the activation

swVars == <<swNetwork, release, cacheOf, swStage, fulfilled>>
KNOWN_CACHES == {"shell", "assets", "ipfs"}
Requests == Pages \cup Assets \cup Cids
Empty == [q \in Requests |-> 0]

SwInit ==
    /\ swNetwork = TRUE /\ release = 1 /\ swStage = "none" /\ fulfilled = {}
    /\ cacheOf \in {[n \in KNOWN_CACHES \cup {"old"} |-> IF n = "old" THEN [q \in Requests |-> 1] ELSE Empty]}

NetworkChanges == swNetwork' = ~swNetwork /\ UNCHANGED <<release, cacheOf, swStage, fulfilled>>
Deploy == release < MAX_DEPLOYS /\ release' = release + 1 /\ UNCHANGED <<swNetwork, cacheOf, swStage, fulfilled>>

\* cache.addAll of the shell must succeed, or the worker is not installed.
install ==
    /\ swStage # "installed" /\ swNetwork /\ swStage' = "installed"
    /\ cacheOf' = [cacheOf EXCEPT !["shell"]["/"] = release]
    /\ UNCHANGED <<swNetwork, release, fulfilled>>

\* Mutant: the shell's cache is not among the known ones.
activate_forgets ==
    /\ swStage = "installed" /\ swStage' = "active"
    /\ cacheOf' = [n \in DOMAIN cacheOf |-> IF n \in KNOWN_CACHES \ {"shell"} THEN cacheOf[n] ELSE Empty]
    /\ UNCHANGED <<swNetwork, release, fulfilled>>

activate ==
    /\ swStage = "installed" /\ swStage' = "active"
    /\ cacheOf' = [n \in DOMAIN cacheOf |-> IF n \in KNOWN_CACHES THEN cacheOf[n] ELSE Empty]
    /\ UNCHANGED <<swNetwork, release, fulfilled>>

caches_match(q) == \E n \in DOMAIN cacheOf : cacheOf[n][q] > 0
Put(name, q) == cacheOf' = [cacheOf EXCEPT ![name][q] = release]

\* The three strategies: what they store and whether the request is answered well.
networkFirst(q, ok) ==
    IF swNetwork THEN /\ IF ok THEN Put("shell", q) ELSE UNCHANGED cacheOf
                      /\ fulfilled' = IF ok THEN fulfilled \cup {q} ELSE fulfilled
    ELSE UNCHANGED cacheOf /\ fulfilled' = IF caches_match(q) THEN fulfilled ELSE fulfilled \ {q}

staleWhileRevalidate(q, ok) ==
    /\ IF swNetwork /\ ok THEN Put("assets", q) ELSE UNCHANGED cacheOf
    /\ fulfilled' = IF cacheOf["assets"][q] > 0 \/ (swNetwork /\ ok) THEN fulfilled \cup {q} ELSE fulfilled \ {q}

cacheFirst(q, ok) ==
    IF caches_match(q) THEN UNCHANGED cacheOf /\ fulfilled' = fulfilled \cup {q}
    ELSE /\ IF swNetwork /\ ok THEN Put("ipfs", q) ELSE UNCHANGED cacheOf
         /\ fulfilled' = IF swNetwork /\ ok THEN fulfilled \cup {q} ELSE fulfilled \ {q}

fetchEvent(q, ok) ==
    /\ swStage = "active" /\ UNCHANGED <<swNetwork, release, swStage>>
    /\ \/ q \in Pages /\ networkFirst(q, ok)
       \/ q \in Assets /\ staleWhileRevalidate(q, ok)
       \/ q \in Cids /\ cacheFirst(q, ok)

SwNext ==
    \/ NetworkChanges \/ Deploy \/ install \/ activate
    \/ \E q \in Requests, ok \in BOOLEAN : fetchEvent(q, ok)

SwSpec == SwInit /\ [][SwNext]_swVars
-----------------------------------------------------------------------------
\* A request that was once answered well stays answerable, with or without a network and
\* through later installations and activations: the caches of the strategies outlive
\* everything but a failing server, and an active worker can always open the page "/".
OnceServedStaysServed ==
    /\ \A q \in fulfilled : caches_match(q)
    /\ swStage = "active" => caches_match("/")

\* What the browser shows without a network is what it was shown for: mirrored documents are filed
\* under their account and network, a finished load shows its own account's rows, and what the
\* service worker once served it can serve again (offlineReads, useOfflineVaults, sw.js).
MirrorsAreRight == DocumentsFiledRight /\ ShownIsCurrent /\ OnceServedStaysServed
==============================================================================
