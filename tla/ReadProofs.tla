----------------------------- MODULE ReadProofs -----------------------------
(***************************************************************************)
(* TLAPS proofs about what the web application reads and keeps a copy of:  *)
(* mirrored reads and the service worker's caches (OfflineReads), and the  *)
(* event-log reader, whose cache implements a mirror of the chain's log    *)
(* (LogMirror), for any log, queries and providers.                        *)
(***************************************************************************)
EXTENDS OfflineReads, EventLogs, FiniteSetTheorems, TLAPS
-----------------------------------------------------------------------------
(* The mirrored reads: an answer that waits to be filed is about the account and the network    *)
(* of its read, and a load that is not cancelled is the hook's own.                              *)
ReadTypeOK ==
    \/ read = NoRead
    \/ read \in [stage : {"live", "fall back"}, kind : ReadKinds, account : Accounts, chain : Chains]
    \/ /\ read.stage \in {"store", "answered"} /\ read.kind \in ReadKinds
       /\ read.account \in Accounts /\ read.chain \in Chains
Loads == [account : Accounts, chain : Chains, cancelled : BOOLEAN]
Shown == (Accounts \cup {"none"}) \X Chains
Hooks == [account : Accounts \cup {"none"}, chain : Chains, loads : SUBSET Loads,
          shown : SUBSET Shown, isLoaded : BOOLEAN, failed : BOOLEAN]
AnswerIsOwn == read.stage = "store" => read.items \subseteq {<<read.chain, read.account>>}
LoadsAreOwn == \A l \in hook.loads : ~l.cancelled => l.account = hook.account /\ l.chain = hook.chain

ReadsInv ==
    /\ chosen \in Chains /\ ReadTypeOK /\ hook \in Hooks
    /\ AnswerIsOwn /\ LoadsAreOwn /\ DocumentsFiledRight /\ ShownIsCurrent

LEMMA FiledRight ==
    ASSUME NEW k, NEW a, NEW c, NEW items
    PROVE  \A r \in Filed(k, a, c, items) :
              r.kind = k /\ r.account = a /\ r.chain = c /\ r.item \in items
  BY DEF Filed

\* What a cache write leaves: rows that were there, and the answer's under the network it is given.
LEMMA Written ==
    ASSUME NEW k \in ReadKinds, NEW a, NEW c, NEW items, NEW r \in writeCache(k, a, c, items),
           r.kind = "documents", r \notin mirror
    PROVE  k = "documents" /\ r.account = a /\ r.chain = c /\ r.item \in items
<1>1. CASE k = "vaults"
  BY <1>1, FiledRight DEF writeCache, putVaults
<1>2. CASE k = "documents"
  BY <1>2, FiledRight DEF writeCache, putDocuments
<1>3. CASE k = "invites"
  BY <1>3, FiledRight DEF writeCache, putInvites
<1>4. CASE k = "keyring"
  BY <1>4, FiledRight DEF writeCache, putPublicKey
<1> QED
  BY <1>1, <1>2, <1>3, <1>4, Zenon DEF ReadKinds

LEMMA LoadStep == ASSUME ReadsInv, LoadEnds PROVE hook' \in Hooks /\ LoadsAreOwn' /\ ShownIsCurrent'
<1>1. PICK l \in hook.loads : loaded(l)
  BY Zenon DEF LoadEnds
<1>2. hook \in Hooks /\ hook.loads \subseteq Loads
  BY Zenon DEF ReadsInv, Hooks
<1>3. l \in Loads /\ (hook.loads \ {l}) \in SUBSET Loads
  BY <1>2, Zenon
<1> DEFINE S == OwnersOf(getCachedVaults(l.account, l.chain) \cup getCachedDocuments(l.account, l.chain), l)
<1>4. S \subseteq {<<l.account, l.chain>>} /\ S \in SUBSET Shown
  BY <1>3 DEF OwnersOf, Loads, Shown
<1>5. CASE l.cancelled /\ hook' = [hook EXCEPT !.loads = hook.loads \ {l}]
  <2>1. /\ hook' \in Hooks /\ hook'.loads = hook.loads \ {l} /\ hook'.account = hook.account /\ hook'.chain = hook.chain
        /\ hook'.shown = hook.shown /\ hook'.isLoaded = hook.isLoaded /\ hook'.failed = hook.failed
    BY <1>2, <1>3, <1>5, Zenon DEF Hooks
  <2> QED
    BY <2>1, Zenon DEF ReadsInv, LoadsAreOwn, ShownIsCurrent
<1>6. CASE ~l.cancelled /\ hook' = [hook EXCEPT !.loads = hook.loads \ {l}, !.isLoaded = TRUE, !.failed = FALSE, !.shown = S]
  <2>1. hook' \in Hooks /\ hook'.loads = hook.loads \ {l} /\ hook'.account = hook.account /\ hook'.chain = hook.chain
        /\ hook'.shown = S
    BY <1>2, <1>3, <1>4, <1>6, Zenon DEF Hooks
  <2>2. l.account = hook.account /\ l.chain = hook.chain
    BY <1>6, Zenon DEF ReadsInv, LoadsAreOwn
  <2> QED
    BY <1>4, <2>1, <2>2, Zenon DEF ReadsInv, LoadsAreOwn, ShownIsCurrent
<1>7. CASE ~l.cancelled /\ hook' = [hook EXCEPT !.loads = hook.loads \ {l}, !.isLoaded = TRUE, !.failed = TRUE]
  <2>1. hook' \in Hooks /\ hook'.loads = hook.loads \ {l} /\ hook'.account = hook.account /\ hook'.chain = hook.chain
        /\ hook'.failed
    BY <1>2, <1>3, <1>7, Zenon DEF Hooks
  <2> QED
    BY <2>1, Zenon DEF ReadsInv, LoadsAreOwn, ShownIsCurrent
<1> QED
  BY <1>1, <1>5, <1>6, <1>7, Zenon DEF loaded

LEMMA CallHookStep ==
    ASSUME ReadsInv, NEW a \in Accounts \cup {"none"}, useOfflineVaults(a, chosen)
    PROVE  hook' \in Hooks /\ LoadsAreOwn' /\ ShownIsCurrent'
<1> DEFINE old == {[l EXCEPT !.cancelled = TRUE] : l \in hook.loads}
           fresh == IF a = "none" THEN {} ELSE {[account |-> a, chain |-> chosen, cancelled |-> FALSE]}
<1>1. hook.loads \subseteq Loads /\ hook.shown \in SUBSET Shown /\ hook.failed \in BOOLEAN /\ chosen \in Chains
  BY Zenon DEF ReadsInv, Hooks
<1>2. \A l \in Loads : [l EXCEPT !.cancelled = TRUE] \in Loads /\ [l EXCEPT !.cancelled = TRUE].cancelled
  BY Zenon DEF Loads
<1>3. old \subseteq Loads /\ \A l \in old : l.cancelled
  BY <1>1, <1>2, Zenon
<1>4. fresh \subseteq Loads /\ \A l \in fresh : l.account = a /\ l.chain = chosen
  <2>1. CASE a = "none"
    BY <2>1, Zenon
  <2>2. CASE a # "none"
    <3>1. [account |-> a, chain |-> chosen, cancelled |-> FALSE] \in Loads
      BY <1>1, <2>2, Zenon DEF Loads
    <3> QED
      BY <2>2, <3>1
  <2> QED
    BY <2>1, <2>2, Zenon
<1>5. hook' = [account |-> a, chain |-> chosen, loads |-> old \cup fresh, shown |-> IF a = "none" THEN {} ELSE hook.shown,
               isLoaded |-> a = "none", failed |-> a # "none" /\ hook.failed]
  BY Zenon DEF useOfflineVaults
<1> HIDE DEF old, fresh
<1>6. /\ hook'.account = a /\ hook'.chain = chosen /\ hook'.loads = old \cup fresh
      /\ hook'.shown = (IF a = "none" THEN {} ELSE hook.shown) /\ hook'.isLoaded = (a = "none")
  BY <1>5, Zenon
<1>7. hook' \in Hooks
  <2>1. (IF a = "none" THEN {} ELSE hook.shown) \in SUBSET Shown
    BY <1>1, Zenon
  <2>2. old \cup fresh \in SUBSET Loads
    BY <1>3, <1>4, Zenon
  <2>3. (a = "none") \in BOOLEAN /\ (a # "none" /\ hook.failed) \in BOOLEAN
    BY Zenon
  <2> QED
    BY <1>1, <1>5, <2>1, <2>2, <2>3, Zenon DEF Hooks
<1>8. LoadsAreOwn'
  BY <1>3, <1>4, <1>6, Zenon DEF LoadsAreOwn
<1>9. ShownIsCurrent'
  <2>1. hook'.isLoaded => hook'.shown = {}
    BY <1>6, Zenon
  <2> QED
    BY <2>1, Zenon DEF ShownIsCurrent
<1> QED
  BY <1>7, <1>8, <1>9, Zenon

LEMMA ReadCases ==
    ASSUME ReadTypeOK
    PROVE  /\ read.stage = "live" => read \in [stage : {"live", "fall back"}, kind : ReadKinds, account : Accounts, chain : Chains]
           /\ read.stage \in {"fall back", "store"} => read.kind \in ReadKinds /\ read.account \in Accounts /\ read.chain \in Chains
<1>1. CASE read = NoRead
  <2>1. read.stage = "none"
    BY <1>1, Zenon DEF NoRead
  <2> QED
    BY <2>1, Zenon
<1>2. CASE read \in [stage : {"live", "fall back"}, kind : ReadKinds, account : Accounts, chain : Chains]
  BY <1>2, Zenon
<1>3. CASE read.stage \in {"store", "answered"} /\ read.kind \in ReadKinds /\ read.account \in Accounts /\ read.chain \in Chains
  BY <1>3, Zenon
<1> QED
  BY <1>1, <1>2, <1>3, Zenon DEF ReadTypeOK

LEMMA FetchStep == ASSUME ReadsInv, fetchLive PROVE ReadTypeOK' /\ AnswerIsOwn'
<1>1. read.stage = "live" /\ read \in [stage : {"live", "fall back"}, kind : ReadKinds, account : Accounts, chain : Chains]
  BY ReadCases, Zenon DEF ReadsInv, fetchLive
<1>2. CASE read' = [stage |-> "store", kind |-> read.kind, account |-> read.account,
                    chain |-> read.chain, items |-> Live(read.chain, read.account)]
  BY <1>1, <1>2, Zenon DEF ReadTypeOK, AnswerIsOwn, Live
<1>3. CASE read' = [read EXCEPT !.stage = "fall back"]
  BY <1>1, <1>3, Zenon DEF ReadTypeOK, AnswerIsOwn
<1>4. CASE read' = NoRead
  BY <1>4, Zenon DEF ReadTypeOK, AnswerIsOwn, NoRead
<1> QED
  BY <1>2, <1>3, <1>4, Zenon DEF fetchLive

LEMMA FallbackStep ==
    ASSUME ReadsInv, withOfflineFallback PROVE ReadTypeOK' /\ AnswerIsOwn' /\ DocumentsFiledRight'
<1>1. CASE read.stage = "store"
  <2>1. read.kind \in ReadKinds /\ read.account \in Accounts /\ read.chain \in Chains
    BY <1>1, ReadCases, Zenon DEF ReadsInv
  <2>2. read' = [stage |-> "answered", kind |-> read.kind, account |-> read.account,
                 chain |-> read.chain, items |-> read.items]
    BY <1>1, Zenon DEF withOfflineFallback
  <2>3. ReadTypeOK' /\ AnswerIsOwn'
    BY <2>1, <2>2, Zenon DEF ReadTypeOK, AnswerIsOwn
  <2>4. mirror' \in {writeCache(read.kind, read.account, fileUnder(read), read.items), mirror}
    BY <1>1, Zenon DEF withOfflineFallback
  <2>5. read.items \subseteq {<<read.chain, read.account>>}
    BY <1>1, Zenon DEF ReadsInv, AnswerIsOwn
  <2>6. ASSUME NEW r \in mirror', r.kind = "documents" PROVE r.item = <<r.chain, r.account>>
    <3>1. CASE r \in mirror
      BY <2>6, <3>1, Zenon DEF ReadsInv, DocumentsFiledRight
    <3>2. CASE r \notin mirror
      <4>1. r \in writeCache(read.kind, read.account, fileUnder(read), read.items)
        BY <2>4, <3>2
      <4>2. read.kind = "documents" /\ r.account = read.account /\ r.chain = fileUnder(read) /\ r.item \in read.items
        BY <2>1, <2>6, <3>2, <4>1, Written, Zenon
      <4> QED
        BY <2>5, <4>2, Zenon DEF fileUnder
    <3> QED
      BY <3>1, <3>2, Zenon
  <2> QED
    BY <2>3, <2>6, Zenon DEF DocumentsFiledRight
<1>2. CASE read.stage = "fall back"
  <2>1. read.kind \in ReadKinds /\ read.account \in Accounts /\ read.chain \in Chains
    BY <1>2, ReadCases, Zenon DEF ReadsInv
  <2>2. mirror' = mirror /\ (read' = NoRead \/
            \E c : read' = [stage |-> "answered", kind |-> read.kind, account |-> read.account, chain |-> read.chain, items |-> c])
    BY <1>2, Zenon DEF withOfflineFallback
  <2>3. CASE read' = NoRead
    BY <2>2, <2>3, Zenon DEF ReadTypeOK, AnswerIsOwn, NoRead, ReadsInv, DocumentsFiledRight
  <2>4. ASSUME NEW c, read' = [stage |-> "answered", kind |-> read.kind, account |-> read.account, chain |-> read.chain, items |-> c]
        PROVE  ReadTypeOK' /\ AnswerIsOwn'
    BY <2>1, <2>4 DEF ReadTypeOK, AnswerIsOwn
  <2> QED
    BY <2>2, <2>3, <2>4, Zenon DEF ReadsInv, DocumentsFiledRight
<1> QED
  BY <1>1, <1>2, Zenon DEF withOfflineFallback

LEMMA ReadsStep == ReadsInv /\ [OfflineReadsNext(ReadKinds)]_offlineReadVars => ReadsInv'
<1> SUFFICES ASSUME ReadsInv, [OfflineReadsNext(ReadKinds)]_offlineReadVars PROVE ReadsInv'
  BY Zenon
<1>1. CASE WorldChanges
  <2>1. chosen' \in Chains /\ UNCHANGED <<mirror, read, hook>>
    BY <1>1, Zenon DEF WorldChanges, ReadsInv
  <2> QED
    BY <2>1, Zenon DEF ReadsInv, ReadTypeOK, AnswerIsOwn, LoadsAreOwn, DocumentsFiledRight, ShownIsCurrent
<1>2. CASE fetchLive
  <2>1. ReadTypeOK' /\ AnswerIsOwn' /\ UNCHANGED <<chosen, mirror, hook>>
    BY <1>2, FetchStep, Zenon DEF fetchLive
  <2> QED
    BY <2>1, Zenon DEF ReadsInv, LoadsAreOwn, DocumentsFiledRight, ShownIsCurrent
<1>3. CASE withOfflineFallback
  <2>1. ReadTypeOK' /\ AnswerIsOwn' /\ DocumentsFiledRight' /\ UNCHANGED <<chosen, hook>>
    BY <1>3, FallbackStep, Zenon DEF withOfflineFallback
  <2> QED
    BY <2>1, Zenon DEF ReadsInv, LoadsAreOwn, ShownIsCurrent
<1>4. CASE Answered
  <2>1. read' = NoRead /\ UNCHANGED <<chosen, mirror, hook>>
    BY <1>4, Zenon DEF Answered
  <2>2. ReadTypeOK' /\ AnswerIsOwn'
    BY <2>1, Zenon DEF ReadTypeOK, AnswerIsOwn, NoRead
  <2> QED
    BY <2>1, <2>2, Zenon DEF ReadsInv, LoadsAreOwn, DocumentsFiledRight, ShownIsCurrent
<1>5. CASE Reload
  <2>1. read' = NoRead /\ mirror' \subseteq mirror /\ chosen' = chosen
    BY <1>5, Zenon DEF Reload
  <2>2. ReadTypeOK' /\ AnswerIsOwn'
    BY <2>1, Zenon DEF ReadTypeOK, AnswerIsOwn, NoRead
  <2>3. hook \in Hooks /\ {} \in SUBSET Loads /\ {} \in SUBSET Shown /\ "none" \in Accounts \cup {"none"}
    BY Zenon DEF ReadsInv
  <2>4. hook' \in Hooks /\ hook'.loads = {} /\ hook'.shown = {}
    BY <1>5, <2>3, Zenon DEF Reload, Hooks
  <2> QED
    BY <2>1, <2>2, <2>4, Zenon DEF ReadsInv, LoadsAreOwn, DocumentsFiledRight, ShownIsCurrent
<1>6. CASE LoadEnds
  <2>1. UNCHANGED <<chosen, mirror, read>>
    BY <1>6, Zenon DEF LoadEnds
  <2> QED
    BY <1>6, <2>1, LoadStep, Zenon DEF ReadsInv, ReadTypeOK, AnswerIsOwn, DocumentsFiledRight
<1>7. ASSUME NEW a \in Accounts, NEW k \in ReadKinds, StartRead(k, a) PROVE ReadsInv'
  <2>1. read' = [stage |-> "live", kind |-> k, account |-> a, chain |-> chosen] /\ UNCHANGED <<chosen, mirror, hook>>
    BY <1>7, Zenon DEF StartRead
  <2>2. ReadTypeOK' /\ AnswerIsOwn'
    BY <2>1, Zenon DEF ReadTypeOK, AnswerIsOwn, ReadsInv
  <2> QED
    BY <2>1, <2>2, Zenon DEF ReadsInv, LoadsAreOwn, DocumentsFiledRight, ShownIsCurrent
<1>8. ASSUME NEW a \in Accounts \cup {"none"}, useOfflineVaults(a, chosen) PROVE ReadsInv'
  <2>1. UNCHANGED <<chosen, mirror, read>>
    BY <1>8, Zenon DEF useOfflineVaults
  <2> QED
    BY <1>8, <2>1, CallHookStep, Zenon DEF ReadsInv, ReadTypeOK, AnswerIsOwn, DocumentsFiledRight
<1>9. CASE UNCHANGED offlineReadVars
  BY <1>9, Zenon DEF offlineReadVars, ReadsInv, ReadTypeOK, AnswerIsOwn, LoadsAreOwn, DocumentsFiledRight, ShownIsCurrent
<1>10. "vaults" \in ReadKinds /\ "documents" \in ReadKinds /\ "invites" \in ReadKinds /\ "keyring" \in ReadKinds
  BY Zenon DEF ReadKinds
<1> QED
  BY <1>1, <1>2, <1>3, <1>4, <1>5, <1>6, <1>7, <1>8, <1>9, <1>10, Zenon
     DEF OfflineReadsNext, proxiedFetchVaultsForAccount, proxiedFetchDocumentsForVaults, proxiedFetchPendingInvites,
         proxiedGetUserPublicKey

LEMMA ReadsStart == OfflineReadsInit => ReadsInv
<1> SUFFICES ASSUME OfflineReadsInit PROVE ReadsInv
  BY Zenon
<1>1. hook \in Hooks /\ hook.loads = {} /\ hook.shown = {}
  BY Zenon DEF OfflineReadsInit, Hooks, Shown, Loads
<1>2. ReadTypeOK /\ AnswerIsOwn /\ DocumentsFiledRight /\ chosen \in Chains
  BY Zenon DEF OfflineReadsInit, ReadTypeOK, AnswerIsOwn, NoRead, DocumentsFiledRight
<1> QED
  BY <1>1, <1>2, Zenon DEF ReadsInv, LoadsAreOwn, ShownIsCurrent
-----------------------------------------------------------------------------
(* The service worker: what was once answered is in a cache that activate keeps.                *)
SwTypeOK ==
    /\ release \in Nat \ {0} /\ swStage \in {"none", "installed", "active"}
    /\ cacheOf \in [KNOWN_CACHES \cup {"old"} -> [Requests -> Nat]]
    /\ fulfilled \subseteq Requests
Kept == \A q \in fulfilled : \E n \in KNOWN_CACHES : cacheOf[n][q] > 0
OldIsGone == swStage = "active" => \A q \in Requests : cacheOf["old"][q] = 0
ShellIsThere == swStage # "none" => cacheOf["shell"]["/"] > 0

SwInv == SwTypeOK /\ Kept /\ OldIsGone /\ ShellIsThere

LEMMA SwStep == SwInv /\ [SwNext]_swVars => SwInv'
<1> SUFFICES ASSUME SwInv, [SwNext]_swVars PROVE SwInv'
  BY Zenon
<1> USE StartPage DEF Requests
<1>1. CASE NetworkChanges \/ Deploy
  BY <1>1 DEF NetworkChanges, Deploy, SwInv, SwTypeOK, Kept, OldIsGone, ShellIsThere, KNOWN_CACHES
<1>2. ASSUME NEW name \in KNOWN_CACHES, NEW q \in Requests, Put(name, q)
      PROVE  /\ cacheOf' \in [KNOWN_CACHES \cup {"old"} -> [Requests -> Nat]]
             /\ cacheOf'[name][q] > 0 /\ cacheOf'["old"] = cacheOf["old"]
             /\ \A n \in KNOWN_CACHES, x \in Requests : cacheOf[n][x] > 0 => cacheOf'[n][x] > 0
  BY <1>2 DEF SwInv, SwTypeOK, Put, KNOWN_CACHES
<1>3. CASE install
  <2>1. Put("shell", "/") /\ "shell" \in KNOWN_CACHES /\ "/" \in Requests
    BY <1>3, Zenon DEF install, Put, KNOWN_CACHES
  <2>2. swStage' = "installed" /\ UNCHANGED <<swNetwork, release, fulfilled>>
    BY <1>3, Zenon DEF install
  <2> QED
    BY <1>2, <2>1, <2>2, Zenon DEF SwInv, SwTypeOK, Kept, OldIsGone, ShellIsThere
<1>4. CASE activate
  <2>1. /\ swStage' = "active" /\ swStage = "installed" /\ UNCHANGED <<swNetwork, release, fulfilled>>
        /\ cacheOf' = [n \in KNOWN_CACHES \cup {"old"} |-> IF n \in KNOWN_CACHES THEN cacheOf[n] ELSE Empty]
    BY <1>4, Zenon DEF activate, SwInv, SwTypeOK
  <2>2. /\ \A n \in KNOWN_CACHES : cacheOf'[n] = cacheOf[n]
        /\ cacheOf'["old"] = Empty
    BY <2>1, Zenon DEF KNOWN_CACHES
  <2>3. Empty \in [Requests -> Nat] /\ \A q \in Requests : Empty[q] = 0
    BY Zenon DEF Empty
  <2>4. cacheOf' \in [KNOWN_CACHES \cup {"old"} -> [Requests -> Nat]]
    BY <2>1, <2>3, Zenon DEF SwInv, SwTypeOK
  <2> QED
    BY <2>1, <2>2, <2>3, <2>4, Zenon DEF SwInv, SwTypeOK, Kept, OldIsGone, ShellIsThere, KNOWN_CACHES
<1>5. ASSUME NEW q \in Requests, NEW ok \in BOOLEAN, fetchEvent(q, ok) PROVE SwInv'
  <2>1. swStage = "active" /\ UNCHANGED <<swNetwork, release, swStage>>
    BY <1>5, Zenon DEF fetchEvent
  <2>2. caches_match(q) => \E n \in KNOWN_CACHES : cacheOf[n][q] > 0
    BY <2>1 DEF caches_match, SwInv, SwTypeOK, OldIsGone
  <2>3. (\E n \in KNOWN_CACHES : Put(n, q)) \/ UNCHANGED cacheOf
    BY <1>5, Zenon DEF fetchEvent, networkFirst, staleWhileRevalidate, cacheFirst, KNOWN_CACHES
  <2>4. fulfilled' \subseteq fulfilled \/ (fulfilled' = fulfilled \cup {q} /\ \E n \in KNOWN_CACHES : Put(n, q) \/ (UNCHANGED cacheOf /\ cacheOf[n][q] > 0))
    <3>1. CASE q \in Pages /\ networkFirst(q, ok)
      BY <3>1, <2>2, Zenon DEF networkFirst, KNOWN_CACHES
    <3>2. CASE q \in Assets /\ staleWhileRevalidate(q, ok)
      BY <3>2, <2>2, Zenon DEF staleWhileRevalidate, KNOWN_CACHES
    <3>3. CASE q \in Cids /\ cacheFirst(q, ok)
      BY <3>3, <2>2, Zenon DEF cacheFirst, KNOWN_CACHES
    <3> QED
      BY <1>5, <3>1, <3>2, <3>3, Zenon DEF fetchEvent
  <2>5. /\ cacheOf' \in [KNOWN_CACHES \cup {"old"} -> [Requests -> Nat]] /\ cacheOf'["old"] = cacheOf["old"]
        /\ \A n \in KNOWN_CACHES, x \in Requests : cacheOf[n][x] > 0 => cacheOf'[n][x] > 0
    BY <1>2, <2>3, Zenon DEF SwInv, SwTypeOK
  <2>6. fulfilled' \subseteq Requests /\ Kept'
    <3>1. CASE fulfilled' \subseteq fulfilled
      BY <3>1, <2>5, Zenon DEF SwInv, SwTypeOK, Kept
    <3>2. CASE fulfilled' = fulfilled \cup {q} /\ \E n \in KNOWN_CACHES : Put(n, q) \/ (UNCHANGED cacheOf /\ cacheOf[n][q] > 0)
      <4>1. \E n \in KNOWN_CACHES : cacheOf'[n][q] > 0
        BY <1>2, <3>2, Zenon
      <4> QED
        BY <3>2, <4>1, <2>5, Zenon DEF SwInv, SwTypeOK, Kept
    <3> QED
      BY <2>4, <3>1, <3>2, Zenon
  <2> QED
    BY <2>1, <2>5, <2>6, Zenon DEF SwInv, SwTypeOK, OldIsGone, ShellIsThere, KNOWN_CACHES
<1>6. CASE UNCHANGED swVars
  BY <1>6, Zenon DEF swVars, SwInv, SwTypeOK, Kept, OldIsGone, ShellIsThere
<1> QED
  BY <1>1, <1>3, <1>4, <1>5, <1>6, Zenon DEF SwNext

LEMMA SwStart == SwInit => SwInv
  BY StartPage DEF SwInit, SwInv, SwTypeOK, Kept, OldIsGone, ShellIsThere, KNOWN_CACHES, Empty, Requests

LEMMA SwSafe == SwInv => OnceServedStaysServed
  BY StartPage, Zenon DEF SwInv, SwTypeOK, Kept, ShellIsThere, OnceServedStaysServed, caches_match, KNOWN_CACHES, Requests

\* Mirrors and caches serve what they were given, for any accounts, networks and files: the document
\* mirror files a row under the account and network it was read for though the user switches
\* networks meanwhile, useOfflineVaults shows the rows of the account and network it was called
\* with, and what the service worker answered once it can answer again.
THEOREM MirrorsRight == OfflineReadsSpec /\ SwSpec => []MirrorsAreRight
<1>1. ReadsInv /\ SwInv => MirrorsAreRight
  BY SwSafe, Zenon DEF ReadsInv, MirrorsAreRight
<1>2. OfflineReadsSpec => []ReadsInv
  BY ReadsStart, ReadsStep, PTL DEF OfflineReadsSpec
<1>3. SwSpec => []SwInv
  BY SwStart, SwStep, PTL DEF SwSpec
<1> QED
  BY <1>1, <1>2, <1>3, PTL

-----------------------------------------------------------------------------
(* The event-log reader. *)

\* The events up to a block are some of the filter's events.
LEMMA CountType ==
  ASSUME NEW b \in Int
  PROVE  Count(b) \in Nat /\ Count(b) <= Len(BLOCK_OF)
<1> DEFINE D == DOMAIN BLOCK_OF
<1>1. D = 1 .. Len(BLOCK_OF) /\ Len(BLOCK_OF) \in Nat
  BY LogConstants
<1>2. IsFiniteSet(D) /\ Cardinality(D) = Len(BLOCK_OF)
  <2>1. PICK l \in Nat : l = Len(BLOCK_OF)
    BY <1>1, Zenon
  <2>2. IsFiniteSet(1 .. l) /\ Cardinality(1 .. l) = IF 1 > l THEN 0 ELSE l - 1 + 1
    BY FS_Interval
  <2> QED
    BY <1>1, <2>1, <2>2, SMTT(30)
<1>3. {n \in D : BLOCK_OF[n] <= b} \in SUBSET D
  BY Zenon
<1> HIDE DEF D
<1>4. PICK S : S = {n \in D : BLOCK_OF[n] <= b}
  BY Zenon
<1>5. IsFiniteSet(S) /\ Cardinality(S) <= Cardinality(D)
  BY <1>2, <1>3, <1>4, FS_Subset, Zenon
<1>6. Cardinality(S) \in Nat
  BY <1>5, FS_CardinalityType, Zenon
<1> QED
  BY <1>2, <1>4, <1>5, <1>6, Zenon DEF Count, D

\* A later block has no fewer events before it.
LEMMA CountMonotone ==
  ASSUME NEW a \in Int, NEW b \in Int, a <= b
  PROVE  Count(a) <= Count(b)
<1>1. PICK S : S = {n \in DOMAIN BLOCK_OF : BLOCK_OF[n] <= a}
  BY Zenon
<1>2. PICK T : T = {n \in DOMAIN BLOCK_OF : BLOCK_OF[n] <= b}
  BY Zenon
<1>3. \A n \in DOMAIN BLOCK_OF : BLOCK_OF[n] \in Nat
  BY LogConstants
<1>4. S \in SUBSET T
  BY <1>1, <1>2, <1>3
<1>5. DOMAIN BLOCK_OF = 1 .. Len(BLOCK_OF) /\ Len(BLOCK_OF) \in Nat
  BY LogConstants
<1>6. IsFiniteSet(DOMAIN BLOCK_OF)
  BY <1>5, FS_Interval
<1>7. T \in SUBSET DOMAIN BLOCK_OF
  BY <1>2, Zenon
<1>8. IsFiniteSet(T)
  BY <1>6, <1>7, FS_Subset, Zenon
<1>9. Cardinality(S) <= Cardinality(T)
  BY <1>4, <1>8, FS_Subset, Zenon
<1> QED
  BY <1>1, <1>2, <1>9, Zenon DEF Count

\* There is no event before the deploy block.
LEMMA NoneBefore ==
  ASSUME NEW b \in Int, b < FROM_BLOCK
  PROVE  Count(b) = 0
<1>1. \A n \in DOMAIN BLOCK_OF : BLOCK_OF[n] \in Nat /\ BLOCK_OF[n] >= FROM_BLOCK
  BY LogConstants
<1>2. {n \in DOMAIN BLOCK_OF : BLOCK_OF[n] <= b} = {}
  BY <1>1, LogConstants
<1> QED
  BY <1>2, FS_EmptySet, Zenon DEF Count

\* The copy up to block n holds the events 1 .. Count(n).
LEMMA CopyForm ==
  ASSUME NEW n \in Int
  PROVE  CopyOf(n) = [i \in 1 .. Count(n) |-> i]
<1>1. FROM_BLOCK - 1 \in Int /\ FROM_BLOCK - 1 < FROM_BLOCK
  BY LogConstants
<1>2. Count(FROM_BLOCK - 1) = 0
  BY <1>1, NoneBefore, Zenon
<1>3. Count(n) \in Nat
  BY CountType, Zenon
<1>4. Count(n) - 0 = Count(n) /\ \A i \in 1 .. Count(n) : 0 + i = i
  BY <1>3
<1>5. CopyOf(n) = [i \in 1 .. Count(n) - 0 |-> 0 + i]
  BY <1>2, Zenon DEF CopyOf, LogsOf
<1> QED
  BY <1>4, <1>5, Zenon

\* The copy up to a block before the deploy block is empty.
LEMMA CopyEmpty ==
  ASSUME NEW n \in Int, n < FROM_BLOCK
  PROVE  CopyOf(n) = <<>>
<1>1. CopyOf(n) = [i \in 1 .. 0 |-> i]
  BY CopyForm, NoneBefore, Zenon
<1> QED
  BY <1>1

\* Appending the logs of the following blocks extends a copy (a chunk of getEventLogs).
LEMMA CopyExtends ==
  ASSUME NEW a \in Nat, NEW e \in Nat, a <= e
  PROVE  CopyOf(a) \o LogsOf(a + 1, e) = CopyOf(e)
<1>1. PICK x : x = Count(a)
  BY Zenon
<1>2. PICK y : y = Count(e)
  BY Zenon
<1>3. x \in Nat /\ y \in Nat /\ x <= y
  BY <1>1, <1>2, CountType, CountMonotone
<1>4. a + 1 - 1 = a
  OBVIOUS
<1>5. LogsOf(a + 1, e) = [i \in 1 .. y - x |-> x + i]
  BY <1>1, <1>2, <1>4 DEF LogsOf
<1>6. CopyOf(a) = [i \in 1 .. x |-> i] /\ CopyOf(e) = [i \in 1 .. y |-> i]
  BY <1>1, <1>2, CopyForm
<1>7. [i \in 1 .. x |-> i] \o [i \in 1 .. y - x |-> x + i] = [i \in 1 .. y |-> i]
  BY <1>3
<1> QED
  BY <1>5, <1>6, <1>7, Zenon

\* Sorting a copy changes nothing (sortLogsAscending).
LEMMA CopySorted ==
  ASSUME NEW n \in Int
  PROVE  sortLogsAscending(CopyOf(n)) = CopyOf(n)
<1>1. PICK c : c = Count(n)
  BY Zenon
<1>2. c \in Nat /\ c <= Len(BLOCK_OF) /\ Len(BLOCK_OF) \in Nat
  BY <1>1, CountType, LogConstants
<1>3. PICK s : s = CopyOf(n)
  BY Zenon
<1>4. DOMAIN s = 1 .. c /\ \A k \in 1 .. c : s[k] = k
  BY <1>1, <1>3, CopyForm, Zenon
<1>5. \A j, k \in 1 .. c : Before(j, k) <=> j < k
  <2>1. DOMAIN BLOCK_OF = 1 .. Len(BLOCK_OF)
    BY LogConstants
  <2>2. \A k \in 1 .. c : k \in DOMAIN BLOCK_OF /\ BLOCK_OF[k] \in Nat
    BY <1>2, <2>1, LogConstants
  <2>3. \A j, k \in 1 .. c : j < k => BLOCK_OF[j] <= BLOCK_OF[k]
    BY <2>2, LogConstants, Zenon
  <2> QED
    BY <2>2, <2>3 DEF Before
<1>6. ASSUME NEW k \in 1 .. c
      PROVE  Rank(s, k) = k
  <2>1. {j \in DOMAIN s : Before(s[j], s[k]) \/ (s[j] = s[k] /\ j <= k)} = 1 .. k
    BY <1>2, <1>4, <1>5
  <2>2. Cardinality(1 .. k) = k
    BY <1>2, FS_Interval
  <2> QED
    BY <2>1, <2>2, Zenon DEF Rank
<1>7. ASSUME NEW i \in 1 .. c
      PROVE  (CHOOSE k \in DOMAIN s : Rank(s, k) = i) = i
  BY <1>4, <1>6, Zenon
<1>8. sortLogsAscending(s) = [i \in 1 .. c |-> s[i]]
  BY <1>4, <1>7, Zenon DEF sortLogsAscending
<1>9. s = [i \in 1 .. c |-> i]
  BY <1>1, <1>3, CopyForm, Zenon
<1>10. sortLogsAscending(s) = s
  BY <1>4, <1>8, <1>9, Zenon
<1> QED
  BY <1>3, <1>10, Zenon

\* All of a copy is from the deploy block on (the filter on cached logs in getEventLogs).
LEMMA CopyKept ==
  ASSUME NEW n \in Int
  PROVE  sinceDeployment(CopyOf(n)) = CopyOf(n)
<1>1. PICK c : c = Count(n)
  BY Zenon
<1>2. c \in Nat /\ c <= Len(BLOCK_OF) /\ Len(BLOCK_OF) \in Nat
  BY <1>1, CountType, LogConstants
<1>3. PICK s : s = CopyOf(n)
  BY Zenon
<1>4. DOMAIN s = 1 .. c /\ \A k \in 1 .. c : s[k] = k
  BY <1>1, <1>3, CopyForm, Zenon
<1>5. \A k \in 1 .. c : BLOCK_OF[k] >= FROM_BLOCK
  <2>1. DOMAIN BLOCK_OF = 1 .. Len(BLOCK_OF)
    BY LogConstants
  <2>2. \A k \in 1 .. c : k \in DOMAIN BLOCK_OF
    BY <1>2, <2>1
  <2> QED
    BY <2>2, LogConstants, Zenon
<1>6. {k \in DOMAIN s : BLOCK_OF[s[k]] >= getFromBlock} = 1 .. c
  BY <1>4, <1>5, Zenon DEF getFromBlock
<1>7. Cardinality(1 .. c) = c
  BY <1>2, FS_Interval
<1>8. ASSUME NEW k \in 1 .. c
      PROVE  Cardinality({j \in 1 .. c : j <= k}) = k
  <2>1. {j \in 1 .. c : j <= k} = 1 .. k
    BY <1>2
  <2>2. Cardinality(1 .. k) = k
    BY <1>2, FS_Interval
  <2> QED
    BY <2>1, <2>2, Zenon
<1>9. ASSUME NEW i \in 1 .. c
      PROVE  Place(1 .. c, i) = i
  BY <1>8, Zenon DEF Place
<1>10. sinceDeployment(s) = [i \in 1 .. c |-> s[i]]
  <2>1. sinceDeployment(s) = Entries(s, 1 .. c)
    BY <1>6, Zenon DEF sinceDeployment
  <2>2. Entries(s, 1 .. c) = [i \in 1 .. c |-> s[i]]
    BY <1>7, <1>9 DEF Entries
  <2> QED
    BY <2>1, <2>2, Zenon
<1>11. s = [i \in 1 .. c |-> i]
  BY <1>1, <1>3, CopyForm, Zenon
<1>12. sinceDeployment(s) = s
  BY <1>4, <1>10, <1>11, Zenon
<1> QED
  BY <1>3, <1>12, Zenon

\* The cache up to block n, an answer, and a query under way.
CacheAt(n) == [lastSyncedBlock |-> n, logs |-> CopyOf(n)]
Answer(n)  == [stage |-> "answered", logs |-> CopyOf(n)]
Reading(stage, p, m, k, c, t) ==
  [stage |-> stage, provider |-> p, cached |-> CacheAt(m), cachedLogs |-> CopyOf(m),
   logs |-> CopyOf(k), current |-> c, to |-> t]

\* What a query holds is an exact copy at every moment: what it found in the cache, what it has
\* read so far and what it answers.
ExactQuery(r, h) ==
  \/ r = NoQuery
  \/ \E n \in 0 .. h : r = Answer(n)
  \/ \E p \in Int, m \in 0 .. h, k \in 0 .. h, c \in Nat, t \in Nat : r = Reading("head", p, m, k, c, t)
  \/ \E p \in Int, m \in 0 .. h, k \in 0 .. h, c \in Nat, t \in 0 .. h :
        /\ r = Reading("chunks", p, m, k, c, t)
        /\ c > 0 /\ t > 0 /\ k = IF c <= t THEN c - 1 ELSE t

\* The inductive invariant: the cache and every query are exact.
LogInv ==
  /\ chainHead \in Nat /\ FROM_BLOCK <= chainHead
  /\ \E n \in 0 .. chainHead : logCache = CacheAt(n)
  /\ DOMAIN query = Queries
  /\ \A q \in Queries : ExactQuery(query[q], chainHead)

\* A query that was exact is exact when the chain has grown.
LEMMA StillExact ==
  ASSUME NEW r, NEW h \in Nat, ExactQuery(r, h)
  PROVE  ExactQuery(r, h + 1)
<1>1. \A n \in 0 .. h : n \in 0 .. h + 1
  OBVIOUS
<1>2. CASE r = NoQuery
  BY <1>2, Zenon DEF ExactQuery
<1>3. CASE \E n \in 0 .. h : r = Answer(n)
  BY <1>1, <1>3, Zenon DEF ExactQuery
<1>4. CASE \E p \in Int, m \in 0 .. h, k \in 0 .. h, c \in Nat, t \in Nat :
             r = Reading("head", p, m, k, c, t)
  BY <1>1, <1>4, Zenon DEF ExactQuery
<1>5. CASE \E p \in Int, m \in 0 .. h, k \in 0 .. h, c \in Nat, t \in 0 .. h :
             /\ r = Reading("chunks", p, m, k, c, t)
             /\ c > 0 /\ t > 0 /\ k = IF c <= t THEN c - 1 ELSE t
  BY <1>1, <1>5, SMTT(30) DEF ExactQuery
<1> QED
  BY <1>2, <1>3, <1>4, <1>5, Zenon DEF ExactQuery

\* One query moves, to something exact; the others and the chain stay.
LEMMA OneQuery ==
  ASSUME LogInv, NEW q \in Queries, NEW r, ExactQuery(r, chainHead),
         query' = [query EXCEPT ![q] = r], chainHead' = chainHead,
         \E n \in 0 .. chainHead : logCache' = CacheAt(n)
  PROVE  LogInv'
<1>1. DOMAIN query' = Queries
  BY Zenon DEF LogInv
<1>2. \A x \in Queries : ExactQuery(query'[x], chainHead')
  BY Zenon DEF LogInv
<1>3. chainHead' \in Nat /\ FROM_BLOCK <= chainHead'
  BY Zenon DEF LogInv
<1>4. \E n \in 0 .. chainHead' : logCache' = CacheAt(n)
  BY Zenon
<1> QED
  BY <1>1, <1>2, <1>3, <1>4, Zenon DEF LogInv, ExactQuery, CacheAt, Answer, Reading, NoQuery

\* The fields a step of a query replaces.
Started(r, l, c, t) == [r EXCEPT !.stage = "chunks", !.to = t, !.logs = l, !.current = c]
Continued(r, l, c)  == [r EXCEPT !.logs = l, !.current = c]
Retried(r, p)       == [r EXCEPT !.stage = "head", !.provider = p]

\* The provider has told its head (getBlockNumber).
LEMMA HeadRead ==
  ASSUME NEW p, NEW m, NEW k, NEW c, NEW t, NEW k2, NEW c2, NEW t2
  PROVE  Started(Reading("head", p, m, k, c, t), CopyOf(k2), c2, t2) = Reading("chunks", p, m, k2, c2, t2)
<1>1. PICK r : r = Reading("head", p, m, k, c, t)
  BY Zenon
<1>2. PICK l : l = CopyOf(k2)
  BY Zenon
<1>3. [r EXCEPT !.stage = "chunks"] = Reading("chunks", p, m, k, c, t)
  BY <1>1 DEF Reading
<1>4. [Reading("chunks", p, m, k, c, t) EXCEPT !.to = t2] = Reading("chunks", p, m, k, c, t2)
  BY DEF Reading
<1>5. [Reading("chunks", p, m, k, c, t2) EXCEPT !.logs = l] = Reading("chunks", p, m, k2, c, t2)
  BY <1>2 DEF Reading
<1>6. [Reading("chunks", p, m, k2, c, t2) EXCEPT !.current = c2] = Reading("chunks", p, m, k2, c2, t2)
  BY DEF Reading
<1>7. [r EXCEPT !.stage = "chunks", !.to = t2, !.logs = l, !.current = c2]
        = [[[[r EXCEPT !.stage = "chunks"] EXCEPT !.to = t2] EXCEPT !.logs = l] EXCEPT !.current = c2]
  BY Zenon
<1> QED
  BY <1>1, <1>2, <1>3, <1>4, <1>5, <1>6, <1>7, Zenon DEF Started

\* A chunk has been appended (getLogs).
LEMMA ChunkRead ==
  ASSUME NEW p, NEW m, NEW k, NEW c, NEW t, NEW k2, NEW c2
  PROVE  Continued(Reading("chunks", p, m, k, c, t), CopyOf(k2), c2) = Reading("chunks", p, m, k2, c2, t)
<1>1. PICK r : r = Reading("chunks", p, m, k, c, t)
  BY Zenon
<1>2. PICK l : l = CopyOf(k2)
  BY Zenon
<1>3. [r EXCEPT !.logs = l] = Reading("chunks", p, m, k2, c, t)
  BY <1>1, <1>2 DEF Reading
<1>4. [Reading("chunks", p, m, k2, c, t) EXCEPT !.current = c2] = Reading("chunks", p, m, k2, c2, t)
  BY DEF Reading
<1>5. [r EXCEPT !.logs = l, !.current = c2] = [[r EXCEPT !.logs = l] EXCEPT !.current = c2]
  BY Zenon
<1> QED
  BY <1>1, <1>2, <1>3, <1>4, <1>5, Zenon DEF Continued

\* The next provider starts over (providerFails).
LEMMA NextProvider ==
  ASSUME NEW s, NEW p, NEW m, NEW k, NEW c, NEW t, NEW p2
  PROVE  Retried(Reading(s, p, m, k, c, t), p2) = Reading("head", p2, m, k, c, t)
<1>1. PICK r : r = Reading(s, p, m, k, c, t)
  BY Zenon
<1>2. [r EXCEPT !.stage = "head"] = Reading("head", p, m, k, c, t)
  BY <1>1 DEF Reading
<1>3. [Reading("head", p, m, k, c, t) EXCEPT !.provider = p2] = Reading("head", p2, m, k, c, t)
  BY DEF Reading
<1>4. [r EXCEPT !.stage = "head", !.provider = p2] = [[r EXCEPT !.stage = "head"] EXCEPT !.provider = p2]
  BY Zenon
<1> QED
  BY <1>1, <1>2, <1>3, <1>4, Zenon DEF Retried

\* Every step of the reader keeps the cache and the queries exact.
LEMMA LogStep ==
  ASSUME LogInv, LogsNext
  PROVE  LogInv'
<1> USE DEF getFromBlock, getLogChunkSize, getReadProviders, readEventLogCache
<1>0. /\ FROM_BLOCK \in Nat /\ LAG \in Nat /\ LAG < FROM_BLOCK
      /\ CHUNK \in Nat /\ CHUNK > 0
      /\ chainHead \in Nat /\ FROM_BLOCK <= chainHead
  BY LogConstants, SMTT(30) DEF LogInv
<1>1. CASE NewBlock
  <2>1. chainHead' = chainHead + 1 /\ query' = query /\ logCache' = logCache
    BY <1>1, Zenon DEF NewBlock
  <2>2. \A x \in Queries : ExactQuery(query[x], chainHead + 1)
    BY <1>0, StillExact, Zenon DEF LogInv
  <2>3. \E n \in 0 .. chainHead + 1 : logCache = CacheAt(n)
    BY <1>0 DEF LogInv
  <2> QED
    BY <1>0, <2>1, <2>2, <2>3, SMTT(30) DEF LogInv, ExactQuery, CacheAt, Answer, Reading, NoQuery
<1>2. ASSUME NEW q \in Queries, getEventLogs(q)
      PROVE  LogInv'
  <2>1. PICK m \in 0 .. chainHead : logCache = CacheAt(m)
    BY Zenon DEF LogInv
  <2>2. sinceDeployment(logCache.logs) = CopyOf(m)
    BY <2>1, CopyKept DEF CacheAt
  <2>3. <<>> = CopyOf(0)
    BY <1>0, CopyEmpty
  <2>4. query' = [query EXCEPT ![q] = Reading("head", 1, m, 0, 0, 0)]
    BY <1>2, <2>1, <2>2, <2>3, Zenon DEF getEventLogs, Reading
  <2>5. ExactQuery(Reading("head", 1, m, 0, 0, 0), chainHead)
    BY <1>0 DEF ExactQuery
  <2>6. chainHead' = chainHead /\ logCache' = logCache
    BY <1>2, Zenon DEF getEventLogs
  <2> QED
    BY <2>1, <2>4, <2>5, <2>6, OneQuery, Zenon
<1>3. ASSUME NEW q \in Queries, getBlockNumber(q)
      PROVE  LogInv'
  <2>0. PICK r : r = query[q]
    BY Zenon
  <2>1. PICK p \in Int, m \in 0 .. chainHead, k \in 0 .. chainHead, c \in Nat, t \in Nat :
           r = Reading("head", p, m, k, c, t)
    BY <1>3, <2>0 DEF LogInv, ExactQuery, getBlockNumber, NoQuery, Answer, Reading
  <2>2. PICK to \in chainHead - LAG .. chainHead :
           LET start == IF getFromBlock < to THEN getFromBlock ELSE to
           IN  query' = [query EXCEPT ![q] =
                  [r EXCEPT !.stage = "chunks", !.to = to,
                            !.logs = IF canUseCache(r, start, to) THEN r.cachedLogs ELSE <<>>,
                            !.current = incrementalStart(r, start, to)]]
    BY <1>3, <2>0, Zenon DEF getBlockNumber
  <2>3. PICK start : start = IF FROM_BLOCK < to THEN FROM_BLOCK ELSE to
    BY Zenon
  <2>4. to \in 0 .. chainHead /\ to > 0 /\ start \in Nat /\ start > 0 /\ start <= to
    BY <1>0, <2>3
  <2>5. chainHead' = chainHead /\ logCache' = logCache
    BY <1>3, Zenon DEF getBlockNumber
  <2>6. CASE canUseCache(r, start, to)
    <3>1. m >= start /\ m <= to
      BY <2>1, <2>6, SMTT(30) DEF canUseCache, Reading, CacheAt
    <3>2. incrementalStart(r, start, to) = m + 1
      BY <2>1, <2>4, <2>6, <3>1 DEF incrementalStart, Reading, CacheAt
    <3>3. query' = [query EXCEPT ![q] = Reading("chunks", p, m, m, m + 1, to)]
      <4>1. query' = [query EXCEPT ![q] = Started(r, r.cachedLogs, m + 1, to)]
        BY <2>2, <2>3, <2>6, <3>2, Zenon DEF Started
      <4>2. r.cachedLogs = CopyOf(m)
        BY <2>1, Zenon DEF Reading
      <4>3. Started(r, r.cachedLogs, m + 1, to) = Reading("chunks", p, m, m, m + 1, to)
        BY <2>1, <4>2, HeadRead
      <4> QED
        BY <4>1, <4>3, Zenon
    <3>4. m = IF m + 1 <= to THEN m + 1 - 1 ELSE to
      BY <2>4, <3>1
    <3>5. ExactQuery(Reading("chunks", p, m, m, m + 1, to), chainHead)
      BY <2>4, <3>4 DEF ExactQuery
    <3> QED
      BY <2>5, <3>3, <3>5, OneQuery, SMTT(30) DEF LogInv
  <2>7. CASE ~canUseCache(r, start, to)
    <3>1. start - 1 \in 0 .. chainHead /\ start - 1 < FROM_BLOCK
      BY <1>0, <2>3, <2>4
    <3>2. <<>> = CopyOf(start - 1)
      BY <3>1, CopyEmpty
    <3>3. query' = [query EXCEPT ![q] = Reading("chunks", p, m, start - 1, start, to)]
      <4>1. query' = [query EXCEPT ![q] = Started(r, <<>>, start, to)]
        BY <2>2, <2>3, <2>7, Zenon DEF Started, incrementalStart
      <4>2. Started(r, <<>>, start, to) = Reading("chunks", p, m, start - 1, start, to)
        BY <2>1, <3>2, HeadRead
      <4> QED
        BY <4>1, <4>2, Zenon
    <3>4. ExactQuery(Reading("chunks", p, m, start - 1, start, to), chainHead)
      BY <2>4, <3>1, SMTT(30) DEF ExactQuery
    <3> QED
      BY <2>5, <3>3, <3>4, OneQuery, Zenon DEF LogInv
  <2> QED
    BY <2>6, <2>7, Zenon
<1>4. ASSUME NEW q \in Queries, getLogs(q)
      PROVE  LogInv'
  <2>0. PICK r : r = query[q]
    BY Zenon
  <2>1. PICK p \in Int, m \in 0 .. chainHead, k \in 0 .. chainHead, c \in Nat, t \in 0 .. chainHead :
           /\ r = Reading("chunks", p, m, k, c, t)
           /\ c > 0 /\ t > 0 /\ k = IF c <= t THEN c - 1 ELSE t
    BY <1>4, <2>0 DEF LogInv, ExactQuery, getLogs, NoQuery, Answer, Reading
  <2>2. c <= t /\ k = c - 1
    BY <1>4, <2>0, <2>1 DEF getLogs, Reading
  <2>3. PICK e : e = IF c + CHUNK - 1 < t THEN c + CHUNK - 1 ELSE t
    BY Zenon
  <2>4. e \in 0 .. chainHead /\ k <= e /\ k + 1 = c /\ e = IF c + CHUNK <= t THEN c + CHUNK - 1 ELSE t
    BY <1>0, <2>1, <2>2, <2>3
  <2>5. CopyOf(k) \o LogsOf(c, e) = CopyOf(e)
    <3>1. k \in Nat /\ e \in Nat /\ k <= e
      BY <2>4
    <3>2. CopyOf(k) \o LogsOf(k + 1, e) = CopyOf(e)
      BY <3>1, CopyExtends, Zenon
    <3>3. k + 1 = c
      BY <2>4, Zenon
    <3> QED
      BY <3>2, <3>3, Zenon
  <2>6. query' = [query EXCEPT ![q] = Continued(r, r.logs \o LogsOf(c, e), c + CHUNK)]
    BY <1>4, <2>0, <2>1, <2>3 DEF getLogs, Reading, Continued
  <2>7. query' = [query EXCEPT ![q] = Reading("chunks", p, m, e, c + CHUNK, t)]
    <3>1. r.logs = CopyOf(k)
      BY <2>1, Zenon DEF Reading
    <3>2. r.logs \o LogsOf(c, e) = CopyOf(e)
      BY <2>5, <3>1, Zenon
    <3>3. Continued(r, CopyOf(e), c + CHUNK) = Reading("chunks", p, m, e, c + CHUNK, t)
      BY <2>1, ChunkRead
    <3> QED
      BY <2>6, <3>2, <3>3, ZenonT(30)
  <2>8. ExactQuery(Reading("chunks", p, m, e, c + CHUNK, t), chainHead)
    BY <1>0, <2>1, <2>4 DEF ExactQuery
  <2>9. chainHead' = chainHead /\ logCache' = logCache
    BY <1>4, Zenon DEF getLogs
  <2> QED
    BY <2>7, <2>8, <2>9, OneQuery DEF LogInv
<1>5. ASSUME NEW q \in Queries, finishQuery(q)
      PROVE  LogInv'
  <2>0. PICK r : r = query[q]
    BY Zenon
  <2>1. PICK t \in 0 .. chainHead : r.logs = CopyOf(t) /\ r.to = t
    BY <1>5, <2>0, SMTT(30) DEF LogInv, ExactQuery, finishQuery, NoQuery, Answer, Reading
  <2>2. sortLogsAscending(r.logs) = CopyOf(t)
    BY <2>1, CopySorted
  <2>3. query' = [query EXCEPT ![q] = Answer(t)]
    BY <1>5, <2>0, <2>2, Zenon DEF finishQuery, Answer
  <2>4. logCache' = CacheAt(t) \/ logCache' = logCache
    BY <1>5, <2>0, <2>1, <2>2 DEF finishQuery, writeEventLogCache, CacheAt
  <2>5. \E n \in 0 .. chainHead : logCache' = CacheAt(n)
    BY <2>4, Zenon DEF LogInv
  <2>6. ExactQuery(Answer(t), chainHead) /\ chainHead' = chainHead
    BY <1>5 DEF ExactQuery, finishQuery
  <2> QED
    BY <2>3, <2>5, <2>6, OneQuery, ZenonT(30)
<1>6. ASSUME NEW q \in Queries, providerFails(q)
      PROVE  LogInv'
  <2>0. PICK r : r = query[q]
    BY Zenon
  <2>1. PICK p \in Int, m \in 0 .. chainHead, k \in 0 .. chainHead, c \in Nat, t \in Nat :
           r = Reading("head", p, m, k, c, t) \/ r = Reading("chunks", p, m, k, c, t)
    BY <1>6, <2>0, SMTT(30) DEF LogInv, ExactQuery, providerFails, NoQuery, Answer, Reading
  <2>2. chainHead' = chainHead /\ logCache' = logCache
    BY <1>6, Zenon DEF providerFails
  <2>3. CASE r.provider < Len(Providers)
    <3>1. query' = [query EXCEPT ![q] = Retried(r, r.provider + 1)]
      BY <1>6, <2>0, <2>3 DEF providerFails, Retried
    <3>2. query' = [query EXCEPT ![q] = Reading("head", p + 1, m, k, c, t)]
      <4>1. r.provider = p
        BY <2>1 DEF Reading
      <4>2. Retried(r, p + 1) = Reading("head", p + 1, m, k, c, t)
        BY <2>1, NextProvider
      <4> QED
        BY <3>1, <4>1, <4>2, ZenonT(30)
    <3>3. ExactQuery(Reading("head", p + 1, m, k, c, t), chainHead)
      BY <2>1 DEF ExactQuery
    <3> QED
      BY <2>2, <3>2, <3>3, OneQuery DEF LogInv
  <2>4. CASE ~(r.provider < Len(Providers)) /\ r.cachedLogs # <<>>
    <3>1. sortLogsAscending(r.cachedLogs) = CopyOf(m)
      BY <2>1, CopySorted DEF Reading
    <3>2. query' = [query EXCEPT ![q] = Answer(m)]
      BY <1>6, <2>0, <2>4, <3>1, Zenon DEF providerFails, Answer
    <3>3. ExactQuery(Answer(m), chainHead)
      BY Zenon DEF ExactQuery
    <3> QED
      BY <2>2, <3>2, <3>3, OneQuery, Zenon DEF LogInv
  <2>5. CASE ~(r.provider < Len(Providers)) /\ r.cachedLogs = <<>>
    <3>1. query' = [query EXCEPT ![q] = NoQuery] /\ ExactQuery(NoQuery, chainHead)
      BY <1>6, <2>0, <2>5, Zenon DEF providerFails, ExactQuery
    <3> QED
      BY <2>2, <3>1, OneQuery, Zenon DEF LogInv
  <2> QED
    BY <2>3, <2>4, <2>5
<1> QED
  BY <1>1, <1>2, <1>3, <1>4, <1>5, <1>6 DEF LogsNext

\* The cache and what every query holds are exact copies at all times.
LEMMA LogInvariant == LogsSpec => []LogInv
<1>1. LogsInit => LogInv
  <2> SUFFICES ASSUME LogsInit PROVE LogInv
    BY Zenon
  <2>1. CopyOf(0) = <<>>
    BY LogConstants, CopyEmpty
  <2>2. logCache = CacheAt(0)
    BY <2>1 DEF LogsInit, NoCache, CacheAt
  <2> QED
    BY <2>2, LogConstants DEF LogsInit, LogInv, ExactQuery
<1>2. LogInv /\ [LogsNext]_logVars => LogInv'
  <2>1. CASE UNCHANGED logVars
    BY <2>1, SMTT(30) DEF logVars, LogInv, ExactQuery, CacheAt, Answer, Reading, NoQuery
  <2> QED
    BY <2>1, LogStep, SMTT(30)
<1> QED
  BY <1>1, <1>2, PTL DEF LogsSpec

\* Every answer of the reader, one made of the cached logs after all providers failed included, is
\* the contract's log up to some block, without hole or repetition (getEventLogs).
THEOREM ExactAnswers == LogsSpec => []AnswersExact
<1>1. LogInv => AnswersExact
  BY SMTT(30) DEF LogInv, ExactQuery, AnswersExact, NoQuery, Answer, Reading
<1> QED
  BY <1>1, LogInvariant, PTL

\* The event-log cache implements the mirror: whatever providers do and however queries overlap,
\* each step of the reader leaves the localStorage copy alone or makes it the exact log up to a
\* mined block (getEventLogs, writeEventLogCache).
THEOREM CacheMirrorsLog == LogsSpec => CacheIsMirror
<1>1. LogsInit => Mirror!MirrorInit
  BY LogConstants DEF LogsInit, NoCache, Mirror!MirrorInit
<1>2. LogInv /\ LogInv' /\ [LogsNext]_logVars
        => [Mirror!Mine \/ Mirror!Sync]_(Mirror!mirrorVars)
  <2> SUFFICES ASSUME LogInv, LogInv', [LogsNext]_logVars
               PROVE  [Mirror!Mine \/ Mirror!Sync]_(Mirror!mirrorVars)
    BY Zenon
  <2>1. CASE chainHead' = chainHead /\ logCache' = logCache
    BY <2>1, Zenon DEF Mirror!mirrorVars
  <2>2. CASE NewBlock
    BY <2>2 DEF NewBlock, Mirror!Mine
  <2>3. ASSUME NEW q \in Queries, finishQuery(q)
        PROVE  Mirror!Sync
    <3>1. chainHead' = chainHead
      BY <2>3, Zenon DEF finishQuery
    <3>2. PICK n \in 0 .. chainHead : logCache' = CacheAt(n)
      BY <3>1, Zenon DEF LogInv, CacheAt
    <3> QED
      BY <3>1, <3>2, Zenon DEF Mirror!Sync, CacheAt
  <2> QED
    BY <2>1, <2>2, <2>3, Zenon
       DEF LogsNext, logVars, getEventLogs, getBlockNumber, getLogs, providerFails
<1> QED
  BY <1>1, <1>2, LogInvariant, PTL DEF LogsSpec, CacheIsMirror, Mirror!MirrorSpec
=============================================================================
