--------------------------- MODULE ServiceProofs ----------------------------
(***************************************************************************)
(* TLAPS proofs about the services of the web application, for every value *)
(* of their constants: what the session lock and the workers answer        *)
(* (BrowserHelpers), how old a cached view may be (ViewCache), and what an *)
(* action of the offline queue marked synced stands for (Offline).         *)
(***************************************************************************)
EXTENDS BrowserHelpers, Offline, ViewCache, TLAPS
-----------------------------------------------------------------------------
(* The session lock. *)
LockTypeOK ==
    /\ wallet \in LockAccounts \cup {"none"}
    /\ reviving.of \in LockAccounts \cup {"none"}
    /\ managers \in Seq([for : LockAccounts \cup {"none"}, running : BOOLEAN])

LockInv == LockTypeOK /\ OneWatcher

LEMMA StoppedOne ==
    ASSUME NEW S, NEW r \in [for : S, running : BOOLEAN]
    PROVE  [r EXCEPT !.running = FALSE] \in [for : S, running : BOOLEAN] /\ ~[r EXCEPT !.running = FALSE].running
  BY Zenon

\* Stopping a manager leaves a sequence of managers, of which that one does not run.
LEMMA Stopped ==
    ASSUME NEW S, NEW ms \in Seq([for : S, running : BOOLEAN]), NEW n
    PROVE  /\ stopManager(n, ms) \in Seq([for : S, running : BOOLEAN])
           /\ Len(stopManager(n, ms)) = Len(ms)
           /\ \A k \in 1..Len(ms) : stopManager(n, ms)[k].running => ms[k].running /\ k # n
<1> DEFINE M == [for : S, running : BOOLEAN]
           Stop(r) == [r EXCEPT !.running = FALSE]
<1>1. \A r \in M : Stop(r) \in M /\ ~Stop(r).running
  BY StoppedOne, Zenon
<1>2. ms \in Seq(M) /\ stopManager(n, ms) = [k \in DOMAIN ms |-> IF k = n THEN Stop(ms[k]) ELSE ms[k]]
  BY Zenon DEF stopManager
<1> HIDE DEF M, Stop
<1>3. DOMAIN ms = 1..Len(ms) /\ Len(ms) \in Nat /\ \A k \in 1..Len(ms) : ms[k] \in M
  BY <1>2
<1>4. \A k \in 1..Len(ms) : stopManager(n, ms)[k] \in M /\ (stopManager(n, ms)[k].running => ms[k].running /\ k # n)
  BY <1>1, <1>2, <1>3, Zenon
<1>5. stopManager(n, ms) \in [1..Len(ms) -> M]
  BY <1>2, <1>3, <1>4, Zenon
<1>6. stopManager(n, ms) \in Seq(M) /\ Len(stopManager(n, ms)) = Len(ms)
  BY <1>3, <1>5
<1> QED
  BY <1>4, <1>6, Zenon DEF M

\* The hook's start leaves only the manager it made.
LEMMA Started ==
    ASSUME LockInv, NEW a \in LockAccounts \cup {"none"}, startManager(a)
    PROVE  /\ managers' \in Seq([for : LockAccounts \cup {"none"}, running : BOOLEAN])
           /\ OneWatcher'
<1> DEFINE M == [for : LockAccounts \cup {"none"}, running : BOOLEAN]
           ms == stopManager(managerRef, managers)
           m == [for |-> a, running |-> TRUE]
<1>1. ms \in Seq(M) /\ Len(ms) = Len(managers) /\ \A k \in 1..Len(managers) : ms[k].running => managers[k].running /\ k # managerRef
  BY Stopped, Zenon DEF LockInv, LockTypeOK
<1>2. m \in M
  BY Zenon
<1>3. managers' = Append(ms, m) /\ managerRef' = Len(managers')
  BY Zenon DEF startManager
<1> HIDE DEF ms, m
<1>4. managers' \in Seq(M) /\ Len(managers') = Len(ms) + 1 /\ \A k \in 1..Len(ms) : managers'[k] = ms[k]
  BY <1>1, <1>2, <1>3
<1>5. \A k \in 1..Len(managers) : ~ms[k].running
  BY <1>1 DEF LockInv, OneWatcher, LockTypeOK
<1> QED
  BY <1>1, <1>3, <1>4, <1>5 DEF OneWatcher

LEMMA LockStopped ==
    ASSUME LockInv, NEW n, managers' = stopManager(n, managers), n = managerRef \/ UNCHANGED managerRef
    PROVE  managers' \in Seq([for : LockAccounts \cup {"none"}, running : BOOLEAN]) /\ OneWatcher'
<1> DEFINE M == [for : LockAccounts \cup {"none"}, running : BOOLEAN]
<1>1. managers \in Seq(M) /\ managers' \in Seq(M) /\ Len(managers') = Len(managers)
      /\ \A k \in 1..Len(managers) : managers'[k].running => managers[k].running /\ k # n
  BY Stopped, Zenon DEF LockInv, LockTypeOK
<1> HIDE DEF M
<1>2. DOMAIN managers = 1..Len(managers) /\ DOMAIN managers' = 1..Len(managers)
  BY <1>1
<1>3. OneWatcher'
  BY <1>1, <1>2, Zenon DEF OneWatcher, LockInv
<1> QED
  BY <1>1, <1>3, Zenon DEF M

LEMMA LockStep == LockInv /\ [SessionLockNext]_lockVars => LockInv'
<1> SUFFICES ASSUME LockInv, [SessionLockNext]_lockVars PROVE LockInv'
  BY Zenon
<1>1. ASSUME NEW a \in LockAccounts \cup {"none"}, changeAccount(a) PROVE LockInv'
  <2>1. CASE a = "none"
    <3>1. managers' = stopManager(managerRef, managers)
      BY <1>1, <2>1, Zenon DEF changeAccount
    <3>2. managers' \in Seq([for : LockAccounts \cup {"none"}, running : BOOLEAN]) /\ OneWatcher'
      BY <3>1, LockStopped, Zenon
    <3> QED
      BY <1>1, <3>2, Zenon DEF changeAccount, LockInv, LockTypeOK
  <2>2. CASE a # "none"
    BY <1>1, <2>2, Started, Zenon DEF changeAccount, LockInv, LockTypeOK
  <2> QED
    BY <2>1, <2>2, Zenon
<1>2. CASE unlockOnPage \/ handleDismiss
  BY <1>2, Zenon DEF unlockOnPage, handleDismiss, LockInv, LockTypeOK, OneWatcher
<1>3. CASE handleUnlock
  BY <1>3, Zenon DEF handleUnlock, LockInv, LockTypeOK, OneWatcher
<1>4. CASE revived
  <2>1. reviving'.of \in LockAccounts \cup {"none"} /\ wallet' = wallet
    BY <1>4, Zenon DEF revived, NoRevival
  <2>2. CASE startManager(reviving.of)
    BY <2>1, <2>2, Started, Zenon DEF LockInv, LockTypeOK
  <2>3. CASE UNCHANGED <<managers, managerRef>>
    BY <2>1, <2>3, Zenon DEF LockInv, LockTypeOK, OneWatcher
  <2> QED
    BY <1>4, <2>2, <2>3, Zenon DEF revived
<1>5. ASSUME NEW n \in DOMAIN managers, lockNow(n) PROVE LockInv'
  <2>1. managers' = stopManager(n, managers) /\ UNCHANGED <<wallet, managerRef, reviving>>
    BY <1>5, Zenon DEF lockNow
  <2>2. managers' \in Seq([for : LockAccounts \cup {"none"}, running : BOOLEAN]) /\ OneWatcher'
    BY <2>1, LockStopped, Zenon
  <2> QED
    BY <2>1, <2>2, Zenon DEF LockInv, LockTypeOK
<1>6. CASE UNCHANGED lockVars
  BY <1>6, Zenon DEF lockVars, LockInv, LockTypeOK, OneWatcher
<1> QED
  BY <1>1, <1>2, <1>3, <1>4, <1>5, <1>6, Zenon DEF SessionLockNext
-----------------------------------------------------------------------------
(* The workers: a message under way is about a call that was made, an answer to it is the       *)
(* payload's or an error, and the callback of computeHash is a call of computeHash.             *)
Services == {"pool", "argon", "hash"}
Calls == [service : Services, payload : Payloads, outcome : Payloads \cup {"pending", "error"}]
CallsMade == calls \in Seq(Calls)
Matched ==
    /\ \A x \in posted : x.call \in DOMAIN calls
    /\ \A r \in replies : r.call \in DOMAIN calls /\ r.answer \in {"error", calls[r.call].payload}
    /\ \A n \in DOMAIN calls : calls[n].service = "hash" =>
          hashCallback \in DOMAIN calls /\ calls[hashCallback].service = "hash"

WorkersInv == CallsMade /\ Matched /\ OwnAnswer

LEMMA NewCallMatched ==
    ASSUME WorkersInv, NEW s \in Services, NEW p \in Payloads, NEW o \in {"pending", p}, NewCall(s, p, o),
           s = "hash" => hashCallback' = Len(calls') /\ o = "pending",
           s # "hash" => UNCHANGED hashCallback,
           replies' = replies, \A x \in posted' : x \in posted \/ x.call = Len(calls')
    PROVE  WorkersInv'
<1> DEFINE c == [service |-> s, payload |-> p, outcome |-> o]
<1>1. c \in Calls
  BY Zenon DEF Calls
<1>2. calls' = Append(calls, c) /\ calls \in Seq(Calls)
  BY Zenon DEF NewCall, WorkersInv, CallsMade
<1>3. c.service = s /\ c.payload = p /\ c.outcome = o
  BY Zenon
<1> HIDE DEF c
<1>4. /\ calls' \in Seq(Calls) /\ Len(calls) \in Nat /\ Len(calls') = Len(calls) + 1 /\ calls'[Len(calls')] = c
      /\ \A n \in 1..Len(calls) : calls'[n] = calls[n]
      /\ DOMAIN calls = 1..Len(calls) /\ DOMAIN calls' = 1..(Len(calls) + 1)
  BY <1>1, <1>2
<1>5. /\ \A n \in DOMAIN calls : n \in DOMAIN calls' /\ calls'[n] = calls[n]
      /\ \A n \in DOMAIN calls' : n \in DOMAIN calls \/ n = Len(calls')
      /\ Len(calls') \in DOMAIN calls'
  BY <1>4
<1>6. OwnAnswer'
  BY <1>3, <1>4, <1>5, Zenon DEF WorkersInv, OwnAnswer
<1>7. Matched'
  <2>1. \A x \in posted' : x.call \in DOMAIN calls'
    BY <1>5, Zenon DEF WorkersInv, Matched
  <2>2. \A r \in replies' : r.call \in DOMAIN calls' /\ r.answer \in {"error", calls'[r.call].payload}
    BY <1>5, Zenon DEF WorkersInv, Matched
  <2>3. ASSUME NEW n \in DOMAIN calls', calls'[n].service = "hash"
        PROVE  hashCallback' \in DOMAIN calls' /\ calls'[hashCallback'].service = "hash"
    <3>1. CASE s = "hash"
      BY <3>1, <1>3, <1>4, <1>5, Zenon
    <3>2. CASE s # "hash"
      BY <2>3, <3>2, <1>3, <1>4, <1>5, Zenon DEF WorkersInv, Matched
    <3> QED
      BY <3>1, <3>2, Zenon
  <2> QED
    BY <2>1, <2>2, <2>3, Zenon DEF Matched
<1> QED
  BY <1>4, <1>6, <1>7, Zenon DEF WorkersInv, CallsMade

LEMMA WorkersStep == WorkersInv /\ [WorkersNext]_workerVars => WorkersInv'
<1> SUFFICES ASSUME WorkersInv, [WorkersNext]_workerVars PROVE WorkersInv'
  BY Zenon
<1>1. ASSUME NEW p \in Payloads, poolCall(p) PROVE WorkersInv'
  <2>1. CASE poolUp
    <3>1. NewCall("pool", p, "pending") /\ UNCHANGED <<replies, hashCallback>>
          /\ posted' = posted \cup {[worker |-> nextWorkerIndex, call |-> Len(calls')]}
      BY <1>1, <2>1, Zenon DEF poolCall
    <3> QED
      BY <3>1, NewCallMatched DEF Services
  <2>2. CASE ~poolUp
    BY <1>1, <2>2, NewCallMatched, Zenon DEF poolCall, Services
  <2> QED
    BY <2>1, <2>2, Zenon
<1>2. ASSUME NEW p \in Payloads, deriveKeyBytesAsync(p) PROVE WorkersInv'
  <2>1. CASE argonUp
    <3>1. NewCall("argon", p, "pending") /\ UNCHANGED <<replies, hashCallback>>
          /\ posted' = posted \cup {[worker |-> ArgonWorker, call |-> Len(calls')]}
      BY <1>2, <2>1, Zenon DEF deriveKeyBytesAsync
    <3> QED
      BY <3>1, NewCallMatched DEF Services
  <2>2. CASE ~argonUp
    BY <1>2, <2>2, NewCallMatched, Zenon DEF deriveKeyBytesAsync, Services
  <2> QED
    BY <2>1, <2>2, Zenon
<1>3. ASSUME NEW p \in Payloads, computeHash(p) PROVE WorkersInv'
  BY <1>3, NewCallMatched DEF computeHash, Services
<1>4. ASSUME NEW x \in posted, cryptoOnMessage(x) \/ argonOnMessage(x) PROVE WorkersInv'
  <2>1. calls' = calls /\ hashCallback' = hashCallback /\ posted' = posted \ {x}
    BY <1>4, Zenon DEF cryptoOnMessage, argonOnMessage, Reply
  <2>2. x.call \in DOMAIN calls
    BY Zenon DEF WorkersInv, Matched
  <2>3. \A r \in replies' : r \in replies \/ (r.call = x.call /\ r.answer \in {"error", calls[x.call].payload})
    BY <1>4 DEF cryptoOnMessage, argonOnMessage, Reply
  <2> QED
    BY <2>1, <2>2, <2>3, Zenon DEF WorkersInv, CallsMade, Matched, OwnAnswer
<1>5. ASSUME NEW r \in replies, workerOnMessage(r) PROVE WorkersInv'
  <2> DEFINE s == Settles(r)
  <2>1. r.call \in DOMAIN calls /\ r.answer \in {"error", calls[r.call].payload}
    BY Zenon DEF WorkersInv, Matched
  <2>2. s \in DOMAIN calls /\ (calls[s].service = "hash" \/ s = r.call)
    BY <2>1, Zenon DEF WorkersInv, Matched, Settles
  <2>3. calls \in Seq(Calls) /\ calls[r.call] \in Calls /\ calls[s] \in Calls
    BY <2>1, <2>2 DEF WorkersInv, CallsMade
  <2>4. calls' = [calls EXCEPT ![s] = Settled(calls[s], r.answer)]
    BY <1>5, Zenon DEF workerOnMessage
  <2> HIDE DEF s
  <2>5. /\ Settled(calls[s], r.answer) \in Calls
        /\ Settled(calls[s], r.answer).service = calls[s].service
        /\ Settled(calls[s], r.answer).payload = calls[s].payload
        /\ Settled(calls[s], r.answer).outcome \in {calls[s].outcome, r.answer}
    BY <2>1, <2>3, Zenon DEF Settled, Calls
  <2>6. calls' \in Seq(Calls) /\ DOMAIN calls' = DOMAIN calls
        /\ \A n \in DOMAIN calls : calls'[n] = IF n = s THEN Settled(calls[s], r.answer) ELSE calls[n]
    BY <2>2, <2>3, <2>4, <2>5
  <2>7. \A n \in DOMAIN calls : calls'[n].service = calls[n].service /\ calls'[n].payload = calls[n].payload
    BY <2>5, <2>6, Zenon
  <2>8. OwnAnswer'
    BY <2>1, <2>2, <2>5, <2>6, <2>7, Zenon DEF WorkersInv, OwnAnswer
  <2>9. posted' = posted /\ hashCallback' = hashCallback /\ \A q \in replies' : q \in replies
    BY <1>5, Zenon DEF workerOnMessage
  <2> QED
    BY <2>6, <2>7, <2>8, <2>9, Zenon DEF WorkersInv, CallsMade, Matched
<1>6. CASE terminate
  <2>1. UNCHANGED <<calls, replies, hashCallback>> /\ \A x \in posted' : x \in posted
    BY <1>6, Zenon DEF terminate
  <2> QED
    BY <2>1, Zenon DEF WorkersInv, CallsMade, Matched, OwnAnswer
<1>7. CASE UNCHANGED workerVars
  BY <1>7, Zenon DEF workerVars, WorkersInv, CallsMade, Matched, OwnAnswer
<1> QED
  BY <1>1, <1>2, <1>3, <1>4, <1>5, <1>6, <1>7, Zenon DEF WorkersNext, WorkerStep

LEMMA HelpersStart == (SessionLockInit => LockInv) /\ (WorkersInit => WorkersInv)
<1>1. SessionLockInit => LockInv
  BY DEF SessionLockInit, LockInv, LockTypeOK, OneWatcher, NoRevival
<1>2. WorkersInit => WorkersInv
  BY DEF WorkersInit, WorkersInv, CallsMade, Matched, OwnAnswer
<1> QED
  BY <1>1, <1>2, Zenon

\* The helpers stay matched for every number of accounts, managers, workers and calls: only the lock
\* manager the hook of useSessionLock holds runs, and a call of the worker pool or of the key
\* derivation that resolves gets the answer to its own payload (pendingRequests by id).
THEOREM HelpersMatched == SessionLockSpec /\ WorkersSpec => []HelpersStayMatched
<1>1. LockInv /\ WorkersInv => HelpersStayMatched
  BY Zenon DEF LockInv, WorkersInv, HelpersStayMatched
<1>2. SessionLockSpec => []LockInv
  BY HelpersStart, LockStep, PTL DEF SessionLockSpec
<1>3. WorkersSpec => []WorkersInv
  BY HelpersStart, WorkersStep, PTL DEF WorkersSpec
<1> QED
  BY <1>1, <1>2, <1>3, PTL

-----------------------------------------------------------------------------
(* The view cache. *)

\* Version v of a key was the chain's at some moment from since on.
Was(k, v, since) ==
    /\ v \in 0 .. version[k]
    /\ v < version[k] => supersededAt[k][v + 1] >= since

\* The chain's history: when each version of a key was superseded.
ChainOK ==
    /\ clock \in Nat
    /\ version \in [Keys -> Nat] /\ supersededAt \in [Keys -> Seq(Nat)]
    /\ \A k \in Keys : Len(supersededAt[k]) = version[k]

\* An entry is at most one flight older than it says.
EntriesOK ==
    /\ entry \in [Keys -> [v : Int, at : Int]]
    /\ \A k \in Keys : \/ entry[k] = NoEntry
                       \/ entry[k].at \in 0 .. clock /\ Was(k, entry[k].v, entry[k].at - FLIGHT)

\* A fetch under way began a flight ago at most, and what it read it read since it began.
FetchesOK ==
    \A f \in fetches :
       /\ f = [key |-> f.key, n |-> f.n, from |-> f.from, v |-> f.v]
       /\ f.key \in Keys /\ f.from \in 0 .. clock /\ clock - f.from <= FLIGHT
       /\ f.v = -1 \/ Was(f.key, f.v, f.from)

\* What was served was the chain's within TTL and one flight.
ServedOK ==
    \A s \in served : s.key \in Keys /\ s.at \in Nat /\ Was(s.key, s.v, s.at - (TTL_TICKS + FLIGHT) + 1)

\* The inductive invariant.
ViewInv == ChainOK /\ EntriesOK /\ FetchesOK /\ ServedOK

\* What was the chain's version stays so, whatever the chain changes to.
LEMMA WasStays ==
  ASSUME ChainOK, NEW ks, Change(ks), NEW k \in Keys, NEW v, NEW since \in Int,
         since <= clock, Was(k, v, since)
  PROVE  Was(k, v, since)'
<1>1. /\ version[k] \in Nat /\ supersededAt[k] \in Seq(Nat) /\ Len(supersededAt[k]) = version[k]
      /\ clock \in Nat
      /\ v \in 0 .. version[k] /\ (v < version[k] => supersededAt[k][v + 1] >= since)
  BY Zenon DEF ChainOK, Was
<1>2. \/ version'[k] = version[k] /\ supersededAt'[k] = supersededAt[k]
      \/ version'[k] = version[k] + 1 /\ supersededAt'[k] = Append(supersededAt[k], clock)
  BY Zenon DEF Change
<1>3. CASE version'[k] = version[k] /\ supersededAt'[k] = supersededAt[k]
  BY <1>1, <1>3, Zenon DEF Was
<1>4. CASE version'[k] = version[k] + 1 /\ supersededAt'[k] = Append(supersededAt[k], clock)
  <2>1. ASSUME NEW s \in Seq(Nat) PROVE /\ \A i \in 1 .. Len(s) : Append(s, clock)[i] = s[i]
                                        /\ Append(s, clock)[Len(s) + 1] = clock
    BY <1>1
  <2>2. /\ \A i \in 1 .. version[k] : supersededAt'[k][i] = supersededAt[k][i]
        /\ supersededAt'[k][version[k] + 1] = clock
    BY <1>1, <1>4, <2>1
  <2>3. v \in 0 .. version'[k] /\ supersededAt'[k][v + 1] >= since
    BY <1>1, <1>4, <2>2
  <2> QED BY <2>3, Zenon DEF Was
<1> QED BY <1>2, <1>3, <1>4, Zenon

\* The chain's own books.
LEMMA ChangeChain ==
  ASSUME ChainOK, NEW ks, Change(ks), clock' = clock
  PROVE  ChainOK'
<1>1. ASSUME NEW s \in Seq(Nat)
      PROVE  Append(s, clock) \in Seq(Nat) /\ Len(Append(s, clock)) = Len(s) + 1
  BY DEF ChainOK
<1>2. version' \in [Keys -> Nat] /\ supersededAt' \in [Keys -> Seq(Nat)]
  BY <1>1 DEF ChainOK, Change
<1>3. ASSUME NEW k \in Keys PROVE Len(supersededAt'[k]) = version'[k]
  <2>1. supersededAt[k] \in Seq(Nat) /\ Len(supersededAt[k]) = version[k]
    BY Zenon DEF ChainOK
  <2> QED BY <1>1, <2>1, Zenon DEF Change
<1> QED BY <1>2, <1>3, Zenon DEF ChainOK

\* A transaction changes some keys; no answer is given in that step.
LEMMA ChangeStep ==
  ASSUME ViewInv, NEW ks, Change(ks), UNCHANGED <<clock, entry, fetches>>, served' = {}
  PROVE  ViewInv'
<1>1. ChainOK /\ clock \in Nat /\ FLIGHT \in Nat
  BY ViewConstants, Zenon DEF ViewInv, ChainOK
<1>2. EntriesOK'
  <2>1. ASSUME NEW k \in Keys, entry[k].at \in 0 .. clock, Was(k, entry[k].v, entry[k].at - FLIGHT)
        PROVE  Was(k, entry[k].v, entry[k].at - FLIGHT)'
    <3>1. entry[k].at - FLIGHT \in Int /\ entry[k].at - FLIGHT <= clock /\ entry' = entry
      BY <1>1, <2>1
    <3>2. ASSUME NEW v, Was(k, v, entry[k].at - FLIGHT)
          PROVE  /\ v \in 0 .. version'[k]
                 /\ v < version'[k] => supersededAt'[k][v + 1] >= entry[k].at - FLIGHT
      <4>1. \A since \in Int : since <= clock /\ Was(k, v, since) =>
               /\ v \in 0 .. version'[k]
               /\ v < version'[k] => supersededAt'[k][v + 1] >= since
        BY <1>1, WasStays, Zenon DEF Was
      <4> QED BY <3>1, <3>2, <4>1, Zenon
    <3> QED BY <2>1, <3>1, <3>2, Zenon DEF Was
  <2> QED BY <2>1, Zenon DEF ViewInv, EntriesOK
<1>3. FetchesOK'
  <2>1. ASSUME NEW f \in fetches PROVE f.v = -1 \/ Was(f.key, f.v, f.from)'
    <3>1. f.key \in Keys /\ f.from \in 0 .. clock /\ (f.v = -1 \/ Was(f.key, f.v, f.from))
      BY Zenon DEF ViewInv, FetchesOK
    <3>2. f.from \in Int /\ f.from <= clock
      BY <1>1, <3>1
    <3> QED BY <1>1, <3>1, <3>2, WasStays, Zenon
  <2> QED BY <2>1, Zenon DEF ViewInv, FetchesOK
<1>4. ServedOK'
  BY Zenon DEF ServedOK
<1> QED BY <1>1, <1>2, <1>3, <1>4, ChangeChain, Zenon DEF ViewInv

\* The chain rests; entries are kept or dropped, fetches are kept or end, nothing is served.
LEMMA RestStep ==
  ASSUME ViewInv, UNCHANGED <<clock, chainVars>>, served' = {}, fetches' \subseteq fetches,
         entry' = entry \/ \E ks : entry' = [k \in Keys |-> IF k \in ks THEN NoEntry ELSE entry[k]]
  PROVE  ViewInv'
<1>1. UNCHANGED <<clock, version, supersededAt>>
  BY Zenon DEF chainVars
<1>3. ChainOK' /\ ServedOK'
  BY <1>1, Zenon DEF ViewInv, ChainOK, ServedOK
<1>4. FetchesOK'
  BY <1>1, Zenon DEF ViewInv, FetchesOK, Was
<1>5. EntriesOK'
  <2>1. CASE entry' = entry
    BY <1>1, <2>1, Zenon DEF ViewInv, EntriesOK, Was
  <2>2. ASSUME NEW ks, entry' = [k \in Keys |-> IF k \in ks THEN NoEntry ELSE entry[k]]
        PROVE  EntriesOK'
    <3>1. entry' \in [Keys -> [v : Int, at : Int]]
      BY <2>2 DEF ViewInv, EntriesOK, NoEntry
    <3>2. \A k \in Keys : entry'[k] = NoEntry \/ entry'[k] = entry[k]
      BY <2>2, Zenon
    <3> QED BY <1>1, <3>1, <3>2, Zenon DEF ViewInv, EntriesOK, Was
  <2> QED BY <2>1, <2>2, Zenon
<1> QED BY <1>3, <1>4, <1>5, Zenon DEF ViewInv

\* Time passes; a fetch at its limit would not have let it.
LEMMA TickStep == ASSUME ViewInv, ViewTick PROVE ViewInv'
<1>1. /\ clock' = clock + 1 /\ UNCHANGED <<version, supersededAt, entry, fetches>> /\ served' = {}
      /\ \A f \in fetches : clock - f.from < FLIGHT
  BY Zenon DEF ViewTick, chainVars
<1>2. clock \in Nat /\ clock' \in Nat /\ FLIGHT \in Nat
  BY <1>1, ViewConstants DEF ViewInv, ChainOK
<1>3. ChainOK' /\ ServedOK'
  BY <1>1, <1>2, Zenon DEF ViewInv, ChainOK, ServedOK
<1>4. 0 .. clock \subseteq 0 .. clock'
  BY <1>1, <1>2
<1>5. FetchesOK'
  <2>1. ASSUME NEW f \in fetches PROVE clock' - f.from <= FLIGHT
    <3>1. f.from \in 0 .. clock
      BY Zenon DEF ViewInv, FetchesOK
    <3> QED BY <1>1, <1>2, <3>1
  <2> QED BY <1>1, <1>4, <2>1, Zenon DEF ViewInv, FetchesOK, Was
<1>6. EntriesOK'
  BY <1>1, <1>4, Zenon DEF ViewInv, EntriesOK, Was
<1> QED BY <1>3, <1>5, <1>6, Zenon DEF ViewInv

\* A lookup answers from entries that are fresh and begins fetches for the rest.
LEMMA FetchStep == ASSUME ViewInv, NEW ks \in SUBSET Keys, fetch(ks) PROVE ViewInv'
<1> DEFINE hits  == {k \in ks : Fresh(k)}
           begun == {k \in ks \ hits : ~pending[k]}
<1>1. /\ UNCHANGED <<clock, version, supersededAt, entry>>
      /\ served' = {[key |-> k, v |-> entry[k].v, at |-> clock] : k \in hits}
      /\ fetches' = fetches \cup {[key |-> k, n |-> Cardinality({f \in fetches : f.key = k}),
                                  from |-> clock, v |-> -1] : k \in begun}
  BY Zenon DEF fetch, chainVars, Renewed
<1>2. clock \in Nat /\ FLIGHT \in Nat /\ TTL_TICKS \in Nat
  BY ViewConstants, Zenon DEF ViewInv, ChainOK
<1>3. ChainOK' /\ EntriesOK'
  BY <1>1, Zenon DEF ViewInv, ChainOK, EntriesOK, Was
<1>4. FetchesOK'
  <2>1. ASSUME NEW f \in fetches' PROVE \/ f \in fetches
                                         \/ /\ f = [key |-> f.key, n |-> f.n, from |-> f.from, v |-> f.v]
                                            /\ f.key \in Keys /\ f.from = clock /\ f.v = -1
    <3> SUFFICES ASSUME f \notin fetches PROVE /\ f = [key |-> f.key, n |-> f.n, from |-> f.from, v |-> f.v]
                                              /\ f.key \in Keys /\ f.from = clock /\ f.v = -1
      BY Zenon
    <3>1. \E k \in begun : \E m : f = [key |-> k, n |-> m, from |-> clock, v |-> -1]
      BY <1>1, Zenon
    <3>2. PICK k, m : k \in Keys /\ f = [key |-> k, n |-> m, from |-> clock, v |-> -1]
      BY <3>1, Zenon
    <3>3. f.key = k /\ f.n = m /\ f.from = clock /\ f.v = -1
      BY ONLY <3>2, Zenon
    <3> QED BY <3>2, <3>3, Zenon
  <2>2. clock \in 0 .. clock /\ clock - clock <= FLIGHT
    BY <1>2
  <2> HIDE DEF begun
  <2> QED BY <1>1, <2>1, <2>2, Zenon DEF ViewInv, FetchesOK, Was
<1>5. ServedOK'
  <2>1. ASSUME NEW k \in hits
        PROVE  k \in Keys /\ Was(k, entry[k].v, clock - (TTL_TICKS + FLIGHT) + 1)
    <3>1. k \in Keys /\ clock - entry[k].at < TTL_TICKS /\ entry[k].at \in 0 .. clock
          /\ Was(k, entry[k].v, entry[k].at - FLIGHT)
      BY Zenon DEF ViewInv, EntriesOK, Fresh
    <3>2. version[k] \in Nat /\ supersededAt[k] \in Seq(Nat) /\ Len(supersededAt[k]) = version[k]
      BY <3>1, Zenon DEF ViewInv, ChainOK
    <3> DEFINE v == entry[k].v
               at == entry[k].at
    <3>3. v \in 0 .. version[k] /\ (v < version[k] => supersededAt[k][v + 1] >= at - FLIGHT)
      BY <3>1, Zenon DEF Was
    <3> HIDE DEF v, at
    <3>4. v < version[k] => supersededAt[k][v + 1] >= clock - (TTL_TICKS + FLIGHT) + 1
      <4>1. clock - at < TTL_TICKS /\ at \in 0 .. clock
        BY <3>1, Zenon DEF at
      <4>2. v < version[k] => supersededAt[k][v + 1] \in Nat
        BY <3>2, <3>3
      <4> QED BY <1>2, <3>3, <4>1, <4>2
    <3> QED BY <3>1, <3>3, <3>4, Zenon DEF Was, v
  <2>2. ASSUME NEW s \in served' PROVE \E k \in hits : s.key = k /\ s.v = entry[k].v /\ s.at = clock
    <3> HIDE DEF hits
    <3> QED BY <1>1
  <2> HIDE DEF hits
  <2> QED BY <1>1, <1>2, <2>1, <2>2, ZenonT(30) DEF ServedOK, Was
<1> QED BY <1>3, <1>4, <1>5, Zenon DEF ViewInv

\* A node reads the chain for a fetch.
LEMMA ReadStep == ASSUME ViewInv, NEW f \in fetches, nodeReads(f) PROVE ViewInv'
<1> DEFINE g == [f EXCEPT !.v = version[f.key]]
<1>1. /\ UNCHANGED <<clock, version, supersededAt, entry>> /\ served' = {}
      /\ fetches' = (fetches \ {f}) \cup {g}
  BY Zenon DEF nodeReads, chainVars
<1>2. f = [key |-> f.key, n |-> f.n, from |-> f.from, v |-> f.v]
  BY Zenon DEF ViewInv, FetchesOK
<1>3. /\ g = [key |-> g.key, n |-> g.n, from |-> g.from, v |-> g.v]
      /\ g.key = f.key /\ g.from = f.from /\ g.v = version[f.key]
  <2>1. ASSUME NEW a, NEW b, NEW c, NEW d, NEW x
        PROVE  [[key |-> a, n |-> b, from |-> c, v |-> d] EXCEPT !.v = x] =
               [key |-> a, n |-> b, from |-> c, v |-> x]
    OBVIOUS
  <2>3. PICK a, b, c, d : f = [key |-> a, n |-> b, from |-> c, v |-> d]
    BY <1>2, Zenon
  <2>4. g = [key |-> a, n |-> b, from |-> c, v |-> version[f.key]]
    <3> DEFINE x == version[f.key]
    <3> HIDE DEF x
    <3>1. [f EXCEPT !.v = x] = [key |-> a, n |-> b, from |-> c, v |-> x]
      BY <2>1, <2>3
    <3> QED BY <3>1, Zenon DEF x
  <2>5. f.key = a /\ f.n = b /\ f.from = c
    BY ONLY <2>3, Zenon
  <2>2. g = [key |-> f.key, n |-> f.n, from |-> f.from, v |-> version[f.key]]
    BY <2>4, <2>5, Zenon
  <2> HIDE DEF g
  <2> QED BY <2>2, Zenon
<1> HIDE DEF g
<1>4. Was(g.key, g.v, g.from)
  <2>1. version[f.key] \in Nat
    BY Zenon DEF ViewInv, FetchesOK, ChainOK
  <2> QED BY <1>3, <2>1 DEF Was
<1>5. ChainOK' /\ EntriesOK' /\ ServedOK'
  BY <1>1, Zenon DEF ViewInv, ChainOK, EntriesOK, ServedOK, Was
<1>6. FetchesOK'
  BY <1>1, <1>3, <1>4, Zenon DEF ViewInv, FetchesOK, Was
<1> QED BY <1>5, <1>6, Zenon DEF ViewInv

\* An answer is stored and served.
LEMMA FetchedStep == ASSUME ViewInv, NEW f \in fetches, fetched(f) PROVE ViewInv'
<1>1. CASE served' = {} /\ UNCHANGED entry
  BY <1>1, RestStep, Zenon DEF fetched
<1>2. CASE /\ entry' = [entry EXCEPT ![f.key] = [v |-> f.v, at |-> clock]]
           /\ served' = {[key |-> f.key, v |-> f.v, at |-> clock]}
  <2>1. UNCHANGED <<clock, version, supersededAt>> /\ fetches' \subseteq fetches /\ f.v >= 0
    BY Zenon DEF fetched, chainVars
  <2>2. /\ f.key \in Keys /\ f.from \in 0 .. clock /\ clock - f.from <= FLIGHT
        /\ f.v = -1 \/ Was(f.key, f.v, f.from)
    BY Zenon DEF ViewInv, FetchesOK
  <2>3. /\ clock \in Nat /\ FLIGHT \in Nat /\ TTL_TICKS \in Nat /\ TTL_TICKS >= 1
        /\ version[f.key] \in Nat /\ supersededAt[f.key] \in Seq(Nat)
        /\ Len(supersededAt[f.key]) = version[f.key]
    BY <2>2, ViewConstants DEF ViewInv, ChainOK
  <2>4. Was(f.key, f.v, f.from)
    BY <2>1, <2>2
  <2>5. /\ f.v \in Int
        /\ Was(f.key, f.v, clock - FLIGHT) /\ Was(f.key, f.v, clock - (TTL_TICKS + FLIGHT) + 1)
    <3> DEFINE v == f.v
               s == supersededAt[f.key]
               n == version[f.key]
               from == f.from
    <3>1. v \in 0 .. n /\ (v < n => s[v + 1] >= from)
      BY <2>4, Zenon DEF Was
    <3>4. /\ s \in Seq(Nat) /\ Len(s) = n /\ n \in Nat
          /\ from \in 0 .. clock /\ clock - from <= FLIGHT
      BY <2>2, <2>3, Zenon
    <3> HIDE DEF v, s, n, from
    <3>2. v < n => s[v + 1] \in Nat
      BY <3>1, <3>4
    <3>3. v < n => s[v + 1] >= clock - FLIGHT /\ s[v + 1] >= clock - (TTL_TICKS + FLIGHT) + 1
      <4> DEFINE t == s[v + 1]
      <4>1. clock \in Nat /\ FLIGHT \in Nat /\ TTL_TICKS \in Nat /\ TTL_TICKS >= 1
        BY <2>3, Zenon
      <4>2. ASSUME v < n PROVE t \in Nat /\ t >= from
        BY <3>1, <3>2, <4>2, Zenon
      <4> HIDE DEF t
      <4>3. ASSUME v < n PROVE t >= clock - FLIGHT /\ t >= clock - (TTL_TICKS + FLIGHT) + 1
        BY <3>4, <4>1, <4>2, <4>3
      <4> QED BY <4>3, Zenon DEF t
    <3>5. v \in Int
      BY <3>1, <3>4
    <3> QED BY <3>1, <3>3, <3>5, Zenon DEF Was, v, s, n
  <2>6. ChainOK' /\ FetchesOK'
    BY <2>1, Zenon DEF ViewInv, ChainOK, FetchesOK, Was
  <2>7. EntriesOK'
    <3> DEFINE new == [v |-> f.v, at |-> clock]
    <3>1. new \in [v : Int, at : Int] /\ new.v = f.v /\ new.at = clock /\ clock \in 0 .. clock
      BY <2>3, <2>5
    <3>2. /\ entry' \in [Keys -> [v : Int, at : Int]] /\ entry'[f.key] = new
          /\ \A k \in Keys : k # f.key => entry'[k] = entry[k]
      BY <1>2, <2>2, <3>1, Zenon DEF ViewInv, EntriesOK
    <3> HIDE DEF new
    <3> QED BY <2>1, <2>5, <3>1, <3>2, Zenon DEF ViewInv, EntriesOK, Was
  <2>8. ServedOK'
    <3>1. ASSUME NEW s \in served' PROVE s.key = f.key /\ s.v = f.v /\ s.at = clock
      BY <1>2
    <3> QED BY <2>1, <2>2, <2>3, <2>5, <3>1, Zenon DEF ServedOK, Was
  <2> QED BY <2>6, <2>7, <2>8, Zenon DEF ViewInv
<1> QED BY <1>1, <1>2, Zenon DEF fetched

\* Every answer of the cached reads is bounded in age.
THEOREM BoundedStaleness == ViewSpec => []StalenessBounded
<1>1. ViewInit => ViewInv
  <2> SUFFICES ASSUME ViewInit PROVE ViewInv
    BY Zenon
  <2>1. ChainOK
    BY DEF ViewInit, ChainOK
  <2>2. EntriesOK
    BY DEF ViewInit, EntriesOK, NoEntry
  <2>3. FetchesOK /\ ServedOK
    BY Zenon DEF ViewInit, FetchesOK, ServedOK
  <2> QED BY <2>1, <2>2, <2>3, Zenon DEF ViewInv
<1>2. ASSUME ViewInv, ViewNext PROVE ViewInv'
  <2>1. CASE ViewTick \/ clear \/ receiptLost \/ \E signer \in BOOLEAN : initialize(signer)
    BY <1>2, <2>1, TickStep, RestStep, Zenon DEF clear, Forget, receiptLost, initialize
  <2>2. ASSUME NEW k \in Keys,
               hasActiveAccess(k) \/ cachedGetVault(k) \/ getActiveAccessMap(AccessKeys)
        PROVE  ViewInv'
    <3>1. {k} \cap AccessKeys \in SUBSET Keys /\ {k} \cap VaultKeys \in SUBSET Keys
          /\ AccessKeys \cap AccessKeys \in SUBSET Keys
      BY Zenon DEF Keys
    <3> QED BY <1>2, <2>2, <3>1, FetchStep, Zenon DEF hasActiveAccess, cachedGetVault,
               getActiveAccessMap
  <2>3. ASSUME NEW fn, NEW needs, NEW touched, Send(fn, needs, touched) PROVE ViewInv'
    BY <1>2, <2>3, ChangeStep, Zenon DEF Send
  <2>4. CASE settle(write)
    <3>1. /\ UNCHANGED <<clock, chainVars, fetches>> /\ served' = {}
          /\ entry' = entry \/ \E ks : entry' = [k \in Keys |-> IF k \in ks THEN NoEntry ELSE entry[k]]
      BY <2>4, Zenon DEF settle, clearAccessCache, invalidateVaultCache, Forget
    <3> QED BY <1>2, <3>1, RestStep, Zenon
  <2>5. CASE OthersWrite
    BY <1>2, <2>5, ChangeStep, Zenon DEF OthersWrite
  <2>6. ASSUME NEW f \in fetches, nodeReads(f) \/ fetched(f) PROVE ViewInv'
    BY <1>2, <2>6, ReadStep, FetchedStep, Zenon
  <2>7. ASSUME NEW k \in AccessKeys, \/ proxiedApproveAccess(k) \/ proxiedApproveAccessBLS(k)
                                     \/ approveAccessDelegated(k) PROVE ViewInv'
    BY <2>3, <2>7, Zenon DEF proxiedApproveAccess, proxiedApproveAccessBLS, approveAccessDelegated
  <2>8. ASSUME NEW v \in VaultKeys, acceptGuardianInvite(v) \/ proxiedAcceptGuardianInvite(v)
        PROVE  ViewInv'
    BY <2>3, <2>8, Zenon DEF acceptGuardianInvite, proxiedAcceptGuardianInvite
  <2>9. CASE \/ burnAccessToken \/ mintAccessToken \/ setEmergencyMode \/ registerGuardianBLSKey
             \/ configureVaultRelease \/ recordProofOfLife \/ setBeneficiary \/ relayKeeperAuthorization
             \/ revokeKeeper \/ relayProofOfLife \/ revokeDelegation
    BY <2>3, <2>9, Zenon DEF burnAccessToken, mintAccessToken, setEmergencyMode,
       registerGuardianBLSKey,
          configureVaultRelease, recordProofOfLife, setBeneficiary, relayKeeperAuthorization,
              revokeKeeper,
          relayProofOfLife, revokeDelegation
  <2>10. CASE getActiveAccessMap(AccessKeys)
    <3>1. AccessKeys \cap AccessKeys \in SUBSET Keys
      BY Zenon DEF Keys
    <3> QED BY <1>2, <2>10, <3>1, FetchStep, Zenon DEF getActiveAccessMap
  <2>11. AccessKeys \subseteq Keys /\ VaultKeys \subseteq Keys
    BY Zenon DEF Keys
  <2> QED BY <1>2, <2>1, <2>2, <2>4, <2>5, <2>6, <2>7, <2>8, <2>9, <2>10, <2>11, Zenon DEF ViewNext
<1>3. ViewInv /\ UNCHANGED viewVars => ViewInv'
  <2> SUFFICES ASSUME ViewInv, UNCHANGED viewVars PROVE ViewInv'
    BY Zenon
  <2>1. UNCHANGED <<clock, version, supersededAt, entry, fetches, served>>
    BY Zenon DEF viewVars
  <2> QED BY <2>1, Zenon DEF ViewInv, ChainOK, EntriesOK, FetchesOK, ServedOK, Was
<1>4. ViewInv => StalenessBounded
  <2> SUFFICES ASSUME ViewInv, NEW s \in served, s.v < version[s.key]
               PROVE  supersededAt[s.key][s.v + 1] > s.at - (TTL_TICKS + FLIGHT)
    BY Zenon DEF StalenessBounded
  <2>1. /\ s.key \in Keys /\ s.at \in Nat /\ s.v \in 0 .. version[s.key]
        /\ supersededAt[s.key][s.v + 1] >= s.at - (TTL_TICKS + FLIGHT) + 1
    BY Zenon DEF ViewInv, ServedOK, Was
  <2>2. supersededAt[s.key] \in Seq(Nat) /\ Len(supersededAt[s.key]) = version[s.key] /\ version[s.key] \in Nat
    BY <2>1, Zenon DEF ViewInv, ChainOK
  <2>3. supersededAt[s.key][s.v + 1] \in Nat
    BY <2>1, <2>2, SMTT(30)
  <2> QED BY <2>1, <2>3, ViewConstants
<1> QED BY <1>1, <1>2, <1>3, <1>4, PTL DEF ViewSpec
-----------------------------------------------------------------------------
(* The offline queue. *)

\* The status a record of the store goes through (PendingActionStatus).
Statuses == {"pending", "processing", "synced", "failed"}
Records == [act : Acts, kind : ActionKinds, network : Networks, status : Statuses]

\* What a synced record stands for: its act took effect on some chain, a draft's key is kept.
Done(a, k, eff, ks) ==
    k # "register-public-key" => eff[a] # {} /\ (k = "create-document-draft" => a \in ks)

\* A contract call under way.
Call(s, a, k, i, r, e) == [stage |-> s, act |-> a, kind |-> k, id |-> i, receipt |-> r, err |-> e]

\* A call is of an act and a kind there are; its receipt is of a transaction that took effect,
\* unless it reverted.
CallOK(c, eff) ==
    \/ c = NoCall
    \/ /\ c = [stage |-> c.stage, act |-> c.act, kind |-> c.kind, id |-> c.id,
               receipt |-> c.receipt, err |-> c.err]
       /\ c.act \in Acts /\ c.kind \in ActionKinds
       /\ c.stage = "receipt" /\ c.receipt = "mined" => eff[c.act] # {}

\* A drain's call is the executor's of a stored record; it returns when the record is done.
DrainOK(c, st, eff, ks) ==
    c # NoCall => /\ c.id \in DOMAIN st /\ c.act = st[c.id].act /\ c.kind = st[c.id].kind
                  /\ c.stage = "returned" => Done(c.act, c.kind, eff, ks)

\* The store, the network selected and the effects have their types.
StoreOK == store \in Seq(Records) /\ ecosystem \in Networks /\ effects \in [Acts -> SUBSET Networks]
\* A record is synced when it is done.
SyncedOK(st, eff, ks) ==
    \A i \in DOMAIN st : st[i].status = "synced" => Done(st[i].act, st[i].kind, eff, ks)
\* Every tab has its two calls.
CallShape == call = [t \in Tabs |-> [w \in Callers |-> call[t][w]]]
\* The calls under way are in order.
CallsOK == /\ \A t \in Tabs, w \in Callers : CallOK(call[t][w], effects)
           /\ \A t \in Tabs : DrainOK(call[t]["drain"], store, effects, keys)
\* A tab's record has its four fields.
IsTab(x) == x = [open |-> x.open, timer |-> x.timer, draining |-> x.draining, list |-> x.list]
TabShape == tab = [t \in Tabs |-> tab[t]] /\ \A t \in Tabs : IsTab(tab[t])
\* A drain works on records of the store.
ListsOK == \A t \in Tabs : tab[t].list \subseteq DOMAIN store

\* The inductive invariant.  SyncedMeansDone alone is not inductive: that settleAction marks only
\* what is done needs what a returned call stands for, which needs what its receipt stands for.
OfflineInv == StoreOK /\ SyncedOK(store, effects, keys) /\ CallShape /\ CallsOK /\ TabShape /\ ListsOK

\* The store only grows, and a record keeps its act and kind.
Grow(s1, s2) == /\ DOMAIN s1 \subseteq DOMAIN s2
                /\ \A i \in DOMAIN s1 : s2[i].act = s1[i].act /\ s2[i].kind = s1[i].kind
\* Effects and kept keys only grow.
More(e1, e2, k1, k2) == k1 \subseteq k2 /\ \A a \in Acts : e1[a] \subseteq e2[a]

\* A call in order stays in order while the store, the effects and the keys grow.
LEMMA Still ==
  ASSUME NEW c, NEW s1, NEW s2, NEW e1, NEW e2, NEW k1, NEW k2, CallOK(c, e1), Grow(s1, s2),
         More(e1, e2, k1, k2)
  PROVE  CallOK(c, e2) /\ (DrainOK(c, s1, e1, k1) => DrainOK(c, s2, e2, k2))
BY Zenon DEF CallOK, DrainOK, Grow, More, Done, NoCall

\* A synced record stays done.
LEMMA StillSynced ==
  ASSUME NEW s1 \in Seq(Records), NEW e1, NEW e2, NEW k1, NEW k2, SyncedOK(s1, e1, k1),
         More(e1, e2, k1, k2)
  PROVE  SyncedOK(s1, e2, k2)
<1>1. ASSUME NEW i \in DOMAIN s1 PROVE s1[i].act \in Acts
  <2>1. s1[i] \in Records
    OBVIOUS
  <2> QED BY <2>1, Zenon DEF Records
<1> QED BY <1>1, Zenon DEF SyncedOK, Done, More

\* updateAction changes one record's status.
LEMMA StatusStep ==
  ASSUME NEW s \in Seq(Records), NEW id \in DOMAIN s, NEW status \in Statuses
  PROVE  LET s2 == updateAction(s, id, status)
         IN  /\ s2 \in Seq(Records) /\ DOMAIN s2 = DOMAIN s /\ Grow(s, s2) /\ s2[id].status = status
             /\ \A i \in DOMAIN s : i # id => s2[i] = s[i]
<1> DEFINE r  == [s[id] EXCEPT !.status = status]
           s2 == [s EXCEPT ![id] = r]
<1>1. s[id] \in Records
  OBVIOUS
<1>2. r \in Records /\ r.status = status /\ r.act = s[id].act /\ r.kind = s[id].kind
  BY <1>1, Zenon DEF Records
<1> HIDE DEF r
<1>3. /\ s2 \in Seq(Records) /\ DOMAIN s2 = DOMAIN s /\ s2[id] = r
      /\ \A i \in DOMAIN s : i # id => s2[i] = s[i]
  BY <1>2
<1> HIDE DEF s2
<1>4. Grow(s, s2)
  BY <1>2, <1>3, Zenon DEF Grow
<1>5. updateAction(s, id, status) = s2
  BY Zenon DEF updateAction, s2, r
<1> QED BY <1>2, <1>3, <1>4, <1>5, Zenon

\* insertAction adds a record that is not synced.
LEMMA EnqueueStep ==
  ASSUME NEW s \in Seq(Records), NEW rec \in Records, rec.status # "synced", NEW eff, NEW ks,
         SyncedOK(s, eff, ks)
  PROVE  LET s2 == insertAction(s, rec)
         IN  s2 \in Seq(Records) /\ Grow(s, s2) /\ SyncedOK(s2, eff, ks)
<1> DEFINE s2 == Append(s, rec)
<1>1. s2 \in Seq(Records) /\ DOMAIN s \subseteq DOMAIN s2 /\ (\A i \in DOMAIN s : s2[i] = s[i])
      /\ \A i \in DOMAIN s2 : i \in DOMAIN s \/ s2[i] = rec
  OBVIOUS
<1> HIDE DEF s2
<1>2. Grow(s, s2) /\ SyncedOK(s2, eff, ks)
  BY <1>1, Zenon DEF Grow, SyncedOK
<1> QED BY <1>1, <1>2, Zenon DEF insertAction, s2

\* One call moves on, the rest only grows.
LEMMA CallStep ==
  ASSUME OfflineInv, NEW t \in Tabs, NEW w \in Callers, NEW x, call' = [call EXCEPT ![t][w] = x],
         Grow(store, store'), More(effects, effects', keys, keys'),
         CallOK(x, effects'), w = "drain" => DrainOK(x, store', effects', keys')
  PROVE  CallShape' /\ CallsOK'
<1>1. /\ CallShape' /\ call'[t][w] = x
      /\ \A u \in Tabs, v \in Callers : u # t \/ v # w => call'[u][v] = call[u][v]
  <2>1. CallShape
    BY Zenon DEF OfflineInv
  <2> QED BY <2>1, Zenon DEF CallShape
<1>2. ASSUME NEW u \in Tabs, NEW v \in Callers PROVE CallOK(call'[u][v], effects')
  <2>1. CASE u = t /\ v = w
    BY <1>1, <2>1, Zenon
  <2>2. CASE u # t \/ v # w
    BY <1>1, <2>2, Still, Zenon DEF OfflineInv, CallsOK
  <2> QED BY <2>1, <2>2, Zenon
<1>3. ASSUME NEW u \in Tabs PROVE DrainOK(call'[u]["drain"], store', effects', keys')
  <2>0. "drain" \in Callers
    BY Zenon DEF Callers
  <2>1. CASE u = t /\ w = "drain"
    BY <1>1, <2>1, Zenon
  <2>2. CASE u # t \/ w # "drain"
    BY <1>1, <2>0, <2>2, Still, Zenon DEF OfflineInv, CallsOK
  <2> QED BY <2>1, <2>2, Zenon
<1> QED BY <1>1, <1>2, <1>3, Zenon DEF CallsOK

\* No call moves.
LEMMA QuietStep ==
  ASSUME OfflineInv, UNCHANGED call, Grow(store, store'), More(effects, effects', keys, keys')
  PROVE  CallShape' /\ CallsOK'
<1>1. "drain" \in Callers
  BY Zenon DEF Callers
<1> QED BY <1>1, Still, Zenon DEF OfflineInv, CallShape, CallsOK

\* The fields of a call.
LEMMA Fields ==
  ASSUME NEW s, NEW a, NEW k, NEW i, NEW r, NEW e, NEW c, c = Call(s, a, k, i, r, e)
  PROVE  c.stage = s /\ c.act = a /\ c.kind = k /\ c.id = i /\ c.receipt = r /\ c.err = e
BY Zenon DEF Call

\* A call with another stage, and one with a receipt.
ToStage(c, s)  == [c EXCEPT !.stage = s]
Receives(c, r) == [c EXCEPT !.stage = "receipt", !.receipt = r]

\* The steps of a call change its stage, its receipt and its error alone.
LEMMA Moves ==
  ASSUME NEW c, c = Call(c.stage, c.act, c.kind, c.id, c.receipt, c.err), NEW x
  PROVE  /\ ToStage(c, x) = Call(x, c.act, c.kind, c.id, c.receipt, c.err)
         /\ Throw(c, x) = Call("thrown", c.act, c.kind, c.id, c.receipt, x)
         /\ Reject(c, x) = Call("rejected", c.act, c.kind, c.id, c.receipt, x)
         /\ Receives(c, x) = Call("receipt", c.act, c.kind, c.id, x, c.err)
<1>1. PICK s, a, k, i, r, e : c = Call(s, a, k, i, r, e)
  BY Zenon
<1>2. c.act = a /\ c.kind = k /\ c.id = i /\ c.receipt = r /\ c.err = e
  BY ONLY <1>1, Zenon DEF Call
<1>3. ASSUME NEW y PROVE ToStage(c, y) = Call(y, a, k, i, r, e)
  BY ONLY <1>1 DEF Call, ToStage
<1>4. /\ Throw(c, x) = [ToStage(c, "thrown") EXCEPT !.err = x]
      /\ Reject(c, x) = [ToStage(c, "rejected") EXCEPT !.err = x]
      /\ Receives(c, x) = [ToStage(c, "receipt") EXCEPT !.receipt = x]
  BY Zenon DEF ToStage, Throw, Reject, Receives
<1>5. ASSUME NEW y
      PROVE  /\ [Call(y, a, k, i, r, e) EXCEPT !.err = x] = Call(y, a, k, i, r, x)
             /\ [Call(y, a, k, i, r, e) EXCEPT !.receipt = x] = Call(y, a, k, i, x, e)
  BY DEF Call
<1>6. /\ Throw(c, x) = Call("thrown", a, k, i, r, x)
      /\ Reject(c, x) = Call("rejected", a, k, i, r, x)
      /\ Receives(c, x) = Call("receipt", a, k, i, x, e)
  <2>1. Throw(c, x) = Call("thrown", a, k, i, r, x)
    BY <1>3, <1>4, <1>5, Zenon
  <2>2. Reject(c, x) = Call("rejected", a, k, i, r, x)
    BY <1>3, <1>4, <1>5, Zenon
  <2>3. Receives(c, x) = Call("receipt", a, k, i, x, e)
    BY <1>3, <1>4, <1>5, Zenon
  <2> QED BY <2>1, <2>2, <2>3, Zenon
<1> QED BY <1>2, <1>3, <1>6, Zenon

\* A call built from parts in order is in order.
LEMMA MadeCall ==
  ASSUME NEW s, NEW a \in Acts, NEW k \in ActionKinds, NEW i, NEW r, NEW e, NEW eff,
         s = "receipt" /\ r = "mined" => eff[a] # {}
  PROVE  CallOK(Call(s, a, k, i, r, e), eff)
<1> DEFINE c == Call(s, a, k, i, r, e)
<1>1. /\ c = Call(s, a, k, i, r, e)
      /\ c.stage = s /\ c.act = a /\ c.kind = k /\ c.id = i /\ c.receipt = r /\ c.err = e
  BY Zenon DEF Call
<1> HIDE DEF c
<1>2. CallOK(c, eff)
  BY <1>1, Zenon DEF CallOK, Call
<1> QED BY <1>2, Zenon DEF c

\* ... and so is a drain's.
LEMMA MadeDrain ==
  ASSUME NEW s, NEW a, NEW k, NEW i, NEW r, NEW e, NEW st, NEW eff, NEW ks,
         i \in DOMAIN st, a = st[i].act, k = st[i].kind, s = "returned" => Done(a, k, eff, ks)
  PROVE  DrainOK(Call(s, a, k, i, r, e), st, eff, ks)
<1> DEFINE c == Call(s, a, k, i, r, e)
<1>1. c.stage = s /\ c.act = a /\ c.kind = k /\ c.id = i
  BY Zenon DEF Call
<1> HIDE DEF c
<1>2. DrainOK(c, st, eff, ks)
  BY <1>1, Zenon DEF DrainOK
<1> QED BY <1>2, Zenon DEF c

\* What the invariant says of a call under way.
LEMMA UnderWay ==
  ASSUME OfflineInv, NEW t \in Tabs, NEW w \in Callers, call[t][w].stage # "none"
  PROVE  LET c == call[t][w]
         IN  /\ c = Call(c.stage, c.act, c.kind, c.id, c.receipt, c.err) /\ c.act \in Acts
             /\ c.kind \in ActionKinds
             /\ c.stage = "receipt" /\ c.receipt = "mined" => effects[c.act] # {}
             /\ w = "drain" => /\ c.id \in DOMAIN store
                               /\ c.act = store[c.id].act /\ c.kind = store[c.id].kind
                               /\ c.stage = "returned" => Done(c.act, c.kind, effects, keys)
<1>1. NoCall.stage = "none"
  BY Zenon DEF NoCall
<1> QED BY <1>1, Zenon DEF OfflineInv, CallsOK, CallOK, DrainOK, Call

\* A call moves on and nothing else changes but what it adds.
Moved(t, w, c, s, r, e) ==
    /\ c = call[t][w] /\ c.stage # "none"
    /\ call' = [call EXCEPT ![t][w] = Call(s, c.act, c.kind, c.id, r, e)]
    /\ store' = store /\ tab' = tab /\ ecosystem' = ecosystem
    /\ effects' \in [Acts -> SUBSET Networks] /\ More(effects, effects', keys, keys')
    /\ s = "receipt" /\ r = "mined" => effects'[c.act] # {}
    /\ w = "drain" /\ s = "returned" => Done(c.act, c.kind, effects', keys')

\* ... which keeps the invariant.
LEMMA MoveStep ==
  ASSUME OfflineInv, NEW t \in Tabs, NEW w \in Callers, NEW c, NEW s, NEW r, NEW e,
         Moved(t, w, c, s, r, e)
  PROVE  OfflineInv'
<1>0. PICK x : x = Call(s, c.act, c.kind, c.id, r, e)
  BY Zenon
<1>a. /\ c = call[t][w] /\ c.stage # "none" /\ call' = [call EXCEPT ![t][w] = x]
      /\ store' = store /\ tab' = tab /\ ecosystem' = ecosystem
      /\ effects' \in [Acts -> SUBSET Networks] /\ More(effects, effects', keys, keys')
      /\ s = "receipt" /\ r = "mined" => effects'[c.act] # {}
      /\ w = "drain" /\ s = "returned" => Done(c.act, c.kind, effects', keys')
  BY <1>0, Zenon DEF Moved
<1>1. /\ c.act \in Acts /\ c.kind \in ActionKinds
      /\ w = "drain" => c.id \in DOMAIN store /\ c.act = store[c.id].act /\ c.kind = store[c.id].kind
  BY <1>a, UnderWay, Zenon
<1>2. CallOK(x, effects') /\ (w = "drain" => DrainOK(x, store', effects', keys'))
  BY <1>0, <1>a, <1>1, MadeCall, MadeDrain, Zenon
<1>3. Grow(store, store')
  BY <1>a, Zenon DEF Grow
<1>5. CallShape' /\ CallsOK'
  BY <1>a, <1>2, <1>3, CallStep, Zenon
<1>6. SyncedOK(store, effects', keys')
  BY <1>a, StillSynced, Zenon DEF OfflineInv, StoreOK
<1>7. StoreOK' /\ TabShape' /\ ListsOK'
  BY <1>a, Zenon DEF OfflineInv, StoreOK, TabShape, ListsOK
<1>8. SyncedOK(store, effects, keys)'
  BY <1>a, <1>6, Zenon DEF SyncedOK, Done
<1> QED BY <1>5, <1>7, <1>8, Zenon DEF OfflineInv

\* submit: the transaction takes effect before its receipt is waited for.
LEMMA SubmitStep ==
  ASSUME OfflineInv, NEW t \in Tabs, NEW w \in Callers, submit(t, w)
  PROVE  OfflineInv'
<1>0. PICK c : c = call[t][w]
  BY Zenon
<1>1. c.stage = "submit" /\ store' = store /\ tab' = tab /\ ecosystem' = ecosystem /\ keys' = keys
  BY <1>0, Zenon DEF submit
<1>2. c = Call(c.stage, c.act, c.kind, c.id, c.receipt, c.err) /\ c.act \in Acts /\ c.stage # "none"
  <2>1. c.stage # "none"
    BY <1>1, Zenon
  <2> QED BY <1>0, <2>1, UnderWay, Zenon
<1>3. \A x : /\ Throw(c, x) = Call("thrown", c.act, c.kind, c.id, c.receipt, x)
             /\ Receives(c, x) = Call("receipt", c.act, c.kind, c.id, x, c.err)
  BY <1>2, Moves, Zenon
<1>4. effects \in [Acts -> SUBSET Networks] /\ ecosystem \in Networks
  BY Zenon DEF OfflineInv, StoreOK
<1>5. CASE /\ effects' = [effects EXCEPT ![c.act] = @ \cup {ecosystem}]
           /\ call' = [call EXCEPT ![t][w] = Receives(c, "mined")]
  <2>1. /\ effects' \in [Acts -> SUBSET Networks] /\ effects'[c.act] # {}
        /\ \A a \in Acts : effects[a] \subseteq effects'[a]
    BY <1>2, <1>4, <1>5, Zenon
  <2>2. More(effects, effects', keys, keys')
    BY <1>1, <2>1, Zenon DEF More
  <2>3. call' = [call EXCEPT ![t][w] = Call("receipt", c.act, c.kind, c.id, "mined", c.err)]
    BY <1>3, <1>5, Zenon
  <2>4. "receipt" # "returned"
    BY Zenon
  <2>5. Moved(t, w, c, "receipt", "mined", c.err)
    BY <1>0, <1>1, <1>2, <2>1, <2>2, <2>3, <2>4, Zenon DEF Moved
  <2> QED BY <2>5, MoveStep, Zenon
<1>6. CASE /\ UNCHANGED effects
           /\ \/ \E y : call' = [call EXCEPT ![t][w] = Throw(c, y)]
              \/ call' = [call EXCEPT ![t][w] = Receives(c, "reverted")]
  <2>1. More(effects, effects', keys, keys') /\ effects' \in [Acts -> SUBSET Networks]
    BY <1>1, <1>4, <1>6, Zenon DEF More
  <2>2. ASSUME NEW s, NEW r, NEW e,
               call' = [call EXCEPT ![t][w] = Call(s, c.act, c.kind, c.id, r, e)],
               ~(s = "receipt" /\ r = "mined"), s # "returned"
        PROVE  OfflineInv'
    <3>1. Moved(t, w, c, s, r, e)
      BY <1>0, <1>1, <1>2, <2>1, <2>2, Zenon DEF Moved
    <3> QED BY <3>1, MoveStep, Zenon
  <2>3. ASSUME NEW y, call' = [call EXCEPT ![t][w] = Throw(c, y)] PROVE OfflineInv'
    <3>1. call' = [call EXCEPT ![t][w] = Call("thrown", c.act, c.kind, c.id, c.receipt, y)]
      BY <1>3, <2>3, Zenon
    <3>2. "thrown" # "receipt" /\ "thrown" # "returned"
      BY Zenon
    <3> QED BY <2>2, <3>1, <3>2, Zenon
  <2>4. CASE call' = [call EXCEPT ![t][w] = Receives(c, "reverted")]
    <3>1. call' = [call EXCEPT ![t][w] = Call("receipt", c.act, c.kind, c.id, "reverted", c.err)]
      BY <1>3, <2>4, Zenon
    <3>2. "reverted" # "mined" /\ "receipt" # "returned"
      BY Zenon
    <3> QED BY <2>2, <3>1, <3>2, Zenon
  <2> QED BY <1>6, <2>3, <2>4, Zenon
<1> QED BY <1>0, <1>1, <1>5, <1>6, Zenon DEF submit, Receives

\* replayCreateDocumentDraft pins the payload, or fails.
LEMMA UploadStep == ASSUME OfflineInv, NEW t \in Tabs, uploadDraft(t) PROVE OfflineInv'
<1>0. PICK c : c = call[t]["drain"]
  BY Zenon
<1>1. /\ c.stage = "upload" /\ "drain" \in Callers
      /\ store' = store /\ tab' = tab /\ ecosystem' = ecosystem /\ effects' = effects
      /\ keys' = keys
  BY <1>0, Zenon DEF uploadDraft, Callers
<1>2. c = Call(c.stage, c.act, c.kind, c.id, c.receipt, c.err) /\ c.stage # "none"
  <2>1. c.stage # "none"
    BY <1>1, Zenon
  <2> QED BY <1>0, <1>1, <2>1, UnderWay, Zenon
<1>3. \A x : /\ Reject(c, x) = Call("rejected", c.act, c.kind, c.id, c.receipt, x)
             /\ ToStage(c, "submit") = Call("submit", c.act, c.kind, c.id, c.receipt, c.err)
  BY <1>2, Moves, Zenon
<1>4. \/ call' = [call EXCEPT ![t]["drain"] = ToStage(c, "submit")]
      \/ \E x : call' = [call EXCEPT ![t]["drain"] = Reject(c, x)]
  BY <1>0, Zenon DEF uploadDraft, ToStage
<1>5. PICK s, e : /\ call' = [call EXCEPT ![t]["drain"] = Call(s, c.act, c.kind, c.id, c.receipt, e)]
                  /\ s \in {"submit", "rejected"}
  BY <1>3, <1>4, Zenon
<1>6. More(effects, effects', keys, keys') /\ effects' \in [Acts -> SUBSET Networks]
  BY <1>1, Zenon DEF More, OfflineInv, StoreOK
<1>7. s # "receipt" /\ s # "returned"
  BY <1>5, Zenon
<1>8. Moved(t, "drain", c, s, c.receipt, e)
  BY <1>0, <1>1, <1>2, <1>5, <1>6, <1>7, Zenon DEF Moved
<1> QED BY <1>1, <1>8, MoveStep, Zenon

\* waitForReceipt: an executor returns only for a mined receipt, and a draft's key is then kept.
LEMMA ReceiptStep ==
  ASSUME OfflineInv, NEW t \in Tabs, NEW w \in Callers, waitForReceipt(t, w)
  PROVE  OfflineInv'
<1>0. PICK c : c = call[t][w]
  BY Zenon
<1>1. /\ c.stage = "receipt"
      /\ store' = store /\ tab' = tab /\ ecosystem' = ecosystem /\ effects' = effects
  BY <1>0, Zenon DEF waitForReceipt
<1>2. /\ c = Call(c.stage, c.act, c.kind, c.id, c.receipt, c.err) /\ c.stage # "none"
      /\ c.kind \in ActionKinds /\ (c.receipt = "mined" => effects[c.act] # {})
  <2>1. c.stage # "none"
    BY <1>1, Zenon
  <2> QED BY <1>0, <1>1, <2>1, UnderWay, Zenon
<1>3. \A x : /\ Throw(c, x) = Call("thrown", c.act, c.kind, c.id, c.receipt, x)
             /\ Reject(c, x) = Call("rejected", c.act, c.kind, c.id, c.receipt, x)
             /\ ToStage(c, x) = Call(x, c.act, c.kind, c.id, c.receipt, c.err)
  BY <1>2, Moves, Zenon
<1>4. effects' \in [Acts -> SUBSET Networks] /\ \A a \in Acts : effects[a] \subseteq effects'[a]
  BY <1>1, Zenon DEF OfflineInv, StoreOK
<1>5. ASSUME NEW s, NEW e,
             call' = [call EXCEPT ![t][w] = Call(s, c.act, c.kind, c.id, c.receipt, e)],
             s # "receipt", keys \subseteq keys',
             w = "drain" /\ s = "returned" => Done(c.act, c.kind, effects', keys')
      PROVE  OfflineInv'
  <2>1. Moved(t, w, c, s, c.receipt, e)
    BY <1>0, <1>1, <1>2, <1>4, <1>5, Zenon DEF Moved, More
  <2> QED BY <2>1, MoveStep, Zenon
<1> DEFINE fails == w = "drain" /\ executors(c.kind, c.receipt) # "none"
           kept  == IF c.kind = "create-document-draft" /\ ~fails THEN keys \cup {c.act} ELSE keys
<1>6. CASE fails /\ call' = [call EXCEPT ![t][w] = Reject(c, "error")] /\ keys' = kept
  <2>1. call' = [call EXCEPT ![t][w] = Call("rejected", c.act, c.kind, c.id, c.receipt, "error")]
    BY <1>3, <1>6, Zenon
  <2>2. keys' = keys
    BY <1>6, Zenon
  <2>3. "rejected" # "receipt" /\ "rejected" # "returned"
    BY Zenon
  <2> QED BY <1>5, <2>1, <2>2, <2>3, Zenon
<1>7. CASE ~fails /\ call' = [call EXCEPT ![t][w] = ToStage(c, "returned")] /\ keys' = kept
  <2>1. call' = [call EXCEPT ![t][w] = Call("returned", c.act, c.kind, c.id, c.receipt, c.err)]
    BY <1>3, <1>7, Zenon
  <2>2. /\ keys \subseteq keys' /\ (c.kind = "create-document-draft" => c.act \in keys')
    BY <1>7, Zenon
  <2>3. ASSUME w = "drain", c.kind # "register-public-key" PROVE c.receipt = "mined"
    <3>1. executors(c.kind, c.receipt) = "none"
      BY <1>7, <2>3, Zenon
    <3> HIDE DEF fails, kept
    <3> QED BY <1>2, <2>3, <3>1, Zenon DEF executors, ActionKinds, replayCreateVault, replayAddDocument,
               replayRequestAccess,
                 replayCreateDocumentDraft, createVault, addDocument, requestAccess, IdIn
  <2>4. w = "drain" => Done(c.act, c.kind, effects', keys')
    BY <1>1, <1>2, <2>2, <2>3, Zenon DEF Done
  <2> QED BY <1>5, <2>1, <2>2, <2>4, Zenon
<1>8. ASSUME NEW y, call' = [call EXCEPT ![t][w] = Throw(c, y)], keys' = keys PROVE OfflineInv'
  <2>1. call' = [call EXCEPT ![t][w] = Call("thrown", c.act, c.kind, c.id, c.receipt, y)]
    BY <1>3, <1>8, Zenon
  <2>2. "thrown" # "receipt" /\ "thrown" # "returned"
    BY Zenon
  <2> QED BY <1>5, <1>8, <2>1, <2>2, Zenon
<1>9. \/ \E y : call' = [call EXCEPT ![t][w] = Throw(c, y)] /\ keys' = keys
      \/ /\ keys' = kept
         /\ \/ fails /\ call' = [call EXCEPT ![t][w] = Reject(c, "error")]
            \/ ~fails /\ call' = [call EXCEPT ![t][w] = ToStage(c, "returned")]
  BY <1>0, Zenon DEF waitForReceipt, ToStage
<1> QED BY <1>6, <1>7, <1>8, <1>9, Zenon

\* The user's write is over.
LEMMA AnsweredStep == ASSUME OfflineInv, NEW t \in Tabs, answered(t) PROVE OfflineInv'
<1>1. /\ store' = store /\ tab' = tab /\ ecosystem' = ecosystem /\ effects' = effects
      /\ keys' = keys
      /\ call' = [call EXCEPT ![t]["user"] = NoCall] /\ "user" \in Callers /\ "user" # "drain"
  BY Zenon DEF answered, Callers
<1>2. Grow(store, store') /\ More(effects, effects', keys, keys') /\ CallOK(NoCall, effects')
  BY <1>1, Zenon DEF Grow, More, CallOK
<1>3. CallShape' /\ CallsOK'
  BY <1>1, <1>2, CallStep, Zenon
<1> QED BY <1>1, <1>3, Zenon DEF OfflineInv, StoreOK, SyncedOK, Done, TabShape, ListsOK

\* The user asks for a write.
LEMMA AskStep ==
  ASSUME OfflineInv, NEW t \in Tabs, NEW a \in Acts, NEW k \in KindsOf[a], ask(t, a, k)
  PROVE  OfflineInv'
<1>1. /\ store' = store /\ tab' = tab /\ ecosystem' = ecosystem /\ effects' = effects
      /\ keys' = keys
      /\ call' = [call EXCEPT ![t]["user"] = Begin(a, k, 0)] /\ "user" \in Callers
      /\ "user" # "drain"
  BY Zenon DEF ask, Callers
<1>2. k \in ActionKinds
  BY OfflineConstants, Zenon
<1>3. PICK s : Begin(a, k, 0) = Call(s, a, k, 0, "none", "none") /\ s \in {"upload", "submit"}
  BY Zenon DEF Begin, Call
<1>4. s # "receipt"
  BY <1>3, Zenon
<1>5. PICK x : x = Begin(a, k, 0)
  BY Zenon
<1>6. CallOK(x, effects')
  BY <1>2, <1>3, <1>4, <1>5, MadeCall, Zenon
<1>7. Grow(store, store') /\ More(effects, effects', keys, keys')
  BY <1>1, Zenon DEF Grow, More
<1>8. call' = [call EXCEPT ![t]["user"] = x]
  BY <1>1, <1>5, Zenon
<1>9. CallShape' /\ CallsOK'
  BY <1>1, <1>6, <1>7, <1>8, CallStep, Zenon
<1> QED BY <1>1, <1>9, Zenon DEF OfflineInv, StoreOK, SyncedOK, Done, TabShape, ListsOK

\* A record enters the store.
LEMMA StoredStep ==
  ASSUME OfflineInv, NEW a \in Acts, NEW k \in ActionKinds, enqueueAction(a, k)
  PROVE  store' \in Seq(Records) /\ Grow(store, store') /\ SyncedOK(store', effects, keys)
<1> DEFINE rec == [act |-> a, kind |-> k, network |-> ecosystem, status |-> "pending"]
<1>1. store \in Seq(Records) /\ ecosystem \in Networks /\ SyncedOK(store, effects, keys)
  BY Zenon DEF OfflineInv, StoreOK
<1>2. rec \in Records /\ rec.status # "synced"
  <2>1. ecosystem \in Networks
    BY <1>1, Zenon
  <2>2. ASSUME NEW n \in Networks
        PROVE  [act |-> a, kind |-> k, network |-> n, status |-> "pending"] \in Records
    <3>1. "pending" \in Statuses
      BY Zenon DEF Statuses
    <3> QED BY <3>1, Zenon DEF Records
  <2>3. rec.status = "pending" /\ "pending" # "synced"
    BY Zenon
  <2> QED BY <2>1, <2>2, <2>3, Zenon
<1>3. store' = insertAction(store, rec)
  BY Zenon DEF enqueueAction
<1> HIDE DEF rec
<1> QED BY <1>1, <1>2, <1>3, EnqueueStep, Zenon

\* A draft is stored without a network.
LEMMA DraftStep ==
  ASSUME OfflineInv, NEW t \in Tabs, NEW a \in Acts, saveDraft(t, a)
  PROVE  OfflineInv'
<1>1. /\ tab' = tab /\ ecosystem' = ecosystem /\ effects' = effects /\ keys' = keys /\ call' = call
      /\ enqueueAction(a, "create-document-draft") /\ "create-document-draft" \in ActionKinds
  BY Zenon DEF saveDraft, ActionKinds
<1>2. store' \in Seq(Records) /\ Grow(store, store') /\ SyncedOK(store', effects, keys)
  BY <1>1, StoredStep, Zenon
<1>3. More(effects, effects', keys, keys')
  BY <1>1, Zenon DEF More
<1>4. CallShape' /\ CallsOK'
  BY <1>1, <1>2, <1>3, QuietStep, Zenon
<1>5. ListsOK'
  BY <1>1, <1>2, Zenon DEF OfflineInv, ListsOK, Grow
<1> QED BY <1>1, <1>2, <1>4, <1>5, Zenon DEF OfflineInv, StoreOK, SyncedOK, Done, TabShape

\* The catch of a proxied write stores the action or passes the error on.
LEMMA ProxiedStep ==
  ASSUME OfflineInv, NEW t \in Tabs, NEW w \in Callers, NEW kinds, NEW k \in ActionKinds,
         Proxied(t, w, kinds, k)
  PROVE  OfflineInv'
<1>0. PICK c : c = call[t][w]
  BY Zenon
<1>1. /\ c.stage = "thrown"
      /\ tab' = tab /\ ecosystem' = ecosystem /\ effects' = effects /\ keys' = keys
  BY <1>0, Zenon DEF Proxied
<1>2. /\ c = Call(c.stage, c.act, c.kind, c.id, c.receipt, c.err) /\ c.act \in Acts
      /\ c.kind \in ActionKinds
      /\ w = "drain" => c.id \in DOMAIN store /\ c.act = store[c.id].act /\ c.kind = store[c.id].kind
  <2>1. c.stage # "none"
    BY <1>1, Zenon
  <2> QED BY <1>0, <2>1, UnderWay, Zenon
<1>3. /\ \/ enqueueAction(c.act, k)
         \/ store' = store
      /\ \E e : call' = [call EXCEPT ![t][w] = Reject(c, e)]
  BY <1>0, Zenon DEF Proxied
<1>4. store' \in Seq(Records) /\ Grow(store, store') /\ SyncedOK(store', effects, keys)
  <2>1. CASE enqueueAction(c.act, k)
    BY <1>2, <2>1, StoredStep, Zenon
  <2>2. CASE store' = store
    BY <2>2, Zenon DEF Grow, OfflineInv, StoreOK
  <2> QED BY <1>3, <2>1, <2>2, Zenon
<1>5. PICK e, x : call' = [call EXCEPT ![t][w] = x] /\ x = Reject(c, e)
  BY <1>3, Zenon
<1>6. x = Call("rejected", c.act, c.kind, c.id, c.receipt, e) /\ "rejected" # "receipt" /\ "rejected" # "returned"
  <2>1. x = Call("rejected", c.act, c.kind, c.id, c.receipt, e)
    BY <1>2, <1>5, Moves, Zenon
  <2> QED BY <2>1, Zenon
<1>7. CallOK(x, effects')
  BY <1>2, <1>6, MadeCall, Zenon
<1>8. ASSUME w = "drain" PROVE DrainOK(x, store', effects', keys')
  <2>1. c.id \in DOMAIN store' /\ c.act = store'[c.id].act /\ c.kind = store'[c.id].kind
    BY <1>2, <1>4, <1>8, Zenon DEF Grow
  <2> QED BY <1>6, <2>1, MadeDrain, Zenon
<1>9. More(effects, effects', keys, keys')
  BY <1>1, Zenon DEF More
<1>10. CallShape' /\ CallsOK'
  BY <1>4, <1>5, <1>7, <1>8, <1>9, CallStep, Zenon
<1>11. ListsOK'
  BY <1>1, <1>4, Zenon DEF OfflineInv, ListsOK, Grow
<1> QED BY <1>1, <1>4, <1>10, <1>11, Zenon DEF OfflineInv, StoreOK, SyncedOK, Done, TabShape

\* A tab's record with another list, or with its list as it was.
LEMMA OneTab ==
  ASSUME TabShape, NEW t \in Tabs, NEW x, IsTab(x),
         tab' = [tab EXCEPT ![t] = x]
  PROVE  TabShape' /\ tab'[t] = x /\ \A u \in Tabs : u # t => tab'[u] = tab[u]
<1>1. tab = [u \in Tabs |-> tab[u]]
  BY Zenon DEF TabShape
<1>2. tab' = [u \in Tabs |-> tab'[u]] /\ tab'[t] = x /\ \A u \in Tabs : u # t => tab'[u] = tab[u]
  BY <1>1, Zenon
<1>3. ASSUME NEW u \in Tabs
      PROVE  IsTab(tab'[u])
  <2>1. CASE u = t
    BY <1>2, <2>1, Zenon
  <2>2. CASE u # t
    BY <1>2, <2>2, Zenon DEF TabShape
  <2> QED BY <2>1, <2>2, Zenon
<1> QED BY <1>2, <1>3, Zenon DEF TabShape

\* The tabs change in ways that no call and no record sees.
LEMMA TabsStep ==
  ASSUME OfflineInv, store' = store, call' = call, effects' = effects, keys' = keys,
         ecosystem' \in Networks,
         TabShape', ListsOK'
  PROVE  OfflineInv'
BY ZenonT(30) DEF OfflineInv, StoreOK, SyncedOK, Done, CallShape, CallsOK, CallOK, DrainOK

\* Setting one field of a tab's record leaves the list.
LEMMA OnlyTimer ==
  ASSUME NEW r, NEW n, IsTab(r),
         n = [r EXCEPT !.timer = TRUE]
  PROVE  IsTab(n) /\ n.list = r.list
BY Zenon DEF IsTab

\* scheduleReplay sets timers alone.
LEMMA ScheduleStep ==
  ASSUME OfflineInv, NEW ts,
         scheduleReplay(ts) PROVE TabShape' /\ \A t \in Tabs : tab'[t].list = tab[t].list
<1> DEFINE new(t) == IF t \in ts /\ tab[t].open THEN [tab[t] EXCEPT !.timer = TRUE] ELSE tab[t]
<1>1. tab' = [t \in Tabs |-> new(t)]
  BY Zenon DEF scheduleReplay
<1>2. ASSUME NEW t \in Tabs
      PROVE  /\ IsTab(new(t))
             /\ new(t).list = tab[t].list
  <2>1. PICK r : r = tab[t]
    BY Zenon
  <2>2. IsTab(r)
    BY <2>1, Zenon DEF OfflineInv, TabShape
  <2>3. new(t) = [r EXCEPT !.timer = TRUE] \/ new(t) = r
    BY <2>1, Zenon
  <2> HIDE DEF new
  <2> QED BY <2>1, <2>2, <2>3, OnlyTimer, Zenon
<1> HIDE DEF new
<1>3. \A t \in Tabs : tab'[t] = new(t)
  BY <1>1, Zenon
<1>4. tab' = [t \in Tabs |-> tab'[t]]
  BY <1>1, Zenon
<1> QED BY <1>2, <1>3, <1>4, Zenon DEF TabShape

\* A tab closes, with its calls.
LEMMA CloseStep == ASSUME OfflineInv, NEW t \in Tabs, CloseTab(t) PROVE OfflineInv'
<1>1. /\ store' = store /\ effects' = effects /\ keys' = keys /\ ecosystem' = ecosystem
      /\ tab' = [tab EXCEPT ![t] = Closed]
      /\ call' = [call EXCEPT ![t] = [c \in Callers |-> NoCall]]
  BY Zenon DEF CloseTab
<1>2. IsTab(Closed)
      /\ Closed.list = {}
  BY Zenon DEF Closed, IsTab
<1>3. TabShape
  BY Zenon DEF OfflineInv
<1>4. TabShape' /\ tab'[t] = Closed /\ \A u \in Tabs : u # t => tab'[u] = tab[u]
  BY <1>1, <1>2, <1>3, OneTab, Zenon
<1>5. ListsOK'
  BY <1>1, <1>2, <1>4, Zenon DEF OfflineInv, ListsOK
<1>6. /\ CallShape' /\ \A w \in Callers : call'[t][w] = NoCall
      /\ \A u \in Tabs : u # t => call'[u] = call[u]
  <2>1. CallShape
    BY Zenon DEF OfflineInv
  <2> QED BY <1>1, <2>1, Zenon DEF CallShape
<1>7. "drain" \in Callers
  BY Zenon DEF Callers
<1>8. CallsOK'
  <2>1. ASSUME NEW u \in Tabs, NEW w \in Callers PROVE CallOK(call'[u][w], effects')
    <3>1. CASE u = t
      BY <1>6, <3>1, Zenon DEF CallOK
    <3>2. CASE u # t
      BY <1>1, <1>6, <3>2, Zenon DEF OfflineInv, CallsOK
    <3> QED BY <3>1, <3>2, Zenon
  <2>2. ASSUME NEW u \in Tabs PROVE DrainOK(call'[u]["drain"], store', effects', keys')
    BY <1>1, <1>6, <1>7, ZenonT(30) DEF OfflineInv, CallsOK, DrainOK
  <2> QED BY <2>1, <2>2, Zenon DEF CallsOK
<1> QED BY <1>1, <1>4, <1>5, <1>6, <1>8, Zenon DEF OfflineInv, StoreOK, SyncedOK, Done

\* A tab's record with another list.
LEMMA OnlyList ==
  ASSUME NEW r, NEW n, NEW l, IsTab(r),
         n = [r EXCEPT !.list = l]
  PROVE  IsTab(n) /\ n.list = l
BY Zenon DEF IsTab

\* drainQueue takes a record: the call it begins carries the record's act and kind.
LEMMA TakeStep ==
  ASSUME OfflineInv, NEW t \in Tabs, NEW id \in tab[t].list, setActionStatus(id, "processing"),
         call' = [call EXCEPT ![t].drain = Begin(store[id].act, store[id].kind, id)],
         tab' = [tab EXCEPT ![t].list = @ \ {id}],
         ecosystem' = ecosystem, effects' = effects, keys' = keys
  PROVE  OfflineInv'
<1>1. /\ store \in Seq(Records) /\ id \in DOMAIN store /\ SyncedOK(store, effects, keys)
      /\ TabShape /\ "drain" \in Callers
  BY Zenon DEF OfflineInv, StoreOK, ListsOK, Callers
<1>2. store' = updateAction(store, id, "processing") /\ "processing" \in Statuses /\ "processing" # "synced"
  <2>1. "processing" \in Statuses /\ "processing" # "synced"
    BY Zenon DEF Statuses
  <2> QED BY <2>1, Zenon DEF setActionStatus
<1>3. /\ store' \in Seq(Records) /\ DOMAIN store' = DOMAIN store /\ Grow(store, store')
      /\ store'[id].status = "processing"
      /\ \A i \in DOMAIN store : i # id => store'[i] = store[i]
  BY <1>1, <1>2, StatusStep, ZenonT(30)
<1>4. SyncedOK(store', effects', keys')
  BY <1>1, <1>2, <1>3, Zenon DEF SyncedOK
<1>5. PICK a, k : a = store[id].act /\ k = store[id].kind
  BY Zenon
<1>6. a \in Acts /\ k \in ActionKinds
  <2>1. store[id] \in Records
    BY <1>1
  <2> QED BY <1>5, <2>1, Zenon DEF Records
<1>7. PICK c : c = Begin(a, k, id)
  BY Zenon
<1>8. /\ c = [stage |-> c.stage, act |-> c.act, kind |-> c.kind, id |-> c.id,
              receipt |-> c.receipt, err |-> c.err]
      /\ c.act = a /\ c.kind = k /\ c.id = id /\ c.stage # "receipt" /\ c.stage # "returned"
  BY <1>7, Zenon DEF Begin
<1>9. CallOK(c, effects')
  BY <1>6, <1>8, Zenon DEF CallOK
<1>10. DrainOK(c, store', effects', keys')
  BY <1>1, <1>3, <1>5, <1>8, Zenon DEF DrainOK, Grow
<1>11. More(effects, effects', keys, keys')
  BY Zenon DEF More
<1>12. call' = [call EXCEPT ![t]["drain"] = c]
  BY <1>5, <1>7, Zenon
<1>13. CallShape' /\ CallsOK'
  BY <1>1, <1>3, <1>9, <1>10, <1>11, <1>12, CallStep, Zenon
<1>14. PICK x : x = [tab[t] EXCEPT !.list = tab[t].list \ {id}]
  BY Zenon
<1>15. tab' = [tab EXCEPT ![t] = x]
  BY <1>14, Zenon
<1>16. /\ IsTab(x) /\ x.list = tab[t].list \ {id}
  <2>1. PICK r, l : r = tab[t] /\ l = tab[t].list \ {id}
    BY Zenon
  <2>2. IsTab(r)
    BY <1>1, <2>1, Zenon DEF TabShape
  <2>3. x = [r EXCEPT !.list = l]
    BY <1>14, <2>1, Zenon
  <2>4. IsTab(x) /\ x.list = l
    BY <2>2, <2>3, OnlyList, Zenon
  <2> QED BY <2>1, <2>4, Zenon
<1>17. TabShape' /\ tab'[t] = x /\ \A u \in Tabs : u # t => tab'[u] = tab[u]
  BY <1>1, <1>15, <1>16, OneTab, Zenon
<1>18. ListsOK'
  BY <1>3, <1>16, <1>17, Zenon DEF OfflineInv, ListsOK
<1> QED BY <1>3, <1>4, <1>13, <1>17, <1>18, Zenon DEF OfflineInv, StoreOK

\* settleAction marks a record synced only when its call returned.
LEMMA SettleStep == ASSUME OfflineInv, NEW t \in Tabs, settleAction(t) PROVE OfflineInv'
<1>1. store \in Seq(Records) /\ SyncedOK(store, effects, keys) /\ TabShape /\ "drain" \in Callers
  BY Zenon DEF OfflineInv, StoreOK, ListsOK, Callers
<1>2. PICK c : c = call[t]["drain"]
  BY Zenon
<1>3. PICK status, l :
         /\ status \in Statuses /\ c.stage \in {"returned", "rejected"}
         /\ status = "synced" => c.stage = "returned"
         /\ store' = updateAction(store, c.id, status)
         /\ call' = [call EXCEPT ![t]["drain"] = NoCall]
         /\ l \subseteq tab[t].list /\ tab' = [tab EXCEPT ![t].list = l]
         /\ ecosystem' = ecosystem /\ effects' = effects /\ keys' = keys
  <2> DEFINE offline == c.stage = "rejected" /\ isNetworkFailure(c.err)
             st == IF c.stage = "returned" THEN "synced" ELSE IF offline THEN "pending" ELSE "failed"
             li == IF offline THEN {} ELSE tab[t].list
  <2>1. /\ c.stage \in {"returned", "rejected"} /\ store' = updateAction(store, c.id, st)
        /\ call' = [call EXCEPT ![t]["drain"] = NoCall] /\ tab' = [tab EXCEPT ![t].list = li]
        /\ ecosystem' = ecosystem /\ effects' = effects /\ keys' = keys
    BY <1>2, Zenon DEF settleAction, setActionStatus
  <2>2. st \in Statuses /\ (st = "synced" => c.stage = "returned")
    <3> HIDE DEF offline
    <3> QED BY Zenon DEF Statuses
  <2>3. li \subseteq tab[t].list
    BY Zenon
  <2> HIDE DEF offline, st, li
  <2> QED BY <2>1, <2>2, <2>3, Zenon
<1>4. c # NoCall
  BY <1>3 DEF NoCall
<1>5. PICK id : id = c.id
  BY Zenon
<1>6. /\ id \in DOMAIN store /\ c.act = store[id].act /\ c.kind = store[id].kind
      /\ c.stage = "returned" => Done(c.act, c.kind, effects, keys)
  BY <1>2, <1>4, <1>5, Zenon DEF OfflineInv, CallsOK, DrainOK
<1>7. /\ store' \in Seq(Records) /\ DOMAIN store' = DOMAIN store /\ Grow(store, store')
      /\ store'[id].status = status
      /\ \A i \in DOMAIN store : i # id => store'[i] = store[i]
  <2>1. store' = updateAction(store, id, status) /\ status \in Statuses
    BY <1>3, <1>5, Zenon
  <2> QED BY <1>1, <1>6, <2>1, StatusStep, ZenonT(30)
<1>8. SyncedOK(store', effects', keys')
  <2> SUFFICES ASSUME NEW i \in DOMAIN store', store'[i].status = "synced"
               PROVE  Done(store'[i].act, store'[i].kind, effects', keys')
    BY Zenon DEF SyncedOK
  <2>1. CASE i = id
    BY <1>3, <1>6, <1>7, <2>1, Zenon DEF Grow
  <2>2. CASE i # id
    BY <1>1, <1>3, <1>7, <2>2, Zenon DEF SyncedOK
  <2> QED BY <2>1, <2>2, Zenon
<1>9. CallOK(NoCall, effects') /\ DrainOK(NoCall, store', effects', keys') /\ More(effects, effects', keys, keys')
  BY <1>3, Zenon DEF CallOK, DrainOK, More
<1>10. CallShape' /\ CallsOK'
  BY <1>1, <1>3, <1>7, <1>9, CallStep, Zenon
<1>11. PICK x : x = [tab[t] EXCEPT !.list = l]
  BY Zenon
<1>12. tab' = [tab EXCEPT ![t] = x]
  BY <1>3, <1>11, Zenon
<1>13. /\ IsTab(x) /\ x.list = l
  <2>1. PICK r : r = tab[t]
    BY Zenon
  <2>2. IsTab(r)
    BY <1>1, <2>1, Zenon DEF TabShape
  <2>3. x = [r EXCEPT !.list = l]
    BY <1>11, <2>1, Zenon
  <2> QED BY <2>2, <2>3, OnlyList, Zenon
<1>14. TabShape' /\ tab'[t] = x /\ \A u \in Tabs : u # t => tab'[u] = tab[u]
  BY <1>1, <1>12, <1>13, OneTab, Zenon
<1>15. ListsOK'
  BY <1>3, <1>7, <1>13, <1>14, Zenon DEF OfflineInv, ListsOK
<1> QED BY <1>3, <1>7, <1>8, <1>10, <1>14, <1>15, Zenon DEF OfflineInv, StoreOK

\* Ending a drain leaves the list.
LEMMA OnlyDraining ==
  ASSUME NEW r, NEW n, IsTab(r),
         n = [r EXCEPT !.draining = FALSE]
  PROVE  IsTab(n) /\ n.list = r.list
BY Zenon DEF IsTab

\* One tab's record changes, and its list stays a list of stored records.
LEMMA TabStep ==
  ASSUME OfflineInv, NEW t \in Tabs, NEW x, IsTab(x),
         tab' = [tab EXCEPT ![t] = x], x.list \subseteq DOMAIN store,
         store' = store, call' = call, effects' = effects, keys' = keys, ecosystem' = ecosystem
  PROVE  OfflineInv'
<1>1. TabShape /\ ecosystem \in Networks
  BY Zenon DEF OfflineInv, StoreOK
<1>2. TabShape' /\ tab'[t] = x /\ \A u \in Tabs : u # t => tab'[u] = tab[u]
  BY <1>1, OneTab, Zenon
<1>3. ListsOK'
  BY <1>2, Zenon DEF OfflineInv, ListsOK
<1> QED BY <1>1, <1>2, <1>3, TabsStep, Zenon

\* drainQueue takes the next record, or ends.
LEMMA DrainStep == ASSUME OfflineInv, NEW t \in Tabs, drainQueue(t) PROVE OfflineInv'
<1>1. /\ ecosystem' = ecosystem /\ effects' = effects /\ keys' = keys
  BY Zenon DEF drainQueue
<1>2. CASE tab' = [tab EXCEPT ![t].draining = FALSE] /\ UNCHANGED <<store, call>>
  <2>1. PICK r, x : r = tab[t] /\ x = [r EXCEPT !.draining = FALSE]
    BY Zenon
  <2>2. IsTab(r) /\ r.list \subseteq DOMAIN store
    BY <2>1, Zenon DEF OfflineInv, TabShape, ListsOK
  <2>3. IsTab(x) /\ x.list = r.list
    <3>1. x = [r EXCEPT !.draining = FALSE]
      BY <2>1, Zenon
    <3> QED BY <2>2, <3>1, OnlyDraining, Zenon
  <2>4. tab' = [tab EXCEPT ![t] = x] /\ store' = store /\ call' = call
    BY <1>2, <2>1, Zenon
  <2> QED BY <1>1, <2>2, <2>3, <2>4, TabStep, Zenon
<1>3. CASE \E id \in tab[t].list :
             /\ setActionStatus(id, "processing")
             /\ call' = [call EXCEPT ![t].drain = Begin(store[id].act, store[id].kind, id)]
             /\ tab' = [tab EXCEPT ![t].list = @ \ {id}]
  BY <1>1, <1>3, TakeStep, Zenon
<1> QED BY <1>2, <1>3, Zenon DEF drainQueue

\* A tab opens.
LEMMA InitStep == ASSUME OfflineInv, NEW t \in Tabs, initOfflineLayer(t) PROVE OfflineInv'
<1>1. PICK x : x = [Closed EXCEPT !.open = TRUE, !.timer = TRUE]
  BY Zenon
<1>2. IsTab(x) /\ x.list = {}
  BY <1>1, Zenon DEF Closed, IsTab
<1>3. /\ tab' = [tab EXCEPT ![t] = x] /\ x.list \subseteq DOMAIN store
      /\ store' = store /\ call' = call /\ effects' = effects /\ keys' = keys
      /\ ecosystem' = ecosystem
  BY <1>1, <1>2, Zenon DEF initOfflineLayer
<1> QED BY <1>2, <1>3, TabStep, Zenon

\* replayPendingActions lists records of the store.
LEMMA ReplayStep == ASSUME OfflineInv, NEW t \in Tabs, replayPendingActions(t) PROVE OfflineInv'
<1> DEFINE drains == ~tab[t].draining /\ isOnline /\ getQueuedActions # {}
<1>1. PICK d, l : d = (tab[t].draining \/ drains) /\ l = (IF drains THEN getQueuedActions ELSE tab[t].list)
  BY Zenon
<1>2. l \subseteq DOMAIN store
  <2>1. tab[t].list \subseteq DOMAIN store /\ getQueuedActions \subseteq DOMAIN store
    BY Zenon DEF OfflineInv, ListsOK, getQueuedActions, listActionsByStatus
  <2> QED BY <1>1, <2>1, Zenon
<1>3. PICK x : x = [open |-> TRUE, timer |-> FALSE, draining |-> d, list |-> l]
  BY Zenon
<1>4. IsTab(x) /\ x.list = l
  BY ONLY <1>3, Zenon DEF IsTab
<1>5. /\ tab' = [tab EXCEPT ![t] = x]
      /\ store' = store /\ call' = call /\ effects' = effects /\ keys' = keys
      /\ ecosystem' = ecosystem
  BY <1>1, <1>3, Zenon DEF replayPendingActions
<1> QED BY <1>2, <1>4, <1>5, TabStep, Zenon

\* A step that sets timers alone.
LEMMA TimersStep ==
  ASSUME OfflineInv, NEW ts, scheduleReplay(ts), store' = store, call' = call, effects' = effects,
         keys' = keys,
         ecosystem' = ecosystem
  PROVE  OfflineInv'
<1>1. TabShape' /\ (\A t \in Tabs : tab'[t].list = tab[t].list) /\ ecosystem' \in Networks
  BY ScheduleStep, Zenon DEF OfflineInv, StoreOK
<1>2. ListsOK'
  BY <1>1, Zenon DEF OfflineInv, ListsOK
<1> QED BY <1>1, <1>2, TabsStep, Zenon

\* The invariant holds at first.
LEMMA OfflineStarts == OfflineInit => OfflineInv
<1> SUFFICES ASSUME OfflineInit PROVE OfflineInv
  BY Zenon
<1>1. StoreOK
  <2>1. store \in Seq(Records) /\ effects \in [Acts -> SUBSET Networks]
    BY DEF OfflineInit
  <2>2. ecosystem \in Networks
    BY Zenon DEF OfflineInit, Networks
  <2> QED BY <2>1, <2>2, Zenon DEF StoreOK
<1>2. DOMAIN store = {}
  BY DEF OfflineInit
<1>3. SyncedOK(store, effects, keys)
  BY <1>2, Zenon DEF SyncedOK
<1>4. \A t \in Tabs, w \in Callers : call[t][w] = NoCall
  BY Zenon DEF OfflineInit
<1>5. "drain" \in Callers
  BY Zenon DEF Callers
<1>6. CallsOK
  BY <1>4, <1>5, Zenon DEF CallsOK, CallOK, DrainOK
<1>7. CallShape
  BY <1>4, Zenon DEF CallShape, OfflineInit
<1>8. \A t \in Tabs : tab[t] = Closed
  BY Zenon DEF OfflineInit
<1>9. TabShape
  <2>1. IsTab(Closed)
    BY Zenon DEF Closed, IsTab
  <2>2. tab = [t \in Tabs |-> tab[t]]
    BY Zenon DEF OfflineInit
  <2> QED BY <1>8, <2>1, <2>2, Zenon DEF TabShape
<1>10. ListsOK
  <2>1. Closed.list = {}
    BY Zenon DEF Closed, IsTab
  <2> QED BY <1>8, <2>1, Zenon DEF ListsOK
<1> QED BY <1>1, <1>3, <1>6, <1>7, <1>9, <1>10, Zenon DEF OfflineInv

\* Every step keeps the invariant.
LEMMA OfflineSteps == OfflineInv /\ [OfflineNext]_offlineVars => OfflineInv'
<1> SUFFICES ASSUME OfflineInv, [OfflineNext]_offlineVars PROVE OfflineInv'
  BY Zenon
<1>1. ecosystem \in Networks
  BY Zenon DEF OfflineInv, StoreOK
<1>2. CASE Disconnect \/ UNCHANGED offlineVars
  <2>1. /\ store' = store /\ call' = call /\ effects' = effects /\ keys' = keys
        /\ tab' = tab /\ ecosystem' = ecosystem
    BY <1>2, Zenon DEF Disconnect, offlineVars
  <2>2. TabShape' /\ ListsOK'
    BY <2>1, Zenon DEF OfflineInv, TabShape, ListsOK
  <2> QED BY <1>1, <2>1, <2>2, TabsStep, Zenon
<1>3. CASE SwitchEcosystem
  <2>1. /\ store' = store /\ call' = call /\ effects' = effects /\ keys' = keys
        /\ tab' = tab /\ ecosystem' \in Networks
    BY <1>3, Zenon DEF SwitchEcosystem
  <2>2. TabShape' /\ ListsOK'
    BY <2>1, Zenon DEF OfflineInv, TabShape, ListsOK
  <2> QED BY <2>1, <2>2, TabsStep, Zenon
<1>4. CASE onlineEvent \/ broadcastReplayRequest
  <2>1. /\ scheduleReplay(Tabs)
        /\ store' = store /\ call' = call /\ effects' = effects /\ keys' = keys
        /\ ecosystem' = ecosystem
    BY <1>4, Zenon DEF onlineEvent, broadcastReplayRequest
  <2> QED BY <2>1, TimersStep, Zenon
<1>5. ASSUME NEW t \in Tabs, syncNow(t) PROVE OfflineInv'
  <2>1. /\ scheduleReplay({t})
        /\ store' = store /\ call' = call /\ effects' = effects /\ keys' = keys
        /\ ecosystem' = ecosystem
    BY <1>5, Zenon DEF syncNow
  <2> QED BY <2>1, TimersStep, Zenon
<1>6. ASSUME NEW t \in Tabs, initOfflineLayer(t) \/ CloseTab(t) \/ answered(t) \/ uploadDraft(t)
      PROVE  OfflineInv'
  BY <1>6, InitStep, CloseStep, AnsweredStep, UploadStep, Zenon
<1>7. ASSUME NEW t \in Tabs, replayPendingActions(t) \/ drainQueue(t) \/ settleAction(t)
      PROVE  OfflineInv'
  BY <1>7, ReplayStep, DrainStep, SettleStep, Zenon
<1>8. ASSUME NEW t \in Tabs, NEW a \in Acts, saveDraft(t, a) \/ \E k \in KindsOf[a] : ask(t, a, k)
      PROVE  OfflineInv'
  BY <1>8, DraftStep, AskStep, Zenon
<1>9. ASSUME NEW t \in Tabs, NEW who \in Callers, submit(t, who) \/ waitForReceipt(t, who)
      PROVE  OfflineInv'
  BY <1>9, SubmitStep, ReceiptStep, Zenon
<1>10. ASSUME NEW t \in Tabs, NEW who \in Callers,
              \/ proxiedCreateVault(t, who) \/ proxiedAddDocument(t, who)
              \/ proxiedRequestAccess(t, who) \/ proxiedRegisterPublicKey(t, who)
       PROVE  OfflineInv'
  <2>1. /\ "create-vault" \in ActionKinds /\ "add-document" \in ActionKinds
        /\ "request-access" \in ActionKinds /\ "register-public-key" \in ActionKinds
    BY Zenon DEF ActionKinds
  <2>2. CASE proxiedCreateVault(t, who)
    BY <2>1, <2>2, ProxiedStep, Zenon DEF proxiedCreateVault
  <2>3. CASE proxiedAddDocument(t, who)
    BY <2>1, <2>3, ProxiedStep, Zenon DEF proxiedAddDocument
  <2>4. CASE proxiedRequestAccess(t, who)
    BY <2>1, <2>4, ProxiedStep, Zenon DEF proxiedRequestAccess
  <2>5. CASE proxiedRegisterPublicKey(t, who)
    BY <2>1, <2>5, ProxiedStep, Zenon DEF proxiedRegisterPublicKey
  <2> QED BY <1>10, <2>2, <2>3, <2>4, <2>5
<1> QED BY <1>2, <1>3, <1>4, <1>5, <1>6, <1>7, <1>8, <1>9, <1>10, ZenonT(30) DEF OfflineNext

\* A record the queue marks synced is done, for any number of tabs, acts, records, closed tabs,
\* disconnections and network switches: drainQueue marks it after its executor has looked at the
\* receipt of a transaction that took effect.
THEOREM QueueIsHonest == OfflineSpec => []SyncedMeansDone
<1>1. OfflineInv => SyncedMeansDone
  BY Zenon DEF OfflineInv, SyncedOK, Done, SyncedMeansDone
<1> QED BY <1>1, OfflineStarts, OfflineSteps, PTL DEF OfflineSpec
=============================================================================
