--------------------------- MODULE BrowserHelpers ----------------------------
(***************************************************************************)
(* What runs beside the pages of the browser: the automatic session lock   *)
(* and the web workers.                                                    *)
(***************************************************************************)
EXTENDS Integers, Sequences
(***************************************************************************)
(* The automatic session lock of one page: the lock managers               *)
(* (src/services/sessionLock.service.ts) as the React hook that owns them  *)
(* creates, replaces and forgets them (src/hooks/useSessionLock.ts,        *)
(* components/SessionLockGate.tsx).  A key is unlocked on a page or in the *)
(* lock dialog; either takes a while, and the wallet may change meanwhile. *)
(***************************************************************************)

CONSTANTS LockAccounts, MAX_MANAGERS

VARIABLES
    wallet,                   \* the connected account, or "none"
    unlocked,                 \* accounts in the session key cache
    managers,                 \* the managers made so far: each [for, running]
    managerRef,               \* the number of the one the hook holds, or 0
    lockedAccounts,           \* what the lock dialog shows
    reviving                  \* handleUnlock under way: [for, of], its accounts and its closure's account

lockVars == <<wallet, unlocked, managers, managerRef, lockedAccounts, reviving>>
NoRevival == [for |-> {}, of |-> "none"]

SessionLockInit ==
    /\ wallet = "none" /\ unlocked = {} /\ managers = <<>> /\ managerRef = 0
    /\ lockedAccounts = {} /\ reviving = NoRevival

\* stop of manager n, nothing for 0.
stopManager(n, ms) == [k \in DOMAIN ms |-> IF k = n THEN [ms[k] EXCEPT !.running = FALSE] ELSE ms[k]]

\* Mutant: the manager held so far is not stopped.
startManager_leaks(a) ==
    /\ Len(managers) < MAX_MANAGERS
    /\ managers' = Append(managers, [for |-> a, running |-> TRUE])
    /\ managerRef' = Len(managers')

\* The hook's start, with the account its closure saw.
startManager(a) ==
    /\ Len(managers) < MAX_MANAGERS
    /\ managers' = Append(stopManager(managerRef, managers), [for |-> a, running |-> TRUE])
    /\ managerRef' = Len(managers')

\* The effect on the account: the clean-up of the last one, then start.
changeAccount(a) ==
    /\ a # wallet /\ wallet' = a
    /\ IF a = "none" THEN managers' = stopManager(managerRef, managers) /\ managerRef' = 0
       ELSE startManager(a)
    /\ UNCHANGED <<unlocked, lockedAccounts, reviving>>

\* A page unlocks the account's key, or locks it.
unlockOnPage ==
    /\ wallet # "none" /\ wallet \notin unlocked /\ unlocked' = unlocked \cup {wallet}
    /\ UNCHANGED <<wallet, managers, managerRef, lockedAccounts, reviving>>

\* The idle timer, visibilitychange or blur reaches a running manager.
lockNow(n) ==
    /\ managers[n].running /\ managers[n].for \in unlocked
    /\ unlocked' = {} /\ managers' = stopManager(n, managers)
    /\ lockedAccounts' = {managers[n].for}
    /\ UNCHANGED <<wallet, managerRef, reviving>>

handleDismiss ==
    /\ lockedAccounts # {} /\ lockedAccounts' = {}
    /\ UNCHANGED <<wallet, unlocked, managers, managerRef, reviving>>

\* handleUnlock up to its await, and after it.
handleUnlock ==
    /\ lockedAccounts # {} /\ reviving = NoRevival
    /\ reviving' = [for |-> lockedAccounts, of |-> wallet]
    /\ UNCHANGED <<wallet, unlocked, managers, managerRef, lockedAccounts>>
revived ==
    /\ reviving # NoRevival /\ reviving' = NoRevival
    /\ \/ /\ unlocked' = unlocked \cup reviving.for /\ lockedAccounts' = {}
          /\ startManager(reviving.of)
       \/ UNCHANGED <<unlocked, lockedAccounts, managers, managerRef>>   \* a wrong PIN
    /\ UNCHANGED wallet

SessionLockNext ==
    \/ \E a \in LockAccounts \cup {"none"} : changeAccount(a)
    \/ unlockOnPage \/ handleDismiss \/ handleUnlock \/ revived
    \/ \E n \in DOMAIN managers : lockNow(n)

SessionLockSpec == SessionLockInit /\ [][SessionLockNext]_lockVars
-----------------------------------------------------------------------------
\* However wallet changes, automatic locks, dismissals and unlocks under way fall together, only
\* the manager the hook holds listens: none is left behind with its timer and its listeners.
OneWatcher == \A n \in DOMAIN managers : managers[n].running => n = managerRef
------------------------------------------------------------------------------
(***************************************************************************)
(* The web workers: the pool of CryptoWorkerService over crypto.worker.ts, *)
(* Argon2WorkerService over argon2.worker.ts, and CryptoClientService.     *)
(* A call is a promise; its payload is a model value and the right answer  *)
(* to it is the payload.  A worker's handler is asynchronous, so the       *)
(* answers to two messages may come in either order.                       *)
(***************************************************************************)
CONSTANTS Payloads, POOL_SIZE, MAX_CALLS,
    MAY_TERMINATE             \* whether terminate is called

VARIABLES
    poolUp, argonUp,          \* the workers exist
    nextWorkerIndex,
    calls,                    \* the promises: [service, payload, outcome]
    posted,                   \* messages in a worker: [worker, call]
    replies,                  \* messages back: [call, answer]
    hashCallback              \* the call whose resolve CryptoClientService last installed

ArgonWorker == POOL_SIZE       \* the pool's are 0 .. POOL_SIZE - 1
HashWorker == POOL_SIZE + 1
workerVars == <<poolUp, argonUp, nextWorkerIndex, calls, posted, replies, hashCallback>>

WorkersInit ==
    /\ poolUp \in BOOLEAN /\ argonUp \in BOOLEAN          \* initWorkers and initWorker may fail
    /\ nextWorkerIndex = 0 /\ calls = <<>> /\ posted = {} /\ replies = {} /\ hashCallback = 0

NewCall(service, p, outcome) ==
    /\ Len(calls) < MAX_CALLS
    /\ calls' = Append(calls, [service |-> service, payload |-> p, outcome |-> outcome])

\* encryptAsync, decryptAsync, splitSecretVSSAsync, reencryptEnvelopeAsync: on the main thread
\* when there is no worker, else in the next one of the pool.
poolCall(p) ==
    /\ IF poolUp THEN /\ NewCall("pool", p, "pending")
                      /\ posted' = posted \cup {[worker |-> nextWorkerIndex, call |-> Len(calls')]}
                      /\ nextWorkerIndex' = (nextWorkerIndex + 1) % POOL_SIZE
       ELSE NewCall("pool", p, p) /\ UNCHANGED <<posted, nextWorkerIndex>>
    /\ UNCHANGED <<poolUp, argonUp, replies, hashCallback>>

deriveKeyBytesAsync(p) ==
    /\ IF argonUp THEN /\ NewCall("argon", p, "pending")
                       /\ posted' = posted \cup {[worker |-> ArgonWorker, call |-> Len(calls')]}
       ELSE NewCall("argon", p, p) /\ UNCHANGED posted
    /\ UNCHANGED <<poolUp, argonUp, nextWorkerIndex, replies, hashCallback>>

\* computeHash replaces the worker's onmessage.
computeHash(p) ==
    /\ NewCall("hash", p, "pending") /\ hashCallback' = Len(calls')
    /\ posted' = posted \cup {[worker |-> HashWorker, call |-> Len(calls')]}
    /\ UNCHANGED <<poolUp, argonUp, nextWorkerIndex, replies>>

Reply(x, answers) ==
    /\ posted' = posted \ {x} /\ \E a \in answers : replies' = replies \cup {[call |-> x.call, answer |-> a]}
    /\ UNCHANGED <<poolUp, argonUp, nextWorkerIndex, calls, hashCallback>>

\* crypto.worker.ts assigns self.onmessage twice; the second handler knows COMPUTE_HASH only.
cryptoOnMessage(x) ==
    /\ x.worker # ArgonWorker
    /\ IF x.worker = HashWorker THEN Reply(x, {calls[x.call].payload})
       ELSE posted' = posted \ {x} /\ UNCHANGED <<poolUp, argonUp, nextWorkerIndex, calls, replies, hashCallback>>

argonOnMessage(x) == x.worker = ArgonWorker /\ Reply(x, {calls[x.call].payload, "error"})

\* Mutant: an answer settles the oldest call that waits.
Settles_oldest(r) ==
    CHOOSE n \in DOMAIN calls : calls[n].service = calls[r.call].service /\ calls[n].outcome = "pending"
        /\ \A k \in 1..(n - 1) : ~(calls[k].service = calls[n].service /\ calls[k].outcome = "pending")

\* The call an answer settles: by id, or whichever computeHash was called last.
Settles(r) == IF calls[r.call].service = "hash" THEN hashCallback ELSE r.call

\* A promise is settled once.
Settled(c, answer) == [c EXCEPT !.outcome = IF @ = "pending" THEN answer ELSE @]

workerOnMessage(r) ==
    /\ replies' = replies \ {r}
    /\ calls' = [calls EXCEPT ![Settles(r)] = Settled(@, r.answer)]
    /\ UNCHANGED <<poolUp, argonUp, nextWorkerIndex, posted, hashCallback>>

\* terminate of either service: the workers are gone, the calls they had stay pending.
terminate ==
    /\ MAY_TERMINATE
    /\ \/ poolUp /\ poolUp' = FALSE /\ UNCHANGED argonUp /\ posted' = {x \in posted : x.worker >= POOL_SIZE}
       \/ argonUp /\ argonUp' = FALSE /\ UNCHANGED poolUp /\ posted' = {x \in posted : x.worker # ArgonWorker}
    /\ UNCHANGED <<nextWorkerIndex, calls, replies, hashCallback>>

WorkerStep == (\E x \in posted : cryptoOnMessage(x) \/ argonOnMessage(x)) \/ (\E r \in replies : workerOnMessage(r))
WorkersNext == (\E p \in Payloads : poolCall(p) \/ deriveKeyBytesAsync(p) \/ computeHash(p)) \/ WorkerStep \/ terminate

\* The browser runs a worker's handlers and the page's.
WorkersSpec == WorkersInit /\ [][WorkersNext]_workerVars /\ WF_workerVars(WorkerStep)
-----------------------------------------------------------------------------
\* Whatever order the answers come in, a call of the pool or of the key derivation that resolves
\* gets the answer to its own payload (pendingRequests by id in both services).
OwnAnswer == \A n \in DOMAIN calls : calls[n].service # "hash" => calls[n].outcome \in {"pending", "error", calls[n].payload}

\* No helper is left behind or mixed up: only the session manager the hook holds keeps its timer and
\* listeners, and a worker's answer goes to the call it answers (useSessionLock.ts,
\* cryptoWorker.service.ts, argon2 worker).
HelpersStayMatched == OneWatcher /\ OwnAnswer
==============================================================================
