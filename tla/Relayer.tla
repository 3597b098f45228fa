------------------------------- MODULE Relayer ------------------------------
(***************************************************************************)
(* The guardian notification relayer (relayer/): two chain listeners, the  *)
(* contact resolver, the durable job queue and the notifier, in one        *)
(* process that may crash, be stopped and be started again.                *)
(*                                                                         *)
(* Every EVM block carries one AccessRequested event; the Soroban log      *)
(* holds entries of several kinds.  A job is one notification of one       *)
(* guardian; its text and its encryption are left out, except that a       *)
(* contact with a malformed key makes buildJobs throw.  A back-off is a    *)
(* flag: the job is due again some time later.                             *)
(***************************************************************************)
EXTENDS Integers, Sequences, FiniteSets, SequencesExt
CONSTANTS
    LOG,               \* kinds of the Soroban entries: "access", "other", "bare" (no token)
    Answers,           \* what the contact registry may answer: sequences of contacts
    Configured,        \* channels the relayer has credentials for
    START_BLOCK,       \* RELAYER_EVM_START_BLOCK, 0 when unset
    SWEEP, PAGE,       \* blocks per sweep (5000), events per page (100)
    MAX_ATTEMPTS, MAX_COMPLETED, MAX_DEAD,
    MAX_BLOCK, MAX_FAULTS

ASSUME RelayerConstants ==
    /\ SWEEP > 0 /\ PAGE > 0 /\ MAX_ATTEMPTS > 0
    /\ \A a \in Answers : \A i \in DOMAIN a :
          DOMAIN a[i] = {"guardian", "channels", "badKey"}

VARIABLES
    process,           \* "down", "up" or "stopping"
    head, logged,      \* blocks mined, Soroban entries emitted
    lastBlock, sweepTo,\* the EVM cursor; the end of the sweep under way, 0 if none
    cursor,            \* the Soroban cursor, 0 if unset
    seen,              \* MultiChainListener.seen
    resolving,         \* events whose contacts are being fetched
    queue,             \* the queue's state in memory: jobs, completedIds, dead
    disk,              \* the queue's journal
    inFlight,          \* the job being handled, or NoFlight
    dispatches,        \* history: handler calls per job id
    forgotten,         \* history: ids the capped lists dropped
    unresolved,        \* history: events whose resolution failed
    faults             \* failures so far (bounds the model)

listenerVars == <<lastBlock, sweepTo, cursor, seen>>
historyVars  == <<dispatches, forgotten, unresolved>>
relayerVars  == <<process, head, logged, listenerVars, resolving, queue, disk, inFlight,
                  historyVars, faults>>
-----------------------------------------------------------------------------
Guardians  == {c.guardian : c \in UNION {ToSet(a) : a \in Answers}}
EmptyQueue == [jobs |-> <<>>, completedIds |-> <<>>, dead |-> <<>>]
NoFlight   == [index |-> 0, id |-> <<>>, left |-> <<>>, delivered |-> {}, failed |-> {}]
Ids(q)     == {q.jobs[i].id : i \in DOMAIN q.jobs}
Done(q)    == ToSet(q.completedIds)
Dead(q)    == ToSet(q.dead)
Calls(id)  == IF id \in DOMAIN dispatches THEN dispatches[id] ELSE 0

RelayerInit ==
    /\ process = "down" /\ head = 0 /\ logged = 0
    /\ lastBlock = 0 /\ sweepTo = 0 /\ cursor = 0 /\ seen = {}
    /\ resolving = {} /\ queue = EmptyQueue /\ disk = EmptyQueue /\ inFlight = NoFlight
    /\ dispatches = <<>> /\ forgotten = {} /\ unresolved = {} /\ faults = 0

\* The chains grow on their own.
ChainsGrow ==
    /\ \/ head < MAX_BLOCK /\ head' = head + 1 /\ UNCHANGED logged
       \/ logged < Len(LOG) /\ logged' = logged + 1 /\ UNCHANGED head
    /\ UNCHANGED <<process, listenerVars, resolving, queue, disk, inFlight, historyVars, faults>>

\* createRelayer and start: the journal is loaded, the listeners start from the configured
\* block or the present head, memory of an earlier process is gone.
start ==
    /\ process = "down"
    /\ process' = "up"
    /\ queue' = disk
    /\ lastBlock' = IF START_BLOCK > 0 /\ START_BLOCK - 1 < head THEN START_BLOCK - 1 ELSE head
    /\ sweepTo' = 0 /\ cursor' = 0 /\ seen' = {} /\ resolving' = {} /\ inFlight' = NoFlight
    /\ UNCHANGED <<head, logged, disk, historyVars, faults>>

Crash ==
    /\ process # "down" /\ faults < MAX_FAULTS
    /\ process' = "down" /\ faults' = faults + 1
    /\ resolving' = {} /\ inFlight' = NoFlight /\ queue' = disk
    /\ UNCHANGED <<head, logged, listenerVars, disk, historyVars>>

\* SIGTERM: polling ends at once, the process leaves when the job in flight is settled.
stop ==
    /\ process = "up" /\ faults < MAX_FAULTS
    /\ process' = "stopping" /\ faults' = faults + 1
    /\ UNCHANGED <<head, logged, listenerVars, resolving, queue, disk, inFlight, historyVars>>

Exit ==
    /\ process = "stopping" /\ inFlight = NoFlight
    /\ process' = "down" /\ resolving' = {} /\ queue' = disk
    /\ UNCHANGED <<head, logged, listenerVars, disk, inFlight, historyVars, faults>>
-----------------------------------------------------------------------------
\* emitNew: what was not seen yet is handed to handleEvent, which asks for its contacts.
emitNew(events) ==
    /\ seen' = seen \cup events
    /\ resolving' = resolving \cup (events \ seen)

\* EvmAccessRequestListener.poll up to its first await: the end of the sweep is fixed.
poll ==
    LET to == IF head < lastBlock + SWEEP THEN head ELSE lastBlock + SWEEP
    IN  /\ process = "up" /\ sweepTo = 0 /\ to > lastBlock
        /\ sweepTo' = to
        /\ UNCHANGED <<process, head, logged, lastBlock, cursor, seen, resolving, queue, disk,
                       inFlight, historyVars, faults>>

\* ... and after the second: the logs arrive and the cursor moves, or neither does.
queryFilter ==
    /\ process = "up" /\ sweepTo > 0 /\ sweepTo' = 0
    /\ \/ /\ emitNew({<<"evm", b>> : b \in lastBlock + 1 .. sweepTo})
          /\ lastBlock' = sweepTo /\ UNCHANGED faults
       \/ /\ faults < MAX_FAULTS /\ faults' = faults + 1
          /\ UNCHANGED <<lastBlock, seen, resolving>>
    /\ UNCHANGED <<process, head, logged, cursor, queue, disk, inFlight, historyVars>>

\* SorobanAccessRequestListener.pollContract: one page after the cursor.
pollContract ==
    LET to   == IF logged < cursor + PAGE THEN logged ELSE cursor + PAGE
        page == cursor + 1 .. to
        tokened == {i \in page : LOG[i] # "bare"}
    IN  /\ process = "up" /\ tokened # {}
        /\ emitNew({<<"soroban", i>> : i \in {j \in tokened : LOG[j] = "access"}})
        /\ cursor' = CHOOSE i \in tokened : \A j \in tokened : j <= i
        /\ UNCHANGED <<process, head, logged, lastBlock, sweepTo, queue, disk, inFlight,
                       historyVars, faults>>
-----------------------------------------------------------------------------
\* persist: the journal is replaced at once, or the write fails and is only logged; earlier
\* are the states that earlier writes of the same step left.
persist(q, earlier) ==
    \/ disk' = q /\ UNCHANGED faults
    \/ faults < MAX_FAULTS /\ faults' = faults + 1 /\ disk' \in earlier \cup {disk}

isReachable(contact) == contact.channels \cap Configured # {}

\* buildJobs: one job per reachable contact, its channels in the order dispatch tries them.
buildJobs(event, contacts) ==
    [i \in DOMAIN SelectSeq(contacts, isReachable) |->
        LET c == SelectSeq(contacts, isReachable)[i]
        IN  [id |-> <<event, c.guardian>>, attempts |-> 0, due |-> TRUE,
             channels |-> SelectSeq(<<"push", "telegram", "email">>,
                                    LAMBDA ch : ch \in c.channels \cap Configured)]]

\* Mutant: completed jobs are not remembered as seen.
enqueue_again(q, job) ==
    IF job.id \in Ids(q) \cup Dead(q) THEN q ELSE [q EXCEPT !.jobs = Append(@, job)]

\* Mutant: a new job goes to the front of the list.
enqueue_front(q, job) ==
    IF job.id \in Ids(q) \cup Done(q) \cup Dead(q) THEN q ELSE [q EXCEPT !.jobs = <<job>> \o @]

\* enqueue: ids that are active, completed or dead are ignored.
enqueue(q, job) ==
    IF job.id \in Ids(q) \cup Done(q) \cup Dead(q) THEN q ELSE [q EXCEPT !.jobs = Append(@, job)]

\* handleEvent after resolver.resolve: the jobs are enqueued, or the registry failed or a
\* contact's key made encryptForGuardian throw, and the event is dropped with a log line.
handleEvent(event) ==
    /\ process # "down" /\ event \in resolving /\ resolving' = resolving \ {event}
    /\ \/ \E contacts \in Answers :
          LET jobs == buildJobs(event, contacts)
              q    == FoldLeft(enqueue, queue, jobs)
          IN  IF \E i \in DOMAIN contacts : isReachable(contacts[i]) /\ contacts[i].badKey
              THEN unresolved' = unresolved \cup {event} /\ UNCHANGED <<queue, disk, faults>>
              ELSE /\ queue' = q /\ UNCHANGED unresolved
                   /\ IF q = queue THEN UNCHANGED <<disk, faults>>
                      ELSE persist(q, {FoldLeft(enqueue, queue, Front(jobs))})
       \/ /\ faults < MAX_FAULTS /\ faults' = faults + 1
          /\ unresolved' = unresolved \cup {event} /\ UNCHANGED <<queue, disk>>
    /\ UNCHANGED <<process, head, logged, listenerVars, inFlight, dispatches, forgotten>>
-----------------------------------------------------------------------------
\* pump up to the handler: the first due job is taken, one at a time.  The attempt is
\* counted in memory only.
pump ==
    /\ process = "up" /\ inFlight = NoFlight
    /\ \E i \in DOMAIN queue.jobs :
          /\ queue.jobs[i].due /\ \A j \in 1 .. i - 1 : ~queue.jobs[j].due
          /\ queue' = [queue EXCEPT !.jobs[i].attempts = @ + 1]
          /\ inFlight' = [index |-> i, id |-> queue.jobs[i].id, left |-> queue.jobs[i].channels,
                          delivered |-> {}, failed |-> {}]
          /\ dispatches' = [id \in DOMAIN dispatches \cup {queue.jobs[i].id} |->
                               Calls(id) + IF id = queue.jobs[i].id THEN 1 ELSE 0]
    /\ UNCHANGED <<process, head, logged, listenerVars, resolving, disk, forgotten, unresolved,
                   faults>>

\* dispatch: the channels are tried in turn, each may answer or fail.
dispatch ==
    /\ inFlight.left # <<>>
    /\ \/ inFlight' = [inFlight EXCEPT !.left = Tail(@), !.delivered = @ \cup {Head(inFlight.left)}]
       \/ inFlight' = [inFlight EXCEPT !.left = Tail(@), !.failed = @ \cup {Head(inFlight.left)}]
    /\ UNCHANGED <<process, head, logged, listenerVars, resolving, queue, disk, historyVars, faults>>

LastN(list, n) == IF Len(list) > n THEN SubSeq(list, Len(list) - n + 1, Len(list)) ELSE list

\* Mutant: a job whose attempts are used up stays in the list.
Settled_stuck(i, ok) ==
    LET job == queue.jobs[i]
    IN  IF ok THEN [queue EXCEPT !.jobs = RemoveAt(@, i),
                                 !.completedIds = LastN(Append(@, job.id), MAX_COMPLETED)]
        ELSE [queue EXCEPT !.jobs[i].due = FALSE]

\* The end of pump: the job at the index found before the await is removed and remembered
\* as completed or dead, or backs off.
Settled(i, ok) ==
    LET job == queue.jobs[i]
    IN  IF ok THEN [queue EXCEPT !.jobs = RemoveAt(@, i),
                                 !.completedIds = LastN(Append(@, job.id), MAX_COMPLETED)]
        ELSE IF job.attempts >= MAX_ATTEMPTS
        THEN [queue EXCEPT !.jobs = RemoveAt(@, i), !.dead = LastN(Append(@, job.id), MAX_DEAD)]
        ELSE [queue EXCEPT !.jobs[i].due = FALSE]

settle ==
    LET q == Settled(inFlight.index, inFlight.delivered # {} \/ inFlight.failed = {})
    IN  /\ inFlight # NoFlight /\ inFlight.left = <<>>
        /\ queue' = q /\ persist(q, {}) /\ inFlight' = NoFlight
        /\ forgotten' = forgotten \cup ((Done(queue) \cup Dead(queue)) \ (Done(q) \cup Dead(q)))
        /\ UNCHANGED <<process, head, logged, listenerVars, resolving, dispatches, unresolved>>

\* Mutant: the timer of a retry does not survive the process.
BackoffElapses_never ==
    /\ process = "up" /\ faults = 0
    /\ \E i \in DOMAIN queue.jobs :
          ~queue.jobs[i].due /\ queue' = [queue EXCEPT !.jobs[i].due = TRUE]
    /\ UNCHANGED <<process, head, logged, listenerVars, resolving, disk, inFlight, historyVars,
                   faults>>

\* nextAttemptAtMs comes, also for a journal read after a restart.
BackoffElapses ==
    /\ process = "up"
    /\ \E i \in DOMAIN queue.jobs :
          ~queue.jobs[i].due /\ queue' = [queue EXCEPT !.jobs[i].due = TRUE]
    /\ UNCHANGED <<process, head, logged, listenerVars, resolving, disk, inFlight, historyVars,
                   faults>>

RelayerNext ==
    \/ ChainsGrow \/ start \/ Crash \/ stop \/ Exit
    \/ poll \/ queryFilter \/ pollContract
    \/ \E e \in resolving : handleEvent(e)
    \/ pump \/ dispatch \/ settle \/ BackoffElapses

RelayerSpec == RelayerInit /\ [][RelayerNext]_relayerVars
-----------------------------------------------------------------------------
\* pump keeps the index of its job over an await, while events add jobs: it still points to
\* the job that was handled when it is removed.
IndexStaysValid ==
    inFlight # NoFlight =>
       inFlight.index <= Len(queue.jobs) /\ queue.jobs[inFlight.index].id = inFlight.id

\* A guardian whose channels keep failing is not called more often than maxAttempts, plus
\* one call for each crash or lost write, unless the capped lists forgot the job.
AttemptsBounded ==
    \A id \in DOMAIN dispatches : id \in forgotten \/ dispatches[id] <= MAX_ATTEMPTS + faults

\* A job that the journal says is completed is not handled again after a restart that
\* replays its event, unless completedIds dropped it (MAX_COMPLETED_IDS).
CompletedStaysDone ==
    [][\A id \in Done(disk) : inFlight'.id = id /\ inFlight = NoFlight => id \in forgotten]_relayerVars

\* A job that reached the journal is delivered or dead-lettered in the end, over crashes,
\* restarts and failing channels.
JournalledSettles ==
    \A e \in {<<"evm", b>> : b \in 1 .. MAX_BLOCK}, g \in Guardians :
       <<e, g>> \in Ids(disk) ~> <<e, g>> \in Done(queue) \cup Dead(queue) \cup forgotten
=============================================================================
