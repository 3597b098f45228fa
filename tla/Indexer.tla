------------------------------ MODULE Indexer -------------------------------
(***************************************************************************)
(* The event indexer of the application (sorobanEventIndexer.service.ts)   *)
(* and the WebSocket gateway that feeds it (soroban-event-gateway.mjs).    *)
(*                                                                         *)
(* Both poll the Soroban RPC from a cursor and pass on the events of the   *)
(* indexed topics.  The indexer stores each event with its cursor in       *)
(* IndexedDB so that the next session resumes there; events the gateway    *)
(* pushes are stored in the same way, between those of the polls.          *)
(*                                                                         *)
(* An event is its position in the contract's event stream; position 0 is  *)
(* the absent cursor.  Restarting the indexer while a poll is in flight    *)
(* leaves that poll loop running, so there may be several loops.           *)
(***************************************************************************)
EXTENDS Integers

CONSTANTS
    MAX_EVENTS,   \* events the contract emits
    BATCH_SIZE,   \* events of one getEvents answer
    MAX_STARTS    \* sessions and restarts

ASSUME IndexerBounds == MAX_EVENTS \in Nat /\ BATCH_SIZE \in Nat /\ MAX_STARTS \in Nat

Loops == {1, 2}     \* the poll loops alive at once
NoLoop == 0

VARIABLES
    emitted,      \* the number of events of the contract
    indexed,      \* those of an indexed topic
    running,      \* the running flag
    cursor,       \* the in-memory cursor
    loop,         \* loop[l]: what a poll loop is waiting for
    timer,        \* the loop whose timeout stop() can clear
    loading,      \* reads of the persisted cursor under way
    memory,       \* the events of this session
    relayPuts,    \* pushed events whose IndexedDB write is under way
    dbCursor,     \* the cursor record in IndexedDB
    socket,       \* the relay connection: "none", "open" or "closed"
    wire,         \* events on their way from the gateway to the browser
    gateway,      \* the gateway's cursor
    starts,       \* calls of start so far
    resumed       \* history: the furthest persisted cursor this session took over

indexerVars == <<emitted, indexed, running, cursor, loop, timer, loading, memory, relayPuts,
                 dbCursor, socket, wire, gateway, starts, resumed>>

\* A loop that asked holds the cursor it sent; one that is putting holds the
\* event at hand and the end of the answer.
Phases == {"none", "asked", "putting", "timer"}
NoPoll == [phase |-> "none", at |-> 0, upto |-> 0]
Asked(c) == [phase |-> "asked", at |-> c, upto |-> 0]
Publishing(e, last) == [phase |-> "putting", at |-> e, upto |-> last]
Waiting == [phase |-> "timer", at |-> 0, upto |-> 0]

IndexerInit ==
    /\ emitted = 0 /\ indexed = {}
    /\ running = FALSE /\ cursor = 0 /\ timer = NoLoop /\ loading = 0
    /\ loop = [l \in Loops |-> NoPoll]
    /\ memory = {} /\ relayPuts = {} /\ dbCursor = 0
    /\ socket = "none" /\ wire = {} /\ gateway = 0
    /\ starts = 0 /\ resumed = 0

\* getEvents answers with the events after the cursor, at most a batch: this
\* is the position of the last one.
getEvents(after) == IF after + BATCH_SIZE < emitted THEN after + BATCH_SIZE ELSE emitted

\* What parseSorobanEvent leaves of an answer: it yields null for the other topics.
parseSorobanEvent(after, last) == {e \in indexed : after < e /\ e <= last}

IsFirst(e, events) == e \in events /\ \A f \in events : e <= f

Emit ==
    /\ emitted < MAX_EVENTS
    /\ emitted' = emitted + 1
    /\ indexed' = indexed \/ indexed' = indexed \cup {emitted + 1}
    /\ UNCHANGED <<running, cursor, loop, timer, loading, memory, relayPuts, dbCursor, socket,
                   wire, gateway, starts, resumed>>

(***************************************************************************)
(* The indexer.                                                            *)
(***************************************************************************)

\* stop clears the latest timeout and closes the socket; a poll that is
\* waiting for an answer or for IndexedDB goes on.
Stopped ==
    [l \in Loops |-> IF l = timer /\ loop[l].phase = "timer" THEN NoPoll ELSE loop[l]]

start ==
    /\ starts < MAX_STARTS
    /\ \E l \in Loops :
           /\ Stopped[l].phase = "none"
           /\ loop' = [Stopped EXCEPT ![l] = Asked(cursor)]
    /\ running' = TRUE /\ timer' = NoLoop /\ loading' = loading + 1
    /\ socket' = "open" /\ wire' = {}
    /\ starts' = starts + 1
    /\ UNCHANGED <<emitted, indexed, cursor, memory, relayPuts, dbCursor, gateway, resumed>>

stop ==
    /\ running
    /\ running' = FALSE /\ timer' = NoLoop
    /\ loop' = Stopped
    /\ socket' = "none" /\ wire' = {}
    /\ UNCHANGED <<emitted, indexed, cursor, loading, memory, relayPuts, dbCursor, gateway,
                   starts, resumed>>

\* The page goes away, with everything that was only in memory.
reloadPage ==
    /\ starts > 0
    /\ running' = FALSE /\ cursor' = 0 /\ timer' = NoLoop /\ loading' = 0
    /\ loop' = [l \in Loops |-> NoPoll]
    /\ memory' = {} /\ relayPuts' = {}
    /\ socket' = "none" /\ wire' = {}
    /\ resumed' = 0
    /\ UNCHANGED <<emitted, indexed, dbCursor, gateway, starts>>

\* A read of the persisted cursor, begun by start, completes.
getCursor ==
    /\ loading > 0
    /\ loading' = loading - 1
    /\ cursor' = IF dbCursor # 0 THEN dbCursor ELSE cursor
    /\ resumed' = IF dbCursor > resumed THEN dbCursor ELSE resumed
    /\ UNCHANGED <<emitted, indexed, running, loop, timer, memory, relayPuts, dbCursor,
                   socket, wire, gateway, starts>>

\* put files the event in memory at once; publishing has begun.
putInMemory(e) == memory' = memory \cup {e}

\* The cursor record is written in the transaction that stores the event;
\* without IndexedDB the event stays in memory only.
putInDb(e) == dbCursor' = e \/ UNCHANGED dbCursor

\* The mutated form: the cursor is moved past the whole answer at once.
takeNext_all(l, e, last) ==
    /\ cursor' = last
    /\ loop' = [loop EXCEPT ![l] = Publishing(e, last)]
    /\ putInMemory(e)

\* The next event of an answer: the cursor moves to it and it is published.
takeNext(l, e, last) ==
    /\ cursor' = e
    /\ loop' = [loop EXCEPT ![l] = Publishing(e, last)]
    /\ putInMemory(e)

\* The end of a poll: another is scheduled while the indexer runs.
endPoll(l) ==
    /\ loop' = [loop EXCEPT ![l] = IF running THEN Waiting ELSE NoPoll]
    /\ timer' = IF running THEN l ELSE timer
    /\ UNCHANGED <<cursor, memory>>

\* The loop goes on with the first of the events, or its poll ends.
nextOrEnd(l, events, last) ==
    \/ /\ \E e \in events : IsFirst(e, events) /\ takeNext(l, e, last)
       /\ UNCHANGED timer
    \/ events = {} /\ endPoll(l)

\* The RPC answers the request, which carries the cursor of its sending, or
\* the request fails.  After maxRetries failures in a row the code calls
\* stop, which is here what stop after endPoll does.
poll(l) ==
    /\ loop[l].phase = "asked"
    /\ LET last == getEvents(loop[l].at) IN
       \/ nextOrEnd(l, parseSorobanEvent(loop[l].at, last), last)
       \/ endPoll(l)
    /\ UNCHANGED <<emitted, indexed, running, loading, relayPuts, dbCursor, socket, wire,
                   gateway, starts, resumed>>

\* The write of the event at hand ends and the loop takes the next one.
publish(l) ==
    /\ loop[l].phase = "putting"
    /\ putInDb(loop[l].at)
    /\ nextOrEnd(l, parseSorobanEvent(loop[l].at, loop[l].upto), loop[l].upto)
    /\ UNCHANGED <<emitted, indexed, running, loading, relayPuts, socket, wire, gateway,
                   starts, resumed>>

timeout(l) ==
    /\ loop[l].phase = "timer"
    /\ loop' = [loop EXCEPT ![l] = IF running THEN Asked(cursor) ELSE NoPoll]
    /\ UNCHANGED <<emitted, indexed, running, cursor, timer, loading, memory, relayPuts,
                   dbCursor, socket, wire, gateway, starts, resumed>>

(***************************************************************************)
(* The relay connection.                                                   *)
(***************************************************************************)

\* A pushed event is published beside the polls and moves no cursor in
\* memory.  A socket left over from a restart delivers its own copy, earlier
\* or later than the other one.
onmessage ==
    /\ socket = "open"
    /\ \E e \in wire :
           /\ putInMemory(e)
           /\ relayPuts' = relayPuts \cup {e}
           /\ wire' = wire \ {e} \/ UNCHANGED wire
    /\ UNCHANGED <<emitted, indexed, running, cursor, loop, timer, loading, dbCursor, socket,
                   gateway, starts, resumed>>

relayPut ==
    /\ \E e \in relayPuts : relayPuts' = relayPuts \ {e} /\ putInDb(e)
    /\ UNCHANGED <<emitted, indexed, running, cursor, loop, timer, loading, memory, socket,
                   wire, gateway, starts, resumed>>

onclose ==
    /\ socket = "open"
    /\ socket' = "closed" /\ wire' = {}
    /\ UNCHANGED <<emitted, indexed, running, cursor, loop, timer, loading, memory, relayPuts,
                   dbCursor, gateway, starts, resumed>>

scheduleReconnect ==
    /\ socket = "closed" /\ running
    /\ socket' = "open"
    /\ UNCHANGED <<emitted, indexed, running, cursor, loop, timer, loading, memory, relayPuts,
                   dbCursor, wire, gateway, starts, resumed>>

\* broadcastEvent: to the sockets that are open now.
broadcastEvent(events) == wire' = IF socket = "open" THEN wire \cup events ELSE wire

\* The gateway's own poll; its cursor moves over the events it parsed.
pollContract ==
    LET events == parseSorobanEvent(gateway, getEvents(gateway)) IN
    /\ \E e \in events : (\A f \in events : f <= e) /\ gateway' = e
    /\ broadcastEvent(events)
    /\ UNCHANGED <<emitted, indexed, running, cursor, loop, timer, loading, memory, relayPuts,
                   dbCursor, socket, starts, resumed>>

IndexerNext ==
    \/ Emit
    \/ start \/ stop \/ reloadPage \/ getCursor
    \/ \E l \in Loops : poll(l) \/ publish(l) \/ timeout(l)
    \/ onmessage \/ relayPut \/ onclose \/ scheduleReconnect
    \/ pollContract

IndexerSpec == IndexerInit /\ [][IndexerNext]_indexerVars

(***************************************************************************)
(* Properties.                                                             *)
(***************************************************************************)

(***************************************************************************)
(* Within a session the cursor leaves nothing behind: every indexed event  *)
(* after the furthest persisted cursor the session took over, up to the    *)
(* one it polls from, is in memory, with several poll loops, pushed events *)
(* and a persisted cursor that arrives in the middle of a poll, or moves   *)
(* the cursor back (poll sets the cursor event by event, and put files     *)
(* each in memory before it waits).                                        *)
(***************************************************************************)
SessionMissesNothing ==
    \A e \in indexed : resumed < e /\ e <= cursor => e \in memory

=============================================================================
