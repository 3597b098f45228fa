------------------------------ MODULE Gateways ------------------------------
(***************************************************************************)
(* How the application reads a content identifier from the public IPFS     *)
(* gateways.  There are two clients:                                       *)
(*                                                                         *)
(*   - createIpfsGatewayClient (services/ipfsGateway.ts) races one GET per *)
(*     gateway, with a circuit per gateway that stays open for a fixed     *)
(*     cool-down, and concurrent lookups that share those circuits;        *)
(*   - IpfsGatewayService (services/ipfsGateway.service.ts) races HEAD     *)
(*     probes of the best-ranked gateways and then reads from the winner,  *)
(*     with an exponential back-off that is kept in localStorage.          *)
(*                                                                         *)
(* The clock is relative: what is left of a cool-down, and the time since  *)
(* a circuit tripped, both saturate, so no run ends because time ran out.  *)
(* Rankings (latency, success rate, CORS) only choose among usable         *)
(* gateways, and that choice is left open.                                 *)
(***************************************************************************)
EXTENDS Integers, FiniteSets

CONSTANTS
    Gateways,           \* the gateway pool
    Lookups,            \* the concurrent fetchFile calls
    FAILURE_THRESHOLD,  \* failures in a row that open a circuit
    COOLDOWN,           \* ticks a circuit of the racing client stays open
    MIN_BACKOFF,        \* ticks, before the first doubling
    MAX_BACKOFF,        \* ticks, the largest back-off
    TOP,                \* gateways probed at once
    MAX_LATE            \* unanswered probes a gateway may carry into a new race

ASSUME GatewayAssumption ==
    /\ FAILURE_THRESHOLD \in Nat \ {0}
    /\ COOLDOWN \in Nat \ {0}
    /\ MIN_BACKOFF \in Nat \ {0}
    /\ MAX_BACKOFF \in Nat /\ MAX_BACKOFF >= MIN_BACKOFF
    /\ TOP \in Nat \ {0}

VARIABLES
    circuits,   \* circuits[g]: consecutive failures, ticks until it closes
    lookups,    \* lookups[f]: the race of one fetchFile call
    health,     \* health[g]: the scorer's record, in memory
    kept,       \* the scorer's records in localStorage
    race,       \* the probing race of IpfsGatewayService
    late        \* late[g]: probes of settled races that are not answered yet

clientVars == <<circuits, lookups>>
scorerVars == <<health, kept, race, late>>

Least(a, b) == IF a < b THEN a ELSE b

(***************************************************************************)
(* The racing client.                                                      *)
(***************************************************************************)

\* Failures are counted up to the threshold: the code compares them with >=.
recordSuccess(g) == circuits' = [circuits EXCEPT ![g] = [fails |-> 0, left |-> 0]]

recordFailure(g) ==
    LET fails == Least(circuits[g].fails + 1, FAILURE_THRESHOLD) IN
    circuits' = [circuits EXCEPT ![g] =
        [fails |-> fails,
         left  |-> IF fails >= FAILURE_THRESHOLD THEN COOLDOWN ELSE @.left]]

isCircuitOpen(g) == circuits[g].left > 0

selectGateways ==
    LET healthy == {g \in Gateways : ~isCircuitOpen(g)} IN
    IF healthy # {} THEN healthy ELSE Gateways

Unstarted == [phase |-> "idle", candidates |-> {}, failed |-> {}, pending |-> 0]

ClientInit ==
    /\ circuits = [g \in Gateways |-> [fails |-> 0, left |-> 0]]
    /\ lookups = [f \in Lookups |-> Unstarted]

\* The mutated form: every gateway of the pool is waited for.
fetchFile_pool(f) ==
    /\ lookups[f].phase # "racing"
    /\ lookups' = [lookups EXCEPT ![f] =
           [phase |-> "racing", candidates |-> selectGateways, failed |-> {},
            pending |-> Cardinality(Gateways)]]
    /\ UNCHANGED circuits

\* A call may start as soon as the previous one of the same caller settled.
fetchFile(f) ==
    /\ lookups[f].phase # "racing"
    /\ lookups' = [lookups EXCEPT ![f] =
           [phase |-> "racing", candidates |-> selectGateways, failed |-> {},
            pending |-> Cardinality(selectGateways)]]
    /\ UNCHANGED circuits

\* The caller's signal; answers that come later find the call settled.
onExternalAbort(f) ==
    /\ lookups[f].phase = "racing"
    /\ lookups' = [lookups EXCEPT ![f].phase = "aborted"]
    /\ UNCHANGED circuits

failOne(f, g, trip) ==
    /\ IF trip THEN recordFailure(g) ELSE UNCHANGED circuits
    /\ lookups' = [lookups EXCEPT ![f] =
           [@ EXCEPT !.failed = @ \cup {g},
                     !.pending = @ - 1,
                     !.phase = IF lookups[f].pending = 1 THEN "rejected" ELSE @]]

\* 401, 403, 408, 425, 429 and 5xx trip the circuit; a 404 does not.
shouldTripCircuit == {TRUE, FALSE}

\* One gateway answers, errs or times out while the call is still open.
fetchOne(f, g) ==
    /\ lookups[f].phase = "racing"
    /\ g \in lookups[f].candidates \ lookups[f].failed
    /\ \/ /\ recordSuccess(g)
          /\ lookups' = [lookups EXCEPT ![f].phase = "resolved"]
       \/ \E trip \in shouldTripCircuit : failOne(f, g, trip)

resetCircuits ==
    /\ circuits' = [g \in Gateways |-> [fails |-> 0, left |-> 0]]
    /\ UNCHANGED lookups

ClientTick ==
    /\ \E g \in Gateways : isCircuitOpen(g)
    /\ circuits' = [g \in Gateways |->
           [circuits[g] EXCEPT !.left = IF @ > 0 THEN @ - 1 ELSE 0]]
    /\ UNCHANGED lookups

ClientNext ==
    \/ \E f \in Lookups : fetchFile(f) \/ onExternalAbort(f)
    \/ \E f \in Lookups, g \in Gateways : fetchOne(f, g)
    \/ resetCircuits
    \/ ClientTick

\* Each GET has a timeout of its own, so each is answered in the end.
ClientFairness ==
    \A f \in Lookups, g \in Gateways : WF_clientVars(fetchOne(f, g))

(***************************************************************************)
(* The health scorer and the probing service.                              *)
(***************************************************************************)

defaultHealth ==
    [state |-> "CLOSED", fails |-> 0, age |-> 0, backoff |-> MIN_BACKOFF]

saveHealthMap(map) == kept' = map

\* The constructor: what localStorage holds, and defaults for the rest.
loadHealthMap ==
    /\ health' = kept
    /\ race' = [phase |-> "idle", candidates |-> {}, failed |-> {}, winner |-> {}]
    /\ late' = [g \in Gateways |-> 0]
    /\ UNCHANGED kept

\* age: the ticks since the circuit tripped, up to the largest back-off.
AfterFailure(h) ==
    LET fails == Least(h.fails + 1, FAILURE_THRESHOLD) IN
    IF fails >= FAILURE_THRESHOLD /\ h.state # "OPEN"
    THEN [state |-> "OPEN", fails |-> fails, age |-> 0,
          backoff |-> Least(h.backoff * 2, MAX_BACKOFF)]
    ELSE [h EXCEPT !.fails = fails]

scored(map) == health' = map /\ saveHealthMap(map)

topHealthy(map) ==
    LET usable == {g \in Gateways : map[g].state # "OPEN"} IN
    {c \in SUBSET usable : Cardinality(c) = Least(TOP, Cardinality(usable))}

maybeTransitionToHalfOpen(h) ==
    IF h.state = "OPEN" /\ h.age >= h.backoff
    THEN [h EXCEPT !.state = "HALF_OPEN"] ELSE h

HalfOpened == [g \in Gateways |-> maybeTransitionToHalfOpen(health[g])]

ScorerInit ==
    /\ health = [g \in Gateways |-> defaultHealth]
    /\ kept = [g \in Gateways |-> defaultHealth]
    /\ race = [phase |-> "idle", candidates |-> {}, failed |-> {}, winner |-> {}]
    /\ late = [g \in Gateways |-> 0]

StartRace(purpose, cands) ==
    /\ race' = [phase |-> purpose, candidates |-> cands, failed |-> {}, winner |-> {}]
    /\ UNCHANGED late

\* The mutated form: open circuits are not looked at again.
fetch_asRanked ==
    /\ race.phase = "idle"
    /\ \A g \in Gateways : late[g] <= MAX_LATE
    /\ \E cands \in topHealthy(health) :
           cands # {} /\ StartRace("fetching", cands)
    /\ UNCHANGED <<health, kept>>

\* fetch: circuits whose back-off is over are half-opened first; with no
\* usable gateway the call throws.
fetch ==
    /\ race.phase = "idle"
    /\ \A g \in Gateways : late[g] <= MAX_LATE
    /\ scored(HalfOpened)
    /\ \E cands \in topHealthy(HalfOpened) :
           IF cands = {} THEN UNCHANGED <<race, late>>
           ELSE StartRace("fetching", cands)

\* Half-opens circuits only when every one of them is open, and falls back
\* to one fixed gateway when that yields none.
probeAndSelectGateway ==
    /\ race.phase = "idle"
    /\ \A g \in Gateways : late[g] <= MAX_LATE
    /\ LET map == IF topHealthy(health) = {{}} THEN HalfOpened ELSE health IN
       /\ scored(map)
       /\ \E cands \in topHealthy(map) :
              IF cands = {} THEN UNCHANGED <<race, late>>
              ELSE StartRace("selecting", cands)

Idle == [phase |-> "idle", candidates |-> {}, failed |-> {}, winner |-> {}]

\* A probe of the running race is answered.  The first success settles it;
\* the other probes stay out and are scored when they are answered.
_race(g) ==
    /\ race.phase \in {"fetching", "selecting"}
    /\ g \in race.candidates \ race.failed
    /\ \/ /\ scored([health EXCEPT ![g] = defaultHealth])
          /\ late' = [o \in Gateways |->
                 IF o \in race.candidates \ (race.failed \cup {g})
                 THEN late[o] + 1 ELSE late[o]]
          /\ race' = IF race.phase = "fetching"
                     THEN [Idle EXCEPT !.phase = "reading", !.winner = {g}]
                     ELSE Idle
       \/ /\ scored([health EXCEPT ![g] = AfterFailure(@)])
          /\ race' = IF race.failed \cup {g} = race.candidates THEN Idle
                     ELSE [race EXCEPT !.failed = @ \cup {g}]
          /\ UNCHANGED late

LateProbe(g) ==
    /\ late[g] > 0
    /\ late' = [late EXCEPT ![g] = @ - 1]
    /\ \/ scored([health EXCEPT ![g] = defaultHealth])
       \/ scored([health EXCEPT ![g] = AfterFailure(@)])
    /\ UNCHANGED race

\* The GET from the winner.  A refusal is recorded where it is seen and once
\* more by the handler that catches the error it throws.
readWinner(g) ==
    /\ race.phase = "reading" /\ race.winner = {g}
    /\ race' = Idle
    /\ \/ UNCHANGED <<health, kept>>
       \/ scored([health EXCEPT ![g] = AfterFailure(@)])
       \/ scored([health EXCEPT ![g] = AfterFailure(AfterFailure(@))])
    /\ UNCHANGED late

ScorerTick ==
    /\ \E g \in Gateways : health[g].state = "OPEN" /\ health[g].age < MAX_BACKOFF
    /\ scored([g \in Gateways |->
           [health[g] EXCEPT !.age =
               IF health[g].state = "OPEN" THEN Least(@ + 1, MAX_BACKOFF) ELSE 0]])
    /\ UNCHANGED <<race, late>>

ScorerNext ==
    \/ fetch
    \/ probeAndSelectGateway
    \/ \E g \in Gateways : _race(g) \/ LateProbe(g) \/ readWinner(g)
    \/ loadHealthMap
    \/ ScorerTick

\* Probes and reads time out, time passes, and documents keep being opened.
ScorerFairness ==
    /\ WF_scorerVars(ScorerTick)
    /\ SF_scorerVars(fetch)
    /\ \A g \in Gateways :
           WF_scorerVars(_race(g)) /\ WF_scorerVars(LateProbe(g)) /\ WF_scorerVars(readWinner(g))

(***************************************************************************)
(* Properties.                                                             *)
(***************************************************************************)

(***************************************************************************)
(* Every fetchFile call settles: it resolves with the first good answer,   *)
(* or rejects once each gateway it asked has failed, whatever other calls  *)
(* do to the shared circuits meanwhile (`pending`, ipfsGateway.ts).        *)
(***************************************************************************)
LookupsSettle ==
    \A f \in Lookups : (lookups[f].phase = "racing") ~> (lookups[f].phase # "racing")

(***************************************************************************)
(* An open circuit is not forever: while documents are being opened, every *)
(* gateway whose circuit tripped is tried again, because fetch half-opens  *)
(* circuits whose back-off is over before it ranks (ipfsGateway.service).  *)
(***************************************************************************)
OpenIsTriedAgain ==
    \A g \in Gateways : (health[g].state = "OPEN") ~> (health[g].state # "OPEN")
=============================================================================
