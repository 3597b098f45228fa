-------------------------- MODULE KeeperRelayProofs --------------------------
(***************************************************************************)
(* Proofs about the scripts that keep vaults and ledger entries alive: a   *)
(* vault with an authorised keeper never passes its inactivity period, and *)
(* no ledger entry runs out, for every number of vaults, entries and       *)
(* overlapping cycles, and every choice of the times that keeps the        *)
(* margins KeeperMargin and TtlMargin.                                     *)
(***************************************************************************)
EXTENDS KeeperRelays, TLAPS

\* The intervals of RUN_EVERY that a vault's last proof may lie behind the start of the last
\* run, beyond half its window: the runs cut short so far, the present one if it has not come
\* to the vault, and none once the present run has passed it.
Missed(v) == IF job = NoJob THEN aborts ELSE IF v >= job.at THEN aborts + 1 ELSE 0

JobType ==
    \/ job = NoJob
    \/ /\ job \in [at : Vaults, pc : {"authorization", "state", "relay"}, nowSeconds : Nat]
       /\ job.pc # "authorization" => job.nowSeconds >= lastRun /\ job.nowSeconds <= now

KeeperType ==
    /\ now \in Nat /\ lastRun \in Nat /\ aborts \in Nat /\ aborts <= MAX_ABORTS
    /\ lastRun <= now /\ now <= lastRun + RUN_EVERY
    /\ proof \in [Vaults -> Nat] /\ DOMAIN authorized = Vaults
    /\ JobType

Span(n) == RUN_EVERY * n

\* A vault's proof is behind the last run by half its window and the intervals missed, at most.
Behind(v) == 2 * (lastRun - proof[v]) <= INACTIVITY + 2 * Span(Missed(v))

KeeperInv == KeeperType /\ \A v \in Vaults : isAuthorized(v) => Behind(v)

LEMMA KeeperNats ==
    INACTIVITY \in Nat /\ RUN_EVERY \in Nat /\ MAX_ABORTS \in Nat /\ AUTHORIZED_UNTIL \in Nat
BY KeeperConstants, Zenon

LEMMA VaultRange ==
    /\ Len(VaultIds) \in Nat /\ Len(VaultIds) > 0 /\ Vaults = 1 .. Len(VaultIds)
BY KeeperConstants DEF Vaults

LEMMA Products ==
    ASSUME NEW n \in Nat
    PROVE  /\ Span(n) \in Nat /\ Span(n + 1) = Span(n) + RUN_EVERY
           /\ Span(0) = 0
BY KeeperNats DEF Span

\* Where the loop of main is after a vault: the vaults before it are behind it.
LEMMA AfterVault ==
    ASSUME KeeperType, job # NoJob
    PROVE  /\ NextVault = NoJob
              \/ NextVault \in [at : Vaults, pc : {"authorization"}, nowSeconds : Nat]
           /\ NextVault # NoJob => NextVault.at = job.at + 1 /\ NextVault.pc = "authorization"
           /\ NextVault = NoJob => \A v \in Vaults : v <= job.at
BY VaultRange DEF KeeperType, JobType, NextVault, NoJob

LEMMA KeeperStart == KeeperInit => KeeperInv
<1> SUFFICES ASSUME KeeperInit PROVE KeeperInv
    BY Zenon
<1>1. KeeperType
      BY KeeperNats DEF KeeperInit, KeeperType, JobType
<1>2. ASSUME NEW v \in Vaults PROVE Behind(v)
  <2>1. Missed(v) = 0 /\ proof[v] = 0 /\ lastRun = 0
        BY Zenon DEF KeeperInit, Missed
  <2> QED BY <2>1, Products, KeeperNats DEF Behind
<1> QED BY <1>1, <1>2, Zenon DEF KeeperInv

LEMMA MissedNat == ASSUME KeeperType, NEW v \in Vaults PROVE Missed(v) \in Nat
BY DEF KeeperType, Missed

LEMMA Monotone ==
    ASSUME NEW m \in Nat, NEW n \in Nat, m <= n
    PROVE  Span(m) \in Nat /\ Span(n) \in Nat /\ Span(m) <= Span(n)
BY KeeperNats DEF Span

\* An authorisation that stands after a step stood before it.
LEMMA Standing ==
    ASSUME KeeperInv, KeeperNext, NEW v \in Vaults, isAuthorized(v)'
    PROVE  isAuthorized(v)
<1>1. now' \in Nat /\ now <= now' /\ now \in Nat
      BY DEF KeeperInv, KeeperType, KeeperNext, KeeperTick, RevokeKeeper, main, checkAuthorization,
             checkDue, proveLifeByKeeper, keeperFails
<1>2. AUTHORIZED_UNTIL > now' => AUTHORIZED_UNTIL > now
      BY <1>1, KeeperNats
<1>3. authorized'[v] => authorized[v]
  <2>1. CASE authorized' = authorized
        BY <2>1, Zenon
  <2>2. CASE \E w \in Vaults : RevokeKeeper(w)
    <3>1. PICK w \in Vaults : RevokeKeeper(w)
          BY <2>2, Zenon
    <3>2. authorized' = [authorized EXCEPT ![w] = FALSE] /\ authorized[w]
          BY <3>1, Zenon DEF RevokeKeeper
    <3>3. CASE v = w
          BY <3>2, <3>3, Zenon
    <3>4. CASE v # w
          BY <3>2, <3>4, Zenon DEF KeeperInv, KeeperType
    <3> QED BY <3>3, <3>4, Zenon
  <2> QED BY <2>1, <2>2, Zenon
          DEF KeeperNext, KeeperTick, main, checkAuthorization, checkDue, proveLifeByKeeper,
              keeperFails
<1> QED BY <1>2, <1>3, Zenon DEF isAuthorized

\* The loop of main goes on: the vault it leaves is within half its window, or its keeper is
\* not authorised.
LEMMA LoopGoesOn ==
    ASSUME KeeperInv, KeeperType', job # NoJob, job' = NextVault, lastRun' = lastRun,
           aborts' = aborts, NEW v \in Vaults, Behind(v),
           v # job.at => proof'[v] = proof[v],
           v = job.at => 2 * (lastRun - proof'[v]) <= INACTIVITY
    PROVE  Behind(v)'
<1>1. lastRun \in Nat /\ proof[v] \in Nat /\ proof'[v] \in Nat /\ job.at \in Nat /\ v \in Nat
      BY VaultRange DEF KeeperInv, KeeperType, JobType
<1>2. Missed(v) \in Nat /\ Missed(v)' \in Nat
      BY MissedNat DEF KeeperInv, KeeperType, JobType, Missed
<1>3. CASE v = job.at
  <2>1. Span(Missed(v)') \in Nat
        BY <1>2, Monotone
  <2>2. 2 * (lastRun - proof'[v]) <= INACTIVITY + 2 * Span(Missed(v)')
        BY <1>1, <1>3, <2>1, KeeperNats
  <2> QED BY <2>2, Zenon DEF Behind
<1>4. CASE v # job.at
  <2>1. Missed(v) <= Missed(v)'
        BY <1>1, <1>4, AfterVault DEF Missed, KeeperInv, KeeperType
  <2>2. /\ Span(Missed(v)) \in Nat /\ Span(Missed(v)') \in Nat
        /\ Span(Missed(v)) <= Span(Missed(v)')
        BY <1>2, <2>1, Monotone, Zenon
  <2>3. 2 * (lastRun - proof[v]) <= INACTIVITY + 2 * Span(Missed(v)')
        BY <1>1, <2>2, KeeperNats DEF Behind
  <2> QED BY <2>3, <1>4, Zenon DEF Behind
<1> QED BY <1>3, <1>4, Zenon

\* An error ends the run: one more interval is missed, by every vault.
LEMMA RunEnds ==
    ASSUME KeeperInv, job' = NoJob, lastRun' = lastRun, aborts' = aborts + 1, proof' = proof,
           NEW v \in Vaults, Behind(v)
    PROVE  Behind(v)'
<1>1. lastRun \in Nat /\ proof[v] \in Nat /\ aborts \in Nat
      BY Zenon DEF KeeperInv, KeeperType
<1>2. Missed(v) \in Nat /\ Missed(v)' \in Nat /\ Missed(v) <= Missed(v)'
      BY <1>1, MissedNat DEF KeeperInv, KeeperType, JobType, Missed
<1>3. /\ Span(Missed(v)) \in Nat /\ Span(Missed(v)') \in Nat
      /\ Span(Missed(v)) <= Span(Missed(v)')
      BY <1>2, Monotone, Zenon
<1>4. 2 * (lastRun - proof[v]) <= INACTIVITY + 2 * Span(Missed(v)')
      BY <1>1, <1>3, KeeperNats DEF Behind
<1> QED BY <1>4, Zenon DEF Behind

LEMMA KeeperTypeStep == KeeperInv /\ [KeeperNext]_keeperVars => KeeperType'
<1> SUFFICES ASSUME KeeperInv, [KeeperNext]_keeperVars PROVE KeeperType'
    BY Zenon
<1>0. KeeperType
      BY Zenon DEF KeeperInv
<1>1. CASE KeeperTick
      BY <1>0, <1>1, KeeperNats DEF KeeperTick, KeeperType, JobType, NoJob
<1>2. CASE \E v \in Vaults : RevokeKeeper(v)
      BY <1>0, <1>2 DEF RevokeKeeper, KeeperType, JobType, NoJob
<1>3. CASE main
      BY <1>0, <1>3, VaultRange, KeeperNats DEF main, KeeperType, JobType, NoJob
<1>4. ASSUME job.pc # "idle" PROVE job # NoJob
      BY <1>4 DEF NoJob
<1>5. ASSUME job # NoJob, job' = NextVault, lastRun' = lastRun, now' = now PROVE JobType'
      BY <1>0, <1>5, AfterVault, Zenon DEF JobType
<1>6. CASE checkAuthorization
  <2>1. job # NoJob
        BY <1>6 DEF checkAuthorization, NoJob
  <2>2. CASE job' = NextVault
        BY <1>0, <1>5, <1>6, <2>1, <2>2, Zenon DEF checkAuthorization, KeeperType
  <2>3. CASE job' = [at |-> job.at, pc |-> "state", nowSeconds |-> now]
    <3>1. JobType'
          BY <1>0, <1>6, <2>1, <2>3 DEF checkAuthorization, KeeperType, JobType
    <3> QED BY <1>0, <1>6, <3>1, Zenon DEF checkAuthorization, KeeperType
  <2> QED BY <1>6, <2>2, <2>3, Zenon DEF checkAuthorization
<1>7. CASE checkDue
  <2>1. job # NoJob
        BY <1>7 DEF checkDue, NoJob
  <2>2. CASE job' = NextVault
        BY <1>0, <1>5, <1>7, <2>1, <2>2, Zenon DEF checkDue, KeeperType
  <2>3. CASE job' = [job EXCEPT !.pc = "relay"]
    <3>1. JobType'
          BY <1>0, <1>7, <2>1, <2>3, Zenon DEF checkDue, KeeperType, JobType
    <3> QED BY <1>0, <1>7, <3>1, Zenon DEF checkDue, KeeperType
  <2> QED BY <1>7, <2>2, <2>3, Zenon DEF checkDue
<1>8. CASE proveLifeByKeeper
  <2>1. job # NoJob
        BY <1>8 DEF proveLifeByKeeper, NoJob
  <2>2. CASE isAuthorized(job.at)
    <3>1. /\ proof' = [proof EXCEPT ![job.at] = now] /\ job' = NextVault /\ aborts' = aborts
          /\ now' = now /\ lastRun' = lastRun /\ authorized' = authorized
          BY <1>8, <2>2, Zenon DEF proveLifeByKeeper
    <3> QED BY <1>0, <1>5, <2>1, <3>1, Zenon DEF KeeperType
  <2>3. CASE ~ isAuthorized(job.at)
    <3>1. /\ aborts < MAX_ABORTS /\ aborts' = aborts + 1 /\ job' = NoJob /\ proof' = proof
          /\ now' = now /\ lastRun' = lastRun /\ authorized' = authorized
          BY <1>8, <2>3, Zenon DEF proveLifeByKeeper
    <3> QED BY <1>0, <3>1, KeeperNats DEF KeeperType, JobType, NoJob
  <2> QED BY <2>2, <2>3, Zenon
<1>9. CASE keeperFails
      BY <1>0, <1>9, KeeperNats DEF keeperFails, KeeperType, JobType, NoJob
<1>10. CASE UNCHANGED keeperVars
      BY <1>0, <1>10, Zenon DEF keeperVars, KeeperType, JobType, NoJob
<1> QED BY <1>1, <1>2, <1>3, <1>6, <1>7, <1>8, <1>9, <1>10, Zenon DEF KeeperNext

LEMMA KeeperStep == KeeperInv /\ [KeeperNext]_keeperVars => KeeperInv'
<1> SUFFICES ASSUME KeeperInv, [KeeperNext]_keeperVars PROVE KeeperInv'
    BY Zenon
<1>0. KeeperType /\ KeeperType'
      BY KeeperTypeStep, Zenon DEF KeeperInv
<1>1. CASE UNCHANGED keeperVars
      BY <1>0, <1>1, Zenon DEF keeperVars, KeeperInv, isAuthorized, Behind, Missed, NoJob
<1>2. CASE KeeperNext
  <2> SUFFICES ASSUME NEW v \in Vaults, isAuthorized(v)' PROVE Behind(v)'
      BY <1>0, Zenon DEF KeeperInv
  <2>1. isAuthorized(v) /\ Behind(v)
        BY <1>2, Standing, Zenon DEF KeeperInv
  <2>2. lastRun \in Nat /\ proof[v] \in Nat /\ now \in Nat /\ aborts \in Nat
        BY <1>0, Zenon DEF KeeperType
  <2>3. CASE KeeperTick \/ \E w \in Vaults : RevokeKeeper(w)
    <3>1. UNCHANGED <<lastRun, proof, job, aborts>>
          BY <2>3, Zenon DEF KeeperTick, RevokeKeeper
    <3> QED BY <2>1, <3>1, Zenon DEF Behind, Missed, NoJob
  <2>4. CASE main
    <3>1. Missed(v) = aborts /\ Missed(v)' = aborts + 1
          BY <2>2, <2>4, VaultRange DEF main, Missed, NoJob
    <3>2. lastRun' = now /\ proof' = proof /\ now <= lastRun + RUN_EVERY
          BY <1>0, <2>4, Zenon DEF main, KeeperType
    <3>3. /\ Span(aborts) \in Nat
          /\ Span(aborts + 1) = Span(aborts) + RUN_EVERY
          BY <2>2, Products, Zenon
    <3>4. 2 * (lastRun - proof[v]) <= INACTIVITY + 2 * Span(aborts)
          BY <2>1, <3>1, Zenon DEF Behind
    <3>5. 2 * (now - proof[v]) <= INACTIVITY + 2 * Span(aborts + 1)
          BY <2>2, <3>2, <3>3, <3>4, KeeperNats
    <3> QED BY <3>1, <3>2, <3>5, Zenon DEF Behind
  <2>5. CASE checkAuthorization
    <3>1. /\ job # NoJob /\ job.pc = "authorization" /\ lastRun' = lastRun /\ aborts' = aborts
          /\ proof' = proof
          BY <2>5 DEF checkAuthorization, NoJob
    <3>2. CASE isAuthorized(job.at)
      <4>1. job' = [at |-> job.at, pc |-> "state", nowSeconds |-> now]
            BY <2>5, <3>2, Zenon DEF checkAuthorization
      <4>2. job' # NoJob /\ job'.at = job.at
            BY <1>0, <3>1, <4>1, Zenon DEF KeeperType, JobType, NoJob
      <4> QED BY <2>1, <3>1, <4>2, Zenon DEF Behind, Missed
    <3>3. CASE ~ isAuthorized(job.at)
      <4>1. job' = NextVault
            BY <2>5, <3>3, Zenon DEF checkAuthorization
      <4> QED BY <1>0, <2>1, <3>1, <3>3, <4>1, LoopGoesOn, Zenon
    <3> QED BY <3>2, <3>3, Zenon
  <2>6. CASE checkDue
    <3>1. /\ job # NoJob /\ job.pc = "state" /\ lastRun' = lastRun /\ aborts' = aborts
          /\ proof' = proof
          BY <2>6 DEF checkDue, NoJob
    <3>2. CASE Due(job.nowSeconds - proof[job.at])
      <4>1. job' = [job EXCEPT !.pc = "relay"]
            BY <2>6, <3>2, Zenon DEF checkDue
      <4>2. job' # NoJob /\ job'.at = job.at
            BY <1>0, <3>1, <4>1, Zenon DEF KeeperType, JobType, NoJob
      <4> QED BY <2>1, <3>1, <4>2, Zenon DEF Behind, Missed
    <3>3. CASE ~ Due(job.nowSeconds - proof[job.at])
      <4>1. job' = NextVault
            BY <2>6, <3>3, Zenon DEF checkDue
      <4>2. job.nowSeconds \in Nat /\ job.nowSeconds >= lastRun
            BY <1>0, <3>1, Zenon DEF KeeperType, JobType
      <4>3. ~ (2 * (job.nowSeconds - proof[job.at]) >= INACTIVITY)
            BY <3>3, Zenon DEF Due
      <4>4. v = job.at => 2 * (lastRun - proof[v]) <= INACTIVITY
            BY <2>2, <4>2, <4>3, KeeperNats
      <4> QED BY <1>0, <2>1, <3>1, <4>1, <4>4, LoopGoesOn, Zenon
    <3> QED BY <3>2, <3>3, Zenon
  <2>7. CASE proveLifeByKeeper
    <3>1. job # NoJob /\ job.pc = "relay" /\ lastRun' = lastRun /\ job.at \in Vaults
          BY <1>0, <2>7 DEF proveLifeByKeeper, NoJob, KeeperType, JobType
    <3>2. CASE isAuthorized(job.at)
      <4>1. proof' = [proof EXCEPT ![job.at] = now] /\ job' = NextVault /\ aborts' = aborts
            BY <2>7, <3>2, Zenon DEF proveLifeByKeeper
      <4>2. v # job.at => proof'[v] = proof[v]
            BY <1>0, <3>1, <4>1, Zenon DEF KeeperType
      <4>3. proof'[job.at] = now /\ lastRun <= now
            BY <1>0, <3>1, <4>1, Zenon DEF KeeperType
      <4>4. v = job.at => 2 * (lastRun - proof'[v]) <= INACTIVITY
            BY <2>2, <4>3, KeeperNats
      <4> QED BY <1>0, <2>1, <3>1, <4>1, <4>2, <4>4, LoopGoesOn, Zenon
    <3>3. CASE ~ isAuthorized(job.at)
      <4>1. job' = NoJob /\ aborts' = aborts + 1 /\ proof' = proof
            BY <2>7, <3>3, Zenon DEF proveLifeByKeeper
      <4> QED BY <2>1, <3>1, <4>1, RunEnds, Zenon
    <3> QED BY <3>2, <3>3, Zenon
  <2>8. CASE keeperFails
    <3>1. job' = NoJob /\ aborts' = aborts + 1 /\ proof' = proof /\ lastRun' = lastRun
          BY <2>8, Zenon DEF keeperFails
    <3> QED BY <2>1, <3>1, RunEnds, Zenon
  <2> QED BY <1>2, <2>3, <2>4, <2>5, <2>6, <2>7, <2>8, Zenon DEF KeeperNext
<1> QED BY <1>1, <1>2, Zenon

LEMMA KeeperSafe == KeeperInv => KeptAlive
<1> SUFFICES ASSUME KeeperInv, NEW v \in Vaults, isAuthorized(v)
             PROVE  now - proof[v] <= INACTIVITY
    BY Zenon DEF KeptAlive
<1>1. Missed(v) \in Nat /\ Missed(v) <= MAX_ABORTS + 1
      BY MissedNat, KeeperNats DEF KeeperInv, KeeperType, Missed
<1>2. 2 * (lastRun - proof[v]) <= INACTIVITY + 2 * Span(MAX_ABORTS + 1)
  <2>1. /\ Span(Missed(v)) \in Nat /\ Span(MAX_ABORTS + 1) \in Nat
        /\ Span(Missed(v)) <= Span(MAX_ABORTS + 1)
        BY <1>1, Monotone, KeeperNats
  <2> QED BY <2>1, KeeperNats DEF KeeperInv, KeeperType, Behind
<1>3. /\ Span(MAX_ABORTS + 1) \in Nat
      /\ Span(MAX_ABORTS + 2) = Span(MAX_ABORTS + 1) + RUN_EVERY
      BY KeeperNats DEF Span
<1>4. INACTIVITY >= 2 * Span(MAX_ABORTS + 2)
      BY KeeperMargin, KeeperNats DEF Span
<1> QED BY <1>2, <1>3, <1>4, KeeperNats DEF KeeperInv, KeeperType
-----------------------------------------------------------------------------
\* The record of a cycle.  Until it scans, it stands at the first id with nothing noted; until
\* it counts, at the first type.
CycleOk(r) ==
    /\ DOMAIN r = {"pc", "latest", "type", "id", "limit", "todo", "attempt"}
    /\ r.pc \in {"idle", "instance", "extend", "count", "scan"}
    /\ r.latest \in Nat /\ r.type \in Types /\ r.id \in Nat \ {0} /\ r.limit \in 0 .. MAX_COUNT
    /\ r.todo \in Seq(Entries)
    /\ r.pc \in {"instance", "extend"} => r.type = 1
    /\ r.pc # "scan" => r.id = 1 /\ r.todo = <<>>

\* What a cycle has noted to extend.
Elements(t) == {t[i] : i \in 1 .. Len(t)}
Noted(r) == Elements(r.todo)

\* Entry e is still ahead of a cycle: it has yet to be looked at, or to be extended.
Ahead(r, e) ==
    \/ r.pc \in {"instance", "extend"}
    \/ r.pc = "count" /\ e # Instance /\ r.type <= e[1]
    \/ r.pc = "scan" /\ e # Instance /\ r.type < e[1]
    \/ r.pc = "scan" /\ e # Instance /\ r.type = e[1] /\ r.id <= e[2] /\ e[2] <= r.limit
    \/ r.pc = "scan" /\ e \in Noted(r)

\* The cycles that will find e low, and have it ahead of them.
Late(e) == {c \in Cycles : Ahead(cycle[c], e) /\ liveUntil[e] < cycle[c].latest + THRESHOLD}

\* How far an entry can have fallen behind, when the cycles in L will find it low, cycle c has
\* the ledger lat[c], the last cycle began at s, the entry lives until l and f calls failed: the
\* threshold is missed by one period for every failed call, if no cycle is about to extend the
\* entry, and by one more if one is.
Debt(f) == f * PERIOD

Within(L, lat, s, l, f) ==
    /\ L = {} => s + THRESHOLD <= l + Debt(f)
    /\ L # {} => \E c \in L : lat[c] + THRESHOLD <= l + Debt(f + 1)
    /\ (\A c, d \in L : lat[c] = lat[d]) => s + THRESHOLD <= l + Debt(f + 1)

Latest == [c \in Cycles |-> cycle[c].latest]

Covered(e) == Within(Late(e), Latest, lastStart, liveUntil[e], failures)

TtlType ==
    /\ ledger \in Nat /\ lastStart \in Nat /\ failures \in Nat /\ failures <= MAX_FAILURES
    /\ count \in [Types -> 0 .. MAX_COUNT] /\ liveUntil \in [Entries -> Nat]
    /\ cycle = [c \in Cycles |-> cycle[c]] /\ \A c \in Cycles : CycleOk(cycle[c])

\* The chain is no more than a period past the start of the last cycle, and of any running one.
Pace ==
    /\ lastStart <= ledger /\ ledger <= lastStart + PERIOD
    /\ \A c \in Cycles : cycle[c].pc # "idle" =>
          cycle[c].latest <= lastStart /\ ledger <= cycle[c].latest + PERIOD

TtlInv == TtlType /\ Pace /\ \A e \in Entries : Exists(e) => Covered(e)

LEMMA TtlNats ==
    /\ THRESHOLD \in Nat /\ EXTENSION \in Nat /\ PERIOD \in Nat /\ MAX_FAILURES \in Nat
    /\ MAX_COUNT \in Nat /\ MAX_ENTRIES \in Nat /\ MAX_COUNT <= MAX_ENTRIES
    /\ EXTENSION >= THRESHOLD
BY TtlConstants, TtlMargin, Zenon

LEMMA TypeRange == Len(EntityTypes) \in Nat /\ 1 \in Types /\ Types = 1 .. Len(EntityTypes)
BY TtlConstants DEF Types

LEMMA EntryParts ==
    ASSUME NEW e \in Entries, e # Instance
    PROVE  /\ e[1] \in Types /\ e[2] \in 1 .. MAX_COUNT /\ e = <<e[1], e[2]>>
           /\ e[1] \in Nat /\ e[2] \in Nat
<1>1. e \in Types \X (1 .. MAX_COUNT)
      BY Zenon DEF Entries
<1>2. e[1] \in Types /\ e[2] \in 1 .. MAX_COUNT /\ e = <<e[1], e[2]>>
      BY <1>1
<1> QED BY <1>2, TypeRange, TtlNats

LEMMA EntryMade ==
    ASSUME NEW k \in Types, NEW i \in 1 .. MAX_COUNT
    PROVE  <<k, i>> \in Entries /\ <<k, i>> # Instance
BY TypeRange DEF Entries, Instance

\* The number of attempts matters to nothing else.
LEMMA TriedFacts ==
    ASSUME NEW r, CycleOk(r), NEW n
    PROVE  /\ CycleOk(Tried(r, n)) /\ Tried(r, n).pc = r.pc /\ Tried(r, n).latest = r.latest
           /\ \A e : Ahead(Tried(r, n), e) <=> Ahead(r, e)
<1>1. DOMAIN r = {"pc", "latest", "type", "id", "limit", "todo", "attempt"}
      BY Zenon DEF CycleOk
<1>2. /\ DOMAIN Tried(r, n) = DOMAIN r
      /\ Tried(r, n).pc = r.pc /\ Tried(r, n).latest = r.latest /\ Tried(r, n).type = r.type
      /\ Tried(r, n).id = r.id /\ Tried(r, n).limit = r.limit /\ Tried(r, n).todo = r.todo
      BY <1>1, Zenon DEF Tried
<1>3. CycleOk(Tried(r, n))
      BY <1>2, Zenon DEF CycleOk
<1>4. \A e : Ahead(Tried(r, n), e) <=> Ahead(r, e)
      BY <1>2, Zenon DEF Ahead, Noted
<1> QED BY <1>2, <1>3, <1>4, Zenon

\* A step of cycle c: an entry it leaves behind without a failed call has its lifetime.
CycleStep(c) ==
    /\ UNCHANGED <<ledger, lastStart, count>>
    /\ failures' = failures \/ (failures' = failures + 1 /\ failures < MAX_FAILURES)
    /\ liveUntil' \in [Entries -> Nat]
    /\ \A e \in Entries : liveUntil'[e] = liveUntil[e] \/ liveUntil'[e] = ledger + EXTENSION
    /\ cycle' = [d \in Cycles |-> cycle'[d]] /\ \A d \in Cycles : d # c => cycle'[d] = cycle[d]
    /\ CycleOk(cycle'[c]) /\ cycle[c].pc # "idle"
    /\ cycle'[c].pc # "idle" => cycle'[c].latest = cycle[c].latest
    /\ \A e \in Entries : Exists(e) =>
          /\ Ahead(cycle'[c], e) => Ahead(cycle[c], e)
          /\ Ahead(cycle[c], e) /\ ~ Ahead(cycle'[c], e) /\ failures' = failures =>
                liveUntil'[e] >= cycle[c].latest + THRESHOLD

LEMMA DebtFacts ==
    ASSUME NEW f \in Nat
    PROVE  Debt(f) \in Nat /\ Debt(f + 1) = Debt(f) + PERIOD /\ Debt(0) = 0
BY TtlNats DEF Debt

\* An entry with the whole threshold ahead of it, at the start of the last cycle, is well.
LEMMA Fresh ==
    ASSUME NEW lat, NEW s \in Nat, NEW l \in Nat, NEW f \in Nat, l >= s + THRESHOLD
    PROVE  Within({}, lat, s, l, f)
<1>1. Debt(f) \in Nat /\ Debt(f + 1) \in Nat
      BY DebtFacts
<1>2. s + THRESHOLD <= l + Debt(f) /\ s + THRESHOLD <= l + Debt(f + 1)
      BY <1>1, TtlNats
<1> QED BY <1>2, Zenon DEF Within

\* A failed call changes nothing for the worse.
LEMMA StaysWithin ==
    ASSUME NEW L, NEW lat, NEW lat2, NEW s \in Nat, NEW l \in Nat, NEW f \in Nat, NEW g,
           g = f \/ g = f + 1,
           Within(L, lat, s, l, f), \A d \in L : lat[d] \in Nat /\ lat2[d] = lat[d]
    PROVE  Within(L, lat2, s, l, g)
<1>1. /\ Debt(f) \in Nat /\ Debt(f + 1) \in Nat /\ Debt(f + 1 + 1) \in Nat
      /\ Debt(f) <= Debt(f + 1) /\ Debt(f + 1) <= Debt(f + 1 + 1)
      BY DebtFacts, TtlNats
<1>2. CASE g = f
      BY <1>2, Zenon DEF Within
<1>3. CASE g = f + 1
  <2>1. L = {} => s + THRESHOLD <= l + Debt(g)
        BY <1>1, <1>3, TtlNats, Zenon DEF Within
  <2>2. ASSUME L # {} PROVE \E c \in L : lat2[c] + THRESHOLD <= l + Debt(g + 1)
    <3>1. PICK c \in L : lat[c] + THRESHOLD <= l + Debt(f + 1)
          BY <2>2, Zenon DEF Within
    <3>2. lat2[c] + THRESHOLD <= l + Debt(g + 1)
          BY <1>1, <1>3, <3>1, TtlNats
    <3> QED BY <3>2, Zenon
  <2>3. ASSUME \A c, d \in L : lat2[c] = lat2[d] PROVE s + THRESHOLD <= l + Debt(g + 1)
    <3>1. s + THRESHOLD <= l + Debt(f + 1)
          BY <2>3, Zenon DEF Within
    <3> QED BY <1>1, <1>3, <3>1, TtlNats
  <2> QED BY <2>1, <2>2, <2>3, Zenon DEF Within
<1> QED BY <1>2, <1>3, Zenon

\* A cycle leaves the entry behind by a failed call: it has a period more to fall behind, and
\* any other cycle is at most a period younger.
LEMMA LeftBehind ==
    ASSUME NEW L, NEW lat, NEW lat2, NEW s \in Nat, NEW l \in Nat, NEW f \in Nat, NEW c \in L,
           Within(L, lat, s, l, f),
           \A d \in L : lat[d] \in Nat /\ lat[d] <= s /\ s <= lat[d] + PERIOD,
           \A d \in L \ {c} : lat2[d] = lat[d]
    PROVE  Within(L \ {c}, lat2, s, l, f + 1)
<1>1. /\ Debt(f + 1) \in Nat /\ Debt(f + 1 + 1) \in Nat
      /\ Debt(f + 1 + 1) = Debt(f + 1) + PERIOD
      BY DebtFacts
<1>2. PICK b \in L : lat[b] + THRESHOLD <= l + Debt(f + 1)
      BY Zenon DEF Within
<1>3. ASSUME L \ {c} = {} PROVE s + THRESHOLD <= l + Debt(f + 1)
  <2>1. \A x, y \in L : lat[x] = lat[y]
        BY <1>3
  <2> QED BY <2>1, Zenon DEF Within
<1>4. ASSUME NEW d \in L \ {c} PROVE lat2[d] + THRESHOLD <= l + Debt(f + 1 + 1)
  <2>1. lat2[d] \in Nat /\ lat2[d] <= s
        BY <1>4, Zenon
  <2>2. s <= lat[b] + PERIOD /\ lat[b] \in Nat
        BY <1>2, Zenon
  <2> QED BY <1>1, <1>2, <2>1, <2>2, TtlNats
<1>5. s + THRESHOLD <= l + Debt(f + 1 + 1)
  <2>1. s <= lat[b] + PERIOD /\ lat[b] \in Nat
        BY <1>2, Zenon
  <2> QED BY <1>1, <1>2, <2>1, TtlNats
<1> QED BY <1>3, <1>4, <1>5, Zenon DEF Within

\* A cycle begins and will find the entry low.
LEMMA CycleBegins ==
    ASSUME NEW L, NEW lat, NEW lat2, NEW s \in Nat, NEW l \in Nat, NEW f \in Nat, NEW n \in Nat,
           NEW c, c \notin L, Within(L, lat, s, l, f), n <= s + PERIOD, lat2[c] = n,
           \A d \in L : lat[d] \in Nat /\ lat2[d] = lat[d]
    PROVE  Within(L \cup {c}, lat2, n, l, f)
<1>1. Debt(f) \in Nat /\ Debt(f + 1) \in Nat /\ Debt(f + 1) = Debt(f) + PERIOD
      BY DebtFacts
<1>2. CASE L = {}
  <2>1. s + THRESHOLD <= l + Debt(f)
        BY <1>2, Zenon DEF Within
  <2>2. n + THRESHOLD <= l + Debt(f + 1)
        BY <1>1, <2>1, TtlNats
  <2> QED BY <1>2, <2>2, Zenon DEF Within
<1>3. CASE L # {}
  <2>1. PICK b \in L : lat[b] + THRESHOLD <= l + Debt(f + 1)
        BY <1>3, Zenon DEF Within
  <2>2. lat2[b] = lat[b]
        BY <2>1, Zenon
  <2>3. ASSUME \A x, y \in L \cup {c} : lat2[x] = lat2[y] PROVE n + THRESHOLD <= l + Debt(f + 1)
        BY <2>1, <2>2, <2>3, Zenon
  <2> QED BY <2>1, <2>2, <2>3, Zenon DEF Within
<1> QED BY <1>2, <1>3, Zenon

\* A cycle fails before it has read the ledger.
LEMMA CycleMissed ==
    ASSUME NEW L, NEW lat, NEW s \in Nat, NEW l \in Nat, NEW f \in Nat, NEW n \in Nat,
           Within(L, lat, s, l, f), n <= s + PERIOD,
           \A d \in L : lat[d] \in Nat /\ n <= lat[d] + PERIOD
    PROVE  Within(L, lat, n, l, f + 1)
<1>1. /\ Debt(f) \in Nat /\ Debt(f + 1) \in Nat /\ Debt(f + 1) = Debt(f) + PERIOD
      /\ Debt(f + 1 + 1) \in Nat /\ Debt(f + 1 + 1) = Debt(f + 1) + PERIOD
      BY DebtFacts
<1>2. CASE L = {}
  <2>1. s + THRESHOLD <= l + Debt(f)
        BY <1>2, Zenon DEF Within
  <2>2. n + THRESHOLD <= l + Debt(f + 1) /\ n + THRESHOLD <= l + Debt(f + 1 + 1)
        BY <1>1, <2>1, TtlNats
  <2> QED BY <1>2, <2>2, Zenon DEF Within
<1>3. CASE L # {}
  <2>1. PICK b \in L : lat[b] + THRESHOLD <= l + Debt(f + 1)
        BY <1>3, Zenon DEF Within
  <2>2. lat[b] \in Nat /\ n <= lat[b] + PERIOD
        BY <2>1, Zenon
  <2>3. lat[b] + THRESHOLD <= l + Debt(f + 1 + 1) /\ n + THRESHOLD <= l + Debt(f + 1 + 1)
        BY <1>1, <2>1, <2>2, TtlNats
  <2> QED BY <1>3, <2>1, <2>3, Zenon DEF Within
<1> QED BY <1>2, <1>3, Zenon

\* No cycle is late for an entry that has the threshold ahead of it after a step.
LEMMA FreshCovered ==
    ASSUME TtlType', Pace', NEW e \in Entries, liveUntil'[e] >= lastStart' + THRESHOLD
    PROVE  Covered(e)'
<1>1. lastStart' \in Nat /\ liveUntil'[e] \in Nat /\ failures' \in Nat
      BY Zenon DEF TtlType
<1>2. ASSUME NEW c \in Late(e)' PROVE FALSE
  <2>1. c \in Cycles /\ Ahead(cycle'[c], e) /\ liveUntil'[e] < cycle'[c].latest + THRESHOLD
        BY <1>2, Zenon DEF Late
  <2>2. cycle'[c].pc # "idle" /\ cycle'[c].latest \in Nat
        BY <2>1, Zenon DEF Ahead, TtlType, CycleOk
  <2>3. cycle'[c].latest <= lastStart'
        BY <2>1, <2>2, Zenon DEF Pace
  <2> QED BY <1>1, <2>1, <2>2, <2>3, TtlNats
<1>3. Late(e)' = {}
      BY <1>2, Zenon
<1> QED BY <1>1, <1>3, Fresh, Zenon DEF Covered

LEMMA LateFacts ==
    ASSUME TtlType, Pace, NEW e \in Entries, NEW d \in Late(e)
    PROVE  /\ d \in Cycles /\ cycle[d].pc # "idle" /\ Latest[d] = cycle[d].latest
           /\ Latest[d] \in Nat /\ Latest[d] <= lastStart /\ ledger <= Latest[d] + PERIOD
           /\ lastStart <= Latest[d] + PERIOD
<1>1. d \in Cycles /\ Ahead(cycle[d], e)
      BY Zenon DEF Late
<1>2. cycle[d].pc # "idle" /\ cycle[d].latest \in Nat
      BY <1>1, Zenon DEF Ahead, TtlType, CycleOk
<1>3. /\ cycle[d].latest <= lastStart /\ ledger <= cycle[d].latest + PERIOD /\ lastStart <= ledger
      /\ lastStart \in Nat /\ ledger \in Nat
      BY <1>1, <1>2, Zenon DEF Pace, TtlType
<1>4. Latest[d] = cycle[d].latest
      BY <1>1, Zenon DEF Latest
<1> QED BY <1>1, <1>2, <1>3, <1>4, TtlNats

LEMMA CycleStepType ==
    ASSUME TtlInv, NEW c \in Cycles, CycleStep(c)
    PROVE  TtlType' /\ Pace'
<1>1. failures' \in Nat /\ failures' <= MAX_FAILURES
      BY TtlNats DEF TtlInv, TtlType, CycleStep
<1>2. \A d \in Cycles : CycleOk(cycle'[d])
      BY Zenon DEF TtlInv, TtlType, CycleStep
<1>3. TtlType'
      BY <1>1, <1>2, SMTT(30) DEF TtlInv, TtlType, CycleStep, CycleOk
<1>4. ASSUME NEW d \in Cycles, cycle'[d].pc # "idle"
      PROVE  cycle[d].pc # "idle" /\ cycle'[d].latest = cycle[d].latest
      BY <1>4, Zenon DEF CycleStep
<1>5. Pace'
      BY <1>4, Zenon DEF TtlInv, Pace, CycleStep
<1> QED BY <1>3, <1>5, Zenon

\* The entries stay covered when a cycle goes on.
LEMMA CycleStepCovers ==
    ASSUME TtlInv, NEW c \in Cycles, CycleStep(c), NEW e \in Entries, Exists(e)
    PROVE  Covered(e)'
<1>0. Covered(e) /\ TtlType /\ Pace /\ TtlType' /\ Pace'
      BY CycleStepType, Zenon DEF TtlInv
<1>1. /\ liveUntil[e] \in Nat /\ liveUntil'[e] \in Nat /\ lastStart \in Nat /\ ledger \in Nat
      /\ failures \in Nat /\ lastStart' = lastStart /\ lastStart <= ledger
      BY <1>0, Zenon DEF TtlType, CycleStep, Pace
<1>2. CASE liveUntil'[e] # liveUntil[e]
  <2>1. liveUntil'[e] = ledger + EXTENSION
        BY <1>2, Zenon DEF CycleStep
  <2>2. liveUntil'[e] >= lastStart' + THRESHOLD
        BY <1>1, <2>1, TtlNats
  <2> QED BY <1>0, <2>2, FreshCovered, Zenon
<1>3. CASE liveUntil'[e] = liveUntil[e]
  <2>1. ASSUME NEW d \in Cycles, d # c PROVE d \in Late(e)' <=> d \in Late(e)
        BY <1>3, <2>1, Zenon DEF Late, CycleStep
  <2>2. ASSUME c \in Late(e)' PROVE c \in Late(e) /\ cycle'[c].latest = cycle[c].latest
    <3>1. Ahead(cycle'[c], e) /\ liveUntil'[e] < cycle'[c].latest + THRESHOLD
          BY <2>2, Zenon DEF Late
    <3>2. cycle'[c].pc # "idle"
          BY <3>1, <1>0, Zenon DEF Ahead, TtlType, CycleOk
    <3> QED BY <1>3, <3>1, <3>2, Zenon DEF Late, CycleStep
  <2>3. \A d \in Late(e)' : d \in Late(e) /\ Latest'[d] = Latest[d]
    <3> TAKE d \in Late(e)'
    <3>1. d \in Cycles
          BY Zenon DEF Late
    <3>2. d \in Late(e) /\ cycle'[d].latest = cycle[d].latest
          BY <2>1, <2>2, <3>1, Zenon DEF CycleStep
    <3> QED BY <3>1, <3>2, Zenon DEF Latest
  <2>4. \A d \in Late(e) : Latest[d] \in Nat /\ Latest[d] <= lastStart /\ lastStart <= Latest[d] + PERIOD
        BY <1>0, LateFacts, Zenon
  <2>5. Within(Late(e), Latest, lastStart, liveUntil[e], failures)
        BY <1>0, Zenon DEF Covered
  <2>6. CASE c \in Late(e) => c \in Late(e)'
    <3>1. Late(e)' = Late(e)
          BY <2>1, <2>3, <2>6, Zenon DEF Late
    <3>2. failures' = failures \/ failures' = failures + 1
          BY Zenon DEF CycleStep
    <3>3. Within(Late(e), Latest', lastStart, liveUntil[e], failures')
          BY <1>1, <2>3, <2>4, <2>5, <3>1, <3>2, StaysWithin
    <3> QED BY <1>1, <1>3, <3>1, <3>3, Zenon DEF Covered
  <2>7. CASE c \in Late(e) /\ c \notin Late(e)'
    <3>1. Late(e)' = Late(e) \ {c}
          BY <2>1, <2>3, <2>7, Zenon DEF Late
    <3>2. Ahead(cycle[c], e) /\ liveUntil[e] < cycle[c].latest + THRESHOLD
          BY <2>7, Zenon DEF Late
    <3>3. ~ Ahead(cycle'[c], e)
      <4> SUFFICES ASSUME Ahead(cycle'[c], e) PROVE FALSE
          BY Zenon
      <4>1. cycle'[c].pc # "idle"
            BY <1>0, Zenon DEF Ahead, TtlType, CycleOk
      <4>2. cycle'[c].latest = cycle[c].latest
            BY <4>1, Zenon DEF CycleStep
      <4> QED BY <1>3, <2>7, <3>2, <4>2, Zenon DEF Late
    <3>4. cycle[c].latest \in Nat
          BY <1>0, Zenon DEF TtlType, CycleOk
    <3>5. failures' = failures + 1
          BY <1>1, <1>3, <3>2, <3>3, <3>4, TtlNats DEF CycleStep
    <3>6. Within(Late(e) \ {c}, Latest', lastStart, liveUntil[e], failures + 1)
          BY <1>1, <2>3, <2>4, <2>5, <2>7, <3>1, LeftBehind, Zenon
    <3> QED BY <1>1, <1>3, <3>1, <3>5, <3>6, SMTT(30) DEF Covered
  <2> QED BY <2>6, <2>7, Zenon
<1> QED BY <1>2, <1>3, Zenon

LEMMA CycleStepInv == ASSUME TtlInv, NEW c \in Cycles, CycleStep(c) PROVE TtlInv'
<1>1. ASSUME NEW e \in Entries, Exists(e)' PROVE Covered(e)'
  <2>1. Exists(e)
        BY <1>1, Zenon DEF CycleStep, Exists, Instance
  <2> QED BY <2>1, CycleStepCovers, Zenon
<1> QED BY <1>1, CycleStepType, Zenon DEF TtlInv

\* The first state: the instance has its lifetime, and nothing else exists.
LEMMA TtlStart == TtlInit => TtlInv
<1> SUFFICES ASSUME TtlInit PROVE TtlInv
    BY Zenon
<1>1. CycleOk(Idle)
  <2>1. <<>> \in Seq(Entries)
        OBVIOUS
  <2> QED BY <2>1, TypeRange, TtlNats DEF CycleOk, Idle
<1>2. TtlType
      BY <1>1, TtlNats DEF TtlInit, TtlType
<1>3. Pace
      BY TtlNats DEF TtlInit, Pace, Idle
<1>4. ASSUME NEW e \in Entries, Exists(e) PROVE e = Instance
      BY <1>4, EntryParts, TtlNats DEF TtlInit, Exists
<1>5. Late(Instance) = {}
      BY Zenon DEF TtlInit, Late, Ahead, Idle
<1>6. lastStart = 0 /\ failures = 0 /\ liveUntil[Instance] = THRESHOLD
      BY Zenon DEF TtlInit, Entries
<1>7. Within({}, Latest, 0, THRESHOLD, 0)
      BY Fresh, TtlNats
<1> QED BY <1>2, <1>3, <1>4, <1>5, <1>6, <1>7, Zenon DEF TtlInv, Covered

LEMMA LedgerStep == ASSUME TtlInv, CloseLedgerTtl PROVE TtlInv'
<1>1. TtlType'
      BY DEF TtlInv, TtlType, CloseLedgerTtl, CycleOk
<1>2. Pace'
  <2>1. /\ ledger \in Nat /\ lastStart \in Nat /\ lastStart <= ledger /\ ledger - lastStart < PERIOD
        /\ ledger' = ledger + 1 /\ lastStart' = lastStart /\ cycle' = cycle
        BY Zenon DEF TtlInv, TtlType, Pace, CloseLedgerTtl
  <2>2. ASSUME NEW c \in Cycles, cycle[c].pc # "idle"
        PROVE  cycle[c].latest <= lastStart /\ ledger + 1 <= cycle[c].latest + PERIOD
    <3>1. cycle[c].latest \in Nat /\ cycle[c].latest <= lastStart /\ c \in Running
          BY <2>2, Zenon DEF TtlInv, TtlType, CycleOk, Pace, Running
    <3>2. ledger - cycle[c].latest < PERIOD
          BY <3>1, Zenon DEF CloseLedgerTtl
    <3> QED BY <2>1, <3>1, <3>2, TtlNats
  <2> QED BY <2>1, <2>2, TtlNats DEF Pace
<1>3. \A e \in Entries : (Exists(e)' => Exists(e)) /\ (Covered(e) => Covered(e)')
      BY Zenon DEF CloseLedgerTtl, Exists, Covered, Late, Latest, Instance
<1> QED BY <1>1, <1>2, <1>3, Zenon DEF TtlInv

\* A new entry starts with the threshold ahead of it.
LEMMA CreateStep == ASSUME TtlInv, NEW k \in Types, CreateEntity(k) PROVE TtlInv'
<1> DEFINE new == <<k, count[k] + 1>>
<1>1. count[k] \in 0 .. MAX_COUNT /\ count[k] < MAX_COUNT /\ ledger \in Nat /\ lastStart \in Nat
      BY Zenon DEF TtlInv, TtlType, CreateEntity
<1>2. new \in Entries /\ new # Instance
      BY <1>1, EntryMade, TtlNats
<1>3. /\ count' = [count EXCEPT ![k] = count[k] + 1]
      /\ liveUntil' = [liveUntil EXCEPT ![new] = ledger + THRESHOLD]
      /\ UNCHANGED <<ledger, cycle, lastStart, failures>>
      BY Zenon DEF CreateEntity
<1> HIDE DEF new
<1>4. TtlType'
  <2>1. count' \in [Types -> 0 .. MAX_COUNT]
        BY <1>1, <1>3, TtlNats DEF TtlInv, TtlType
  <2>2. liveUntil' \in [Entries -> Nat]
        BY <1>1, <1>2, <1>3, TtlNats DEF TtlInv, TtlType
  <2> QED BY <1>3, <2>1, <2>2, Zenon DEF TtlInv, TtlType
<1>5. Pace'
      BY <1>3, Zenon DEF TtlInv, Pace
<1>6. ASSUME NEW e \in Entries, e # new, Exists(e)' PROVE Exists(e)
  <2>1. CASE e = Instance
        BY <2>1, Zenon DEF Exists
  <2>2. CASE e # Instance
    <3>1. e[1] \in Types /\ e[2] \in Nat /\ e = <<e[1], e[2]>> /\ e[2] <= count'[e[1]]
          BY <1>6, <2>2, EntryParts, Zenon DEF Exists
    <3>2. CASE e[1] = k
      <4>1. count'[e[1]] = count[k] + 1
            BY <1>3, <3>2, Zenon DEF TtlInv, TtlType
      <4>2. e[2] # count[k] + 1
            BY <1>6, <3>1, <3>2, Zenon DEF new
      <4> QED BY <1>1, <3>1, <3>2, <4>1, <4>2 DEF Exists
    <3>3. CASE e[1] # k
      <4>1. count'[e[1]] = count[e[1]]
            BY <1>3, <3>1, <3>3, Zenon DEF TtlInv, TtlType
      <4> QED BY <3>1, <4>1, Zenon DEF Exists
    <3> QED BY <3>2, <3>3, Zenon
  <2> QED BY <2>1, <2>2, Zenon
<1>7. ASSUME NEW e \in Entries, Exists(e)' PROVE Covered(e)'
  <2>1. CASE e = new
    <3>1. liveUntil'[e] = ledger + THRESHOLD
          BY <1>2, <1>3, <2>1, Zenon DEF TtlInv, TtlType
    <3>2. liveUntil'[e] >= lastStart' + THRESHOLD
          BY <1>1, <1>3, <3>1, TtlNats DEF TtlInv, Pace
    <3> QED BY <1>4, <1>5, <3>2, FreshCovered, Zenon
  <2>2. CASE e # new
    <3>1. Covered(e)
          BY <1>6, <1>7, <2>2, Zenon DEF TtlInv
    <3>2. liveUntil'[e] = liveUntil[e]
          BY <1>2, <1>3, <2>2, Zenon DEF TtlInv, TtlType
    <3>3. Late(e)' = Late(e) /\ Latest' = Latest
          BY <1>3, <3>2, Zenon DEF Late, Latest, Instance
    <3> QED BY <1>3, <3>1, <3>2, <3>3, Zenon DEF Covered
  <2> QED BY <2>1, <2>2, Zenon
<1> QED BY <1>4, <1>5, <1>7, Zenon DEF TtlInv

\* A cycle begins: it has every entry ahead of it.
LEMMA StartStep == ASSUME TtlInv, NEW c \in Cycles, runRelayerCycle(c) PROVE TtlInv'
<1>0. TtlType /\ Pace /\ cycle[c].pc = "idle"
      BY Zenon DEF TtlInv, runRelayerCycle
<1>1. /\ ledger \in Nat /\ lastStart \in Nat /\ failures \in Nat /\ lastStart <= ledger
      /\ ledger <= lastStart + PERIOD
      BY <1>0, Zenon DEF TtlType, Pace
<1>2. UNCHANGED <<ledger, count, liveUntil>> /\ lastStart' = ledger
      BY Zenon DEF runRelayerCycle
<1>3. \A e \in Entries : Exists(e)' => Exists(e)
      BY <1>2, Zenon DEF Exists, Instance
<1>4. \A e \in Entries : liveUntil[e] \in Nat
      BY <1>0, Zenon DEF TtlType
<1>5. ASSUME Fail, cycle' = cycle PROVE TtlInv'
  <2>1. failures' = failures + 1 /\ failures < MAX_FAILURES
        BY <1>5, Zenon DEF Fail
  <2>2. TtlType'
    <3>1. failures' \in Nat /\ failures' <= MAX_FAILURES
          BY <1>1, <2>1, TtlNats
    <3> QED BY <1>0, <1>2, <1>5, <3>1, Zenon DEF TtlType
  <2>3. Pace'
    <3>1. ASSUME NEW d \in Cycles, cycle[d].pc # "idle"
          PROVE  cycle[d].latest <= ledger /\ ledger <= cycle[d].latest + PERIOD
          BY <1>0, <1>1, <3>1 DEF TtlType, CycleOk, Pace
    <3> QED BY <1>1, <1>2, <1>5, <3>1, TtlNats DEF Pace
  <2>4. ASSUME NEW e \in Entries, Exists(e)' PROVE Covered(e)'
    <3>1. Within(Late(e), Latest, lastStart, liveUntil[e], failures)
          BY <1>3, <2>4, Zenon DEF TtlInv, Covered
    <3>2. \A d \in Late(e) : Latest[d] \in Nat /\ ledger <= Latest[d] + PERIOD
          BY <1>0, LateFacts, Zenon
    <3>3. Within(Late(e), Latest, ledger, liveUntil[e], failures + 1)
          BY <1>1, <1>4, <3>1, <3>2, CycleMissed, SMTT(30)
    <3>4. Late(e)' = Late(e) /\ Latest' = Latest
          BY <1>2, <1>5, Zenon DEF Late, Latest, Instance
    <3> QED BY <1>2, <2>1, <3>3, <3>4, Zenon DEF Covered
  <2> QED BY <2>2, <2>3, <2>4, Zenon DEF TtlInv
<1>6. ASSUME cycle' = [cycle EXCEPT ![c] = [Idle EXCEPT !.pc = "instance", !.latest = ledger]],
             failures' = failures
      PROVE  TtlInv'
  <2> DEFINE r == [Idle EXCEPT !.pc = "instance", !.latest = ledger]
  <2>1. /\ DOMAIN r = {"pc", "latest", "type", "id", "limit", "todo", "attempt"}
        /\ r.pc = "instance" /\ r.latest = ledger /\ r.type = 1 /\ r.id = 1 /\ r.limit = 0
        /\ r.todo = <<>>
        BY Zenon DEF Idle
  <2> HIDE DEF r
  <2>2. CycleOk(r)
    <3>1. <<>> \in Seq(Entries)
          OBVIOUS
    <3> QED BY <1>1, <2>1, <3>1, TypeRange, TtlNats DEF CycleOk
  <2>3. cycle'[c] = r /\ \A d \in Cycles : d # c => cycle'[d] = cycle[d]
        BY <1>0, <1>6, Zenon DEF TtlType, r
  <2>4. TtlType'
    <3>1. cycle' = [d \in Cycles |-> cycle'[d]]
          BY <1>0, <1>6, Zenon DEF TtlType
    <3>2. \A d \in Cycles : CycleOk(cycle'[d])
          BY <1>0, <2>2, <2>3, Zenon DEF TtlType
    <3> QED BY <1>0, <1>2, <1>6, <3>1, <3>2, Zenon DEF TtlType
  <2>5. Pace'
    <3>1. ASSUME NEW d \in Cycles, cycle'[d].pc # "idle"
          PROVE  cycle'[d].latest <= ledger /\ ledger <= cycle'[d].latest + PERIOD
      <4>1. CASE d = c
            BY <1>1, <2>1, <2>3, <4>1, TtlNats
      <4>2. CASE d # c
            BY <1>0, <1>1, <2>3, <3>1, <4>2 DEF TtlType, CycleOk, Pace
      <4> QED BY <4>1, <4>2, Zenon
    <3> QED BY <1>1, <1>2, <3>1, TtlNats DEF Pace
  <2>6. ASSUME NEW e \in Entries, Exists(e)' PROVE Covered(e)'
    <3>1. CASE liveUntil[e] >= ledger + THRESHOLD
          BY <1>2, <2>4, <2>5, <3>1, FreshCovered, Zenon
    <3>2. CASE liveUntil[e] < ledger + THRESHOLD
      <4>1. Within(Late(e), Latest, lastStart, liveUntil[e], failures)
            BY <1>3, <2>6, Zenon DEF TtlInv, Covered
      <4>2. c \notin Late(e)
            BY <1>0, Zenon DEF Late, Ahead
      <4>3. Latest'[c] = ledger
            BY <2>1, <2>3, SMTT(30) DEF Latest
      <4>4. \A d \in Late(e) : Latest[d] \in Nat /\ Latest'[d] = Latest[d]
            BY <1>0, <2>3, <4>2, LateFacts, SMTT(30) DEF Latest
      <4>5. Late(e)' = Late(e) \cup {c}
            BY <1>2, <2>1, <2>3, <3>2 DEF Late, Ahead
      <4>6. Within(Late(e) \cup {c}, Latest', ledger, liveUntil[e], failures)
            BY <1>1, <1>4, <4>1, <4>2, <4>3, <4>4, CycleBegins, Zenon
      <4> QED BY <1>2, <1>6, <4>5, <4>6, Zenon DEF Covered
    <3> QED BY <1>1, <1>4, <3>1, <3>2, TtlNats
  <2> QED BY <2>4, <2>5, <2>6, Zenon DEF TtlInv
<1> QED BY <1>5, <1>6, Zenon DEF runRelayerCycle

LEMMA DebtBound ==
    ASSUME NEW f \in Nat, f <= MAX_FAILURES
    PROVE  /\ Debt(f) \in Nat /\ Debt(f + 1) \in Nat /\ Debt(f) + PERIOD <= THRESHOLD
           /\ Debt(f + 1) + PERIOD <= THRESHOLD
<1>1. f * PERIOD <= MAX_FAILURES * PERIOD
      BY TtlNats
<1>2. (MAX_FAILURES + 2) * PERIOD = MAX_FAILURES * PERIOD + PERIOD + PERIOD
      BY TtlNats
<1>3. THRESHOLD >= (MAX_FAILURES + 2) * PERIOD
      BY TtlMargin, Zenon
<1>4. Debt(f) \in Nat /\ Debt(f + 1) = Debt(f) + PERIOD /\ Debt(f) = f * PERIOD
      BY DebtFacts, Zenon DEF Debt
<1>5. MAX_FAILURES * PERIOD \in Nat
      BY TtlNats
<1> QED BY <1>1, <1>2, <1>3, <1>4, <1>5, TtlNats

\* What is covered has not run out.
LEMMA TtlSafe == ASSUME TtlInv, NEW e \in Entries, Exists(e) PROVE liveUntil[e] >= ledger
<1>1. /\ liveUntil[e] \in Nat /\ ledger \in Nat /\ lastStart \in Nat /\ failures \in Nat
      /\ failures <= MAX_FAILURES /\ ledger <= lastStart + PERIOD
      BY Zenon DEF TtlInv, TtlType, Pace
<1>2. /\ Debt(failures) \in Nat /\ Debt(failures + 1) \in Nat
      /\ Debt(failures) + PERIOD <= THRESHOLD /\ Debt(failures + 1) + PERIOD <= THRESHOLD
      BY <1>1, DebtBound, Zenon
<1>3. Within(Late(e), Latest, lastStart, liveUntil[e], failures)
      BY Zenon DEF TtlInv, Covered
<1>4. CASE Late(e) = {}
  <2>1. lastStart + THRESHOLD <= liveUntil[e] + Debt(failures)
        BY <1>3, <1>4, Zenon DEF Within
  <2> QED BY <1>1, <1>2, <2>1, TtlNats
<1>5. CASE Late(e) # {}
  <2>1. PICK c \in Late(e) : Latest[c] + THRESHOLD <= liveUntil[e] + Debt(failures + 1)
        BY <1>3, <1>5, Zenon DEF Within
  <2>2. Latest[c] \in Nat /\ ledger <= Latest[c] + PERIOD
        BY <2>1, LateFacts, Zenon DEF TtlInv
  <2> QED BY <1>1, <1>2, <2>1, <2>2, TtlNats
<1> QED BY <1>4, <1>5, Zenon

\* A record a cycle may go on with: nothing that was behind it is ahead of it again.
GoesOn(r, next) ==
    /\ CycleOk(next)
    /\ next.pc # "idle" => next.latest = r.latest
    /\ \A e \in Entries : Exists(e) /\ Ahead(next, e) => Ahead(r, e)

\* An entry it leaves behind has its lifetime.
LeavesNone(r, next) ==
    \A e \in Entries : Exists(e) /\ Ahead(r, e) /\ ~ Ahead(next, e) =>
                          liveUntil'[e] >= r.latest + THRESHOLD

Extending ==
    /\ liveUntil' \in [Entries -> Nat]
    /\ \A e \in Entries : liveUntil'[e] = liveUntil[e] \/ liveUntil'[e] = ledger + EXTENSION

LEMMA NewRecord ==
    ASSUME TtlInv, NEW c \in Cycles, NEW next, cycle' = [cycle EXCEPT ![c] = next]
    PROVE  /\ cycle' = [d \in Cycles |-> cycle'[d]] /\ cycle'[c] = next
           /\ \A d \in Cycles : d # c => cycle'[d] = cycle[d]
BY Zenon DEF TtlInv, TtlType

\* The record is replaced: a step of the cycle if the call failed or nothing is left behind.
LEMMA RecordStep ==
    ASSUME TtlInv, NEW c \in Cycles, NEW next, cycle' = [cycle EXCEPT ![c] = next],
           cycle[c].pc # "idle", UNCHANGED <<ledger, lastStart, count>>, Extending,
           GoesOn(cycle[c], next), Fail \/ (failures' = failures /\ LeavesNone(cycle[c], next))
    PROVE  CycleStep(c)
<1>1. /\ cycle' = [d \in Cycles |-> cycle'[d]] /\ cycle'[c] = next
      /\ \A d \in Cycles : d # c => cycle'[d] = cycle[d]
      BY NewRecord, Zenon
<1>2. failures' = failures \/ (failures' = failures + 1 /\ failures < MAX_FAILURES)
      BY Zenon DEF Fail
<1>3. failures \in Nat /\ (failures' = failures => LeavesNone(cycle[c], next))
      BY DEF Fail, TtlInv, TtlType
<1> QED BY <1>1, <1>2, <1>3, Zenon DEF CycleStep, GoesOn, LeavesNone, Extending

LEMMA TriedOn ==
    ASSUME NEW r, NEW next, NEW n, GoesOn(r, next)
    PROVE  GoesOn(r, Tried(next, n)) /\ (LeavesNone(r, next) => LeavesNone(r, Tried(next, n)))
<1>1. CycleOk(next)
      BY Zenon DEF GoesOn
<1>2. /\ CycleOk(Tried(next, n)) /\ Tried(next, n).pc = next.pc
      /\ Tried(next, n).latest = next.latest
      /\ \A e : Ahead(Tried(next, n), e) <=> Ahead(next, e)
      BY <1>1, TriedFacts, Zenon
<1> QED BY <1>2, Zenon DEF GoesOn, LeavesNone

\* withRetry, and a call that succeeds.
LEMMA RetryStep ==
    ASSUME TtlInv, NEW c \in Cycles, NEW next, withRetry(c, next), cycle[c].pc # "idle",
           UNCHANGED <<ledger, lastStart, count>>, Extending, GoesOn(cycle[c], next)
    PROVE  CycleStep(c)
<1>1. GoesOn(cycle[c], cycle[c])
      BY Zenon DEF GoesOn, TtlInv, TtlType
<1>2. CASE cycle[c].attempt < MAX_RETRIES
  <2>1. cycle' = [cycle EXCEPT ![c] = Tried(cycle[c], cycle[c].attempt + 1)] /\ Fail
        BY <1>2, Zenon DEF withRetry
  <2>2. GoesOn(cycle[c], Tried(cycle[c], cycle[c].attempt + 1))
        BY <1>1, TriedOn, Zenon
  <2> QED BY <2>1, <2>2, RecordStep, Zenon
<1>3. CASE ~ (cycle[c].attempt < MAX_RETRIES)
  <2>1. cycle' = [cycle EXCEPT ![c] = Tried(next, 1)] /\ Fail
        BY <1>3, SMTT(30) DEF withRetry
  <2>2. GoesOn(cycle[c], Tried(next, 1))
        BY TriedOn, Zenon
  <2> QED BY <2>1, <2>2, RecordStep, Zenon
<1> QED BY <1>2, <1>3, Zenon

LEMMA OntoStep ==
    ASSUME TtlInv, NEW c \in Cycles, NEW next, onto(c, next), cycle[c].pc # "idle",
           UNCHANGED <<ledger, lastStart, count>>, Extending, GoesOn(cycle[c], next),
           LeavesNone(cycle[c], next)
    PROVE  CycleStep(c)
<1>1. cycle' = [cycle EXCEPT ![c] = Tried(next, 1)] /\ failures' = failures
      BY Zenon DEF onto
<1>2. GoesOn(cycle[c], Tried(next, 1)) /\ LeavesNone(cycle[c], Tried(next, 1))
      BY TriedOn, Zenon
<1> QED BY <1>1, <1>2, RecordStep, Zenon
-----------------------------------------------------------------------------
\* The fields of a record that the proofs look at.
Fields(r, pc, latest, type, id, limit, todo) ==
    /\ DOMAIN r = {"pc", "latest", "type", "id", "limit", "todo", "attempt"}
    /\ r.pc = pc /\ r.latest = latest /\ r.type = type /\ r.id = id /\ r.limit = limit
    /\ r.todo = todo

LEMMA Unextended == ASSUME TtlInv, liveUntil' = liveUntil PROVE Extending
BY Zenon DEF Extending, TtlInv, TtlType

LEMMA Extends ==
    ASSUME TtlInv, NEW B, liveUntil' = Extended(B)
    PROVE  /\ Extending
           /\ \A e \in Entries : e \in B => liveUntil'[e] = ledger + EXTENSION
           /\ \A e \in Entries : e \notin B => liveUntil'[e] = liveUntil[e]
<1>1. \A e \in Entries : liveUntil'[e] = IF e \in B THEN ledger + EXTENSION ELSE liveUntil[e]
      BY Zenon DEF Extended
<1>2. ledger + EXTENSION \in Nat /\ \A e \in Entries : liveUntil[e] \in Nat
      BY TtlNats DEF TtlInv, TtlType
<1>3. liveUntil' \in [Entries -> Nat]
      BY <1>2, Zenon DEF Extended
<1> QED BY <1>1, <1>3, Zenon DEF Extending

\* A cycle that extends an entry gives it its lifetime.
LEMMA ExtendedEnough ==
    ASSUME TtlInv, NEW c \in Cycles, cycle[c].pc # "idle"
    PROVE  /\ ledger + EXTENSION >= cycle[c].latest + THRESHOLD
           /\ cycle[c].latest \in Nat /\ ledger \in Nat
<1>1. /\ cycle[c].latest \in Nat /\ ledger \in Nat /\ lastStart \in Nat
      /\ cycle[c].latest <= lastStart /\ lastStart <= ledger
      BY Zenon DEF TtlInv, TtlType, CycleOk, Pace
<1> QED BY <1>1, TtlNats

\* An entry that is not low has its lifetime.
LEMMA NotBelow ==
    ASSUME TtlInv, NEW c \in Cycles, NEW e \in Entries, Exists(e), ~ Below(c, e)
    PROVE  liveUntil[e] >= cycle[c].latest + THRESHOLD
<1>1. liveUntil[e] >= ledger
      BY TtlSafe, Zenon
<1>2. liveUntil[e] \in Nat /\ cycle[c].latest \in Nat /\ ledger \in Nat
      BY Zenon DEF TtlInv, TtlType, CycleOk
<1> QED BY <1>1, <1>2, TtlNats DEF Below

\* From the instance on to the first type, everything but the instance is ahead.
LEMMA ToCount ==
    ASSUME TtlInv, NEW c \in Cycles, cycle[c].pc \in {"instance", "extend"}
    PROVE  /\ GoesOn(cycle[c], [cycle[c] EXCEPT !.pc = "count"])
           /\ \A e \in Entries : e # Instance => Ahead([cycle[c] EXCEPT !.pc = "count"], e)
<1> DEFINE r == cycle[c]
           next == [r EXCEPT !.pc = "count"]
<1>1. CycleOk(r) /\ r.type = 1 /\ r.id = 1 /\ r.todo = <<>>
      BY SMTT(30) DEF TtlInv, TtlType, CycleOk
<1>2. Fields(next, "count", r.latest, r.type, r.id, r.limit, r.todo)
      BY <1>1, Zenon DEF Fields, CycleOk
<1> HIDE DEF r, next
<1>3. CycleOk(next)
      BY <1>1, <1>2, Zenon DEF Fields, CycleOk
<1>4. \A e : Ahead(r, e)
      BY Zenon DEF Ahead, r
<1>5. ASSUME NEW e \in Entries, e # Instance PROVE Ahead(next, e)
  <2>1. e[1] \in Types /\ e[1] >= 1
        BY <1>5, EntryParts, TypeRange
  <2> QED BY <1>1, <1>2, <1>5, <2>1 DEF Fields, Ahead
<1>6. GoesOn(r, next)
      BY <1>2, <1>3, <1>4, Zenon DEF GoesOn, Fields
<1> QED BY <1>5, <1>6, Zenon DEF r, next

LEMMA InstanceStep ==
    ASSUME TtlInv, NEW c \in Cycles, fetchInstanceTtl(c)
    PROVE  CycleStep(c)
<1>1. /\ cycle[c].pc = "instance" /\ UNCHANGED <<ledger, lastStart, count>> /\ liveUntil' = liveUntil
      /\ cycle[c].pc # "idle"
      BY Zenon DEF fetchInstanceTtl
<1>2. Extending
      BY <1>1, Unextended, Zenon
<1>3. /\ GoesOn(cycle[c], [cycle[c] EXCEPT !.pc = "count"])
      /\ \A e \in Entries : e # Instance => Ahead([cycle[c] EXCEPT !.pc = "count"], e)
      BY <1>1, ToCount, Zenon
<1>4. CASE withRetry(c, [cycle[c] EXCEPT !.pc = "count"])
      BY <1>1, <1>2, <1>3, <1>4, RetryStep, Zenon
<1>5. CASE onto(c, [cycle[c] EXCEPT !.pc = "count"]) /\ ~ Below(c, Instance)
  <2>1. Instance \in Entries /\ Exists(Instance)
        BY Zenon DEF Entries, Exists
  <2>2. liveUntil'[Instance] >= cycle[c].latest + THRESHOLD
        BY <1>1, <1>5, <2>1, NotBelow, Zenon
  <2>3. LeavesNone(cycle[c], [cycle[c] EXCEPT !.pc = "count"])
        BY <1>3, <2>2, Zenon DEF LeavesNone
  <2> QED BY <1>1, <1>2, <1>3, <1>5, <2>3, OntoStep, Zenon
<1>6. CASE onto(c, [cycle[c] EXCEPT !.pc = "extend"])
  <2> DEFINE r == cycle[c]
             next == [r EXCEPT !.pc = "extend"]
  <2>1. CycleOk(r) /\ r.type = 1 /\ r.id = 1 /\ r.todo = <<>>
        BY <1>1, SMTT(30) DEF TtlInv, TtlType, CycleOk
  <2>2. Fields(next, "extend", r.latest, r.type, r.id, r.limit, r.todo)
        BY <2>1, SMTT(30) DEF Fields, CycleOk
  <2> HIDE DEF next
  <2>3. CycleOk(next)
        BY <2>1, <2>2, Zenon DEF Fields, CycleOk
  <2>4. \A e : Ahead(r, e) /\ Ahead(next, e)
        BY <1>1, <2>2, Zenon DEF Ahead, Fields
  <2>5. GoesOn(r, next) /\ LeavesNone(r, next)
        BY <2>2, <2>3, <2>4, Zenon DEF GoesOn, LeavesNone, Fields
  <2>6. onto(c, next)
        BY <1>6, Zenon DEF next
  <2> QED BY <1>1, <1>2, <2>5, <2>6, OntoStep, Zenon
<1> QED BY <1>4, <1>5, <1>6, Zenon DEF fetchInstanceTtl

\* A batch is submitted: what it extends may be left behind.
LEMMA SubmitStep ==
    ASSUME TtlInv, NEW c \in Cycles, cycle[c].pc # "idle", NEW B, NEW next,
           submitBatchTtlExtensionTx(c, B, next), GoesOn(cycle[c], next),
           \A e \in Entries : Ahead(cycle[c], e) /\ ~ Ahead(next, e) => e \in B
    PROVE  CycleStep(c)
<1>1. UNCHANGED <<ledger, lastStart, count>>
      BY Zenon DEF submitBatchTtlExtensionTx
<1>2. CASE onto(c, next) /\ liveUntil' = Extended(B)
  <2>1. Extending /\ \A e \in Entries : e \in B => liveUntil'[e] = ledger + EXTENSION
        BY <1>2, Extends, Zenon
  <2>2. LeavesNone(cycle[c], next)
        BY <2>1, ExtendedEnough, SMTT(30) DEF LeavesNone
  <2> QED BY <1>1, <1>2, <2>1, <2>2, OntoStep, ZenonT(30)
<1>3. CASE withRetry(c, next) /\ liveUntil' \in {liveUntil, Extended(B)}
  <2>1. Extending
        BY <1>3, Extends, Unextended, SMTT(30)
  <2> QED BY <1>1, <1>3, <2>1, RetryStep, ZenonT(30)
<1> QED BY <1>2, <1>3, Zenon DEF submitBatchTtlExtensionTx

LEMMA ExtendStep ==
    ASSUME TtlInv, NEW c \in Cycles, extendInstance(c)
    PROVE  CycleStep(c)
<1> DEFINE next == [cycle[c] EXCEPT !.pc = "count"]
<1>1. cycle[c].pc = "extend" /\ submitBatchTtlExtensionTx(c, {Instance}, next)
      BY Zenon DEF extendInstance
<1>2. GoesOn(cycle[c], next) /\ \A e \in Entries : e # Instance => Ahead(next, e)
      BY <1>1, ToCount, Zenon
<1> HIDE DEF next
<1>3. cycle[c].pc # "idle"
      BY <1>1, Zenon
<1>4. \A e \in Entries : Ahead(cycle[c], e) /\ ~ Ahead(next, e) => e \in {Instance}
      BY <1>2
<1> QED BY <1>1, <1>2, <1>3, <1>4, SubmitStep, Zenon

\* On to the next type: the entries of later types are ahead.
LEMMA NextTypeFacts ==
    ASSUME TtlInv, NEW c \in Cycles, cycle[c].pc \in {"count", "scan"}
    PROVE  /\ GoesOn(cycle[c], NextType(c))
           /\ \A e \in Entries : e # Instance /\ cycle[c].type < e[1] => Ahead(NextType(c), e)
<1> DEFINE r == cycle[c]
           next == NextType(c)
<1>1. CycleOk(r) /\ r.type \in Types /\ r.type \in Nat
      BY TypeRange, SMTT(30) DEF TtlInv, TtlType, CycleOk
<1>2. <<>> \in Seq(Entries)
      OBVIOUS
<1>3. CASE r.type < Len(EntityTypes)
  <2>1. next = [Idle EXCEPT !.pc = "count", !.latest = r.latest, !.type = r.type + 1]
        BY <1>3, Zenon DEF NextType
  <2>2. Fields(next, "count", r.latest, r.type + 1, 1, 0, <<>>)
        BY <2>1 DEF Fields, Idle
  <2> HIDE DEF next
  <2>3. CycleOk(next)
        BY <1>1, <1>2, <1>3, <2>2, TypeRange, TtlNats DEF Fields, CycleOk
  <2>4. ASSUME NEW e \in Entries PROVE Ahead(next, e) <=> e # Instance /\ r.type < e[1]
        BY <1>1, <2>2, EntryParts DEF Fields, Ahead
  <2>5. ASSUME NEW e \in Entries, e # Instance, r.type < e[1] PROVE Ahead(r, e)
        BY <1>1, <2>5, EntryParts, SMTT(30) DEF Ahead
  <2>6. GoesOn(r, next)
        BY <2>2, <2>3, <2>4, <2>5, SMTT(30) DEF GoesOn, Fields
  <2> QED BY <2>4, <2>6, Zenon DEF next
<1>4. CASE ~ (r.type < Len(EntityTypes))
  <2>1. next = Idle
        BY <1>4, SMTT(30) DEF NextType
  <2>2. CycleOk(next) /\ next.pc = "idle"
        BY <2>1, <1>2, TypeRange, TtlNats DEF CycleOk, Idle
  <2>3. ASSUME NEW e \in Entries, e # Instance PROVE ~ (r.type < e[1])
        BY <1>1, <1>4, <2>3, EntryParts, TypeRange, SMTT(30)
  <2>4. \A e : ~ Ahead(next, e)
        BY <2>2, Zenon DEF Ahead
  <2> QED BY <2>2, <2>3, <2>4, Zenon DEF GoesOn
<1> QED BY <1>3, <1>4, Zenon

\* The types are counted: every entry of the type that exists is to be scanned.
LEMMA CountStep ==
    ASSUME TtlInv, NEW c \in Cycles, queryEntityCount(c)
    PROVE  CycleStep(c)
<1>1. /\ cycle[c].pc = "count" /\ UNCHANGED <<ledger, lastStart, count>> /\ liveUntil' = liveUntil
      /\ cycle[c].pc # "idle"
      BY Zenon DEF queryEntityCount
<1>2. Extending
      BY <1>1, Unextended, Zenon
<1>3. CASE Fail /\ cycle' = [cycle EXCEPT ![c] = NextType(c)]
      BY <1>1, <1>2, <1>3, NextTypeFacts, RecordStep, Zenon
<1> DEFINE r == cycle[c]
           next == [r EXCEPT !.pc = "scan", !.limit = limitOf(r.type)]
<1>4. CASE onto(c, next)
  <2>1. CycleOk(r) /\ r.type \in Types /\ r.type \in Nat /\ r.id = 1
        BY <1>1, TypeRange DEF TtlInv, TtlType, CycleOk
  <2>2. count[r.type] \in 0 .. MAX_COUNT
        BY <2>1, Zenon DEF TtlInv, TtlType
  <2>3. limitOf(r.type) = count[r.type]
        BY <2>2, TtlNats DEF limitOf
  <2>4. Fields(next, "scan", r.latest, r.type, 1, count[r.type], r.todo)
        BY <2>1, <2>3, Zenon DEF Fields, CycleOk
  <2>5. onto(c, next)
        BY <1>4, SMTT(30)
  <2> HIDE DEF next
  <2>6. CycleOk(next)
        BY <2>1, <2>2, <2>4, SMTT(30) DEF Fields, CycleOk
  <2>7. ASSUME NEW e \in Entries, Exists(e), Ahead(r, e) PROVE Ahead(next, e)
    <3>1. e # Instance /\ r.type <= e[1]
          BY <1>1, <2>7, Zenon DEF Ahead
    <3>2. e[2] <= count[e[1]] /\ e[1] \in Nat /\ e[2] \in 1 .. MAX_COUNT
          BY <2>7, <3>1, EntryParts, Zenon DEF Exists
    <3> QED BY <2>1, <2>4, <3>1, <3>2, SMTT(30) DEF Fields, Ahead
  <2>8. ASSUME NEW e \in Entries, Ahead(next, e) PROVE Ahead(r, e)
    <3>1. CASE e # Instance /\ r.type <= e[1]
          BY <1>1, <3>1, SMTT(30) DEF Ahead
    <3>2. CASE e \in Noted(next)
      <4>1. PICK i \in 1 .. Len(r.todo) : e = r.todo[i]
            BY <2>4, <3>2, Zenon DEF Noted, Elements, Fields
      <4> QED BY <1>1, <2>1, <4>1, SMTT(30) DEF CycleOk
    <3>3. e # Instance => e[1] \in Nat
          BY EntryParts, Zenon
    <3>4. next.pc = "scan" /\ next.type = r.type
          BY <2>4, Zenon DEF Fields
    <3>5. \/ e # Instance /\ (r.type < e[1] \/ r.type = e[1])
          \/ e \in Noted(next)
          BY <2>8, <3>4, Zenon DEF Ahead
    <3>6. e # Instance /\ (r.type < e[1] \/ r.type = e[1]) => r.type <= e[1]
          BY <2>1, <3>3
    <3> QED BY <3>1, <3>2, <3>5, <3>6, Zenon
  <2>9. GoesOn(r, next) /\ LeavesNone(r, next)
        BY <2>4, <2>6, <2>7, <2>8, Zenon DEF GoesOn, LeavesNone, Fields
  <2> QED BY <1>1, <1>2, <2>5, <2>9, OntoStep, Zenon
<1> QED BY <1>3, <1>4, Zenon DEF queryEntityCount

LEMMA NotedAppend ==
    ASSUME NEW t \in Seq(Entries), NEW e \in Entries
    PROVE  /\ Append(t, e) \in Seq(Entries)
           /\ Elements(Append(t, e)) = Elements(t) \cup {e}
<1> DEFINE a == Append(t, e)
           n == Len(t) + 1
<1>1. a \in Seq(Entries) /\ Len(a) = n /\ a[n] = e /\ \A i \in 1 .. Len(t) : a[i] = t[i]
      OBVIOUS
<1>2. 1 .. n = (1 .. Len(t)) \cup {n}
      OBVIOUS
<1> HIDE DEF a, n
<1>3. Elements(a) = {a[i] : i \in 1 .. n} /\ Elements(t) = {t[i] : i \in 1 .. Len(t)}
      BY <1>1, Zenon DEF Elements
<1>4. ASSUME NEW x PROVE x \in Elements(a) <=> x \in Elements(t) \/ x = e
      BY <1>1, <1>2, <1>3, Zenon
<1>5. Elements(a) = Elements(t) \cup {e}
      BY <1>4, Zenon
<1> QED BY <1>1, <1>5, Zenon DEF a

\* One entity is looked at.
LEMMA ScanStep ==
    ASSUME TtlInv, NEW c \in Cycles, scanEntity(c)
    PROVE  CycleStep(c)
<1> DEFINE r    == cycle[c]
           e    == <<r.type, r.id>>
           next == [r EXCEPT !.id = r.id + 1]
           more == [next EXCEPT !.todo = Append(next.todo, e)]
<1>1. /\ r.pc = "scan" /\ UNCHANGED <<ledger, lastStart, count>> /\ liveUntil' = liveUntil
      /\ r.id <= r.limit /\ r.pc # "idle"
      BY Zenon DEF scanEntity
<1>2. \/ onto(c, IF Below(c, e) THEN more ELSE next) \/ withRetry(c, next)
      BY Zenon DEF scanEntity
<1>3. /\ CycleOk(r) /\ r.type \in Types /\ r.type \in Nat /\ r.id \in Nat /\ r.id >= 1
      /\ r.limit \in 0 .. MAX_COUNT /\ r.todo \in Seq(Entries)
      BY TypeRange, SMTT(30) DEF TtlInv, TtlType, CycleOk
<1>4. e \in Entries /\ e # Instance /\ e[1] = r.type /\ e[2] = r.id
      BY <1>1, <1>3, EntryMade, TtlNats, SMTT(30)
<1>5. Fields(next, "scan", r.latest, r.type, r.id + 1, r.limit, r.todo)
      BY <1>1, <1>3, Zenon DEF Fields, CycleOk
<1>6. Fields(more, "scan", r.latest, r.type, r.id + 1, r.limit, Append(r.todo, e))
      BY <1>5, Zenon DEF Fields
<1> HIDE DEF r, e, next, more
<1>7. CycleOk(next)
      BY <1>1, <1>3, <1>5 DEF Fields, CycleOk
<1>8. Append(r.todo, e) \in Seq(Entries) /\ Noted(more) = Noted(r) \cup {e} /\ Noted(next) = Noted(r)
  <2>1. next.todo = r.todo /\ more.todo = Append(r.todo, e)
        BY <1>5, <1>6, Zenon DEF Fields
  <2>2. PICK t \in Seq(Entries) : t = r.todo
        BY <1>3, Zenon
  <2>3. PICK x \in Entries : x = e
        BY <1>4, Zenon
  <2>4. Append(t, x) \in Seq(Entries) /\ Elements(Append(t, x)) = Elements(t) \cup {x}
        BY NotedAppend, Zenon
  <2> QED BY <2>1, <2>2, <2>3, <2>4, Zenon DEF Noted
<1>9. CycleOk(more)
      BY <1>1, <1>3, <1>6, <1>8 DEF Fields, CycleOk
<1>10. Ahead(r, e)
      BY <1>1, <1>3, <1>4 DEF Ahead
<1>11. ASSUME NEW x \in Entries, x # e
       PROVE  (Ahead(next, x) <=> Ahead(r, x)) /\ (Ahead(more, x) <=> Ahead(r, x))
  <2>1. CASE x = Instance
        BY <1>1, <1>5, <1>6, <1>8, <1>11, <2>1, Zenon DEF Ahead, Fields
  <2>2. CASE x # Instance
    <3>1. x[1] \in Nat /\ x[2] \in Nat /\ x = <<x[1], x[2]>>
          BY <2>2, EntryParts, Zenon
    <3>2. x[1] = r.type => x[2] # r.id
          BY <1>11, <3>1, Zenon DEF e
    <3>3. x[1] = r.type => (r.id <= x[2] <=> r.id + 1 <= x[2])
          BY <1>3, <3>1, <3>2
    <3> QED BY <1>1, <1>5, <1>6, <1>8, <1>11, <3>3, Zenon DEF Ahead, Fields
  <2> QED BY <2>1, <2>2, SMTT(30)
<1>12. GoesOn(r, next) /\ GoesOn(r, more)
      BY <1>5, <1>6, <1>7, <1>9, <1>10, <1>11, Zenon DEF GoesOn, Fields
<1>13. Ahead(more, e)
      BY <1>6, <1>8, Zenon DEF Ahead, Fields
<1>14. Extending
      BY <1>1, Unextended, SMTT(30)
<1>15. CASE withRetry(c, next)
      BY <1>1, <1>12, <1>14, <1>15, RetryStep, SMTT(30) DEF r
<1>16. CASE onto(c, more)
  <2>1. LeavesNone(r, more)
        BY <1>11, <1>13, SMTT(30) DEF LeavesNone
  <2> QED BY <1>1, <1>12, <1>14, <1>16, <2>1, OntoStep, Zenon DEF r
<1>17. CASE onto(c, next) /\ ~ Below(c, e)
  <2>1. Exists(e) => liveUntil[e] >= r.latest + THRESHOLD
        BY <1>4, <1>17, NotBelow, Zenon DEF r
  <2>2. LeavesNone(r, next)
        BY <1>1, <1>11, <2>1, Zenon DEF LeavesNone
  <2> QED BY <1>1, <1>12, <1>14, <1>17, <2>2, OntoStep, ZenonT(30) DEF r
<1> QED BY <1>2, <1>15, <1>16, <1>17, Zenon

LEMMA NotedRest ==
    ASSUME NEW t \in Seq(Entries), NEW n \in 0 .. Len(t)
    PROVE  /\ SubSeq(t, n + 1, Len(t)) \in Seq(Entries)
           /\ \A i \in 1 .. Len(SubSeq(t, n + 1, Len(t))) :
                 SubSeq(t, n + 1, Len(t))[i] \in {t[j] : j \in 1 .. Len(t)}
           /\ \A j \in 1 .. Len(t) : j > n =>
                 \E i \in 1 .. Len(SubSeq(t, n + 1, Len(t))) : SubSeq(t, n + 1, Len(t))[i] = t[j]
<1> DEFINE u == SubSeq(t, n + 1, Len(t))
<1>1. Len(t) \in Nat
      OBVIOUS
<1>2. u \in Seq(Entries) /\ Len(u) = Len(t) - n /\ \A i \in 1 .. Len(u) : u[i] = t[n + i]
      BY <1>1, SMTT(30)
<1> HIDE DEF u
<1>3. ASSUME NEW i \in 1 .. Len(u) PROVE u[i] \in {t[j] : j \in 1 .. Len(t)}
  <2>1. n + i \in 1 .. Len(t) /\ u[i] = t[n + i]
        BY <1>1, <1>2
  <2> QED BY <2>1, Zenon
<1>4. ASSUME NEW j \in 1 .. Len(t), j > n PROVE \E i \in 1 .. Len(u) : u[i] = t[j]
  <2>1. j - n \in 1 .. Len(u) /\ n + (j - n) = j
        BY <1>1, <1>2, <1>4
  <2>2. u[j - n] = t[j]
        BY <1>2, <2>1, SMTT(30)
  <2> QED BY <2>1, <2>2, Zenon
<1> QED BY <1>2, <1>3, <1>4, Zenon DEF u

\* A batch of what was noted is submitted.
LEMMA BumpStep ==
    ASSUME TtlInv, NEW c \in Cycles, bumpBatch(c)
    PROVE  CycleStep(c)
<1> DEFINE r    == cycle[c]
           t    == r.todo
           n    == IF Len(t) < BATCH THEN Len(t) ELSE BATCH
           u    == SubSeq(t, n + 1, Len(t))
           B    == {t[i] : i \in 1 .. n}
           next == [r EXCEPT !.todo = u]
<1>1. r.pc = "scan" /\ r.pc # "idle" /\ r.id > r.limit /\ submitBatchTtlExtensionTx(c, B, next)
      BY Zenon DEF bumpBatch, Scanned
<1>2. CycleOk(r) /\ t \in Seq(Entries) /\ Len(t) \in Nat
      BY DEF TtlInv, TtlType, CycleOk
<1>3. BATCH \in Nat
      BY TtlConstants, Zenon
<1>4. n \in 0 .. Len(t)
      BY <1>2, <1>3
<1>5. Fields(next, "scan", r.latest, r.type, r.id, r.limit, u)
      BY <1>1, <1>2, Zenon DEF Fields, CycleOk
<1> HIDE DEF r, t, n
<1>6. /\ u \in Seq(Entries)
      /\ \A i \in 1 .. Len(u) : u[i] \in {t[j] : j \in 1 .. Len(t)}
      /\ \A j \in 1 .. Len(t) : j > n => \E i \in 1 .. Len(u) : u[i] = t[j]
      BY <1>2, <1>4, NotedRest, Zenon
<1> HIDE DEF u, next
<1>7. Noted(next) = {u[i] : i \in 1 .. Len(u)} /\ Noted(r) = {t[i] : i \in 1 .. Len(t)}
      BY <1>5, Zenon DEF Fields, Noted, Elements, t
<1>8. Noted(next) \subseteq Noted(r)
      BY <1>6, <1>7, Zenon
<1>9. ASSUME NEW e \in Noted(r), e \notin Noted(next) PROVE e \in B
  <2>1. PICK j \in 1 .. Len(t) : e = t[j]
        BY <1>7, Zenon
  <2>2. ~ (j > n)
        BY <1>6, <1>7, <1>9, <2>1, Zenon
  <2>3. j \in 1 .. n
        BY <1>2, <1>4, <2>2, SMTT(30)
  <2> QED BY <2>1, <2>3, Zenon
<1> HIDE DEF B
<1>10. CycleOk(next)
      BY <1>1, <1>2, <1>5, <1>6, Zenon DEF Fields, CycleOk
<1>11. ASSUME NEW e PROVE (Ahead(next, e) => Ahead(r, e)) /\ (Ahead(r, e) /\ ~ Ahead(next, e) => e \in B)
      BY <1>1, <1>5, <1>8, <1>9, Zenon DEF Ahead, Fields
<1>12. GoesOn(r, next)
      BY <1>5, <1>10, <1>11, Zenon DEF GoesOn, Fields
<1> QED BY <1>1, <1>11, <1>12, SubmitStep, Zenon DEF r

\* The scan of a type is over: nothing of it is left.
LEMMA EndStep ==
    ASSUME TtlInv, NEW c \in Cycles, endOfType(c)
    PROVE  CycleStep(c)
<1>1. /\ cycle[c].pc = "scan" /\ cycle[c].pc # "idle" /\ cycle[c].id > cycle[c].limit
      /\ cycle[c].todo = <<>> /\ cycle' = [cycle EXCEPT ![c] = NextType(c)]
      /\ UNCHANGED <<ledger, lastStart, count>> /\ liveUntil' = liveUntil /\ failures' = failures
      BY ZenonT(30) DEF endOfType, Scanned
<1>2. /\ GoesOn(cycle[c], NextType(c))
      /\ \A e \in Entries : e # Instance /\ cycle[c].type < e[1] => Ahead(NextType(c), e)
      BY <1>1, NextTypeFacts, Zenon
<1>3. cycle[c].id \in Nat /\ cycle[c].limit \in Nat
      BY TtlNats DEF TtlInv, TtlType, CycleOk
<1>4. Noted(cycle[c]) = {}
      BY <1>1, SMTT(30) DEF Noted, Elements
<1>5. ASSUME NEW e \in Entries, Ahead(cycle[c], e) PROVE Ahead(NextType(c), e)
  <2>1. e # Instance => e[2] \in Nat
        BY EntryParts, SMTT(30)
  <2>2. \/ e # Instance /\ cycle[c].type < e[1]
        \/ e # Instance /\ cycle[c].id <= e[2] /\ e[2] <= cycle[c].limit
        BY <1>1, <1>4, <1>5, Zenon DEF Ahead
  <2>3. ~ (e # Instance /\ cycle[c].id <= e[2] /\ e[2] <= cycle[c].limit)
    <3> SUFFICES ASSUME NEW i \in Nat, NEW n \in Nat, NEW l \in Nat, i > l PROVE ~ (i <= n /\ n <= l)
        BY <1>1, <1>3, <2>1, Zenon
    <3> QED OBVIOUS
  <2>4. e # Instance /\ cycle[c].type < e[1]
        BY <2>2, <2>3, Zenon
  <2> QED BY <1>2, <2>4, Zenon
<1>6. LeavesNone(cycle[c], NextType(c))
      BY <1>5, Zenon DEF LeavesNone
<1> QED BY <1>1, <1>2, <1>6, RecordStep, Unextended, Zenon

LEMMA TtlStep == TtlInv /\ [TtlNext]_ttlVars => TtlInv'
<1> SUFFICES ASSUME TtlInv, [TtlNext]_ttlVars PROVE TtlInv'
    BY Zenon
<1>1. CASE UNCHANGED ttlVars
  <2>1. UNCHANGED <<ledger, count, liveUntil, cycle, lastStart, failures>>
        BY <1>1, Zenon DEF ttlVars
  <2>2. TtlType' /\ Pace'
        BY <2>1, SMTT(30) DEF TtlInv, TtlType, Pace
  <2>3. \A e \in Entries : (Exists(e)' => Exists(e)) /\ (Covered(e) => Covered(e)')
        BY <2>1, Zenon DEF Exists, Covered, Late, Latest, Instance
  <2> QED BY <2>2, <2>3, Zenon DEF TtlInv
<1>2. ASSUME NEW c \in Cycles, runRelayerCycle(c) PROVE TtlInv'
      BY <1>2, StartStep, Zenon
<1>3. ASSUME NEW c \in Cycles,
             \/ fetchInstanceTtl(c) \/ extendInstance(c) \/ queryEntityCount(c) \/ scanEntity(c)
             \/ bumpBatch(c) \/ endOfType(c)
      PROVE  TtlInv'
  <2>1. CycleStep(c)
        BY <1>3, InstanceStep, ExtendStep, CountStep, ScanStep, BumpStep, EndStep, Zenon
  <2> QED BY <2>1, CycleStepInv, Zenon
<1> QED BY <1>1, <1>2, <1>3, LedgerStep, CreateStep, Zenon DEF TtlNext

\* The relays keep up, whatever the number of vaults, entries and overlapping cycles: no ledger
\* entry expires under the TTL relayer (scripts/soroban-ttl-relayer.mjs), and no vault with an
\* authorised keeper passes its inactivity period (scripts/keeper-relay-evm.mjs,
\* keeper-relay-soroban.mjs), given the margins TtlMargin and KeeperMargin.
THEOREM KeepersKeepUp == KeeperSpec /\ TtlSpec => []RelaysKeepUp
<1>1. KeeperInv /\ TtlInv => RelaysKeepUp
      BY KeeperSafe, TtlSafe, Zenon DEF RelaysKeepUp, NothingExpires
<1>2. KeeperSpec => []KeeperInv
      BY KeeperStart, KeeperStep, PTL DEF KeeperSpec
<1>3. TtlSpec => []TtlInv
      BY TtlStart, TtlStep, PTL DEF TtlSpec
<1> QED BY <1>1, <1>2, <1>3, PTL
==============================================================================
