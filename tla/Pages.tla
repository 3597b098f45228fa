-------------------------------- MODULE Pages -------------------------------
(***************************************************************************)
(* The app's pages whose work is spread over awaited calls, any of which   *)
(* may fail, with the wallet's account changing in between.                *)
(*                                                                         *)
(* First the two overview pages, Dashboard.tsx and AnalyticsDashboard.tsx, *)
(* which show one account's vaults with several independently loaded       *)
(* parts.  A page numbers its loads (loadVersionRef) and drops every       *)
(* answer that belongs to an earlier load than the latest.  The dashboard  *)
(* also keeps what it loaded in localStorage, per account, to show it at   *)
(* once the next time.  What a page shows is recorded by the load it came  *)
(* from; an answer that is under way is a task of its load.                *)
(*                                                                         *)
(* Then three pages whose handlers are a series of calls: creating a vault *)
(* and switching its emergency mode (Vaults.tsx), with the notice that the *)
(* push proxy sends to the beneficiary; the encryption key and the         *)
(* guardian invites (Profile.tsx); and the badge that counts pending       *)
(* approvals (AppLayout.tsx).                                              *)
(***************************************************************************)
EXTENDS Integers, Sequences, FiniteSets

CONSTANTS
    DAccounts,    \* the wallet accounts
    Disconnected, \* the account when no wallet is connected
    MAX_LOADS     \* loads of the page

Parts == {"documents", "approvals", "activity", "passes"}
CachedParts == Parts \ {"activity"}
Nothing == 0      \* an empty list on the page or in the cache
FromCache == -1   \* what hydrateDashboardCache put on the page

VARIABLES
    which,      \* the page that is mounted: "dashboard" or "analytics"
    account,    \* the account of the wallet context
    version,    \* loadVersionRef.current
    owner,      \* owner[n]: the account whose data load n asks for
    base,       \* the load of the vaults and counts on the page
    parts,      \* parts[p]: the load of each other part on the page
    busy,       \* the loading flag
    tasks,      \* answers under way: load, what is awaited, and silent
    approving,  \* accounts of the approvals or heartbeats under way
    cached      \* cached[a]: the loads of a's record in localStorage

dashVars == <<which, account, version, owner, base, parts, busy, tasks, approving, cached>>

NoRecord == [base |-> Nothing, documents |-> Nothing, approvals |-> Nothing, passes |-> Nothing]
NoParts == [p \in Parts |-> Nothing]

DashInit ==
    /\ which \in {"dashboard", "analytics"}
    /\ account = Disconnected /\ version = 0
    /\ owner = [n \in 1..MAX_LOADS |-> Disconnected]
    /\ base = Nothing /\ parts = NoParts /\ busy = TRUE
    /\ tasks = {} /\ approving = {}
    /\ cached = [a \in DAccounts |-> NoRecord]

\* loadDashboardData and loadAnalytics: a new load for the account that the
\* calling closure holds.
Load(a, silent) ==
    /\ version < MAX_LOADS
    /\ version' = version + 1
    /\ owner' = [owner EXCEPT ![version + 1] = a]
    /\ tasks' = tasks \cup {[load |-> version + 1, what |-> "base", silent |-> silent]}

\* The record of the account is there and not too old.
hydrateDashboardCache(a) ==
    /\ which = "dashboard" /\ cached[a].base # Nothing
    /\ base' = FromCache
    /\ parts' = [parts EXCEPT
           !["approvals"] = IF cached[a].approvals = Nothing THEN Nothing ELSE FromCache,
           !["passes"] = IF cached[a].passes = Nothing THEN Nothing ELSE FromCache]
    /\ busy' = FALSE
    /\ Load(a, TRUE)

\* The effect on [account, isConnected].
onAccount(a) ==
    /\ a # account
    /\ account' = a
    /\ \/ /\ a = Disconnected
          /\ version < MAX_LOADS /\ version' = version + 1
          /\ base' = Nothing /\ parts' = NoParts /\ busy' = FALSE
          /\ UNCHANGED <<owner, tasks>>
       \/ a # Disconnected /\ hydrateDashboardCache(a)
       \/ a # Disconnected /\ Load(a, FALSE) /\ busy' = TRUE /\ UNCHANGED <<base, parts>>
    /\ UNCHANGED <<which, approving, cached>>

Done(t) == tasks' = tasks \ {t}
\* The answer of an overtaken load changes nothing: it stays in tasks.
Current(t) == version = t.load

\* The finally block of a load.
endLoading(t) == busy' = IF t.silent THEN busy ELSE FALSE

\* The vaults and tokens arrive: the page starts over with them, the record
\* in localStorage too, and the parts are requested.
loadDashboardData(t) ==
    /\ which = "dashboard" /\ t \in tasks /\ t.what = "base" /\ Current(t)
    /\ endLoading(t)
    /\ \/ /\ base' = t.load /\ parts' = NoParts
          /\ cached' = [cached EXCEPT ![owner[t.load]] = [NoRecord EXCEPT !.base = t.load]]
          /\ tasks' = (tasks \ {t}) \cup
                 {[load |-> t.load, what |-> p, silent |-> TRUE] : p \in Parts}
       \/ Done(t) /\ UNCHANGED <<base, parts, cached>>
    /\ UNCHANGED <<which, account, version, owner, approving>>

\* Merges one part into the record, keeping what the record has of the rest.
writeDashboardCache(a, p, n) ==
    cached' = [cached EXCEPT ![a] =
        [@ EXCEPT !.base = IF @ = Nothing \/ p = "documents" THEN n ELSE @, ![p] = n]]

\* The mutated form: pass counts are applied whichever load they belong to.
loadPassSupply_late(t) ==
    /\ which = "dashboard" /\ t \in tasks /\ t.what = "passes"
    /\ Done(t)
    /\ \/ /\ parts' = [parts EXCEPT !["passes"] = t.load]
          /\ writeDashboardCache(owner[t.load], "passes", t.load)
       \/ UNCHANGED <<parts, cached>>
    /\ UNCHANGED <<which, account, version, owner, base, busy, approving>>

loadPassSupplyForVisibleVaults(t) ==
    /\ which = "dashboard" /\ t \in tasks /\ t.what = "passes" /\ Current(t)
    /\ Done(t)
    /\ \/ /\ parts' = [parts EXCEPT !["passes"] = t.load]
          /\ writeDashboardCache(owner[t.load], "passes", t.load)
       \/ UNCHANGED <<parts, cached>>
    /\ UNCHANGED <<which, account, version, owner, base, busy, approving>>

\* Documents and approvals: applied and filed, or emptied on an error; an
\* account that guards none of the vaults has no approvals to load.
loadDocumentsForUserVaults(t) ==
    /\ which = "dashboard" /\ t \in tasks /\ t.what = "documents" /\ Current(t)
    /\ Done(t)
    /\ \/ /\ parts' = [parts EXCEPT !["documents"] = t.load]
          /\ writeDashboardCache(owner[t.load], "documents", t.load)
       \/ parts' = [parts EXCEPT !["documents"] = Nothing] /\ UNCHANGED cached
    /\ UNCHANGED <<which, account, version, owner, base, busy, approving>>

\* The mutated form: the version is not compared after the answer.
loadPendingApprovals_late(t) ==
    /\ which = "dashboard" /\ t \in tasks /\ t.what = "approvals"
    /\ Done(t)
    /\ \/ /\ parts' = [parts EXCEPT !["approvals"] = t.load]
          /\ writeDashboardCache(owner[t.load], "approvals", t.load)
       \/ parts' = [parts EXCEPT !["approvals"] = Nothing] /\ UNCHANGED cached
    /\ UNCHANGED <<which, account, version, owner, base, busy, approving>>

loadPendingApprovals(t) ==
    /\ which = "dashboard" /\ t \in tasks /\ t.what = "approvals" /\ Current(t)
    /\ Done(t)
    /\ \/ /\ parts' = [parts EXCEPT !["approvals"] = t.load]
          /\ writeDashboardCache(owner[t.load], "approvals", t.load)
       \/ parts' = [parts EXCEPT !["approvals"] = Nothing] /\ UNCHANGED cached
    /\ UNCHANGED <<which, account, version, owner, base, busy, approving>>

loadRecentActivity(t) ==
    /\ which = "dashboard" /\ t \in tasks /\ t.what = "activity" /\ Current(t)
    /\ Done(t)
    /\ \E shown \in {t.load, Nothing} : parts' = [parts EXCEPT !["activity"] = shown]
    /\ UNCHANGED <<which, account, version, owner, base, busy, approving, cached>>

\* The analytics page sets the vaults, then waits for its parts together;
\* each of those falls back to an empty list by itself.
loadAnalytics(t) ==
    /\ which = "analytics" /\ t \in tasks /\ Current(t)
    /\ \/ /\ t.what = "base"
          /\ \/ /\ base' = t.load
                /\ tasks' = (tasks \ {t}) \cup {[t EXCEPT !.what = "parts"]}
                /\ UNCHANGED <<parts, busy>>
             \/ Done(t) /\ endLoading(t) /\ UNCHANGED <<base, parts>>
       \/ /\ t.what = "parts"
          /\ Done(t) /\ endLoading(t)
          /\ \E ok \in SUBSET {"documents", "activity"} :
                 parts' = [p \in Parts |-> IF p \in ok THEN t.load ELSE Nothing]
          /\ UNCHANGED base
    /\ UNCHANGED <<which, account, version, owner, approving, cached>>

\* Approving a request needs its entry in the queue that is shown; it ends,
\* as recording a heartbeat does, with a load by the closure it started in.
handleApproveRequest ==
    /\ which = "dashboard" /\ account # Disconnected
    /\ parts["approvals"] # Nothing /\ approving = {}
    /\ approving' = {account}
    /\ UNCHANGED <<which, account, version, owner, base, parts, busy, tasks, cached>>

handleRecordHeartbeat ==
    /\ which = "analytics" /\ account # Disconnected
    /\ base # Nothing /\ approving = {}
    /\ approving' = {account}
    /\ UNCHANGED <<which, account, version, owner, base, parts, busy, tasks, cached>>

\* The transaction is confirmed, or any step before it threw.
HandlerEnds(a) ==
    /\ a \in approving
    /\ approving' = {}
    /\ \/ /\ Load(a, which = "analytics")
          /\ busy' = IF which = "dashboard" THEN TRUE ELSE busy
       \/ UNCHANGED <<version, owner, tasks, busy>>
    /\ UNCHANGED <<which, account, base, parts, cached>>

DashNext ==
    \/ \E a \in DAccounts \cup {Disconnected} : onAccount(a)
    \/ \E t \in tasks : \/ loadDashboardData(t)
                        \/ loadPassSupplyForVisibleVaults(t)
                        \/ loadDocumentsForUserVaults(t)
                        \/ loadPendingApprovals(t)
                        \/ loadRecentActivity(t)
                        \/ loadAnalytics(t)
    \/ handleApproveRequest
    \/ handleRecordHeartbeat
    \/ \E a \in DAccounts : HandlerEnds(a)

(***************************************************************************)
(* Properties.                                                             *)
(***************************************************************************)

(***************************************************************************)
(* Parts never mix: a part that changes on the page becomes empty or comes *)
(* from the load whose vaults the page shows, however the answers of older *)
(* loads, account switches and reloads after an approval interleave        *)
(* (the loadVersionRef comparisons after every await).                     *)
(***************************************************************************)
PartsFollowBase ==
    [][\A p \in Parts : parts'[p] # parts[p] => parts'[p] \in {Nothing, base'}]_dashVars

(***************************************************************************)
(* The record kept for an account holds only that account's data, and its  *)
(* parts are of the load its vaults are of, although each part is merged   *)
(* into the record by an answer of its own (writeDashboardCache).          *)
(***************************************************************************)
RecordIsOneLoad ==
    \A a \in DAccounts :
        /\ \A p \in CachedParts : cached[a][p] \in {Nothing, cached[a].base}
        /\ cached[a].base # Nothing => owner[cached[a].base] = a
-----------------------------------------------------------------------------
CONSTANTS
    PAccounts,    \* wallet accounts
    NoWallet,     \* the account when none is connected
    PVaults,      \* vault ids
    MAX_SKEW,     \* DEFAULT_MAX_SKEW_SEC
    MAX_NOW,      \* end of time
    MAX_JOBS,     \* handlers started
    MAX_KEYS      \* key pairs generated

VARIABLES
    screen,     \* the page under study
    holder,     \* account of the wallet context
    now,        \* the clock of browser and proxy
    made,       \* made[v]: v exists on chain
    policy,     \* policy[v]: its release policy was configured
    heir,       \* heir[v]: its beneficiary was set
    switches,   \* switches[v]: every emergency mode v was put in, with the time
    listed,     \* vaults the page lists
    jobs,       \* handlers under way, with the step they are at
    started,    \* handlers started so far
    posts,      \* signed requests on their way to the proxy
    told,       \* what the beneficiary was told
    kept,       \* kept[a]: the key pair stored in this browser for a, 0 if none
    onChain,    \* onChain[a]: the public key registered for a, 0 if none
    fresh,      \* key pairs generated
    effect,     \* the running effect of the layout
    polls,      \* counts under way: the effect and account they belong to
    badge       \* the account whose count the badge shows, NoWallet for 0

profileVars == <<kept, onChain, fresh>>
layoutVars == <<effect, polls, badge>>
pageVars == <<screen, holder, now, made, policy, heir, switches, listed, jobs, started,
              posts, told, kept, onChain, fresh, effect, polls, badge>>

PagesInit ==
    /\ screen \in {"vaults", "profile", "layout"}
    /\ holder \in PAccounts /\ now = 0
    /\ made = [v \in PVaults |-> FALSE] /\ policy = made /\ heir = made
    /\ switches = [v \in PVaults |-> <<>>]
    /\ listed = {} /\ started = 0 /\ posts = {} /\ told = <<>>
    /\ jobs = IF screen = "vaults"
              THEN {[handler |-> "mount", vault |-> 0, on |-> FALSE, pc |-> "reload"]} ELSE {}
    /\ kept = [a \in PAccounts |-> 0] /\ onChain = kept /\ fresh = 0
    /\ effect = 0 /\ polls = {} /\ badge = NoWallet

Begin(job) ==
    /\ started < MAX_JOBS /\ started' = started + 1
    /\ jobs' = jobs \cup {job}
Goto(job, pc) == jobs' = (jobs \ {job}) \cup {[job EXCEPT !.pc = pc]}
Ends(job) == jobs' = jobs \ {job}
At(job, handler, pc) == job \in jobs /\ job.handler = handler /\ job.pc = pc

Tick == /\ screen = "vaults" /\ now < MAX_NOW /\ now' = now + 1
        /\ UNCHANGED <<screen, holder, made, policy, heir, switches, listed, jobs, started,
                       posts, told, profileVars, layoutVars>>

(***************************************************************************)
(* Vaults.tsx                                                              *)
(***************************************************************************)

\* The list is replaced by what the chain has; its failure keeps the list.
\* The page loads when it is mounted and at the end of the handlers.
loadVaults(job) ==
    /\ job \in jobs /\ job.pc = "reload"
    /\ Ends(job)
    /\ \E seen \in {listed, {v \in PVaults : made[v]}} : listed' = seen
    /\ UNCHANGED <<screen, holder, now, made, policy, heir, switches, started,
                   posts, told, profileVars, layoutVars>>

\* Checked form, then createVault.  While it runs, the button is disabled.
handleCreateVault(v) ==
    /\ screen = "vaults" /\ ~made[v]
    /\ \A job \in jobs : job.handler # "create"
    /\ Begin([handler |-> "create", vault |-> v, on |-> FALSE, pc |-> "create"])
    /\ UNCHANGED <<screen, holder, now, made, policy, heir, switches, listed,
                   posts, told, profileVars, layoutVars>>

\* The vault is shown at once when its id came back; without an id neither
\* the release policy nor the beneficiary is set; the failure of either is
\* reported and the rest goes on; a failed creation ends the handler.
createSteps(job) ==
    \/ /\ At(job, "create", "create")
       /\ \/ /\ made' = [made EXCEPT ![job.vault] = TRUE]
             /\ \/ listed' = listed \cup {job.vault} /\ Goto(job, "release")
                \/ Goto(job, "reload") /\ UNCHANGED listed
          \/ Ends(job) /\ UNCHANGED <<made, listed>>
       /\ UNCHANGED <<policy, heir>>
    \/ /\ At(job, "create", "release")
       /\ \E ok \in BOOLEAN : policy' = [policy EXCEPT ![job.vault] = ok]
       /\ Goto(job, "beneficiary")
       /\ UNCHANGED <<made, heir, listed>>
    \/ /\ At(job, "create", "beneficiary")
       /\ \E ok \in BOOLEAN : heir' = [heir EXCEPT ![job.vault] = ok]
       /\ Goto(job, "reload")
       /\ UNCHANGED <<made, policy, listed>>

Creating(job) ==
    /\ createSteps(job)
    /\ UNCHANGED <<screen, holder, now, switches, started,
                   posts, told, profileVars, layoutVars>>

\* The mutated form: the notice goes out beside the transaction.
handleToggleEmergencyMode_early(v, on) ==
    /\ screen = "vaults" /\ v \in listed
    /\ Begin([handler |-> "toggle", vault |-> v, on |-> on, pc |-> "lookup"])
    /\ UNCHANGED <<screen, holder, now, made, policy, heir, switches, listed,
                   posts, told, profileVars, layoutVars>>

handleToggleEmergencyMode(v, on) ==
    /\ screen = "vaults" /\ v \in listed
    /\ Begin([handler |-> "toggle", vault |-> v, on |-> on, pc |-> "switch"])
    /\ UNCHANGED <<screen, holder, now, made, policy, heir, switches, listed,
                   posts, told, profileVars, layoutVars>>

\* The transaction, then the schedule that enabling it created, then the
\* beneficiary, who is notified when there is one.  A failure of the first
\* two ends the handler, one of the last two is logged.
toggleSteps(job) ==
    \/ /\ At(job, "toggle", "switch")
       /\ \/ /\ switches' = [switches EXCEPT ![job.vault] =
                    Append(@, [on |-> job.on, at |-> now])]
             /\ Goto(job, IF job.on THEN "schedule" ELSE "lookup")
          \/ Ends(job) /\ UNCHANGED switches
       /\ UNCHANGED posts
    \/ /\ At(job, "toggle", "schedule")
       /\ Goto(job, "lookup") \/ Ends(job)
       /\ UNCHANGED <<switches, posts>>
    \/ /\ At(job, "toggle", "lookup")
       /\ \/ heir[job.vault] /\ Goto(job, "notify")
          \/ Goto(job, "reload")
       /\ UNCHANGED <<switches, posts>>

Toggling(job) ==
    /\ toggleSteps(job)
    /\ UNCHANGED <<screen, holder, now, made, policy, heir, listed, started,
                   told, profileVars, layoutVars>>

\* The request is signed with the time of signing and posted.
notifyEmergencyModeChange(job) ==
    /\ At(job, "toggle", "notify")
    /\ posts' = posts \cup {[vault |-> job.vault, on |-> job.on, t |-> now]}
    /\ Goto(job, "reload")
    /\ UNCHANGED <<screen, holder, now, made, policy, heir, switches, listed, started,
                   told, profileVars, layoutVars>>

\* Signature and origin are the page's own; what is left is the age.
authorizeProxyRequest(post) == now - post.t <= MAX_SKEW

\* A request is refused, fails on its way or at the channel, or is sent on.
emergencyModeRoute(post) ==
    /\ post \in posts
    /\ posts' = posts \ {post}
    /\ \/ /\ authorizeProxyRequest(post)
          /\ told' = Append(told, [vault |-> post.vault, on |-> post.on, t |-> post.t, at |-> now])
       \/ UNCHANGED told
    /\ UNCHANGED <<screen, holder, now, made, policy, heir, switches, listed, jobs, started,
                   profileVars, layoutVars>>

(***************************************************************************)
(* Profile.tsx                                                             *)
(***************************************************************************)

\* The wallet switches to another account or disconnects; the layout's
\* effect ends and starts anew.
SwitchWallet(a) ==
    /\ screen \in {"profile", "layout"} /\ a # holder
    /\ holder' = a
    /\ \/ screen = "profile" /\ UNCHANGED layoutVars
       \/ /\ screen = "layout" /\ effect < MAX_JOBS
          /\ effect' = effect + 1
          /\ \/ a = NoWallet /\ badge' = NoWallet /\ UNCHANGED polls
             \/ /\ a # NoWallet
                /\ polls' = polls \cup {[effect |-> effect + 1, of |-> a]} /\ UNCHANGED badge
    /\ UNCHANGED <<screen, now, made, policy, heir, switches, listed, jobs, started,
                   posts, told, kept, onChain, fresh>>

handleGenerateAndRegisterKey ==
    /\ screen = "profile" /\ holder # NoWallet /\ jobs = {}
    /\ Begin([handler |-> "register", of |-> holder, pc |-> "lookup"])
    /\ UNCHANGED <<screen, holder, now, made, policy, heir, switches, listed,
                   posts, told, profileVars, layoutVars>>

\* The mutated form: the generated pair is registered before it is stored.
generateAndSaveKeyPair_later(a) == fresh' = fresh + 1 /\ UNCHANGED kept

\* Stored for the account of the closure, before its public key is used.
generateAndSaveKeyPair(a) == fresh' = fresh + 1 /\ kept' = [kept EXCEPT ![a] = fresh + 1]

\* A stored key is used again, otherwise one is generated; it is registered
\* by the account the wallet has by then, whose signature the call carries.
registerSteps(job) ==
    \/ /\ At(job, "register", "lookup")
       /\ \/ kept[job.of] # 0 /\ Goto(job, "register") /\ UNCHANGED <<kept, fresh>>
          \/ /\ kept[job.of] = 0 /\ fresh < MAX_KEYS
             /\ generateAndSaveKeyPair(job.of) /\ Goto(job, "register")
          \/ kept[job.of] = 0 /\ Ends(job) /\ UNCHANGED <<kept, fresh>>
       /\ UNCHANGED onChain
    \/ /\ At(job, "register", "register")
       /\ \/ /\ holder # NoWallet
             /\ onChain' = [onChain EXCEPT ![holder] =
                    IF kept[job.of] = 0 THEN fresh ELSE kept[job.of]]
          \/ UNCHANGED onChain
       /\ Ends(job) /\ UNCHANGED <<kept, fresh>>

Registering(job) ==
    /\ registerSteps(job)
    /\ UNCHANGED <<screen, holder, now, made, policy, heir, switches, listed, started,
                   posts, told, effect, polls, badge>>

(***************************************************************************)
(* AppLayout.tsx                                                           *)
(***************************************************************************)

\* Every 30 seconds, by the running effect.
PollAgain ==
    /\ screen = "layout" /\ holder # NoWallet /\ effect > 0
    /\ polls' = polls \cup {[effect |-> effect, of |-> holder]} /\ polls' # polls
    /\ UNCHANGED <<screen, holder, now, made, policy, heir, switches, listed, jobs, started,
                   posts, told, kept, onChain, fresh, effect, badge>>

\* The mutated form: the cancelled flag is not looked at.
loadPendingApprovalCount_late(q) ==
    /\ q \in polls /\ polls' = polls \ {q}
    /\ \E b \in {q.of, NoWallet} : badge' = b
    /\ UNCHANGED <<screen, holder, now, made, policy, heir, switches, listed, jobs, started,
                   posts, told, kept, onChain, fresh, effect>>

\* An answer that comes after its effect ended is dropped.
loadPendingApprovalCount(q) ==
    /\ q \in polls /\ polls' = polls \ {q}
    /\ \/ q.effect = effect /\ \E b \in {q.of, NoWallet} : badge' = b
       \/ q.effect # effect /\ UNCHANGED badge
    /\ UNCHANGED <<screen, holder, now, made, policy, heir, switches, listed, jobs, started,
                   posts, told, kept, onChain, fresh, effect>>

PagesNext ==
    \/ Tick
    \/ \E v \in PVaults : handleCreateVault(v)
    \/ \E v \in PVaults, on \in BOOLEAN : handleToggleEmergencyMode(v, on)
    \/ \E job \in jobs : \/ loadVaults(job)
                         \/ Creating(job)
                         \/ Toggling(job)
                         \/ notifyEmergencyModeChange(job)
                         \/ Registering(job)
    \/ \E post \in posts : emergencyModeRoute(post)
    \/ \E a \in PAccounts \cup {NoWallet} : SwitchWallet(a)
    \/ handleGenerateAndRegisterKey
    \/ PollAgain
    \/ \E q \in polls : loadPendingApprovalCount(q)

(***************************************************************************)
(* Properties.                                                             *)
(***************************************************************************)

(***************************************************************************)
(* A beneficiary is told that a vault entered or left emergency mode only  *)
(* after it did, and a notice is not delivered when it is older than the   *)
(* skew the proxy allows, however long the request was on its way          *)
(* (handleToggleEmergencyMode, authorizeProxyRequest).                     *)
(***************************************************************************)
NoticesAreTrue ==
    \A i \in 1..Len(told) :
        \E k \in 1..Len(switches[told[i].vault]) :
            LET s == switches[told[i].vault][k] IN
            s.on = told[i].on /\ s.at <= told[i].t /\ told[i].at <= told[i].t + MAX_SKEW

(***************************************************************************)
(* A public key that is registered on chain has its private key stored in  *)
(* this browser, although storing and registering are two steps that may   *)
(* fail separately and the wallet may switch accounts between them         *)
(* (handleGenerateAndRegisterKey): nothing is encrypted for a lost key.    *)
(***************************************************************************)
RegisteredHasPrivate ==
    \A a \in PAccounts : onChain[a] # 0 => \E b \in PAccounts : kept[b] = onChain[a]

(***************************************************************************)
(* The badge only ever changes to nothing or to the count of the account   *)
(* that is connected at that moment, whatever order the answers of earlier *)
(* effects come in (the cancelled flag of the layout's effect).            *)
(***************************************************************************)
BadgeIsOwn == [][badge' # badge => badge' \in {NoWallet, holder'}]_pageVars
=============================================================================
