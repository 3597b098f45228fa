------------------------------- MODULE Offline -------------------------------
(***************************************************************************)
(* Writes of the web application and the offline action queue they fall    *)
(* back to (src/services/offline/, the proxied writes of                   *)
(* contract.service.ts): browser tabs sharing one IndexedDB store, a       *)
(* service worker with Background Sync, a network that comes and goes.     *)
(*                                                                         *)
(* An act is one thing the user asked for; its payload is left out.  A     *)
(* record of the store is [act, kind, network, status]; its id is its      *)
(* position, which is also the order in which a drain takes them.  A       *)
(* transaction takes effect when it is sent; its receipt comes later or    *)
(* not at all.                                                             *)
(***************************************************************************)
EXTENDS Integers, Sequences
CONSTANTS Tabs, Acts,
    KindsOf,                  \* the kinds of action an act may be
    BACKGROUND_SYNC,          \* the browser has a SyncManager
    MAX_OFFLINE_FAULTS, MAX_RECORDS

ActionKinds == {"create-vault", "create-document-draft", "add-document", "register-public-key",
                "request-access"}     \* PendingActionKind
ASSUME OfflineConstants == KindsOf \in [Acts -> SUBSET ActionKinds]

VARIABLES
    online,                   \* navigator.onLine
    ecosystem,                \* localStorage "spoovault-ecosystem"
    store,                    \* the actions store
    tab,                      \* per tab: is it open, its replay timer, its drain
    call,                     \* per tab and caller: the contract call under way
    effects,                  \* act |-> networks on which it took effect
    keys,                     \* acts whose document key is in the key store
    syncTag,                  \* the sync registration the browser holds
    asked,                    \* acts the user asked for
    offlineFaults

offlineVars == <<online, ecosystem, store, tab, call, effects, keys, syncTag, asked, offlineFaults>>
-----------------------------------------------------------------------------
Networks == {"avalanche", "stellar"}
Callers  == {"user", "drain"}
Closed   == [open |-> FALSE, timer |-> FALSE, draining |-> FALSE, list |-> {}]
NoCall   == [stage |-> "none"]

OfflineInit ==
    /\ online \in BOOLEAN /\ ecosystem = "avalanche" /\ store = <<>>
    /\ tab = [t \in Tabs |-> Closed]
    /\ call = [t \in Tabs |-> [c \in Callers |-> NoCall]]
    /\ effects = [a \in Acts |-> {}] /\ keys = {}
    /\ syncTag = FALSE /\ asked = {} /\ offlineFaults = 0

isOnline == online
isNetworkFailure(err) == ~isOnline \/ err = "network"

\* Stopping a timer that runs and starting it again leaves one timer: the debounce.
scheduleReplay(ts) ==
    tab' = [t \in Tabs |-> IF t \in ts /\ tab[t].open THEN [tab[t] EXCEPT !.timer = TRUE] ELSE tab[t]]

initOfflineLayer(t) ==
    /\ ~tab[t].open
    /\ tab' = [tab EXCEPT ![t] = [Closed EXCEPT !.open = TRUE, !.timer = TRUE]]
    /\ UNCHANGED <<online, ecosystem, store, call, effects, keys, syncTag, asked, offlineFaults>>

\* A tab is closed at any moment: what it was doing ends there.
CloseTab(t) ==
    /\ tab[t].open /\ offlineFaults < MAX_OFFLINE_FAULTS
    /\ tab' = [tab EXCEPT ![t] = Closed]
    /\ call' = [call EXCEPT ![t] = [c \in Callers |-> NoCall]]
    /\ offlineFaults' = offlineFaults + 1
    /\ UNCHANGED <<online, ecosystem, store, effects, keys, syncTag, asked>>

Disconnect ==
    /\ online /\ offlineFaults < MAX_OFFLINE_FAULTS
    /\ online' = FALSE /\ offlineFaults' = offlineFaults + 1
    /\ UNCHANGED <<ecosystem, store, tab, call, effects, keys, syncTag, asked>>

onlineEvent ==
    /\ ~online /\ online' = TRUE
    /\ scheduleReplay(Tabs)
    /\ UNCHANGED <<ecosystem, store, call, effects, keys, syncTag, asked, offlineFaults>>

SwitchEcosystem ==
    /\ offlineFaults < MAX_OFFLINE_FAULTS /\ offlineFaults' = offlineFaults + 1
    /\ ecosystem' \in Networks \ {ecosystem}
    /\ UNCHANGED <<online, store, tab, call, effects, keys, syncTag, asked>>
-----------------------------------------------------------------------------
\* The store.
insertAction(s, record)      == Append(s, record)
updateAction(s, id, status)  == [s EXCEPT ![id].status = status]
listActionsByStatus(statuses) == {id \in DOMAIN store : store[id].status \in statuses}
getQueuedActions == listActionsByStatus({"pending", "processing"})

setActionStatus(id, status) == store' = updateAction(store, id, status)

registerBackgroundSync == syncTag' = (syncTag \/ BACKGROUND_SYNC)

enqueueAction(act, kind) ==
    /\ store' = insertAction(store, [act |-> act, kind |-> kind, network |-> ecosystem,
                                     status |-> "pending"])
    /\ registerBackgroundSync

\* The service worker's sync event: every window is told to replay; with no window open the
\* event is spent all the same.
broadcastReplayRequest ==
    /\ syncTag /\ online /\ syncTag' = FALSE
    /\ scheduleReplay(Tabs)
    /\ UNCHANGED <<online, ecosystem, store, call, effects, keys, asked, offlineFaults>>
-----------------------------------------------------------------------------
\* What the four contract functions return: the id they find in the receipt's logs, "none"
\* when the logs do not hold it; registerPublicKey looks at nothing.
IdIn(receipt)              == IF receipt = "mined" THEN "id" ELSE "none"
createVault(receipt)       == IdIn(receipt)
addDocument(receipt)       == IdIn(receipt)
requestAccess(receipt)     == IdIn(receipt)
registerPublicKey(receipt) == "void"

\* Mutant: the queue takes a missing vault id for success.
replayCreateVault_unchecked(receipt) == "none"

\* The executors: the error each throws for a receipt, "none" if it returns.
replayCreateVault(receipt)   == IF createVault(receipt) = "none" THEN "error" ELSE "none"
replayAddDocument(receipt)   == IF addDocument(receipt) = "none" THEN "error" ELSE "none"
replayRequestAccess(receipt) == IF requestAccess(receipt) = "none" THEN "error" ELSE "none"
replayRegisterPublicKey(receipt) == IF registerPublicKey(receipt) = "void" THEN "none" ELSE "error"
replayCreateDocumentDraft(receipt) == IF addDocument(receipt) = "none" THEN "error" ELSE "none"

executors(kind, receipt) ==
    CASE kind = "create-vault" -> replayCreateVault(receipt)
      [] kind = "create-document-draft" -> replayCreateDocumentDraft(receipt)
      [] kind = "add-document" -> replayAddDocument(receipt)
      [] kind = "register-public-key" -> replayRegisterPublicKey(receipt)
      [] kind = "request-access" -> replayRequestAccess(receipt)

Begin(act, kind, id) ==
    [stage |-> IF kind = "create-document-draft" THEN "upload" ELSE "submit",
     act |-> act, kind |-> kind, id |-> id, receipt |-> "none", err |-> "none"]

Throw(c, err)  == [c EXCEPT !.stage = "thrown", !.err = err]     \* in the contract call
Reject(c, err) == [c EXCEPT !.stage = "rejected", !.err = err]   \* out of the proxied write

\* The page's draft: without a network it is stored at once, nothing is sent.
saveDraft(t, a) ==
    /\ tab[t].open /\ a \in Acts \ asked /\ "create-document-draft" \in KindsOf[a]
    /\ ~isOnline /\ Len(store) < MAX_RECORDS
    /\ asked' = asked \cup {a}
    /\ enqueueAction(a, "create-document-draft")
    /\ UNCHANGED <<online, ecosystem, tab, call, effects, keys, offlineFaults>>

\* The user asks for a write in a tab that is not in the middle of another.
ask(t, a, k) ==
    /\ tab[t].open /\ a \in Acts \ asked /\ call[t].user = NoCall
    /\ k \in KindsOf[a] \ {"create-document-draft"}
    /\ asked' = asked \cup {a}
    /\ call' = [call EXCEPT ![t].user = Begin(a, k, 0)]
    /\ UNCHANGED <<online, ecosystem, store, tab, effects, keys, syncTag, offlineFaults>>

\* replayCreateDocumentDraft before the contract call: IPFS not configured or the keyring
\* locked, the upload failing, or the payload pinned.
uploadDraft(t) ==
    LET c == call[t].drain
    IN  /\ c.stage = "upload"
        /\ \/ online /\ call' = [call EXCEPT ![t].drain.stage = "submit"] /\ UNCHANGED offlineFaults
           \/ /\ offlineFaults < MAX_OFFLINE_FAULTS /\ offlineFaults' = offlineFaults + 1
              /\ \E err \in {"network", "error"} : call' = [call EXCEPT ![t].drain = Reject(c, err)]
        /\ UNCHANGED <<online, ecosystem, store, tab, effects, keys, syncTag, asked>>

\* The transaction is sent, on the ecosystem selected now, and mined, or mined and reverted;
\* or it is refused or does not leave the browser.
submit(t, who) ==
    LET c == call[t][who]
        Sent(receipt) == [c EXCEPT !.stage = "receipt", !.receipt = receipt]
    IN  /\ c.stage = "submit"
        /\ \/ /\ online
              /\ effects' = [effects EXCEPT ![c.act] = @ \cup {ecosystem}]
              /\ call' = [call EXCEPT ![t][who] = Sent("mined")]
              /\ UNCHANGED offlineFaults
           \/ /\ ~online
              /\ call' = [call EXCEPT ![t][who] = Throw(c, "network")]
              /\ UNCHANGED <<effects, offlineFaults>>
           \/ /\ online /\ offlineFaults < MAX_OFFLINE_FAULTS /\ offlineFaults' = offlineFaults + 1
              /\ \/ call' = [call EXCEPT ![t][who] = Sent("reverted")]
                 \/ \E err \in {"network", "error"} : call' = [call EXCEPT ![t][who] = Throw(c, err)]
              /\ UNCHANGED effects
        /\ UNCHANGED <<online, ecosystem, store, tab, keys, syncTag, asked>>

\* waitForReceipt: the providers in turn, then the signer's; none answers, or the time is up.
\* With a receipt the call returns, an executor looks at the id, a draft's key is kept.
waitForReceipt(t, who) ==
    LET c     == call[t][who]
        fails == who = "drain" /\ executors(c.kind, c.receipt) # "none"
    IN  /\ c.stage = "receipt"
        /\ \/ /\ online /\ UNCHANGED offlineFaults
              /\ call' = [call EXCEPT ![t][who] =
                             IF fails THEN Reject(c, "error") ELSE [c EXCEPT !.stage = "returned"]]
              /\ keys' = IF c.kind = "create-document-draft" /\ ~fails THEN keys \cup {c.act} ELSE keys
           \/ /\ ~online /\ UNCHANGED <<keys, offlineFaults>>
              /\ call' = [call EXCEPT ![t][who] = Throw(c, "network")]
           \/ /\ offlineFaults < MAX_OFFLINE_FAULTS /\ offlineFaults' = offlineFaults + 1
              /\ \E err \in {"network", "error"} : call' = [call EXCEPT ![t][who] = Throw(c, err)]
              /\ UNCHANGED keys
        /\ UNCHANGED <<online, ecosystem, store, tab, effects, syncTag, asked>>

\* The catch of a proxied write: a connectivity failure stores the action and throws an
\* OfflineQueuedError, whose text is no network error's; another error is passed on.
Proxied(t, who, kinds, kind) ==
    LET c == call[t][who]
    IN  /\ c.stage = "thrown" /\ c.kind \in kinds
        /\ IF isNetworkFailure(c.err)
           THEN /\ Len(store) < MAX_RECORDS
                /\ enqueueAction(c.act, kind)
                /\ call' = [call EXCEPT ![t][who] = Reject(c, "queued")]
           ELSE /\ call' = [call EXCEPT ![t][who] = Reject(c, c.err)]
                /\ UNCHANGED <<store, syncTag>>
        /\ UNCHANGED <<online, ecosystem, tab, effects, keys, asked, offlineFaults>>

proxiedCreateVault(t, who)       == Proxied(t, who, {"create-vault"}, "create-vault")
proxiedAddDocument(t, who)       ==
    Proxied(t, who, {"add-document", "create-document-draft"}, "add-document")
proxiedRequestAccess(t, who)     == Proxied(t, who, {"request-access"}, "request-access")
proxiedRegisterPublicKey(t, who) == Proxied(t, who, {"register-public-key"}, "register-public-key")

\* The user's write is over: done, stored for later or refused.
answered(t) ==
    /\ call[t].user.stage \in {"returned", "rejected"}
    /\ call' = [call EXCEPT ![t].user = NoCall]
    /\ UNCHANGED <<online, ecosystem, store, tab, effects, keys, syncTag, asked, offlineFaults>>
-----------------------------------------------------------------------------
\* replayPendingActions, from the timer or syncNow: a drain under way takes the call;
\* otherwise drainQueue lists the queue, unless the browser is offline or it is empty.
replayPendingActions(t) ==
    LET pending == getQueuedActions
        drains  == ~tab[t].draining /\ isOnline /\ pending # {}
    IN  /\ tab[t].open /\ tab[t].timer
        /\ tab' = [tab EXCEPT ![t] = [open |-> TRUE, timer |-> FALSE,
                                      draining |-> tab[t].draining \/ drains,
                                      list |-> IF drains THEN pending ELSE tab[t].list]]
        /\ UNCHANGED <<online, ecosystem, store, call, effects, keys, syncTag, asked, offlineFaults>>

syncNow(t) ==
    /\ tab[t].open /\ isOnline /\ ~tab[t].timer /\ offlineFaults < MAX_OFFLINE_FAULTS
    /\ scheduleReplay({t}) /\ offlineFaults' = offlineFaults + 1
    /\ UNCHANGED <<online, ecosystem, store, call, effects, keys, syncTag, asked>>

\* drainQueue: the next record of the list is marked and handed to its executor.
drainQueue(t) ==
    /\ tab[t].draining /\ call[t].drain = NoCall
    /\ \/ /\ tab[t].list = {}
          /\ tab' = [tab EXCEPT ![t].draining = FALSE] /\ UNCHANGED <<store, call>>
       \/ \E id \in tab[t].list :
             /\ \A other \in tab[t].list : id <= other
             /\ setActionStatus(id, "processing")
             /\ call' = [call EXCEPT ![t].drain = Begin(store[id].act, store[id].kind, id)]
             /\ tab' = [tab EXCEPT ![t].list = @ \ {id}]
    /\ UNCHANGED <<online, ecosystem, effects, keys, syncTag, asked, offlineFaults>>

\* ... and settled: synced, back to pending with the drain over, or failed.
settleAction(t) ==
    LET c == call[t].drain
        offline == c.stage = "rejected" /\ isNetworkFailure(c.err)
    IN  /\ c.stage \in {"returned", "rejected"}
        /\ setActionStatus(c.id, IF c.stage = "returned" THEN "synced"
                                 ELSE IF offline THEN "pending" ELSE "failed")
        /\ call' = [call EXCEPT ![t].drain = NoCall]
        /\ tab' = [tab EXCEPT ![t].list = IF offline THEN {} ELSE @]
        /\ UNCHANGED <<online, ecosystem, effects, keys, syncTag, asked, offlineFaults>>

OfflineNext ==
    \/ Disconnect \/ onlineEvent \/ SwitchEcosystem \/ broadcastReplayRequest
    \/ \E t \in Tabs :
          \/ initOfflineLayer(t) \/ CloseTab(t) \/ answered(t) \/ uploadDraft(t)
          \/ replayPendingActions(t) \/ syncNow(t) \/ drainQueue(t) \/ settleAction(t)
          \/ \E a \in Acts : saveDraft(t, a) \/ \E k \in KindsOf[a] : ask(t, a, k)
          \/ \E who \in Callers :
                \/ submit(t, who) \/ waitForReceipt(t, who)
                \/ proxiedCreateVault(t, who) \/ proxiedAddDocument(t, who)
                \/ proxiedRequestAccess(t, who) \/ proxiedRegisterPublicKey(t, who)

OfflineSpec == OfflineInit /\ [][OfflineNext]_offlineVars
-----------------------------------------------------------------------------
\* An action leaves the queue as synced only when what the user asked for has taken effect on
\* some chain, and a draft only with its document key in the key store: drainQueue marks a
\* record after its executor has looked at the receipt, whatever tab or reconnection ran it.
\* A key registration is the exception, for registerPublicKey reads nothing in the receipt.
SyncedMeansDone ==
    \A i \in DOMAIN store :
       (store[i].status = "synced" /\ store[i].kind # "register-public-key") =>
          /\ effects[store[i].act] # {}
          /\ store[i].kind = "create-document-draft" => store[i].act \in keys

=============================================================================
