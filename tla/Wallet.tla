------------------------------- MODULE Wallet -------------------------------
(***************************************************************************)
(* The Stellar wallet session of a tab: stellar.service.ts keeps the       *)
(* active account and the kind of wallet, Web3Context.tsx shows an         *)
(* account, localStorage remembers a session over reloads, and Freighter   *)
(* (external) may change its account at any moment.  One contract call at  *)
(* a time runs beside them; every await of executeSorobanCall is the end   *)
(* of a step, and what it reads after one may have changed.                *)
(***************************************************************************)
EXTENDS Naturals

CONSTANTS FreighterAccounts,   \* accounts of the Freighter extension
          NoAccount,
          MAX_POLLS,           \* attempts to see a transaction, 30 in the code
          MAX_ACCOUNT_SWITCHES, \* bound: changes of account in Freighter
          MAX_TX,              \* bound: contract calls
          MAX_SESSIONS         \* bound: reloads, connections and disconnections

DEMO == "demo"        \* the demo account; its key is demoKeypair
ALBEDO == "albedo"    \* the account behind Albedo

VARIABLES freighter,    \* [account, allowed, switches]: the extension
          active,       \* [account, type, demo]: activeAccount, activeWalletType, demoKeypair
          saved,        \* [type, account, secret]: localStorage
          watcher,      \* [kind, last]: the subscription and the poller's lastAccount
          shown,        \* the account Web3Context shows
          connecting,   \* what is awaited: "none", "initialize", "demo", "albedo", "freighter"
          sessions,
          call,         \* the contract call
          ledger        \* its transaction on the ledger

walletVars == <<freighter, active, saved, watcher, shown, connecting, sessions, call, ledger>>

NoCall == [stage |-> "idle", arg |-> NoAccount, source |-> NoAccount, auth |-> NoAccount,
           signer |-> NoAccount, attempts |-> 0, n |-> 0]

WalletInit ==
  /\ freighter \in [account : FreighterAccounts, allowed : BOOLEAN, switches : {0}]
  /\ active = [account |-> NoAccount, type |-> "freighter", demo |-> NoAccount]
  /\ saved = [type |-> "none", account |-> NoAccount, secret |-> FALSE]
  /\ watcher = [kind |-> "off", last |-> NoAccount]
  /\ shown = NoAccount
  /\ connecting = "initialize"
  /\ sessions = 0
  /\ call = NoCall
  /\ ledger = "none"
---------------------------------------------------------------------------
(* Sessions.                                                               *)

\* The account Freighter gives this site: none until it was allowed.
getAddress == IF freighter.allowed THEN freighter.account ELSE NoAccount

Connected(account, type, demo) ==
  /\ active' = [account |-> account, type |-> type, demo |-> demo]
  /\ shown' = account
  /\ connecting' = "none"

\* The page loads: the session in storage is tried before Freighter.
initialize ==
  /\ connecting = "initialize"
  /\ IF saved.type = "demo" /\ saved.secret
     THEN Connected(DEMO, "demo", DEMO)
     ELSE IF saved.type = "albedo" /\ saved.account # NoAccount
     THEN Connected(saved.account, "albedo", active.demo)
     ELSE IF freighter.allowed
     THEN Connected(freighter.account, "freighter", active.demo)
     ELSE connecting' = "none" /\ UNCHANGED <<active, shown>>
  /\ UNCHANGED <<freighter, saved, watcher, sessions, call, ledger>>

\* The effect of Web3Context subscribes; without native events it polls.
subscribeToWalletChanges ==
  /\ watcher.kind = "off"
  /\ watcher' \in {[kind |-> "listen", last |-> NoAccount],
                   [kind |-> "poll", last |-> active.account]}
  /\ UNCHANGED <<freighter, active, saved, shown, connecting, sessions, call, ledger>>

\* An account reported to the subscription becomes the account of service and page.
handleEvent(account) ==
  /\ active' = [active EXCEPT !.account = account]
  /\ shown' = account

\* The poller moves the service's account and forgets the page.
startPollingWatcher_silent ==
  /\ watcher.kind = "poll"
  /\ getAddress \notin {NoAccount, watcher.last}
  /\ watcher' = [watcher EXCEPT !.last = getAddress]
  /\ active' = [active EXCEPT !.account = getAddress]
  /\ UNCHANGED <<freighter, saved, shown, connecting, sessions, call, ledger>>

\* A tick of the poller; one that sees no change does nothing.
startPollingWatcher ==
  /\ watcher.kind = "poll"
  /\ getAddress \notin {NoAccount, watcher.last}
  /\ watcher' = [watcher EXCEPT !.last = getAddress]
  /\ handleEvent(getAddress)
  /\ UNCHANGED <<freighter, saved, connecting, sessions, call, ledger>>

\* The user picks another account in Freighter; a native listener hears of it at once.
SwitchAccount ==
  /\ freighter.switches < MAX_ACCOUNT_SWITCHES
  /\ \E a \in FreighterAccounts \ {freighter.account} :
       /\ freighter' = [freighter EXCEPT !.account = a, !.switches = @ + 1]
       /\ IF watcher.kind = "listen" /\ freighter.allowed
          THEN handleEvent(a) ELSE UNCHANGED <<active, shown>>
  /\ UNCHANGED <<saved, watcher, connecting, sessions, call, ledger>>

\* A button of the connect modal; a popup or a promise is awaited.
Connect(kind) ==
  /\ connecting = "none"
  /\ sessions < MAX_SESSIONS
  /\ connecting' = kind
  /\ sessions' = sessions + 1
  /\ UNCHANGED <<freighter, active, saved, watcher, shown, call, ledger>>

\* Provided, stored or new, the key is the demo account's.
connectDemoWallet ==
  /\ connecting = "demo"
  /\ saved' = [type |-> "demo", account |-> DEMO, secret |-> TRUE]
  /\ Connected(DEMO, "demo", DEMO)
  /\ UNCHANGED <<freighter, watcher, sessions, call, ledger>>

\* Albedo answers, or refuses, sends no key, times out or its popup was blocked.
connectAlbedoWallet ==
  /\ connecting = "albedo"
  /\ \/ /\ saved' = [saved EXCEPT !.type = "albedo", !.account = ALBEDO]
        /\ Connected(ALBEDO, "albedo", active.demo)
     \/ connecting' = "none" /\ UNCHANGED <<saved, active, shown>>
  /\ UNCHANGED <<freighter, watcher, sessions, call, ledger>>

\* Freighter grants access and gives its account, or the user rejects.
connectWallet ==
  /\ connecting = "freighter"
  /\ \/ /\ freighter' = [freighter EXCEPT !.allowed = TRUE]
        /\ saved' = [saved EXCEPT !.type = "freighter", !.account = freighter.account]
        /\ Connected(freighter.account, "freighter", active.demo)
     \/ connecting' = "none" /\ UNCHANGED <<freighter, saved, active, shown>>
  /\ UNCHANGED <<watcher, sessions, call, ledger>>

\* disconnect clears the service and the page; the demo key stays in storage.
clear ==
  /\ active # [account |-> NoAccount, type |-> "freighter", demo |-> NoAccount]
  /\ sessions < MAX_SESSIONS
  /\ active' = [account |-> NoAccount, type |-> "freighter", demo |-> NoAccount]
  /\ saved' = [saved EXCEPT !.type = "none", !.account = NoAccount]
  /\ shown' = NoAccount
  /\ sessions' = sessions + 1
  /\ UNCHANGED <<freighter, watcher, connecting, call, ledger>>

\* The page is loaded again: memory is lost, a call in flight has no caller any more.
ReloadPage ==
  /\ sessions < MAX_SESSIONS
  /\ active' = [account |-> NoAccount, type |-> "freighter", demo |-> NoAccount]
  /\ shown' = NoAccount
  /\ watcher' = [kind |-> "off", last |-> NoAccount]
  /\ connecting' = "initialize"
  /\ sessions' = sessions + 1
  /\ call' = [call EXCEPT !.stage = IF @ = "idle" THEN @ ELSE "abandoned"]
  /\ UNCHANGED <<freighter, saved, ledger>>

---------------------------------------------------------------------------
(* A contract call.                                                        *)

Step(from, to) == call.stage = from /\ call' = [call EXCEPT !.stage = to]
Keep == UNCHANGED <<freighter, active, saved, watcher, shown, connecting, sessions>>

\* The service builds the arguments with the active account and loads the SDK.
createVault ==
  /\ call.stage \in {"idle", "resolved", "rejected", "abandoned"}
  /\ call.n < MAX_TX
  /\ active.account # NoAccount
  /\ call' = [NoCall EXCEPT !.stage = "called", !.arg = active.account, !.n = call.n + 1]
  /\ ledger' = "none"
  /\ Keep

\* The source account is the active account of that moment; none is an error.
getSourceAccount ==
  /\ call.stage = "called"
  /\ call' = IF active.account = NoAccount THEN [call EXCEPT !.stage = "rejected"]
             ELSE [call EXCEPT !.stage = "built", !.source = active.account]
  /\ UNCHANGED ledger /\ Keep

simulateTransaction ==
  /\ Step("built", "simulated") \/ Step("built", "rejected")
  /\ UNCHANGED ledger /\ Keep

\* Which key signs now: the demo key, Albedo's or the account Freighter is on.
SigningKey ==
  IF active.type = "demo" /\ active.demo # NoAccount THEN active.demo
  ELSE IF active.type = "albedo" THEN ALBEDO ELSE freighter.account

\* Albedo signs no entry; a failure of Freighter's rejects the call.
signAuthEntry ==
  /\ call.stage = "simulated"
  /\ \/ call' = [call EXCEPT !.stage = "authorised",
                             !.auth = IF active.type = "albedo" THEN NoAccount ELSE SigningKey]
     \/ call' = [call EXCEPT !.stage = "rejected"]
  /\ UNCHANGED ledger /\ Keep

\* The popup of Albedo may refuse, time out or be blocked, Freighter's user reject.
signTransaction ==
  /\ call.stage = "authorised"
  /\ \/ call' = [call EXCEPT !.stage = "signed", !.signer = SigningKey]
     \/ call' = [call EXCEPT !.stage = "rejected"]
  /\ UNCHANGED ledger /\ Keep

\* The server refuses an envelope not signed by its source, or for its own reasons.
sendTransaction ==
  /\ \/ Step("signed", "polling") /\ call.signer = call.source /\ ledger' = "pending"
     \/ Step("signed", "rejected") /\ UNCHANGED ledger
  /\ Keep

\* The ledger closes: the contract demands the authorisation of the account in the
\* arguments, which the source gives by its signature; or the transaction expires.
LedgerCloses ==
  /\ ledger = "pending"
  /\ ledger' \in IF call.arg \in {call.source, call.auth}
                 THEN {"applied", "failed", "expired"} ELSE {"failed", "expired"}
  /\ UNCHANGED call /\ Keep

\* Giving up is reported as success.
getTransaction_optimist ==
  /\ call.stage = "polling"
  /\ call' = CASE ledger = "applied" -> [call EXCEPT !.stage = "resolved"]
               [] ledger = "failed" -> [call EXCEPT !.stage = "rejected"]
               [] OTHER -> IF call.attempts + 1 < MAX_POLLS
                           THEN [call EXCEPT !.attempts = @ + 1]
                           ELSE [call EXCEPT !.stage = "resolved"]
  /\ UNCHANGED ledger /\ Keep

\* One look at the status; after the last the call fails though the transaction may
\* still be applied.
getTransaction ==
  /\ call.stage = "polling"
  /\ call' = CASE ledger = "applied" -> [call EXCEPT !.stage = "resolved"]
               [] ledger = "failed" -> [call EXCEPT !.stage = "rejected"]
               [] OTHER -> IF call.attempts + 1 < MAX_POLLS
                           THEN [call EXCEPT !.attempts = @ + 1]
                           ELSE [call EXCEPT !.stage = "rejected"]
  /\ UNCHANGED ledger /\ Keep

executeSorobanCall ==
  \/ getSourceAccount \/ simulateTransaction \/ signAuthEntry
  \/ signTransaction \/ sendTransaction \/ getTransaction

WalletNext ==
  \/ initialize \/ subscribeToWalletChanges \/ startPollingWatcher \/ SwitchAccount
  \/ \E kind \in {"demo", "albedo", "freighter"} : Connect(kind)
  \/ connectDemoWallet \/ connectAlbedoWallet \/ connectWallet \/ clear \/ ReloadPage
  \/ createVault \/ executeSorobanCall \/ LedgerCloses

WalletSpec == WalletInit /\ [][WalletNext]_walletVars

---------------------------------------------------------------------------
(* The account the page shows is the account the service acts for, whatever *)
(* the order of reloads, connections, disconnections and the events and     *)
(* polls that follow Freighter (Web3Context and subscribeToWalletChanges).  *)
PageFollowsWallet ==
  shown = active.account

(* A call that resolved was applied on the ledger, once, for the account    *)
(* that was active when it was made and with the signature of that account, *)
(* however sessions changed while it ran; a call that was rejected before   *)
(* it was sent left nothing behind (executeSorobanCall).                    *)
ResolvedMeansApplied ==
  /\ call.stage = "resolved" =>
       /\ ledger = "applied"
       /\ call.arg \in {call.signer, call.auth}
  /\ ledger # "none" => call.stage \in {"polling", "resolved", "rejected", "abandoned"}

\* The page and the ledger agree with the wallet: the account shown is the one the service acts
\* for, and a call that resolved was applied, once, for the account it was made for
\* (stellar.service.ts: subscribeToWalletChanges, executeSorobanCall; Web3Context.tsx).
WalletIsHonest == PageFollowsWallet /\ ResolvedMeansApplied
=============================================================================
