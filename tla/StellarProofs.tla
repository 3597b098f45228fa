--------------------------- MODULE StellarProofs ----------------------------
(***************************************************************************)
(* TLAPS proofs about the Stellar side of the application: the wallet session*)
(* and its contract call (Wallet), the services that carry approvals,      *)
(* revocations and heartbeats from the EVM chain (CrossChainRelay), and the*)
(* release state of a vault (SorobanRelease).  The parts share no state.   *)
(***************************************************************************)
EXTENDS Wallet, CrossChainRelay, SorobanRelease, FiniteSetTheorems, TLAPS
-----------------------------------------------------------------------------
(* The wallet's contract call: only a transaction signed by its source is sent, and only one    *)
(* its account authorised is applied.                                                            *)
WalletAccounts == FreighterAccounts \cup {NoAccount, DEMO, ALBEDO}
Sessions == [account : WalletAccounts, type : {"freighter", "demo", "albedo"}, demo : WalletAccounts]
CallStages == {"idle", "called", "built", "simulated", "authorised", "signed", "polling", "resolved", "rejected", "abandoned"}
ContractCalls ==
    [stage : CallStages, arg : WalletAccounts, source : WalletAccounts, auth : WalletAccounts,
     signer : WalletAccounts, attempts : Nat, n : Nat]
WalletTypeOK ==
    /\ active \in Sessions
    /\ freighter \in [account : FreighterAccounts, allowed : BOOLEAN, switches : Nat]
    /\ saved \in [type : {"none", "freighter", "demo", "albedo"}, account : WalletAccounts, secret : BOOLEAN]
    /\ call \in ContractCalls
SentIsSigned == call.stage \in {"polling", "resolved"} => call.signer = call.source
AppliedIsAuthorised == ledger = "applied" => call.arg \in {call.source, call.auth}

CallInv == ResolvedMeansApplied /\ SentIsSigned /\ AppliedIsAuthorised
WalletInv == WalletTypeOK /\ PageFollowsWallet /\ CallInv

\* The steps of the session leave the call alone, and move the account shown with the active one.
LEMMA SessionStep ==
    ASSUME WalletInv,
           \/ initialize \/ subscribeToWalletChanges \/ startPollingWatcher \/ SwitchAccount
           \/ \E kind \in {"demo", "albedo", "freighter"} : Connect(kind)
           \/ connectDemoWallet \/ connectAlbedoWallet \/ connectWallet \/ clear
    PROVE  WalletInv'
<1> DEFINE Fs == [account : FreighterAccounts, allowed : BOOLEAN, switches : Nat]
           Ss == [type : {"none", "freighter", "demo", "albedo"}, account : WalletAccounts, secret : BOOLEAN]
<1>0. active \in Sessions /\ freighter.account \in FreighterAccounts /\ saved.account \in WalletAccounts
  BY Zenon DEF WalletInv, WalletTypeOK
<1>t. freighter \in Fs /\ saved \in Ss
  BY Zenon DEF WalletInv, WalletTypeOK
<1>e. ASSUME NEW a \in WalletAccounts, handleEvent(a)
      PROVE  active' \in Sessions /\ PageFollowsWallet'
  BY <1>0, <1>e, Zenon DEF handleEvent, Sessions, PageFollowsWallet
<1>c. ASSUME NEW a \in WalletAccounts, NEW ty \in {"freighter", "demo", "albedo"}, NEW d \in WalletAccounts, Connected(a, ty, d)
      PROVE  active' \in Sessions /\ PageFollowsWallet'
  BY <1>c, Zenon DEF Connected, Sessions, PageFollowsWallet
<1>u. ASSUME UNCHANGED <<active, shown>> PROVE active' \in Sessions /\ PageFollowsWallet'
  BY <1>0, <1>u, Zenon DEF WalletInv, PageFollowsWallet
<1>d. /\ DEMO \in WalletAccounts /\ ALBEDO \in WalletAccounts /\ NoAccount \in WalletAccounts
      /\ freighter.account \in WalletAccounts /\ active.demo \in WalletAccounts
  BY <1>0, Zenon DEF WalletAccounts, Sessions
<1>1. UNCHANGED <<call, ledger>>
  BY Zenon DEF initialize, subscribeToWalletChanges, startPollingWatcher, SwitchAccount, Connect,
         connectDemoWallet, connectAlbedoWallet, connectWallet, clear
<1>2. freighter' \in Fs
  <2>1. CASE UNCHANGED freighter
    BY <1>t, <2>1, Zenon
  <2>2. CASE SwitchAccount
    <3>0. PICK n : n = freighter.switches + 1
      BY Zenon
    <3>1. PICK a \in FreighterAccounts : freighter' = [freighter EXCEPT !.account = a, !.switches = n]
      BY <2>2, <3>0, Zenon DEF SwitchAccount
    <3>2. freighter.switches \in Nat
      BY <1>t, Zenon
    <3>3. n \in Nat
      BY <3>0, <3>2
    <3> QED
      BY <1>t, <3>1, <3>3, Zenon
  <2>3. CASE freighter' = [freighter EXCEPT !.allowed = TRUE]
    BY <1>t, <2>3, Zenon
  <2> QED
    BY <2>1, <2>2, <2>3, Zenon DEF initialize, subscribeToWalletChanges, startPollingWatcher, Connect,
       connectDemoWallet, connectAlbedoWallet, connectWallet, clear
<1>3. saved' \in Ss
  <2>1. CASE UNCHANGED saved
    BY <1>t, <2>1, Zenon
  <2>2. CASE connectDemoWallet
    BY <1>d, <2>2, Zenon DEF connectDemoWallet
  <2>3. ASSUME NEW ty \in {"none", "albedo", "freighter"}, NEW a \in WalletAccounts,
               saved' = [saved EXCEPT !.type = ty, !.account = a]
        PROVE  saved' \in Ss
    BY <1>t, <2>3, Zenon
  <2>4. CASE connectAlbedoWallet \/ connectWallet \/ clear
    BY <1>d, <2>1, <2>3, <2>4, Zenon DEF connectAlbedoWallet, connectWallet, clear
  <2> QED
    BY <2>1, <2>2, <2>4, Zenon DEF initialize, subscribeToWalletChanges, startPollingWatcher, SwitchAccount, Connect
<1>4. active' \in Sessions /\ PageFollowsWallet'
  <2>1. CASE initialize
    BY <2>1, <1>0, <1>c, <1>d, <1>u, Zenon DEF initialize
  <2>2. CASE subscribeToWalletChanges \/ \E kind \in {"demo", "albedo", "freighter"} : Connect(kind)
    BY <2>2, <1>u, Zenon DEF subscribeToWalletChanges, Connect
  <2>3. CASE startPollingWatcher
    BY <2>3, <1>e, <1>d, Zenon DEF startPollingWatcher, getAddress
  <2>4. CASE SwitchAccount
    BY <2>4, <1>e, <1>u DEF SwitchAccount, WalletAccounts
  <2>5. CASE connectDemoWallet \/ connectAlbedoWallet \/ connectWallet
    BY <2>5, <1>c, <1>d, <1>u, Zenon DEF connectDemoWallet, connectAlbedoWallet, connectWallet
  <2>6. CASE clear
    BY <2>6, <1>d, Zenon DEF clear, Sessions, PageFollowsWallet
  <2> QED
    BY <2>1, <2>2, <2>3, <2>4, <2>5, <2>6
<1> QED
  BY <1>1, <1>2, <1>3, <1>4, Zenon
     DEF WalletInv, WalletTypeOK, CallInv, ResolvedMeansApplied, SentIsSigned, AppliedIsAuthorised

\* A step of the call, which leaves the session alone.
LEMMA CallMoves ==
    ASSUME WalletInv, Keep, call' \in ContractCalls, CallInv'
    PROVE  WalletInv'
  BY Zenon DEF WalletInv, WalletTypeOK, Keep, PageFollowsWallet

\* A call that only changes its stage.
LEMMA StageMoves ==
    ASSUME WalletInv, Keep, NEW st \in CallStages, call' = [call EXCEPT !.stage = st],
           ledger' = ledger, st = "polling" => call.stage = "polling",
           st = "resolved" => call.stage = "polling" /\ ledger = "applied",
           ledger # "none" => st \in {"polling", "resolved", "rejected", "abandoned"}
    PROVE  WalletInv'
<1>1. call \in ContractCalls /\ CallInv
  BY Zenon DEF WalletInv, WalletTypeOK
<1>2. /\ call' \in ContractCalls /\ call'.stage = st /\ call'.arg = call.arg /\ call'.source = call.source
      /\ call'.auth = call.auth /\ call'.signer = call.signer
  BY <1>1, Zenon DEF ContractCalls
<1>3. CallInv'
  BY <1>1, <1>2, Zenon DEF CallInv, ResolvedMeansApplied, SentIsSigned, AppliedIsAuthorised
<1> QED
  BY <1>2, <1>3, CallMoves, Zenon

LEMMA CallStep == ASSUME WalletInv, createVault \/ executeSorobanCall \/ LedgerCloses PROVE WalletInv'
<1>0. call \in ContractCalls /\ CallInv /\ active \in Sessions /\ freighter.account \in FreighterAccounts
  BY Zenon DEF WalletInv, WalletTypeOK
<1>a. active.account \in WalletAccounts /\ SigningKey \in WalletAccounts /\ NoAccount \in WalletAccounts
  BY <1>0, Zenon DEF Sessions, SigningKey, WalletAccounts
<1>s. call.stage \notin {"polling", "resolved", "rejected", "abandoned"} => ledger = "none"
  BY <1>0, Zenon DEF CallInv, ResolvedMeansApplied
<1>1. CASE createVault
  <2>1. PICK n : n = call.n + 1
    BY Zenon
  <2>2. call.n \in Nat
    BY <1>0, Zenon DEF ContractCalls
  <2>n. n \in Nat /\ NoCall \in ContractCalls
    BY <1>a, <2>1, <2>2 DEF NoCall, ContractCalls, CallStages
  <2>c. PICK c : c = [NoCall EXCEPT !.stage = "called", !.arg = active.account, !.n = n]
    BY Zenon
  <2>3. c \in ContractCalls /\ c.stage = "called"
    BY <1>a, <2>n, <2>c, Zenon DEF ContractCalls, CallStages
  <2>4. call' = c /\ ledger' = "none" /\ Keep
    BY <1>1, <2>1, <2>c, Zenon DEF createVault
  <2>5. CallInv'
    BY <2>3, <2>4, Zenon DEF CallInv, ResolvedMeansApplied, SentIsSigned, AppliedIsAuthorised
  <2> QED
    BY <2>3, <2>4, <2>5, CallMoves, Zenon
<1>2. CASE getSourceAccount
  <2>1. call.stage = "called" /\ ledger' = ledger /\ Keep /\ ledger = "none"
    BY <1>2, <1>s, Zenon DEF getSourceAccount
  <2>2. CASE call' = [call EXCEPT !.stage = "rejected"]
    BY <2>1, <2>2, StageMoves, Zenon DEF CallStages
  <2>3. CASE call' = [call EXCEPT !.stage = "built", !.source = active.account]
    <3>1. call' \in ContractCalls /\ call'.stage = "built"
      BY <1>0, <1>a, <2>3, Zenon DEF ContractCalls, CallStages
    <3>2. CallInv'
      BY <2>1, <3>1, Zenon DEF CallInv, ResolvedMeansApplied, SentIsSigned, AppliedIsAuthorised
    <3> QED
      BY <2>1, <3>1, <3>2, CallMoves
  <2> QED
    BY <1>2, <2>2, <2>3, Zenon DEF getSourceAccount
<1>3. CASE simulateTransaction
  <2>1. call.stage = "built" /\ ledger' = ledger /\ Keep /\ ledger = "none"
    BY <1>3, <1>s DEF simulateTransaction, Step
  <2> QED
    BY <1>3, <2>1, StageMoves, Zenon DEF simulateTransaction, Step, CallStages
<1>4. CASE signAuthEntry
  <2>1. call.stage = "simulated" /\ ledger' = ledger /\ Keep /\ ledger = "none"
    BY <1>4, <1>s, Zenon DEF signAuthEntry
  <2>2. CASE call' = [call EXCEPT !.stage = "rejected"]
    BY <2>1, <2>2, StageMoves, Zenon DEF CallStages
  <2>3. ASSUME NEW a \in WalletAccounts, call' = [call EXCEPT !.stage = "authorised", !.auth = a] PROVE WalletInv'
    <3>1. call' \in ContractCalls /\ call'.stage = "authorised"
      BY <1>0, <2>3, Zenon DEF ContractCalls, CallStages
    <3>2. CallInv'
      BY <2>1, <3>1, Zenon DEF CallInv, ResolvedMeansApplied, SentIsSigned, AppliedIsAuthorised
    <3> QED
      BY <2>1, <3>1, <3>2, CallMoves
  <2> QED
    BY <1>4, <1>a, <2>2, <2>3, Zenon DEF signAuthEntry
<1>5. CASE signTransaction
  <2>1. call.stage = "authorised" /\ ledger' = ledger /\ Keep /\ ledger = "none"
    BY <1>5, <1>s, Zenon DEF signTransaction
  <2>2. CASE call' = [call EXCEPT !.stage = "rejected"]
    BY <2>1, <2>2, StageMoves, Zenon DEF CallStages
  <2>3. ASSUME NEW a \in WalletAccounts, call' = [call EXCEPT !.stage = "signed", !.signer = a] PROVE WalletInv'
    <3>1. call' \in ContractCalls /\ call'.stage = "signed"
      BY <1>0, <2>3, Zenon DEF ContractCalls, CallStages
    <3>2. CallInv'
      BY <2>1, <3>1, Zenon DEF CallInv, ResolvedMeansApplied, SentIsSigned, AppliedIsAuthorised
    <3> QED
      BY <2>1, <3>1, <3>2, CallMoves, Zenon
  <2> QED
    BY <1>5, <1>a, <2>2, <2>3, Zenon DEF signTransaction
<1>6. CASE sendTransaction
  <2>1. call.stage = "signed" /\ Keep /\ ledger = "none"
    BY <1>6, <1>s, Zenon DEF sendTransaction, Step
  <2>2. CASE call' = [call EXCEPT !.stage = "rejected"] /\ ledger' = ledger
    BY <2>1, <2>2, StageMoves, Zenon DEF CallStages
  <2>3. CASE call' = [call EXCEPT !.stage = "polling"] /\ call.signer = call.source /\ ledger' = "pending"
    <3>1. call' \in ContractCalls /\ call'.stage = "polling" /\ call'.signer = call.signer /\ call'.source = call.source
      BY <1>0, <2>3, Zenon DEF ContractCalls, CallStages
    <3>2. CallInv'
      BY <2>3, <3>1, Zenon DEF CallInv, ResolvedMeansApplied, SentIsSigned, AppliedIsAuthorised
    <3> QED
      BY <2>1, <3>1, <3>2, CallMoves, Zenon
  <2> QED
    BY <1>6, <2>2, <2>3, Zenon DEF sendTransaction, Step
<1>7. CASE getTransaction
  <2>1. call.stage = "polling" /\ ledger' = ledger /\ Keep
    BY <1>7, Zenon DEF getTransaction
  <2>2. CASE ledger = "applied"
    <3>1. call' = [call EXCEPT !.stage = "resolved"]
      BY <1>7, <2>2, Zenon DEF getTransaction
    <3> QED
      BY <2>1, <2>2, <3>1, StageMoves, Zenon DEF CallStages
  <2>3. CASE call' = [call EXCEPT !.stage = "rejected"]
    BY <2>1, <2>3, StageMoves, Zenon DEF CallStages
  <2>4. CASE call' = [call EXCEPT !.attempts = call.attempts + 1]
    <3>1. /\ call' \in ContractCalls /\ call'.stage = call.stage /\ call'.signer = call.signer /\ call'.source = call.source
          /\ call'.arg = call.arg /\ call'.auth = call.auth
      BY <1>0, <2>4 DEF ContractCalls
    <3>2. CallInv'
      BY <1>0, <2>1, <3>1, Zenon DEF CallInv, ResolvedMeansApplied, SentIsSigned, AppliedIsAuthorised
    <3> QED
      BY <2>1, <3>1, <3>2, CallMoves, Zenon
  <2> QED
    BY <1>7, <2>2, <2>3, <2>4, Zenon DEF getTransaction
<1>8. CASE LedgerCloses
  <2>1. ledger = "pending" /\ call' = call /\ Keep /\ ledger' \in {"applied", "failed", "expired"}
        /\ (ledger' = "applied" => call.arg \in {call.source, call.auth})
    BY <1>8, Zenon DEF LedgerCloses
  <2>2. CallInv'
    BY <1>0, <2>1, Zenon DEF CallInv, ResolvedMeansApplied, SentIsSigned, AppliedIsAuthorised
  <2> QED
    BY <1>0, <2>1, <2>2, CallMoves, Zenon
<1> QED
  BY <1>1, <1>2, <1>3, <1>4, <1>5, <1>6, <1>7, <1>8, Zenon DEF executeSorobanCall

LEMMA WalletStep == WalletInv /\ [WalletNext]_walletVars => WalletInv'
<1> SUFFICES ASSUME WalletInv, [WalletNext]_walletVars PROVE WalletInv'
  BY Zenon
<1>1. CASE ReloadPage
  <2>1. /\ active' = [account |-> NoAccount, type |-> "freighter", demo |-> NoAccount] /\ shown' = NoAccount
        /\ UNCHANGED <<freighter, saved, ledger>>
    BY <1>1, Zenon DEF ReloadPage
  <2>2. active' \in Sessions /\ PageFollowsWallet'
    BY <2>1, Zenon DEF Sessions, WalletAccounts, PageFollowsWallet
  <2>3. call \in ContractCalls /\ CallInv
    BY Zenon DEF WalletInv, WalletTypeOK
  <2>4. PICK st \in {"idle", "abandoned"} : call' = [call EXCEPT !.stage = st] /\ (st = "idle" => call.stage = "idle")
    BY <1>1, Zenon DEF ReloadPage
  <2>5. st \in CallStages
    BY Zenon DEF CallStages
  <2>6. /\ call' \in ContractCalls /\ call'.stage = st /\ call'.signer = call.signer /\ call'.source = call.source
        /\ call'.arg = call.arg /\ call'.auth = call.auth
    BY <2>3, <2>4, <2>5, Zenon DEF ContractCalls
  <2>7. CallInv'
    BY <2>1, <2>3, <2>4, <2>6, Zenon DEF CallInv, ResolvedMeansApplied, SentIsSigned, AppliedIsAuthorised
  <2> QED
    BY <2>1, <2>2, <2>6, <2>7, Zenon DEF WalletInv, WalletTypeOK
<1>2. CASE UNCHANGED walletVars
  BY <1>2, Zenon DEF walletVars, WalletInv, WalletTypeOK, PageFollowsWallet, CallInv, ResolvedMeansApplied,
     SentIsSigned, AppliedIsAuthorised
<1> QED
  BY <1>1, <1>2, SessionStep, CallStep, Zenon DEF WalletNext

LEMMA WalletStart == WalletInit => WalletInv
<1> SUFFICES ASSUME WalletInit PROVE WalletInv
  BY Zenon
<1>1. active \in Sessions /\ PageFollowsWallet
  BY Zenon DEF WalletInit, Sessions, WalletAccounts, PageFollowsWallet
<1>2. call \in ContractCalls /\ call.stage = "idle"
  BY Zenon DEF WalletInit, NoCall, ContractCalls, CallStages, WalletAccounts
<1>3. CallInv
  BY <1>2, Zenon DEF WalletInit, CallInv, ResolvedMeansApplied, SentIsSigned, AppliedIsAuthorised
<1>4. {0} \subseteq Nat
  OBVIOUS
<1>5. freighter \in [account : FreighterAccounts, allowed : BOOLEAN, switches : Nat]
  BY <1>4, Zenon DEF WalletInit
<1>6. NoAccount \in WalletAccounts
  BY Zenon DEF WalletAccounts
<1>7. saved \in [type : {"none", "freighter", "demo", "albedo"}, account : WalletAccounts, secret : BOOLEAN]
  BY <1>6, Zenon DEF WalletInit
<1> QED
  BY <1>1, <1>2, <1>3, <1>5, <1>7, Zenon DEF WalletInv, WalletTypeOK

\* The wallet is honest for any number of accounts, reloads, polls and calls: the page shows the
\* account the service acts for, and a call of executeSorobanCall that resolves was applied on
\* the ledger for the account it was made for, with that account's signature.
THEOREM WalletHonest == WalletSpec => []WalletIsHonest
<1>1. WalletInv => WalletIsHonest
  BY Zenon DEF WalletInv, CallInv, WalletIsHonest
<1> QED
  BY <1>1, WalletStart, WalletStep, PTL DEF WalletSpec

-----------------------------------------------------------------------------
(* The cross-chain services. *)

\* What the service forgot it can accept once more, and only what it forgot.
ApprovalBooks ==
    /\ restarts \in Nat /\ accepted \in [Approvals -> Nat]
    /\ \A m \in Approvals : accepted[m] <= IF m \in processedHashes THEN 1 + restarts ELSE restarts

\* The contract's nonce is at least every nonce applied, and the places of the applied ones are
\* below their number.
RevocationBooks ==
    /\ contractNonce \in [Grants -> Nat]
    /\ revocations \in [Grants -> SUBSET (Nat \X Nat)]
    /\ \A g \in Grants : /\ IsFiniteSet(revocations[g])
                         /\ \A x \in revocations[g] : /\ x[1] <= contractNonce[g]
                                                       /\ x[2] < Cardinality(revocations[g])

\* Nothing is dated ahead of the crossClock, and what goes to Soroban is on the EVM chain first.
HeartbeatBooks ==
    /\ crossClock \in Nat /\ evmProof \in 0 .. crossClock /\ stellarProof \in 0 .. evmProof
    /\ heartbeat \in [Devices -> [pc : {"idle", "evm", "stellar"}, timestamp : Nat]]
    /\ \A d \in Devices : /\ heartbeat[d].timestamp <= crossClock
                          /\ heartbeat[d].pc = "stellar" => heartbeat[d].timestamp <= evmProof

CrossInv == ApprovalBooks /\ RevocationBooks /\ RevocationsInOrder /\ HeartbeatBooks

\* processMessage accepts only what it does not remember.
LEMMA ApprovalStep == ApprovalBooks /\ [CrossNext]_crossVars => ApprovalBooks'
<1> SUFFICES ASSUME ApprovalBooks, [CrossNext]_crossVars PROVE ApprovalBooks'
  BY Zenon
<1> USE DEF ApprovalBooks, memory
<1>1. CASE Restart
  BY <1>1 DEF Restart
<1>2. ASSUME NEW m \in Approvals, processMessage(m) PROVE ApprovalBooks'
  BY <1>2 DEF processMessage
<1>3. CASE UNCHANGED <<restarts, accepted, processedHashes>>
  BY <1>3, Zenon
<1> QED
  BY <1>1, <1>2, <1>3, Zenon DEF CrossNext, CrossTick, ApprovalNext, RevocationNext, HeartbeatNext,
     processRevocationBroadcast, relayRevocationToSoroban, signHeartbeatPayload,
     recordProofOfLife, syncProofOfLife, crossVars

\* A revocation that the contract applies has a nonce above all the others and the last place.
LEMMA RevocationStep ==
    ASSUME RevocationBooks, RevocationsInOrder, [CrossNext]_crossVars
    PROVE  RevocationBooks' /\ RevocationsInOrder'
<1>1. ASSUME NEW g \in Grants, NEW n \in Nonces, relayRevocationToSoroban(g, n), n > contractNonce[g]
      PROVE  RevocationBooks' /\ RevocationsInOrder'
  <2> DEFINE R == revocations[g]
             x == <<n, Cardinality(R)>>
  <2>1. IsFiniteSet(R) /\ Cardinality(R) \in Nat /\ R \in SUBSET (Nat \X Nat) /\ n \in Nat
    BY CrossConstants, FS_CardinalityType, Zenon DEF RevocationBooks
  <2>2. x \notin R
    BY <2>1 DEF RevocationBooks
  <2>3. IsFiniteSet(R \cup {x}) /\ Cardinality(R \cup {x}) = Cardinality(R) + 1
    BY <2>1, <2>2, FS_AddElement, Zenon
  <2>4. /\ contractNonce' = [contractNonce EXCEPT ![g] = n]
        /\ revocations' = [revocations EXCEPT ![g] = R \cup {x}]
    BY <1>1, Zenon DEF relayRevocationToSoroban
  <2>5. \A y \in R : y[1] < n /\ y[2] < Cardinality(R) /\ y \in Nat \X Nat
    BY <1>1, <2>1 DEF RevocationBooks
  <2> HIDE DEF R
  <2>6. ASSUME NEW h \in Grants
        PROVE  /\ IsFiniteSet(revocations'[h]) /\ revocations'[h] \in SUBSET (Nat \X Nat)
               /\ contractNonce'[h] \in Nat
               /\ \A y \in revocations'[h] : /\ y[1] <= contractNonce'[h]
                                              /\ y[2] < Cardinality(revocations'[h])
               /\ \A y, z \in revocations'[h] : y[2] < z[2] => y[1] < z[1]
    <3>1. CASE h = g
      <4>1. revocations'[h] = R \cup {x} /\ contractNonce'[h] = n
        BY <2>4, <3>1, Zenon DEF RevocationBooks
      <4>2. \A y, z \in R : y[2] < z[2] => y[1] < z[1]
        BY Zenon DEF RevocationsInOrder, R
      <4>3. x[1] = n /\ x[2] = Cardinality(R)
        BY Zenon
      <4> HIDE DEF x
      <4>4. \A y \in R \cup {x} : y[1] <= n /\ y[2] < Cardinality(R \cup {x})
        BY <2>1, <2>3, <2>5, <4>3
      <4>5. \A y, z \in R \cup {x} : y[2] < z[2] => y[1] < z[1]
        BY <2>1, <2>5, <4>2, <4>3
      <4>6. R \cup {x} \in SUBSET (Nat \X Nat)
        BY <2>1 DEF x
      <4> QED
        BY <2>1, <2>3, <4>1, <4>4, <4>5, <4>6, Zenon
    <3>2. CASE h # g
      BY <2>4, <3>2, Zenon DEF RevocationBooks, RevocationsInOrder
    <3> QED
      BY <3>1, <3>2, Zenon
  <2>7. DOMAIN revocations' = Grants /\ DOMAIN contractNonce' = Grants
    BY <2>4, Zenon DEF RevocationBooks
  <2> QED
    BY <2>4, <2>6, <2>7, Zenon DEF RevocationBooks, RevocationsInOrder
<1>2. CASE UNCHANGED <<contractNonce, revocations>>
  BY <1>2, Zenon DEF RevocationBooks, RevocationsInOrder
<1> QED
  BY <1>1, <1>2, Zenon DEF CrossNext, CrossTick, Restart, ApprovalNext, RevocationNext, HeartbeatNext,
     processMessage, processRevocationBroadcast, relayRevocationToSoroban, signHeartbeatPayload,
     recordProofOfLife, syncProofOfLife, crossVars

\* A heartbeat is signed before it is on the EVM chain, and goes to Soroban after.
LEMMA HeartbeatStep == HeartbeatBooks /\ [CrossNext]_crossVars => HeartbeatBooks'
<1> SUFFICES ASSUME HeartbeatBooks, [CrossNext]_crossVars PROVE HeartbeatBooks'
  BY Zenon
<1> USE DEF HeartbeatBooks, NoBeat
<1>1. CASE CrossTick
  BY <1>1 DEF CrossTick
<1>2. ASSUME NEW d \in Devices, signHeartbeatPayload(d) PROVE HeartbeatBooks'
  BY <1>2 DEF signHeartbeatPayload
<1>3. ASSUME NEW d \in Devices, recordProofOfLife(d) PROVE HeartbeatBooks'
  BY <1>3 DEF recordProofOfLife
<1>4. ASSUME NEW d \in Devices, syncProofOfLife(d) PROVE HeartbeatBooks'
  BY <1>4 DEF syncProofOfLife
<1>5. CASE UNCHANGED <<crossClock, evmProof, stellarProof, heartbeat>>
  BY <1>5, Zenon
<1> QED
  BY <1>1, <1>2, <1>3, <1>4, <1>5, Zenon DEF CrossNext, Restart, ApprovalNext, RevocationNext,
     HeartbeatNext, processMessage, processRevocationBroadcast, relayRevocationToSoroban, crossVars

\* For any number of devices, grants, nonces, redeliveries and restarts: each approval is accepted
\* once per life of the service, revocations apply in the order of their nonces, and Soroban's
\* proof of life is never ahead of the EVM chain's (crossChainRelayer.service.ts,
\* crossChainHeartbeat.service.ts).
THEOREM ChainsInStep == CrossSpec => []ChainsStayInStep
<1>1. CrossInit => CrossInv
  BY FS_EmptySet DEF CrossInit, CrossInv, ApprovalBooks, RevocationBooks, RevocationsInOrder,
     HeartbeatBooks, NoBeat
<1>2. CrossInv /\ [CrossNext]_crossVars => CrossInv'
  BY ApprovalStep, RevocationStep, HeartbeatStep, Zenon DEF CrossInv
<1>3. CrossInv => ChainsStayInStep
  BY DEF CrossInv, ChainsStayInStep, AcceptedOnce, StellarNeverAhead, ApprovalBooks, HeartbeatBooks
<1> QED
  BY <1>1, <1>2, <1>3, PTL DEF CrossSpec

-----------------------------------------------------------------------------
(* The release state. *)

USE DEF clock, release, life, delegate, unlock, history

\* What the safety properties rest on besides types: how far a proof of life
\* may lie ahead of the ledger, and what an undrawn and a drawn schedule hold.
LifeNotAhead ==
    /\ last_proof_of_life <= owner_seen \/ last_proof_of_life <= timestamp
    /\ last_proof_of_life <= timestamp + HEARTBEAT_SKEW

\* The ledgers that the drawn jitter adds.
JitterLedgers == schedule.jitter_seconds \div EMERGENCY_SECONDS_PER_LEDGER

ScheduleBounds ==
    emergency_mode =>
        /\ enabled_at <= timestamp
        /\ schedule.request_sequence <= sequence
        /\ schedule.fulfilled =>
              /\ schedule.unlock_at >= enabled_at + EMERGENCY_UNLOCK_BASE_DELAY + schedule.jitter_seconds
              /\ schedule.unlock_sequence >= schedule.request_sequence
                    + MIN_EMERGENCY_UNLOCK_CONFIRMATIONS + base_delay_ledgers
                    + MIN_EMERGENCY_UNLOCK_SEQUENCE_DELTA + JitterLedgers

IInv == TypeOK /\ LifeIsAttested /\ LifeNotAhead /\ ScheduleMatchesEmergency /\ ScheduleBounds

\* The ledgers of the base delay and of a jitter are natural numbers.
LEMMA LedgersNat ==
    /\ base_delay_ledgers \in Nat
    /\ \A j \in Nat : j \div EMERGENCY_SECONDS_PER_LEDGER \in Nat
  BY DelayAssumption, SMT DEF base_delay_ledgers

\* The initial state, in which create_vault has just run, satisfies the invariant.
LEMMA InitIInv == Init => IInv
<1> SUFFICES ASSUME Init PROVE IInv
  BY Zenon
<1> USE AccountsAssumption, ClockAssumption, DelayAssumption DEF Init
<1>1. keeper_auth \in KeeperAuthorization /\ heartbeat_binding \in CrossChainHeartbeatBinding
  BY Zenon DEF KeeperAuthorization, NoKeeper, CrossChainHeartbeatBinding, NoBinding
<1>2. schedule \in EmergencyUnlockSchedule
  BY Zenon DEF EmergencyUnlockSchedule, NoSchedule
<1>3. TypeOK
  BY <1>1, <1>2, Zenon DEF TypeOK
<1>4. LifeIsAttested /\ LifeNotAhead
  BY DEF LifeIsAttested, LifeNotAhead
<1>5. ScheduleMatchesEmergency /\ ScheduleBounds
  BY Zenon DEF ScheduleMatchesEmergency, ScheduleBounds
<1> QED BY <1>3, <1>4, <1>5, Zenon DEF IInv

\* The entrypoints that leave the unlock schedule alone.
LEMMA LifeStepIInv ==
  ASSUME IInv, NEW owner \in Accounts,
         \/ prove_life(owner)
         \/ \E keeper \in Accounts, e \in ExpiryTimes : authorize_keeper(owner, keeper, e)
         \/ revoke_keeper(owner)
         \/ \E gid \in Gids, evm_owner \in EvmOwners, relayer \in Accounts :
               bind_cross_chain_heartbeat(owner, gid, evm_owner, relayer)
         \/ \E p \in 0 .. MAX_INACTIVITY_PERIOD + 1 : configure_vault_release(owner, p)
         \/ deactivate_vault(owner)
         \/ prove_life_by_keeper(owner)
         \/ SyncProofOfLife
  PROVE  IInv'
<1> USE AccountsAssumption, ClockAssumption, DelayAssumption
<1> USE DEF IInv, ScheduleMatchesEmergency, ScheduleBounds, JitterLedgers
<1>1. CASE prove_life(owner)
  BY <1>1 DEF prove_life, OwnerActs, RecordProofOfLife, Later, TypeOK, LifeIsAttested, LifeNotAhead
<1>2. ASSUME NEW keeper \in Accounts, NEW e \in ExpiryTimes, authorize_keeper(owner, keeper, e)
      PROVE  IInv'
  BY <1>2 DEF authorize_keeper, OwnerActs, Later, TypeOK, LifeIsAttested, LifeNotAhead,
              KeeperAuthorization, NoKeeper
<1>3. CASE revoke_keeper(owner)
  BY <1>3 DEF revoke_keeper, OwnerActs, Later, TypeOK, LifeIsAttested, LifeNotAhead,
              KeeperAuthorization, NoKeeper
<1>4. ASSUME NEW gid \in Gids, NEW evm_owner \in EvmOwners, NEW relayer \in Accounts,
             bind_cross_chain_heartbeat(owner, gid, evm_owner, relayer)
      PROVE  IInv'
  BY <1>4 DEF bind_cross_chain_heartbeat, OwnerActs, Later, TypeOK, LifeIsAttested, LifeNotAhead,
              CrossChainHeartbeatBinding
<1>5. ASSUME NEW p \in 0 .. MAX_INACTIVITY_PERIOD + 1, configure_vault_release(owner, p)
      PROVE  IInv'
  BY <1>5 DEF configure_vault_release, OwnerActs, Later, TypeOK, LifeIsAttested, LifeNotAhead
<1>6. CASE deactivate_vault(owner)
  <2>1. is_active' \in BOOLEAN
    BY <1>6, Zenon DEF deactivate_vault
  <2>2. TypeOK' /\ LifeIsAttested' /\ LifeNotAhead'
    BY <1>6, <2>1 DEF deactivate_vault, OwnerActs, Later, TypeOK, LifeIsAttested, LifeNotAhead
  <2>3. ScheduleMatchesEmergency' /\ ScheduleBounds'
    BY <1>6, Zenon DEF deactivate_vault
  <2> QED BY <2>2, <2>3, Zenon
<1>7. CASE prove_life_by_keeper(owner)
  <2>1. TypeOK'
    BY <1>7, Zenon DEF prove_life_by_keeper, RecordProofOfLife, TypeOK
  <2>2. keeper_auth # NoKeeper
    BY <1>7 DEF prove_life_by_keeper, NoKeeper
  <2>3. LifeIsAttested' /\ LifeNotAhead'
    BY <1>7, <2>2 DEF prove_life_by_keeper, RecordProofOfLife, TypeOK, LifeIsAttested, LifeNotAhead,
                      KeeperAuthorization
  <2>4. ScheduleMatchesEmergency' /\ ScheduleBounds'
    BY <1>7, Zenon DEF prove_life_by_keeper
  <2> QED BY <2>1, <2>3, <2>4, Zenon
<1>8. ASSUME NEW relayer \in Accounts, NEW gid \in Gids, NEW evm_owner \in EvmOwners,
             NEW at \in 0 .. OWNER_HORIZON, NEW key \in EvmKeys,
             sync_proof_of_life(relayer, gid, evm_owner, at, key)
      PROVE  IInv'
  BY <1>8 DEF sync_proof_of_life, RecordProofOfLife, Later, TypeOK, LifeIsAttested, LifeNotAhead
<1> QED
  BY <1>1, <1>2, <1>3, <1>4, <1>5, <1>6, <1>7, <1>8 DEF SyncProofOfLife

\* Ledger closes and the entrypoints around the unlock schedule.
LEMMA UnlockStepIInv ==
  ASSUME IInv, NEW owner \in Accounts,
         \/ CloseLedger
         \/ enable_emergency_mode(owner)
         \/ disable_emergency_mode(owner)
         \/ \E w \in 0 .. MAX_JITTER_WINDOW + 1 : set_emergency_jitter_window(owner, w)
         \/ FulfillEmergencyUnlockDelay
  PROVE  IInv'
<1> USE AccountsAssumption, ClockAssumption, DelayAssumption
<1> USE DEF IInv
<1>1. CASE CloseLedger
  <2>1. JitterLedgers' = JitterLedgers
    BY <1>1, Zenon DEF CloseLedger, unlock, JitterLedgers
  <2> QED
    BY <1>1, <2>1 DEF CloseLedger, TypeOK, LifeIsAttested, LifeNotAhead, ScheduleMatchesEmergency,
                      ScheduleBounds, EmergencyUnlockSchedule
<1>2. CASE enable_emergency_mode(owner)
  <2>1. schedule' = PendingSchedule(cycle + 1) /\ cycle + 1 \in Nat /\ cycle + 1 > 0
    BY <1>2 DEF enable_emergency_mode, TypeOK
  <2>2. schedule' \in EmergencyUnlockSchedule /\ schedule' # NoSchedule
    BY <2>1 DEF PendingSchedule, EmergencyUnlockSchedule, NoSchedule, TypeOK
  <2>3. TypeOK' /\ LifeIsAttested' /\ LifeNotAhead'
    BY <1>2, <2>2 DEF enable_emergency_mode, OwnerActs, Later, TypeOK, LifeIsAttested, LifeNotAhead
  <2>4. ScheduleMatchesEmergency' /\ ScheduleBounds'
    BY <1>2, <2>1, <2>2
    DEF enable_emergency_mode, PendingSchedule, ScheduleMatchesEmergency, ScheduleBounds, TypeOK
  <2> QED BY <2>3, <2>4, Zenon
<1>3. CASE disable_emergency_mode(owner)
  <2>1. emergency_mode' = FALSE /\ schedule' = NoSchedule
    BY <1>3, Zenon DEF disable_emergency_mode
  <2>2. emergency_mode' \in BOOLEAN /\ schedule' \in EmergencyUnlockSchedule
    BY <2>1, Zenon DEF EmergencyUnlockSchedule, NoSchedule
  <2>3. TypeOK' /\ LifeIsAttested' /\ LifeNotAhead'
    BY <1>3, <2>2 DEF disable_emergency_mode, OwnerActs, Later, TypeOK, LifeIsAttested, LifeNotAhead
  <2>4. ScheduleMatchesEmergency' /\ ScheduleBounds'
    BY <2>1, Zenon DEF ScheduleMatchesEmergency, ScheduleBounds
  <2> QED BY <2>3, <2>4, Zenon
<1>4. ASSUME NEW w \in 0 .. MAX_JITTER_WINDOW + 1, set_emergency_jitter_window(owner, w)
      PROVE  IInv'
  <2>1. JitterLedgers' = JitterLedgers
    BY <1>4, Zenon DEF set_emergency_jitter_window, JitterLedgers
  <2> QED
    BY <1>4, <2>1 DEF set_emergency_jitter_window, OwnerActs, Later, TypeOK, LifeIsAttested,
                      LifeNotAhead, ScheduleMatchesEmergency, ScheduleBounds
<1>5. ASSUME NEW jitter \in 0 .. MAX_JITTER_WINDOW - 1, fulfill_emergency_unlock_delay(jitter)
      PROVE  IInv'
  <2>1. jitter \in Nat /\ jitter \div EMERGENCY_SECONDS_PER_LEDGER \in Nat
    BY LedgersNat
  <2>2. schedule' \in EmergencyUnlockSchedule
    BY <1>5, <2>1, LedgersNat DEF fulfill_emergency_unlock_delay, DrawnSchedule, TypeOK, EmergencyUnlockSchedule
  <2>3. TypeOK' /\ LifeIsAttested' /\ LifeNotAhead'
    BY <1>5, <2>2, Zenon DEF fulfill_emergency_unlock_delay, TypeOK, LifeIsAttested, LifeNotAhead
  <2>4. schedule'.cycle = schedule.cycle /\ schedule'.request_sequence = schedule.request_sequence
    BY <1>5, Zenon DEF fulfill_emergency_unlock_delay, DrawnSchedule, TypeOK, EmergencyUnlockSchedule
  <2>5. ScheduleMatchesEmergency'
    <3>1. schedule' # NoSchedule
      BY <1>5, <2>4 DEF fulfill_emergency_unlock_delay, NoSchedule
    <3> QED
      BY <1>5, <2>4, <3>1, Zenon DEF fulfill_emergency_unlock_delay, ScheduleMatchesEmergency
  <2>6. ScheduleBounds'
    <3>1. /\ schedule'.unlock_at = timestamp + EMERGENCY_UNLOCK_BASE_DELAY + jitter
          /\ schedule'.unlock_sequence = sequence + base_delay_ledgers
                + MIN_EMERGENCY_UNLOCK_SEQUENCE_DELTA + jitter \div EMERGENCY_SECONDS_PER_LEDGER
      BY <1>5, Zenon DEF fulfill_emergency_unlock_delay, DrawnSchedule
    <3>5. schedule'.jitter_seconds = jitter /\ JitterLedgers' = jitter \div EMERGENCY_SECONDS_PER_LEDGER
      BY <1>5, Zenon DEF fulfill_emergency_unlock_delay, DrawnSchedule, JitterLedgers
    <3>2. /\ emergency_mode /\ enabled_at' = enabled_at /\ timestamp' = timestamp /\ sequence' = sequence
          /\ sequence >= schedule.request_sequence + MIN_EMERGENCY_UNLOCK_CONFIRMATIONS
      BY <1>5, Zenon DEF fulfill_emergency_unlock_delay
    <3>3. enabled_at <= timestamp /\ schedule.request_sequence <= sequence
      BY <3>2, Zenon DEF ScheduleBounds
    <3>4. schedule.request_sequence \in Nat
      BY Zenon DEF TypeOK, EmergencyUnlockSchedule
    <3>6. timestamp \in Nat /\ sequence \in Nat /\ enabled_at \in Nat
      BY Zenon DEF TypeOK
    <3> HIDE DEF IInv, TypeOK, ScheduleBounds
    <3> DEFINE ledgers == jitter \div EMERGENCY_SECONDS_PER_LEDGER
    <3>8. ledgers \in Nat /\ base_delay_ledgers \in Nat /\ jitter \in Nat
      BY <2>1, LedgersNat, Zenon
    <3> HIDE DEF ledgers
    <3>7. /\ timestamp + EMERGENCY_UNLOCK_BASE_DELAY + jitter >= enabled_at + EMERGENCY_UNLOCK_BASE_DELAY + jitter
          /\ sequence + base_delay_ledgers + MIN_EMERGENCY_UNLOCK_SEQUENCE_DELTA
                + ledgers
             >= schedule.request_sequence + MIN_EMERGENCY_UNLOCK_CONFIRMATIONS + base_delay_ledgers
                + MIN_EMERGENCY_UNLOCK_SEQUENCE_DELTA + ledgers
      BY <3>2, <3>3, <3>4, <3>6, <3>8
    <3> QED
      BY <2>4, <3>1, <3>2, <3>3, <3>5, <3>7, Zenon DEF ScheduleBounds, ledgers
  <2> QED BY <2>3, <2>5, <2>6, Zenon
<1> QED
  BY <1>1, <1>2, <1>3, <1>4, <1>5, Zenon DEF FulfillEmergencyUnlockDelay

\* Every step, and stuttering, preserves the invariant.
LEMMA NextIInv == IInv /\ [Next]_vars => IInv'
<1> SUFFICES ASSUME IInv, [Next]_vars PROVE IInv'
  BY Zenon
<1>1. CASE UNCHANGED vars
  BY <1>1, Zenon DEF vars, IInv, TypeOK, LifeIsAttested, LifeNotAhead, ScheduleMatchesEmergency, ScheduleBounds,
                   JitterLedgers
<1>2. ASSUME NEW owner \in Accounts, OwnerStep(owner) PROVE IInv'
  BY <1>2, LifeStepIInv, UnlockStepIInv, Zenon DEF OwnerStep
<1>3. ASSUME NEW keeper \in Accounts, prove_life_by_keeper(keeper) PROVE IInv'
  BY <1>3, LifeStepIInv, Zenon
<1>4. CASE CloseLedger \/ SyncProofOfLife \/ FulfillEmergencyUnlockDelay
  BY <1>4, AccountsAssumption, LifeStepIInv, UnlockStepIInv, Zenon
<1> QED
  BY <1>1, <1>2, <1>3, <1>4, Zenon DEF Next

\* The invariant holds in every reachable state of the release state.
THEOREM SpecIInv == Spec => []IInv
  BY InitIInv, NextIInv, PTL DEF Spec

\* In every reachable state the variables have their types, a schedule is stored
\* exactly in emergency mode, and proofs of life are attested: a keeper cannot
\* keep a vault alive past its grant.
THEOREM LifeAndSchedule == Spec => [](TypeOK /\ LifeIsAttested /\ ScheduleMatchesEmergency)
<1>1. IInv => TypeOK /\ LifeIsAttested /\ ScheduleMatchesEmergency
  BY Zenon DEF IInv
<1> QED BY <1>1, SpecIInv, PTL

\* Emergency documents of an owner not presumed dead never open before the base delay
\* and the drawn jitter are over, in seconds and in ledgers, whatever the constants of
\* the contract are.
THEOREM EmergencyDelay == Spec => []EmergencyNotBeforeDelay
<1>1. IInv => EmergencyNotBeforeDelay
  <2> SUFFICES ASSUME IInv, is_release_condition_satisfied("EmergencyOnly"), ~is_dead
               PROVE  /\ timestamp >= enabled_at + EMERGENCY_UNLOCK_BASE_DELAY + schedule.jitter_seconds
                      /\ sequence >= schedule.request_sequence
                            + MIN_EMERGENCY_UNLOCK_CONFIRMATIONS + base_delay_ledgers
                            + MIN_EMERGENCY_UNLOCK_SEQUENCE_DELTA + JitterLedgers
    BY Zenon DEF EmergencyNotBeforeDelay, JitterLedgers
  <2>1. emergency_mode /\ is_emergency_unlock_mature
    BY Zenon DEF is_release_condition_satisfied
  <2>2. /\ schedule.unlock_at >= enabled_at + EMERGENCY_UNLOCK_BASE_DELAY + schedule.jitter_seconds
        /\ schedule.unlock_sequence >= schedule.request_sequence
              + MIN_EMERGENCY_UNLOCK_CONFIRMATIONS + base_delay_ledgers
              + MIN_EMERGENCY_UNLOCK_SEQUENCE_DELTA + JitterLedgers
    BY <2>1, Zenon DEF IInv, ScheduleBounds, is_emergency_unlock_mature
  <2>3. schedule.jitter_seconds \in Nat
    BY Zenon DEF IInv, TypeOK, EmergencyUnlockSchedule
  <2>4. JitterLedgers \in Nat
    BY <2>3, LedgersNat, Zenon DEF JitterLedgers
  <2> QED
    BY <2>1, <2>2, <2>3, <2>4, DelayAssumption, LedgersNat
    DEF IInv, TypeOK, EmergencyUnlockSchedule, is_emergency_unlock_mature
<1> QED BY <1>1, SpecIInv, PTL

\* No step moves the recorded proof of life back by more than the heartbeat skew.
THEOREM RegressionBounded == Spec => ProofOfLifeRegressionBounded
<1>1. IInv /\ [Next]_vars => [last_proof_of_life' >= last_proof_of_life - HEARTBEAT_SKEW]_vars
  <2> SUFFICES ASSUME IInv, Next PROVE last_proof_of_life' >= last_proof_of_life - HEARTBEAT_SKEW
    BY Zenon
  <2> USE DelayAssumption, ClockAssumption DEF IInv, TypeOK, LifeNotAhead
  <2>1. CASE UNCHANGED last_proof_of_life
    BY <2>1
  <2>2. CASE last_proof_of_life' = timestamp
    BY <2>2
  <2>3. ASSUME NEW relayer \in Accounts, NEW gid \in Gids, NEW evm_owner \in EvmOwners,
               NEW at \in 0 .. OWNER_HORIZON, NEW key \in EvmKeys,
               sync_proof_of_life(relayer, gid, evm_owner, at, key)
        PROVE  last_proof_of_life' >= last_proof_of_life - HEARTBEAT_SKEW
    BY <2>3 DEF sync_proof_of_life, RecordProofOfLife
  <2> QED
    BY <2>1, <2>2, <2>3, Zenon
    DEF Next, OwnerStep, CloseLedger, prove_life, authorize_keeper, revoke_keeper,
        prove_life_by_keeper, bind_cross_chain_heartbeat, configure_vault_release,
        enable_emergency_mode, disable_emergency_mode, set_emergency_jitter_window,
        deactivate_vault, SyncProofOfLife, FulfillEmergencyUnlockDelay,
        fulfill_emergency_unlock_delay, RecordProofOfLife
<1> QED BY <1>1, SpecIInv, PTL DEF Spec, ProofOfLifeRegressionBounded

\* Every accepted sign of life ends the presumption of death, because both clocks
\* restart and at least one ledger has to close again.
THEOREM Revival == Spec => SignOfLifeRevives
<1>1. IInv /\ [Next]_vars => [last_proof_of_life' # last_proof_of_life => ~is_dead']_vars
  <2> SUFFICES ASSUME IInv, Next, last_proof_of_life' # last_proof_of_life PROVE ~is_dead'
    BY SMTT(30)
  <2>1. last_proof_of_life_sequence' = sequence /\ sequence' = sequence
    BY DEF Next, OwnerStep, CloseLedger, prove_life, authorize_keeper, revoke_keeper,
        prove_life_by_keeper, bind_cross_chain_heartbeat, configure_vault_release,
        enable_emergency_mode, disable_emergency_mode, set_emergency_jitter_window,
        deactivate_vault, SyncProofOfLife, sync_proof_of_life, FulfillEmergencyUnlockDelay,
        fulfill_emergency_unlock_delay, RecordProofOfLife
  <2> QED
    BY <2>1, DelayAssumption DEF IInv, TypeOK, is_dead
<1> QED BY <1>1, SpecIInv, PTL DEF Spec, SignOfLifeRevives

\* The unlock delay of a cycle is drawn at most once and a pending draw is never
\* restarted, because a stored schedule always carries the current cycle.
THEOREM SingleDraw == Spec => OneDrawPerCycle
<1> DEFINE DrawStep ==
      schedule # NoSchedule /\ schedule' # schedule =>
          \/ schedule' = NoSchedule
          \/ ~schedule.fulfilled /\ schedule'.fulfilled /\ schedule'.cycle = schedule.cycle
          \/ schedule.fulfilled /\ ~schedule'.fulfilled /\ schedule'.cycle > schedule.cycle
<1>1. IInv /\ [Next]_vars => [DrawStep]_vars
  <2> SUFFICES ASSUME IInv, Next PROVE DrawStep
    BY Zenon
  <2>1. CASE UNCHANGED schedule \/ schedule' = NoSchedule
    BY <2>1, Zenon
  <2>2. ASSUME NEW owner \in Accounts, enable_emergency_mode(owner) PROVE DrawStep
    <3>1. schedule'.cycle = cycle + 1 /\ schedule'.fulfilled = FALSE
      BY <2>2, Zenon DEF enable_emergency_mode, PendingSchedule
    <3>2. schedule # NoSchedule => schedule.fulfilled /\ schedule.cycle = cycle
      BY <2>2, Zenon DEF enable_emergency_mode, IInv, ScheduleMatchesEmergency
    <3> QED BY <3>1, <3>2 DEF IInv, TypeOK
  <2>3. ASSUME NEW jitter \in 0 .. MAX_JITTER_WINDOW - 1, fulfill_emergency_unlock_delay(jitter)
        PROVE  DrawStep
    BY <2>3, Zenon DEF fulfill_emergency_unlock_delay, DrawnSchedule
  <2> QED
    BY <2>1, <2>2, <2>3, Zenon
    DEF Next, OwnerStep, CloseLedger, prove_life, authorize_keeper, revoke_keeper,
        prove_life_by_keeper, bind_cross_chain_heartbeat, configure_vault_release,
        disable_emergency_mode, set_emergency_jitter_window, deactivate_vault,
        SyncProofOfLife, sync_proof_of_life, FulfillEmergencyUnlockDelay, RecordProofOfLife
<1> QED BY <1>1, SpecIInv, PTL DEF Spec, OneDrawPerCycle
=============================================================================
