-------------------------------- MODULE MCApp -------------------------------
(***************************************************************************)
(* Parts of the web application, model-checked side by side: a behaviour   *)
(* picks one part, which moves as its module says while the state of the   *)
(* others rests.                                                           *)
(*                                                                         *)
(* wallet         a page, the Freighter extension and one contract call    *)
(* store, unlock  the browser's own vault store; its emergency draws       *)
(* pir            reads through a private retrieval batch or a proxy       *)
(* read           backups and reads that fall back to a copy               *)
(* proof          backups and the check of their proofs of storage         *)
(* indexer        the event indexer, its gateway and its cursor            *)
(* dashboard      the dashboard and analytics pages and their cache        *)
(* pages          vaults, profile and layout, each on its own              *)
(* links          linked addresses and the guardian form                   *)
(* bindings       identities bound by the signatures of two wallets        *)
(***************************************************************************)
EXTENDS Wallet, LocalStore, Storage, Indexer, Pages, Identities, TLC

VARIABLE part
appVars ==
    <<part, walletVars, storeVars, unlockVars, storageVars, indexerVars, dashVars, pageVars,
      linkVars, bindingVars>>

\* Where a part rests, one of its initial states stands for them all.
AppInit ==
    /\ part \in {"wallet", "store", "unlock", "pir", "read", "proof", "indexer", "dashboard", "pages",
                "links", "bindings"}
    /\ WalletInit /\ LocalInit /\ StorageInit /\ IndexerInit /\ DashInit /\ PagesInit
    /\ IdentitiesInit /\ (part # "bindings" => registryUp)
    /\ (part # "wallet" => freighter.allowed /\ freighter.account = "f1")
    /\ IF part = "pir" THEN pirMode \in {"pir", "tor"} ELSE pirMode = "off"
    /\ (part # "dashboard" => which = "dashboard")
    /\ holder = "a" /\ (part # "pages" => screen = "layout")

\* Jobs and documents are interchangeable: the first backup is job j1, of document h1.  Where
\* proofs are checked both backups are of h1; a copy is served from the moment it is accepted,
\* so where documents are read the providers' progress is left out.
StorageSteps ==
    /\ StorageNext
    /\ backup'["j1"].phase = "idle" => backup'["j2"].phase = "idle"
    /\ backup'["j1"].hash \in {backup["j1"].hash, "h1"}
    /\ part = "pir"   => UNCHANGED <<backup, proofs>>
    /\ part = "read"  => UNCHANGED proofs /\ (kept_at' = kept_at \/ backup' # backup)
    /\ part = "proof" => UNCHANGED reading /\ backup'["j2"].hash \in {backup["j2"].hash, "h1"}

\* Likewise the first account that connects to the dashboard is "a".
DashSteps == DashNext /\ (version = 0 => account' # "b")

\* The first message signed is about e1 and s1.  A third and a fourth signature, so a second
\* binding, are made where the contract is all that is used.
BindingSteps ==
    /\ BindingNext
    /\ signatures = {} => \A g \in signatures' : g.evm = "e1" /\ g.stellar = "s1"
    /\ Cardinality(signatures') > 2 => registryUp /\ vouched' = {} /\ UNCHANGED publicKeys

AppNext ==
    /\ UNCHANGED part
    /\ IF part = "wallet"    THEN WalletNext  ELSE UNCHANGED walletVars
    /\ IF part = "store"     THEN StoreNext   ELSE UNCHANGED storeVars
    /\ IF part = "unlock"    THEN UnlockNext  ELSE UNCHANGED unlockVars
    /\ IF part \in {"pir", "read", "proof"} THEN StorageSteps ELSE UNCHANGED storageVars
    /\ IF part = "indexer"   THEN IndexerNext ELSE UNCHANGED indexerVars
    /\ IF part = "dashboard" THEN DashSteps   ELSE UNCHANGED dashVars
    /\ IF part = "pages"     THEN PagesNext   ELSE UNCHANGED pageVars
    /\ IF part = "links"     THEN LinkNext    ELSE UNCHANGED linkVars
    /\ IF part = "bindings"  THEN BindingSteps ELSE UNCHANGED bindingVars

AppSpec == AppInit /\ [][AppNext]_appVars

\* The browser's own store keeps the rules of the contract it stands in for: a request is approved
\* exactly when the threshold of its vault has approved it, a cycle of emergency mode has one
\* draw, however many tabs try, and addresses resolve to the ones they were linked or bound to
\* (stellar.service.ts: approveAccess, fulfillEmergencyUnlockDelay, bindIdentity;
\* identity.service.ts).
LocalStoreKeepsRules == [](LocalQuorum /\ LinksAreOneToOne /\ ResolvedIsBound) /\ DrawnOnce

\* Copies are what they are said to be: a reported backup can be found again, a read yields the
\* document that was asked for, and a provider shown as archived holds the bytes
\* (storageProvider.service.ts, pir.service.ts).
CopiesAreTrue ==
    part \in {"pir", "read", "proof"} => ReportedIsFindable /\ ReadsWhatWasAsked /\ ArchivedIsHeld

\* A page shows one account's data of one load: the parts that change on the dashboard are of the
\* load its vaults are of, the record kept for an account is of one load of that account, and the
\* badge of the layout counts for the connected account (Dashboard.tsx, AppLayout.tsx).
PagesShowOneLoad == PartsFollowBase /\ []RecordIsOneLoad /\ BadgeIsOwn

\* What a handler announces is so: a beneficiary is told of an emergency only after the chain
\* accepted it, and a key is registered only when its private half is stored (Vaults.tsx,
\* push-notification-proxy.mjs, Profile.tsx).
HandlersAnnounceFacts == part = "pages" => NoticesAreTrue /\ RegisteredHasPrivate
=============================================================================
