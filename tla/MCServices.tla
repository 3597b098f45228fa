------------------------------ MODULE MCServices ------------------------------
(***************************************************************************)
(* The client's services, keys and caches for TLC.  They share no state,   *)
(* so a behaviour runs one of them: part says which.  The mirrored reads   *)
(* are four parts, one for each kind of read.                              *)
(***************************************************************************)
EXTENDS Offline, EventLogs, ViewCache, ChainReads, OfflineReads, BrowserHelpers, ClientKeys
CONSTANTS p, q
VARIABLE part

const_KindsOf   == [a \in {"a1"} |-> {"create-vault", "add-document", "request-access",
                                      "register-public-key", "create-document-draft"}]
const_Providers == <<"p1", "p2">>
const_BLOCK_OF  == <<2, 2, 4>>

serviceVars == <<offlineVars, logVars, viewVars, readVars>>
keyVars     == <<offlineReadVars, swVars, keyringVars, lockVars, workerVars, docKeyVars, rotationVars>>

ServiceParts == {"offline", "logs", "view", "reads"}
KeyParts     == ReadKinds \cup {"sw", "key ring", "lock", "workers", "documents' keys", "rotation"}

\* The choices of the other parts' initial states play no role.
ServicesInit ==
    /\ OfflineInit /\ LogsInit /\ ViewInit /\ ReadsInit
    /\ OfflineReadsInit /\ SwInit /\ KeyringInit /\ SessionLockInit /\ WorkersInit /\ DocumentKeysInit /\ KeyRotationInit
    /\ part \in ServiceParts \cup KeyParts
    /\ part # "offline" => online
    /\ part \notin ReadKinds => chosen = "avalanche" /\ indexedDb
    /\ part # "workers" => poolUp /\ argonUp
    /\ record.legacy.pin \in (IF part = "key ring" THEN {"none", p} ELSE {"none"})    \* PINs are alike

ServiceStep ==
    \/ part = "offline" /\ OfflineNext /\ UNCHANGED <<logVars, viewVars, readVars>>
    \/ part = "logs"    /\ LogsNext    /\ UNCHANGED <<offlineVars, viewVars, readVars>>
    \/ part = "view"    /\ ViewNext    /\ UNCHANGED <<offlineVars, logVars, readVars>>
    \/ part = "reads"   /\ ReadsNext   /\ UNCHANGED <<offlineVars, logVars, viewVars>>

KeyStep ==
    \/ /\ part \in ReadKinds /\ OfflineReadsNext({part})
       /\ UNCHANGED <<swVars, keyringVars, lockVars, workerVars, docKeyVars, rotationVars>>
    \/ /\ part = "sw" /\ SwNext
       /\ UNCHANGED <<offlineReadVars, keyringVars, lockVars, workerVars, docKeyVars, rotationVars>>
    \/ /\ part = "key ring" /\ KeyringNext
       /\ UNCHANGED <<offlineReadVars, swVars, lockVars, workerVars, docKeyVars, rotationVars>>
    \/ /\ part = "lock" /\ SessionLockNext
       /\ UNCHANGED <<offlineReadVars, swVars, keyringVars, workerVars, docKeyVars, rotationVars>>
    \/ /\ part = "workers" /\ WorkersNext
       /\ UNCHANGED <<offlineReadVars, swVars, keyringVars, lockVars, docKeyVars, rotationVars>>
    \/ /\ part = "documents' keys" /\ DocumentKeysNext
       /\ UNCHANGED <<offlineReadVars, swVars, keyringVars, lockVars, workerVars, rotationVars>>
    \/ /\ part = "rotation" /\ KeyRotationNext
       /\ UNCHANGED <<offlineReadVars, swVars, keyringVars, lockVars, workerVars, docKeyVars>>

ServicesNext ==
    /\ UNCHANGED part
    /\ \/ part \in ServiceParts /\ ServiceStep /\ UNCHANGED keyVars
       \/ part \in KeyParts     /\ KeyStep     /\ UNCHANGED serviceVars

ServicesSpec == ServicesInit /\ [][ServicesNext]_<<serviceVars, keyVars, part>>

\* What the read layer puts together from events and contract reads is what the contract holds: an
\* account's vaults, a guardian's approval queue, the activity feed and the counts beside it, and
\* every answer of the log reader (contract.service.ts: fetchVaultsForAccount,
\* fetchPendingApprovalsForGuardian, getRecentActivity, getEventLogs).
ReadsMatchChain == AccountVaultsExact /\ ApprovalQueueExact /\ FeedsMatchChain /\ AnswersExact
=============================================================================
