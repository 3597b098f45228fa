----------------------------- MODULE LocalStore -----------------------------
(***************************************************************************)
(* stellar.service.ts when no contract is configured: vaults, invitations, *)
(* documents, requests and emergency schedules live in localStorage, which *)
(* all tabs of the browser share.  An operation reads, changes and saves   *)
(* without an await in between, so it is one step.  Ids are positions in   *)
(* the stored arrays.                                                      *)
(***************************************************************************)
EXTENDS Naturals, Sequences, FiniteSets

CONSTANTS Users,                \* accounts used in this browser
          MAX_LVAULTS, MAX_LDOCS, MAX_LREQUESTS,   \* bounds on the arrays
          CONFIRMATION,         \* between enabling emergency mode and the draw
          BASE_DELAY, JITTERS,  \* the delay drawn
          LVTabs,               \* tabs that show the schedule
          MAX_LCLOCK, MAX_CYCLES

VARIABLES vaults,      \* [creator, guardians, threshold]
          invites,     \* set of [vault, guardian, accepted]
          documents,   \* [vault, uploadedBy]
          accessReqs,  \* [doc, requester, approvedBy, status]
          unlock,      \* the emergency schedule of one vault
          seen,        \* per tab: the schedule it read last, or None while it has none
          lclock

storeVars == <<vaults, invites, documents, accessReqs>>
unlockVars == <<unlock, seen, lclock>>
localVars == <<vaults, invites, documents, accessReqs, unlock, seen, lclock>>

NoSchedule == [emergencyMode |-> FALSE, cycle |-> 0, requestedAt |-> 0, requested |-> FALSE,
               fulfilled |-> FALSE, unlockAt |-> 0]

LocalInit ==
  /\ vaults = <<>> /\ invites = {} /\ documents = <<>> /\ accessReqs = <<>>
  /\ unlock = NoSchedule
  /\ seen = [t \in LVTabs |-> NoSchedule]
  /\ lclock = 0

---------------------------------------------------------------------------
(* Vaults, documents and requests.                                         *)

\* The creator is the only guardian until the others accept.
newVault(me, guardians, approvalThreshold) ==
  /\ Len(vaults) < MAX_LVAULTS
  /\ vaults' = Append(vaults, [creator |-> me, guardians |-> {me}, threshold |-> approvalThreshold])
  /\ invites' = invites \cup {[vault |-> Len(vaults) + 1, guardian |-> g, accepted |-> FALSE] :
                                g \in guardians \ {me}}
  /\ UNCHANGED <<documents, accessReqs>>

\* The invitation, if there is one, is marked and the caller becomes a guardian.
acceptGuardianInvite(me, v) ==
  /\ \E i \in invites : i.vault = v /\ i.guardian = me /\ ~i.accepted
  /\ invites' = {IF i.vault = v /\ i.guardian = me THEN [i EXCEPT !.accepted = TRUE] ELSE i :
                   i \in invites}
  /\ vaults' = [vaults EXCEPT ![v].guardians = @ \cup {me}]
  /\ UNCHANGED <<documents, accessReqs>>

newDocument(me, v) ==
  /\ Len(documents) < MAX_LDOCS
  /\ me \in vaults[v].guardians
  /\ documents' = Append(documents, [vault |-> v, uploadedBy |-> me])
  /\ UNCHANGED <<vaults, invites, accessReqs>>

newRequest(me, d) ==
  /\ Len(accessReqs) < MAX_LREQUESTS
  /\ accessReqs' = Append(accessReqs,
                     [doc |-> d, requester |-> me, approvedBy |-> {}, status |-> 0])
  /\ UNCHANGED <<vaults, invites, documents>>

VaultOf(r) == vaults[documents[accessReqs[r].doc].vault]

\* Approved only when the approvals pass the threshold.
approved_above(approvals, threshold) == Cardinality(approvals) > threshold

approved(approvals, threshold) == Cardinality(approvals) >= threshold

approveRequest(me, r) ==
  /\ me \notin accessReqs[r].approvedBy
  /\ LET approvals == accessReqs[r].approvedBy \cup {me}
     IN accessReqs' = [accessReqs EXCEPT
          ![r].approvedBy = approvals,
          ![r].status = IF approved(approvals, VaultOf(r).threshold) THEN 1 ELSE @]
  /\ UNCHANGED <<vaults, invites, documents>>

\* An aggregate of at least the threshold of guardians' shares approves at once.
approveRequestBLS(guardians, r) ==
  /\ guardians \subseteq VaultOf(r).guardians
  /\ Cardinality(guardians) >= VaultOf(r).threshold
  /\ accessReqs' = [accessReqs EXCEPT ![r].approvedBy = @ \cup guardians, ![r].status = 1]
  /\ UNCHANGED <<vaults, invites, documents>>

\* The requests a guardian is asked to decide.
pendingApprovals(g) ==
  {r \in DOMAIN accessReqs : /\ accessReqs[r].status = 0
                             /\ g \notin accessReqs[r].approvedBy
                             /\ g \in VaultOf(r).guardians}

StoreNext ==
  \E me \in Users :
    \/ \E gs \in SUBSET Users, k \in 1..Cardinality(Users) :
         k <= Cardinality(gs \cup {me}) /\ newVault(me, gs, k)
    \/ \E v \in DOMAIN vaults : acceptGuardianInvite(me, v) \/ newDocument(me, v)
    \/ \E d \in DOMAIN documents : newRequest(me, d)
    \/ \E r \in DOMAIN accessReqs :
         \/ r \in pendingApprovals(me) /\ approveRequest(me, r)
         \/ \E gs \in SUBSET Users : accessReqs[r].status = 0 /\ approveRequestBLS(gs, r)

---------------------------------------------------------------------------
(* Emergency schedules.                                                    *)

\* A request that waits for its draw is not started over.
enableEmergency ==
  /\ ~(unlock.requested /\ ~unlock.fulfilled)
  /\ unlock.cycle < MAX_CYCLES
  /\ unlock' = [emergencyMode |-> TRUE, cycle |-> unlock.cycle + 1, requestedAt |-> lclock,
                requested |-> TRUE, fulfilled |-> FALSE, unlockAt |-> 0]
  /\ UNCHANGED <<seen, lclock>>

disableEmergency ==
  /\ unlock' = [unlock EXCEPT !.emergencyMode = FALSE, !.requested = FALSE,
                              !.fulfilled = FALSE, !.unlockAt = 0]
  /\ UNCHANGED <<seen, lclock>>

\* Draws again for a schedule that has its draw.
mayDraw_again == unlock.emergencyMode /\ unlock.requested /\ lclock >= unlock.requestedAt + CONFIRMATION

mayDraw ==
  /\ unlock.emergencyMode
  /\ unlock.requested /\ ~unlock.fulfilled
  /\ lclock >= unlock.requestedAt + CONFIRMATION

drawUnlockDelay ==
  /\ mayDraw
  /\ \E jitter \in JITTERS :
       unlock' = [unlock EXCEPT !.fulfilled = TRUE, !.unlockAt = lclock + BASE_DELAY + jitter]
  /\ UNCHANGED <<seen, lclock>>

\* A tab loads its vaults: it reads the schedule and, later, tries the draw itself
\* when what it read was waiting for one.
readSchedule(t) ==
  /\ seen' = [seen EXCEPT ![t] = unlock]
  /\ UNCHANGED <<unlock, lclock>>

fetchEmergencyUnlockSchedules(t) ==
  /\ seen[t].requested /\ ~seen[t].fulfilled
  /\ IF mayDraw
     THEN \E jitter \in JITTERS :
            /\ unlock' = [unlock EXCEPT !.fulfilled = TRUE, !.unlockAt = lclock + BASE_DELAY + jitter]
            /\ seen' = [seen EXCEPT ![t] = unlock']
     ELSE UNCHANGED <<unlock, seen>>
  /\ UNCHANGED lclock

Passes ==
  /\ lclock < MAX_LCLOCK
  /\ lclock' = lclock + 1
  /\ UNCHANGED <<unlock, seen>>

UnlockNext ==
  \/ enableEmergency \/ disableEmergency \/ drawUnlockDelay \/ Passes
  \/ \E t \in LVTabs : readSchedule(t) \/ fetchEmergencyUnlockSchedules(t)

LocalNext ==
  \/ StoreNext /\ UNCHANGED unlockVars
  \/ UnlockNext /\ UNCHANGED storeVars

---------------------------------------------------------------------------
(* A request is approved exactly when the threshold of its vault has        *)
(* approved it, one by one, by an aggregate or in any mixture of the two    *)
(* (approveAccess, approveAccessBLS), by guardians only, and a request that *)
(* can still be approved is in the queue of every guardian who has not.     *)
LocalQuorum ==
  \A r \in DOMAIN accessReqs :
    /\ accessReqs[r].status = 1 <=> Cardinality(accessReqs[r].approvedBy) >= VaultOf(r).threshold
    /\ accessReqs[r].approvedBy \subseteq VaultOf(r).guardians
    /\ accessReqs[r].status = 0 =>
         \A g \in VaultOf(r).guardians \ accessReqs[r].approvedBy : r \in pendingApprovals(g)

(* However many tabs try, a cycle of emergency mode has one draw, not       *)
(* before the confirmation time is over, and the time drawn stays until the *)
(* mode is switched (setEmergencyMode, fulfillEmergencyUnlockDelay, the     *)
(* draw of fetchEmergencyUnlockSchedules).                                  *)
DrawnOnce ==
  [][/\ unlock'.unlockAt # unlock.unlockAt /\ unlock.fulfilled =>
          unlock'.cycle > unlock.cycle \/ ~unlock'.emergencyMode
     /\ unlock'.fulfilled =>
          unlock'.unlockAt >= unlock'.requestedAt + CONFIRMATION + BASE_DELAY]_unlock

=============================================================================
