-------------------------- MODULE MCSorobanRelease --------------------------
(***************************************************************************)
(* Instances of SorobanRelease for TLC.  The delays are scaled down, their *)
(* order is kept: the skew is the smallest, the emergency base delay is    *)
(* shorter than an inactivity period, and a ledger adds one or two         *)
(* seconds, so the two clocks of the ledger drift apart.                   *)
(*                                                                         *)
(* A behaviour explores one of two plans of the owner.  "life": keepers,   *)
(* heartbeats and inactivity periods, without emergencies.  "emergency":   *)
(* emergency mode, jitter windows and draws, with proofs of life by the    *)
(* owner alone.  Ledgers close and draws are sent under both.              *)
(***************************************************************************)
EXTENDS SorobanRelease
CONSTANTS alice, kim, g1, k1
const_Accounts == {alice, kim}
const_Gids     == {g1}
const_EvmKeys  == {k1}
const_Ticks    == {1, 2}
const_Expiry   == {3, 6}

VARIABLE plan

PlannedInit == Init /\ plan \in {"life", "emergency"}
PlannedNext ==
    /\ Next /\ UNCHANGED plan
    /\ plan = "life" => UNCHANGED <<cycle, jitter_window>>
    /\ plan = "emergency" => UNCHANGED <<delegate, inactivity_period>>
PlannedSpec ==
    /\ PlannedInit /\ [][PlannedNext]_<<vars, plan>>
    /\ WF_vars(CloseLedger) /\ WF_vars(FulfillEmergencyUnlockDelay)

\* What the owner arranged happens without it: once the owner is silent for good the documents
\* for after its death open, and a requested emergency delay is drawn (is_dead,
\* fulfill_emergency_unlock_delay).
ReleasesHappen == OwnerSilenceReleases /\ EmergencyDrawHappens
=============================================================================
