----------------------------- MODULE MCContracts ----------------------------
(***************************************************************************)
(* Five parts of the contracts, model-checked side by side: a behaviour    *)
(* picks one part, which moves as its specification says while the state   *)
(* of the others rests.  The parts share no storage.                       *)
(*                                                                         *)
(* tokens   two holders, two vaults, three token ids                       *)
(* upgrade  three addresses, two code hashes of different schema versions  *)
(* keys     two users, two EVM addresses, three keys, one of them empty    *)
(* council  two vaults of three guardians: in ann's the removal of bob and *)
(*          a threshold update are under way together, in cy's the removal *)
(*          of bob and two share refreshes                                 *)
(* passes   a creator, an invited guardian and an outsider, one document,  *)
(*          two passes and a request                                       *)
(***************************************************************************)
EXTENDS SorobanTokens, SorobanRegistry, EvmGovernance, EvmAccess, TLC

CONSTANTS ann, bob, cy, v1, v2, h1, h2, k1, k2, e1, e2, d1

const_Accounts  == {ann, bob}
const_Vaults    == {v1, v2}
const_People    == {ann, bob, cy}
const_Hashes    == {h1, h2}
const_SchemaOf  == [h \in {h1, h2} |-> IF h = h1 THEN 1 ELSE 2]
const_Users     == {ann, bob}
const_Keys      == {k1, k2, EmptyKey}
const_Evm       == {e1, e2}
const_Creations == {<<ann, {ann, bob, cy}, 2>>, <<cy, {ann, bob, cy}, 2>>}
const_Unanimous == {<<ann, {ann, bob, cy}, 3>>}
const_Subjects  == {bob, 3}
const_Explored  == [a \in {ann, bob, cy} |-> IF a = ann THEN {bob, 3} ELSE {bob}]
const_Durations == [a \in {ann, bob, cy} |-> IF a = ann THEN {} ELSE {1, 2}]
const_Invited   == {bob}
const_Signers   == {bob}
const_Holders   == {bob, cy}
const_Targets   == {cy}
const_Docs      == {d1}
const_Nonces    == {1}
const_Toggles   == {TRUE}

VARIABLE part
contractVars == <<part, vars, upgradeVars, keyVars, councilVars, passVars>>

\* Where a part rests its choice of creator and threshold is fixed.
ContractsInit ==
    /\ part \in {"tokens", "upgrade", "keys", "council", "passes"}
    /\ Init /\ UpgradeInit /\ KeyInit /\ CouncilInit /\ PassInit
    /\ (part # "council" => creator = ann)
    /\ (part # "passes" => vaultThreshold = 1)

ContractsNext ==
    /\ UNCHANGED part
    /\ IF part = "tokens"  THEN Next        ELSE UNCHANGED vars
    /\ IF part = "upgrade" THEN UpgradeNext ELSE UNCHANGED upgradeVars
    /\ IF part = "keys"    THEN KeyNext     ELSE UNCHANGED keyVars
    /\ IF part = "council" THEN CouncilNext ELSE UNCHANGED councilVars
    /\ IF part = "passes"  THEN PassNext    ELSE UNCHANGED passVars

ContractsSpec == ContractsInit /\ [][ContractsNext]_contractVars

\* What ends stays ended on the EVM side: a threshold a quorum set is one the guardians can meet,
\* and access lost with the last pass or by revocation does not come back without a new grant.
EvmStepsAreSafe == ThresholdFitsGuardians /\ NoResurrection
=============================================================================
