--------------------------- MODULE MCSorobanAccess --------------------------
(***************************************************************************)
(* An instance of SorobanAccess for TLC.  Accounts play every role         *)
(* (creator, guardian, beneficiary, outsider) and are interchangeable.     *)
(* The state space of everything at once is out of reach, so a behaviour   *)
(* follows one of three plans: "approvals", all the ways one request of a  *)
(* document open to release may be approved, among three accounts;         *)
(* "revocations", two requests of a gated document, revoked at home and    *)
(* from an EVM counterpart, among two accounts and before any time passes; *)
(* "batches", two requests that batches of signatures settle.              *)
(***************************************************************************)
EXTENDS SorobanAccess, TLC
CONSTANTS ann, bob, cy, g1, e1
VARIABLE plan

const_Accounts == {ann, bob, cy}
const_None     == {}
const_Gids     == {g1}
const_Evm      == {e1}
const_Keys     == {"k1", "k2"}
const_Nonces   == {1}
const_Fhe      == {"share", "short", "empty"}
const_Registry == {"records", "refuses"}
const_Gates    == {{"Anytime", "LiveOnly"}, {"Anytime", "EmergencyOnly", "PostDeathOnly"}}
const_Conditions == {"Anytime", "PostDeathOnly"}

\* The accounts that have taken part: creators, the invited, guardians, requesters and those
\* whose access was revoked.
Involved ==
    {creator[v] : v \in 1 .. vault_count} \cup UNION {guardians[v] \cup invited[v] : v \in 1 .. vault_count}
        \cup {requester[r] : r \in 1 .. req_count}
        \cup {a \in Accounts : \E v \in VaultIds : access_version[<<v, a>>] > 1}

ApprovalsPlan ==
    /\ UNCHANGED <<open, linkVars, relayVars, access_version>>
    /\ req_count' <= 1 /\ \A d \in 1 .. doc_count' : release_condition'[d] = "Anytime"

RevocationsPlan ==
    /\ UNCHANGED <<timestamp, sequence, bls_key, fhe_gshare, fheVars, registry, used_nonce, sig_grants>>
    /\ Cardinality(Involved') <= 2 /\ \A d \in 1 .. doc_count' : release_condition'[d] = "PostDeathOnly"

BatchesPlan ==
    /\ UNCHANGED <<open, linkVars, relayVars, access_version, bls_key, fhe_gshare, fheVars, registry, approved_req>>
    /\ Cardinality(Involved') <= 2 /\ \A d \in 1 .. doc_count' : release_condition'[d] = "Anytime"

Setup ==
    \/ \E a \in Accounts, list \in SUBSET Accounts, t \in 0 .. Cardinality(Accounts) :
          create_vault(a, list, t)
    \/ \E v \in VaultIds : VaultStep(v)
    \/ \E d \in DocIds : DocStep(d)

PlannedInit == Init /\ plan \in {"approvals", "revocations", "batches"}
PlannedNext ==
    /\ UNCHANGED plan
    /\ \/ plan = "approvals" /\ (CloseLedger \/ Setup \/ \E r \in RequestIds : RequestStep(r)) /\ ApprovalsPlan
       \/ plan = "revocations" /\ (Setup \/ \E r \in RequestIds, a \in Accounts : approve_access(a, r)) /\ RevocationsPlan
       \/ plan = "batches" /\ Next /\ BatchesPlan
PlannedSpec == PlannedInit /\ [][PlannedNext]_<<vars, plan>>

Alike == Permutations(Accounts)
=============================================================================
