------------------------ MODULE SorobanAccessProofs -------------------------
(***************************************************************************)
(* TLAPS proofs about SorobanAccess, for every value of its constants.     *)
(***************************************************************************)
EXTENDS SorobanAccess, FiniteSetTheorems, TLAPS

USE DEF vaultVars, docVars, newReqVars, reqVars, accessVars, fheVars, linkVars, relayVars

\* The initial state has the types.
LEMMA InitTypeOK == Init => TypeOK
<1> SUFFICES ASSUME Init PROVE TypeOK
  BY Zenon
<1> USE AccessConstants DEF Init
<1>1. VaultTypes /\ DocTypes
  BY DEF VaultTypes, DocTypes, VaultIds, DocIds
<1>2. RequestTypes /\ AccessTypes
  BY DEF RequestTypes, AccessTypes, RequestIds
<1>3. LinkTypes
  BY DEF LinkTypes
<1>4. open \in [VaultIds -> Gates \cup {{"Anytime", "LiveOnly"}}]
  BY Zenon
<1> QED BY <1>1, <1>2, <1>3, <1>4, Zenon DEF TypeOK

\* Steps on vaults and documents keep the types.
LEMMA VaultStepTypeOK ==
  ASSUME TypeOK, NEW v \in VaultIds, VaultStep(v)
  PROVE  TypeOK'
<1> USE AccessConstants DEF TypeOK, VaultExists
<1>1. CASE ReleaseMoves(v)
  <2>1. open' \in [VaultIds -> Gates \cup {{"Anytime", "LiveOnly"}}]
    BY <1>1, Zenon DEF ReleaseMoves
  <2>2. VaultTypes' /\ DocTypes' /\ RequestTypes' /\ AccessTypes' /\ LinkTypes'
    BY <1>1, Zenon DEF ReleaseMoves, VaultTypes, DocTypes, RequestTypes, AccessTypes, LinkTypes
  <2> QED BY <2>1, <2>2, Zenon
<1>2. ASSUME NEW a \in Accounts, accept_guardian_invite(a, v) PROVE TypeOK'
  <2>1. VaultTypes'
    BY <1>2 DEF accept_guardian_invite, VaultTypes
  <2>2. DocTypes' /\ RequestTypes' /\ AccessTypes' /\ LinkTypes' /\ open' = open
    BY <1>2, Zenon DEF accept_guardian_invite, DocTypes, RequestTypes, AccessTypes, LinkTypes
  <2> QED BY <2>1, <2>2, Zenon
<1>3. ASSUME NEW a \in Accounts, NEW c \in Conditions, add_document(a, v, c) PROVE TypeOK'
  <2> USE DEF add_document
  <2>1. VaultTypes' /\ LinkTypes' /\ open' = open
    BY <1>3, Zenon DEF VaultTypes, LinkTypes
  <2>2. DocTypes'
    BY <1>3, SMTT(30) DEF DocTypes, DocIds, VaultTypes
  <2>3. RequestTypes'
    BY <1>3 DEF RequestTypes, DocTypes
  <2>4. AccessTypes'
    BY <1>3 DEF AccessTypes, DocTypes
  <2> QED BY <2>1, <2>2, <2>3, <2>4, Zenon
<1>4. ASSUME NEW a \in Accounts, NEW k \in Registries, set_access_registry(a, v, k) PROVE TypeOK'
  BY <1>4, Zenon DEF set_access_registry, VaultTypes, DocTypes, RequestTypes, AccessTypes, LinkTypes
<1>5. ASSUME NEW a \in Accounts, deactivate_vault(a, v) PROVE TypeOK'
  BY <1>5, Zenon DEF deactivate_vault, VaultTypes, DocTypes, RequestTypes, AccessTypes, LinkTypes
<1>6. ASSUME NEW a \in Accounts, NEW g \in Gids, NEW e \in EvmSigners,
             link_cross_chain_vault(a, v, g, e) PROVE TypeOK'
  <2>1. VaultTypes' /\ DocTypes' /\ RequestTypes' /\ AccessTypes' /\ open' = open
    BY <1>6, Zenon DEF link_cross_chain_vault, VaultTypes, DocTypes, RequestTypes, AccessTypes
  <2>2. LinkTypes'
    BY <1>6 DEF link_cross_chain_vault, LinkTypes, VaultTypes
  <2> QED BY <2>1, <2>2, Zenon
<1>7. ASSUME NEW a \in BlsSigners, register_guardian_bls_key(a, v) PROVE TypeOK'
  <2>1. VaultTypes'
    BY <1>7 DEF register_guardian_bls_key, VaultTypes
  <2>2. DocTypes' /\ RequestTypes' /\ AccessTypes' /\ LinkTypes' /\ open' = open
    BY <1>7, Zenon DEF register_guardian_bls_key, DocTypes, RequestTypes, AccessTypes, LinkTypes
  <2> QED BY <2>1, <2>2, Zenon
<1> QED BY <1>1, <1>2, <1>3, <1>4, <1>5, <1>6, <1>7, Zenon DEF VaultStep

\* Requests, stored shares and revocations keep the types.
LEMMA DocStepTypeOK ==
  ASSUME TypeOK, NEW d \in DocIds, DocStep(d)
  PROVE  TypeOK'
<1> USE AccessConstants DEF TypeOK, DocExists
<1>1. ASSUME NEW a \in Accounts, request_access(a, d) PROVE TypeOK'
  <2> USE DEF request_access
  <2>1. VaultTypes' /\ DocTypes' /\ LinkTypes' /\ open' = open
    BY <1>1, Zenon DEF VaultTypes, DocTypes, LinkTypes
  <2>2. RequestTypes'
    <3> DEFINE r == req_count + 1
    <3>0. /\ r \in RequestIds /\ req_count \in Nat /\ req_count' = r /\ r \in 1 .. r
          /\ 1 .. r = (1 .. req_count) \cup {r}
      <4>1. r \in RequestIds /\ req_count' = r
        BY <1>1, Zenon
      <4>2. req_count \in Nat
        BY DEF RequestTypes
      <4> HIDE DEF TypeOK, request_access
      <4> QED BY <4>1, <4>2
    <3>1. /\ req_count' \in 0 .. MAX_REQUESTS /\ expires_at' \in [RequestIds -> Nat]
      BY <1>1, SMTT(30) DEF RequestTypes, VaultTypes, RequestIds
    <3>2. /\ document_id' \in [RequestIds -> 0 .. doc_count]
          /\ \A q \in 1 .. r : document_id'[q] \in 1 .. doc_count
      <4>1. d \in 1 .. doc_count /\ d \in 0 .. doc_count /\ document_id' = [document_id EXCEPT ![r] = d]
        BY <1>1 DEF DocTypes
      <4>2. document_id \in [RequestIds -> 0 .. doc_count]
            /\ \A q \in 1 .. req_count : document_id[q] \in 1 .. doc_count
        BY Zenon DEF RequestTypes
      <4> QED BY <3>0, <4>1, <4>2 DEF RequestIds
    <3>3. /\ requester' \in [RequestIds -> Accounts \cup {NoOne}]
          /\ \A q \in 1 .. r : requester'[q] \in Accounts
      <4>1. requester' = [requester EXCEPT ![r] = a]
        BY <1>1, Zenon
      <4>2. /\ requester \in [RequestIds -> Accounts \cup {NoOne}]
            /\ \A q \in 1 .. req_count : requester[q] \in Accounts
        BY SMTT(30) DEF RequestTypes
      <4>3. 1 .. r \subseteq RequestIds
        BY <3>0, <1>1 DEF RequestIds
      <4> HIDE DEF TypeOK, request_access
      <4> QED BY <3>0, <4>1, <4>2, <4>3, SMTT(30)
    <3>4. /\ status' \in [RequestIds -> {"None", "Pending", "Approved"}]
          /\ \A q \in RequestIds : status'[q] = "None" <=> q > r
      <4>1. status' = [status EXCEPT ![r] = "Pending"]
        BY <1>1, Zenon
      <4>2. /\ status \in [RequestIds -> {"None", "Pending", "Approved"}]
            /\ \A q \in RequestIds : status[q] = "None" <=> q > req_count
        BY Zenon DEF RequestTypes
      <4> HIDE DEF TypeOK, request_access
      <4> QED BY <3>0, <4>1, <4>2 DEF RequestIds
    <3>5. approved_by' \in [RequestIds -> Nat] /\ approved_req' \subseteq (1 .. r) \X Accounts
      <4>1. /\ approved_by' = approved_by /\ approved_req' = approved_req
            /\ approved_by \in [RequestIds -> Nat] /\ approved_req \subseteq (1 .. req_count) \X Accounts
        BY <1>1, Zenon DEF RequestTypes
      <4> HIDE DEF TypeOK, request_access
      <4> QED BY <3>0, <4>1, Zenon
    <3>6. doc_count' = doc_count
      BY <1>1, Zenon
    <3> HIDE DEF TypeOK, request_access
    <3> QED BY <3>0, <3>1, <3>2, <3>3, <3>4, <3>5, <3>6, Zenon DEF RequestTypes
  <2>3. AccessTypes'
    <3>1. /\ UNCHANGED <<has_access, access_lvl, recorded, used_nonce, sig_grants, fhe_bshare, fhe_acc, fhe_count, doc_count>>
          /\ req_count' = req_count + 1 /\ req_count \in Nat
      BY <1>1 DEF RequestTypes
    <3>2. 1 .. req_count \subseteq 1 .. req_count'
      BY <3>1
    <3> HIDE DEF request_access
    <3> QED BY <3>1, <3>2, ZenonT(30) DEF AccessTypes
  <2> HIDE DEF TypeOK, request_access
  <2>4. open' = open
    BY <1>1, Zenon DEF request_access
  <2> QED BY <2>1, <2>2, <2>3, <2>4, Zenon DEF TypeOK
<1>2. ASSUME NEW a \in Accounts, NEW list \in SUBSET ShareHolders,
             save_guardian_shares_fhe(a, d, list) PROVE TypeOK'
  <2>1. DocTypes'
    <3>1. /\ d \in 1 .. doc_count /\ fhe_gshare' = fhe_gshare \cup ({d} \X list)
          /\ UNCHANGED <<vault_count, docVars>>
      BY <1>2, Zenon DEF save_guardian_shares_fhe
    <3>2. fhe_gshare' \subseteq (1 .. doc_count) \X Accounts
      BY <3>1 DEF DocTypes
    <3> QED BY <3>1, <3>2, Zenon DEF DocTypes
  <2>2. VaultTypes' /\ RequestTypes' /\ AccessTypes' /\ LinkTypes' /\ open' = open
    BY <1>2, Zenon DEF save_guardian_shares_fhe, VaultTypes, RequestTypes, AccessTypes, LinkTypes
  <2> QED BY <2>1, <2>2, Zenon
<1>3. ASSUME NEW u \in Accounts, DocExists(d), apply_revocation(d, u),
             revocation_nonce' \in [Gids \X DocIds \X Accounts -> Nat],
             relayed' \in [Broadcasts -> Nat]
      PROVE  TypeOK'
  <2> USE DEF apply_revocation
  <2>1. VaultTypes' /\ DocTypes' /\ RequestTypes' /\ open' = open
    BY <1>3, Zenon DEF VaultTypes, DocTypes, RequestTypes
  <2>2. AccessTypes'
    BY <1>3, Zenon DEF AccessTypes
  <2>3. access_version' \in [VaultIds \X Accounts -> Nat]
    <3>1. <<doc_vault[d], u>> \in VaultIds \X Accounts
      <4>1. doc_vault[d] \in 1 .. vault_count
        BY <1>3, Zenon DEF DocTypes
      <4>2. vault_count \in 0 .. MAX_VAULTS
        BY Zenon DEF VaultTypes
      <4> HIDE DEF TypeOK, apply_revocation
      <4> QED BY <4>1, <4>2 DEF VaultIds
    <3> QED BY <1>3, <3>1 DEF LinkTypes
  <2>4. LinkTypes'
    BY <1>3, <2>3, Zenon DEF LinkTypes
  <2> QED BY <2>1, <2>2, <2>4, Zenon
<1>4. ASSUME NEW a \in Accounts, NEW u \in Accounts, revoke_access(a, d, u) PROVE TypeOK'
  BY <1>3, <1>4, Zenon DEF revoke_access, LinkTypes
<1>5. ASSUME NEW a \in Accounts, NEW g \in Gids, NEW n \in 1 .. MAX_NONCE, NEW e \in EvmSigners,
             relay_revoke_access(g, d, a, n, e) PROVE TypeOK'
  <2>1. revocation_nonce' \in [Gids \X DocIds \X Accounts -> Nat]
    BY <1>5 DEF relay_revoke_access, LinkTypes
  <2>2. relayed' \in [Broadcasts -> Nat]
    BY <1>5 DEF relay_revoke_access, LinkTypes, Broadcasts
  <2> QED BY <1>3, <1>5, <2>1, <2>2, Zenon DEF relay_revoke_access
<1> QED BY <1>1, <1>2, <1>4, <1>5, Zenon DEF DocStep

\* The cardinality of a set of accounts is a natural number.
LEMMA AccountsFinite ==
  ASSUME NEW S \in SUBSET Accounts
  PROVE  IsFiniteSet(S) /\ Cardinality(S) \in Nat
  BY AccessConstants, FS_Subset, FS_CardinalityType, Zenon

\* A grant keeps the types of what it changes.
LEMMA GrantTypes ==
  ASSUME TypeOK, NEW r \in RequestIds, ReqExists(r), Grant(r)
  PROVE  /\ status' \in [RequestIds -> {"None", "Pending", "Approved"}]
         /\ \A q \in RequestIds : status'[q] = "None" <=> q > req_count
         /\ has_access' \subseteq (1 .. doc_count) \X Accounts
         /\ access_lvl' \subseteq (1 .. doc_count) \X Accounts
         /\ recorded' \subseteq 1 .. req_count
<1> USE DEF TypeOK, RequestTypes, Grant, ReqExists
<1>1. /\ status' \in [RequestIds -> {"None", "Pending", "Approved"}]
      /\ \A q \in RequestIds : status'[q] = "None" <=> q > req_count
  BY DEF RequestIds
<1>2. /\ has_access' \subseteq (1 .. doc_count) \X Accounts
      /\ access_lvl' \subseteq (1 .. doc_count) \X Accounts
  BY DEF AccessTypes
<1>3. recorded' \subseteq 1 .. req_count
  BY Zenon DEF AccessTypes, notify_access_registry
<1> QED BY <1>1, <1>2, <1>3, Zenon

\* A step that changes only what an approval may change keeps the types.
LEMMA ApprovalTypes ==
  ASSUME TypeOK,
         UNCHANGED <<timestamp, sequence, is_active, open, registry, bls_key, fhe_gshare,
                     access_version, vaultVars, docVars, newReqVars, linkVars, relayVars>>,
         NEW r \in RequestIds, ReqExists(r),
         Grant(r) \/ UNCHANGED <<status, accessVars>>,
         approved_by' \in [RequestIds -> Nat],
         approved_req' \subseteq (1 .. req_count) \X Accounts,
         used_nonce' \subseteq SigNonces,
         sig_grants' \subseteq (1 .. req_count) \X (RequestIds \cup {0}) \X SigNonces,
         fhe_bshare' \subseteq (1 .. req_count) \X Accounts \X FheShares,
         fhe_acc' \in [RequestIds -> FheShares \cup {"empty"}],
         fhe_count' \in [RequestIds -> Nat]
  PROVE  TypeOK'
<1>1. VaultTypes' /\ DocTypes' /\ LinkTypes' /\ open' = open
  BY Zenon DEF TypeOK, VaultTypes, DocTypes, LinkTypes
<1>2. RequestTypes' /\ AccessTypes'
  BY GrantTypes, Zenon DEF TypeOK, RequestTypes, AccessTypes
<1> QED BY <1>1, <1>2, Zenon DEF TypeOK

\* Marking accounts as approvers keeps the types.
LEMMA MarkTypes ==
  ASSUME TypeOK, NEW r \in RequestIds, ReqExists(r), NEW new \in SUBSET Accounts,
         MarkApproved(r, new)
  PROVE  /\ approved_by' \in [RequestIds -> Nat]
         /\ approved_req' \subseteq (1 .. req_count) \X Accounts
  BY AccountsFinite DEF TypeOK, RequestTypes, MarkApproved, ReqExists

\* The four approval paths keep the types.
LEMMA RequestStepTypeOK ==
  ASSUME TypeOK, NEW r \in RequestIds, RequestStep(r)
  PROVE  TypeOK'
<1> USE AccessConstants
<1>1. ASSUME NEW a \in Accounts, approve_access(a, r) PROVE TypeOK'
  <2>1. ReqExists(r) /\ MarkApproved(r, {a})
    BY <1>1, Zenon DEF approve_access, Approvable
  <2> QED BY <1>1, <2>1, MarkTypes, ApprovalTypes, Zenon
          DEF approve_access, GrantAtThreshold, TypeOK, AccessTypes
<1>2. ASSUME NEW b \in Batches, approve_access_threshold(r, b) PROVE TypeOK'
  <2>1. ReqExists(r) /\ Grant(r)
    BY <1>2, Zenon DEF approve_access_threshold, Approvable
  <2>2. b.message \in RequestIds \cup {0} /\ b.nonce \in SigNonces
    BY DEF Batches
  <2>3. /\ used_nonce' \subseteq SigNonces
        /\ sig_grants' \subseteq (1 .. req_count) \X (RequestIds \cup {0}) \X SigNonces
    BY <1>2, <2>1, <2>2 DEF approve_access_threshold, VerifyBatch, TypeOK, AccessTypes, ReqExists
  <2> QED BY <1>2, <2>1, <2>3, ApprovalTypes, Zenon
          DEF approve_access_threshold, TypeOK, RequestTypes, AccessTypes
<1>3. ASSUME NEW list \in SUBSET BlsSigners, NEW len \in 0 .. Cardinality(BlsSigners),
             approve_access_bls(r, list, len) PROVE TypeOK'
  <2> DEFINE new == {g \in list : <<r, g>> \notin approved_req}
  <2>1. ReqExists(r) /\ MarkApproved(r, new) /\ new \in SUBSET Accounts
    BY <1>3, Zenon DEF approve_access_bls, Approvable
  <2> QED BY <1>3, <2>1, MarkTypes, ApprovalTypes, Zenon
          DEF approve_access_bls, GrantAtThreshold, TypeOK, AccessTypes
<1>4. ASSUME NEW a \in Accounts, NEW s \in FheShares, approve_access_fhe(a, r, s) PROVE TypeOK'
  <2>1. ReqExists(r) /\ MarkApproved(r, {a})
    BY <1>4, Zenon DEF approve_access_fhe, Approvable
  <2>2. /\ fhe_bshare' \subseteq (1 .. req_count) \X Accounts \X FheShares
        /\ fhe_acc' \in [RequestIds -> FheShares \cup {"empty"}]
        /\ fhe_count' \in [RequestIds -> Nat]
    BY <1>4, <2>1 DEF approve_access_fhe, AddFheShare, FheAddable, TypeOK, AccessTypes, ReqExists
  <2> QED BY <1>4, <2>1, <2>2, MarkTypes, ApprovalTypes, Zenon
          DEF approve_access_fhe, GrantAtThreshold, TypeOK, AccessTypes
<1> QED BY <1>1, <1>2, <1>3, <1>4, Zenon DEF RequestStep

\* Every step keeps the types.
LEMMA NextTypeOK ==
  ASSUME TypeOK, [Next]_vars
  PROVE  TypeOK'
<1> USE AccessConstants
<1>1. CASE CloseLedger
  <2>1. timestamp \in Nat /\ sequence \in Nat
    BY Zenon DEF TypeOK, VaultTypes
  <2>2. timestamp' \in (timestamp + 1) .. MAX_TIME /\ sequence' = sequence + 1
    BY <1>1, Zenon DEF CloseLedger
  <2>3. timestamp' \in Nat /\ sequence' \in Nat
    BY <2>1, <2>2
  <2> QED BY <1>1, <2>3, Zenon
          DEF CloseLedger, TypeOK, VaultTypes, DocTypes, RequestTypes, AccessTypes, LinkTypes
<1>2. ASSUME NEW a \in Accounts, NEW list \in SUBSET Accounts,
             NEW t \in 0 .. Cardinality(Accounts), create_vault(a, list, t)
      PROVE  TypeOK'
  <2> USE DEF create_vault, TypeOK
  <2>1. t \in Nat
    BY AccountsFinite
  <2>2. VaultTypes'
    <3> DEFINE v == vault_count + 1
    <3>1. v \in VaultIds /\ vault_count' = v /\ vault_count' \in 0 .. MAX_VAULTS
      BY <1>2, SMTT(30) DEF VaultTypes, VaultIds
    <3>2. /\ creator' \in [VaultIds -> Accounts \cup {NoOne}]
          /\ guardians' \in [VaultIds -> SUBSET Accounts]
          /\ invited' \in [VaultIds -> SUBSET Accounts]
      BY <1>2, SMTT(30) DEF VaultTypes
    <3>3. /\ timestamp' \in Nat /\ sequence' \in Nat /\ approval_threshold' \in [VaultIds -> Nat]
          /\ is_active' \in [VaultIds -> BOOLEAN] /\ invite_expires' \in [VaultIds -> Nat]
          /\ registry' \in [VaultIds -> {"none", "records", "refuses"}]
      BY <1>2, <2>1 DEF VaultTypes
    <3>4. bls_key' \subseteq (1 .. v) \X Accounts
      <4>1. bls_key' = bls_key /\ bls_key \subseteq (1 .. vault_count) \X Accounts
        BY <1>2 DEF VaultTypes
      <4>2. vault_count \in Nat
        BY SMTT(30) DEF VaultTypes
      <4> HIDE DEF create_vault, TypeOK
      <4> QED BY <4>1, <4>2, SMTT(30)
    <3> HIDE DEF create_vault, TypeOK, v
    <3> QED BY <3>1, <3>2, <3>3, <3>4, SMTT(30) DEF VaultTypes
  <2>3. DocTypes'
    BY <1>2 DEF DocTypes, VaultTypes
  <2>4. RequestTypes' /\ AccessTypes' /\ open' = open
    BY <1>2, Zenon DEF RequestTypes, AccessTypes
  <2>5. LinkTypes'
    BY <1>2, SMTT(30) DEF LinkTypes, VaultTypes
  <2> QED BY <2>2, <2>3, <2>4, <2>5, Zenon
<1>3. ASSUME NEW b \in Batches, NEW t \in 0 .. Cardinality(SigKeys), verify_threshold_signatures(b, t)
      PROVE  TypeOK'
  <2>1. b.nonce \in SigNonces
    BY DEF Batches
  <2> QED BY <1>3, <2>1, Zenon DEF verify_threshold_signatures, VerifyBatch, TypeOK, VaultTypes,
                            DocTypes, RequestTypes, AccessTypes, LinkTypes
<1>4. CASE UNCHANGED vars
  BY <1>4, Zenon DEF vars, TypeOK, VaultTypes, DocTypes, RequestTypes, AccessTypes, LinkTypes
<1> QED BY <1>1, <1>2, <1>3, <1>4, VaultStepTypeOK, DocStepTypeOK, RequestStepTypeOK, ZenonT(30) DEF Next
-----------------------------------------------------------------------------
(* What a step may do to requests and access, whichever entrypoint takes it. *)

\* Guardians in new, none of them marked yet, approve request r.
GuardiansApprove(r, new) ==
    /\ Approvable(r)
    /\ new \subseteq guardians[VaultOf(r)]
    /\ \A g \in new : <<r, g>> \notin approved_req
    /\ MarkApproved(r, new)
    /\ GrantAtThreshold(r, approved_by[r] + Cardinality(new))
    /\ UNCHANGED <<timestamp, is_active, registry, vaultVars, docVars, newReqVars, used_nonce,
                   sig_grants, relayVars>>

\* A signature batch with a fresh nonce settles request r.
BatchApproves(r, n) ==
    /\ Approvable(r)
    /\ n \notin used_nonce /\ used_nonce' = used_nonce \cup {n}
    /\ Grant(r)
    /\ sig_grants' = sig_grants \cup {<<r, r, n>>}
    /\ UNCHANGED <<timestamp, is_active, registry, vaultVars, docVars, newReqVars, approved_by,
                   approved_req, relayVars>>

\* Requests and their approvals stay as they are; access is left alone, given to the
\* uploader of a new document, or taken away from one account.
LeavesRequests ==
    /\ UNCHANGED <<newReqVars, reqVars, sig_grants, recorded>>
    /\ used_nonce \subseteq used_nonce'
    /\ \/ UNCHANGED <<has_access, access_lvl, doc_count>>
       \/ \E a \in Accounts, v \in VaultIds, c \in Conditions : add_document(a, v, c)
       \/ \E p \in DocIds \X Accounts :
             /\ has_access' = has_access \ {p} /\ access_lvl' = access_lvl \ {p}
             /\ UNCHANGED docVars

\* What exists is never re-created: the fields that approvals depend on are fixed, and
\* guardians only join.
FixedFields ==
    /\ \A v \in 1 .. vault_count :
          approval_threshold'[v] = approval_threshold[v] /\ guardians[v] \subseteq guardians'[v]
    /\ \A d \in 1 .. doc_count : doc_vault'[d] = doc_vault[d] /\ uploaded_by'[d] = uploaded_by[d]

\* Every step is of one of four kinds, as far as requests are concerned.
LEMMA StepKinds ==
  ASSUME TypeOK, [Next]_vars
  PROVE  \/ \E r \in RequestIds, new \in SUBSET Accounts : GuardiansApprove(r, new)
         \/ \E r \in RequestIds, n \in SigNonces : BatchApproves(r, n)
         \/ \E a \in Accounts, d \in DocIds : request_access(a, d)
         \/ LeavesRequests
<1> DEFINE Goal == \/ \E r \in RequestIds, new \in SUBSET Accounts : GuardiansApprove(r, new)
                   \/ \E r \in RequestIds, n \in SigNonces : BatchApproves(r, n)
                   \/ \E a \in Accounts, d \in DocIds : request_access(a, d)
                   \/ LeavesRequests
<1>1. CASE CloseLedger \/ UNCHANGED vars
  BY <1>1 DEF CloseLedger, vars, LeavesRequests
<1>2. ASSUME NEW a \in Accounts, NEW list \in SUBSET Accounts,
             NEW t \in 0 .. Cardinality(Accounts), create_vault(a, list, t)
      PROVE  Goal
  BY <1>2, Zenon DEF create_vault, LeavesRequests
<1>3. ASSUME NEW b \in Batches, NEW t \in 0 .. Cardinality(SigKeys), verify_threshold_signatures(b, t)
      PROVE  Goal
  BY <1>3, Zenon DEF verify_threshold_signatures, VerifyBatch, LeavesRequests
<1>4. ASSUME NEW v \in VaultIds, VaultStep(v) PROVE Goal
  <2>1. ASSUME NEW a \in Accounts, NEW c \in Conditions, add_document(a, v, c) PROVE LeavesRequests
    <3>1. UNCHANGED <<newReqVars, reqVars, sig_grants, recorded, used_nonce>>
      BY <2>1, Zenon DEF add_document
    <3> QED BY <2>1, <3>1 DEF LeavesRequests
  <2>2. CASE ReleaseMoves(v) \/ \E a \in BlsSigners : register_guardian_bls_key(a, v)
    BY <2>2, Zenon DEF ReleaseMoves, register_guardian_bls_key, LeavesRequests
  <2>3. ASSUME NEW a \in Accounts, accept_guardian_invite(a, v) \/ deactivate_vault(a, v)
        PROVE  LeavesRequests
    BY <2>3, Zenon DEF accept_guardian_invite, deactivate_vault, LeavesRequests
  <2>4. ASSUME NEW a \in Accounts, \/ \E k \in Registries : set_access_registry(a, v, k)
                                   \/ \E g \in Gids, e \in EvmSigners : link_cross_chain_vault(a, v, g, e)
        PROVE  LeavesRequests
    BY <2>4, Zenon DEF set_access_registry, link_cross_chain_vault, LeavesRequests
  <2> QED BY <1>4, <2>1, <2>2, <2>3, <2>4, Zenon DEF VaultStep
<1>5. ASSUME NEW d \in DocIds, DocStep(d) PROVE Goal
  <2>1. ASSUME NEW u \in Accounts, apply_revocation(d, u) PROVE LeavesRequests
    <3>1. <<d, u>> \in DocIds \X Accounts
      BY Zenon
    <3>2. UNCHANGED <<newReqVars, reqVars, sig_grants, recorded, used_nonce, docVars>>
      BY <2>1, Zenon DEF apply_revocation
    <3>3. has_access' = has_access \ {<<d, u>>} /\ access_lvl' = access_lvl \ {<<d, u>>}
      BY <2>1 DEF apply_revocation
    <3> QED BY <3>1, <3>2, <3>3, Zenon DEF LeavesRequests
  <2>2. ASSUME NEW a \in Accounts, NEW list \in SUBSET ShareHolders, save_guardian_shares_fhe(a, d, list)
        PROVE  LeavesRequests
    BY <2>2, Zenon DEF save_guardian_shares_fhe, LeavesRequests
  <2> QED BY <1>5, <2>1, <2>2, Zenon DEF DocStep, revoke_access, relay_revoke_access
<1>6. ASSUME NEW r \in RequestIds, RequestStep(r) PROVE Goal
  <2>1. ASSUME NEW a \in Accounts, approve_access(a, r) PROVE GuardiansApprove(r, {a})
    <3>1. Cardinality({a}) = 1
      BY FS_Singleton, Zenon
    <3> QED BY <2>1, <3>1, Zenon DEF approve_access, GuardiansApprove
  <2>2. ASSUME NEW a \in Accounts, NEW s \in FheShares, approve_access_fhe(a, r, s)
        PROVE  GuardiansApprove(r, {a})
    <3>1. Cardinality({a}) = 1
      BY FS_Singleton, Zenon
    <3> QED BY <2>2, <3>1, Zenon DEF approve_access_fhe, GuardiansApprove
  <2>3. ASSUME NEW list \in SUBSET BlsSigners, NEW len \in 0 .. Cardinality(BlsSigners),
               approve_access_bls(r, list, len)
        PROVE  \E new \in SUBSET Accounts : GuardiansApprove(r, new)
    <3> DEFINE new == {g \in list : <<r, g>> \notin approved_req}
    <3>1. new \in SUBSET Accounts
      BY AccessConstants
    <3>2. GuardiansApprove(r, new)
      BY <2>3, Zenon DEF approve_access_bls, GuardiansApprove
    <3> QED BY <3>1, <3>2, Zenon
  <2>4. ASSUME NEW b \in Batches, approve_access_threshold(r, b)
        PROVE  \E n \in SigNonces : BatchApproves(r, n)
    <3>1. b.nonce \in SigNonces
      BY DEF Batches
    <3>2. BatchApproves(r, b.nonce)
      BY <2>4, Zenon DEF approve_access_threshold, VerifyBatch, BatchApproves
    <3> QED BY <3>1, <3>2, Zenon
  <2> QED BY <1>6, <2>1, <2>2, <2>3, <2>4, Zenon DEF RequestStep
<1> QED BY <1>1, <1>2, <1>3, <1>4, <1>5, <1>6, Zenon DEF Next

\* create_vault and add_document write fresh ids only.
LEMMA StepFixes ==
  ASSUME TypeOK, [Next]_vars
  PROVE  FixedFields
<1> USE DEF FixedFields, TypeOK, VaultTypes, DocTypes, VaultIds, DocIds
<1>1. ASSUME NEW a \in Accounts, NEW list \in SUBSET Accounts,
             NEW t \in 0 .. Cardinality(Accounts), create_vault(a, list, t)
      PROVE  FixedFields
  BY <1>1, SMTT(30) DEF create_vault
<1>2. ASSUME NEW v \in VaultIds, NEW a \in Accounts, NEW c \in Conditions, add_document(a, v, c)
      PROVE  FixedFields
  BY <1>2, SMTT(30) DEF add_document
<1>3. ASSUME NEW v \in VaultIds, NEW a \in Accounts, accept_guardian_invite(a, v) PROVE FixedFields
  BY <1>3 DEF accept_guardian_invite
<1>4. CASE UNCHANGED <<approval_threshold, guardians, doc_vault, uploaded_by>>
  BY <1>4, Zenon
<1> HIDE DEF FixedFields, TypeOK
<1>5. ASSUME NEW v \in VaultIds, VaultStep(v) PROVE FixedFields
  BY <1>2, <1>3, <1>4, <1>5, Zenon
     DEF VaultStep, ReleaseMoves, set_access_registry, deactivate_vault, link_cross_chain_vault,
         register_guardian_bls_key
<1>6. ASSUME NEW d \in DocIds, DocStep(d) PROVE FixedFields
  <2>1. ASSUME NEW a, NEW list, request_access(a, d) \/ save_guardian_shares_fhe(a, d, list)
        PROVE  FixedFields
    BY <1>4, <2>1, Zenon DEF request_access, save_guardian_shares_fhe
  <2>2. ASSUME NEW u, apply_revocation(d, u) PROVE FixedFields
    BY <1>4, <2>2, Zenon DEF apply_revocation
  <2> QED BY <1>6, <2>1, <2>2, Zenon DEF DocStep, revoke_access, relay_revoke_access
<1>7. ASSUME NEW r \in RequestIds, RequestStep(r) PROVE FixedFields
  <2>1. ASSUME NEW a, NEW s, approve_access(a, r) \/ approve_access_fhe(a, r, s) PROVE FixedFields
    BY <1>4, <2>1, Zenon DEF approve_access, approve_access_fhe
  <2>2. ASSUME NEW b, approve_access_threshold(r, b) PROVE FixedFields
    BY <1>4, <2>2, SMTT(30) DEF approve_access_threshold
  <2>3. ASSUME NEW list, NEW len, approve_access_bls(r, list, len) PROVE FixedFields
    BY <1>4, <2>3, Zenon DEF approve_access_bls
  <2> QED BY <1>7, <2>1, <2>2, <2>3, Zenon DEF RequestStep
<1>8. CASE CloseLedger \/ UNCHANGED vars
  BY <1>4, <1>8, Zenon DEF CloseLedger, vars
<1>9. ASSUME NEW b, NEW t, verify_threshold_signatures(b, t)
      PROVE  FixedFields
  BY <1>4, <1>9, Zenon DEF verify_threshold_signatures
<1> QED BY <1>1, <1>5, <1>6, <1>7, <1>8, <1>9, SMTT(30) DEF Next

\* Thresholds are positive, an id not handed out has no approvals, every batch that
\* granted access has its nonce on record, and a broadcast that took effect is at or
\* below the stored nonce.
Backbone ==
    /\ \A v \in 1 .. vault_count : approval_threshold[v] >= 1
    /\ \A r \in RequestIds : r > req_count => approved_by[r] = 0
    /\ \A x \in sig_grants : x[3] \in used_nonce
    /\ \A m \in Broadcasts : relayed[m] >= 1 => m[4] <= revocation_nonce[<<m[1], m[2], m[3]>>]

IInv ==
    /\ TypeOK /\ Backbone /\ ApprovalsAreGuardians /\ QuorumDecides
    /\ BatchesSettleOnce /\ AccessHasOrigin /\ RegistryKnowsApproved /\ RelayedOnce

\* Nothing exists initially.
LEMMA InitIInv == Init => IInv
<1> SUFFICES ASSUME Init PROVE IInv
  BY Zenon
<1>1. TypeOK
  BY InitTypeOK, Zenon
<1>2. Backbone /\ RelayedOnce
  <2>1. /\ vault_count = 0 /\ sig_grants = {} /\ approved_by = [r \in RequestIds |-> 0]
        /\ relayed = [m \in Broadcasts |-> 0]
    BY Zenon DEF Init
  <2> QED BY <2>1 DEF Backbone, RelayedOnce
<1>3. req_count = 0 /\ has_access = {} /\ access_lvl = {} /\ recorded = {} /\ sig_grants = {}
  BY Zenon DEF Init
<1>4. ApprovalsAreGuardians /\ QuorumDecides /\ BatchesSettleOnce
  BY <1>3 DEF ApprovalsAreGuardians, QuorumDecides, BatchesSettleOnce
<1>5. AccessHasOrigin /\ RegistryKnowsApproved
  BY <1>3, Zenon DEF AccessHasOrigin, RegistryKnowsApproved
<1> QED BY <1>1, <1>2, <1>4, <1>5, Zenon DEF IInv

\* Marking new approvers adds exactly them.
LEMMA MarkCounts ==
  ASSUME TypeOK, NEW r \in 1 .. req_count, NEW new \in SUBSET Accounts,
         approved_by[r] = Cardinality(Approvers(r)),
         \A g \in new : <<r, g>> \notin approved_req,
         MarkApproved(r, new)
  PROVE  /\ Approvers(r)' = Approvers(r) \cup new
         /\ approved_by'[r] = Cardinality(Approvers(r)')
         /\ approved_by'[r] = approved_by[r] + Cardinality(new)
         /\ \A q \in 1 .. req_count : q # r => Approvers(q)' = Approvers(q) /\ approved_by'[q] = approved_by[q]
<1>1. Approvers(r)' = Approvers(r) \cup new
  BY Zenon DEF MarkApproved, Approvers
<1>2. Approvers(r) \cap new = {}
  BY Zenon DEF Approvers
<1>3. /\ Approvers(r) \in SUBSET Accounts
      /\ IsFiniteSet(Approvers(r)) /\ IsFiniteSet(new)
      /\ Cardinality(Approvers(r)) \in Nat /\ Cardinality(new) \in Nat
  BY AccountsFinite, Zenon DEF Approvers
<1>4. Cardinality(Approvers(r) \cup new) = Cardinality(Approvers(r)) + Cardinality(new)
  <2>1. Cardinality(Approvers(r) \cap new) = 0
    BY <1>2, FS_EmptySet, Zenon
  <2>2. Cardinality(Approvers(r) \cup new)
          = Cardinality(Approvers(r)) + Cardinality(new) - Cardinality(Approvers(r) \cap new)
    BY <1>3, FS_Union, SMTT(30)
  <2> QED BY <1>3, <2>1, <2>2
<1>5. r \in RequestIds /\ \A q \in 1 .. req_count : q \in RequestIds
  BY AccessConstants DEF TypeOK, RequestTypes, RequestIds
<1>6. approved_by'[r] = approved_by[r] + Cardinality(new)
  BY <1>5, Zenon DEF MarkApproved, TypeOK, RequestTypes
<1>7. ASSUME NEW q \in 1 .. req_count, q # r
      PROVE  Approvers(q)' = Approvers(q) /\ approved_by'[q] = approved_by[q]
  BY <1>5, <1>7, Zenon DEF MarkApproved, Approvers, TypeOK, RequestTypes
<1> QED BY <1>1, <1>4, <1>6, <1>7, Zenon

\* Types of the requests that exist.
LEMMA RequestFacts ==
  ASSUME TypeOK
  PROVE  /\ req_count \in Nat /\ RequestIds \subseteq Nat /\ 1 .. req_count \subseteq RequestIds
         /\ status \in [RequestIds -> {"None", "Pending", "Approved"}]
         /\ document_id \in [RequestIds -> 0 .. doc_count]
         /\ requester \in [RequestIds -> Accounts \cup {NoOne}]
         /\ approved_by \in [RequestIds -> Nat]
<1>1. /\ req_count \in 0 .. MAX_REQUESTS
      /\ status \in [RequestIds -> {"None", "Pending", "Approved"}]
      /\ document_id \in [RequestIds -> 0 .. doc_count]
      /\ requester \in [RequestIds -> Accounts \cup {NoOne}]
      /\ approved_by \in [RequestIds -> Nat]
  BY Zenon DEF TypeOK, RequestTypes
<1>2. req_count \in Nat /\ RequestIds \subseteq Nat /\ 1 .. req_count \subseteq RequestIds
  BY <1>1, AccessConstants DEF RequestIds
<1> QED BY <1>1, <1>2, Zenon

\* A new request leaves the existing ones alone.
LEMMA Asked ==
  ASSUME TypeOK, NEW a \in Accounts, NEW d \in DocIds, request_access(a, d), NEW r \in 1 .. req_count
  PROVE  /\ r \in RequestIds /\ r \in 1 .. req_count'
         /\ status'[r] = status[r] /\ document_id'[r] = document_id[r] /\ requester'[r] = requester[r]
         /\ UNCHANGED <<approved_by, used_nonce, sig_grants>>
<1> DEFINE q == req_count + 1
<1>1. /\ status' = [status EXCEPT ![q] = "Pending"] /\ req_count' = q
      /\ document_id' = [document_id EXCEPT ![q] = d] /\ requester' = [requester EXCEPT ![q] = a]
      /\ UNCHANGED <<approved_by, used_nonce, sig_grants>>
  BY Zenon DEF request_access
<1>2. r \in RequestIds /\ r # q /\ r \in 1 .. q
  BY RequestFacts
<1> QED BY <1>1, <1>2, RequestFacts, Zenon

\* A request keeps its document, its requester, its vault and that vault's threshold.
LEMMA OldRequests ==
  ASSUME TypeOK, [Next]_vars, NEW r \in 1 .. req_count
  PROVE  /\ r \in RequestIds /\ r \in 1 .. req_count'
         /\ document_id[r] \in 1 .. doc_count /\ VaultOf(r) \in 1 .. vault_count
         /\ document_id'[r] = document_id[r] /\ requester'[r] = requester[r]
         /\ VaultOf(r)' = VaultOf(r)
         /\ approval_threshold'[VaultOf(r)'] = approval_threshold[VaultOf(r)]
         /\ guardians[VaultOf(r)] \subseteq guardians'[VaultOf(r)']
<1>1. r \in RequestIds /\ document_id[r] \in 1 .. doc_count /\ VaultOf(r) \in 1 .. vault_count
  <2>1. document_id[r] \in 1 .. doc_count
    BY Zenon DEF TypeOK, RequestTypes
  <2>2. VaultOf(r) \in 1 .. vault_count
    BY <2>1, Zenon DEF TypeOK, DocTypes, VaultOf
  <2> QED BY <2>1, <2>2, RequestFacts, Zenon
<1>2. r \in 1 .. req_count' /\ document_id'[r] = document_id[r] /\ requester'[r] = requester[r]
  <2>1. ASSUME NEW a \in Accounts, NEW d \in DocIds, request_access(a, d) PROVE <1>2
    BY <2>1, Asked, Zenon
  <2>2. CASE UNCHANGED newReqVars
    BY <2>2, Zenon
  <2> QED BY <2>1, <2>2, StepKinds, Zenon DEF GuardiansApprove, BatchApproves, LeavesRequests
<1>3. FixedFields
  BY StepFixes, SMTT(30)
<1>4. VaultOf(r)' = VaultOf(r)
  <2>1. doc_vault'[document_id[r]] = doc_vault[document_id[r]]
    BY <1>1, <1>3, Zenon DEF FixedFields
  <2> QED BY <1>2, <2>1, Zenon DEF VaultOf
<1>5. /\ approval_threshold'[VaultOf(r)] = approval_threshold[VaultOf(r)]
      /\ guardians[VaultOf(r)] \subseteq guardians'[VaultOf(r)]
  BY <1>1, <1>3, Zenon DEF FixedFields
<1> QED BY <1>1, <1>2, <1>4, <1>5, Zenon

\* A request that appears in a step is the next one, pending and without approvals.
LEMMA NewRequest ==
  ASSUME TypeOK, [Next]_vars, NEW r \in 1 .. req_count', r \notin 1 .. req_count
  PROVE  /\ r \in RequestIds /\ r = req_count + 1
         /\ status'[r] = "Pending"
         /\ UNCHANGED <<approved_by, approved_req, sig_grants, used_nonce>>
         /\ \A q \in 1 .. req_count : status'[q] = status[q]
         /\ VaultOf(r)' \in 1 .. vault_count'
<1>1. PICK a \in Accounts, d \in DocIds : request_access(a, d)
  BY StepKinds, Zenon DEF GuardiansApprove, BatchApproves, LeavesRequests
<1>2. /\ req_count + 1 \in RequestIds /\ req_count' = req_count + 1
      /\ status' = [status EXCEPT ![req_count + 1] = "Pending"]
      /\ UNCHANGED <<approved_by, approved_req, sig_grants, used_nonce>>
  BY <1>1, Zenon DEF request_access
<1>3. r = req_count + 1 /\ \A q \in 1 .. req_count : q \in RequestIds /\ q # req_count + 1
  BY <1>2, AccessConstants DEF TypeOK, RequestTypes, RequestIds
<1>4. VaultOf(r)' \in 1 .. vault_count'
  BY <1>3, NextTypeOK, Zenon DEF TypeOK, RequestTypes, DocTypes, VaultOf
<1> QED BY <1>2, <1>3, <1>4, Zenon DEF TypeOK, RequestTypes

\* approved_by keeps counting distinct guardians, whichever path a guardian approves by.
LEMMA NextApprovals ==
  ASSUME IInv, [Next]_vars
  PROVE  ApprovalsAreGuardians'
<1> SUFFICES ASSUME NEW r \in 1 .. req_count'
             PROVE  /\ approved_by'[r] = Cardinality(Approvers(r)')
                    /\ Approvers(r)' \subseteq guardians'[VaultOf(r)']
  BY Zenon DEF ApprovalsAreGuardians
<1>1. CASE r \notin 1 .. req_count
  <2>1. r = req_count + 1 /\ r \in RequestIds /\ UNCHANGED <<approved_by, approved_req>>
    BY <1>1, NewRequest, SMTT(30) DEF IInv
  <2>2. approved_by[r] = 0
    BY <2>1 DEF IInv, Backbone, TypeOK, RequestTypes
  <2>3. Approvers(r)' = {}
    BY <2>1 DEF Approvers, IInv, TypeOK, RequestTypes
  <2> QED BY <2>1, <2>2, <2>3, FS_EmptySet, Zenon
<1>2. CASE r \in 1 .. req_count
  <2>1. /\ approved_by[r] = Cardinality(Approvers(r)) /\ Approvers(r) \subseteq guardians[VaultOf(r)]
        /\ guardians[VaultOf(r)] \subseteq guardians'[VaultOf(r)']
    BY <1>2, OldRequests, SMTT(30) DEF IInv, ApprovalsAreGuardians
  <2>2. ASSUME NEW q \in RequestIds, NEW new \in SUBSET Accounts, GuardiansApprove(q, new)
        PROVE  /\ approved_by'[r] = Cardinality(Approvers(r)')
               /\ Approvers(r)' \subseteq guardians[VaultOf(r)]
    <3>1. /\ q \in 1 .. req_count /\ MarkApproved(q, new)
          /\ \A g \in new : <<q, g>> \notin approved_req
          /\ new \subseteq guardians[VaultOf(q)]
      BY <2>2, Zenon DEF GuardiansApprove, Approvable, ReqExists
    <3>2. approved_by[q] = Cardinality(Approvers(q))
      BY <3>1, Zenon DEF IInv, ApprovalsAreGuardians
    <3> QED BY <1>2, <2>1, <3>1, <3>2, MarkCounts DEF IInv
  <2>3. CASE UNCHANGED <<approved_by, approved_req>>
    BY <2>1, <2>3, SMTT(30) DEF Approvers
  <2> QED BY <2>1, <2>2, <2>3, StepKinds, ZenonT(30)
          DEF IInv, BatchApproves, request_access, LeavesRequests
<1> QED BY <1>1, <1>2, Zenon

\* The effect of a grant on the statuses of the requests.
LEMMA GrantStatus ==
  ASSUME TypeOK, NEW q \in 1 .. req_count, Grant(q)
  PROVE  /\ status'[q] = "Approved"
         /\ \A r \in 1 .. req_count : r # q => status'[r] = status[r]
<1>1. \A r \in 1 .. req_count : r \in RequestIds
  BY AccessConstants DEF TypeOK, RequestTypes, RequestIds
<1> QED BY <1>1, SMTT(30) DEF Grant, TypeOK, RequestTypes

\* No step reopens an Approved request.
LEMMA ApprovedStays ==
  ASSUME TypeOK, [Next]_vars, NEW r \in 1 .. req_count, status[r] = "Approved"
  PROVE  status'[r] = "Approved"
<1>1. ASSUME NEW q \in RequestIds, ReqExists(q), Grant(q) PROVE status'[r] = "Approved"
  BY <1>1, GrantStatus, Zenon DEF ReqExists
<1>2. ASSUME NEW a \in Accounts, NEW d \in DocIds, request_access(a, d) PROVE status'[r] = "Approved"
  BY <1>2, Asked, Zenon
<1> QED BY <1>1, <1>2, StepKinds, Zenon DEF GuardiansApprove, BatchApproves, Approvable,
                                     GrantAtThreshold, LeavesRequests

\* A request below its threshold stays Pending, one that reaches it is Approved.
LEMMA NextQuorum ==
  ASSUME IInv, [Next]_vars
  PROVE  QuorumDecides' /\ BatchesSettleOnce'
<1> USE DEF IInv
<1>1. ASSUME NEW r \in 1 .. req_count'
      PROVE  /\ status'[r] = "Pending" => approved_by'[r] < approval_threshold'[VaultOf(r)']
             /\ status'[r] = "Approved" =>
                   approved_by'[r] >= approval_threshold'[VaultOf(r)'] \/ SettledByBatch(r)'
  <2>1. CASE r \notin 1 .. req_count
    <3>1. /\ r \in RequestIds /\ r = req_count + 1 /\ status'[r] = "Pending"
          /\ approved_by' = approved_by /\ VaultOf(r)' \in 1 .. vault_count'
      BY <2>1, NewRequest, SMTT(30)
    <3>2. approved_by'[r] = 0
      BY <3>1 DEF Backbone, TypeOK, RequestTypes
    <3>3. approval_threshold'[VaultOf(r)'] >= 1 /\ approval_threshold'[VaultOf(r)'] \in Nat
      <4>1. PICK a \in Accounts, d \in DocIds : request_access(a, d)
        BY <2>1, StepKinds, Zenon DEF GuardiansApprove, BatchApproves, LeavesRequests
      <4>2. vault_count' = vault_count /\ approval_threshold' = approval_threshold
        BY <4>1, Zenon DEF request_access
      <4>3. approval_threshold \in [VaultIds -> Nat] /\ vault_count \in 0 .. MAX_VAULTS
        BY SMTT(30) DEF TypeOK, VaultTypes
      <4>4. approval_threshold[VaultOf(r)'] >= 1
        BY <3>1, <4>2, Zenon DEF Backbone
      <4>5. VaultOf(r)' \in VaultIds
        <5>1. VaultOf(r)' \in 1 .. vault_count
          BY <3>1, <4>2, Zenon
        <5> HIDE DEF IInv
        <5> QED BY <4>3, <5>1, AccessConstants DEF VaultIds
      <4> HIDE DEF IInv
      <4> QED BY <4>2, <4>3, <4>4, <4>5, Zenon
    <3> HIDE DEF IInv
    <3> QED BY <3>1, <3>2, <3>3
  <2>2. CASE r \in 1 .. req_count
    <3>1. /\ approval_threshold'[VaultOf(r)'] = approval_threshold[VaultOf(r)]
          /\ VaultOf(r) \in 1 .. vault_count /\ r \in RequestIds
      BY <2>2, OldRequests, SMTT(30)
    <3>2. /\ status[r] = "Pending" => approved_by[r] < approval_threshold[VaultOf(r)]
          /\ status[r] = "Approved" => approved_by[r] >= approval_threshold[VaultOf(r)] \/ SettledByBatch(r)
      <4>1. approval_threshold[VaultOf(r)] \in Nat /\ approved_by[r] \in Nat
        BY <3>1, AccessConstants DEF TypeOK, VaultTypes, VaultIds, RequestTypes
      <4>2. SettledByBatch(r) => status[r] = "Approved"
        BY Zenon DEF BatchesSettleOnce, SettledByBatch
      <4>3. ~SettledByBatch(r) => (status[r] = "Approved" <=> approved_by[r] >= approval_threshold[VaultOf(r)])
        BY <2>2, Zenon DEF QuorumDecides
      <4> HIDE DEF IInv
      <4> QED BY <4>1, <4>2, <4>3
    <3>4. ASSUME NEW q \in RequestIds, NEW new \in SUBSET Accounts, GuardiansApprove(q, new)
          PROVE  <1>1!2
      <4>1. /\ q \in 1 .. req_count /\ status[q] = "Pending" /\ MarkApproved(q, new)
            /\ \A g \in new : <<q, g>> \notin approved_req
            /\ GrantAtThreshold(q, approved_by[q] + Cardinality(new))
            /\ UNCHANGED <<used_nonce, sig_grants>>
        BY <3>4, ZenonT(30) DEF GuardiansApprove, Approvable, ReqExists
      <4>2. /\ approved_by'[q] = approved_by[q] + Cardinality(new)
            /\ \A p \in 1 .. req_count : p # q => approved_by'[p] = approved_by[p]
        BY <4>1, MarkCounts, Zenon DEF ApprovalsAreGuardians
      <4>3. CASE r = q
        <5>1. CASE approved_by[q] + Cardinality(new) >= approval_threshold[VaultOf(q)] /\ Grant(q)
          BY <3>1, <4>1, <4>2, <4>3, <5>1, GrantStatus
        <5>2. CASE approved_by[q] + Cardinality(new) < approval_threshold[VaultOf(q)]
                   /\ UNCHANGED <<status, accessVars>>
          BY <3>1, <4>1, <4>2, <4>3, <5>2, Zenon
        <5> QED BY <4>1, <5>1, <5>2, ZenonT(30) DEF GrantAtThreshold
      <4>4. CASE r # q
        <5>1. status'[r] = status[r] /\ approved_by'[r] = approved_by[r]
          BY <2>2, <4>1, <4>2, <4>4, GrantStatus DEF GrantAtThreshold
        <5> QED BY <3>1, <3>2, <4>1, <5>1, Zenon DEF SettledByBatch
      <4> QED BY <4>3, <4>4, Zenon
    <3>5. ASSUME NEW q \in RequestIds, NEW n \in SigNonces, BatchApproves(q, n) PROVE <1>1!2
      <4>1. /\ q \in 1 .. req_count /\ Grant(q) /\ approved_by' = approved_by
            /\ sig_grants' = sig_grants \cup {<<q, q, n>>}
        BY <3>5 DEF BatchApproves, Approvable, ReqExists
      <4>2. status'[q] = "Approved" /\ (r # q => status'[r] = status[r])
        BY <2>2, <4>1, GrantStatus, Zenon
      <4>3. SettledByBatch(q)' /\ (SettledByBatch(r) => SettledByBatch(r)')
        <5>1. <<q, q, n>> \in sig_grants' /\ sig_grants \subseteq sig_grants'
          BY <4>1, Zenon
        <5>2. <<q, q, n>>[1] = q
          OBVIOUS
        <5> QED BY <5>1, <5>2, Zenon DEF SettledByBatch
      <4>4. CASE r = q
        BY <2>2, <4>2, <4>3, <4>4, Zenon
      <4>5. CASE r # q
        BY <3>1, <3>2, <4>1, <4>2, <4>3, <4>5, Zenon
      <4> QED BY <4>4, <4>5, Zenon
    <3>6. CASE LeavesRequests
      BY <3>1, <3>2, <3>6, Zenon DEF LeavesRequests, SettledByBatch
    <3>7. ASSUME NEW a \in Accounts, NEW d \in DocIds, request_access(a, d) PROVE <1>1!2
      <4>1. /\ status'[r] = status[r]
            /\ UNCHANGED <<approved_by, used_nonce, sig_grants>>
        BY <2>2, <3>7, Asked, Zenon
      <4> QED BY <3>1, <3>2, <4>1, Zenon DEF SettledByBatch
    <3> QED BY <3>4, <3>5, <3>6, <3>7, StepKinds, ZenonT(30)
  <2> QED BY <2>1, <2>2, Zenon
<1>2. \A x, y \in sig_grants' : x[3] = y[3] => x = y
  <2>1. \A x, y \in sig_grants : x[3] = y[3] => x = y
    BY Zenon DEF BatchesSettleOnce
  <2>2. ASSUME NEW q \in RequestIds, NEW n \in SigNonces, BatchApproves(q, n) PROVE <1>2
    <3>1. n \notin used_nonce /\ sig_grants' = sig_grants \cup {<<q, q, n>>}
      BY <2>2, Zenon DEF BatchApproves
    <3>2. \A x \in sig_grants : x[3] # n
      BY <3>1, Zenon DEF Backbone
    <3> HIDE DEF IInv
    <3> QED BY <2>1, <3>1, <3>2, SMTT(30)
  <2>3. CASE UNCHANGED sig_grants
    BY <2>1, <2>3, Zenon
  <2> QED BY <2>2, <2>3, StepKinds, Zenon DEF GuardiansApprove, request_access, LeavesRequests
<1>3. \A x \in sig_grants' : x[2] = x[1] /\ status'[x[1]] = "Approved"
  <2>1. \A x \in sig_grants : x[1] \in 1 .. req_count /\ x[2] = x[1] /\ status[x[1]] = "Approved"
    BY DEF BatchesSettleOnce, TypeOK, AccessTypes
  <2>2. \A x \in sig_grants : status'[x[1]] = "Approved"
    BY <2>1, ApprovedStays, Zenon
  <2>3. ASSUME NEW q \in RequestIds, NEW n \in SigNonces, BatchApproves(q, n) PROVE <1>3
    <3>1. /\ q \in 1 .. req_count /\ Grant(q) /\ sig_grants' = sig_grants \cup {<<q, q, n>>}
      BY <2>3, Zenon DEF BatchApproves, Approvable, ReqExists
    <3>2. status'[q] = "Approved"
      BY <3>1, GrantStatus, Zenon
    <3> HIDE DEF IInv
    <3> QED BY <2>1, <2>2, <3>1, <3>2
  <2>4. CASE UNCHANGED sig_grants
    BY <2>1, <2>2, <2>4, Zenon
  <2> QED BY <2>3, <2>4, StepKinds, Zenon DEF GuardiansApprove, request_access, LeavesRequests
<1>4. QuorumDecides'
  <2> SUFFICES ASSUME NEW r \in 1 .. req_count', ~SettledByBatch(r)'
               PROVE  status'[r] = "Approved" <=> approved_by'[r] >= approval_threshold'[VaultOf(r)']
    BY Zenon DEF QuorumDecides
  <2>1. TypeOK'
    BY NextTypeOK, Zenon
  <2>2. status'[r] \in {"Pending", "Approved"} /\ approved_by'[r] \in Nat
    <3>1. r \in RequestIds /\ ~(r > req_count') /\ req_count' \in 0 .. MAX_REQUESTS
      BY <2>1, AccessConstants DEF TypeOK, RequestTypes, RequestIds
    <3> QED BY <2>1, <3>1, Zenon DEF TypeOK, RequestTypes
  <2>3. VaultOf(r)' \in VaultIds
    <3>1. VaultOf(r)' \in 1 .. vault_count'
      BY <2>1, Zenon DEF TypeOK, RequestTypes, DocTypes, VaultOf
    <3>2. vault_count' \in 0 .. MAX_VAULTS
      BY <2>1, Zenon DEF TypeOK, VaultTypes
    <3> HIDE DEF IInv
    <3> QED BY <3>1, <3>2, AccessConstants DEF VaultIds
  <2>4. approval_threshold'[VaultOf(r)'] \in Nat
    BY <2>1, <2>3, Zenon DEF TypeOK, VaultTypes
  <2> HIDE DEF IInv
  <2> QED BY <1>1, <2>2, <2>4
<1> QED BY <1>2, <1>3, <1>4, Zenon DEF BatchesSettleOnce

\* Access appears for an uploader or for the requester of a request just approved.
LEMMA NextAccess ==
  ASSUME IInv, [Next]_vars
  PROVE  AccessHasOrigin' /\ RegistryKnowsApproved'
<1> USE DEF IInv
<1> DEFINE Origin(p) == \/ uploaded_by[p[1]] = p[2]
                        \/ \E r \in 1 .. req_count :
                              status[r] = "Approved" /\ document_id[r] = p[1] /\ requester[r] = p[2]
           OriginAfter(p) == \/ uploaded_by'[p[1]] = p[2]
                             \/ \E r \in 1 .. req_count' :
                                   status'[r] = "Approved" /\ document_id'[r] = p[1] /\ requester'[r] = p[2]
<1>1. access_lvl = has_access /\ \A p \in has_access : p[1] \in 1 .. doc_count /\ Origin(p)
  BY DEF AccessHasOrigin, TypeOK, AccessTypes
<1>2. \A r \in 1 .. req_count : status[r] = "Approved" => status'[r] = "Approved"
  BY ApprovedStays, Zenon
<1>3. \A p \in has_access : OriginAfter(p)
  <2> TAKE p \in has_access
  <2>1. CASE uploaded_by[p[1]] = p[2]
    BY <1>1, <2>1, StepFixes, SMTT(30) DEF FixedFields
  <2>2. ASSUME NEW r \in 1 .. req_count, status[r] = "Approved", document_id[r] = p[1], requester[r] = p[2]
        PROVE  OriginAfter(p)
    BY <1>2, <2>2, OldRequests, SMTT(30)
  <2> QED BY <1>1, <2>1, <2>2, ZenonT(30)
<1>4. ASSUME NEW q \in RequestIds, ReqExists(q), Grant(q) PROVE AccessHasOrigin'
  <2>1. q \in 1 .. req_count /\ q \in 1 .. req_count' /\ status'[q] = "Approved"
        /\ document_id'[q] = document_id[q] /\ requester'[q] = requester[q]
    BY <1>4, GrantStatus, OldRequests, SMTT(30) DEF ReqExists
  <2>2. has_access' = has_access \cup {<<document_id[q], requester[q]>>} /\ access_lvl' = has_access'
    BY <1>1, <1>4, SMTT(30) DEF Grant
  <2>3. OriginAfter(<<document_id[q], requester[q]>>)
    BY <2>1, SMTT(30)
  <2> QED BY <1>3, <2>2, <2>3, SMTT(30) DEF AccessHasOrigin
<1>5. ASSUME NEW a \in Accounts, NEW v \in VaultIds, NEW c \in Conditions, add_document(a, v, c)
      PROVE  AccessHasOrigin'
  <2> DEFINE d == doc_count + 1
  <2>1. /\ has_access' = has_access \cup {<<d, a>>} /\ access_lvl' = has_access' /\ d \in DocIds
        /\ uploaded_by' = [uploaded_by EXCEPT ![d] = a]
    BY <1>1, <1>5, Zenon DEF add_document
  <2>2. OriginAfter(<<d, a>>)
    BY <2>1, Zenon DEF TypeOK, DocTypes
  <2> QED BY <1>3, <2>1, <2>2, Zenon DEF AccessHasOrigin
<1>6. ASSUME has_access' \subseteq has_access, access_lvl' = has_access' PROVE AccessHasOrigin'
  BY <1>3, <1>6, Zenon DEF AccessHasOrigin
<1>7. AccessHasOrigin'
  <2>1. ASSUME LeavesRequests PROVE AccessHasOrigin'
    BY <1>1, <1>5, <1>6, <2>1, Zenon DEF LeavesRequests
  <2>2. ASSUME NEW a \in Accounts, NEW d \in DocIds, request_access(a, d) PROVE AccessHasOrigin'
    BY <1>1, <1>6, <2>2, Zenon DEF request_access
  <2> QED BY <1>1, <1>4, <1>6, <2>1, <2>2, StepKinds, Zenon
          DEF GuardiansApprove, BatchApproves, Approvable, GrantAtThreshold
<1>8. RegistryKnowsApproved'
  <2>1. \A r \in recorded : r \in 1 .. req_count /\ status'[r] = "Approved"
    BY <1>2, Zenon DEF RegistryKnowsApproved, TypeOK, AccessTypes
  <2>2. ASSUME NEW q \in RequestIds, ReqExists(q), Grant(q) PROVE RegistryKnowsApproved'
    BY <2>1, <2>2, GrantStatus, Zenon DEF Grant, notify_access_registry, ReqExists, RegistryKnowsApproved
  <2>3. CASE recorded' = recorded
    BY <2>1, <2>3, Zenon DEF RegistryKnowsApproved
  <2> QED BY <2>2, <2>3, StepKinds, Zenon DEF GuardiansApprove, BatchApproves, Approvable,
                                       GrantAtThreshold, LeavesRequests, request_access
<1> QED BY <1>7, <1>8, SMTT(30)

\* A broadcast raises the stored nonce to its own, so it is refused from then on.
LEMMA NextRelay ==
  ASSUME IInv, [Next]_vars
  PROVE  /\ RelayedOnce'
         /\ \A m \in Broadcasts : relayed'[m] >= 1 => m[4] <= revocation_nonce'[<<m[1], m[2], m[3]>>]
<1> USE DEF IInv
<1>1. \A m \in Broadcasts :
         /\ relayed[m] \in Nat /\ relayed[m] <= 1
         /\ relayed[m] >= 1 => m[4] <= revocation_nonce[<<m[1], m[2], m[3]>>]
  BY Zenon DEF RelayedOnce, Backbone, TypeOK, LinkTypes
<1>2. ASSUME NEW d \in DocIds, NEW a \in Accounts, NEW g \in Gids, NEW n \in 1 .. MAX_NONCE,
             NEW e \in EvmSigners, relay_revoke_access(g, d, a, n, e),
             NEW m \in Broadcasts
      PROVE  relayed'[m] <= 1 /\ (relayed'[m] >= 1 => m[4] <= revocation_nonce'[<<m[1], m[2], m[3]>>])
  <2> DEFINE b == <<g, d, a, n>>
             k == <<g, d, a>>
  <2>1. /\ n > revocation_nonce[k] /\ revocation_nonce' = [revocation_nonce EXCEPT ![k] = n]
        /\ relayed' = [relayed EXCEPT ![b] = relayed[b] + 1]
    BY <1>2, Zenon DEF relay_revoke_access
  <2>2. /\ b \in Broadcasts /\ k \in Gids \X DocIds \X Accounts
        /\ <<m[1], m[2], m[3]>> \in Gids \X DocIds \X Accounts /\ m = <<m[1], m[2], m[3], m[4]>>
        /\ m[4] \in Nat /\ n \in Nat
    BY AccessConstants, SMTT(30) DEF Broadcasts
  <2>3. relayed \in [Broadcasts -> Nat] /\ revocation_nonce \in [Gids \X DocIds \X Accounts -> Nat]
    BY SMTT(30) DEF TypeOK, LinkTypes
  <2>4. CASE m = b
    <3>1. relayed[b] = 0
      BY <1>1, <2>1, <2>2, <2>3, SMTT(30)
    <3> QED BY <2>1, <2>2, <2>3, <2>4, <3>1, SMTT(30)
  <2>5. CASE m # b
    <3>1. relayed'[m] = relayed[m]
      BY <2>1, <2>2, <2>3, <2>5, Zenon
    <3>2. revocation_nonce'[<<m[1], m[2], m[3]>>] >= revocation_nonce[<<m[1], m[2], m[3]>>]
      <4> DEFINE p == <<m[1], m[2], m[3]>>
      <4>1. \/ p = k /\ revocation_nonce'[p] = n
            \/ revocation_nonce'[p] = revocation_nonce[p]
        BY <2>1, <2>2, <2>3, Zenon
      <4>2. revocation_nonce[p] \in Nat
        BY <2>2, <2>3, Zenon
      <4>3. n > revocation_nonce[k] /\ n \in Nat
        BY <2>1, <2>2, Zenon
      <4>4. revocation_nonce'[p] >= revocation_nonce[p]
        <5> HIDE DEF p, k
        <5> QED BY <4>1, <4>2, <4>3
      <4> QED BY <4>4, Zenon
    <3>3. revocation_nonce[<<m[1], m[2], m[3]>>] \in Nat /\ revocation_nonce'[<<m[1], m[2], m[3]>>] \in Nat
      BY <2>1, <2>2, <2>3, Zenon
    <3> QED BY <1>1, <2>2, <3>1, <3>2, <3>3
  <2> QED BY <2>4, <2>5, Zenon
<1>3. CASE UNCHANGED relayVars
  BY <1>1, <1>3, Zenon DEF RelayedOnce
<1>4. (\E d \in DocIds, a \in Accounts, g \in Gids, n \in 1 .. MAX_NONCE, e \in EvmSigners :
          relay_revoke_access(g, d, a, n, e)) \/ UNCHANGED relayVars
  <2>1. ASSUME NEW v \in VaultIds, VaultStep(v) PROVE UNCHANGED relayVars
    BY <2>1, Zenon DEF VaultStep, ReleaseMoves, accept_guardian_invite, add_document, set_access_registry,
                deactivate_vault, link_cross_chain_vault, register_guardian_bls_key
  <2>2. ASSUME NEW r \in RequestIds, RequestStep(r) PROVE UNCHANGED relayVars
    <3>1. ASSUME NEW a, NEW s, approve_access(a, r) \/ approve_access_fhe(a, r, s)
          PROVE  UNCHANGED relayVars
      BY <3>1, Zenon DEF approve_access, approve_access_fhe
    <3>2. ASSUME NEW b, approve_access_threshold(r, b)
          PROVE  UNCHANGED relayVars
      BY <3>2, Zenon DEF approve_access_threshold
    <3>3. ASSUME NEW list, NEW len, approve_access_bls(r, list, len) PROVE UNCHANGED relayVars
      BY <3>3, Zenon DEF approve_access_bls
    <3> QED BY <2>2, <3>1, <3>2, <3>3, Zenon DEF RequestStep
  <2>3. ASSUME NEW d \in DocIds, NEW a, NEW u, NEW list,
               request_access(a, d) \/ revoke_access(a, d, u) \/ save_guardian_shares_fhe(a, d, list)
        PROVE  UNCHANGED relayVars
    BY <2>3, Zenon DEF request_access, revoke_access, save_guardian_shares_fhe
  <2>4. ASSUME NEW a, NEW list, NEW t, create_vault(a, list, t) PROVE UNCHANGED relayVars
    BY <2>4, Zenon DEF create_vault
  <2>5. ASSUME NEW b, NEW t, verify_threshold_signatures(b, t)
        PROVE  UNCHANGED relayVars
    BY <2>5, Zenon DEF verify_threshold_signatures
  <2>6. CASE CloseLedger \/ UNCHANGED vars
    BY <2>6, Zenon DEF CloseLedger, vars
  <2> QED BY <2>1, <2>2, <2>3, <2>4, <2>5, <2>6, Zenon DEF Next, DocStep
<1> QED BY <1>2, <1>3, <1>4, Zenon DEF RelayedOnce

\* Thresholds stay positive, ids not handed out stay empty, batches keep their nonces.
LEMMA NextBackbone ==
  ASSUME IInv, [Next]_vars
  PROVE  Backbone'
<1> USE DEF IInv
<1>1. \A v \in 1 .. vault_count' : approval_threshold'[v] >= 1
  <2>1. ASSUME NEW a \in Accounts, NEW list \in SUBSET Accounts,
               NEW t \in 0 .. Cardinality(Accounts), create_vault(a, list, t)
        PROVE  <1>1
    <3>1. /\ vault_count + 1 \in VaultIds /\ vault_count' = vault_count + 1 /\ t > 0
          /\ approval_threshold' = [approval_threshold EXCEPT ![vault_count + 1] = t]
      BY <2>1, Zenon DEF create_vault
    <3>2. t \in Nat
      BY AccountsFinite
    <3>3. vault_count \in Nat /\ approval_threshold \in [VaultIds -> Nat]
      BY DEF TypeOK, VaultTypes
    <3>4. \A v \in 1 .. vault_count : approval_threshold[v] >= 1
      BY Zenon DEF Backbone
    <3> HIDE DEF IInv
    <3> QED BY <3>1, <3>2, <3>3, <3>4 DEF VaultIds
  <2>2. ASSUME vault_count' = vault_count PROVE <1>1
    BY <2>2, StepFixes, Zenon DEF FixedFields, Backbone
  <2>3. ASSUME NEW v \in VaultIds, VaultStep(v) PROVE vault_count' = vault_count
    BY <2>3, Zenon DEF VaultStep, ReleaseMoves, accept_guardian_invite, add_document, set_access_registry,
                deactivate_vault, link_cross_chain_vault, register_guardian_bls_key
  <2>4. ASSUME NEW r \in RequestIds, RequestStep(r) PROVE vault_count' = vault_count
    <3>1. ASSUME NEW a, NEW s, approve_access(a, r) \/ approve_access_fhe(a, r, s)
          PROVE  vault_count' = vault_count
      BY <3>1, Zenon DEF approve_access, approve_access_fhe
    <3>2. ASSUME NEW b, approve_access_threshold(r, b)
          PROVE  vault_count' = vault_count
      BY <3>2, Zenon DEF approve_access_threshold
    <3>3. ASSUME NEW list, NEW len, approve_access_bls(r, list, len) PROVE vault_count' = vault_count
      BY <3>3, Zenon DEF approve_access_bls
    <3> QED BY <2>4, <3>1, <3>2, <3>3, Zenon DEF RequestStep
  <2>5. ASSUME NEW d \in DocIds, DocStep(d) PROVE vault_count' = vault_count
    <3>1. ASSUME NEW a, NEW list, request_access(a, d) \/ save_guardian_shares_fhe(a, d, list)
          PROVE  vault_count' = vault_count
      BY <3>1, Zenon DEF request_access, save_guardian_shares_fhe
    <3>2. ASSUME NEW u, apply_revocation(d, u) PROVE vault_count' = vault_count
      BY <3>2, Zenon DEF apply_revocation
    <3> QED BY <2>5, <3>1, <3>2, Zenon DEF DocStep, revoke_access, relay_revoke_access
  <2>6. ASSUME NEW b, NEW t, verify_threshold_signatures(b, t)
        PROVE  vault_count' = vault_count
    BY <2>6, Zenon DEF verify_threshold_signatures
  <2>7. ASSUME CloseLedger \/ UNCHANGED vars PROVE vault_count' = vault_count
    BY <2>7, Zenon DEF CloseLedger, vars
  <2> QED BY <2>1, <2>2, <2>3, <2>4, <2>5, <2>6, <2>7, SMTT(30) DEF Next
<1>2. \A r \in RequestIds : r > req_count' => approved_by'[r] = 0
  <2>1. /\ req_count \in Nat /\ approved_by \in [RequestIds -> Nat]
        /\ \A r \in RequestIds : r \in Nat
        /\ \A r \in RequestIds : r > req_count => approved_by[r] = 0
    <3>1. TypeOK /\ \A r \in RequestIds : r > req_count => approved_by[r] = 0
      BY Zenon DEF Backbone
    <3> QED BY <3>1, RequestFacts, Zenon
  <2>2. ASSUME NEW q \in RequestIds, NEW new \in SUBSET Accounts, GuardiansApprove(q, new) PROVE <1>2
    <3>1. /\ q \in 1 .. req_count /\ req_count' = req_count
          /\ approved_by' = [approved_by EXCEPT ![q] = @ + Cardinality(new)]
      BY <2>2, Zenon DEF GuardiansApprove, Approvable, ReqExists, MarkApproved
    <3> QED BY <2>1, <3>1
  <2>3. ASSUME NEW a \in Accounts, NEW d \in DocIds, request_access(a, d) PROVE <1>2
    <3>1. req_count' = req_count + 1 /\ approved_by' = approved_by
      BY <2>3, Zenon DEF request_access
    <3> QED BY <2>1, <3>1
  <2>4. ASSUME UNCHANGED <<req_count, approved_by>> PROVE <1>2
    BY <2>1, <2>4, Zenon
  <2> QED BY <2>2, <2>3, <2>4, StepKinds, Zenon DEF BatchApproves, LeavesRequests
<1>3. \A x \in sig_grants' : x[3] \in used_nonce'
  <2>0. \A x \in sig_grants : x[3] \in used_nonce
    BY Zenon DEF Backbone
  <2> HIDE DEF IInv
  <2>1. ASSUME NEW q \in RequestIds, NEW n \in SigNonces, BatchApproves(q, n) PROVE <1>3
    <3>1. used_nonce' = used_nonce \cup {n} /\ sig_grants' = sig_grants \cup {<<q, q, n>>}
      BY <2>1, Zenon DEF BatchApproves
    <3> QED BY <2>0, <3>1
  <2>2. ASSUME UNCHANGED sig_grants, used_nonce \subseteq used_nonce' PROVE <1>3
    BY <2>0, <2>2, Zenon
  <2>3. TypeOK
    BY Zenon DEF IInv
  <2> QED BY <2>1, <2>2, <2>3, StepKinds, Zenon DEF GuardiansApprove, request_access, LeavesRequests
<1> QED BY <1>1, <1>2, <1>3, NextRelay, Zenon DEF Backbone

\* The invariant is inductive.
LEMMA NextIInv == IInv /\ [Next]_vars => IInv'
  BY NextTypeOK, NextBackbone, NextApprovals, NextQuorum, NextAccess, NextRelay, Zenon DEF IInv

\* The invariant holds in every reachable state.
THEOREM SpecIInv == Spec => []IInv
<1> QED BY InitIInv, NextIInv, PTL DEF Spec

\* Whichever of the four approval paths of lib.rs are interleaved, approved_by counts distinct
\* guardians, and a request no signature batch settled is Approved exactly when they reach
\* approval_threshold.
THEOREM ApprovalIntegrity ==
  Spec => [](TypeOK /\ ApprovalsAreGuardians /\ QuorumDecides)
<1>1. IInv => TypeOK /\ ApprovalsAreGuardians /\ QuorumDecides
  BY Zenon DEF IInv
<1> QED BY <1>1, SpecIInv, PTL

\* HasAccess is true only for uploaders and requesters of approved requests, and a registry
\* knows only approved requests.
THEOREM AccessOrigin == Spec => [](AccessHasOrigin /\ RegistryKnowsApproved)
<1>1. IInv => AccessHasOrigin /\ RegistryKnowsApproved
  BY Zenon DEF IInv
<1> QED BY <1>1, SpecIInv, PTL

\* relay_revoke_access applies each signed broadcast at most once.
THEOREM NoReplay == Spec => []RelayedOnce
<1>1. IInv => RelayedOnce
  BY Zenon DEF IInv
<1> QED BY <1>1, SpecIInv, PTL

\* A grant in a vault with a registry is recorded there.
LEMMA GrantReported ==
  ASSUME TypeOK, [Next]_vars, NEW r \in 1 .. req_count,
         status[r] # "Approved", status'[r] = "Approved", registry[VaultOf(r)] # "none"
  PROVE  r \in recorded'
<1>1. ASSUME NEW q \in RequestIds, ReqExists(q), Grant(q) PROVE r \in recorded'
  <2>1. q = r
    BY <1>1, GrantStatus, Zenon DEF ReqExists
  <2> QED BY <1>1, <2>1, Zenon DEF Grant, notify_access_registry
<1>2. ASSUME NEW a \in Accounts, NEW d \in DocIds, request_access(a, d) PROVE FALSE
  BY <1>2, Asked, Zenon
<1> QED BY <1>1, <1>2, StepKinds, Zenon DEF GuardiansApprove, BatchApproves, Approvable,
                                     GrantAtThreshold, LeavesRequests

\* No entrypoint reopens an Approved request or adds to its approvals, and none grants access
\* past the vault's registry.
THEOREM Finality == Spec => ApprovalsStand
<1>1. ASSUME IInv, [Next]_vars, NEW r \in 1 .. req_count, status[r] = "Approved"
      PROVE  status'[r] = "Approved" /\ approved_by'[r] = approved_by[r]
  <2>0. TypeOK
    BY <1>1, Zenon DEF IInv
  <2>1. r \in RequestIds /\ r < req_count + 1 /\ TypeOK
    BY <1>1, <2>0, RequestFacts
  <2>2. ASSUME NEW q \in RequestIds, NEW new \in SUBSET Accounts, GuardiansApprove(q, new)
        PROVE  <1>1!5
    <3>1. /\ q \in 1 .. req_count /\ q # r
          /\ approved_by' = [approved_by EXCEPT ![q] = @ + Cardinality(new)]
          /\ Grant(q) \/ UNCHANGED status
      BY <1>1, <2>2, Zenon DEF GuardiansApprove, Approvable, ReqExists, MarkApproved, GrantAtThreshold
    <3> QED BY <1>1, <2>1, <3>1, GrantStatus, RequestFacts, Zenon
  <2>3. ASSUME NEW q \in RequestIds, NEW n \in SigNonces, BatchApproves(q, n) PROVE <1>1!5
    <3>1. q \in 1 .. req_count /\ Grant(q) /\ approved_by' = approved_by
      BY <2>3, Zenon DEF BatchApproves, Approvable, ReqExists
    <3> QED BY <1>1, <2>1, <3>1, GrantStatus, Zenon
  <2>4. ASSUME NEW a \in Accounts, NEW d \in DocIds, request_access(a, d) PROVE <1>1!5
    BY <1>1, <2>1, <2>4, Asked, Zenon
  <2> QED BY <1>1, <2>1, <2>2, <2>3, <2>4, StepKinds DEF LeavesRequests
<1>2. IInv /\ [Next]_vars => [\A r \in 1 .. req_count : status[r] = "Approved" =>
                                status'[r] = "Approved" /\ approved_by'[r] = approved_by[r]]_vars
  BY <1>1, Zenon
<1>3. IInv /\ [Next]_vars => [\A r \in 1 .. req_count :
                                /\ status[r] # "Approved" /\ status'[r] = "Approved"
                                /\ registry[VaultOf(r)] # "none"
                                => r \in recorded']_vars
  BY GrantReported, Zenon DEF IInv
<1> QED BY <1>2, <1>3, SpecIInv, PTL DEF Spec, ApprovalsStand, ApprovedIsFinal, GrantsAreReported

\* Access that was revoked or never held comes back only with a pending, unexpired request
\* of that account turning Approved.
THEOREM Revocation == Spec => RevocationSticks
<1>1. ASSUME IInv, [Next]_vars, NEW p \in has_access' \ has_access, p[1] <= doc_count
      PROVE  \E r \in 1 .. req_count :
                /\ document_id[r] = p[1] /\ requester[r] = p[2]
                /\ status[r] = "Pending" /\ status'[r] = "Approved"
                /\ timestamp < expires_at[r]
  <2>1. ASSUME NEW q \in RequestIds, Approvable(q), Grant(q) PROVE <1>1!5
    <3>1. q \in 1 .. req_count /\ status[q] = "Pending" /\ timestamp < expires_at[q]
      BY <2>1, SMTT(30) DEF Approvable, ReqExists
    <3>2. status'[q] = "Approved"
      BY <1>1, <2>1, <3>1, GrantStatus, Zenon DEF IInv
    <3>3. p = <<document_id[q], requester[q]>>
      BY <1>1, <2>1, Zenon DEF Grant
    <3> QED BY <3>1, <3>2, <3>3, Zenon
  <2>2. ASSUME NEW a \in Accounts, NEW v \in VaultIds, NEW c \in Conditions, add_document(a, v, c)
        PROVE  FALSE
    <3>1. p = <<doc_count + 1, a>> /\ doc_count \in Nat
      <4>1. has_access' = has_access \cup {<<doc_count + 1, a>>}
        BY <2>2, Zenon DEF add_document
      <4>2. doc_count \in 0 .. MAX_DOCS
        BY <1>1, Zenon DEF IInv, TypeOK, DocTypes
      <4> QED BY <1>1, <4>1, <4>2
    <3> QED BY <1>1, <3>1, SMTT(30)
  <2>3. ~ (has_access' \subseteq has_access)
    BY <1>1, SMTT(30)
  <2>4. ASSUME LeavesRequests PROVE FALSE
    BY <2>2, <2>3, <2>4, Zenon DEF LeavesRequests
  <2>5. ASSUME NEW a \in Accounts, NEW d \in DocIds, request_access(a, d) PROVE FALSE
    BY <2>3, <2>5, Zenon DEF request_access
  <2>6. TypeOK
    BY <1>1, SMTT(30) DEF IInv
  <2> QED BY <1>1, <2>1, <2>3, <2>4, <2>5, <2>6, StepKinds, Zenon
          DEF GuardiansApprove, BatchApproves, GrantAtThreshold
<1>2. IInv /\ [Next]_vars =>
        [\A p \in has_access' \ has_access : p[1] <= doc_count =>
            \E r \in 1 .. req_count :
               /\ document_id[r] = p[1] /\ requester[r] = p[2]
               /\ status[r] = "Pending" /\ status'[r] = "Approved"
               /\ timestamp < expires_at[r]]_vars
  BY <1>1
<1> QED BY <1>2, SpecIInv, PTL DEF Spec, RevocationSticks
-----------------------------------------------------------------------------
(* The books of a request, the FHE accumulator included. *)

\* The accumulator of a request is as the contributors have left it; an id not handed out has none.
FheBooks ==
    /\ FheCountsContributors
    /\ \A r \in RequestIds : r > req_count => fhe_count[r] = 0

\* Only approve_access_fhe touches the shares of a request.
LEMMA FheSteps ==
  ASSUME [Next]_vars
  PROVE  \/ UNCHANGED fheVars
         \/ \E r \in RequestIds, a \in Accounts, s \in FheShares : approve_access_fhe(a, r, s)
<1>1. CASE CloseLedger \/ UNCHANGED vars
  BY <1>1, Zenon DEF CloseLedger, vars
<1>2. ASSUME NEW a, NEW list, NEW t, create_vault(a, list, t) PROVE UNCHANGED fheVars
  BY <1>2, Zenon DEF create_vault
<1>3. ASSUME NEW b, NEW t, verify_threshold_signatures(b, t)
      PROVE  UNCHANGED fheVars
  BY <1>3, Zenon DEF verify_threshold_signatures
<1>4. ASSUME NEW v, VaultStep(v) PROVE UNCHANGED fheVars
  BY <1>4, Zenon DEF VaultStep, ReleaseMoves, accept_guardian_invite, add_document, set_access_registry,
                     deactivate_vault, link_cross_chain_vault, register_guardian_bls_key
<1>5. ASSUME NEW d, DocStep(d) PROVE UNCHANGED fheVars
  <2>1. ASSUME NEW a, request_access(a, d) PROVE UNCHANGED fheVars
    BY <2>1, Zenon DEF request_access
  <2>2. ASSUME NEW a, NEW list, save_guardian_shares_fhe(a, d, list) PROVE UNCHANGED fheVars
    BY <2>2, Zenon DEF save_guardian_shares_fhe
  <2>3. ASSUME NEW u, apply_revocation(d, u) PROVE UNCHANGED fheVars
    BY <2>3, Zenon DEF apply_revocation
  <2> QED BY <1>5, <2>1, <2>2, <2>3, Zenon DEF DocStep, revoke_access, relay_revoke_access
<1>6. ASSUME NEW r, RequestStep(r)
      PROVE  UNCHANGED fheVars \/ \E a \in Accounts, s \in FheShares : approve_access_fhe(a, r, s)
  BY <1>6, Zenon DEF RequestStep, approve_access, approve_access_threshold, approve_access_bls
<1> QED BY <1>1, <1>2, <1>3, <1>4, <1>5, <1>6, Zenon DEF Next

\* A request that existed keeps its approvers and its requester.
LEMMA ApproversStay ==
  ASSUME TypeOK, [Next]_vars, NEW r \in 1 .. req_count
  PROVE  Approvers(r) \subseteq Approvers(r)' /\ requester'[r] = requester[r]
<1>1. approved_req \subseteq approved_req'
  BY StepKinds, Zenon DEF GuardiansApprove, MarkApproved, BatchApproves, request_access, LeavesRequests, reqVars
<1> QED BY <1>1, OldRequests, Zenon DEF Approvers

\* One share of one guardian more.
LEMMA FheShareStep ==
  ASSUME TypeOK, FheBooks, NEW q \in RequestIds, NEW a \in Accounts, NEW s \in FheShares,
         approve_access_fhe(a, q, s), NEW r \in 1 .. req_count
  PROVE  /\ fhe_count'[r] = Cardinality(Contributors(r)')
         /\ Contributors(r)' \subseteq Approvers(r)' \ {requester[r]}
<1> DEFINE C == Contributors(r)
           D == Contributors(r)'
<1>1. /\ requester[q] # a /\ <<q, a>> \notin approved_req
      /\ approved_req' = approved_req \cup ({q} \X {a})
      /\ AddFheShare(q, a, s)
  BY Zenon DEF approve_access_fhe, MarkApproved
<1>2. fhe_count[r] = Cardinality(C) /\ \A g \in C : g \in Approvers(r) \ {requester[r]}
  BY Zenon DEF FheBooks, FheCountsContributors
<1>3. r \in RequestIds /\ fhe_count \in [RequestIds -> Nat]
  BY RequestFacts, Zenon DEF TypeOK, AccessTypes
<1>4. Approvers(r) \subseteq Approvers(r)' /\ (r = q => a \in Approvers(r)' /\ a \notin Approvers(r))
  BY <1>1, Zenon DEF Approvers
<1>5. CASE UNCHANGED fheVars \/ r # q
  <2>1. D = C /\ fhe_count'[r] = fhe_count[r]
    <3>1. CASE UNCHANGED fheVars
      BY <3>1, Zenon DEF fheVars, Contributors
    <3>2. CASE /\ r # q /\ fhe_bshare' = fhe_bshare \cup {<<q, a, s>>}
               /\ fhe_count' = [fhe_count EXCEPT ![q] = @ + 1]
      BY <3>2, <1>3, Zenon DEF Contributors
    <3> QED BY <1>1, <1>5, <3>1, <3>2, Zenon DEF AddFheShare, FheAddable
  <2> QED BY <1>2, <1>4, <2>1, Zenon
<1>6. CASE /\ r = q /\ fhe_bshare' = fhe_bshare \cup {<<q, a, s>>}
           /\ fhe_count' = [fhe_count EXCEPT ![q] = @ + 1]
  <2>1. D = C \cup {a} /\ a \notin C
    BY <1>2, <1>4, <1>6, Zenon DEF Contributors
  <2>2. IsFiniteSet(C) /\ Cardinality(C) \in Nat
    BY AccountsFinite, Zenon DEF Contributors
  <2>3. Cardinality(D) = Cardinality(C) + 1
    BY <2>1, <2>2, FS_AddElement, Zenon
  <2>4. fhe_count'[r] = fhe_count[r] + 1
    BY <1>3, <1>6
  <2> QED BY <1>1, <1>2, <1>4, <1>6, <2>1, <2>3, <2>4, ZenonT(30)
<1> QED BY <1>1, <1>5, <1>6, Zenon DEF AddFheShare, FheAddable

\* The accumulators keep their books.
LEMMA NextFhe ==
  ASSUME IInv, FheBooks, [Next]_vars
  PROVE  FheBooks'
<1>0. TypeOK
  BY DEF IInv
<1>1. ASSUME NEW r \in 1 .. req_count', r \notin 1 .. req_count
      PROVE  fhe_count'[r] = Cardinality(Contributors(r)') /\ Contributors(r)' = {}
  <2>1. r \in RequestIds /\ r = req_count + 1 /\ UNCHANGED fheVars
    <3>0. newReqVars' # newReqVars
      BY <1>1, Zenon DEF newReqVars
    <3>1. PICK a \in Accounts, d \in DocIds : request_access(a, d)
      BY <1>0, <3>0, StepKinds, Zenon DEF GuardiansApprove, BatchApproves, LeavesRequests
    <3>2. UNCHANGED fheVars
      BY <3>1, Zenon DEF request_access
    <3> QED BY <1>0, <1>1, <3>2, NewRequest, Zenon
  <2>2. fhe_count'[r] = 0
    BY <1>0, <2>1, RequestFacts DEF FheBooks, fheVars
  <2>3. Contributors(r)' = {}
    <3>1. fhe_bshare \subseteq (1 .. req_count) \X Accounts \X FheShares
      BY <1>0, Zenon DEF TypeOK, AccessTypes
    <3>2. fhe_bshare' = fhe_bshare
      BY <2>1, Zenon DEF fheVars
    <3> QED BY <1>1, <3>1, <3>2 DEF Contributors
  <2> QED BY <2>2, <2>3, FS_EmptySet, Zenon
<1>2. ASSUME NEW r \in 1 .. req_count
      PROVE  /\ fhe_count'[r] = Cardinality(Contributors(r)')
             /\ Contributors(r)' \subseteq Approvers(r)' \ {requester'[r]}
  <2>1. requester'[r] = requester[r] /\ Approvers(r) \subseteq Approvers(r)'
    BY <1>0, ApproversStay, Zenon
  <2>2. CASE UNCHANGED fheVars
    BY <2>1, <2>2, Zenon DEF fheVars, FheBooks, FheCountsContributors, Contributors
  <2> QED BY <1>0, <2>1, <2>2, FheSteps, FheShareStep, Zenon
<1>3. ASSUME NEW r \in RequestIds, r > req_count' PROVE fhe_count'[r] = 0
  <2>1. req_count' >= req_count /\ req_count \in Nat /\ req_count' \in Nat
    <3>1. TypeOK'
      BY <1>0, NextTypeOK
    <3>2. req_count \in 0 .. MAX_REQUESTS /\ req_count' \in 0 .. MAX_REQUESTS
      BY <1>0, <3>1, Zenon DEF TypeOK, RequestTypes
    <3>3. req_count' = req_count \/ req_count' = req_count + 1
      BY <1>0, StepKinds, Zenon DEF GuardiansApprove, BatchApproves, LeavesRequests, newReqVars, request_access
    <3> QED BY <3>2, <3>3
  <2>2. r > req_count /\ r \notin 1 .. req_count
    BY <1>3, <2>1 DEF RequestIds
  <2>3. fhe_count[r] = 0
    BY <2>2, Zenon DEF FheBooks
  <2>4. CASE UNCHANGED fheVars
    BY <2>3, <2>4, Zenon DEF fheVars
  <2>5. ASSUME NEW q \in RequestIds, NEW a \in Accounts, NEW s \in FheShares, approve_access_fhe(a, q, s)
        PROVE  fhe_count'[r] = 0
    <3>1. q \in 1 .. req_count /\ AddFheShare(q, a, s)
      BY <2>5, Zenon DEF approve_access_fhe, Approvable, ReqExists
    <3>2. q # r
      BY <2>2, <3>1
    <3> QED BY <1>0, <2>3, <3>1, <3>2, Zenon DEF AddFheShare, FheAddable, fheVars, TypeOK, AccessTypes
  <2> QED BY <2>4, <2>5, FheSteps, Zenon
<1> QED BY <1>1, <1>2, <1>3, Zenon DEF FheBooks, FheCountsContributors

\* A share is added only to an accumulator of its own, full length.
LEMMA NextLengths ==
  ASSUME TypeOK, FheLengthsMatch, [Next]_vars
  PROVE  FheLengthsMatch'
<1>1. CASE UNCHANGED fheVars
  BY <1>1, Zenon DEF FheLengthsMatch, fheVars
<1>2. ASSUME NEW q \in RequestIds, NEW a \in Accounts, NEW s \in FheShares, s # "empty",
             fhe_acc[q] # "empty" => s = fhe_acc[q] /\ s # "short",
             fhe_bshare' = fhe_bshare \cup {<<q, a, s>>},
             fhe_acc' = [fhe_acc EXCEPT ![q] = s], fhe_count' = [fhe_count EXCEPT ![q] = @ + 1]
      PROVE  FheLengthsMatch'
  <2>1. /\ fhe_acc \in [RequestIds -> FheShares \cup {"empty"}] /\ fhe_count \in [RequestIds -> Nat]
        /\ \A x \in fhe_bshare : x[1] \in RequestIds
    BY AccessConstants DEF TypeOK, AccessTypes, RequestTypes, RequestIds
  <2>2. /\ \A x \in fhe_bshare : x[3] = fhe_acc[x[1]] /\ x[3] # "empty"
        /\ \A r \in RequestIds : /\ fhe_count[r] = 0 <=> fhe_acc[r] = "empty"
                                 /\ fhe_count[r] > 1 => fhe_acc[r] # "short"
    BY Zenon DEF FheLengthsMatch
  <2>3. \A x \in fhe_bshare' : x[3] = fhe_acc'[x[1]] /\ x[3] # "empty"
    BY <1>2, <2>1, <2>2
  <2>4. \A r \in RequestIds : /\ fhe_count'[r] = 0 <=> fhe_acc'[r] = "empty"
                              /\ fhe_count'[r] > 1 => fhe_acc'[r] # "short"
    BY <1>2, <2>1, <2>2
  <2> QED BY <2>3, <2>4, Zenon DEF FheLengthsMatch
<1>3. ASSUME NEW q \in RequestIds, NEW a \in Accounts, NEW s \in FheShares, approve_access_fhe(a, q, s)
      PROVE  FheLengthsMatch'
  BY <1>1, <1>2, <1>3, Zenon DEF approve_access_fhe, AddFheShare, FheAddable
<1> QED BY <1>1, <1>3, FheSteps, Zenon

\* The books of a request agree, whatever mixes of plain, FHE and signed approvals it met: its
\* guardians settle it exactly at the threshold, the accumulator holds one share per contributing
\* guardian, all of one length, and a registry knows of approved requests alone (approve_access,
\* approve_access_fhe, fhe_add).
THEOREM RequestBooks == Spec => []RequestBooksAgree
<1>1. Init => FheBooks /\ FheLengthsMatch
  <2>1. Init => /\ req_count = 0 /\ fhe_count = [r \in RequestIds |-> 0] /\ fhe_bshare = {}
                /\ fhe_acc = [r \in RequestIds |-> "empty"]
    BY Zenon DEF Init
  <2> QED BY <2>1 DEF FheBooks, FheCountsContributors, FheLengthsMatch
<1>2. IInv /\ FheBooks /\ FheLengthsMatch /\ [Next]_vars => FheBooks' /\ FheLengthsMatch'
  BY NextFhe, NextLengths, Zenon DEF IInv
<1>3. IInv /\ FheBooks /\ FheLengthsMatch => RequestBooksAgree
  BY Zenon DEF IInv, FheBooks, RequestBooksAgree
<1> QED BY <1>1, <1>2, <1>3, SpecIInv, PTL DEF Spec
-----------------------------------------------------------------------------
(* Deactivation. *)

\* A deactivated vault stays so, and its guardians are final.
LEMMA InactiveCouncil ==
  ASSUME TypeOK, [Next]_vars, NEW v \in 1 .. vault_count, ~is_active[v]
  PROVE  ~is_active'[v] /\ guardians'[v] = guardians[v]
<1> DEFINE Goal == ~is_active'[v] /\ guardians'[v] = guardians[v]
<1>1. /\ is_active \in [VaultIds -> BOOLEAN] /\ guardians \in [VaultIds -> SUBSET Accounts]
      /\ v \in VaultIds /\ v # vault_count + 1
  <2>1. /\ is_active \in [VaultIds -> BOOLEAN] /\ guardians \in [VaultIds -> SUBSET Accounts]
        /\ vault_count \in 0 .. MAX_VAULTS
    BY Zenon DEF TypeOK, VaultTypes
  <2>2. v \in VaultIds /\ v # vault_count + 1
    BY <2>1, AccessConstants DEF VaultIds
  <2> QED BY <2>1, <2>2
<1>2. ASSUME NEW a, NEW list, NEW t, create_vault(a, list, t) PROVE Goal
  BY <1>1, <1>2, Zenon DEF create_vault
<1>3. ASSUME NEW w \in VaultIds, NEW a, accept_guardian_invite(a, w) PROVE Goal
  <2>1. w # v /\ is_active' = is_active
    BY <1>3, Zenon DEF accept_guardian_invite
  <2>2. guardians' = [guardians EXCEPT ![w] = @ \cup {a}]
    BY <1>3, Zenon DEF accept_guardian_invite
  <2> QED BY <1>1, <2>1, <2>2, Zenon
<1>4. ASSUME NEW w \in VaultIds, NEW a, deactivate_vault(a, w) PROVE Goal
  <2>1. is_active' = [is_active EXCEPT ![w] = FALSE] /\ guardians' = guardians
    BY <1>4, Zenon DEF deactivate_vault, vaultVars
  <2> QED BY <1>1, <2>1, Zenon
<1>5. CASE UNCHANGED <<is_active, vaultVars>>
  BY <1>5, Zenon DEF vaultVars
<1>6. ASSUME NEW w \in VaultIds, VaultStep(w) PROVE Goal
  <2>1. CASE ReleaseMoves(w) \/ \E a \in BlsSigners : register_guardian_bls_key(a, w)
    BY <1>5, <2>1, Zenon DEF ReleaseMoves, register_guardian_bls_key
  <2>2. ASSUME NEW a, NEW c, add_document(a, w, c) PROVE Goal
    BY <1>5, <2>2, Zenon DEF add_document
  <2>3. ASSUME NEW a, NEW k, set_access_registry(a, w, k) PROVE Goal
    BY <1>5, <2>3, Zenon DEF set_access_registry
  <2>4. ASSUME NEW a, NEW g, NEW e, link_cross_chain_vault(a, w, g, e) PROVE Goal
    BY <1>5, <2>4, Zenon DEF link_cross_chain_vault
  <2> HIDE DEF Goal
  <2> QED BY <1>3, <1>4, <1>6, <2>1, <2>2, <2>3, <2>4, Zenon DEF VaultStep
<1>7. ASSUME NEW d, DocStep(d) PROVE Goal
  <2>1. ASSUME NEW a, NEW list, request_access(a, d) \/ save_guardian_shares_fhe(a, d, list) PROVE Goal
    BY <1>5, <2>1, Zenon DEF request_access, save_guardian_shares_fhe
  <2>2. ASSUME NEW u, apply_revocation(d, u) PROVE Goal
    BY <1>5, <2>2, Zenon DEF apply_revocation
  <2> HIDE DEF Goal
  <2> QED BY <1>7, <2>1, <2>2, Zenon DEF DocStep, revoke_access, relay_revoke_access
<1>8. ASSUME NEW r, RequestStep(r) PROVE Goal
  BY <1>5, <1>8, Zenon DEF RequestStep, approve_access, approve_access_threshold, approve_access_bls, approve_access_fhe
<1>9. ASSUME NEW b, NEW t, verify_threshold_signatures(b, t) PROVE Goal
  BY <1>5, <1>9, Zenon DEF verify_threshold_signatures
<1>10. ASSUME CloseLedger \/ UNCHANGED vars PROVE Goal
  BY <1>5, <1>10, Zenon DEF CloseLedger, vars
<1> HIDE DEF Goal
<1>11. Goal
  BY <1>2, <1>6, <1>7, <1>8, <1>9, <1>10, Zenon DEF Next
<1> QED BY <1>11, Zenon DEF Goal

\* A document that is new belongs to an active vault.
LEMMA NewDocument ==
  ASSUME TypeOK, [Next]_vars, NEW d \in 1 .. doc_count', d \notin 1 .. doc_count
  PROVE  is_active[doc_vault'[d]] /\ doc_vault'[d] \in 1 .. vault_count
<1>1. doc_count' # doc_count
  BY Zenon
<1>2. PICK a \in Accounts, v \in VaultIds, c \in Conditions : add_document(a, v, c)
  BY <1>1, StepKinds, Zenon DEF GuardiansApprove, BatchApproves, request_access, LeavesRequests, docVars
<1>3. /\ doc_count + 1 \in DocIds /\ doc_count' = doc_count + 1 /\ is_active[v] /\ v \in 1 .. vault_count
      /\ doc_vault' = [doc_vault EXCEPT ![doc_count + 1] = v]
  BY <1>2, Zenon DEF add_document, VaultExists
<1>4. doc_count \in 0 .. MAX_DOCS /\ doc_vault \in [DocIds -> 0 .. vault_count]
  BY Zenon DEF TypeOK, DocTypes
<1>5. d = doc_count + 1
  BY <1>3, <1>4
<1> QED BY <1>3, <1>4, <1>5, Zenon

\* New access to a document that exists is a grant, made while its vault is active.
LEMMA NewAccess ==
  ASSUME TypeOK, [Next]_vars, NEW d \in 1 .. doc_count, NEW a \in Accounts,
         <<d, a>> \in has_access', <<d, a>> \notin has_access
  PROVE  is_active[doc_vault[d]]
<1>1. ASSUME NEW r, Approvable(r), Grant(r) PROVE is_active[doc_vault[d]]
  <2>1. <<d, a>> = <<document_id[r], requester[r]>>
    BY <1>1, Zenon DEF Grant
  <2> QED BY <1>1, <2>1, Zenon DEF Approvable, VaultOf
<1>2. ASSUME NEW b \in Accounts, NEW v \in VaultIds, NEW c \in Conditions, add_document(b, v, c) PROVE FALSE
  <2>1. <<d, a>> = <<doc_count + 1, b>>
    BY <1>2, Zenon DEF add_document
  <2>2. d # doc_count + 1
    <3>1. doc_count \in 0 .. MAX_DOCS
      BY Zenon DEF TypeOK, DocTypes
    <3> QED BY <3>1
  <2> QED BY <2>1, <2>2, Zenon
<1>3. has_access' # has_access
  BY Zenon
<1>4. ASSUME LeavesRequests PROVE FALSE
  <2>1. ASSUME NEW p, has_access' = has_access \ {p} PROVE FALSE
    BY <2>1, Zenon
  <2> QED BY <1>2, <1>3, <1>4, <2>1, Zenon DEF LeavesRequests
<1> QED BY <1>1, <1>3, <1>4, StepKinds, Zenon
        DEF GuardiansApprove, BatchApproves, GrantAtThreshold, request_access, accessVars

\* A new request is for a document of an active vault.
LEMMA NewRequestActive ==
  ASSUME TypeOK, [Next]_vars, NEW r \in (req_count + 1) .. req_count'
  PROVE  is_active[doc_vault[document_id'[r]]] /\ document_id'[r] \in 1 .. doc_count
<1>1. req_count' # req_count /\ req_count \in Nat
  BY RequestFacts
<1>2. PICK a \in Accounts, d \in DocIds : request_access(a, d)
  BY <1>1, StepKinds, Zenon DEF GuardiansApprove, BatchApproves, LeavesRequests, newReqVars
<1>3. /\ req_count + 1 \in RequestIds /\ req_count' = req_count + 1 /\ is_active[doc_vault[d]]
      /\ d \in 1 .. doc_count
      /\ document_id' = [document_id EXCEPT ![req_count + 1] = d]
  BY <1>2, Zenon DEF request_access, DocExists
<1>4. r = req_count + 1
  BY <1>1, <1>3
<1> QED BY <1>3, <1>4, RequestFacts, Zenon

\* What is granted was due: a signature batch settles only the request it was signed for, once,
\* and after deactivate_vault a vault gains no guardian, no document, no request and no access.
THEOREM DueGrants == Spec => GrantsAreDue
<1> DEFINE Final(v) ==
          /\ ~is_active'[v]
          /\ guardians'[v] = guardians[v]
          /\ \A d \in 1 .. doc_count' : doc_vault'[d] = v =>
                /\ d <= doc_count
                /\ \A a \in Accounts : <<d, a>> \in has_access' => <<d, a>> \in has_access
                /\ \A r \in (req_count + 1) .. req_count' : document_id'[r] # d
<1>1. ASSUME IInv, [Next]_vars, NEW v \in 1 .. vault_count, ~is_active[v] PROVE Final(v)
  <2>0. TypeOK
    BY <1>1, Zenon DEF IInv
  <2>1. ~is_active'[v] /\ guardians'[v] = guardians[v]
    BY <1>1, <2>0, InactiveCouncil, Zenon
  <2>2. ASSUME NEW d \in 1 .. doc_count', doc_vault'[d] = v
        PROVE  /\ d <= doc_count
               /\ \A a \in Accounts : <<d, a>> \in has_access' => <<d, a>> \in has_access
               /\ \A r \in (req_count + 1) .. req_count' : document_id'[r] # d
    <3>1. d \in 1 .. doc_count
      BY <1>1, <2>0, <2>2, NewDocument, Zenon
    <3>2. doc_vault[d] = v
      BY <1>1, <2>0, <2>2, <3>1, StepFixes, Zenon DEF FixedFields
    <3>3. d <= doc_count
      <4>1. doc_count \in 0 .. MAX_DOCS
        BY <2>0, Zenon DEF TypeOK, DocTypes
      <4> QED BY <3>1, <4>1
    <3> QED BY <1>1, <2>0, <3>1, <3>2, <3>3, NewAccess, NewRequestActive, Zenon
  <2> QED BY <2>1, <2>2, Zenon
<1>2. IInv /\ [Next]_vars => [\A v \in 1 .. vault_count : ~is_active[v] => Final(v)]_vars
  BY <1>1, Zenon
<1>3. IInv => BatchesSettleOnce
  BY Zenon DEF IInv
<1> QED BY <1>2, <1>3, SpecIInv, PTL DEF Spec, GrantsAreDue, DeactivatedGrantsNothing
=============================================================================
