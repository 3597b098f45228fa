--------------------------- MODULE ContractProofs ---------------------------
(***************************************************************************)
(* Proofs about the smaller parts of the contracts, one after the other:   *)
(* access tokens, keys and upgrade votes of the Soroban contract, then the *)
(* council of an EVM vault.  The parts share no state.                     *)
(***************************************************************************)
EXTENDS SorobanTokens, SorobanRegistry, EvmGovernance, FiniteSetTheorems, TLAPS
-----------------------------------------------------------------------------
(* SorobanTokens: the two balances of the access tokens count the tokens really held, so   *)
(* that the saturating subtraction of the contract never hides a drift.  The invariant is  *)
(* inductive together with TypeOK: each step moves at most one token, and changes the set  *)
(* of tokens of an account by that token or not at all.                                    *)
\* Every set of tokens is finite.
LEMMA TokensFinite ==
    ASSUME NEW S \in SUBSET TokenIds
    PROVE  IsFiniteSet(S) /\ Cardinality(S) \in Nat
<1>1. IsFiniteSet(TokenIds)
  BY TokenConstants, FS_Interval DEF TokenIds
<1>2. IsFiniteSet(S)
  BY <1>1, FS_Subset, Zenon
<1> QED
  BY <1>2, FS_CardinalityType, Zenon

\* One token enters or leaves a set of tokens.
LEMMA OneToken ==
    ASSUME NEW S \in SUBSET TokenIds, NEW t \in TokenIds
    PROVE  /\ t \notin S => Cardinality(S \cup {t}) = Cardinality(S) + 1
           /\ t \in S => /\ Cardinality(S \ {t}) = Cardinality(S) - 1
                         /\ Cardinality(S) > 0
<1>1. IsFiniteSet(S) /\ Cardinality(S) \in Nat
  BY TokensFinite, Zenon
<1>2. ASSUME t \notin S PROVE Cardinality(S \cup {t}) = Cardinality(S) + 1
  BY <1>1, <1>2, FS_AddElement, Zenon
<1>3. ASSUME t \in S PROVE Cardinality(S \ {t}) = Cardinality(S) - 1
  BY <1>1, <1>3, FS_RemoveElement, Zenon
<1>4. ASSUME t \in S PROVE Cardinality(S) > 0
  BY <1>1, <1>4, FS_EmptySet
<1> QED
  BY <1>2, <1>3, <1>4, Zenon

\* The types and the use of token ids are preserved by every step.
LEMMA NextTypeOK == TypeOK /\ [Next]_vars => TypeOK'
<1> SUFFICES ASSUME TypeOK, [Next]_vars PROVE TypeOK'
  BY Zenon
<1> USE TokenConstants DEF TypeOK, TokenIds, Less
<1>1. ASSUME NEW v \in Vaults, NEW a \in Accounts, GuardiansChange(v, a) PROVE TypeOK'
  BY <1>1 DEF GuardiansChange
<1>2. ASSUME NEW a \in Accounts, NEW b \in Accounts, NEW v \in Vaults,
             mint_access_token(a, v, b)
      PROVE TypeOK'
  BY <1>2, SMTT(30) DEF mint_access_token
<1>3. ASSUME NEW a \in Accounts, NEW t \in TokenIds, burn_access_token(a, t) PROVE TypeOK'
  BY <1>3 DEF burn_access_token
<1>4. ASSUME NEW a \in Accounts, NEW b \in Accounts, NEW t \in TokenIds, transfer(a, b, t)
      PROVE TypeOK'
  <2>1. token_vault[t] \in Vaults /\ token_owner' = [token_owner EXCEPT ![t] = b]
    BY <1>4, Zenon DEF transfer
  <2>2. owner_balance' \in [Accounts -> Nat]
    BY <1>4, SMTT(30) DEF transfer
  <2>3. vault_balance' \in [Vaults \X Accounts -> Nat]
    <3> DEFINE sent == [vault_balance EXCEPT ![<<token_vault[t], a>>] = Less(@)]
    <3>1. sent \in [Vaults \X Accounts -> Nat]
      BY <2>1
    <3>2. vault_balance' = [sent EXCEPT ![<<token_vault[t], b>>] = @ + 1]
      BY <1>4, Zenon DEF transfer
    <3> HIDE DEF sent
    <3> QED
      BY <3>1, <3>2, <2>1
  <2>4. UNCHANGED <<minters, token_count, token_vault>> /\ token_owner[t] = a
    BY <1>4, Zenon DEF transfer
  <2> QED
    BY <2>1, <2>2, <2>3, <2>4, Zenon
<1>5. CASE UNCHANGED vars
  BY <1>5, Zenon DEF vars
<1> QED
  BY <1>1, <1>2, <1>3, <1>4, <1>5, Zenon DEF Next

\* Initially nobody holds a token.
LEMMA InitBalances == Init => TypeOK /\ BalancesCountTokens
<1> SUFFICES ASSUME Init PROVE TypeOK /\ BalancesCountTokens
  BY Zenon
<1>1. TypeOK
  BY TokenConstants DEF Init, TypeOK, TokenIds
<1>2. /\ \A a \in Accounts : TokensOf(a) = {}
      /\ \A v \in Vaults, a \in Accounts : TokensFor(v, a) = {}
  BY TokenConstants, Zenon DEF Init, TokensOf, TokensFor
<1> QED
  BY <1>1, <1>2, FS_EmptySet, Zenon DEF Init, BalancesCountTokens

\* A minted token joins the tokens of its owner.
LEMMA MintBalances ==
    ASSUME TypeOK, BalancesCountTokens,
           NEW a \in Accounts, NEW b \in Accounts, NEW v \in Vaults, mint_access_token(a, v, b)
    PROVE  BalancesCountTokens'
<1> DEFINE t == token_count + 1
<1>0. t \in TokenIds /\ token_owner[t] = NoOne
  BY TokenConstants DEF mint_access_token, TypeOK, TokenIds
<1>1. ASSUME NEW c \in Accounts PROVE owner_balance'[c] = Cardinality(TokensOf(c)')
  <2>1. TokensOf(c)' = IF c = b THEN TokensOf(c) \cup {t} ELSE TokensOf(c)
    BY <1>0, TokenConstants, Zenon DEF mint_access_token, TokensOf, TypeOK
  <2>2. t \notin TokensOf(c) /\ TokensOf(c) \in SUBSET TokenIds
    BY <1>0, TokenConstants, Zenon DEF TokensOf
  <2>3. owner_balance'[c] = IF c = b THEN owner_balance[c] + 1 ELSE owner_balance[c]
    BY Zenon DEF mint_access_token, TypeOK
  <2> QED
    BY <2>1, <2>2, <2>3, <1>0, OneToken DEF BalancesCountTokens
<1>2. ASSUME NEW w \in Vaults, NEW c \in Accounts
      PROVE vault_balance'[<<w, c>>] = Cardinality(TokensFor(w, c)')
  <2>1. TokensFor(w, c)' = IF c = b /\ w = v THEN TokensFor(w, c) \cup {t} ELSE TokensFor(w, c)
    BY <1>0, TokenConstants DEF mint_access_token, TokensFor, TokensOf, TypeOK
  <2>2. t \notin TokensFor(w, c) /\ TokensFor(w, c) \in SUBSET TokenIds
    BY <1>0, TokenConstants, Zenon DEF TokensOf, TokensFor
  <2>3. vault_balance'[<<w, c>>] = IF c = b /\ w = v THEN vault_balance[<<w, c>>] + 1
                                   ELSE vault_balance[<<w, c>>]
    BY Zenon DEF mint_access_token, TypeOK
  <2> QED
    BY <2>1, <2>2, <2>3, <1>0, OneToken DEF BalancesCountTokens
<1> QED
  BY <1>1, <1>2, Zenon DEF BalancesCountTokens

\* A burned token leaves the tokens of its owner; the subtraction does not saturate.
LEMMA BurnBalances ==
    ASSUME TypeOK, BalancesCountTokens,
           NEW a \in Accounts, NEW t \in TokenIds, burn_access_token(a, t)
    PROVE  BalancesCountTokens'
<1>0. token_owner[t] = a /\ token_vault[t] \in Vaults
  BY TokenConstants, Zenon DEF burn_access_token, TypeOK
<1>1. ASSUME NEW c \in Accounts PROVE owner_balance'[c] = Cardinality(TokensOf(c)')
  <2>1. TokensOf(c)' = IF c = a THEN TokensOf(c) \ {t} ELSE TokensOf(c)
    BY <1>0, TokenConstants, Zenon DEF burn_access_token, TokensOf, TypeOK
  <2>2. (c = a => t \in TokensOf(c)) /\ TokensOf(c) \in SUBSET TokenIds
    BY <1>0, Zenon DEF TokensOf
  <2> QED
    BY <2>1, <2>2, OneToken, SMTT(30) DEF burn_access_token, BalancesCountTokens, TypeOK, Less
<1>2. ASSUME NEW w \in Vaults, NEW c \in Accounts
      PROVE vault_balance'[<<w, c>>] = Cardinality(TokensFor(w, c)')
  <2>1. TokensFor(w, c)' = IF c = a /\ w = token_vault[t] THEN TokensFor(w, c) \ {t}
                           ELSE TokensFor(w, c)
    BY <1>0, TokenConstants, Zenon DEF burn_access_token, TokensFor, TokensOf, TypeOK
  <2>2. /\ c = a /\ w = token_vault[t] => t \in TokensFor(w, c)
        /\ TokensFor(w, c) \in SUBSET TokenIds
    BY <1>0, Zenon DEF TokensOf, TokensFor
  <2>3. vault_balance'[<<w, c>>] = IF c = a /\ w = token_vault[t]
                                   THEN Less(vault_balance[<<w, c>>])
                                   ELSE vault_balance[<<w, c>>]
    BY <1>0, Zenon DEF burn_access_token, TypeOK
  <2> QED
    BY <2>1, <2>2, <2>3, OneToken DEF BalancesCountTokens, Less
<1> QED
  BY <1>1, <1>2, Zenon DEF BalancesCountTokens

\* A transferred token moves from the sender's set to the receiver's; when they are the
\* same account its balances return to what they were.
LEMMA TransferBalances ==
    ASSUME TypeOK, BalancesCountTokens,
           NEW a \in Accounts, NEW b \in Accounts, NEW t \in TokenIds, transfer(a, b, t)
    PROVE  BalancesCountTokens'
<1>0. token_owner[t] = a /\ token_vault[t] \in Vaults
  BY TokenConstants, Zenon DEF transfer, TypeOK
<1>1. ASSUME NEW c \in Accounts PROVE owner_balance'[c] = Cardinality(TokensOf(c)')
  <2>1. /\ c = a /\ c # b => TokensOf(c)' = TokensOf(c) \ {t}
        /\ c # a /\ c = b => TokensOf(c)' = TokensOf(c) \cup {t}
        /\ (c = a <=> c = b) => TokensOf(c)' = TokensOf(c)
    BY <1>0, TokenConstants, Zenon DEF transfer, TokensOf, TypeOK
  <2>2. (c = a <=> t \in TokensOf(c)) /\ TokensOf(c) \in SUBSET TokenIds
    BY <1>0, Zenon DEF TokensOf
  <2>3. /\ c = a /\ c # b => owner_balance'[c] = Less(owner_balance[c])
        /\ c # a /\ c = b => owner_balance'[c] = owner_balance[c] + 1
        /\ c = a /\ c = b => owner_balance'[c] = Less(owner_balance[c]) + 1
        /\ c # a /\ c # b => owner_balance'[c] = owner_balance[c]
    BY Zenon DEF transfer, TypeOK
  <2>4. owner_balance[c] = Cardinality(TokensOf(c)) /\ owner_balance[c] \in Nat
    BY Zenon DEF BalancesCountTokens, TypeOK
  <2>5. /\ t \notin TokensOf(c) => Cardinality(TokensOf(c) \cup {t}) = Cardinality(TokensOf(c)) + 1
        /\ t \in TokensOf(c) => /\ Cardinality(TokensOf(c) \ {t}) = Cardinality(TokensOf(c)) - 1
                         /\ Cardinality(TokensOf(c)) > 0
    BY <2>2, OneToken, Zenon
  <2>6. CASE c = a /\ c # b
    BY <2>1, <2>2, <2>3, <2>4, <2>5, <2>6, SMTT(30) DEF Less
  <2>7. CASE c # a /\ c = b
    BY <2>1, <2>2, <2>3, <2>4, <2>5, <2>7, Zenon
  <2>8. CASE c = a /\ c = b
    BY <2>1, <2>2, <2>3, <2>4, <2>5, <2>8 DEF Less
  <2>9. CASE c # a /\ c # b
    BY <2>1, <2>3, <2>4, <2>9, Zenon
  <2> QED
    BY <2>6, <2>7, <2>8, <2>9, Zenon
<1>2. ASSUME NEW w \in Vaults, NEW c \in Accounts
      PROVE vault_balance'[<<w, c>>] = Cardinality(TokensFor(w, c)')
  <2> DEFINE here == w = token_vault[t]
  <2>1. /\ here /\ c = a /\ c # b => TokensFor(w, c)' = TokensFor(w, c) \ {t}
        /\ here /\ c # a /\ c = b => TokensFor(w, c)' = TokensFor(w, c) \cup {t}
        /\ ~here \/ (c = a <=> c = b) => TokensFor(w, c)' = TokensFor(w, c)
    BY <1>0, TokenConstants, Zenon DEF transfer, TokensFor, TokensOf, TypeOK
  <2>2. (here /\ c = a <=> t \in TokensFor(w, c)) /\ TokensFor(w, c) \in SUBSET TokenIds
    BY <1>0, Zenon DEF TokensOf, TokensFor
  <2>3. /\ here /\ c = a /\ c # b => vault_balance'[<<w, c>>] = Less(vault_balance[<<w, c>>])
        /\ here /\ c # a /\ c = b => vault_balance'[<<w, c>>] = vault_balance[<<w, c>>] + 1
        /\ here /\ c = a /\ c = b => vault_balance'[<<w, c>>] = Less(vault_balance[<<w, c>>]) + 1
        /\ ~here \/ (c # a /\ c # b) => vault_balance'[<<w, c>>] = vault_balance[<<w, c>>]
    BY <1>0, Zenon DEF transfer, TypeOK
  <2>4. /\ vault_balance[<<w, c>>] = Cardinality(TokensFor(w, c))
        /\ vault_balance[<<w, c>>] \in Nat
    BY Zenon DEF BalancesCountTokens, TypeOK
  <2>5. /\ t \notin TokensFor(w, c) =>
              Cardinality(TokensFor(w, c) \cup {t}) = Cardinality(TokensFor(w, c)) + 1
        /\ t \in TokensFor(w, c) =>
              /\ Cardinality(TokensFor(w, c) \ {t}) = Cardinality(TokensFor(w, c)) - 1
              /\ Cardinality(TokensFor(w, c)) > 0
    BY <2>2, OneToken, Zenon
  <2> HIDE DEF here
  <2>6. CASE here /\ c = a /\ c # b
    <3>1. TokensFor(w, c)' = TokensFor(w, c) \ {t}
      BY <2>1, <2>6, Zenon
    <3>2. vault_balance'[<<w, c>>] = Less(vault_balance[<<w, c>>])
      BY <2>3, <2>6, Zenon
    <3> QED
      BY <3>1, <3>2, <2>2, <2>4, <2>5, <2>6 DEF Less
  <2>7. CASE here /\ c # a /\ c = b
    BY <2>1, <2>2, <2>3, <2>4, <2>5, <2>7, ZenonT(30)
  <2>8. CASE here /\ c = a /\ c = b
    BY <2>1, <2>2, <2>3, <2>4, <2>5, <2>8, SMTT(30) DEF Less
  <2>9. CASE ~here
    <3>1. TokensFor(w, c)' = TokensFor(w, c) /\ vault_balance'[<<w, c>>] = vault_balance[<<w, c>>]
      BY <2>1, <2>3, <2>9, Zenon
    <3> QED
      BY <3>1, <2>4, Zenon
  <2>10. CASE c # a /\ c # b
    <3>1. TokensFor(w, c)' = TokensFor(w, c) /\ vault_balance'[<<w, c>>] = vault_balance[<<w, c>>]
      BY <2>1, <2>3, <2>10, Zenon
    <3> QED
      BY <3>1, <2>4, Zenon
  <2> QED
    BY <2>6, <2>7, <2>8, <2>9, <2>10, Zenon
<1> QED
  BY <1>1, <1>2, Zenon DEF BalancesCountTokens

\* balance and has_vault_token always report the tokens really held.
THEOREM Balances == Spec => [](TypeOK /\ BalancesCountTokens)
<1>1. TypeOK /\ BalancesCountTokens /\ [Next]_vars => (TypeOK /\ BalancesCountTokens)'
  <2> SUFFICES ASSUME TypeOK, BalancesCountTokens, [Next]_vars PROVE BalancesCountTokens'
    BY NextTypeOK, Zenon
  <2>1. ASSUME NEW v \in Vaults, NEW a \in Accounts, GuardiansChange(v, a)
        PROVE BalancesCountTokens'
    BY <2>1 DEF GuardiansChange, BalancesCountTokens, TokensOf, TokensFor
  <2>2. CASE UNCHANGED vars
    BY <2>2 DEF vars, BalancesCountTokens, TokensOf, TokensFor
  <2> QED
    BY <2>1, <2>2, MintBalances, BurnBalances, TransferBalances, Zenon DEF Next
<1> QED
  BY <1>1, InitBalances, PTL DEF Spec

\* A token id is never used twice.
THEOREM BurnedTokens == Spec => BurnedForGood
<1>1. TypeOK /\ [Next]_vars
        => [\A t \in 1 .. token_count : token_owner[t] = NoOne => token_owner'[t] = NoOne]_vars
  <2> SUFFICES ASSUME TypeOK, Next, NEW t \in 1 .. token_count, token_owner[t] = NoOne
               PROVE  token_owner'[t] = NoOne
    BY Zenon
  <2> USE TokenConstants DEF TypeOK, TokenIds
  <2>1. ASSUME NEW v \in Vaults, NEW a \in Accounts, GuardiansChange(v, a)
        PROVE token_owner'[t] = NoOne
    BY <2>1, Zenon DEF GuardiansChange
  <2>2. ASSUME NEW a \in Accounts, NEW b \in Accounts, NEW v \in Vaults, mint_access_token(a, v, b)
        PROVE token_owner'[t] = NoOne
    BY <2>2 DEF mint_access_token
  <2>3. ASSUME NEW a \in Accounts, NEW u \in TokenIds, burn_access_token(a, u)
        PROVE token_owner'[t] = NoOne
    BY <2>3 DEF burn_access_token
  <2>4. ASSUME NEW a \in Accounts, NEW b \in Accounts, NEW u \in TokenIds, transfer(a, b, u)
        PROVE token_owner'[t] = NoOne
    BY <2>4 DEF transfer
  <2> QED
    BY <2>1, <2>2, <2>3, <2>4, Zenon DEF Next
<1> QED
  BY <1>1, Balances, PTL DEF Spec, BurnedForGood
-----------------------------------------------------------------------------
(* SorobanRegistry, keys: what was revoked stays revoked. *)
\* The books of the registry: types and RevokedNeverReturns, which are inductive together.
KeyBooks == KeyTypeOK /\ RevokedNeverReturns

\* The second components of a set of pairs that grows by one.
LEMMA OnePairMore ==
    ASSUME NEW S, NEW x, NEW y
    PROVE  {p[2] : p \in S \cup {<<x, y>>}} = {p[2] : p \in S} \cup {y}
<1>1. <<x, y>>[2] = y
  BY Zenon
<1>2. \A z : z \in {p[2] : p \in S \cup {<<x, y>>}} <=> z \in {p[2] : p \in S} \/ z = y
  BY <1>1, Zenon
<1> QED
  BY <1>2, Zenon

\* Every entrypoint keeps the books of the registry and writes no key that is blacklisted after it
\* (register_public_key, revoke_key, register_cross_chain_identity).
LEMMA KeyStep ==
    ASSUME KeyBooks, [KeyNext]_keyVars
    PROVE  KeyBooks' /\ WritesNoRevoked
<1> USE KeyConstants DEF KeyBooks, KeyTypeOK, RevokedNeverReturns, WritesNoRevoked
<1>1. ASSUME NEW user \in Users, NEW key \in Keys, register_public_key(user, key)
      PROVE  KeyBooks' /\ WritesNoRevoked
  BY <1>1 DEF register_public_key
<1>2. ASSUME NEW user \in Users, NEW old \in Keys, NEW new \in Keys, revoke_key(user, old, new)
      PROVE  KeyBooks' /\ WritesNoRevoked
  <2>1. /\ revoked' = revoked \cup {old} /\ revoked_by' = revoked_by \cup {<<user, old>>}
        /\ pub_key' = [pub_key EXCEPT ![user] = new]
        /\ new \notin revoked' /\ old \notin revoked
        /\ UNCHANGED <<evm_to_stellar, stellar_to_evm, evm_to_pub_key>>
    BY <1>2, Zenon DEF revoke_key
  <2>2. revoked' = {p[2] : p \in revoked_by'} /\ revoked_by' \subseteq Users \X Keys
    <3>1. revoked = {p[2] : p \in revoked_by}
      BY Zenon
    <3>2. {p[2] : p \in revoked_by \cup {<<user, old>>}} = {p[2] : p \in revoked_by} \cup {old}
      BY OnePairMore, Zenon
    <3> QED
      BY <2>1, <3>1, <3>2
  <2>3. \A p \in revoked_by' : p \in Users \X Keys /\ p[2] \in revoked'
    BY <2>2, Zenon
  <2>4. \A p \in revoked_by : p[2] \in revoked /\ p[1] \in Users
    BY Zenon
  <2>5. \A p \in revoked_by' : pub_key'[p[1]] # p[2]
    BY <2>1, <2>3
  <2>6. ASSUME NEW p \in revoked_by', NEW q \in revoked_by', p[2] = q[2] PROVE p = q
    BY <2>1, <2>4, <2>6
  <2>7. KeyTypeOK'
    BY <2>1, <2>2, Zenon
  <2>8. WritesNoRevoked
    BY <2>1, Zenon
  <2> QED
    BY <2>5, <2>6, <2>7, <2>8, Zenon
<1>3. ASSUME NEW user \in Users, NEW evm \in EvmAddresses, NEW key \in Keys \cup {None},
             register_cross_chain_identity(user, evm, key)
      PROVE  KeyBooks' /\ WritesNoRevoked
  BY <1>3 DEF register_cross_chain_identity
<1>4. CASE UNCHANGED keyVars
  BY <1>4, Zenon DEF keyVars
<1> QED
  BY <1>1, <1>2, <1>3, <1>4, Zenon DEF KeyNext

\* For any users, keys and EVM addresses: the holder that revoked a key never has it again, and no
\* blacklisted key is written anywhere (RevokedKey in lib.rs).
THEOREM KeysStayRevoked == KeySpec => RevocationOfKeysHolds
<1>1. KeyInit => KeyBooks
  BY Zenon DEF KeyInit, KeyBooks, KeyTypeOK, RevokedNeverReturns
<1>2. KeyBooks /\ [KeyNext]_keyVars => KeyBooks' /\ [WritesNoRevoked]_keyVars
  BY KeyStep, Zenon
<1>3. KeyBooks => KeyTypeOK /\ RevokedNeverReturns
  BY Zenon DEF KeyBooks
<1> QED
  BY <1>1, <1>2, <1>3, PTL DEF KeySpec, BlacklistIsFinal, RevocationOfKeysHolds
-----------------------------------------------------------------------------
(* SorobanRegistry, upgrades: the code changes by a quorum of the latest calls. *)
\* Admins, once set, have a threshold, and only they are counted for a proposal.
AdminsCounted ==
    /\ admins # {} => admin_threshold > 0
    /\ \A p \in proposal : p.approved_by \subseteq admins

VotesInv == UpgradeTypeOK /\ ProposalIsLatestRun /\ AdminsCounted

\* One more approval: what Approvals returns before a call is the run of the latest calls for the
\* hash, and with the caller the run is one longer.
LEMMA OneMoreApproval ==
    ASSUME VotesInv, NEW admin \in Addresses, NEW hash \in Hashes, upgrade_contract(admin, hash)
    PROVE  LET approved == Approvals(hash) \cup {admin}
               n   == Cardinality(approved)
               run == Latest(calls', n)
           IN  /\ approved \subseteq admins /\ n \in Nat /\ n <= admin_threshold
               /\ approved = {calls'[i][1] : i \in run}
               /\ \A i \in run : calls'[i][2] = hash
<1> DEFINE A == Approvals(hash)
           approved == A \cup {admin}
<1>1. /\ calls' = Append(calls, <<admin, hash>>) /\ calls \in Seq(Addresses \X Hashes)
      /\ admin \in admins /\ admin \notin A /\ admin_threshold \in Nat /\ admin_threshold > 0
      /\ admins \subseteq Addresses
  <2>1. admin_threshold \in Nat
    <3>1. Cardinality(Addresses) \in Nat
      BY UpgradeConstants, FS_CardinalityType, Zenon
    <3> QED
      BY <3>1 DEF VotesInv, UpgradeTypeOK
  <2> QED
    BY <2>1, Zenon DEF upgrade_contract, VotesInv, UpgradeTypeOK, AdminsCounted
<1>2. /\ A \subseteq admins /\ Cardinality(A) \in Nat /\ IsFiniteSet(A)
      /\ Cardinality(A) < admin_threshold
      /\ A = {calls[i][1] : i \in Latest(calls, Cardinality(A))}
      /\ \A i \in Latest(calls, Cardinality(A)) : calls[i][2] = hash
  <2>1. ASSUME NEW p \in proposal, p.new_wasm_hash = hash
        PROVE  A = p.approved_by
    BY <2>1, Zenon DEF Approvals, VotesInv, UpgradeTypeOK
  <2>2. CASE \E p \in proposal : p.new_wasm_hash = hash
    <3> PICK p \in proposal : p.new_wasm_hash = hash
      BY <2>2, Zenon
    <3>1. A = p.approved_by
      BY <2>1
    <3>2. IsFiniteSet(A) /\ A \subseteq admins
      BY <1>1, <3>1, UpgradeConstants, FS_Subset, ZenonT(30) DEF VotesInv, AdminsCounted
    <3> QED
      BY <3>1, <3>2, FS_CardinalityType, Zenon DEF VotesInv, ProposalIsLatestRun
  <2>3. CASE ~ \E p \in proposal : p.new_wasm_hash = hash
    <3>1. A = {}
      BY <2>3, Zenon DEF Approvals
    <3>2. Cardinality(A) = 0 /\ IsFiniteSet(A)
      BY <3>1, FS_EmptySet, Zenon
    <3>3. Latest(calls, Cardinality(A)) = {}
      BY <1>1, <3>2 DEF Latest
    <3> QED
      BY <1>1, <3>1, <3>2, <3>3
  <2> QED
    BY <2>2, <2>3, Zenon
<1>3. IsFiniteSet(approved) /\ Cardinality(approved) = Cardinality(A) + 1
  BY <1>1, <1>2, FS_AddElement, Zenon
<1>4. /\ Latest(calls', Cardinality(approved)) = Latest(calls, Cardinality(A)) \cup {Len(calls) + 1}
      /\ calls'[Len(calls) + 1] = <<admin, hash>>
      /\ \A i \in Latest(calls, Cardinality(A)) : calls'[i] = calls[i]
  <2> DEFINE n == Cardinality(A)
  <2>1. n \in Nat /\ Cardinality(approved) = n + 1
    BY <1>2, <1>3, Zenon
  <2>2. Len(calls) \in Nat /\ Len(calls') = Len(calls) + 1
    BY <1>1
  <2>3. calls'[Len(calls) + 1] = <<admin, hash>> /\ \A i \in 1 .. Len(calls) : calls'[i] = calls[i]
    BY <1>1
  <2> HIDE DEF n
  <2>4. \A i : i \in Latest(calls', n + 1) <=> i \in Latest(calls, n) \/ i = Len(calls) + 1
    BY <2>1, <2>2 DEF Latest
  <2>5. Latest(calls', n + 1) = Latest(calls, n) \cup {Len(calls) + 1}
    BY <2>4, Zenon
  <2>6. \A i \in Latest(calls, n) : i \in 1 .. Len(calls)
    BY Zenon DEF Latest
  <2>7. \A i \in Latest(calls, n) : calls'[i] = calls[i]
    BY <2>3, <2>6, Zenon
  <2> QED
    BY <2>1, <2>3, <2>5, <2>7, ZenonT(30) DEF n
<1> HIDE DEF A
<1>5. approved = {calls'[i][1] : i \in Latest(calls', Cardinality(approved))}
  <2>1. {calls'[i][1] : i \in Latest(calls, Cardinality(A)) \cup {Len(calls) + 1}}
          = {calls[i][1] : i \in Latest(calls, Cardinality(A))} \cup {admin}
    BY <1>4, SMTT(30)
  <2> QED
    BY <1>2, <1>4, <2>1, ZenonT(30)
<1>6. \A i \in Latest(calls', Cardinality(approved)) : calls'[i][2] = hash
  BY <1>2, <1>4, SMTT(30)
<1>7. /\ approved \subseteq admins
      /\ Cardinality(approved) \in Nat /\ Cardinality(approved) <= admin_threshold
  BY <1>1, <1>2, <1>3
<1> QED
  BY <1>5, <1>6, <1>7, Zenon DEF A

\* Every call keeps the votes in order, and the code changes only by the latest quorum.
LEMMA VoteStep ==
    ASSUME VotesInv, [UpgradeNext]_upgradeVars
    PROVE  VotesInv' /\ UpgradedByQuorum
<1>1. ASSUME NEW list \in SUBSET Addresses, NEW t \in 0 .. Cardinality(Addresses),
             init_admins(list, t)
      PROVE  VotesInv' /\ UpgradedByQuorum
  <2>1. proposal = {}
    BY <1>1, Zenon DEF init_admins, VotesInv, AdminsCounted, ProposalIsLatestRun
  <2> QED
    BY <1>1, <2>1, UpgradeConstants, Zenon
       DEF init_admins, VotesInv, UpgradeTypeOK, ProposalIsLatestRun, AdminsCounted, UpgradedByQuorum
<1>2. ASSUME NEW a \in Addresses, NEW h \in Hashes, upgrade_contract(a, h)
      PROVE  VotesInv' /\ UpgradedByQuorum
  <2> DEFINE approved == Approvals(h) \cup {a}
             n == Cardinality(approved)
             run == Latest(calls', n)
  <2>1. /\ approved \subseteq admins /\ n \in Nat /\ n <= admin_threshold
        /\ approved = {calls'[i][1] : i \in run}
        /\ \A i \in run : calls'[i][2] = h
    BY <1>2, OneMoreApproval, Zenon
  <2>2. a \in approved
    BY Zenon
  <2>3. /\ ExecuteOrStore(h, approved)
        /\ calls' = Append(calls, <<a, h>>) /\ UNCHANGED <<admins, admin_threshold, schema_version>>
    BY <1>2, Zenon DEF upgrade_contract
  <2>4. UpgradeTypeOK /\ AdminsCounted /\ calls' \in Seq(Addresses \X Hashes)
    BY <2>3 DEF VotesInv, UpgradeTypeOK
  <2>5. admin_threshold \in Nat
    BY <2>4, UpgradeConstants, FS_CardinalityType DEF UpgradeTypeOK
  <2> HIDE DEF approved
  <2>6. CASE n >= admin_threshold /\ proposal' = {} /\ wasm' = h
    <3>1. n = admin_threshold
      BY <2>1, <2>5, <2>6
    <3>2. UpgradedByQuorum
      BY <2>1, <2>6, <3>1, Zenon DEF UpgradedByQuorum
    <3> QED
      BY <2>3, <2>4, <2>6, <3>2, ZenonT(30) DEF VotesInv, UpgradeTypeOK, ProposalIsLatestRun, AdminsCounted
  <2>7. CASE /\ n < admin_threshold /\ UNCHANGED wasm
             /\ proposal' = {[new_wasm_hash |-> h, approved_by |-> approved]}
    <3>1. UpgradeTypeOK' /\ AdminsCounted' /\ UpgradedByQuorum
      BY <2>1, <2>3, <2>4, <2>7 DEF UpgradeTypeOK, AdminsCounted, UpgradedByQuorum
    <3>2. ProposalIsLatestRun'
      <4>1. \A p \in proposal' : p.approved_by = approved /\ p.new_wasm_hash = h
        BY <2>7
      <4>2. approved # {} /\ Cardinality(approved) < admin_threshold'
        BY <2>2, <2>3, <2>7, ZenonT(30)
      <4> QED
        BY <2>1, <4>1, <4>2, Zenon DEF ProposalIsLatestRun
    <3> QED
      BY <3>1, <3>2, SMTT(30) DEF VotesInv
  <2> QED
    BY <2>3, <2>6, <2>7 DEF ExecuteOrStore
<1>3. ASSUME NEW a \in Addresses, migrate(a)
      PROVE  VotesInv' /\ UpgradedByQuorum
  BY <1>3, UpgradeConstants, SMTT(30) DEF migrate, VotesInv, UpgradeTypeOK, ProposalIsLatestRun,
     AdminsCounted, UpgradedByQuorum
<1>4. CASE UNCHANGED upgradeVars
  BY <1>4, SMTT(30) DEF upgradeVars, VotesInv, UpgradeTypeOK, ProposalIsLatestRun, AdminsCounted,
     UpgradedByQuorum
<1> QED
  BY <1>1, <1>2, <1>3, <1>4, Zenon DEF UpgradeNext

\* For any admins, threshold, hashes and number of calls the code is swapped only by the latest
\* admin_threshold calls, of distinct admins and all for the new hash (upgrade_contract).
THEOREM VotedUpgrades == UpgradeSpec => UpgradesAreVoted
<1>1. UpgradeInit => VotesInv
  <2>1. Cardinality(Addresses) \in Nat
    BY UpgradeConstants, FS_CardinalityType, Zenon
  <2> QED
    BY <2>1, UpgradeConstants
       DEF UpgradeInit, VotesInv, UpgradeTypeOK, ProposalIsLatestRun, AdminsCounted
<1>2. VotesInv /\ [UpgradeNext]_upgradeVars => VotesInv' /\ [UpgradedByQuorum]_upgradeVars
  BY VoteStep, Zenon
<1>3. VotesInv => UpgradeTypeOK /\ ProposalIsLatestRun
  BY Zenon DEF VotesInv
<1> QED
  BY <1>1, <1>2, <1>3, PTL DEF UpgradeSpec, UpgradesAreVoted, UpgradeNeedsQuorum
-----------------------------------------------------------------------------
(* EvmGovernance: a vault's council keeps its rules.  NoLoneReconfiguration is not         *)
(* inductive: a removal can leave no guardian, and then the quorum at execution is one.    *)
(* It holds because a guardian queued the proposal, when the quorum was at least two.      *)
(* RemovedStayOut needs that whoever was proposed for removal has spent its invite.        *)
ProposalBooks ==
    /\ guardians \cap invites = {}
    /\ \A s \in Subjects :
          /\ proposals[s].createdAt # 0 => s \notin invites
          /\ proposals[s].approvedBy \subseteq hasApproved[s]
          /\ proposals[s].queuedAt # 0 => Cardinality(proposals[s].approvedBy) >= 2
          /\ proposals[s].executed =>
                /\ proposals[s].createdAt # 0 /\ proposals[s].queuedAt # 0
                /\ ~proposals[s].vetoed /\ s \notin guardians

CouncilInv == CouncilTypeOK /\ ProposalBooks /\ CommitmentsCounted

\* The sets of accounts of a vault are finite.
LEMMA CouncilFinite ==
    ASSUME NEW S \in SUBSET Members
    PROVE  IsFiniteSet(S) /\ Cardinality(S) \in Nat
BY CouncilConstants, FS_Subset, FS_CardinalityType, Zenon

\* The values of proposals, and the updates the transactions make to one.
ProposalRecords ==
    [createdAt : Nat, approvedBy : SUBSET Members, executed : BOOLEAN, vetoed : BOOLEAN,
     expiresAt : Nat, queuedAt : Nat]

LEMMA ProposalUpdates ==
    ASSUME NEW p \in ProposalRecords, NEW n \in Nat, NEW A \in SUBSET Members
    PROVE  /\ [p EXCEPT !.queuedAt = n] \in ProposalRecords
           /\ [p EXCEPT !.vetoed = TRUE] \in ProposalRecords
           /\ [p EXCEPT !.executed = TRUE] \in ProposalRecords
           /\ [p EXCEPT !.approvedBy = A] \in ProposalRecords
           /\ [NoProposal EXCEPT !.createdAt = n, !.expiresAt = n + PROPOSAL_TTL] \in ProposalRecords
<1> USE DEF ProposalRecords
<1>1. [p EXCEPT !.queuedAt = n] \in ProposalRecords
  BY Zenon
<1>2. [p EXCEPT !.vetoed = TRUE] \in ProposalRecords
  BY Zenon
<1>3. [p EXCEPT !.executed = TRUE] \in ProposalRecords
  BY Zenon
<1>4. [p EXCEPT !.approvedBy = A] \in ProposalRecords
  BY Zenon
<1>5. [NoProposal EXCEPT !.createdAt = n, !.expiresAt = n + PROPOSAL_TTL] \in ProposalRecords
  <2>1. NoProposal \in ProposalRecords
    BY Zenon DEF NoProposal
  <2>2. n + PROPOSAL_TTL \in Nat
    BY CouncilConstants
  <2> QED
    BY <2>1, <2>2, ZenonT(30)
<1> QED
  BY <1>1, <1>2, <1>3, <1>4, <1>5, Zenon

\* Every transaction keeps the types.
LEMMA CouncilTypeStep == CouncilTypeOK /\ [CouncilNext]_councilVars => CouncilTypeOK'
<1> SUFFICES ASSUME CouncilTypeOK, [CouncilNext]_councilVars PROVE CouncilTypeOK'
  BY ZenonT(30)
<1> USE CouncilConstants DEF CouncilTypeOK, vaultVars, proposalVars, reshareVars
<1>1. CASE MineBlock
  BY <1>1 DEF MineBlock
<1>2. ASSUME NEW g, NEW t \in (Subjects \ Members) \cup {0}, NEW sender \in Members,
             \/ queueVaultReconfiguration(sender, g, t)
             \/ cancelVaultReconfiguration(sender, g, t)
      PROVE  CouncilTypeOK'
  <2>1. now \in Nat /\ proposals \in [Subjects -> ProposalRecords]
    BY DEF ProposalRecords
  <2>2. proposals' \in [Subjects -> ProposalRecords]
    <3>1. ASSUME NEW u \in Subjects
          PROVE  /\ [proposals[u] EXCEPT !.queuedAt = now] \in ProposalRecords
                 /\ [proposals[u] EXCEPT !.vetoed = TRUE] \in ProposalRecords
                 /\ proposals[u] \in ProposalRecords
      BY <2>1, ProposalUpdates, Zenon
    <3>2. CASE queueVaultReconfiguration(sender, g, t)
      BY <3>1, <3>2, Zenon DEF queueVaultReconfiguration
    <3>3. CASE cancelVaultReconfiguration(sender, g, t)
      BY <3>1, <3>3, Zenon DEF cancelVaultReconfiguration
    <3> QED
      BY <1>2, <3>2, <3>3, Zenon
  <2> QED
    BY <1>2, <2>2, SMTT(30) DEF queueVaultReconfiguration, cancelVaultReconfiguration, ProposalRecords
<1>3. ASSUME NEW g, NEW t \in (Subjects \ Members) \cup {0}, executeVaultReconfiguration(g, t)
      PROVE  CouncilTypeOK'
  <2>1. proposals \in [Subjects -> ProposalRecords] /\ t \in Nat
    BY DEF ProposalRecords
  <2>2. proposals' \in [Subjects -> ProposalRecords]
    <3>1. ASSUME NEW u \in Subjects
          PROVE  /\ [proposals[u] EXCEPT !.executed = TRUE] \in ProposalRecords
                 /\ proposals[u] \in ProposalRecords
      BY <2>1, ProposalUpdates, Zenon
    <3> QED
      BY <1>3, <3>1, Zenon DEF executeVaultReconfiguration
  <2>3. guardians' \subseteq Members /\ approvalThreshold' \in Nat
    BY <1>3, <2>1, SMTT(30) DEF executeVaultReconfiguration
  <2> QED
    BY <1>3, <2>2, <2>3, ZenonT(30) DEF executeVaultReconfiguration, ProposalRecords
<1>4. ASSUME NEW sender \in Members, acceptGuardianInvite(sender) PROVE CouncilTypeOK'
  BY <1>4, Zenon DEF acceptGuardianInvite
<1>5. ASSUME NEW sender \in Members, NEW s \in Subjects, propose(sender, s) \/ approve(sender, s)
      PROVE  CouncilTypeOK'
  <2>1. now \in Nat /\ proposals \in [Subjects -> ProposalRecords]
    BY SMTT(30) DEF ProposalRecords
  <2>2. proposals[s].approvedBy \cup {sender} \in SUBSET Members
    BY <2>1, Zenon DEF ProposalRecords
  <2>3. proposals' \in [Subjects -> ProposalRecords]
    <3>1. /\ [NoProposal EXCEPT !.createdAt = now, !.expiresAt = now + PROPOSAL_TTL] \in ProposalRecords
          /\ [proposals[s] EXCEPT !.approvedBy = proposals[s].approvedBy \cup {sender}] \in ProposalRecords
      BY <2>1, <2>2, ProposalUpdates, Zenon
    <3>2. CASE propose(sender, s)
      BY <2>1, <3>1, <3>2, Zenon DEF propose
    <3>3. CASE approve(sender, s)
      BY <2>1, <3>1, <3>3, Zenon DEF approve
    <3> QED
      BY <1>5, <3>2, <3>3, Zenon
  <2>4. hasApproved' \in [Subjects -> SUBSET Members]
    BY <1>5, SMTT(30) DEF propose, approve
  <2> QED
    BY <1>5, <2>3, <2>4, SMTT(30) DEF propose, approve, ProposalRecords
<1>6. ASSUME NEW sender \in Members, NEW d \in Nat, startShareRefresh(sender, d)
      PROVE  CouncilTypeOK'
  BY <1>6 DEF startShareRefresh
<1>7. ASSUME NEW sender \in Members, submitZeroShareCommitment(sender) \/ applyShareRefresh(sender)
      PROVE  CouncilTypeOK'
  <2>1. CASE submitZeroShareCommitment(sender)
    BY <2>1 DEF submitZeroShareCommitment
  <2>2. CASE applyShareRefresh(sender)
    <3>1. [session EXCEPT !.active = FALSE] \in [deadline : Nat, submittedCount : Nat, active : BOOLEAN]
      BY Zenon
    <3>2. shareEpoch + 1 \in Nat
      OBVIOUS
    <3> QED
      BY <2>2, <3>1, <3>2, Zenon DEF applyShareRefresh
  <2> QED
    BY <1>7, <2>1, <2>2, Zenon
<1>8. CASE UNCHANGED councilVars
  BY <1>8, Zenon DEF councilVars
<1> QED
  BY <1>1, <1>2, <1>3, <1>4, <1>5, <1>6, <1>7, <1>8, ZenonT(30) DEF CouncilNext, Reconfigure

\* A quorum of a vault that has a guardian is at least two accounts.
LEMMA QuorumIsTwo ==
    ASSUME CouncilTypeOK, guardians # {}, NEW s \in Subjects, Approved(s)
    PROVE  Cardinality(proposals[s].approvedBy) >= 2
<1>1. GuardianCount \in Nat /\ GuardianCount # 0
  BY CouncilFinite, FS_EmptySet, Zenon DEF CouncilTypeOK, GuardianCount
<1>2. Cardinality(proposals[s].approvedBy) \in Nat
  BY CouncilFinite, ZenonT(30) DEF CouncilTypeOK
<1> QED
  BY <1>1, <1>2 DEF Approved, requiredQuorumApprovals

\* Every transaction keeps the books of proposals, guardians and invites.
LEMMA ProposalStep ==
    ASSUME CouncilTypeOK, ProposalBooks, [CouncilNext]_councilVars
    PROVE  ProposalBooks'
<1> USE CouncilConstants DEF CouncilTypeOK, ProposalBooks, vaultVars, proposalVars, reshareVars
<1>1. CASE UNCHANGED <<guardians, invites, proposals, hasApproved>>
  BY <1>1, Zenon
<1>2. ASSUME NEW g, NEW t, NEW sender \in Members, queueVaultReconfiguration(sender, g, t)
      PROVE  ProposalBooks'
  <2>1. ASSUME NEW s \in Subjects, s \in Named(g, t)
        PROVE  Cardinality(proposals[s].approvedBy) >= 2 /\ ~proposals[s].executed
    BY <1>2, <2>1, QuorumIsTwo, Zenon DEF queueVaultReconfiguration, Named, Present, Has
  <2> QED
    BY <1>2, <2>1 DEF queueVaultReconfiguration
<1>3. ASSUME NEW g, NEW t, NEW sender \in Members, cancelVaultReconfiguration(sender, g, t)
      PROVE  ProposalBooks'
  BY <1>3 DEF cancelVaultReconfiguration, Has
<1>4. ASSUME NEW g, NEW t \in (Subjects \ Members) \cup {0}, executeVaultReconfiguration(g, t)
      PROVE  ProposalBooks'
  BY <1>4 DEF executeVaultReconfiguration, Executable, Named, Present, Has
<1>5. ASSUME NEW sender \in Members, acceptGuardianInvite(sender) PROVE ProposalBooks'
  BY <1>5 DEF acceptGuardianInvite
<1>6. ASSUME NEW sender \in Members, NEW s \in Subjects, propose(sender, s) PROVE ProposalBooks'
  BY <1>6 DEF propose, Proposable, NoProposal
<1>7. ASSUME NEW sender \in Members, NEW s \in Subjects, approve(sender, s) PROVE ProposalBooks'
  <2> DEFINE old == proposals[s].approvedBy
             new == old \cup {sender}
  <2>1. /\ proposals' = [proposals EXCEPT ![s] = [@ EXCEPT !.approvedBy = new]]
        /\ hasApproved' = [hasApproved EXCEPT ![s] = @ \cup {sender}]
        /\ UNCHANGED <<guardians, invites>>
    BY <1>7, ZenonT(30) DEF approve
  <2>2. Cardinality(old) >= 2 => Cardinality(new) >= 2
    <3>1. IsFiniteSet(new) /\ Cardinality(new) \in Nat /\ Cardinality(old) \in Nat /\ old \subseteq new
      BY CouncilFinite
    <3>2. Cardinality(old) <= Cardinality(new)
      BY <3>1, FS_Subset, Zenon
    <3> QED
      BY <3>1, <3>2, SMTT(30)
  <2>3. /\ proposals'[s] = [proposals[s] EXCEPT !.approvedBy = new]
        /\ \A u \in Subjects : u # s => proposals'[u] = proposals[u]
    BY <2>1
  <2> HIDE DEF new, old
  <2>4. /\ proposals'[s].approvedBy = new /\ proposals'[s].queuedAt = proposals[s].queuedAt
        /\ proposals'[s].createdAt = proposals[s].createdAt
        /\ proposals'[s].executed = proposals[s].executed
        /\ proposals'[s].vetoed = proposals[s].vetoed
    BY <2>3
  <2> QED
    BY <2>1, <2>2, <2>3, <2>4 DEF new, old
<1> QED
  BY <1>1, <1>2, <1>3, <1>4, <1>5, <1>6, <1>7, ZenonT(30) DEF CouncilNext, Reconfigure, MineBlock,
     startShareRefresh, submitZeroShareCommitment, applyShareRefresh, councilVars

\* Every transaction keeps the count of the commitments.
LEMMA CommitmentStep ==
    ASSUME CouncilTypeOK, CommitmentsCounted, [CouncilNext]_councilVars
    PROVE  CommitmentsCounted'
<1> DEFINE handed(e) == {p \in zeroShareSubmitted : p[1] = e}
<1>1. CASE UNCHANGED reshareVars
  BY <1>1, Zenon DEF reshareVars, CommitmentsCounted
<1>2. ASSUME NEW sender \in Members, NEW d, startShareRefresh(sender, d) PROVE CommitmentsCounted'
  <2>1. handed(shareEpoch + 1) = {}
    BY <1>2 DEF startShareRefresh, CommitmentsCounted, CouncilTypeOK
  <2>2. Cardinality(handed(shareEpoch + 1)) = 0
    BY <2>1, FS_EmptySet, Zenon
  <2> QED
    BY <1>2, <2>2, ZenonT(30) DEF startShareRefresh, CommitmentsCounted
<1>3. ASSUME NEW sender \in Members, submitZeroShareCommitment(sender) PROVE CommitmentsCounted'
  <2> DEFINE e == shareEpoch + 1
             x == <<e, sender>>
  <2>1. e \in Nat /\ x \in Nat \X Members /\ x \notin handed(e) /\ x[1] = e
    BY <1>3 DEF submitZeroShareCommitment, CouncilTypeOK
  <2>2. IsFiniteSet(handed(e))
    <3>1. IsFiniteSet({e} \X Members)
      BY CouncilConstants, FS_Singleton, FS_Product, Zenon
    <3>2. handed(e) \subseteq {e} \X Members
      BY Zenon DEF CouncilTypeOK
    <3> QED
      BY <3>1, <3>2, FS_Subset, Zenon
  <2>3. Cardinality(handed(e) \cup {x}) = Cardinality(handed(e)) + 1
    BY <2>1, <2>2, FS_AddElement, Zenon
  <2>4. {p \in zeroShareSubmitted' : p[1] = e} = handed(e) \cup {x}
    BY <1>3, <2>1, Zenon DEF submitZeroShareCommitment
  <2>5. /\ session.active /\ session' = [session EXCEPT !.submittedCount = @ + 1]
        /\ UNCHANGED shareEpoch /\ zeroShareSubmitted' = zeroShareSubmitted \cup {x}
    BY <1>3, Zenon DEF submitZeroShareCommitment
  <2>6. session'.active /\ session'.submittedCount = session.submittedCount + 1
    BY <2>5, Zenon DEF CouncilTypeOK
  <2>7. session.submittedCount = Cardinality(handed(e))
    BY <2>5, Zenon DEF CommitmentsCounted
  <2>8. \A p \in zeroShareSubmitted' : p[1] <= shareEpoch' + 1
    BY <2>1, <2>5 DEF CommitmentsCounted
  <2> QED
    BY <2>3, <2>4, <2>5, <2>6, <2>7, <2>8, Zenon DEF CommitmentsCounted
<1>4. ASSUME NEW sender \in Members, applyShareRefresh(sender) PROVE CommitmentsCounted'
  BY <1>4 DEF applyShareRefresh, CommitmentsCounted, CouncilTypeOK
<1> QED
  BY <1>1, <1>2, <1>3, <1>4 DEF CouncilNext, Reconfigure, MineBlock, queueVaultReconfiguration, Zenon,
     cancelVaultReconfiguration, executeVaultReconfiguration, acceptGuardianInvite, propose,
     approve, councilVars

\* The threshold moves in executeVaultReconfiguration alone, which compares it with the guardians
\* that are left.
LEMMA ThresholdStep ==
    ASSUME CouncilTypeOK, [CouncilNext]_councilVars
    PROVE  ThresholdFits
<1>1. ASSUME NEW g, NEW t \in (Subjects \ Members) \cup {0}, executeVaultReconfiguration(g, t)
      PROVE  ThresholdFits
  <2>1. t \in Nat /\ (t \in Named(g, t) => t # 0)
    BY CouncilConstants DEF Named, Present, Has
  <2>2. Cardinality(guardians') \in Nat
    BY <1>1, CouncilFinite, Zenon DEF executeVaultReconfiguration, CouncilTypeOK
  <2> QED
    BY <1>1, <2>1, <2>2 DEF executeVaultReconfiguration, ThresholdFits
<1>2. CASE UNCHANGED approvalThreshold
  BY <1>2, Zenon DEF ThresholdFits
<1> QED
  BY <1>1, <1>2, ZenonT(30) DEF CouncilNext, Reconfigure, MineBlock, queueVaultReconfiguration,
     cancelVaultReconfiguration, acceptGuardianInvite, propose, approve, startShareRefresh,
     submitZeroShareCommitment, applyShareRefresh, councilVars, vaultVars

\* For any vault, any number of proposals, thresholds and refreshes: no reconfiguration without two
\* approvals, none after a veto, no way back for a removed guardian, and a threshold that is set
\* fits the guardians (SpooVaultAdminLogic.sol).
THEOREM CouncilRules == CouncilSpec => []CouncilKeepsItsRules /\ ThresholdFitsGuardians
<1>1. CouncilInit => CouncilInv
  <2> SUFFICES ASSUME CouncilInit PROVE CouncilInv
    BY Zenon
  <2>1. CouncilTypeOK
    BY CouncilConstants DEF CouncilInit, CouncilTypeOK, NoProposal, NoSession
  <2>2. ProposalBooks /\ CommitmentsCounted
    BY Zenon DEF CouncilInit, ProposalBooks, CommitmentsCounted, NoProposal, NoSession
  <2> QED
    BY <2>1, <2>2, Zenon DEF CouncilInv
<1>2. CouncilInv /\ [CouncilNext]_councilVars => CouncilInv' /\ [ThresholdFits]_councilVars
  BY CouncilTypeStep, ProposalStep, CommitmentStep, ThresholdStep, Zenon DEF CouncilInv
<1>3. CouncilInv => CouncilKeepsItsRules
  BY Zenon DEF CouncilInv, CouncilKeepsItsRules, ProposalBooks, NoLoneReconfiguration, VetoHolds,
     RemovedStayOut
<1> QED
  BY <1>1, <1>2, <1>3, PTL DEF CouncilSpec, ThresholdFitsGuardians
=============================================================================
