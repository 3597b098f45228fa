--------------------------- MODULE EvmAccessProofs ---------------------------
(***************************************************************************)
(* The passes and requests of an EVM vault: balances count passes, a       *)
(* guardian counts once in a request, and access that was lost stays lost. *)
(* The last is a property of steps; it needs that whoever holds a pass has *)
(* a version to bump, and that no grant is ahead of its holder's version.  *)
(***************************************************************************)
EXTENDS EvmAccess, FiniteSetTheorems, TLAPS
-----------------------------------------------------------------------------
Held(o, u) == {t \in DOMAIN o : o[t] = u}
Existing(o) == {t \in DOMAIN o : o[t] # ZeroAddress}

PassBackbone ==
    /\ Len(accessRequests) <= MAX_REQUESTS
    /\ \A r \in DOMAIN accessRequests : \A i \in DOMAIN accessRequests[r].approvedBy :
          <<r, accessRequests[r].approvedBy[i]>> \in hasApprovedRequest
    /\ \A u \in EvmAccounts : balances[u] > 0 => accessVersion[u] >= 1
    /\ \A d \in Docs, u \in EvmAccounts : grants[<<d, u>>] <= currentAccessVersion(u)

PassInv == PassTypeOK /\ BalancesCountPasses /\ EachGuardianOnce /\ PassBackbone

\* The tokens counted are finitely many.
LEMMA PassesFinite ==
    ASSUME NEW S, NEW o \in Seq(S), NEW T \in SUBSET (DOMAIN o)
    PROVE  IsFiniteSet(T) /\ Cardinality(T) \in Nat
<1>1. IsFiniteSet(1 .. Len(o))
  BY FS_Interval
<1>2. DOMAIN o = 1 .. Len(o)
  OBVIOUS
<1> QED
  BY <1>1, <1>2, FS_Subset, FS_CardinalityType, Zenon

\* A pass is minted.
LEMMA CountsAppend ==
    ASSUME NEW S, NEW o \in Seq(S), NEW v \in S, NEW u
    PROVE  /\ Cardinality(Held(Append(o, v), u)) = Cardinality(Held(o, u)) + (IF v = u THEN 1 ELSE 0)
           /\ v # ZeroAddress => Cardinality(Existing(Append(o, v))) = Cardinality(Existing(o)) + 1
<1> DEFINE n == Len(o) + 1
           p == Append(o, v)
<1>1. /\ n \in Nat /\ DOMAIN o = 1 .. Len(o) /\ DOMAIN p = 1 .. n /\ p[n] = v
      /\ \A i \in 1 .. Len(o) : p[i] = o[i]
  OBVIOUS
<1>2. n \notin Held(o, u) /\ n \notin Existing(o)
  BY <1>1 DEF Held, Existing
<1>3. Held(o, u) \in SUBSET (DOMAIN o) /\ Existing(o) \in SUBSET (DOMAIN o)
  BY Zenon DEF Held, Existing
<1>4. /\ IsFiniteSet(Held(o, u)) /\ IsFiniteSet(Existing(o))
      /\ Cardinality(Held(o, u)) \in Nat
  BY <1>3, PassesFinite, Zenon
<1> HIDE DEF n, p
<1>5. Held(p, u) = IF v = u THEN Held(o, u) \cup {n} ELSE Held(o, u)
  BY <1>1 DEF Held, n
<1>6. v # ZeroAddress => Existing(p) = Existing(o) \cup {n}
  BY <1>1 DEF Existing, n
<1>7. /\ Cardinality(Held(o, u) \cup {n}) = Cardinality(Held(o, u)) + 1
      /\ Cardinality(Existing(o) \cup {n}) = Cardinality(Existing(o)) + 1
  BY <1>2, <1>4, FS_AddElement, Zenon
<1>8. Cardinality(Held(p, u)) = Cardinality(Held(o, u)) + (IF v = u THEN 1 ELSE 0)
  BY <1>4, <1>5, <1>7
<1>9. v # ZeroAddress => Cardinality(Existing(p)) = Cardinality(Existing(o)) + 1
  BY <1>6, <1>7, Zenon
<1> QED
  BY <1>8, <1>9, Zenon DEF p

\* One pass more or less in a set of passes.
LEMMA OnePassMoves ==
    ASSUME NEW H, IsFiniteSet(H), NEW t
    PROVE  /\ Cardinality(H) \in Nat
           /\ t \in H => /\ Cardinality(H) > 0
                        /\ \A K : K = H \ {t} => Cardinality(K) = Cardinality(H) - 1
           /\ t \notin H => \A K : K = H \cup {t} => Cardinality(K) = Cardinality(H) + 1
<1>1. Cardinality(H) \in Nat
  BY FS_CardinalityType, Zenon
<1>2. ASSUME t \in H
      PROVE  /\ Cardinality(H) > 0
             /\ \A K : K = H \ {t} => Cardinality(K) = Cardinality(H) - 1
  <2>1. \A K : K = H \ {t} => Cardinality(K) = Cardinality(H) - 1
    BY <1>2, FS_RemoveElement, Zenon
  <2>2. Cardinality(H) # 0
    BY <1>2, FS_EmptySet, Zenon
  <2> QED
    BY <1>1, <2>1, <2>2
<1>3. ASSUME t \notin H
      PROVE  \A K : K = H \cup {t} => Cardinality(K) = Cardinality(H) + 1
  BY <1>3, FS_AddElement, Zenon
<1> QED
  BY <1>1, <1>2, <1>3, Zenon

\* What _update does to balances and versions.
LEMMA UpdateFacts ==
    ASSUME PassTypeOK, NEW from \in EvmAccounts \cup {ZeroAddress},
           NEW to \in EvmAccounts \cup {ZeroAddress}, update(from, to),
           from # ZeroAddress => balances[from] > 0
    PROVE  /\ balances' \in [EvmAccounts -> Nat] /\ accessVersion' \in [EvmAccounts -> Nat]
           /\ \A u \in EvmAccounts :
                 /\ balances'[u] = balances[u] - (IF from = u THEN 1 ELSE 0) + (IF to = u THEN 1 ELSE 0)
                 /\ accessVersion'[u] >= accessVersion[u]
                 /\ u = to => accessVersion'[u] >= 1
                 /\ u = from /\ balances'[u] = 0 => accessVersion'[u] > accessVersion[u]
<1> DEFINE less == IF from # ZeroAddress /\ balances[from] > 0 THEN [balances EXCEPT ![from] = @ - 1]
                   ELSE balances
           more == IF to # ZeroAddress THEN [less EXCEPT ![to] = @ + 1] ELSE less
<1>1. balances \in [EvmAccounts -> Nat] /\ accessVersion \in [EvmAccounts -> Nat]
  BY Zenon DEF PassTypeOK
<1>2. /\ less \in [EvmAccounts -> Nat]
      /\ \A u \in EvmAccounts : less[u] = balances[u] - (IF from = u THEN 1 ELSE 0)
  BY <1>1, EvmAccessConstants
<1> HIDE DEF less
<1>3. /\ more \in [EvmAccounts -> Nat]
      /\ \A u \in EvmAccounts : more[u] = less[u] + (IF to = u THEN 1 ELSE 0)
  BY <1>2, EvmAccessConstants
<1>4. balances' = more /\ accessVersion' = [u \in EvmAccounts |->
         LET held == IF u = to /\ accessVersion[u] = 0 THEN 1 ELSE accessVersion[u]
         IN  IF u = from /\ more[u] = 0 THEN held + 1 ELSE held]
  BY Zenon DEF update, less
<1> HIDE DEF more
<1>5. /\ accessVersion' \in [EvmAccounts -> Nat]
      /\ \A u \in EvmAccounts :
            /\ accessVersion'[u] >= accessVersion[u]
            /\ u = to => accessVersion'[u] >= 1
            /\ u = from /\ more[u] = 0 => accessVersion'[u] > accessVersion[u]
  BY <1>1, <1>4
<1>6. \A u \in EvmAccounts :
         more[u] = balances[u] - (IF from = u THEN 1 ELSE 0) + (IF to = u THEN 1 ELSE 0)
  BY <1>1, <1>2, <1>3, Zenon
<1> QED
  BY <1>3, <1>4, <1>5, <1>6, Zenon

\* The three ways passes move, as one: a token step changes owners and balances alike, and leaves
\* everything but the versions alone.
TokenMove ==
    \E from \in EvmAccounts \cup {ZeroAddress}, to \in EvmAccounts \cup {ZeroAddress} :
       /\ update(from, to)
       /\ from # ZeroAddress => balances[from] > 0
       /\ owners' \in Seq(EvmAccounts \cup {ZeroAddress})
       /\ \A u \in EvmAccounts : Cardinality(Held(owners', u)) =
             Cardinality(Held(owners, u)) - (IF from = u THEN 1 ELSE 0) + (IF to = u THEN 1 ELSE 0)
       /\ Cardinality(Existing(owners')) = Cardinality(Existing(owners))
             + (IF from = ZeroAddress THEN 1 ELSE 0) - (IF to = ZeroAddress THEN 1 ELSE 0)
       /\ UNCHANGED <<envVars, docs, grants, requestVars, bridgeVars>>

LEMMA TokenSteps ==
    ASSUME PassTypeOK, BalancesCountPasses
    PROVE  /\ \A sender \in EvmAccounts, to \in Holders : mintAccessToken(sender, to) => TokenMove
           /\ \A t \in DOMAIN owners : TokenStep(t) => TokenMove
<1> DEFINE S == EvmAccounts \cup {ZeroAddress}
<1>1. owners \in Seq(S) /\ balances \in [EvmAccounts -> Nat]
  BY Zenon DEF PassTypeOK
<1>2. Holders \subseteq EvmAccounts /\ ZeroAddress \notin EvmAccounts
  BY EvmAccessConstants, Zenon
<1>3. ASSUME NEW sender \in EvmAccounts, NEW to \in Holders, mintAccessToken(sender, to)
      PROVE  TokenMove
  <2> USE DEF TokenMove
  <2>1. owners' = Append(owners, to) /\ to \in S /\ to # ZeroAddress
    BY <1>2, <1>3, Zenon DEF mintAccessToken
  <2>2. ASSUME NEW u \in EvmAccounts
        PROVE  Cardinality(Held(owners', u)) =
                 Cardinality(Held(owners, u)) - (IF ZeroAddress = u THEN 1 ELSE 0) + (IF to = u THEN 1 ELSE 0)
    <3>1. Cardinality(Held(owners', u)) = Cardinality(Held(owners, u)) + (IF to = u THEN 1 ELSE 0)
      BY <1>1, <2>1, CountsAppend
    <3>2. Cardinality(Held(owners, u)) \in Nat
      BY <1>1, Zenon DEF BalancesCountPasses, Held
    <3> QED
      BY <1>2, <3>1, <3>2
  <2>3. Cardinality(Existing(owners')) = Cardinality(Existing(owners)) + 1
    BY <1>1, <2>1, CountsAppend
  <2>4. Cardinality(Existing(owners)) \in Nat
    BY <1>1, PassesFinite, Zenon DEF Existing
  <2>5. owners' \in Seq(S)
    BY <1>1, <2>1
  <2>6. Cardinality(Existing(owners')) = Cardinality(Existing(owners))
             + (IF ZeroAddress = ZeroAddress THEN 1 ELSE 0) - (IF to = ZeroAddress THEN 1 ELSE 0)
    BY <2>1, <2>3, <2>4
  <2> QED
    <3>1. update(ZeroAddress, to) /\ UNCHANGED <<envVars, docs, grants, requestVars, bridgeVars>>
      BY <1>3, Zenon DEF mintAccessToken
    <3> to \in S
      BY <2>1, Zenon
    <3> WITNESS ZeroAddress \in S, to \in S
    <3> QED
      BY <2>1, <2>2, <2>5, <2>6, <3>1, Zenon
<1>4. ASSUME NEW t \in DOMAIN owners, NEW to \in S, owners[t] # ZeroAddress,
             owners' = [owners EXCEPT ![t] = to], update(owners[t], to),
             UNCHANGED <<envVars, docs, grants, requestVars, bridgeVars>>
      PROVE  TokenMove
  <2> DEFINE from == owners[t]
  <2>1. from \in EvmAccounts /\ from \in S
    BY <1>1, <1>4
  <2>2. /\ \A u : Cardinality(Held(owners', u)) =
                    Cardinality(Held(owners, u)) - (IF from = u THEN 1 ELSE 0) + (IF to = u THEN 1 ELSE 0)
        /\ Cardinality(Held(owners, from)) > 0
        /\ Cardinality(Existing(owners')) = Cardinality(Existing(owners)) - (IF to = ZeroAddress THEN 1 ELSE 0)
    <3>1. /\ DOMAIN owners' = DOMAIN owners /\ owners'[t] = to
          /\ \A i \in DOMAIN owners : i # t => owners'[i] = owners[i]
      BY <1>1, <1>4, Zenon
    <3> HIDE DEF S
    <3>2. ASSUME NEW u
          PROVE  /\ Cardinality(Held(owners', u)) = Cardinality(Held(owners, u))
                       - (IF owners[t] = u THEN 1 ELSE 0) + (IF to = u THEN 1 ELSE 0)
                 /\ owners[t] = u => Cardinality(Held(owners, u)) > 0
      <4>1. /\ owners[t] = u /\ to = u => Held(owners', u) = Held(owners, u)
            /\ owners[t] = u /\ to # u => Held(owners', u) = Held(owners, u) \ {t}
            /\ owners[t] # u /\ to = u => Held(owners', u) = Held(owners, u) \cup {t}
            /\ owners[t] # u /\ to # u => Held(owners', u) = Held(owners, u)
        BY <3>1, Zenon DEF Held
      <4>2. t \in Held(owners, u) <=> owners[t] = u
        BY <1>4, Zenon DEF Held
      <4>3. IsFiniteSet(Held(owners, u))
        BY <1>1, PassesFinite, Zenon DEF Held
      <4>4. /\ Cardinality(Held(owners, u)) \in Nat
            /\ owners[t] = u => Cardinality(Held(owners, u)) > 0
            /\ owners[t] = u /\ to # u => Cardinality(Held(owners', u)) = Cardinality(Held(owners, u)) - 1
            /\ owners[t] # u /\ to = u => Cardinality(Held(owners', u)) = Cardinality(Held(owners, u)) + 1
        BY <4>1, <4>2, <4>3, OnePassMoves, Zenon
      <4> QED
        BY <4>1, <4>4
    <3>3. Cardinality(Existing(owners')) =
             Cardinality(Existing(owners)) - (IF to = ZeroAddress THEN 1 ELSE 0)
      <4>1. /\ to = ZeroAddress => Existing(owners') = Existing(owners) \ {t}
            /\ to # ZeroAddress => Existing(owners') = Existing(owners)
        BY <1>4, <3>1, Zenon DEF Existing
      <4>2. t \in Existing(owners) /\ IsFiniteSet(Existing(owners))
        BY <1>1, <1>4, PassesFinite, Zenon DEF Existing
      <4>3. /\ Cardinality(Existing(owners)) \in Nat
            /\ to = ZeroAddress => Cardinality(Existing(owners')) = Cardinality(Existing(owners)) - 1
        BY <4>1, <4>2, OnePassMoves, Zenon
      <4> QED
        BY <4>1, <4>3
    <3> QED
      BY <3>2, <3>3, Zenon
  <2>3. balances[from] > 0
    BY <2>1, <2>2, Zenon DEF BalancesCountPasses, Held
  <2>4. owners' \in Seq(S)
    BY <1>1, <1>4
  <2>5. Cardinality(Existing(owners)) \in Nat
    BY <1>1, PassesFinite, Zenon DEF Existing
  <2>6. Cardinality(Existing(owners')) = Cardinality(Existing(owners))
             + (IF from = ZeroAddress THEN 1 ELSE 0) - (IF to = ZeroAddress THEN 1 ELSE 0)
    BY <1>2, <2>1, <2>2, <2>5
  <2> QED
    <3> USE DEF TokenMove
    <3> HIDE DEF from
    <3>1. update(from, to)
      BY <1>4, Zenon DEF from
    <3> from \in S
      BY <2>1, Zenon
    <3> WITNESS from \in S, to \in S
    <3> QED
      BY <1>4, <2>2, <2>3, <2>4, <2>6, <3>1, Zenon
<1>5. ASSUME NEW t \in DOMAIN owners, TokenStep(t) PROVE TokenMove
  <2>1. ASSUME NEW to \in Holders, transferFrom(t, to) PROVE TokenMove
    BY <1>2, <1>4, <2>1, Zenon DEF transferFrom
  <2>2. CASE burnAccessToken(t)
    BY <1>4, <2>2, Zenon DEF burnAccessToken
  <2> QED
    BY <1>5, <2>1, <2>2, Zenon DEF TokenStep
<1> QED
  BY <1>3, <1>5, Zenon

\* Where versions only grow and grants are kept, what was stale stays stale.
LEMMA StaleStays ==
    ASSUME PassInv, grants' = grants, docs' = docs, accessVersion' \in [EvmAccounts -> Nat],
           \A u \in EvmAccounts : accessVersion'[u] >= accessVersion[u],
           \A u \in EvmAccounts : ownsVaultToken(u) /\ ~ownsVaultToken(u)'
                                     => accessVersion'[u] > accessVersion[u]
    PROVE  /\ GrantsStayLost
           /\ \A d \in Docs, u \in EvmAccounts : grants'[<<d, u>>] <= currentAccessVersion(u)'
<1>1. /\ accessVersion \in [EvmAccounts -> Nat] /\ grants \in [Docs \X EvmAccounts -> Nat]
      /\ balances \in [EvmAccounts -> Nat] /\ docs \subseteq Docs
  BY Zenon DEF PassInv, PassTypeOK
<1>2. ASSUME NEW d \in Docs, NEW u \in EvmAccounts
      PROVE  /\ currentAccessVersion(u) \in Nat /\ currentAccessVersion(u)' \in Nat
             /\ currentAccessVersion(u)' >= currentAccessVersion(u)
             /\ ownsVaultToken(u) /\ ~ownsVaultToken(u)'
                   => currentAccessVersion(u)' > currentAccessVersion(u)
             /\ grants'[<<d, u>>] = grants[<<d, u>>] /\ grants[<<d, u>>] \in Nat
             /\ grants[<<d, u>>] <= currentAccessVersion(u)
             /\ grants'[<<d, u>>] <= currentAccessVersion(u)'
  <2>1. grants[<<d, u>>] \in Nat /\ grants[<<d, u>>] <= currentAccessVersion(u)
    BY <1>1, Zenon DEF PassInv, PassBackbone
  <2>2. balances[u] > 0 => accessVersion[u] >= 1
    BY Zenon DEF PassInv, PassBackbone
  <2>3. /\ accessVersion[u] \in Nat /\ accessVersion'[u] \in Nat /\ balances[u] \in Nat
        /\ accessVersion'[u] >= accessVersion[u]
        /\ ownsVaultToken(u) /\ ~ownsVaultToken(u)' => accessVersion'[u] > accessVersion[u]
    BY <1>1, Zenon
  <2>4. /\ currentAccessVersion(u) = IF accessVersion[u] = 0 THEN 1 ELSE accessVersion[u]
        /\ currentAccessVersion(u)' = IF accessVersion'[u] = 0 THEN 1 ELSE accessVersion'[u]
    BY Zenon DEF currentAccessVersion
  <2>5. ownsVaultToken(u) => accessVersion[u] >= 1
    BY <2>2, Zenon DEF ownsVaultToken
  <2> QED
    BY <2>1, <2>3, <2>4, <2>5
<1>3. ASSUME NEW d \in docs, NEW u \in EvmAccounts,
             Stale(d, u) \/ (ownsVaultToken(u) /\ ~ownsVaultToken(u)')
      PROVE  Stale(d, u)' /\ (u \in vaultGuardians' \/ ~hasActiveAccess(d, u)')
  <2>1. grants'[<<d, u>>] < currentAccessVersion(u)' /\ grants'[<<d, u>>] \in Nat
        /\ currentAccessVersion(u)' \in Nat
    BY <1>1, <1>2, <1>3 DEF Stale
  <2> QED
    BY <2>1 DEF Stale, hasActiveAccess
<1>4. GrantsStayLost
  BY <1>3, Zenon DEF GrantsStayLost
<1>5. \A d \in Docs, u \in EvmAccounts : grants'[<<d, u>>] <= currentAccessVersion(u)'
  BY <1>2, Zenon
<1> QED
  BY <1>4, <1>5, Zenon

\* Passes are minted, moved and burned.
LEMMA TokenStepInv ==
    ASSUME PassInv, TokenMove
    PROVE  PassInv' /\ GrantsStayLost
<1> USE DEF PassInv
<1>1. PICK from \in EvmAccounts \cup {ZeroAddress}, to \in EvmAccounts \cup {ZeroAddress} :
       /\ update(from, to)
       /\ from # ZeroAddress => balances[from] > 0
       /\ owners' \in Seq(EvmAccounts \cup {ZeroAddress})
       /\ \A u \in EvmAccounts : Cardinality(Held(owners', u)) =
             Cardinality(Held(owners, u)) - (IF from = u THEN 1 ELSE 0) + (IF to = u THEN 1 ELSE 0)
       /\ Cardinality(Existing(owners')) = Cardinality(Existing(owners))
             + (IF from = ZeroAddress THEN 1 ELSE 0) - (IF to = ZeroAddress THEN 1 ELSE 0)
       /\ UNCHANGED <<envVars, docs, grants, requestVars, bridgeVars>>
  BY Zenon DEF TokenMove
<1>2. /\ balances' \in [EvmAccounts -> Nat] /\ accessVersion' \in [EvmAccounts -> Nat]
      /\ \A u \in EvmAccounts :
            /\ balances'[u] = balances[u] - (IF from = u THEN 1 ELSE 0) + (IF to = u THEN 1 ELSE 0)
            /\ accessVersion'[u] >= accessVersion[u]
            /\ u = to => accessVersion'[u] >= 1
            /\ u = from /\ balances'[u] = 0 => accessVersion'[u] > accessVersion[u]
  BY <1>1, UpdateFacts, Zenon
<1>3. balances \in [EvmAccounts -> Nat] /\ accessVersion \in [EvmAccounts -> Nat]
  BY Zenon DEF PassTypeOK
<1>4. activeTokenSupply' = Cardinality(Existing(owners'))
  <2>1. activeTokenSupply = Cardinality(Existing(owners))
    BY Zenon DEF PassTypeOK, Existing
  <2> QED
    BY <1>1, <2>1, Zenon DEF update
<1>5. PassTypeOK'
  BY <1>1, <1>2, <1>4, Zenon DEF PassTypeOK, Existing, envVars, requestVars, bridgeVars
<1>6. BalancesCountPasses'
  <2>1. \A u \in EvmAccounts : balances[u] = Cardinality(Held(owners, u))
    BY Zenon DEF BalancesCountPasses, Held
  <2>2. \A u \in EvmAccounts : balances'[u] = Cardinality(Held(owners', u))
    BY <1>1, <1>2, <2>1, Zenon
  <2> QED
    BY <2>2, Zenon DEF BalancesCountPasses, Held
<1>7. EachGuardianOnce'
  BY <1>1 DEF EachGuardianOnce, requestVars
<1>8. \A u \in EvmAccounts : ownsVaultToken(u) /\ ~ownsVaultToken(u)'
                                => accessVersion'[u] > accessVersion[u]
  BY <1>2, <1>3 DEF ownsVaultToken
<1>9. GrantsStayLost /\ \A d \in Docs, u \in EvmAccounts : grants'[<<d, u>>] <= currentAccessVersion(u)'
  BY <1>1, <1>2, <1>8, StaleStays, Zenon
<1>10. \A u \in EvmAccounts : balances'[u] > 0 => accessVersion'[u] >= 1
  BY <1>2, <1>3, SMTT(30) DEF PassBackbone
<1>11. PassBackbone'
  BY <1>1, <1>9, <1>10, Zenon DEF PassBackbone, requestVars
<1> QED
  BY <1>5, <1>6, <1>7, <1>9, <1>11, Zenon

\* A step that leaves grants, versions, passes and requests alone.
LEMMA QuietStep ==
    ASSUME PassInv, PassTypeOK', docs' = docs,
           UNCHANGED <<tokenVars, accessVersion, grants, accessRequests, hasApprovedRequest>>
    PROVE  PassInv' /\ GrantsStayLost
<1> USE DEF PassInv
<1>1. BalancesCountPasses' /\ EachGuardianOnce'
  <2>1. owners' = owners /\ balances' = balances /\ accessRequests' = accessRequests
    BY Zenon DEF tokenVars
  <2>2. BalancesCountPasses'
    BY <2>1, Zenon DEF BalancesCountPasses
  <2>3. EachGuardianOnce'
    BY <2>1, Zenon DEF EachGuardianOnce
  <2> QED
    BY <2>2, <2>3, Zenon
<1>2. PassBackbone'
  BY Zenon DEF PassBackbone, currentAccessVersion, tokenVars
<1>3. accessVersion' \in [EvmAccounts -> Nat] /\ \A u \in EvmAccounts : accessVersion'[u] >= accessVersion[u]
  BY DEF PassTypeOK
<1>4. GrantsStayLost
  <2>1. \A u \in EvmAccounts : ownsVaultToken(u)' <=> ownsVaultToken(u)
    BY Zenon DEF ownsVaultToken, tokenVars
  <2> QED
    BY <1>3, <2>1, StaleStays, Zenon
<1> QED
  BY <1>1, <1>2, <1>4, Zenon

Names(s) == {s[i] : i \in DOMAIN s}

\* One approver more, who was not among them.
LEMMA OneApproverMore ==
    ASSUME NEW s \in Seq(EvmAccounts), NEW g \in EvmAccounts, g \notin Names(s),
           NEW q, q = Append(s, g)
    PROVE  /\ Cardinality(Names(q)) = Cardinality(Names(s)) + 1 /\ Len(q) = Len(s) + 1
           /\ q \in Seq(EvmAccounts) /\ Names(q) = Names(s) \cup {g}
<1>1. /\ DOMAIN s = 1 .. Len(s) /\ DOMAIN q = 1 .. Len(s) + 1 /\ Len(q) = Len(s) + 1
      /\ q \in Seq(EvmAccounts) /\ q[Len(s) + 1] = g /\ \A i \in DOMAIN s : q[i] = s[i]
      /\ Len(s) \in Nat
  OBVIOUS
<1>2. Names(q) = Names(s) \cup {g}
  <2>1. ASSUME NEW i \in DOMAIN q PROVE q[i] \in Names(s) \cup {g}
    BY <1>1 DEF Names
  <2>2. ASSUME NEW i \in DOMAIN s PROVE s[i] \in Names(q)
    BY <1>1 DEF Names
  <2>3. g \in Names(q)
    BY <1>1 DEF Names
  <2> QED
    BY <2>1, <2>2, <2>3, SMTT(30) DEF Names
<1>3. IsFiniteSet(Names(s))
  <2>1. Names(s) \subseteq EvmAccounts
    BY DEF Names
  <2> QED
    BY <2>1, EvmAccessConstants, FS_Subset, Zenon
<1>4. Cardinality(Names(q)) = Cardinality(Names(s)) + 1
  BY <1>2, <1>3, FS_AddElement, Zenon
<1> QED
  BY <1>1, <1>2, <1>4, Zenon

\* An approval settles at most its own request; approvers and marks grow together.
LEMMA SettleStep ==
    ASSUME PassInv, NEW r \in DOMAIN accessRequests, NEW by \in Seq(EvmAccounts), NEW enough \in BOOLEAN,
           Pending(r), Settle(r, by, enough),
           UNCHANGED <<envVars, docs, tokenVars, accessVersion, blsKeys, revokedNonces, bridgeVars>>,
           hasApprovedRequest \subseteq hasApprovedRequest',
           hasApprovedRequest' \subseteq (1 .. MAX_REQUESTS) \X EvmAccounts,
           Cardinality(Names(by)) = Len(by), accessRequests[r].requester \notin Names(by),
           \A a \in Names(by) : <<r, a>> \in hasApprovedRequest'
    PROVE  PassInv' /\ GrantsStayLost
<1> USE DEF PassInv
<1> DEFINE req == accessRequests[r]
           new == accessRequests'[r]
           pair == <<req.documentId, req.requester>>
           R == AccessRequest
           status == IF ~enough THEN "PENDING"
                     ELSE IF ownsVaultToken(req.requester) THEN "APPROVED" ELSE "REJECTED"
<1>1. accessRequests \in Seq(R) /\ req \in R /\ req.documentId \in Docs /\ req.requester \in EvmAccounts
  <2>1. accessRequests \in Seq(R)
    BY Zenon DEF PassTypeOK
  <2>2. req \in R
    BY <2>1
  <2> QED
    BY <2>1, <2>2, Zenon DEF AccessRequest
<1>2. /\ new \in R /\ new.approvedBy = by /\ new.requester = req.requester
      /\ new.documentId = req.documentId /\ new.status = status
      /\ accessRequests' \in Seq(R) /\ Len(accessRequests') = Len(accessRequests)
      /\ DOMAIN accessRequests' = DOMAIN accessRequests
      /\ \A q \in DOMAIN accessRequests : q # r => accessRequests'[q] = accessRequests[q]
  <2> DEFINE val == [req EXCEPT !.approvedBy = by, !.status = status]
  <2>1. /\ val \in R /\ val.approvedBy = by /\ val.requester = req.requester
        /\ val.documentId = req.documentId /\ val.status = status
    BY <1>1, Zenon DEF AccessRequest
  <2>2. accessRequests' = [accessRequests EXCEPT ![r] = val]
    BY Zenon DEF Settle
  <2> HIDE DEF val, R
  <2> QED
    BY <1>1, <2>1, <2>2
<1>3. \/ grants' = grants
      \/ /\ new.status = "APPROVED"
         /\ grants' = [grants EXCEPT ![pair] = currentAccessVersion(req.requester)]
  BY <1>1, <1>2, Zenon DEF Settle, grantAccess
<1>0. new.status = "APPROVED" => ownsVaultToken(req.requester)
  BY <1>2, Zenon
<1>4. /\ grants \in [Docs \X EvmAccounts -> Nat] /\ accessVersion \in [EvmAccounts -> Nat]
      /\ accessVersion' = accessVersion /\ balances' = balances /\ docs' = docs /\ docs \subseteq Docs
  BY Zenon DEF PassTypeOK, tokenVars
<1>5. \A u \in EvmAccounts : /\ currentAccessVersion(u) \in Nat /\ currentAccessVersion(u)' = currentAccessVersion(u)
                             /\ ownsVaultToken(u)' <=> ownsVaultToken(u)
  BY <1>4, Zenon DEF currentAccessVersion, ownsVaultToken
<1>6. /\ grants' \in [Docs \X EvmAccounts -> Nat]
      /\ \A d \in Docs, u \in EvmAccounts :
            \/ grants'[<<d, u>>] = grants[<<d, u>>]
            \/ /\ <<d, u>> = pair /\ new.status = "APPROVED"
               /\ grants'[<<d, u>>] = currentAccessVersion(u)
  <2>1. pair \in Docs \X EvmAccounts /\ currentAccessVersion(req.requester) \in Nat /\ pair = <<req.documentId, req.requester>>
    BY <1>1, <1>5, Zenon
  <2> HIDE DEF req, new, pair, R, status
  <2>2. CASE grants' = grants
    BY <2>2, <1>4, Zenon
  <2>3. CASE /\ new.status = "APPROVED"
             /\ grants' = [grants EXCEPT ![pair] = currentAccessVersion(req.requester)]
    <3>1. grants' \in [Docs \X EvmAccounts -> Nat]
      BY <2>1, <2>3, <1>4, Zenon
    <3>2. ASSUME NEW d \in Docs, NEW u \in EvmAccounts
          PROVE  \/ grants'[<<d, u>>] = grants[<<d, u>>]
                 \/ <<d, u>> = pair /\ grants'[<<d, u>>] = currentAccessVersion(u)
      BY <2>1, <2>3, <1>4, Zenon
    <3> QED
      BY <2>3, <3>1, <3>2, Zenon
  <2> QED
    BY <1>3, <2>2, <2>3, Zenon
<1> HIDE DEF req, new, pair, R, status
<1>7. PassTypeOK'
  BY <1>2, <1>6, Zenon DEF PassTypeOK, envVars, tokenVars, bridgeVars, R
<1>8. BalancesCountPasses'
  BY Zenon DEF BalancesCountPasses, tokenVars
<1>9. EachGuardianOnce'
  <2>1. ASSUME NEW q \in DOMAIN accessRequests'
        PROVE  LET b == accessRequests'[q].approvedBy IN
                 /\ Cardinality({b[i] : i \in DOMAIN b}) = Len(b)
                 /\ \A i \in DOMAIN b : b[i] # accessRequests'[q].requester
    <3>1. CASE q = r
      <4>1. accessRequests'[q].approvedBy = by /\ accessRequests'[q].requester = accessRequests[r].requester
        BY <1>2, <3>1, Zenon DEF new, req
      <4>2. \A i \in DOMAIN by : by[i] # accessRequests[r].requester
        BY Zenon DEF Names
      <4>3. Cardinality({by[i] : i \in DOMAIN by}) = Len(by)
        BY Zenon DEF Names
      <4> QED
        BY <4>1, <4>2, <4>3, Zenon
    <3>2. CASE q # r
      <4>1. accessRequests'[q] = accessRequests[q] /\ q \in DOMAIN accessRequests
        BY <1>2, <2>1, <3>2, Zenon
      <4>2. LET b == accessRequests[q].approvedBy IN
              /\ Cardinality({b[i] : i \in DOMAIN b}) = Len(b)
              /\ \A i \in DOMAIN b : b[i] # accessRequests[q].requester
        BY <4>1, Zenon DEF EachGuardianOnce
      <4> QED
        BY <4>1, <4>2, Zenon
    <3> QED
      BY <3>1, <3>2, Zenon
  <2> QED
    BY <2>1, Zenon DEF EachGuardianOnce
<1>10. PassBackbone'
  <2>1. ASSUME NEW q \in DOMAIN accessRequests', NEW i \in DOMAIN accessRequests'[q].approvedBy
        PROVE  <<q, accessRequests'[q].approvedBy[i]>> \in hasApprovedRequest'
    <3>1. CASE q = r
      BY <1>2, <2>1, <3>1, Zenon DEF Names, new
    <3>2. CASE q # r
      BY <1>2, <2>1, <3>2, Zenon DEF PassBackbone
    <3> QED
      BY <3>1, <3>2, Zenon
  <2>2. ASSUME NEW d \in Docs, NEW u \in EvmAccounts
        PROVE  grants'[<<d, u>>] <= currentAccessVersion(u)'
    <3>1. grants[<<d, u>>] <= currentAccessVersion(u)
      BY Zenon DEF PassBackbone
    <3> QED
      BY <1>5, <1>6, <3>1
  <2>3. Len(accessRequests') <= MAX_REQUESTS
    BY <1>2, Zenon DEF PassBackbone
  <2>4. \A u \in EvmAccounts : balances'[u] > 0 => accessVersion'[u] >= 1
    BY <1>4, Zenon DEF PassBackbone
  <2> QED
    BY <2>1, <2>2, <2>3, <2>4, Zenon DEF PassBackbone
<1>11. GrantsStayLost
  <2>1. ASSUME NEW d \in docs, NEW u \in EvmAccounts,
               Stale(d, u) \/ (ownsVaultToken(u) /\ ~ownsVaultToken(u)')
        PROVE  \/ Stale(d, u)' /\ (u \in vaultGuardians' \/ ~hasActiveAccess(d, u)')
               \/ ApprovedNow(d, u)
    <3>1. grants[<<d, u>>] < currentAccessVersion(u) /\ d \in Docs
      BY <1>4, <1>5, <2>1, Zenon DEF Stale
    <3>2. CASE grants'[<<d, u>>] = grants[<<d, u>>]
      <4>1. grants'[<<d, u>>] < currentAccessVersion(u)' /\ grants'[<<d, u>>] # currentAccessVersion(u)'
        BY <1>4, <1>5, <3>1, <3>2, SMTT(30)
      <4> QED
        BY <4>1, Zenon DEF Stale, hasActiveAccess
    <3>3. CASE <<d, u>> = pair /\ new.status = "APPROVED"
      BY <1>0, <3>3, Zenon DEF ApprovedNow, pair, new, req
    <3> QED
      BY <1>6, <3>1, <3>2, <3>3, Zenon
  <2> QED
    BY <2>1, Zenon DEF GrantsStayLost
<1> QED
  BY <1>7, <1>8, <1>9, <1>10, <1>11, SMTT(30)

LEMMA RequestStepInv ==
    ASSUME PassInv, NEW r \in DOMAIN accessRequests, RequestStep(r)
    PROVE  PassInv' /\ GrantsStayLost
<1> DEFINE by == accessRequests[r].approvedBy
<1>1. /\ accessRequests[r] \in AccessRequest /\ r \in 1 .. MAX_REQUESTS
      /\ hasApprovedRequest \subseteq (1 .. MAX_REQUESTS) \X EvmAccounts
      /\ vaultGuardians \subseteq EvmAccounts
  BY EvmAccessConstants DEF PassInv, PassTypeOK, PassBackbone
<1>2. by \in Seq(EvmAccounts)
  BY <1>1, Zenon DEF AccessRequest
<1>3. /\ Cardinality(Names(by)) = Len(by) /\ accessRequests[r].requester \notin Names(by)
      /\ \A a \in Names(by) : <<r, a>> \in hasApprovedRequest
  <2>1. /\ Cardinality(Names(by)) = Len(by)
        /\ \A i \in DOMAIN by : by[i] # accessRequests[r].requester
    BY Zenon DEF PassInv, EachGuardianOnce, Names
  <2>2. \A i \in DOMAIN by : <<r, by[i]>> \in hasApprovedRequest
    BY Zenon DEF PassInv, PassBackbone
  <2> QED
    BY <2>1, <2>2, Zenon DEF Names
<1> HIDE DEF by
<1>4. ASSUME NEW guardian \in EvmAccounts, NEW sender \in EvmAccounts, NEW revokedKey \in BOOLEAN,
             Approve(guardian, sender, r, revokedKey)
      PROVE  PassInv' /\ GrantsStayLost
  <2> DEFINE all == Append(by, guardian)
             enough == Len(all) >= vaultThreshold
  <2>1. /\ Pending(r) /\ accessRequests[r].requester # guardian
        /\ <<r, guardian>> \notin hasApprovedRequest
        /\ hasApprovedRequest' = hasApprovedRequest \cup {<<r, guardian>>}
        /\ Settle(r, all, enough)
        /\ UNCHANGED <<envVars, docs, tokenVars, accessVersion, blsKeys, revokedNonces, bridgeVars>>
    BY <1>4, Zenon DEF Approve, by
  <2>2. guardian \notin Names(by)
    BY <1>3, <2>1, Zenon
  <2>3. /\ all \in Seq(EvmAccounts) /\ Cardinality(Names(all)) = Len(all)
        /\ Names(all) = Names(by) \cup {guardian}
    <3>1. /\ Cardinality(Names(all)) = Cardinality(Names(by)) + 1 /\ Len(all) = Len(by) + 1
          /\ all \in Seq(EvmAccounts) /\ Names(all) = Names(by) \cup {guardian}
      BY <1>2, <2>2, OneApproverMore, Zenon
    <3> HIDE DEF all
    <3> QED
      BY <1>3, <3>1, Zenon
  <2>4. enough \in BOOLEAN
    BY SMTT(30)
  <2> HIDE DEF all, enough
  <2>5. /\ hasApprovedRequest \subseteq hasApprovedRequest'
        /\ hasApprovedRequest' \subseteq (1 .. MAX_REQUESTS) \X EvmAccounts
        /\ accessRequests[r].requester \notin Names(all)
        /\ \A a \in Names(all) : <<r, a>> \in hasApprovedRequest'
    BY <1>1, <1>3, <2>1, <2>3
  <2> QED
    BY <2>1, <2>3, <2>4, <2>5, SettleStep, Zenon
<1>5. ASSUME NEW list \in SUBSET BlsSigners, approveAccessBLS(r, list)
      PROVE  PassInv' /\ GrantsStayLost
  <2>1. /\ Pending(r) /\ Settle(r, by, TRUE) /\ hasApprovedRequest' = hasApprovedRequest
        /\ UNCHANGED <<envVars, docs, tokenVars, accessVersion, blsKeys, revokedNonces, bridgeVars>>
    BY <1>5, Zenon DEF approveAccessBLS, by
  <2>2. /\ hasApprovedRequest \subseteq hasApprovedRequest'
        /\ hasApprovedRequest' \subseteq (1 .. MAX_REQUESTS) \X EvmAccounts
        /\ \A a \in Names(by) : <<r, a>> \in hasApprovedRequest'
    BY <1>1, <1>3, <2>1, Zenon
  <2> QED
    BY <1>2, <1>3, <2>1, <2>2, SettleStep, Zenon
<1>6. Delegators \subseteq EvmAccounts
  BY EvmAccessConstants, Zenon
<1> QED
  BY <1>4, <1>5, <1>6, Zenon DEF RequestStep, approveAccess, approveAccessFHE, approveAccessDelegated

\* What the steps on documents use of the invariant.
LEMMA PassFacts ==
    ASSUME PassInv
    PROVE  /\ PassTypeOK /\ BalancesCountPasses /\ EachGuardianOnce /\ PassBackbone
           /\ grants \in [Docs \X EvmAccounts -> Nat] /\ accessVersion \in [EvmAccounts -> Nat]
           /\ balances \in [EvmAccounts -> Nat] /\ docs \subseteq Docs
           /\ revocationNonce \in [Docs \X EvmAccounts -> Nat]
           /\ accessRequests \in Seq(AccessRequest) /\ timestamp \in Nat
           /\ \A u \in EvmAccounts : currentAccessVersion(u) \in Nat
           /\ \A d \in Docs, u \in EvmAccounts : grants[<<d, u>>] <= currentAccessVersion(u)
<1>1. PassTypeOK /\ BalancesCountPasses /\ EachGuardianOnce /\ PassBackbone
  BY Zenon DEF PassInv
<1>2. /\ grants \in [Docs \X EvmAccounts -> Nat] /\ accessVersion \in [EvmAccounts -> Nat]
      /\ balances \in [EvmAccounts -> Nat] /\ docs \subseteq Docs
      /\ revocationNonce \in [Docs \X EvmAccounts -> Nat] /\ accessRequests \in Seq(AccessRequest)
  BY <1>1, Zenon DEF PassTypeOK
<1>3. timestamp \in Nat
  BY <1>1 DEF PassTypeOK
<1>4. \A u \in EvmAccounts : currentAccessVersion(u) \in Nat
  BY <1>2, Zenon DEF currentAccessVersion
<1>5. \A d \in Docs, u \in EvmAccounts : grants[<<d, u>>] <= currentAccessVersion(u)
  BY <1>1, Zenon DEF PassBackbone
<1> QED
  BY <1>1, <1>2, <1>3, <1>4, <1>5, Zenon

\* A document is added, and its author granted access.
LEMMA AddStep ==
    ASSUME PassInv, NEW sender \in EvmAccounts, NEW d \in Docs, addDocument(sender, d)
    PROVE  PassInv' /\ GrantsStayLost
<1>1. /\ d \notin docs /\ docs' = docs \cup {d}
      /\ grants' = [grants EXCEPT ![<<d, sender>>] = currentAccessVersion(sender)]
      /\ UNCHANGED <<envVars, tokenVars, accessVersion, requestVars, bridgeVars>>
  BY Zenon DEF addDocument, grantAccess
<1>2. /\ grants' \in [Docs \X EvmAccounts -> Nat]
      /\ \A e \in Docs, u \in EvmAccounts : \/ grants'[<<e, u>>] = grants[<<e, u>>]
                                            \/ e = d /\ grants'[<<e, u>>] = currentAccessVersion(u)
  BY PassFacts, <1>1, Zenon
<1>3. \A u \in EvmAccounts : /\ currentAccessVersion(u)' = currentAccessVersion(u)
                             /\ ownsVaultToken(u)' <=> ownsVaultToken(u)
  BY <1>1, SMTT(30) DEF currentAccessVersion, ownsVaultToken, tokenVars
<1>4. PassTypeOK'
  BY <1>1, <1>2, SMTT(30) DEF PassInv, PassTypeOK, envVars, tokenVars, requestVars, bridgeVars
<1>5. BalancesCountPasses'
  BY <1>1, PassFacts, Zenon DEF BalancesCountPasses, tokenVars
<1>6. EachGuardianOnce'
  <2>1. accessRequests' = accessRequests
    BY <1>1, Zenon DEF requestVars
  <2> QED
    BY <2>1, PassFacts, Zenon DEF EachGuardianOnce
<1>7. PassBackbone'
  <2>1. ASSUME NEW e \in Docs, NEW u \in EvmAccounts
        PROVE  grants'[<<e, u>>] <= currentAccessVersion(u)'
    <3>1. /\ grants[<<e, u>>] <= currentAccessVersion(u) /\ currentAccessVersion(u) \in Nat
          /\ currentAccessVersion(u)' = currentAccessVersion(u)
          /\ grants'[<<e, u>>] = grants[<<e, u>>] \/ grants'[<<e, u>>] = currentAccessVersion(u)
      BY PassFacts, <1>2, <1>3, SMTT(30)
    <3> QED
      BY <3>1
  <2> QED
    BY <1>1, <2>1, PassFacts, Zenon DEF PassBackbone, tokenVars, requestVars
<1>8. ASSUME NEW e \in docs, NEW u \in EvmAccounts,
             Stale(e, u) \/ (ownsVaultToken(u) /\ ~ownsVaultToken(u)')
      PROVE  Stale(e, u)' /\ ~(grants'[<<e, u>>] = currentAccessVersion(u)')
  <2>1. grants'[<<e, u>>] = grants[<<e, u>>] /\ grants[<<e, u>>] \in Nat
    BY PassFacts, <1>1, <1>2
  <2>2. grants[<<e, u>>] < currentAccessVersion(u)
    BY <1>3, <1>8, Zenon DEF Stale
  <2>3. grants'[<<e, u>>] < currentAccessVersion(u)'
    BY <1>3, <2>1, <2>2, SMTT(30)
  <2> QED
    BY PassFacts, <1>3, <2>1, <2>2, <2>3, SMTT(30) DEF Stale
<1>9. GrantsStayLost
  BY <1>8, Zenon DEF GrantsStayLost, hasActiveAccess
<1> QED
  BY <1>4, <1>5, <1>6, <1>7, <1>9, Zenon DEF PassInv

\* Access is asked for.
LEMMA AskStep ==
    ASSUME PassInv, NEW sender \in EvmAccounts, NEW d \in Docs, NEW satisfied \in BOOLEAN,
           requestAccess(sender, d, satisfied)
    PROVE  PassInv' /\ GrantsStayLost
<1> DEFINE new == [documentId |-> d, requester |-> sender, approvedBy |-> <<>>,
                   status |-> "PENDING", expiresAt |-> timestamp + REQUEST_TTL]
<1>1. /\ Len(accessRequests) < MAX_REQUESTS /\ accessRequests' = Append(accessRequests, new)
      /\ UNCHANGED <<envVars, docs, tokenVars, accessVersion, grants, hasApprovedRequest, blsKeys,
                     revokedNonces, bridgeVars>>
  BY SMTT(30) DEF requestAccess
<1>2. new \in AccessRequest /\ new.approvedBy = <<>>
  <2>1. timestamp + REQUEST_TTL \in Nat
    BY EvmAccessConstants, PassFacts, SMTT(30)
  <2> QED
    BY <2>1 DEF AccessRequest
<1> HIDE DEF new
<1>3. accessRequests \in Seq(AccessRequest)
  BY PassFacts, Zenon
<1>4. /\ accessRequests' \in Seq(AccessRequest) /\ Len(accessRequests') = Len(accessRequests) + 1
      /\ \A r \in DOMAIN accessRequests' : \/ r \in DOMAIN accessRequests /\ accessRequests'[r] = accessRequests[r]
                                           \/ accessRequests'[r] = new
  BY <1>1, <1>2, <1>3
<1>5. PassTypeOK'
  BY <1>1, <1>4, Zenon DEF PassInv, PassTypeOK, envVars, tokenVars, bridgeVars
<1>6. BalancesCountPasses'
  BY <1>1, PassFacts DEF BalancesCountPasses, tokenVars
<1>7. EachGuardianOnce'
  <2>1. ASSUME NEW r \in DOMAIN accessRequests'
        PROVE  LET b == accessRequests'[r].approvedBy IN
                 /\ Cardinality({b[i] : i \in DOMAIN b}) = Len(b)
                 /\ \A i \in DOMAIN b : b[i] # accessRequests'[r].requester
    <3>1. CASE r \in DOMAIN accessRequests /\ accessRequests'[r] = accessRequests[r]
      <4>1. LET b == accessRequests[r].approvedBy IN
              /\ Cardinality({b[i] : i \in DOMAIN b}) = Len(b)
              /\ \A i \in DOMAIN b : b[i] # accessRequests[r].requester
        BY <3>1, PassFacts, Zenon DEF EachGuardianOnce
      <4> QED
        BY <3>1, <4>1, Zenon
    <3>2. CASE accessRequests'[r] = new
      <4>1. accessRequests'[r].approvedBy = <<>>
        BY <1>2, <3>2, Zenon
      <4>2. \A b : b = <<>> => {b[i] : i \in DOMAIN b} = {} /\ Len(b) = 0 /\ DOMAIN b = {}
        OBVIOUS
      <4>3. Cardinality({}) = 0
        BY FS_EmptySet, Zenon
      <4> QED
        BY <4>1, <4>2, <4>3, Zenon
    <3> QED
      BY <1>4, <3>1, <3>2
  <2> QED
    BY <2>1, PassFacts, Zenon DEF EachGuardianOnce
<1>8. \A u \in EvmAccounts : /\ accessVersion'[u] >= accessVersion[u]
                             /\ ownsVaultToken(u)' <=> ownsVaultToken(u)
  BY PassFacts, <1>1 DEF ownsVaultToken, tokenVars
<1>9. GrantsStayLost
  BY PassFacts, <1>1, <1>8, StaleStays, Zenon
<1>10. PassBackbone'
  <2>1. ASSUME NEW r \in DOMAIN accessRequests', NEW i \in DOMAIN accessRequests'[r].approvedBy
        PROVE  <<r, accessRequests'[r].approvedBy[i]>> \in hasApprovedRequest'
    <3>1. r \in DOMAIN accessRequests /\ accessRequests'[r] = accessRequests[r]
      BY <1>2, <1>4, <2>1, SMTT(30)
    <3> QED
      BY <1>1, <2>1, <3>1, PassFacts, Zenon DEF PassBackbone
  <2>2. Len(accessRequests') <= MAX_REQUESTS
    BY <1>1, <1>3, <1>4, EvmAccessConstants
  <2> QED
    BY <1>1, <2>1, <2>2, PassFacts, Zenon DEF PassBackbone, currentAccessVersion, tokenVars
<1> QED
  BY <1>5, <1>6, <1>7, <1>9, <1>10, Zenon DEF PassInv

\* Access is revoked.
LEMMA RevokeStep ==
    ASSUME PassInv, NEW sender \in EvmAccounts, NEW d \in Docs, NEW w \in Targets, revokeAccess(sender, d, w)
    PROVE  PassInv' /\ GrantsStayLost
<1>1. /\ w \in EvmAccounts /\ docs' = docs
      /\ grants' = [grants EXCEPT ![<<d, w>>] = NoGrant]
      /\ accessVersion' = [accessVersion EXCEPT ![w] = @ + 1]
      /\ UNCHANGED <<envVars, docs, tokenVars, requestVars, crossChainEnabled>>
  BY EvmAccessConstants DEF revokeAccess
<1>2. /\ grants' \in [Docs \X EvmAccounts -> Nat] /\ accessVersion' \in [EvmAccounts -> Nat]
      /\ \A u \in EvmAccounts : accessVersion'[u] >= accessVersion[u]
      /\ \A e \in Docs, u \in EvmAccounts : \/ grants'[<<e, u>>] = grants[<<e, u>>]
                                            \/ grants'[<<e, u>>] = 0
  BY PassFacts, <1>1, SMTT(30) DEF NoGrant
<1>3. revocationNonce' \in [Docs \X EvmAccounts -> Nat]
  <2>1. revocationNonce \in [Docs \X EvmAccounts -> Nat]
    BY PassFacts, Zenon
  <2>2. \/ revocationNonce' = revocationNonce
        \/ revocationNonce' = [revocationNonce EXCEPT ![<<d, w>>] = @ + 1]
    BY Zenon DEF revokeAccess
  <2> QED
    BY <1>1, <2>1, <2>2
<1>4. PassTypeOK'
  <2>1. PassTypeOK
    BY Zenon DEF PassInv
  <2>2. /\ UNCHANGED <<timestamp, vaultGuardians, guardianInvites, vaultThreshold, docs, owners>>
        /\ UNCHANGED <<balances, activeTokenSupply, accessRequests, hasApprovedRequest, blsKeys>>
        /\ UNCHANGED <<revokedNonces, crossChainEnabled>>
    BY <1>1, Zenon DEF envVars, tokenVars, requestVars
  <2> QED
    BY <1>2, <1>3, <2>1, <2>2, Zenon DEF PassTypeOK
<1>5. BalancesCountPasses'
  BY <1>1, PassFacts, Zenon DEF BalancesCountPasses, tokenVars
<1>6. EachGuardianOnce'
  BY <1>1, PassFacts, ZenonT(30) DEF EachGuardianOnce, requestVars
<1>7. ASSUME NEW e \in Docs, NEW u \in EvmAccounts
      PROVE  /\ currentAccessVersion(u)' \in Nat
             /\ grants'[<<e, u>>] <= currentAccessVersion(u)'
             /\ Stale(e, u) => grants'[<<e, u>>] < currentAccessVersion(u)'
  <2>1. /\ accessVersion[u] \in Nat /\ accessVersion'[u] \in Nat /\ grants[<<e, u>>] \in Nat
        /\ accessVersion'[u] >= accessVersion[u] /\ grants[<<e, u>>] <= currentAccessVersion(u)
        /\ grants'[<<e, u>>] = grants[<<e, u>>] \/ grants'[<<e, u>>] = 0
    BY PassFacts, <1>2, SMTT(30)
  <2>2. /\ currentAccessVersion(u) = IF accessVersion[u] = 0 THEN 1 ELSE accessVersion[u]
        /\ currentAccessVersion(u)' = IF accessVersion'[u] = 0 THEN 1 ELSE accessVersion'[u]
        /\ Stale(e, u) <=> grants[<<e, u>>] < currentAccessVersion(u)
    BY DEF currentAccessVersion, Stale
  <2> QED
    BY <2>1, <2>2, SMTT(30)
<1>8. PassBackbone'
  <2>1. \A u \in EvmAccounts : balances'[u] > 0 => accessVersion'[u] >= 1
    <3>1. balances' = balances
      BY <1>1, Zenon DEF tokenVars
    <3>2. \A u \in EvmAccounts : balances[u] > 0 => accessVersion[u] >= 1
      BY PassFacts, ZenonT(30) DEF PassBackbone
    <3> QED
      BY PassFacts, <1>2, <3>1, <3>2
  <2> QED
    BY <1>1, <1>7, <2>1, PassFacts, Zenon DEF PassBackbone, requestVars
<1>9. ASSUME NEW e \in docs, NEW u \in EvmAccounts,
             Stale(e, u) \/ (ownsVaultToken(u) /\ ~ownsVaultToken(u)')
      PROVE  Stale(e, u)' /\ ~(grants'[<<e, u>>] = currentAccessVersion(u)')
  <2>1. Stale(e, u) /\ e \in Docs
    BY PassFacts, <1>1, <1>9, Zenon DEF ownsVaultToken, tokenVars
  <2>2. grants'[<<e, u>>] < currentAccessVersion(u)' /\ grants'[<<e, u>>] \in Nat
        /\ currentAccessVersion(u)' \in Nat
    BY <1>2, <1>7, <2>1, ZenonT(30)
  <2> QED
    BY <2>2 DEF Stale
<1>10. GrantsStayLost
  BY <1>9 DEF GrantsStayLost, hasActiveAccess
<1> QED
  BY <1>4, <1>5, <1>6, <1>8, <1>10 DEF PassInv

LEMMA PassStep ==
    ASSUME PassInv, [PassNext]_passVars
    PROVE  PassInv' /\ (GrantsStayLost \/ UNCHANGED passVars)
<1>1. CASE UNCHANGED passVars
  <2>1. PassTypeOK'
    BY <1>1, Zenon DEF PassInv, PassTypeOK, passVars, envVars, tokenVars, requestVars, bridgeVars
  <2>2. docs' = docs /\ UNCHANGED <<tokenVars, accessVersion, grants, accessRequests, hasApprovedRequest>>
    BY <1>1 DEF passVars, requestVars
  <2> QED
    BY <2>1, <2>2, QuietStep, Zenon
<1>2. CASE BlockMined
  <2>1. PassTypeOK'
    BY <1>2, EvmAccessConstants, SMTT(30)
    DEF BlockMined, PassInv, PassTypeOK, tokenVars, requestVars, bridgeVars
  <2> QED
    BY <1>2, <2>1, QuietStep, SMTT(30) DEF BlockMined, requestVars
<1>3. CASE Reconfigured
  <2>1. PassTypeOK'
    <3>1. /\ vaultGuardians \subseteq EvmAccounts /\ guardianInvites \subseteq EvmAccounts
          /\ vaultThreshold \in Nat
      BY Zenon DEF PassInv, PassTypeOK
    <3>2. Cardinality(vaultGuardians) \in Nat
      BY <3>1, EvmAccessConstants, FS_Subset, FS_CardinalityType, Zenon
    <3>3. /\ vaultGuardians' \subseteq EvmAccounts /\ guardianInvites' \subseteq EvmAccounts
          /\ vaultThreshold' \in Nat
      BY <1>3, <3>1, <3>2 DEF Reconfigured
    <3>4. UNCHANGED <<timestamp, docs, tokenVars, accessVersion, grants, requestVars, bridgeVars>>
      BY <1>3, Zenon DEF Reconfigured
    <3> QED
      BY <3>3, <3>4, Zenon DEF PassInv, PassTypeOK, tokenVars, requestVars, bridgeVars
  <2>2. docs' = docs /\ UNCHANGED <<tokenVars, accessVersion, grants, accessRequests, hasApprovedRequest>>
    BY <1>3, Zenon DEF Reconfigured, requestVars
  <2> QED
    BY <2>1, <2>2, QuietStep, Zenon
<1>4. ASSUME NEW sender \in EvmAccounts, AccountStep(sender)
      PROVE  PassInv' /\ GrantsStayLost
  <2>1. ASSUME NEW to \in Holders, mintAccessToken(sender, to)
        PROVE  PassInv' /\ GrantsStayLost
    BY <2>1, TokenSteps, TokenStepInv, Zenon DEF PassInv
  <2>2. ASSUME NEW nonce \in Nonces, revokeDelegation(sender, nonce)
        PROVE  PassInv' /\ GrantsStayLost
    <3>1. PassTypeOK'
      BY <2>2, SMTT(30) DEF revokeDelegation, PassInv, PassTypeOK, envVars, tokenVars, bridgeVars
    <3> QED
      BY <2>2, <3>1, QuietStep, SMTT(30) DEF revokeDelegation
  <2>3. CASE registerGuardianBLSKey(sender)
    <3>1. PassTypeOK'
      BY <2>3, Zenon DEF registerGuardianBLSKey, PassInv, PassTypeOK, envVars, tokenVars, bridgeVars
    <3> QED
      BY <2>3, <3>1, QuietStep DEF registerGuardianBLSKey
  <2>4. ASSUME NEW e \in Toggles, setCrossChainRevocationEnabled(sender, e)
        PROVE  PassInv' /\ GrantsStayLost
    <3>1. e \in BOOLEAN
      BY EvmAccessConstants
    <3>2. PassTypeOK'
      BY <2>4, <3>1, Zenon
      DEF setCrossChainRevocationEnabled, PassInv, PassTypeOK, envVars, tokenVars, requestVars
    <3> QED
      BY <2>4, <3>2, QuietStep, Zenon DEF setCrossChainRevocationEnabled, requestVars
  <2> QED
    BY <1>4, <2>1, <2>2, <2>3, <2>4, AddStep, AskStep, RevokeStep, Zenon DEF AccountStep
<1>5. ASSUME NEW t \in DOMAIN owners, TokenStep(t) PROVE PassInv' /\ GrantsStayLost
  BY <1>5, TokenSteps, TokenStepInv DEF PassInv
<1>6. ASSUME NEW r \in DOMAIN accessRequests, RequestStep(r) PROVE PassInv' /\ GrantsStayLost
  BY <1>6, RequestStepInv, Zenon
<1> QED
  BY <1>1, <1>2, <1>3, <1>4, <1>5, <1>6 DEF PassNext

\* The balances every access decision reads are the passes really held, no guardian counts
\* twice in a request, and a grant that was lost with the last pass or revoked is good for
\* nothing until a request is approved again (SpooVault.sol: _update, _approveAccess,
\* _hasActiveAccess, revokeAccess), for any accounts, documents and bounds.
THEOREM PassesInStep == PassSpec => []PassBooksBalance /\ NoResurrection
<1>1. PassInit => PassInv
  <2> SUFFICES ASSUME PassInit PROVE PassInv
    BY Zenon
  <2>1. /\ owners = <<>> /\ accessRequests = <<>>
        /\ \A u : {t \in DOMAIN owners : owners[t] = u} = {}
        /\ {t \in DOMAIN owners : owners[t] # ZeroAddress} = {}
    BY DEF PassInit
  <2>2. Cardinality({}) = 0
    BY FS_EmptySet, Zenon
  <2>3. vaultThreshold \in Nat
    <3>1. IsFiniteSet(Invited)
      BY EvmAccessConstants, FS_Subset, Zenon
    <3>2. Cardinality(Invited) \in Nat
      BY <3>1, FS_CardinalityType, Zenon
    <3> QED
      BY <3>2 DEF PassInit
  <2>4. PassTypeOK
    <3>1. activeTokenSupply = Cardinality({t \in DOMAIN owners : owners[t] # ZeroAddress})
      BY <2>1, <2>2, Zenon DEF PassInit
    <3>2. owners \in Seq(EvmAccounts \cup {ZeroAddress}) /\ accessRequests \in Seq(AccessRequest)
      BY <2>1
    <3>3. /\ balances \in [EvmAccounts -> Nat] /\ accessVersion \in [EvmAccounts -> Nat]
          /\ grants \in [Docs \X EvmAccounts -> Nat] /\ revocationNonce \in [Docs \X EvmAccounts -> Nat]
      BY Zenon DEF PassInit, NoGrant
    <3>4. /\ vaultGuardians \subseteq EvmAccounts /\ guardianInvites \subseteq EvmAccounts
          /\ docs \subseteq Docs /\ blsKeys \subseteq EvmAccounts
          /\ hasApprovedRequest \subseteq (1 .. MAX_REQUESTS) \X EvmAccounts
          /\ revokedNonces \subseteq EvmAccounts \X Nonces
      BY EvmAccessConstants, Zenon DEF PassInit
    <3>5. timestamp \in 1 .. MAX_TIMESTAMP
      BY EvmAccessConstants DEF PassInit
    <3>6. crossChainEnabled \in BOOLEAN
      BY Zenon DEF PassInit
    <3> QED
      BY <2>3, <3>1, <3>2, <3>3, <3>4, <3>5, <3>6, Zenon DEF PassTypeOK
  <2>5. BalancesCountPasses
    BY <2>1, <2>2, SMTT(30) DEF PassInit, BalancesCountPasses
  <2>6. EachGuardianOnce /\ PassBackbone
    BY <2>1, EvmAccessConstants DEF PassInit, EachGuardianOnce, PassBackbone, currentAccessVersion, NoGrant
  <2> QED
    BY <2>4, <2>5, <2>6, Zenon DEF PassInv
<1>2. PassInv /\ [PassNext]_passVars => PassInv'
  BY PassStep, Zenon
<1>3. PassInv /\ [PassNext]_passVars => [GrantsStayLost]_passVars
  BY PassStep, Zenon
<1>4. PassInv => PassBooksBalance
  BY Zenon DEF PassInv, PassBooksBalance
<1> QED
  BY <1>1, <1>2, <1>3, <1>4, PTL DEF PassSpec, NoResurrection
=============================================================================
