--------------------------- MODULE GuardianCrypto ----------------------------
(***************************************************************************)
(* Guardians acting together without the contract: homomorphic sums of     *)
(* shares, and aggregated BLS approvals.                                   *)
(***************************************************************************)
EXTENDS Integers, Sequences, FiniteSets, SequencesExt
(***************************************************************************)
(* Homomorphic aggregation of guardian shares: src/utils/fheEngine.ts and  *)
(* src/services/fhe.service.ts, over a small prime in place of FHE_PRIME.  *)
(* A key pair is generated, a secret is split (into additive shares or     *)
(* into points of a polynomial) and each share encrypted; somebody without *)
(* the private key aggregates ciphertexts in any order; the holder of the  *)
(* private key decrypts the aggregate.                                     *)
(***************************************************************************)

CONSTANTS
    FHE_PRIME,     \* the modulus
    FHE_LWE_DIMENSION, \* components of a ciphertext's vector
    FHE_ROWS,      \* m of fheKeyGen
    FheSamples,    \* what randomFieldElement may return
    FheFactors,    \* what the sampled combination may hold, out of 1..7
    FHE_GUARDIANS, \* shares made
    FHE_THRESHOLDS \* thresholds tried

VARIABLES
    fheKey,      \* the key pair
    fheMode,     \* "additive" or "threshold"
    fheK,        \* the threshold
    fheSecret,   \* what was split
    fheShares,   \* plaintext shares
    fheWire,     \* serialized ciphertexts, one per share encrypted so far
    fheSum       \* the serialized aggregate, empty before

fheVars == <<fheKey, fheMode, fheK, fheSecret, fheShares, fheWire, fheSum>>

modQ(a) == a % FHE_PRIME
Field == 0..(FHE_PRIME - 1)
Dims == 1..FHE_LWE_DIMENSION
Rows == 1..FHE_ROWS

\* By squaring, from the lowest bit of the exponent.
modPowQ(base, exp) ==
    LET pow[e \in 0..exp] ==
            IF e = 0 THEN 1
            ELSE IF e % 2 = 1 THEN modQ(base * pow[e - 1])
            ELSE modQ(pow[e \div 2] * pow[e \div 2])
    IN pow[exp]
modInverseQ(a) == modPowQ(modQ(a), FHE_PRIME - 2)

\* The sum over a sequence in the field.
SumQ(seq) == FoldLeft(LAMBDA acc, x : modQ(acc + x), 0, seq)
DotQ(x, y) == SumQ([i \in DOMAIN x |-> x[i] * y[i]])

\* b is exactly A s: there is no noise.
fheKeyGen(s, a) == [s |-> s, a |-> a, b |-> [i \in Rows |-> DotQ(a[i], s)]]

fheEncrypt(plain, key, r) ==
    [a |-> [j \in Dims |-> SumQ([i \in Rows |-> key.a[i][j] * r[i]])],
     b |-> modQ(plain + DotQ(key.b, r))]
fheDecrypt(ct, key) == modQ(ct.b - DotQ(ct.a, key.s))

fheAdd(x, y) == [a |-> [i \in DOMAIN x.a |-> modQ(x.a[i] + y.a[i])], b |-> modQ(x.b + y.b)]
fheScalarMul(c, x) == [a |-> [i \in DOMAIN x.a |-> modQ(c * x.a[i])], b |-> modQ(c * x.b)]

\* One word for the dimension, then the vector, then the body.
serializeFheCiphertext(ct) == <<Len(ct.a)>> \o ct.a \o <<ct.b>>
deserializeFheCiphertext(words) ==
    [a |-> SubSeq(words, 2, words[1] + 1), b |-> words[words[1] + 2]]

ProductQ(seq) == FoldLeft(LAMBDA acc, x : modQ(acc * x), 1, seq)
Others(points, i) == SelectSeq(points, LAMBDA x : x # points[i])

computeLagrangeCoefficients(points) ==
    [i \in DOMAIN points |->
        LET rest == Others(points, i) IN
        modQ(ProductQ(rest) *
             modInverseQ(ProductQ([j \in DOMAIN rest |-> modQ(rest[j] - points[i])])))]

\* The mutated form: the weights are those of all the shares that came in.
fheThresholdAggregate_all(given, k) ==
    LET lambdas == computeLagrangeCoefficients([i \in DOMAIN given |-> given[i].index])
        terms == [i \in 1..k |-> fheScalarMul(lambdas[i], given[i].ct)]
    IN FoldLeft(fheAdd, terms[1], Tail(terms))

\* Only the first k of the given shares are used.
fheThresholdAggregate(given, k) ==
    LET lambdas == computeLagrangeCoefficients([i \in 1..k |-> given[i].index])
        terms == [i \in 1..k |-> fheScalarMul(lambdas[i], given[i].ct)]
    IN FoldLeft(fheAdd, terms[1], Tail(terms))

fheAdditiveAggregate(cts) == FoldLeft(fheAdd, cts[1], Tail(cts))

FheInit ==
    /\ \E s \in [Dims -> FheSamples], a \in [Rows -> [Dims -> FheSamples]] :
           fheKey = fheKeyGen(s, a)
    /\ fheMode = "none" /\ fheK = 0 /\ fheSecret = 0
    /\ fheShares = <<>> /\ fheWire = <<>> /\ fheSum = <<>>

\* The last share makes the sum up to the secret.
createAdditiveSharesFHE ==
    /\ fheMode = "none" /\ fheMode' = "additive"
    /\ fheK' = FHE_GUARDIANS
    /\ \E secret \in Field, drawn \in [1..(FHE_GUARDIANS - 1) -> FheSamples] :
           /\ fheSecret' = secret
           /\ fheShares' = Append(drawn, modQ(secret - SumQ(drawn)))
    /\ UNCHANGED <<fheKey, fheWire, fheSum>>

\* Points 1..n of a polynomial whose constant term is the secret (Horner).
createThresholdSharesFHE ==
    /\ fheMode = "none" /\ fheMode' = "threshold"
    /\ \E secret \in Field, k \in FHE_THRESHOLDS \cap 1..FHE_GUARDIANS :
       \E drawn \in [1..(k - 1) -> FheSamples] :
           LET coeffs == <<secret>> \o drawn IN
           /\ fheSecret' = secret /\ fheK' = k
           /\ fheShares' = [x \in 1..FHE_GUARDIANS |->
                  FoldRight(LAMBDA c, y : modQ(y * x + c), coeffs, 0)]
    /\ UNCHANGED <<fheKey, fheWire, fheSum>>

\* The next share is encrypted and serialized.
EncryptShare ==
    /\ Len(fheWire) < Len(fheShares)
    /\ \E r \in [Rows -> FheFactors] :
           fheWire' = Append(fheWire,
               serializeFheCiphertext(fheEncrypt(fheShares[Len(fheWire) + 1], fheKey, r)))
    /\ UNCHANGED <<fheKey, fheMode, fheK, fheSecret, fheShares, fheSum>>

AllEncrypted == fheMode # "none" /\ Len(fheWire) = Len(fheShares) /\ fheSum = <<>>

aggregateAdditiveShares ==
    /\ AllEncrypted /\ fheMode = "additive"
    /\ \E order \in SetToSeqs(1..FHE_GUARDIANS) :
           fheSum' = serializeFheCiphertext(fheAdditiveAggregate(
               [i \in 1..FHE_GUARDIANS |-> deserializeFheCiphertext(fheWire[order[i]])]))
    /\ UNCHANGED <<fheKey, fheMode, fheK, fheSecret, fheShares, fheWire>>

\* At least as many shares as the threshold, in any order.
aggregateThresholdShares ==
    /\ AllEncrypted /\ fheMode = "threshold"
    /\ \E some \in {g \in SUBSET (1..FHE_GUARDIANS) : Cardinality(g) >= fheK} :
       \E order \in SetToSeqs(some) :
           fheSum' = serializeFheCiphertext(fheThresholdAggregate(
               [i \in DOMAIN order |->
                   [index |-> order[i], ct |-> deserializeFheCiphertext(fheWire[order[i]])]],
               fheK))
    /\ UNCHANGED <<fheKey, fheMode, fheK, fheSecret, fheShares, fheWire>>

decryptAggregateCiphertext == fheDecrypt(deserializeFheCiphertext(fheSum), fheKey)

FheNext ==
    \/ createAdditiveSharesFHE
    \/ createThresholdSharesFHE
    \/ EncryptShare
    \/ aggregateAdditiveShares
    \/ aggregateThresholdShares

(***************************************************************************)
(* Whichever guardians contribute, in whatever order and with whatever     *)
(* randomness, as long as the threshold is met (or, for additive shares,   *)
(* everybody contributes), the aggregate that nobody could read decrypts   *)
(* to the secret that was split (aggregateThresholdShares,                 *)
(* aggregateAdditiveShares, decryptAggregateCiphertext).                   *)
(***************************************************************************)
AggregateDecrypts == fheSum # <<>> => decryptAggregateCiphertext = fheSecret
------------------------------------------------------------------------------
(***************************************************************************)
(* Batch approval with aggregated BLS signatures: the keyring              *)
(* (blsKeyring.service.ts), the algebra (utils/blsCrypto.ts) and the modal *)
(* that collects the shares of one request and submits the aggregate       *)
(* (BLSBatchApprovalModal.tsx).                                            *)
(*                                                                         *)
(* Group elements are written by their logarithms, modulo a small prime in *)
(* place of the group order: a public key is its private key, a signature  *)
(* is the private key times the hash of the message, and a pairing check   *)
(* compares products.                                                      *)
(***************************************************************************)
CONSTANTS
    BlsGuardians,   \* guardians who use this browser
    OtherGuardians, \* guardians whose shares are handed to the modal
    BLS_ORDER,      \* order of the groups
    BlsScalars,     \* private keys
    BLS_REQUEST,    \* hash of the approval message of the modal's request
    BLS_THRESHOLD,  \* requiredThreshold
    MAX_STORES      \* keys stored

NoKey == 0

VARIABLES
    keyDb,      \* keyDb[g]: private key in IndexedDB
    keyMem,     \* keyMem[g]: private key in memoryFallback
    activeKey,  \* [of, sk]
    dbState,    \* "up", "down" (every access throws) or "absent" (no IndexedDB)
    stores,     \* <<guardian, private key>> pairs stored so far
    backedUp,   \* exported backups, as such pairs
    collected,  \* shares of the modal
    batch       \* the aggregated payload, <<>> before

blsVars == <<keyDb, keyMem, activeKey, dbState, stores, backedUp, collected, batch>>

NoActive == [of |-> "nobody", sk |-> NoKey]

getBLSPublicKey(sk) == sk % BLS_ORDER
signBLS(message, sk) == (sk * message) % BLS_ORDER
verifyBLSSignature(sig, message, pk) == sig = (pk * message) % BLS_ORDER
Sum(seq) == FoldLeft(LAMBDA acc, x : (acc + x) % BLS_ORDER, 0, seq)
aggregateBLSSignatures(sigs) == Sum(sigs)
aggregateBLSPublicKeys(pks) == Sum(pks)
verifyAggregatedBLSSignature(sig, message, pk) == verifyBLSSignature(sig, message, pk)

Share(g, sk) == [guardian |-> g, pk |-> getBLSPublicKey(sk), sig |-> signBLS(BLS_REQUEST, sk)]

BlsInit ==
    /\ keyDb = [g \in BlsGuardians |-> NoKey] /\ keyMem = keyDb
    /\ activeKey = NoActive
    /\ dbState \in {"up", "absent"}
    /\ stores = {} /\ backedUp = {}
    /\ \E some \in SUBSET OtherGuardians : \E sk \in BlsScalars :
           collected = [i \in DOMAIN SetToSeq(some) |-> Share(SetToSeq(some)[i], sk)]
    /\ batch = <<>>

\* To IndexedDB, or to memory when there is none or it throws.
saveKey(g, sk) ==
    \/ dbState = "up" /\ keyDb' = [keyDb EXCEPT ![g] = sk] /\ UNCHANGED keyMem
    \/ dbState # "up" /\ keyMem' = [keyMem EXCEPT ![g] = sk] /\ UNCHANGED keyDb

\* importPrivateKey, and the end of generating, deriving and restoring one.
importPrivateKey(g, sk) ==
    /\ saveKey(g, sk)
    /\ activeKey' = [of |-> g, sk |-> sk]
    /\ stores' = stores \cup {<<g, sk>>}

generateKeyForGuardian(g) ==
    /\ Cardinality(stores) < MAX_STORES
    /\ \E sk \in BlsScalars : importPrivateKey(g, sk)
    /\ UNCHANGED <<dbState, backedUp, collected, batch>>

\* The active key, then IndexedDB; memory only when IndexedDB throws.
keyFor(g) ==
    IF activeKey.of = g THEN activeKey.sk
    ELSE IF dbState = "up" THEN keyDb[g]
    ELSE IF dbState = "down" THEN keyMem[g]
    ELSE NoKey

\* A key read from IndexedDB becomes the active one.
getKeyForGuardian(g) ==
    /\ keyFor(g) # NoKey
    /\ activeKey' = IF activeKey.of # g /\ dbState = "up"
                    THEN [of |-> g, sk |-> keyFor(g)] ELSE activeKey

exportEncryptedBackup(g) ==
    /\ getKeyForGuardian(g)
    /\ backedUp' = backedUp \cup {<<g, keyFor(g)>>}
    /\ UNCHANGED <<keyDb, keyMem, dbState, stores, collected, batch>>

\* With the right password; a wrong one throws before anything changes.
importEncryptedBackup(backup) ==
    /\ backup \in backedUp
    /\ importPrivateKey(backup[1], backup[2])
    /\ UNCHANGED <<dbState, backedUp, collected, batch>>

\* IndexedDB starts or stops failing (storage pressure, a blocked upgrade).
DbChanges ==
    /\ dbState \in {"up", "down"}
    /\ dbState' = IF dbState = "up" THEN "down" ELSE "up"
    /\ UNCHANGED <<keyDb, keyMem, activeKey, stores, backedUp, collected, batch>>

\* The mutated form: an earlier share of the same guardian stays.
handleSignOwnShare_append(g) ==
    /\ batch = <<>> /\ Len(collected) <= BLS_THRESHOLD
    /\ getKeyForGuardian(g)
    /\ collected' = Append(collected, Share(g, keyFor(g)))
    /\ UNCHANGED <<keyDb, keyMem, dbState, stores, backedUp, batch>>

\* signAccessApproval; the share replaces an earlier one of the guardian.
handleSignOwnShare(g) ==
    /\ batch = <<>>
    /\ getKeyForGuardian(g)
    /\ collected' = Append(SelectSeq(collected, LAMBDA s : s.guardian # g), Share(g, keyFor(g)))
    /\ UNCHANGED <<keyDb, keyMem, dbState, stores, backedUp, batch>>

\* The first share of every guardian, in order.
uniqueShares(given) ==
    LET first(i) == \A j \in 1..(i - 1) : given[j].guardian # given[i].guardian
        kept == SelectSeq([i \in DOMAIN given |-> i], first)
    IN [k \in DOMAIN kept |-> given[kept[k]]]

\* Throws (no payload) on too few shares, on a share that does not verify,
\* and when the aggregate does not.
aggregateGuardianApprovalShares(given) ==
    LET unique == uniqueShares(given)
        chosen == SubSeq(unique, 1, IF Len(unique) < BLS_THRESHOLD THEN Len(unique) ELSE BLS_THRESHOLD)
        field(f(_)) == [i \in DOMAIN chosen |-> f(chosen[i])]
        sig == aggregateBLSSignatures(field(LAMBDA s : s.sig))
        pk == aggregateBLSPublicKeys(field(LAMBDA s : s.pk))
    IN IF \/ Len(given) < BLS_THRESHOLD
          \/ \E i \in DOMAIN chosen : ~verifyBLSSignature(chosen[i].sig, BLS_REQUEST, chosen[i].pk)
          \/ ~verifyAggregatedBLSSignature(sig, BLS_REQUEST, pk)
       THEN <<>>
       ELSE <<[guardians |-> field(LAMBDA s : s.guardian), shares |-> chosen,
               pk |-> pk, sig |-> sig]>>

\* The button is enabled once the shares reach the threshold.
handleAggregate ==
    /\ batch = <<>> /\ Len(collected) >= BLS_THRESHOLD
    /\ batch' = aggregateGuardianApprovalShares(collected) /\ batch' # <<>>
    /\ UNCHANGED <<keyDb, keyMem, activeKey, dbState, stores, backedUp, collected>>

\* The check a payload has to pass for a threshold.
verifyAggregatedApproval(payload, k) ==
    /\ Len(payload.guardians) >= k
    /\ verifyAggregatedBLSSignature(payload.sig, BLS_REQUEST, payload.pk)

BlsNext ==
    \/ \E g \in BlsGuardians : \/ generateKeyForGuardian(g)
                               \/ exportEncryptedBackup(g)
                               \/ handleSignOwnShare(g)
    \/ \E backup \in backedUp : importEncryptedBackup(backup)
    \/ DbChanges
    \/ handleAggregate

(***************************************************************************)
(* What the modal offers to submit is a quorum: as many different          *)
(* guardians as the threshold, an aggregate that verifies, and for each    *)
(* guardian of this browser a signature under a key that was stored for    *)
(* that guardian and for nobody else's sake, although keys are replaced,   *)
(* restored and read from storage that comes and goes while shares are     *)
(* collected (handleSignOwnShare, aggregateGuardianApprovalShares).        *)
(***************************************************************************)
BatchIsQuorum ==
    batch # <<>> =>
        /\ verifyAggregatedApproval(batch[1], BLS_THRESHOLD)
        /\ IsInjective(batch[1].guardians)
        /\ \A i \in DOMAIN batch[1].shares :
               LET s == batch[1].shares[i] IN
               s.guardian \in BlsGuardians =>
                   \E p \in stores : p[1] = s.guardian /\ getBLSPublicKey(p[2]) = s.pk
==============================================================================
