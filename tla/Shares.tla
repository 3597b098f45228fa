------------------------------- MODULE Shares -------------------------------
(***************************************************************************)
(* The sharing of a document's key among guardians: Feldman verifiable     *)
(* secret sharing and the GF(256) fallback of secrets.service.ts, and the  *)
(* proactive refresh of proactiveSecretSharing.ts, in both of its fields.  *)
(* The 256-bit safe primes are constants here: the code only uses that     *)
(* VSS_P = 2 VSS_Q + 1, and the arithmetic of a small pair is the same.    *)
(* The second half of the module is the erasure code of the ciphertexts,   *)
(* over the same field GF(256).                                            *)
(***************************************************************************)
EXTENDS Naturals, Sequences, FiniteSets

CONSTANTS VSS_Q, VSS_P, VSS_G,  \* the subgroup order, its safe prime, a generator
          PSS_FIELD_PRIME,      \* the field of the second sharing
          Scalars,              \* what the random source draws
          Secrets,              \* keys: [len: digits of the hex string, value]
          MAX_SHARES, MAX_EPOCHS

ASSUME SafePrime == VSS_P = 2 * VSS_Q + 1

VARIABLES scheme,       \* which sharing is in use: "vss", "pss" or "legacy"
          threshold,    \* K
          dealtSecret,  \* the key that was split
          shares,       \* one record per guardian, in guardian order
          commitments,  \* the public coefficient commitments (vss)
          zeroPolys,    \* what the guardians contributed to the running refresh
          epoch         \* refreshes so far

sharesVars == <<scheme, threshold, dealtSecret, shares, commitments, zeroPolys, epoch>>

Failed == [error |-> TRUE]

---------------------------------------------------------------------------
(* The field of 256 elements, with the tables that secrets.service.ts (and, *)
(* identically, erasureCoding.service.ts) builds when it is loaded.         *)

GF_POLYNOMIAL == 29
Byte == 0..255

\* Exclusive or of two bytes; the local function has its arguments evaluated once.
xor(a, b) ==
  LET sum[p \in Byte \X Byte] ==
        LET bits[i \in 0..8] ==
              IF i = 8 THEN 0
              ELSE (2^i) * ((p[1] \div 2^i + p[2] \div 2^i) % 2) + bits[i + 1]
        IN bits[0]
  IN sum[<<a, b>>]

doubled(x) == IF x >= 128 THEN xor(2 * x - 256, GF_POLYNOMIAL) ELSE 2 * x

\* The powers of two, sixteen at a time (the source's loop is one long chain).
EXP_TABLE ==
  LET sixteen[x \in Byte] ==
        LET t[i \in 0..15] == IF i = 0 THEN x ELSE doubled(t[i - 1]) IN t
      start[k \in 0..15] == IF k = 0 THEN 1 ELSE doubled(sixteen[start[k - 1]][15])
  IN [i \in 0..254 |-> sixteen[start[i \div 16]][i % 16]]

LOG_TABLE ==
  LET exps == EXP_TABLE
  IN [v \in 1..255 |-> CHOOSE i \in 0..254 : exps[i] = v]

gfMultiply(a, b) ==
  LET product[p \in Byte \X Byte] ==
        IF 0 \in {p[1], p[2]} THEN 0
        ELSE EXP_TABLE[(LOG_TABLE[p[1]] + LOG_TABLE[p[2]]) % 255]
  IN product[<<a, b>>]

gfInverse(a) == EXP_TABLE[(255 - LOG_TABLE[a]) % 255]

---------------------------------------------------------------------------
(* Modular arithmetic.                                                     *)

modAdd(a, b, m) == (a + b) % m
modSub(a, b, m) == (a + m - b) % m
modMul(a, b, m) == (a * b) % m

modPow(base, exp, m) ==
  LET power[e \in 0..exp] == IF e = 0 THEN 1 ELSE (power[e - 1] * (base % m)) % m
  IN power[exp]

modInverse(a, m) == modPow(a, m - 2, m)

\* a_1 + a_2 x + ... + a_k x^(k-1) modulo m, for the coefficients a of a polynomial.
EvalAt(a, x, m) ==
  LET upTo[j \in 0..Len(a)] ==
        IF j = 0 THEN 0
        ELSE modAdd(upTo[j - 1], modMul(a[j], modPow(x, j - 1, m), m), m)
  IN upTo[Len(a)]

\* The product of f over the positions of a sequence, modulo m.
ProductOver(n, f, m) ==
  LET upTo[j \in 0..n] == IF j = 0 THEN 1 ELSE modMul(upTo[j - 1], f[j], m)
  IN upTo[n]

SumOver(n, f, m) ==
  LET upTo[j \in 0..n] == IF j = 0 THEN 0 ELSE modAdd(upTo[j - 1], f[j], m)
  IN upTo[n]

---------------------------------------------------------------------------
(* Feldman sharing over VSS_Q.                                             *)

\* Shares and commitments of a key for n guardians; rand are the random coefficients.
splitSecretVSS(key, n, rand) ==
  LET coefficients == <<key.value>> \o rand
  IN [shares |-> [x \in 1..n |->
                    [x |-> x, len |-> key.len, y |-> EvalAt(coefficients, x, VSS_Q)]],
      commitments |-> [j \in 1..Len(coefficients) |->
                         modPow(VSS_G, coefficients[j], VSS_P)]]

\* Is the share on the committed polynomial?
verifyShare(share, comms) ==
  modPow(VSS_G, share.y, VSS_P)
    = ProductOver(Len(comms),
                  [j \in 1..Len(comms) |->
                     modPow(comms[j], modPow(share.x, j - 1, VSS_Q), VSS_P)],
                  VSS_P)

\* The Lagrange weight at zero of the i-th of the given shares.
LagrangeAtZero(held, i, m) ==
  ProductOver(Len(held),
              [j \in 1..Len(held) |->
                 IF j = i THEN 1
                 ELSE modMul(held[j].x, modInverse(modSub(held[j].x, held[i].x, m), m), m)],
              m)

---------------------------------------------------------------------------
(* The byte-wise GF(256) sharing earlier versions produced.                *)

\* One byte of the key from the coordinates <<x, y>> of the shares.
reconstructByte(coords) ==
  LET lagrange(i) ==
        LET upTo[j \in 0..Len(coords)] ==
              IF j = 0 THEN 1
              ELSE IF j = i THEN upTo[j - 1]
              ELSE gfMultiply(upTo[j - 1],
                              gfMultiply(coords[j][1],
                                         gfInverse(xor(coords[j][1], coords[i][1]))))
        IN upTo[Len(coords)]
      secret[i \in 0..Len(coords)] ==
        IF i = 0 THEN 0 ELSE xor(secret[i - 1], gfMultiply(coords[i][2], lagrange(i)))
  IN secret[Len(coords)]

\* What an earlier version dealt: a byte polynomial in GF(256) (that code is gone).
LegacyShare(key, slope, x) ==
  [x |-> x, bytes |-> <<xor(key.value, gfMultiply(slope, x))>>]

---------------------------------------------------------------------------
(* Reconstruction: the first share decides which field is used.            *)

reconstructSecret(held) ==
  IF held = <<>> THEN Failed
  ELSE IF "bytes" \in DOMAIN held[1]
  THEN IF \E i \in DOMAIN held : Len(held[i].bytes) # Len(held[1].bytes) THEN Failed
       ELSE [b \in 1..Len(held[1].bytes) |->
               reconstructByte([i \in DOMAIN held |-> <<held[i].x, held[i].bytes[b]>>])]
  ELSE IF \E i, j \in DOMAIN held : i # j /\ held[i].x = held[j].x THEN Failed
  ELSE [len |-> held[Len(held)].len,
        value |-> SumOver(Len(held),
                          [i \in DOMAIN held |->
                             modMul(held[i].y, LagrangeAtZero(held, i, VSS_Q), VSS_Q)],
                          VSS_Q)]

---------------------------------------------------------------------------
(* The proactive refresh of Feldman shares.                                *)

\* A guardian's polynomial through zero, its commitments and everyone's sub-share.
generateZeroPolynomialVSS(rand, n) ==
  LET coefficients == <<0>> \o rand
  IN [zeroCommitments |-> [m \in 1..Len(coefficients) |->
                             modPow(VSS_G, coefficients[m], VSS_P)],
      subshares |-> [j \in 1..n |-> EvalAt(coefficients, j, VSS_Q)]]

verifyZeroShareContribution(contribution, x, zeroComms) ==
  modPow(VSS_G, contribution, VSS_P)
    = ProductOver(Len(zeroComms),
                  [m \in 1..Len(zeroComms) |->
                     modPow(zeroComms[m], modPow(x, m - 1, VSS_Q), VSS_P)],
                  VSS_P)

updateShareVSS(share, contributions) ==
  [share EXCEPT !.y =
     modAdd(@, SumOver(Len(contributions), contributions, VSS_Q), VSS_Q)]

updateCommitmentsVSS(comms, matrix) ==
  [m \in 1..Len(comms) |->
     modMul(comms[m],
            ProductOver(Len(matrix), [i \in 1..Len(matrix) |-> matrix[i][m]], VSS_P),
            VSS_P)]

\* The end of a refresh, once every guardian has contributed: what it returns, if no check of it
\* throws.
proactiveRefreshVSS(held, comms, k, polys) ==
  {new \in {[shares |-> [j \in 1..Len(held) |->
                           updateShareVSS(held[j], [i \in 1..Len(held) |-> polys[i].subshares[j]])],
             commitments |-> updateCommitmentsVSS(comms,
                               [i \in 1..Len(held) |-> polys[i].zeroCommitments])]} :
     /\ \A i, j \in 1..Len(held) : verifyZeroShareContribution(
                                     polys[i].subshares[j], j, polys[i].zeroCommitments)
     /\ new.commitments[1] = comms[1]
     /\ \A j \in 1..Len(held) : verifyShare(new.shares[j], new.commitments)
     /\ reconstructSecret(SubSeq(new.shares, 1, k)) = reconstructSecret(SubSeq(held, 1, k))}

---------------------------------------------------------------------------
(* The same refresh over the Mersenne field, without commitments.          *)

makeRandomPolynomial(intercept, rand) == <<intercept % PSS_FIELD_PRIME>> \o rand

evaluatePolynomial(coeffs, x) ==
  LET horner[i \in 1..Len(coeffs) + 1] ==
        IF i > Len(coeffs) THEN 0
        ELSE (horner[i + 1] * x + coeffs[i]) % PSS_FIELD_PRIME
  IN horner[1]

splitSecret(value, n, rand) ==
  LET poly == makeRandomPolynomial(value, rand)
  IN [j \in 1..n |-> [x |-> j, y |-> evaluatePolynomial(poly, j)]]

\* Draws a polynomial that does not vanish at zero.
generateZeroShares_free(points, rand) ==
  [p \in points |-> evaluatePolynomial(makeRandomPolynomial(1, rand), p)]

generateZeroShares(points, rand) ==
  [p \in points |-> evaluatePolynomial(makeRandomPolynomial(0, rand), p)]

addContribution(share, contribution) ==
  [share EXCEPT !.y = (@ + contribution) % PSS_FIELD_PRIME]

combineShares(held, k) ==
  IF Len(held) < k THEN Failed
  ELSE SumOver(k,
               [i \in 1..k |->
                  modMul(held[i].y, LagrangeAtZero(SubSeq(held, 1, k), i, PSS_FIELD_PRIME),
                         PSS_FIELD_PRIME)],
               PSS_FIELD_PRIME)

proactiveRefresh(held, contributions) ==
  [j \in DOMAIN held |->
     LET after[i \in 0..Len(held)] ==
           IF i = 0 THEN held[j]
           ELSE addContribution(after[i - 1], contributions[i][held[j].x])
     IN after[Len(held)]]

---------------------------------------------------------------------------
Rands(k) == [1..(k - 1) -> Scalars]

\* The owner splits a key; the guardian count is at least the threshold.
SharesInit ==
  /\ scheme \in {"vss", "pss", "legacy"}
  /\ threshold \in 1..MAX_SHARES
  /\ dealtSecret \in Secrets
  /\ scheme = "legacy" => threshold = 2
  /\ zeroPolys = <<>> /\ epoch = 0
  /\ \E n \in threshold..MAX_SHARES, rand \in Rands(threshold) :
       CASE scheme = "vss" ->
              LET split == splitSecretVSS(dealtSecret, n, rand)
              IN shares = split.shares /\ commitments = split.commitments
         [] scheme = "pss" ->
              /\ shares = splitSecret(dealtSecret.value, n, rand)
              /\ commitments = <<>>
         [] scheme = "legacy" ->
              /\ shares = [x \in 1..n |-> LegacyShare(dealtSecret, rand[1], x)]
              /\ commitments = <<>>

\* The next guardian's contribution arrives (the refresh awaits each in turn).
Contribute ==
  /\ scheme \in {"vss", "pss"} /\ epoch < MAX_EPOCHS
  /\ Len(zeroPolys) < Len(shares)
  /\ \E rand \in Rands(threshold) :
       zeroPolys' = Append(zeroPolys,
                      IF scheme = "vss"
                      THEN generateZeroPolynomialVSS(rand, Len(shares))
                      ELSE generateZeroShares({shares[j].x : j \in DOMAIN shares}, rand))
  /\ UNCHANGED <<scheme, threshold, dealtSecret, shares, commitments, epoch>>

FinishRefresh ==
  /\ Len(zeroPolys) = Len(shares)
  /\ IF scheme = "pss"
     THEN /\ shares' = proactiveRefresh(shares, zeroPolys)
          /\ UNCHANGED commitments
     ELSE LET results == proactiveRefreshVSS(shares, commitments, threshold, zeroPolys)
          IN \/ \E new \in results : shares' = new.shares /\ commitments' = new.commitments
             \/ results = {} /\ UNCHANGED <<shares, commitments>>   \* the caller keeps what it had
  /\ zeroPolys' = <<>>
  /\ epoch' = epoch + 1
  /\ UNCHANGED <<scheme, threshold, dealtSecret>>

SharesNext == Contribute \/ FinishRefresh

---------------------------------------------------------------------------
\* The shares of a set of guardians, as the beneficiary collects them.
HeldBy(g) ==
  LET nth[i \in 1..Cardinality(g)] ==
        CHOOSE x \in g : Cardinality({y \in g : y < x}) = i - 1
  IN [i \in 1..Cardinality(g) |-> shares[nth[i]]]

Recovered(g) ==
  CASE scheme = "vss" -> reconstructSecret(HeldBy(g))
    [] scheme = "pss" -> [len |-> dealtSecret.len, value |-> combineShares(HeldBy(g), threshold)]
    [] scheme = "legacy" -> [len |-> dealtSecret.len, value |-> reconstructSecret(HeldBy(g))[1]]

(* Any threshold of guardians of the same epoch gives back exactly the key  *)
(* that was split, leading zeros included, however many refreshes went by   *)
(* (reconstructSecret, combineShares, proactiveRefreshVSS), and a Feldman   *)
(* share verifies against the current commitments if and only if its value  *)
(* is the one that was dealt (verifyShare): a refreshed share is never      *)
(* refused and a damaged one never accepted.                                *)
AnyThresholdRecovers ==
  /\ \A g \in SUBSET DOMAIN shares :
       Cardinality(g) >= threshold => Recovered(g) = dealtSecret
  /\ scheme = "vss" =>
       \A i \in DOMAIN shares, y \in 0..(VSS_Q - 1) :
         verifyShare([shares[i] EXCEPT !.y = y], commitments) <=> y = shares[i].y

---------------------------------------------------------------------------
(***************************************************************************)
(* erasureCoding.service.ts: a ciphertext is split into M data shards and  *)
(* P Reed-Solomon parity shards, pinned round-robin on the configured      *)
(* nodes, fetched again from the nodes the manifest names, and decoded     *)
(* from the M lowest-numbered shards that came back.  Indices of shards,   *)
(* rows and columns count from 0 as in the source; byte strings are        *)
(* sequences.                                                              *)
(***************************************************************************)
CONSTANTS ShardConfigs,   \* <<M, P>> pairs
          Payloads,       \* ciphertexts: sequences of bytes
          NodeLists       \* sequences of pinning nodes, as buildDefaultNodes lists them

VARIABLES config, payload, nodes,
          manifest,       \* what distributeShards returned, or <<>> before that
          retrieved,      \* the shards retrieveShards returned
          outcome         \* "encoding", "pinned", "retrieved", "decoded", "failed"

erasureVars == <<config, payload, nodes, manifest, retrieved, outcome>>

---------------------------------------------------------------------------
(* The field again, as erasureCoding.service.ts writes it, and matrices.   *)

gfExp == EXP_TABLE
gfMul(a, b) == gfMultiply(a, b)
gfDiv(a, b) ==
  IF a = 0 THEN 0 ELSE gfExp[(LOG_TABLE[a] + 255 - LOG_TABLE[b]) % 255]
gfAdd(a, b) == xor(a, b)

\* The sum over k of f[k] in the field, k in 0..n-1.
GfSum(n, f) ==
  LET upTo[k \in 0..n] == IF k = 0 THEN 0 ELSE gfAdd(upTo[k - 1], f[k - 1])
  IN upTo[n]

\* The combination of n rows of bytes with the given coefficients.
Combined(coefficients, rows, n) ==
  [b \in DOMAIN rows[0] |-> GfSum(n, [k \in 0..(n - 1) |-> gfMul(coefficients[k], rows[k][b])])]

\* The rows 0 .. n - 1 one after the other.
JoinedShards(rows, n) ==
  LET upTo[k \in 0..n] == IF k = 0 THEN <<>> ELSE upTo[k - 1] \o rows[k - 1]
  IN upTo[n]

\* Entry (r, c) is the inverse of c + (cols + r): distinct points, so never of zero.
buildCauchyMatrix(rows, cols) ==
  [r \in 0..(rows - 1) |-> [c \in 0..(cols - 1) |-> gfDiv(1, gfAdd(c, cols + r))]]

buildEncodingMatrix(m, p) ==
  LET cauchy == buildCauchyMatrix(p, m)
  IN [r \in 0..(m + p - 1) |->
        [c \in 0..(m - 1) |->
           IF r >= m THEN cauchy[r - m][c] ELSE IF r = c THEN 1 ELSE 0]]

\* Gauss-Jordan elimination of the matrix beside the identity, column by column.
invert(a, n) ==
  LET Cols == 0..(2 * n - 1)
      augmented == [r \in 0..(n - 1) |->
                      [c \in Cols |-> IF c < n THEN a[r][c] ELSE IF c - n = r THEN 1 ELSE 0]]
      eliminate(aug, col) ==
        LET pivot == CHOOSE r \in col..(n - 1) :
                       aug[r][col] # 0 /\ \A q \in col..(r - 1) : aug[q][col] = 0
            swapped == [aug EXCEPT ![col] = aug[pivot], ![pivot] = aug[col]]
            scaled == [c \in Cols |-> gfDiv(swapped[col][c], swapped[col][col])]
        IN [r \in 0..(n - 1) |->
              IF r = col THEN scaled
              ELSE [c \in Cols |->
                      gfAdd(swapped[r][c], gfMul(swapped[r][col], scaled[c]))]]
      step[col \in 0..n] == IF col = 0 THEN augmented ELSE eliminate(step[col - 1], col - 1)
      reduced == step[n]
  IN [r \in 0..(n - 1) |-> [c \in 0..(n - 1) |-> reduced[r][c + n]]]

---------------------------------------------------------------------------
(* Encoding and decoding.                                                  *)

\* The shard size is rounded down.
padAndSplit_floor(data, m) ==
  LET shardSize == Len(data) \div m
  IN [i \in 0..(m - 1) |-> SubSeq(data, i * shardSize + 1, (i + 1) * shardSize)]

padAndSplit(data, m) ==
  LET shardSize == (Len(data) + m - 1) \div m
      padded == [i \in 1..(shardSize * m) |-> IF i <= Len(data) THEN data[i] ELSE 0]
  IN [i \in 0..(m - 1) |-> SubSeq(padded, i * shardSize + 1, (i + 1) * shardSize)]

\* Shard number -> its bytes; numbers below m are the data shards.
encode(data, m, p) ==
  LET raw == padAndSplit(data, m)
  IN [s \in 0..(m + p - 1) |->
        IF s < m THEN raw[s] ELSE Combined(buildEncodingMatrix(m, p)[s], raw, m)]

\* The n-th smallest member, from 0.
Nth(S, n) == CHOOSE x \in S : Cardinality({y \in S : y < x}) = n

\* The payload from the shards available (a function of their numbers): the first m of them, the
\* inverse of their rows of the encoding matrix, and the data shards as their combinations.
decode(available, m, p, originalSize) ==
  LET selected == [i \in 0..(m - 1) |-> Nth(DOMAIN available, i)]
      inverse == invert([i \in 0..(m - 1) |-> buildEncodingMatrix(m, p)[selected[i]]], m)
      received == [i \in 0..(m - 1) |-> available[selected[i]]]
      size == m * Len(available[selected[0]])
  IN SubSeq(JoinedShards([d \in 0..(m - 1) |-> Combined(inverse[d], received, m)], m),
            1, IF originalSize < size THEN originalSize ELSE size)

\* The payload as the parity shards, when there are enough of them, or else the data shards tell it.
Canonical(all, m, p) ==
  IF p >= m THEN decode([s \in m..(m + p - 1) |-> all[s]], m, p, m * Len(all[0])) ELSE JoinedShards(all, m)

\* The shards that differ from a re-encoding of that payload.
verifyShards(all, m, p) ==
  {s \in DOMAIN all : \A data \in {Canonical(all, m, p)} : all[s] # encode(data, m, p)[s]}

---------------------------------------------------------------------------
(* Distribution and retrieval.                                             *)

M == config[1]
P == config[2]
Shards == encode(payload, M, P)

ErasureInit ==
  /\ config \in ShardConfigs
  /\ payload \in Payloads
  /\ nodes \in NodeLists
  /\ manifest = <<>>
  /\ retrieved = <<>>
  /\ outcome = "encoding"

\* Every upload settles: the read-only gateway refuses, any other may fail.
distributeShards ==
  /\ outcome = "encoding"
  /\ \E pinned \in SUBSET {s \in 0..(M + P - 1) : nodes[(s % Len(nodes)) + 1] # "ipfs.io"} :
       manifest' = [s \in pinned |-> nodes[(s % Len(nodes)) + 1]]
  /\ outcome' = "pinned"
  /\ UNCHANGED <<config, payload, nodes, retrieved>>

\* Every shard of the manifest is fetched from the node that pinned it, or is lost.
retrieveShards ==
  /\ outcome = "pinned"
  /\ \E got \in SUBSET DOMAIN manifest :
       IF Cardinality(got) < M
       THEN retrieved' = <<>> /\ outcome' = "failed"
       ELSE retrieved' = [s \in got |-> Shards[s]] /\ outcome' = "retrieved"
  /\ UNCHANGED <<config, payload, nodes, manifest>>

ErasureNext == distributeShards \/ retrieveShards

---------------------------------------------------------------------------
(* Whichever shards come back, as long as retrieveShards does not throw,    *)
(* decode returns the payload itself, padding stripped; verifyShards finds  *)
(* nothing on an intact set, and something as soon as a shard of it, data   *)
(* or parity, was altered in some byte.                                     *)
ShardsRecover ==
  /\ outcome = "retrieved" => decode(retrieved, M, P, Len(payload)) = payload
  /\ outcome = "encoding" =>
       /\ \A all \in {Shards} : verifyShards(all, M, P) = {}
       /\ payload # <<>> =>
            \A altered \in {[Shards EXCEPT ![s][1] = (@ + 1) % 256] : s \in 0..(M + P - 1)} :
               verifyShards(altered, M, P) # {}

=============================================================================
