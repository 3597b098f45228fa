------------------------------- MODULE Sealing -------------------------------
(***************************************************************************)
(* Sealed payloads: timelock encryption, and the public-key envelopes.     *)
(***************************************************************************)
EXTENDS Naturals, Sequences, Integers, FiniteSets
(***************************************************************************)
(* vdf.ts: timelock encryption.  The key of a ciphertext is the result of  *)
(* T sequential squarings modulo an RSA modulus; the output travels with a *)
(* Wesolowski proof, and a Pietrzak proof can be made of it.  The hash     *)
(* behind the two Fiat-Shamir challenges is an oracle: a behaviour starts  *)
(* with the digests it will give, the same for prover and verifier.        *)
(***************************************************************************)

CONSTANTS Moduli,    \* RSA moduli N
          Delays,    \* numbers of squarings T
          Elements,  \* starting elements x
          Digests    \* what the hash may answer

VARIABLES vdf,       \* [x, T, N]
          digests,   \* the oracle: one digest per challenge
          sealed     \* the ciphertext and its proof, or Unsealed

timelockVars == <<vdf, digests, sealed>>

Unsealed == [y |-> 0, pi |-> 0, l |-> 0, key |-> 0]
ROUNDS == 3   \* enough halvings for the largest delay

modExp(base, exp, m) ==
  LET power[e \in 0..exp] == IF e = 0 THEN 1 % m ELSE (power[e - 1] * (base % m)) % m
  IN power[exp]

evaluateVdf(x, T, N) ==
  LET y[i \in 0..T] == IF i = 0 THEN x % N ELSE LET z == y[i - 1] IN (z * z) % N
  IN y[T]

\* The challenge: at least three, and odd.
fiatShamirChallenge(digest) ==
  LET l == IF digest < 3 THEN 3 ELSE digest
  IN IF l % 2 = 0 THEN l + 1 ELSE l

\* Multiplies before it squares.
proveWesolowski_order(x, T, N, digest) ==
  LET l == fiatShamirChallenge(digest)
      pass[i \in 0..T] ==
        IF i = 0 THEN [pi |-> 1, rem |-> 1]
        ELSE LET before == pass[i - 1]
                 base == IF 2 * before.rem >= l THEN (before.pi * (x % N)) % N ELSE before.pi
             IN [pi |-> (base * base) % N, rem |-> (2 * before.rem) % l]
  IN [y |-> evaluateVdf(x, T, N), pi |-> pass[T].pi, l |-> l, r |-> pass[T].rem]

\* The proof is made in the same pass: rem = 2^i mod l, pi = x^(2^i div l).
proveWesolowski(x, T, N, digest) ==
  LET l == fiatShamirChallenge(digest)
      pass[i \in 0..T] ==
        IF i = 0 THEN [pi |-> 1, rem |-> 1]
        ELSE LET before == pass[i - 1]
                 squared == (before.pi * before.pi) % N
             IN [pi |-> IF 2 * before.rem >= l THEN (squared * (x % N)) % N ELSE squared,
                 rem |-> (2 * before.rem) % l]
  IN [y |-> evaluateVdf(x, T, N), pi |-> pass[T].pi, l |-> l, r |-> pass[T].rem]

verifyWesolowski(x, T, N, proof, digest) ==
  /\ proof.l = fiatShamirChallenge(digest)
  /\ proof.r = modExp(2, T, proof.l)
  /\ (modExp(proof.pi, proof.l, N) * modExp(x % N, proof.r, N)) % N = proof.y % N

pietrzakChallenge(digest) == IF digest = 0 THEN 1 ELSE digest

PowersOfTwo == {2^i : i \in 1..ROUNDS}

Log2(T) == CHOOSE i \in 0..T : 2^i = T

\* One halving: the statement (x, y, T) folded with mu and the challenge.
Halve(s, mu, digest, N) ==
  LET r == pietrzakChallenge(digest)
  IN [x |-> (modExp(s.x, r, N) * mu) % N,
      y |-> (modExp(mu, r, N) * s.y) % N,
      T |-> s.T \div 2]

\* The midpoints mu of the successive halvings.
provePietrzak(x, T, N, ds) ==
  LET y == evaluateVdf(x % N, T, N)
      round[i \in 0..Log2(T)] ==
        IF i = 0 THEN [s |-> [x |-> x % N, y |-> y, T |-> T], mus |-> <<>>]
        ELSE LET was == round[i - 1]
                 mu == evaluateVdf(was.s.x, was.s.T \div 2, N)
             IN [s |-> Halve(was.s, mu, ds[i], N), mus |-> Append(was.mus, mu)]
  IN [y |-> y, mus |-> round[Log2(T)].mus]

verifyPietrzak(x, T, N, proof, ds) ==
  LET s[i \in 0..Len(proof.mus)] ==
        IF i = 0 THEN [x |-> x % N, y |-> proof.y % N, T |-> T]
        ELSE Halve(s[i - 1], proof.mus[i], ds[i], N)
      last == s[Len(proof.mus)]
  IN /\ T \in PowersOfTwo
     /\ Len(proof.mus) = Log2(T)
     /\ \A i \in DOMAIN proof.mus : proof.mus[i] \in 1..(N - 1)
     /\ last.T = 1 /\ (last.x * last.x) % N = last.y

---------------------------------------------------------------------------
TimelockInit ==
  /\ vdf \in [x : Elements, T : Delays, N : Moduli]
  /\ digests \in [1..ROUNDS -> Digests]
  /\ sealed = Unsealed

\* The document key is the hash of the output; the proof is stored beside it.
encryptTimelock ==
  /\ sealed = Unsealed
  /\ LET proof == proveWesolowski(vdf.x, vdf.T, vdf.N, digests[1])
     IN sealed' = [y |-> proof.y, pi |-> proof.pi, l |-> proof.l, key |-> proof.y]
  /\ UNCHANGED <<vdf, digests>>

\* Does the payload open: output re-evaluated, proof verified, key derived.
decryptTimelock(box) ==
  /\ evaluateVdf(vdf.x, vdf.T, vdf.N) = box.y
  /\ verifyWesolowski(vdf.x, vdf.T, vdf.N,
                      [y |-> box.y, pi |-> box.pi, l |-> box.l,
                       r |-> modExp(2, vdf.T, box.l)], digests[1])
  /\ box.key = box.y

TimelockNext == encryptTimelock

---------------------------------------------------------------------------
(* A document sealed by encryptTimelock opens again whatever the challenge  *)
(* turned out to be, and not under any other claimed output; and every      *)
(* Pietrzak proof the prover makes satisfies its verifier, whatever the     *)
(* challenges of its rounds.                                                *)
SealedOpens ==
  /\ sealed # Unsealed =>
       /\ decryptTimelock(sealed)
       /\ \A y \in 0..(vdf.N - 1) : decryptTimelock([sealed EXCEPT !.y = y]) => y = sealed.y
  /\ vdf.T \in PowersOfTwo =>
       LET proof == provePietrzak(vdf.x, vdf.T, vdf.N, digests)
       IN (\A i \in DOMAIN proof.mus : proof.mus[i] # 0)
            => verifyPietrzak(vdf.x, vdf.T, vdf.N, proof, digests)
------------------------------------------------------------------------------
(***************************************************************************)
(* The public-key envelopes of src/utils/crypto.ts: ECDH P-256 with        *)
(* AES-GCM, the older NaCl box, and the two hybrid formats that add        *)
(* ML-KEM-768.  A key exchange is the set of the two keys in it, an        *)
(* authenticated ciphertext opens under the key it was made with, and a    *)
(* decapsulation with another key gives an unrelated secret, as the        *)
(* standard says.                                                          *)
(***************************************************************************)
CONSTANTS
    P256Keys, X25519Keys, KemKeys,  \* key pairs, by name
    Messages,                       \* plaintexts
    MAX_SEALED                      \* envelopes made

Error == "error"
NoKem == "none"

VARIABLE envelopes  \* envelopes made: the payload, and for whom

eciesVars == <<envelopes>>

importECIESPublicKey(k) == k \in P256Keys
importECIESPrivateKey(k) == k \in P256Keys

\* The exchange of a private and a public key, the same from either side.
deriveEcdhP256SharedBits(priv, pub) == {priv, pub}

\* Fresh on every call: its secret is named by the key it is for.
mlKem768Encapsulate(pk) == [for |-> pk]
mlKem768Decapsulate(ct, sk) == IF ct.for = sk THEN ct.for ELSE "unrelated"

\* The mutated form: the second secret is left out of the key material.
deriveHybridAesKey_classical(classical, kem) == <<classical, NoKem>>
deriveHybridAesKey(classical, kem) == <<classical, kem>>

Sealed(version, eph, key, m, kem) ==
    [version |-> version, eph |-> eph, key |-> key, text |-> m, kem |-> kem]
Opened(p, key) == IF p.key = key THEN p.text ELSE Error

encryptWithPublicKey(m, pk) ==
    Sealed("ecies", "e", <<deriveEcdhP256SharedBits("e", pk), NoKem>>, m, mlKem768Encapsulate(NoKem))

\* nacl.box of earlier releases.
LegacyBox(m, pk) == Sealed("legacy", "e", <<{"e", pk}, NoKem>>, m, mlKem768Encapsulate(NoKem))

encryptHybridWithPublicKeys(m, pk, kemPk) ==
    Sealed("hybrid", "e", deriveHybridAesKey(deriveEcdhP256SharedBits("e", pk), kemPk), m,
           mlKem768Encapsulate(kemPk))

encryptHybridX25519WithPublicKeys(m, pk, kemPk) ==
    Sealed("hybrid-x25519", "e", deriveHybridAesKey({"e", pk}, kemPk), m,
           mlKem768Encapsulate(kemPk))

decryptWithPrivateKey(p, sk) ==
    CASE p.version = "ecies" ->
             IF importECIESPrivateKey(sk)
             THEN Opened(p, <<deriveEcdhP256SharedBits(sk, p.eph), NoKem>>) ELSE Error
      [] p.version = "legacy" -> Opened(p, <<{sk, p.eph}, NoKem>>)
      [] OTHER -> Error

decryptHybridX25519(p, keys) ==
    IF keys.classical \in X25519Keys
    THEN Opened(p, deriveHybridAesKey({keys.classical, p.eph},
                                      mlKem768Decapsulate(p.kem, keys.pqc)))
    ELSE Error

\* By version; anything that is not hybrid is opened by the classical key.
decryptHybridWithPrivateKeys(p, keys) ==
    CASE p.version = "hybrid-x25519" -> decryptHybridX25519(p, keys)
      [] p.version = "hybrid" ->
             IF importECIESPrivateKey(keys.classical)
             THEN Opened(p, deriveHybridAesKey(deriveEcdhP256SharedBits(keys.classical, p.eph),
                                               mlKem768Decapsulate(p.kem, keys.pqc)))
             ELSE Error
      [] OTHER -> decryptWithPrivateKey(p, keys.classical)

KeySets == [classical : P256Keys \cup X25519Keys, pqc : KemKeys]

EciesInit == envelopes = {}

Seal(payload, keys) ==
    /\ Cardinality(envelopes) < MAX_SEALED
    /\ envelopes' = envelopes \cup {[payload |-> payload, for |-> keys]}

EciesNext ==
    \E m \in Messages, keys \in KeySets :
        \/ /\ importECIESPublicKey(keys.classical)
           /\ Seal(encryptWithPublicKey(m, keys.classical), keys)
        \/ keys.classical \in X25519Keys /\ Seal(LegacyBox(m, keys.classical), keys)
        \/ /\ importECIESPublicKey(keys.classical)
           /\ Seal(encryptHybridWithPublicKeys(m, keys.classical, keys.pqc), keys)
        \/ /\ keys.classical \in X25519Keys
           /\ Seal(encryptHybridX25519WithPublicKeys(m, keys.classical, keys.pqc), keys)

(***************************************************************************)
(* An envelope of any of the four formats is opened, to the message that   *)
(* was sealed, by exactly the key sets that have the receiver's classical  *)
(* key and, for a hybrid envelope, the receiver's ML-KEM key as well: one  *)
(* of the two is never enough (decryptHybridWithPrivateKeys and what it    *)
(* falls back to).                                                         *)
(***************************************************************************)
OpensForReceiver ==
    \A e \in envelopes : \A keys \in KeySets :
        LET entitled == /\ keys.classical = e.for.classical
                        /\ (e.payload.version \in {"hybrid", "hybrid-x25519"}
                               => keys.pqc = e.for.pqc)
        IN decryptHybridWithPrivateKeys(e.payload, keys) =
               IF entitled THEN e.payload.text ELSE Error
==============================================================================
