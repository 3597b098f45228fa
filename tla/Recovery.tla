------------------------------ MODULE Recovery ------------------------------
(***************************************************************************)
(* Other ways to a stored private key than its PIN: the recovery phrase    *)
(* and the paper shares of mnemonicKeyring.service.ts, and the passkeys of *)
(* webauthn.service.ts as clientKeyring.service.ts uses them.              *)
(*                                                                         *)
(* A private key is a number below 16 in place of 32 bytes, and a phrase   *)
(* two words of three bits in place of 24 of eleven: the key and a check   *)
(* sum.  SLIP-0039 shares, the check sum's hash and the authenticators'    *)
(* pseudo-random function are external.                                    *)
(***************************************************************************)
EXTENDS Integers, Sequences, FiniteSets

CONSTANTS
    Passphrases,             \* for paper shares
    ShareSchemes,            \* pairs <<threshold, count>> asked for
    Authenticators,          \* authenticator |-> when it gives its output: "never",
                             \*   "authentication" or "registration"
    MAX_PASSKEYS

RecoveryError == -1

VARIABLES
    exported,                \* what was exported: [key, phrase, shares, passphrase]
    recovered,               \* what the last recovery gave, and from what
    passkeys,                \* records protected by a passkey: [key, credentialId, prfSalt, blob]
    salts                    \* salts generated

phraseVars == <<exported, recovered>>
passkeyVars == <<passkeys, salts>>
-----------------------------------------------------------------------------
(* Recovery phrases and paper shares.                                      *)

checksum(entropy) == (5 * entropy + 3) % 4

entropyToMnemonic(entropy) ==
    LET bits == 4 * entropy + checksum(entropy) IN <<bits \div 8, bits % 8>>
wordBits(words) == 8 * words[1] + words[2]

\* A phrase as it is typed: the words, and whether with other spacing or case.
normalizeMnemonic(typed) == [typed EXCEPT !.messy = FALSE]

bip39Valid(typed) ==
    LET bits == wordBits(typed.words) IN ~typed.messy /\ bits % 4 = checksum(bits \div 4)

validateMnemonic(typed) == bip39Valid(normalizeMnemonic(typed))

mnemonicToEntropy(typed) == wordBits(typed.words) \div 4

validScalar(k) == k \in 1 .. 12

privateKeyToMnemonic(key) == entropyToMnemonic(key)

mnemonicToKeyPair(typed) ==
    LET normalized == normalizeMnemonic(typed)
        scalar == mnemonicToEntropy(normalized)
    IN IF bip39Valid(normalized) /\ validScalar(scalar) THEN scalar ELSE RecoveryError

\* What the slip39 library does: any threshold of the shares gives the secret back, another
\* passphrase an unrelated one.
slipShares(secret, passphrase, threshold, count) ==
    {[index |-> i, threshold |-> threshold, secret |-> secret, passphrase |-> passphrase] :
        i \in 1 .. count}
recoverSecret(shares, passphrase) ==
    LET one == CHOOSE s \in shares : TRUE
    IN IF shares = {} \/ Cardinality(shares) < one.threshold THEN RecoveryError
       ELSE IF one.passphrase = passphrase THEN one.secret ELSE (one.secret + 7) % 16

\* The phrase is split as it was typed.
mnemonicToShares_typed(typed, threshold, count, passphrase) ==
    IF threshold \notin 2 .. count \/ ~bip39Valid(typed) THEN {}
    ELSE slipShares(mnemonicToEntropy(typed), passphrase, threshold, count)

\* No shares where the scheme or the phrase is refused.
mnemonicToShares(typed, threshold, count, passphrase) ==
    LET normalized == normalizeMnemonic(typed)
    IN IF threshold \notin 2 .. count \/ ~bip39Valid(normalized) THEN {}
       ELSE slipShares(mnemonicToEntropy(normalized), passphrase, threshold, count)

sharesToMnemonic(shares, passphrase) ==
    LET secret == recoverSecret(shares, passphrase)
    IN IF secret = RecoveryError THEN <<>> ELSE entropyToMnemonic(secret)

NothingExported == [key |-> 0, phrase |-> <<>>, shares |-> {}, passphrase |-> ""]

RecoveryInit ==
    /\ exported = NothingExported
    /\ recovered = [key |-> 0, by |-> "nothing"]
    /\ passkeys = {} /\ salts = 0

exportMnemonic(key) ==
    /\ exported = NothingExported
    /\ exported' = [exported EXCEPT !.key = key, !.phrase = privateKeyToMnemonic(key)]
    /\ UNCHANGED recovered

\* Exports the phrase for itself and splits it.
exportShares(key, scheme, passphrase) ==
    LET words == privateKeyToMnemonic(key)
    IN /\ exported.shares = {} /\ exported.key \in {0, key}
       /\ exported' = [exported EXCEPT
             !.key = key,
             !.shares = mnemonicToShares([words |-> words, messy |-> FALSE],
                                         scheme[1], scheme[2], passphrase),
             !.passphrase = passphrase]
       /\ UNCHANGED recovered

recoverKeyPair(words, messy, by) ==
    /\ recovered' = [key |-> IF words = <<>> THEN RecoveryError
                             ELSE mnemonicToKeyPair([words |-> words, messy |-> messy]),
                     by |-> by]
    /\ UNCHANGED exported

\* With the phrase that was written down, or with some other one.
RecoverByPhrase ==
    /\ exported.phrase # <<>>
    /\ \E words \in (0 .. 7) \X (0 .. 7), messy \in BOOLEAN :
          recoverKeyPair(words, messy, IF words = exported.phrase THEN "phrase" ELSE "other phrase")

RecoverByShares ==
    \E shares \in SUBSET exported.shares, p \in Passphrases :
       /\ shares # {}
       /\ recoverKeyPair(sharesToMnemonic(shares, p), FALSE,
             IF \E s \in shares : Cardinality(shares) < s.threshold THEN "too few shares"
             ELSE IF p # exported.passphrase THEN "other passphrase" ELSE "enough shares")

PhraseNext ==
    \/ \E key \in 1 .. 12 : exportMnemonic(key)
    \/ \E key \in 1 .. 12, scheme \in ShareSchemes, p \in Passphrases : exportShares(key, scheme, p)
    \/ RecoverByPhrase
    \/ RecoverByShares
-----------------------------------------------------------------------------
(* Passkeys.                                                               *)

NoOutput == <<0, 0>>
prf(credential, salt) == <<credential, salt>>

\* The output is often given at authentication only.
registerPasskey(a, credential, prfSalt) ==
    LET given == Authenticators[a] = "registration"
    IN [credentialId |-> credential, prfEnabled |-> Authenticators[a] # "never",
        prfOutput |-> IF given THEN prf(credential, prfSalt) ELSE NoOutput]

\* The user may dismiss the authenticator, which is an error.
authenticatePasskey(credential, prfSalt, dismissed) ==
    IF dismissed THEN NoOutput ELSE prf(credential, prfSalt)

deriveAesKeyFromPrfOutput(output, salt) == <<output, salt>>

PRF_PAYLOAD_VERSION == 1
encryptWithPrfKey(plain, aesKey) ==
    [version |-> PRF_PAYLOAD_VERSION, under |-> aesKey, plain |-> plain]
decryptWithPrfKey(payload, aesKey) ==
    IF payload.version = PRF_PAYLOAD_VERSION /\ payload.under = aesKey
    THEN payload.plain ELSE RecoveryError

Protection(key, credential, prfSalt, output) ==
    [key |-> key, credentialId |-> credential, prfSalt |-> prfSalt,
     blob |-> encryptWithPrfKey(key, deriveAesKeyFromPrfOutput(output, prfSalt))]

\* The follow-up authentication has a salt of its own.
createPasskeyProtection_salt(a, key, credential, prfSalt, dismissed) ==
    LET r == registerPasskey(a, credential, prfSalt)
        output == IF r.prfOutput # NoOutput THEN r.prfOutput
                  ELSE authenticatePasskey(credential, prfSalt + 1, dismissed)
    IN IF r.prfEnabled /\ output # NoOutput
       THEN {Protection(key, credential, prfSalt, output)} ELSE {}

\* The record, or nothing where the authenticator cannot derive keys or the user gives up: the
\* caller then asks for a PIN.
createPasskeyProtection(a, key, credential, prfSalt, dismissed) ==
    LET r == registerPasskey(a, credential, prfSalt)
        output == IF r.prfOutput # NoOutput THEN r.prfOutput
                  ELSE authenticatePasskey(credential, prfSalt, dismissed)
    IN IF r.prfEnabled /\ output # NoOutput
       THEN {Protection(key, credential, prfSalt, output)} ELSE {}

decryptRecordWithPasskey(record, dismissed) ==
    LET output == authenticatePasskey(record.credentialId, record.prfSalt, dismissed)
    IN IF output = NoOutput THEN RecoveryError
       ELSE decryptWithPrfKey(record.blob, deriveAesKeyFromPrfOutput(output, record.prfSalt))

Protect(a, key, dismissed) ==
    /\ salts < MAX_PASSKEYS
    /\ salts' = salts + 1
    /\ passkeys' = passkeys \cup createPasskeyProtection(a, key, salts', salts', dismissed)

PasskeyNext ==
    \E a \in DOMAIN Authenticators, key \in 1 .. 2, dismissed \in BOOLEAN :
       Protect(a, key, dismissed)
-----------------------------------------------------------------------------
\* A key comes back as it was: from its phrase however it is typed, and from any threshold of its
\* paper shares with their passphrase; too few shares give nothing, and another phrase or another
\* passphrase, though nothing need say so, never the key.  A phrase can be split however it is
\* typed (privateKeyToMnemonic, mnemonicToKeyPair, mnemonicToShares, sharesToMnemonic).
PhraseRecovers ==
    /\ recovered.by \in {"phrase", "enough shares"} => recovered.key = exported.key
    /\ recovered.by = "too few shares" => recovered.key = RecoveryError
    /\ recovered.by \in {"other phrase", "other passphrase"} => recovered.key # exported.key
    /\ exported.phrase # <<>> =>
          \A messy \in BOOLEAN :
             LET typed == [words |-> exported.phrase, messy |-> messy]
             IN validateMnemonic(typed) /\ mnemonicToShares(typed, 2, 3, "") # {}

\* A record protected by a passkey opens with it, whichever way the authenticator gave its output,
\* to the key it was made for and to nothing where the user dismisses the authenticator
\* (createPasskeyProtection, decryptRecordWithPasskey).
PasskeyOpens ==
    \A p \in passkeys :
       /\ decryptRecordWithPasskey(p, FALSE) = p.key
       /\ decryptRecordWithPasskey(p, TRUE) = RecoveryError
=============================================================================
