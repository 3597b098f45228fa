----------------------------- MODULE Identities -----------------------------
(***************************************************************************)
(* The same person on two chains.  identity.service.ts keeps a list of     *)
(* linked addresses in localStorage, which the guardian form of the vaults *)
(* page (Vaults.tsx) looks addresses up in.  stellar.service.ts binds an   *)
(* EVM and a Stellar address by two signatures over one message, in a      *)
(* registry contract (CrossChainIdentityRegistry.sol; the contract of the  *)
(* same name for Soroban makes the same checks) or, when none is           *)
(* configured, in localStorage.                                            *)
(*                                                                         *)
(* A Stellar address stands for its public key too: callers of             *)
(* bindIdentity pass the key they decode from the address.                 *)
(***************************************************************************)
EXTENDS Naturals, Sequences, FiniteSets, SequencesExt

CONSTANTS
    EvmIds, StellarIds,   \* addresses
    NoId,                 \* null
    BINDING_AGE,          \* MAX_BINDING_AGE of the registry contract
    MAX_SIGNATURES, MAX_IDCLOCK, MAX_FORM

VARIABLES
    registry,             \* identity.service.ts: the pairs <<evm, stellar>>
    formGuardians,        \* the guardians in the form of a new vault
    registryUp,           \* isIdentityRegistryConfigured
    signatures,           \* made by the wallets: [by, evm, stellar, time]
    idClock,
    bindings,             \* the registry contract: pairs <<evm, stellar>>
    evmToStellar, stellarToEvm, evmToPubkey, publicKeys,  \* the maps in localStorage
    vouched               \* history: pairs given to registerCrossChainIdentity

linkVars == <<registry, formGuardians>>
bindingVars == <<registryUp, signatures, idClock, bindings, evmToStellar, stellarToEvm,
                 evmToPubkey, publicKeys, vouched>>
localMaps == <<evmToStellar, stellarToEvm, evmToPubkey, publicKeys>>

NoPublicKey == [of |-> NoId, use |-> "none"]

IdentitiesInit ==
    /\ registry = {} /\ formGuardians = <<>>
    /\ registryUp \in BOOLEAN /\ signatures = {} /\ idClock = 0 /\ bindings = {} /\ vouched = {}
    /\ evmToStellar = [e \in EvmIds |-> NoId] /\ stellarToEvm = [s \in StellarIds |-> NoId]
    /\ evmToPubkey = [e \in EvmIds |-> NoPublicKey]
    /\ publicKeys = [s \in StellarIds |-> NoPublicKey]

-----------------------------------------------------------------------------
(* Linked addresses and the guardian form.                                 *)

\* The Stellar address may be linked to another EVM address already.
Conflict_evm_only(e, s) == \E b \in registry : b[1] = e /\ b[2] # s

Conflict(e, s) == \E b \in registry : (b[1] = e /\ b[2] # s) \/ (b[2] = s /\ b[1] # e)

\* A pair that is there already is returned as it is.
registerIdentity(e, s) ==
    /\ ~Conflict(e, s)
    /\ registry' = registry \cup {<<e, s>>}
    /\ UNCHANGED formGuardians

resolveStellarAddress(a) ==
    IF a \in StellarIds THEN a
    ELSE IF \E b \in registry : b[1] = a THEN (CHOOSE b \in registry : b[1] = a)[2] ELSE NoId

resolveEVMAddress(a) ==
    IF a \in EvmIds THEN a
    ELSE IF \E b \in registry : b[2] = a THEN (CHOOSE b \in registry : b[2] = a)[1] ELSE NoId

resolveAddressForNetwork(a, network) ==
    IF network = "stellar" THEN resolveStellarAddress(a) ELSE resolveEVMAddress(a)

\* An address that does not resolve is added as it was typed.
handleAddGuardian(a) ==
    LET found == resolveAddressForNetwork(a, "stellar")
        added == IF found = NoId THEN a ELSE found
    IN /\ Len(formGuardians) < MAX_FORM
       /\ ~Contains(formGuardians, added)
       /\ formGuardians' = Append(formGuardians, added)
       /\ UNCHANGED registry

handleRemoveGuardian(a) ==
    /\ Contains(formGuardians, a)
    /\ formGuardians' = SelectSeq(formGuardians, LAMBDA g : g # a)
    /\ UNCHANGED registry

LinkNext ==
    \/ \E e \in EvmIds, s \in StellarIds : registerIdentity(e, s)
    \/ \E a \in EvmIds \cup StellarIds : handleAddGuardian(a) \/ handleRemoveGuardian(a)

-----------------------------------------------------------------------------
(* Bindings with two signatures.                                           *)

\* What both wallets sign: the two addresses and a time.
bindingMessage(e, s, t) == [evm |-> e, stellar |-> s, time |-> t]
MessageOf(sig) == bindingMessage(sig.evm, sig.stellar, sig.time)

Sign(by, e, s) ==
    /\ Cardinality(signatures) < MAX_SIGNATURES
    /\ signatures' = signatures \cup {[by |-> by, evm |-> e, stellar |-> s, time |-> idClock]}
    /\ UNCHANGED <<registryUp, idClock, bindings, localMaps, vouched>>

signIdentityBindingWithMetaMask(e, s) == Sign(e, e, s)
signIdentityBindingWithFreighter(e, s) == Sign(s, e, s)

\* Only the EVM signature is looked at.
Verified_evm(e, s, t, evmSig, stellarSig) ==
    evmSig.by = e /\ MessageOf(evmSig) = bindingMessage(e, s, t)

Verified(e, s, t, evmSig, stellarSig) ==
    /\ evmSig.by = e /\ MessageOf(evmSig) = bindingMessage(e, s, t)
    /\ stellarSig.by = s /\ MessageOf(stellarSig) = bindingMessage(e, s, t)

\* The contract: neither address is bound and the message is not too old.
registryBind(e, s, t, evmSig, stellarSig) ==
    /\ \A b \in bindings : b[1] # e /\ b[2] # s
    /\ t + BINDING_AGE >= idClock
    /\ Verified(e, s, t, evmSig, stellarSig)
    /\ bindings' = bindings \cup {<<e, s>>}
    /\ UNCHANGED <<registryUp, signatures, idClock, localMaps, vouched>>

\* Both directions, and the key for both addresses when there is one.
saveCrossChainBindingMock(e, s, key) ==
    /\ evmToStellar' = [evmToStellar EXCEPT ![e] = s]
    /\ stellarToEvm' = [stellarToEvm EXCEPT ![s] = e]
    /\ IF key = NoPublicKey THEN UNCHANGED <<evmToPubkey, publicKeys>>
       ELSE /\ evmToPubkey' = [evmToPubkey EXCEPT ![e] = key]
            /\ publicKeys' = [publicKeys EXCEPT ![s] = key]

bindIdentity(e, s, t, evmSig, stellarSig) ==
    IF registryUp THEN registryBind(e, s, t, evmSig, stellarSig)
    ELSE /\ Verified(e, s, t, evmSig, stellarSig)
         /\ saveCrossChainBindingMock(e, s, [of |-> s, use |-> "account"])
         /\ UNCHANGED <<registryUp, signatures, idClock, bindings, vouched>>

registerCrossChainIdentity(s, e) ==
    /\ saveCrossChainBindingMock(e, s, NoPublicKey)
    /\ vouched' = vouched \cup {<<e, s>>}
    /\ UNCHANGED <<registryUp, signatures, idClock, bindings>>

\* The encryption key of the connected account.
registerPublicKey(s) ==
    /\ publicKeys' = [publicKeys EXCEPT ![s] = [of |-> s, use |-> "encryption"]]
    /\ UNCHANGED <<registryUp, signatures, idClock, bindings, evmToStellar, stellarToEvm,
                   evmToPubkey, vouched>>

Later ==
    /\ idClock < MAX_IDCLOCK /\ idClock' = idClock + 1
    /\ UNCHANGED <<registryUp, signatures, bindings, localMaps, vouched>>

\* A query that fails, or finds nothing, falls back to localStorage; answers says whether the
\* registry's node does.
resolveEvmToStellar(e, answers) ==
    IF registryUp /\ answers /\ \E b \in bindings : b[1] = e
    THEN (CHOOSE b \in bindings : b[1] = e)[2] ELSE evmToStellar[e]

resolveStellarToEvm(s, answers) ==
    IF registryUp /\ answers /\ \E b \in bindings : b[2] = s
    THEN (CHOOSE b \in bindings : b[2] = s)[1] ELSE stellarToEvm[s]

getUserPublicKey(s) == publicKeys[s]

resolveEvmToPublicKey(e, answers) ==
    IF evmToPubkey[e] # NoPublicKey THEN evmToPubkey[e]
    ELSE LET s == resolveEvmToStellar(e, answers)
         IN IF s = NoId THEN NoPublicKey ELSE getUserPublicKey(s)

BindingNext ==
    \/ Later
    \/ \E e \in EvmIds, s \in StellarIds :
         \/ signIdentityBindingWithMetaMask(e, s) \/ signIdentityBindingWithFreighter(e, s)
         \/ registerCrossChainIdentity(s, e)
         \/ \E t \in 0 .. idClock, a, b \in signatures : bindIdentity(e, s, t, a, b)
    \/ \E s \in StellarIds : registerPublicKey(s)

-----------------------------------------------------------------------------
\* The linked addresses are one to one, so looking an address up and back gives the address itself
\* (registerIdentity, resolveStellarAddress, resolveEVMAddress), and the guardian form holds no
\* address twice, whether it was typed or looked up (handleAddGuardian).
LinksAreOneToOne ==
    /\ \A b \in registry : resolveStellarAddress(b[1]) = b[2] /\ resolveEVMAddress(b[2]) = b[1]
    /\ IsInjective(formGuardians)

SignedByBoth(e, s) ==
    \E t \in 0 .. idClock :
        {[by |-> x, evm |-> e, stellar |-> s, time |-> t] : x \in {e, s}} \subseteq signatures

\* Whatever way an address is resolved, the registry up or down, the pair was bound by a message
\* both wallets signed or registered directly; a key found for an EVM address is of an account it
\* was paired with; and the contract binds an address once (bindIdentity, resolveEvmToStellar,
\* resolveStellarToEvm, resolveEvmToPublicKey).
ResolvedIsBound ==
    /\ \A answers \in BOOLEAN, e \in EvmIds, s \in StellarIds :
         /\ (resolveEvmToStellar(e, answers) = s \/ resolveStellarToEvm(s, answers) = e)
               => SignedByBoth(e, s) \/ <<e, s>> \in vouched
         /\ resolveEvmToPublicKey(e, answers).of = s => SignedByBoth(e, s) \/ <<e, s>> \in vouched
    /\ \A b, c \in bindings : b[1] = c[1] <=> b[2] = c[2]
=============================================================================
