---------------------------- MODULE Sponsorship -----------------------------
(***************************************************************************)
(* Gasless guardian actions.  src/services/userOp.service.ts builds, signs *)
(* and sends user operations; a bundler hands them, several at a time, to  *)
(* the ERC-4337 entry point, which asks SpooPaymaster.sol whether to pay   *)
(* for each and, once it has run, tells it the cost.  Bundler and entry    *)
(* point are external: a bundle is one transaction that first validates    *)
(* all its operations and then runs them.                                  *)
(*                                                                         *)
(* Gas fields keep their defaults.  A call is [method, param]; the vault   *)
(* contract is asked only for the creator of a vault and the vault of a    *)
(* request.                                                                *)
(***************************************************************************)
EXTENDS Naturals, Sequences, FiniteSets, FiniteSetsExt, SequencesExt

CONSTANTS
    SpGuardians,          \* smart accounts, numbers that are no vault's
    SpVaults, CreatorOf,  \* vault ids, and vault |-> creator
    VaultOfRequest,       \* request id |-> its vault, 0 where there is none
    MAX_COST,             \* the most an operation may cost
    Deposits,             \* amounts paid in
    MAX_OPS_PER_WINDOW, MAX_VAULT_OPS_PER_WINDOW, RATE_WINDOW,
    MAX_BUNDLE,           \* operations in a bundle
    MAX_SIGNED, MAX_DEPOSITS, MAX_SPTIME

ASSUME SponsorshipConstants == RATE_WINDOW > 0 /\ SpGuardians \cap SpVaults = {}

VARIABLES
    signedOps,            \* operations the service signed
    pool,                 \* operations at the bundler
    bundle,               \* validated and not yet run: [op, vault, isVaultBalance]
    running,              \* the bundle runs: nothing more is validated
    epNonce, epDeposit,   \* the entry point: nonce of an account, deposit of the paymaster
    vaultSponsorBalances, creatorSponsorBalances,
    opCount, windowStart, \* of guardians and vaults
    deposits, spTime,
    validations           \* history: [guardian, vault, at]

clientOpVars == <<signedOps, pool>>
paymasterVars == <<vaultSponsorBalances, creatorSponsorBalances, opCount, windowStart>>
onChainVars == <<bundle, running, epNonce, epDeposit, paymasterVars, deposits, spTime, validations>>
sponsorVars == <<clientOpVars, onChainVars>>

\* The clock starts when a window has passed since 1970.
SponsorInit ==
    /\ signedOps = {} /\ pool = {} /\ bundle = <<>> /\ running = FALSE
    /\ epNonce = [g \in SpGuardians |-> 0] /\ epDeposit = 0
    /\ vaultSponsorBalances = [v \in SpVaults |-> 0]
    /\ creatorSponsorBalances = [c \in Range(CreatorOf) |-> 0]
    /\ opCount = [x \in SpGuardians \cup SpVaults |-> 0]
    /\ windowStart = [x \in SpGuardians \cup SpVaults |-> 0]
    /\ deposits = 0 /\ spTime = RATE_WINDOW /\ validations = <<>>

-----------------------------------------------------------------------------
(* The service.                                                            *)

buildApproveAccessCallData(request) == [method |-> "approveAccess", param |-> request]
buildAcceptGuardianInviteCallData(vault) == [method |-> "acceptGuardianInvite", param |-> vault]
buildAccountExecuteCallData(target, inner) == [target |-> target, inner |-> inner]

\* A vault id of 0 is not passed on.
buildPaymasterAndData(vault) == IF vault > 0 THEN <<"paymaster", vault>> ELSE <<"paymaster">>

buildGaslessUserOp(sender, inner, vault, nonce) ==
    [sender |-> sender, nonce |-> nonce, callData |-> buildAccountExecuteCallData("vault", inner),
     paymasterAndData |-> buildPaymasterAndData(vault)]

\* The sponsor is left out of what is signed.
packUserOp_sponsorless(op) == <<op.sender, op.nonce, op.callData>>

packUserOp(op) == <<op.sender, op.nonce, op.callData, op.paymasterAndData>>

getUserOpHash(op, entryPoint, chainId) == <<packUserOp(op), entryPoint, chainId>>

signUserOp(op, signer) == [op |-> op, by |-> signer, hash |-> getUserOpHash(op, "entry", 1)]

buildGaslessApproveAccess(g, request, vault, nonce) ==
    signUserOp(buildGaslessUserOp(g, buildApproveAccessCallData(request), vault, nonce), g)

buildGaslessAcceptInvite(g, vault, nonce) ==
    signUserOp(buildGaslessUserOp(g, buildAcceptGuardianInviteCallData(vault), vault, nonce), g)

\* The caller names the nonce it read, or none, which is 0.
SignedBy(g) ==
    {buildGaslessApproveAccess(g, r, v, n) :
         r \in DOMAIN VaultOfRequest, v \in {0} \cup SpVaults, n \in {0, epNonce[g]}}
    \cup {buildGaslessAcceptInvite(g, v, n) : v \in SpVaults, n \in {0, epNonce[g]}}

Build(g) ==
    /\ Cardinality(signedOps) < MAX_SIGNED
    /\ \E s \in SignedBy(g) : signedOps' = signedOps \cup {s}
    /\ UNCHANGED <<pool, onChainVars>>

\* Whether or not the bundler's answer arrives; the caller may send again.
sendUserOpToBundler(s) ==
    /\ s \in signedOps /\ s \notin pool
    /\ pool' = pool \cup {s}
    /\ UNCHANGED <<signedOps, onChainVars>>

-----------------------------------------------------------------------------
(* The paymaster.                                                          *)

BetweenBundles == bundle = <<>> /\ ~running

depositForVault(v, amount) ==
    /\ BetweenBundles /\ deposits < MAX_DEPOSITS /\ deposits' = deposits + 1
    /\ vaultSponsorBalances' = [vaultSponsorBalances EXCEPT ![v] = @ + amount]
    /\ epDeposit' = epDeposit + amount
    /\ UNCHANGED <<clientOpVars, bundle, running, epNonce, creatorSponsorBalances, opCount,
                   windowStart, spTime, validations>>

depositForCreator(c, amount) ==
    /\ BetweenBundles /\ deposits < MAX_DEPOSITS /\ deposits' = deposits + 1
    /\ creatorSponsorBalances' = [creatorSponsorBalances EXCEPT ![c] = @ + amount]
    /\ epDeposit' = epDeposit + amount
    /\ UNCHANGED <<clientOpVars, bundle, running, epNonce, vaultSponsorBalances, opCount,
                   windowStart, spTime, validations>>

\* The entry point pays out of the deposit, or the call reverts.
withdrawVaultDeposit(v, amount) ==
    /\ BetweenBundles /\ vaultSponsorBalances[v] >= amount /\ epDeposit >= amount
    /\ vaultSponsorBalances' = [vaultSponsorBalances EXCEPT ![v] = @ - amount]
    /\ epDeposit' = epDeposit - amount
    /\ UNCHANGED <<clientOpVars, bundle, running, epNonce, creatorSponsorBalances, opCount,
                   windowStart, deposits, spTime, validations>>

withdrawCreatorDeposit(c, amount) ==
    /\ BetweenBundles /\ creatorSponsorBalances[c] >= amount /\ epDeposit >= amount
    /\ creatorSponsorBalances' = [creatorSponsorBalances EXCEPT ![c] = @ - amount]
    /\ epDeposit' = epDeposit - amount
    /\ UNCHANGED <<clientOpVars, bundle, running, epNonce, vaultSponsorBalances, opCount,
                   windowStart, deposits, spTime, validations>>

\* The vault an invitation names; the vault of a request, or else the one the sender names.
_resolveVaultId(op) ==
    LET inner == op.callData.inner
    IN IF inner.method = "acceptGuardianInvite" THEN inner.param
       ELSE IF VaultOfRequest[inner.param] # 0 THEN VaultOfRequest[inner.param]
       ELSE IF Len(op.paymasterAndData) = 2 THEN op.paymasterAndData[2] ELSE 0

opLimit(x) == IF x \in SpGuardians THEN MAX_OPS_PER_WINDOW ELSE MAX_VAULT_OPS_PER_WINDOW

\* Mutant: the length of the window is not added to its start.
Elapsed_at_once(x) == spTime >= windowStart[x]

Elapsed(x) == spTime >= windowStart[x] + RATE_WINDOW

counted(x) == IF Elapsed(x) THEN 1 ELSE opCount[x] + 1

_enforceRateLimits(g, v) ==
    /\ \A x \in {g, v} : Elapsed(x) \/ opCount[x] < opLimit(x)
    /\ windowStart' = [x \in DOMAIN windowStart |->
                          IF x \in {g, v} /\ Elapsed(x) THEN spTime ELSE windowStart[x]]
    /\ opCount' = [x \in DOMAIN opCount |-> IF x \in {g, v} THEN counted(x) ELSE opCount[x]]

\* The entry point checks signature and nonce and sets the largest cost aside, the paymaster
\* checks the rest.
validatePaymasterUserOp(s) ==
    LET v == _resolveVaultId(s.op) IN
    /\ s \in pool /\ ~running /\ Len(bundle) < MAX_BUNDLE
    /\ s.by = s.op.sender /\ s.op.nonce = epNonce[s.op.sender] /\ epDeposit >= MAX_COST
    /\ s.op.callData.target = "vault" /\ v \in SpVaults
    /\ _enforceRateLimits(s.op.sender, v)
    /\ \/ vaultSponsorBalances[v] >= MAX_COST
       \/ creatorSponsorBalances[CreatorOf[v]] >= MAX_COST
    /\ bundle' = Append(bundle, [op |-> s.op, vault |-> v,
                                 isVaultBalance |-> vaultSponsorBalances[v] >= MAX_COST])
    /\ pool' = pool \ {s} /\ epNonce' = [epNonce EXCEPT ![s.op.sender] = @ + 1]
    /\ epDeposit' = epDeposit - MAX_COST
    /\ validations' = Append(validations, [guardian |-> s.op.sender, vault |-> v, at |-> spTime])
    /\ UNCHANGED <<signedOps, running, vaultSponsorBalances, creatorSponsorBalances, deposits,
                   spTime>>

less(balance, cost) == IF balance >= cost THEN balance - cost ELSE 0

\* The cost set aside is booked in place of the cost incurred.
postOp_reserved(c, cost) ==
    IF c.isVaultBalance
    THEN /\ vaultSponsorBalances' = [vaultSponsorBalances EXCEPT ![c.vault] = less(@, MAX_COST)]
         /\ UNCHANGED creatorSponsorBalances
    ELSE /\ creatorSponsorBalances' =
              [creatorSponsorBalances EXCEPT ![CreatorOf[c.vault]] = less(@, MAX_COST)]
         /\ UNCHANGED vaultSponsorBalances

postOp(c, cost) ==
    IF c.isVaultBalance
    THEN /\ vaultSponsorBalances' = [vaultSponsorBalances EXCEPT ![c.vault] = less(@, cost)]
         /\ UNCHANGED creatorSponsorBalances
    ELSE /\ creatorSponsorBalances' =
              [creatorSponsorBalances EXCEPT ![CreatorOf[c.vault]] = less(@, cost)]
         /\ UNCHANGED vaultSponsorBalances

\* The entry point runs the next operation and gives back what it did not cost.
RunOp(cost) ==
    /\ bundle # <<>>
    /\ postOp(Head(bundle), cost)
    /\ epDeposit' = epDeposit + (MAX_COST - cost)
    /\ bundle' = Tail(bundle) /\ running' = (Len(bundle) > 1)
    /\ UNCHANGED <<clientOpVars, epNonce, opCount, windowStart, deposits, spTime, validations>>

DropOp(s) ==
    /\ s \in pool /\ BetweenBundles /\ pool' = pool \ {s}
    /\ UNCHANGED <<signedOps, onChainVars>>

SpTick ==
    /\ BetweenBundles /\ spTime < MAX_SPTIME /\ spTime' = spTime + 1
    /\ UNCHANGED <<clientOpVars, bundle, running, epNonce, epDeposit, paymasterVars, deposits,
                   validations>>

SponsorNext ==
    \/ SpTick
    \/ \E g \in SpGuardians : BetweenBundles /\ Build(g)
    \/ \E s \in signedOps :
         \/ BetweenBundles /\ sendUserOpToBundler(s)
         \/ validatePaymasterUserOp(s)
         \/ DropOp(s)
    \/ \E cost \in 0 .. MAX_COST : RunOp(cost)
    \/ \E amount \in Deposits :
         \/ \E v \in SpVaults : depositForVault(v, amount) \/ withdrawVaultDeposit(v, amount)
         \/ \E c \in Range(CreatorOf) :
              depositForCreator(c, amount) \/ withdrawCreatorDeposit(c, amount)

-----------------------------------------------------------------------------
\* Every unit the entry point holds for the paymaster is booked to a vault or a creator, so it can
\* be used or withdrawn, whatever a bundle cost and however many of its operations drew on one
\* balance (depositForVault, withdrawVaultDeposit, postOp).  The books may well hold more: two
\* operations of a bundle are admitted against one balance.
DepositIsBooked ==
    MapThenSumSet(LAMBDA v : vaultSponsorBalances[v], SpVaults)
    + MapThenSumSet(LAMBDA c : creatorSponsorBalances[c], Range(CreatorOf))
        >= epDeposit + Len(bundle) * MAX_COST

Within(x, t) ==
    Cardinality({i \in DOMAIN validations :
        /\ x \in {validations[i].guardian, validations[i].vault}
        /\ validations[i].at \in t .. t + RATE_WINDOW - 1})

\* The windows of the rate limit are fixed, not sliding: over any stretch as long as a window a
\* guardian, or a vault, is paid for at most twice the limit (_enforceRateLimits).
RatesBounded ==
    \A x \in SpGuardians \cup SpVaults, t \in 0 .. spTime : Within(x, t) <= 2 * opLimit(x)

\* What the entry point hashes.
entryPointHash(op) == <<<<op.sender, op.nonce, op.callData, op.paymasterAndData>>, "entry", 1>>

\* The entry point accepts the signature of every operation the service signed, and no two
\* operations share one (packUserOp, getUserOpHash, signUserOp).
SignaturesAccepted ==
    /\ \A s \in signedOps : s.hash = entryPointHash(s.op)
    /\ \A s, o \in signedOps : s.hash = o.hash => s = o
=============================================================================
