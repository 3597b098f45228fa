---------------------------- MODULE SorobanTokens ---------------------------
(***************************************************************************)
(* Vault access tokens of the Soroban contract (lib.rs): every token has   *)
(* an owner and a vault, and two balances are kept beside them, per owner  *)
(* and per vault and owner.  has_vault_token reads the second one.         *)
(*                                                                         *)
(* Which accounts are guardians of an active vault is decided elsewhere    *)
(* (SorobanAccess); here it is a set that moves on its own.  Token URIs    *)
(* and events are left out.                                                *)
(***************************************************************************)
EXTENDS Integers, FiniteSets

CONSTANTS Accounts, Vaults, NoOne, NoVault, MAX_TOKENS

ASSUME TokenConstants == NoOne \notin Accounts /\ NoVault \notin Vaults /\ MAX_TOKENS \in Nat

TokenIds == 1 .. MAX_TOKENS

VARIABLES
    minters,         \* pairs <<vault, guardian>> of active vaults
    token_count,     \* TokenCount: an id counter, never lowered
    token_owner,     \* TokenOwner, NoOne when minting is still to come or burned
    token_vault,     \* TokenVault
    owner_balance,   \* OwnerBalance
    vault_balance    \* VaultTokenBalance

vars == <<minters, token_count, token_owner, token_vault, owner_balance, vault_balance>>

Init ==
    /\ minters = {}
    /\ token_count = 0
    /\ token_owner = [t \in TokenIds |-> NoOne]
    /\ token_vault = [t \in TokenIds |-> NoVault]
    /\ owner_balance = [a \in Accounts |-> 0]
    /\ vault_balance = [p \in Vaults \X Accounts |-> 0]

\* Vaults are created and deactivated, guardians accept their invites.
GuardiansChange(v, a) ==
    /\ \/ minters' = minters \cup {<<v, a>>}
       \/ minters' = {p \in minters : p[1] # v}
    /\ UNCHANGED <<token_count, token_owner, token_vault, owner_balance, vault_balance>>

\* The balances saturate at zero: saturating_sub of u32.
Less(n) == IF n = 0 THEN 0 ELSE n - 1

\* Mutant: the id is taken from the live supply.
mint_access_token_reuse(minter, v, to) ==
    LET t == Cardinality({u \in TokenIds : token_owner[u] # NoOne}) + 1
    IN  /\ t \in TokenIds
        /\ <<v, minter>> \in minters
        /\ token_owner[t] = NoOne
        /\ token_count' = IF t > token_count THEN t ELSE token_count
        /\ token_owner' = [token_owner EXCEPT ![t] = to]
        /\ token_vault' = [token_vault EXCEPT ![t] = v]
        /\ owner_balance' = [owner_balance EXCEPT ![to] = @ + 1]
        /\ vault_balance' = [vault_balance EXCEPT ![<<v, to>>] = @ + 1]
        /\ UNCHANGED minters

mint_access_token(minter, v, to) ==
    LET t == token_count + 1
    IN  /\ t \in TokenIds
        /\ <<v, minter>> \in minters
        /\ token_count' = t
        /\ token_owner' = [token_owner EXCEPT ![t] = to]
        /\ token_vault' = [token_vault EXCEPT ![t] = v]
        /\ owner_balance' = [owner_balance EXCEPT ![to] = @ + 1]
        /\ vault_balance' = [vault_balance EXCEPT ![<<v, to>>] = @ + 1]
        /\ UNCHANGED minters

burn_access_token(owner, t) ==
    /\ token_owner[t] = owner
    /\ owner_balance' = [owner_balance EXCEPT ![owner] = Less(@)]
    /\ vault_balance' = [vault_balance EXCEPT ![<<token_vault[t], owner>>] = Less(@)]
    /\ token_owner' = [token_owner EXCEPT ![t] = NoOne]
    /\ token_vault' = [token_vault EXCEPT ![t] = NoVault]
    /\ UNCHANGED <<minters, token_count>>

\* Mutant: both balances are read before either is written.
transfer_stale_read(from, to, t) ==
    LET v == token_vault[t]
    IN  /\ token_owner[t] = from
        /\ owner_balance' = [owner_balance EXCEPT ![from] = Less(@), ![to] = owner_balance[to] + 1]
        /\ vault_balance' = [vault_balance EXCEPT ![<<v, from>>] = Less(@),
                                                  ![<<v, to>>] = vault_balance[<<v, to>>] + 1]
        /\ token_owner' = [token_owner EXCEPT ![t] = to]
        /\ UNCHANGED <<minters, token_count, token_vault>>

\* The sender's balances are written back before the receiver's are read, so a transfer to
\* oneself changes nothing.
transfer(from, to, t) ==
    LET v     == token_vault[t]
        owner == [owner_balance EXCEPT ![from] = Less(@)]
        vault == [vault_balance EXCEPT ![<<v, from>>] = Less(@)]
    IN  /\ token_owner[t] = from
        /\ owner_balance' = [owner EXCEPT ![to] = @ + 1]
        /\ vault_balance' = [vault EXCEPT ![<<v, to>>] = @ + 1]
        /\ token_owner' = [token_owner EXCEPT ![t] = to]
        /\ UNCHANGED <<minters, token_count, token_vault>>

Next ==
    \/ \E v \in Vaults, a \in Accounts : GuardiansChange(v, a)
    \/ \E a, b \in Accounts, v \in Vaults : mint_access_token(a, v, b)
    \/ \E a \in Accounts, t \in TokenIds : burn_access_token(a, t)
    \/ \E a, b \in Accounts, t \in TokenIds : transfer(a, b, t)

Spec == Init /\ [][Next]_vars
-----------------------------------------------------------------------------
TokensOf(a)       == {t \in TokenIds : token_owner[t] = a}
TokensFor(v, a)   == {t \in TokensOf(a) : token_vault[t] = v}

\* Types; ids above the counter are unused and a token has a vault exactly while it has
\* an owner.
TypeOK ==
    /\ minters \subseteq Vaults \X Accounts
    /\ token_count \in 0 .. MAX_TOKENS
    /\ token_owner \in [TokenIds -> Accounts \cup {NoOne}]
    /\ token_vault \in [TokenIds -> Vaults \cup {NoVault}]
    /\ \A t \in TokenIds : token_owner[t] = NoOne <=> token_vault[t] = NoVault
    /\ \A t \in TokenIds : t > token_count => token_owner[t] = NoOne
    /\ owner_balance \in [Accounts -> Nat]
    /\ vault_balance \in [Vaults \X Accounts -> Nat]

\* Through every order of mints, burns and transfers (to oneself too) balance(a) is the number
\* of tokens a owns, and the balance per vault that has_vault_token reads is the number of
\* them bound to that vault; so no decrement ever saturates.
BalancesCountTokens ==
    /\ \A a \in Accounts : owner_balance[a] = Cardinality(TokensOf(a))
    /\ \A v \in Vaults, a \in Accounts :
          vault_balance[<<v, a>>] = Cardinality(TokensFor(v, a))

\* A token id is never minted twice, not even after its token was burned.
BurnedForGood ==
    [][\A t \in 1 .. token_count : token_owner[t] = NoOne => token_owner'[t] = NoOne]_vars
=============================================================================
