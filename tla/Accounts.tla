------------------------------ MODULE Accounts ------------------------------
(***************************************************************************)
(* The accounts of the chain, as the instructions of the program see them: *)
(* addresses, the flags an instruction puts on them, and the checked       *)
(* loaders of autara-program-lib.                                          *)
(*                                                                         *)
(* An address is a wallet (a model value) or a tuple that starts with its  *)
(* kind: find_program_address is injective on its seeds, so a derived      *)
(* address IS its seeds.  The bumps are left out: they are determined by   *)
(* the seeds.                                                              *)
(*                                                                         *)
(* The ledger L is a record of the accounts that exist, by kind:           *)
(*   global   the GlobalConfig account (a function on one key or none)     *)
(*   markets, supply_positions, borrow_positions, entries                  *)
(*            the other accounts owned by the program                      *)
(*   tokens   the balances of the token accounts                           *)
(***************************************************************************)
EXTENDS Naturals, Sequences

CONSTANTS Wallets,      \* the key pairs that sign transactions
          Mints

-----------------------------------------------------------------------------
(***************************************************************************)
(* pda.rs, and the associated token accounts of the token library.         *)
(***************************************************************************)
find_global_config_pda == <<"global_config">>

find_market_pda(curator, supply_mint, collateral_mint, index) ==
    <<"market", curator, supply_mint, collateral_mint, index>>

find_supply_position_pda(market, authority) == <<"supply_position", market, authority>>

find_borrow_position_pda(market, authority) == <<"borrow_position", market, authority>>

find_liquidator_whitelist_entry_pda(market, liquidator) ==
    <<"liquidator_whitelist", market, liquidator>>

get_associated_token_address(owner, mint) == <<"ata", owner, mint>>

AplToken == <<"program", "apl_token">>

AssociatedToken == <<"program", "associated_token">>

System == <<"program", "system">>

Autara == <<"program", "autara">>

Oracle(mint) == <<"oracle", mint>>

\* The owner and the mint a token account holds.
TokenOwner(key) == key[2]

TokenMint(key) == key[3]

-----------------------------------------------------------------------------
(***************************************************************************)
(* An account of an instruction: AccountMeta::new and ::new_readonly.      *)
(***************************************************************************)
writable(key) == [key |-> key, signer |-> FALSE, writable |-> TRUE]

readonly(key) == [key |-> key, signer |-> FALSE, writable |-> FALSE]

writable_signer(key) == [key |-> key, signer |-> TRUE, writable |-> TRUE]

readonly_signer(key) == [key |-> key, signer |-> TRUE, writable |-> FALSE]

-----------------------------------------------------------------------------
(***************************************************************************)
(* The loaders.  A loader fails when the account does not exist, is owned  *)
(* by another program, has another size or is not initialized: that is,    *)
(* when it is not in the ledger's table of its kind.                       *)
(***************************************************************************)
Signer(a) == a.signer

\* Program<AplTokenProgram>, Program<SystemProgram> and so on.
IsProgram(a, id) == a.key = id

\* ZeroCopyOwnedAccount<AutaraAccount<T>>, with table the accounts of T.
ZeroCopy(table, a) == a.key \in DOMAIN table

ZeroCopyMut(table, a) == ZeroCopy(table, a) /\ a.writable

\* PackedOwnedAccount<TokenAccount>.
TokenAccount(L, a) == a.key \in DOMAIN L.tokens

\* PackedOwnedAccount<Mint>.
MintAccount(a) == a.key \in Mints

-----------------------------------------------------------------------------
(***************************************************************************)
(* The programs the instructions call, from how they are called.  Each     *)
(* returns the set of ledgers it can leave: none when it fails, and with   *)
(* it the instruction.                                                     *)
(***************************************************************************)
\* apl_token transfer of n from one token account to another by the authority
\* of the first, with the privileges the caller has on the accounts.
transfer(L, from, to, authority, n) ==
    IF /\ authority.signer
       /\ TokenOwner(from.key) = authority.key
       /\ from.writable /\ to.writable
       /\ TokenMint(from.key) = TokenMint(to.key)
       /\ L.tokens[from.key] >= n
    THEN {IF from.key = to.key
          THEN L
          ELSE [L EXCEPT !.tokens[from.key] = @ - n, !.tokens[to.key] = @ + n]}
    ELSE {}

\* The market signs with its seeds for the transfers out of its vaults.
as_signer(a) == [a EXCEPT !.signer = TRUE]

\* f with one more account.
Extended(f, key, value) == [k \in DOMAIN f \cup {key} |-> IF k = key THEN value ELSE f[k]]

\* The idempotent creation of an associated token account.
create_ata(L, key) ==
    {IF key \in DOMAIN L.tokens THEN L ELSE [L EXCEPT !.tokens = Extended(@, key, 0)]}

\* The system program's create_account: refused for an address in use.
create_account(table, payer, a, value) ==
    IF payer.signer /\ payer.writable /\ a.writable /\ a.key \notin DOMAIN table
    THEN {Extended(table, a.key, value)}
    ELSE {}
=============================================================================
