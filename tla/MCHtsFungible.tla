---------------------------- MODULE MCHtsFungible ----------------------------
(***************************************************************************)
(* Small instances of HtsFungible for TLC, and a statement of the          *)
(* documentation that the code does not keep.                              *)
(***************************************************************************)
EXTENDS HtsLedger, TLC, FiniteSets

CONSTANTS a1, a2, a3,   \* three addresses
          MaxTouched    \* bound: storage slots in use at a time, all tokens

ThreeAddresses == {a1, a2, a3}
TwoAddresses == {a1, a2}
TwoIds       == a1 :> 1 @@ a2 :> 2

\* a1 and a2 are the alias and the long-zero address of account 1, which the
\* Hardhat plugin resolves to one id; a3 is the address of account 2.
AliasIds     == a1 :> 1 @@ a2 :> 1 @@ a3 :> 2

\* A token of the network: account 1 has two units and account 2, if there, has
\* one, which it lets account 1 spend.
ForkedToken ==
    [supply |-> 1 + Cardinality(Nums), treasury |-> a1, supplyKey |-> "usable",
     balance |-> [i \in Nums |-> IF i = 1 THEN 2 ELSE 1],
     allowance |-> [p \in Nums \X Nums |-> IF p = <<2, 1>> THEN 1 ELSE 0],
     associated |-> {1}]

\* It is at the first address that is given to a created token, or at the second.
FirstIsForked  == 1 :> ForkedToken
SecondIsForked == 2 :> ForkedToken

SignedAmounts == {-1, 1}

\* State constraint.
FewTouched ==
    Cardinality(UNION {{t} \X (token[t].scratch \cup {x \in Slots : token[t].storage[x] # 0}) :
                       t \in Tokens}) <= MaxTouched

\* What the theorems of HtsFungible_proofs and FungibleLedger_proofs
\* assume of the constants holds in every run.
ASSUME TheoremsApply == IdsIdentifyAccounts /\ MirrorConserves

-----------------------------------------------------------------------------
(* What the documentation says and the code does not do.                   *)

\* IHederaTokenService.sol: transferFrom "Transfers `amount` tokens from `from`
\* to `to`".
TransferFromMovesAmount ==
    [][\A c, from, to \in Addresses, t \in Tokens, n \in Words :
         from # to /\ HtsTransferFrom(c, t, from, to, n) =>
            BalanceSeen(t, token'[t], from) = BalanceSeen(t, token[t], from) - n]_vars

\* CREATE_TOKEN.md, of a successful creation: "The `token.treasury` address should
\* be associated to the token", "The token should not have any other balances nor
\* associations", and getTokenInfo "should return `token`", here with its supply
\* key.  At the address of a token of the network not one of the three is so.
CreatedAsDocumented ==
    [][\A c, a \in Addresses, n \in Int64s, key \in KeyState :
         CreateFungibleToken(c, a, n, key) =>
            LET t == NewTokenId
            IN  \/ AssociationSeen(t, token'[t], a) = 1
                \/ \A b \in Addresses : AccountId[b] # AccountId[a] =>
                      BalanceSeen(t, token'[t], b) = 0 /\ AssociationSeen(t, token'[t], b) = 0
                \/ token'[t].supplyKey = key]_vars
=============================================================================
