------------------------------- MODULE MCHtsNft -------------------------------
(***************************************************************************)
(* Small instances of HtsNft.                                              *)
(***************************************************************************)
EXTENDS HtsNft, TLC

CONSTANTS a1, a2, a3,   \* three addresses
          MaxFetched    \* bound: storage slots in use at a time

ThreeAddresses == {a1, a2, a3}
\* Ids as the Foundry library computes them, other than the numbers.
ThreeIds  == a1 :> 7 @@ a2 :> 8 @@ a3 :> 9 @@ Zero :> 6
ThreeNums == a1 :> 1 @@ a2 :> 2 @@ a3 :> 3 @@ Zero :> 0
ThreeEvmAddresses == 1 :> a1 @@ 2 :> a2 @@ 3 :> a3

\* The uint32 of -3 (of two bits here) is serial 1, which is a1's and approved
\* to a2; serial 2 does not exist.  a3 is an operator of a1.
WideSerials == {-3, 2}
TwoOwners   == 1 :> 1 @@ 2 :> 0
TwoSpenders == 1 :> 2 @@ 2 :> 0
Operators   == {<<1, 3>>}

\* State constraint.
FewFetched == Cardinality(nft.scratch) <= MaxFetched
=============================================================================
