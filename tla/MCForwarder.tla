----------------------------- MODULE MCForwarder -----------------------------
(***************************************************************************)
(* Small instances of Forwarder: a network with one token and one NFT      *)
(* whose state differs between time 0 and time 1.                          *)
(***************************************************************************)
EXTENDS Forwarder, TLC, FiniteSets

CONSTANTS c1, c2,
          MaxCached     \* bound: responses cached at a time

\* Token 7, account 1 from the start and account 2 from time 1; the NFT goes
\* from 1 to 2 and gets other metadata, the balance and the allowances change,
\* one to a number that is no double.
ChangingNet ==
    0 :> [accounts |-> {1},
          token    |-> 7 :> [paused |-> "UNPAUSED", treasury |-> 1],
          nft      |-> <<7, 3>> :> [owner |-> 1, spender |-> Null, uri |-> 21],
          number   |-> <<"balanceOf", 7, 1, 0>> :> 5 @@ <<"allowance", 7, 1, 2>> :> 8]
    @@
    1 :> [accounts |-> {1, 2},
          token    |-> 7 :> [paused |-> "PAUSED", treasury |-> 2],
          nft      |-> <<7, 3>> :> [owner |-> 2, spender |-> 1, uri |-> 22],
          number   |-> <<"balanceOf", 7, 1, 0>> :> 6 @@ <<"allowance", 7, 1, 2>> :> 11]

ReadRequests  == {<<"balanceOf", 7, 1, 0>>, <<"allowance", 7, 1, 2>>,
                  <<"tokenURI", 7, 3, 0>>, <<"getAccountId", 0, 2, 0>>,
                  <<"treasury", 7, 0, 0>>, <<"deployHIP719Proxy", 9, 0, 0>>}
                 \cup {<<"code", t, 0, 0>> : t \in {4, 9}}
UriRequests   == {<<"tokenURI", 7, 3, 0>>, <<"tokenURIChunk", 7, 3, 0>>}
MixedRequests == {<<"getApproved", 7, 3, 0>>, <<"tokenURI", 7, 3, 0>>,
                  <<"tokenURIChunk", 7, 3, 0>>, <<"getBlockByNumber", 1, 0, 0>>,
                  <<"getBalance", 4, 0, 0>>, <<"code", 3, 0, 0>>, <<"invalid", 0, 0, 0>>}
FieldRequests == {<<"pauseStatus", 7, 0, 0>>, <<"ownerOf", 7, 3, 0>>, <<"tokenURI", 7, 3, 0>>}

\* Connections are alike.
Symmetry == Permutations(Connections)

\* State constraint.
FewCached == Cardinality(DOMAIN responses) <= MaxCached
=============================================================================
