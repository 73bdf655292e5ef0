----------------------------- MODULE NftRegistry -----------------------------
(***************************************************************************)
(* What a non-fungible Hedera token promises: each serial has one owner,   *)
(* and it moves only by its owner, by the one account approved for it, or  *)
(* by an operator of its owner.  Approvals are given by the owner and its  *)
(* operators and do not outlive ownership; operators do (IERC721.sol).     *)
(* HtsNft, with its lazily fetched storage, is shown to implement this up  *)
(* to the two steps that it names.                                         *)
(***************************************************************************)
CONSTANTS Addresses, Zero, Serials,
          Id             \* address -> account id; operators are kept by id

VARIABLE reg             \* owner and approved address of each serial; operators

AnyAddress == Addresses \cup {Zero}

Init == reg \in [owner : [Serials -> AnyAddress], approved : [Serials -> AnyAddress],
                 operators : SUBSET ({Id[a] : a \in AnyAddress} \X {Id[a] : a \in AnyAddress})]

MayApprove(r, c, n) == c = r.owner[n] \/ <<Id[r.owner[n]], Id[c]>> \in r.operators
Entitled(r, c, n)   == c = r.approved[n] \/ MayApprove(r, c, n)

\* An approval is used up by a transfer, an operator stays.
Moved(r, n, a) == [owner     |-> [r.owner EXCEPT ![n] = a],
                   approved  |-> [r.approved EXCEPT ![n] = Zero],
                   operators |-> r.operators]
Transfer(r, k, c, n) ==
    /\ r.owner[n] # Zero /\ Entitled(r, c, n)
    /\ \E a \in Addresses : k = Moved(r, n, a)

\* Two transfers of a list happen together or not at all.
TransferTwice(r, k, c) ==
    \E n, m \in Serials, a \in Addresses :
        /\ Transfer(r, Moved(r, n, a), c, n)
        /\ Transfer(Moved(r, n, a), k, c, m)

Approve(r, k, c, n) ==
    /\ MayApprove(r, c, n)
    /\ \E a \in AnyAddress : k = [r EXCEPT !.approved[n] = a]

SetApprovalForAll(r, k, c) ==
    \E p \in Addresses :
        k \in {[r EXCEPT !.operators = @ \cup {<<Id[c], Id[p]>>}],
               [r EXCEPT !.operators = @ \ {<<Id[c], Id[p]>>}]}

Step(r, k) ==
    \E c \in Addresses :
        \/ \E n \in Serials : Transfer(r, k, c, n) \/ Approve(r, k, c, n)
        \/ TransferTwice(r, k, c)
        \/ SetApprovalForAll(r, k, c)

Next == \E r \in {reg}, k \in {reg'} : r # k /\ Step(r, k)

Spec == Init /\ [][Next]_reg
=============================================================================
