---------------------------- MODULE FungibleLedger ----------------------------
(***************************************************************************)
(* What a fungible Hedera token promises its holders, whoever executes it: *)
(* every account has a balance from the start, every transaction debits    *)
(* and credits in one go, and nobody spends what is neither theirs nor     *)
(* approved to them.  There are no doors (system contract or token proxy), *)
(* no storage slots, no lazy fetch from the Mirror Node and no fixed-width *)
(* integers here; HtsFungible has them all and is shown to implement this. *)
(*                                                                         *)
(* The operations are relations between l, the ledger before, and k, the   *)
(* ledger after.                                                           *)
(***************************************************************************)
EXTENDS Integers

CONSTANTS
    Ids,           \* the account ids under which balances are kept
    Unlimited      \* the allowance that is never used up

VARIABLE ledger

Ledgers == [live : BOOLEAN, mintable : BOOLEAN, treasury : SUBSET Ids,
            supply : Int, balance : [Ids -> Nat],
            allowance : [Ids \X Ids -> Nat], associated : SUBSET Ids]

Blank == [live |-> FALSE, mintable |-> FALSE, treasury |-> {}, supply |-> 0,
          balance |-> [i \in Ids |-> 0],
          allowance |-> [p \in Ids \X Ids |-> 0], associated |-> {}]

\* A token of the remote network is live when the fork starts.
Init == ledger \in Ledgers /\ (ledger.live \/ ledger = Blank)

Moved(b, i, j, n) ==
    [x \in Ids |-> b[x] - (IF x = i THEN n ELSE 0) + (IF x = j THEN n ELSE 0)]

\* The allowances after caller c is charged for n units of i's balance: an
\* owner need not pay, anyone may pay with an allowance that covers n.
Charged(al, c, i, n) ==
    (IF c = i \/ al[<<i, c>>] = Unlimited THEN {al} ELSE {})
    \cup (IF al[<<i, c>>] >= n
          THEN {[p \in Ids \X Ids |-> IF p = <<i, c>> THEN al[p] - n ELSE al[p]]}
          ELSE {})

Transfer(l, k, c) ==
    /\ k = [l EXCEPT !.balance = k.balance, !.allowance = k.allowance]
    /\ \E i, j \in Ids : \E n \in 0 .. l.balance[i] :
        /\ k.balance = Moved(l.balance, i, j, n)
        /\ k.allowance \in Charged(l.allowance, c, i, n)

\* A list of two transfers is one transaction: both happen or none does.
TransferTwice(l, k, c) ==
    /\ k = [l EXCEPT !.balance = k.balance, !.allowance = k.allowance]
    /\ \E i, j \in Ids : \E n \in 0 .. l.balance[i] :
       LET b == Moved(l.balance, i, j, n)
       IN  \E p, q \in Ids : \E m \in 0 .. b[p] :
            /\ k.balance = Moved(b, p, q, m)
            /\ \E al \in Charged(l.allowance, c, i, n) :
                  k.allowance \in Charged(al, c, p, m)

Approve(l, k, c) ==
    \E s \in Ids :
        /\ k.allowance[<<c, s>>] \in 0 .. Unlimited
        /\ k = [l EXCEPT !.allowance = [p \in Ids \X Ids |->
                    IF p = <<c, s>> THEN k.allowance[p] ELSE @[p]]]

\* n units more, or fewer, and all of them the treasury's.
Issued(l, n) ==
    [l EXCEPT !.supply = l.supply + n,
              !.balance = [x \in Ids |-> l.balance[x] + (IF x \in l.treasury THEN n ELSE 0)]]

MintOrBurn(l, k) == /\ l.mintable
                    /\ k = Issued(l, k.supply - l.supply)
                    /\ k.supply >= 0 /\ \A i \in Ids : k.balance[i] >= 0

\* A token comes into being once, with its whole supply on its treasury and no
\* other balance, allowance or association.  Whether the treasury is associated,
\* as it is on Hedera, is left open (see CreatedAsDocumented of MCHtsFungible).
Create(l, k) ==
    /\ l = Blank
    /\ \E i \in Ids : /\ k.associated \subseteq {i}
                      /\ k = Issued([Blank EXCEPT !.live = TRUE, !.treasury = {i},
                                         !.mintable = k.mintable,
                                         !.associated = k.associated], k.supply)

Associate(l, k, c)  == k = [l EXCEPT !.associated = @ \cup {c}]
Dissociate(l, k, c) == k = [l EXCEPT !.associated = @ \ {c}]

Step(l, k) ==
    \/ Create(l, k)
    \/ /\ l.live
       /\ \/ MintOrBurn(l, k)
          \/ \E c \in Ids :
                \/ Associate(l, k, c)
                \/ Dissociate(l, k, c)
                \/ Approve(l, k, c)
                \/ Transfer(l, k, c)
                \/ TransferTwice(l, k, c)

Next == \E l \in {ledger}, k \in {ledger'} : l # k /\ Step(l, k)

Spec == Init /\ [][Next]_ledger
=============================================================================
