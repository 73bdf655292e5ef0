------------------------------ MODULE HtsLedger -------------------------------
(***************************************************************************)
(* HtsFungible implements FungibleLedger: each token, whose storage is     *)
(* filled slot by slot from the Mirror Node or starts empty at a fresh     *)
(* address, shows its users one ledger that was there from the start; up   *)
(* to the one step that no ledger promises, a creation at the address of a *)
(* token of the network (Overwritten).                                     *)
(* The two refinements are about one token each, so that TLC can check     *)
(* them; both tokens are any of the model's in FungibleLedger_proofs.      *)
(* The accounts of the ledger also give the sums of Conservation.          *)
(***************************************************************************)
EXTENDS HtsFungible, Functions

CONSTANTS
    Forked,        \* a token of the network
    Created        \* a token that comes into being in the model

ASSUME LedgerAssumption == Forked \in Tokens /\ Created \in Tokens

\* The refinement mapping: a token of the network is live from the start, with
\* the balances it would show.
AddressOf == [i \in Ids |-> CHOOSE a \in Addresses : AccountId[a] = i]

LedgerOf(t) ==
    IF ~Callable(t)
    THEN [live |-> FALSE, mintable |-> FALSE, treasury |-> {}, supply |-> 0,
          balance |-> [i \in Ids |-> 0],
          allowance |-> [p \in Ids \X Ids |-> 0], associated |-> {}]
    ELSE LET o == Opened(t) IN
         [live |-> TRUE, mintable |-> o.supplyKey = "usable",
          treasury |-> {AccountId[o.treasury]},
          supply |-> o.supply,
          balance |-> [i \in Ids |-> BalanceSeen(t, token[t], AddressOf[i])],
          allowance |-> [p \in Ids \X Ids |->
              AllowanceSeen(t, token[t], AddressOf[p[1]], AddressOf[p[2]])],
          associated |-> {i \in Ids : AssociationSeen(t, token[t], AddressOf[i]) = 1}]

\* The balances that balanceOf shows add up to totalSupply, fetched or not,
\* after any sequence of transfers, mints, burns and token creations
\* (_update, _balanceOfSlot and the initial supply of _createToken).  A token
\* created at the address of another one has, beside its supply, what was
\* fetched of the balances of that one.
Conservation ==
    \A t \in Tokens : Callable(t) =>
        LET held == SumFunction([i \in Ids |-> BalanceSeen(t, token[t], AddressOf[i])])
        IN  IF Replaced(t) THEN Opened(t).supply <= held ELSE Opened(t).supply = held

\* The balances of the network, which is forked at one time, add up.
MirrorConserves ==
    \A t \in RemoteTokens :
        Mirror[t].supply = SumFunction([i \in Ids |-> getBalance(t, AddressOf[i])])

ForkedLedger == INSTANCE FungibleLedger
                    WITH ledger <- LedgerOf(Forked), Unlimited <- WordMax
CreatedLedger == INSTANCE FungibleLedger
                    WITH ledger <- LedgerOf(Created), Unlimited <- WordMax

\* What _createToken does to a ledger l that is live: the token is another one,
\* with its supply on its treasury, but every balance, allowance and association
\* of the old one is either lost or still there.
Overwritten(l, k) ==
    \E i \in Ids :
        /\ k.live /\ k.treasury = {i} /\ k.supply >= 0
        /\ \A x \in Ids :
              k.balance[x] - (IF x = i THEN k.supply ELSE 0) \in {0, l.balance[x]}
        /\ \A p \in Ids \X Ids : k.allowance[p] \in {0, l.allowance[p]}
        /\ k.associated \subseteq l.associated

Overwrite(t) == IsReplaced(t) /\ Overwritten(LedgerOf(t), LedgerOf(t)')

\* The lazily filled storage of a forked token behaves as a ledger that was
\* there from the start: no read and no order of first uses can be told apart.
\* It is overwritten at most once, and is a ledger again after that.
ForkedTokenIsLedger ==
    ForkedLedger!Init /\ [][ForkedLedger!Next \/ Overwrite(Forked)]_(LedgerOf(Forked))

\* So does the storage of a token that _createToken put at a fresh address; at
\* the address of a token of the network there is the same exception.
CreatedTokenIsLedger ==
    CreatedLedger!Init /\ [][CreatedLedger!Next \/ Overwrite(Created)]_(LedgerOf(Created))
=============================================================================
