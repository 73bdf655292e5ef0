-------------------------------- MODULE HtsNft --------------------------------
(***************************************************************************)
(* The non-fungible half of HtsSystemContract.sol, for one token of the    *)
(* network: owners, approvals and operators, in storage that               *)
(* HtsSystemContractJson.sol fills from the Mirror Node at its first use.  *)
(* A token created locally has no serials (mintToken makes none).          *)
(*                                                                         *)
(* The system contract (transferNFT, approveNFT, ...) and the token's own  *)
(* proxy (transferFrom, approve, ...) run the same internal functions with *)
(* the caller as sender, so an action stands for both.  As in HtsFungible  *)
(* an action is a call that does not revert.                               *)
(***************************************************************************)
EXTENDS Integers, FiniteSets

CONSTANTS
    Addresses, Zero,  \* EVM addresses; address(0)
    AccountId,        \* address -> uint32 that getAccountId answers
    SerialLimit,      \* 2^32: a slot holds a uint32 of the serial
    Serials,          \* the serial numbers that callers use, of any width
    AccountNum,       \* address -> account number on the Mirror Node, 0 if none
    EvmAddress,       \* account number -> the address the Mirror Node has for it
    MirrorOwner, MirrorSpender,  \* uint32 serial -> account number, 0 if none
    MirrorOperators   \* the <<owner, operator>> of the network, account numbers

AnyAddress == Addresses \cup {Zero}
Ids == {AccountId[a] : a \in AnyAddress}
Nums == {AccountNum[a] : a \in Addresses} \ {0}
uint32(n) == n % SerialLimit
Stored == {uint32(n) : n \in Serials}

ASSUME NftAssumption ==
    /\ Zero \notin Addresses
    /\ AccountId \in [AnyAddress -> Nat]
    /\ \A a \in Addresses : AccountId[a] # AccountId[Zero]
    /\ SerialLimit \in Nat \ {0} /\ Serials \subseteq Int
    /\ AccountNum \in [AnyAddress -> Nat] /\ AccountNum[Zero] = 0
    /\ EvmAddress \in [Nums -> Addresses]
    /\ MirrorOwner \in [Stored -> Nums \cup {0}] /\ MirrorSpender \in [Stored -> Nums \cup {0}]
    /\ MirrorOperators \subseteq Nums \X Nums

VARIABLES
    nft,      \* the storage of the token
    caller    \* msg.sender of the last transaction (history)

vars == <<nft, caller>>

OwnerOfSlot(n)        == <<"ownerOf", n, 0>>
GetApprovedSlot(n)    == <<"getApproved", n, 0>>
OperatorSlot(o, p)    == <<"isApprovedForAll", AccountId[o], AccountId[p]>>

Slots == {OwnerOfSlot(n) : n \in Stored} \cup {GetApprovedSlot(n) : n \in Stored}
         \cup {OperatorSlot(o, p) : o, p \in AnyAddress}

NftState == [owner : [Stored -> AnyAddress], approved : [Stored -> AnyAddress],
             operators : SUBSET (Ids \X Ids),
             scratch : SUBSET Slots]

EmptyNft == [owner |-> [n \in Stored |-> Zero], approved |-> [n \in Stored |-> Zero],
             operators |-> {}, scratch |-> {}]

-----------------------------------------------------------------------------
(* MirrorNode.sol: the network keeps accounts by number, slots hold        *)
(* addresses.                                                              *)

getAccountAddress(num) == IF num = 0 THEN Zero ELSE EvmAddress[num]
getNftOwner(n)   == getAccountAddress(MirrorOwner[n])
getNftSpender(n) == getAccountAddress(MirrorSpender[n])
isApprovedForAll(o, p) == /\ AccountNum[o] # 0 /\ AccountNum[p] # 0
                          /\ <<AccountNum[o], AccountNum[p]>> \in MirrorOperators

-----------------------------------------------------------------------------
(* _shouldFetch and _setValue around each slot.                            *)

FetchOwner(s, n) ==
    IF OwnerOfSlot(n) \in s.scratch THEN s
    ELSE [s EXCEPT !.owner[n] = getNftOwner(n), !.scratch = @ \cup {OwnerOfSlot(n)}]

FetchApproved(s, n) ==
    IF GetApprovedSlot(n) \in s.scratch THEN s
    ELSE [s EXCEPT !.approved[n] = getNftSpender(n), !.scratch = @ \cup {GetApprovedSlot(n)}]

Pair(o, p) == <<AccountId[o], AccountId[p]>>
KeyedByAddress(s, o, p, yes) ==               \* mutant: not by account id
    [s EXCEPT !.operators = IF yes THEN @ \cup {<<o, p>>} ELSE @ \ {<<o, p>>}]
SetOperator(s, o, p, yes) ==
    [s EXCEPT !.operators = IF yes THEN @ \cup {Pair(o, p)} ELSE @ \ {Pair(o, p)}]
FetchOperator(s, o, p) ==
    IF OperatorSlot(o, p) \in s.scratch THEN s
    ELSE [SetOperator(s, o, p, isApprovedForAll(o, p))
             EXCEPT !.scratch = @ \cup {OperatorSlot(o, p)}]

-----------------------------------------------------------------------------
(* The internal functions.                                                 *)

\* sender == approved || isApprovedForAll(owner, sender): the second is read
\* only when the first does not hold.
Approvals(s, o, c, n) ==
    LET f == FetchApproved(s, n)
    IN  IF f.approved[n] = c THEN f ELSE FetchOperator(f, o, c)
IsApproved(s, o, c, n) ==
    LET f == Approvals(s, o, c, n)
    IN  f.approved[n] = c \/ Pair(o, c) \in f.operators

\* _transferNFT, for the uint32 n of the serial: the operator that used its
\* approval loses it; balances stay, and are not in the model.
CanTransferUnchecked(s, c, from, to, n) ==    \* mutant: no authorisation
    from # Zero /\ to # Zero /\ FetchOwner(s, n).owner[n] = from
CanTransfer(s, c, from, to, n) ==
    LET f == FetchOwner(s, n)
    IN  /\ from # Zero /\ to # Zero
        /\ f.owner[n] = from
        /\ c = from \/ IsApproved(f, from, c, n)
ClearsUnfetched(s, c, from, to, n) ==         \* mutant: clears before it fetches
    LET f == FetchOwner(s, n)
        a == IF c = from THEN f ELSE Approvals(f, from, c, n)
        d == [a EXCEPT !.approved[n] = Zero, !.owner[n] = to]
    IN  IF c = from THEN d ELSE SetOperator(FetchOperator(d, from, c), from, c, FALSE)
AfterTransfer(s, c, from, to, n) ==
    LET f == FetchOwner(s, n)
        a == IF c = from THEN f ELSE Approvals(f, from, c, n)
        d == [FetchApproved(a, n) EXCEPT !.approved[n] = Zero, !.owner[n] = to]
    IN  IF c = from THEN d ELSE SetOperator(FetchOperator(d, from, c), from, c, FALSE)

CanApprove(s, c, n) ==
    LET f == FetchOwner(s, n)
        o == f.owner[n]
    IN  c = o \/ IsApproved(f, o, c, n)
ApprovesUnfetched(s, c, spender, n) ==        \* mutant
    LET f == FetchOwner(s, n)
        o == f.owner[n]
        a == IF c = o THEN f ELSE Approvals(f, o, c, n)
    IN  [a EXCEPT !.approved[n] = spender]
AfterApprove(s, c, spender, n) ==
    LET f == FetchOwner(s, n)
        o == f.owner[n]
        a == IF c = o THEN f ELSE Approvals(f, o, c, n)
    IN  [FetchApproved(a, n) EXCEPT !.approved[n] = spender]

-----------------------------------------------------------------------------
(* External calls.                                                         *)

Commit(c, s) == nft' = s /\ caller' = c

TransferNFT(c, from, to, serial) ==
    /\ CanTransfer(nft, c, from, to, uint32(serial))
    /\ Commit(c, AfterTransfer(nft, c, from, to, uint32(serial)))

\* A list of two.
TransferNFTs(c, from1, to1, serial1, from2, to2, serial2) ==
    LET first == AfterTransfer(nft, c, from1, to1, uint32(serial1))
    IN  /\ CanTransfer(nft, c, from1, to1, uint32(serial1))
        /\ CanTransfer(first, c, from2, to2, uint32(serial2))
        /\ Commit(c, AfterTransfer(first, c, from2, to2, uint32(serial2)))

ApproveNFT(c, approved, serial) ==
    /\ CanApprove(nft, c, uint32(serial))
    /\ Commit(c, AfterApprove(nft, c, approved, uint32(serial)))

SetApprovalForAll(c, operator, approved) ==
    /\ operator # Zero /\ operator # c
    /\ Commit(c, SetOperator(FetchOperator(nft, c, operator), c, operator, approved))

OwnerOf(c, serial)        == Commit(c, FetchOwner(nft, uint32(serial)))
GetApproved(c, serial)    == Commit(c, FetchApproved(nft, uint32(serial)))
IsApprovedForAll(c, o, p) == Commit(c, FetchOperator(nft, o, p))

-----------------------------------------------------------------------------

Init == nft = EmptyNft /\ caller = Zero

Next == \E c \in Addresses :
    \/ \E from, to \in AnyAddress, n \in Serials : TransferNFT(c, from, to, n)
    \/ \E f, g, x, y \in AnyAddress, n, m \in Serials : TransferNFTs(c, f, g, n, x, y, m)
    \/ \E a \in AnyAddress, n \in Serials : ApproveNFT(c, a, n)
    \/ \E a \in AnyAddress, yes \in BOOLEAN : SetApprovalForAll(c, a, yes)
    \/ \E n \in Serials : OwnerOf(c, n) \/ GetApproved(c, n)
    \/ \E o, p \in Addresses : IsApprovedForAll(c, o, p)

Spec == Init /\ [][Next]_vars

-----------------------------------------------------------------------------
(* Correctness.  ...Seen is what a view call would answer.                  *)

OwnerSeen(s, n)    == IF OwnerOfSlot(n) \in s.scratch THEN s.owner[n] ELSE getNftOwner(n)
ApprovedSeen(s, n) == IF GetApprovedSlot(n) \in s.scratch THEN s.approved[n] ELSE getNftSpender(n)
OperatorSeen(s, o, p) ==
    IF OperatorSlot(o, p) \in s.scratch THEN Pair(o, p) \in s.operators ELSE isApprovedForAll(o, p)
OperatorsSeen(s) ==
    {Pair(x[1], x[2]) : x \in {y \in AnyAddress \X AnyAddress : OperatorSeen(s, y[1], y[2])}}

\* The type invariant.
TypeOK == nft \in NftState /\ caller \in AnyAddress

\* What _transferNFT, _approve and _setApprovalForAll wrote was fetched before,
\* so that no later fetch brings back what the Mirror Node has.
WrittenSlotsAreFetched ==
    /\ \A n \in Stored : nft.owner[n] # Zero => OwnerOfSlot(n) \in nft.scratch
    /\ \A n \in Stored : nft.approved[n] # Zero => GetApprovedSlot(n) \in nft.scratch
    /\ \A o, p \in AnyAddress : Pair(o, p) \in nft.operators => OperatorSlot(o, p) \in nft.scratch

\* Whoever was approved for an NFT under one owner is not under the next one:
\* also for an approval that only the Mirror Node knew of.
ApprovalsEndWithOwnership ==
    [][\A n \in Stored : OwnerSeen(nft', n) # OwnerSeen(nft, n) =>
          ApprovedSeen(nft', n) = Zero]_vars

\* Two addresses share an id only if they are the same account.
IdsIdentifyAccounts ==
    \A a, b \in AnyAddress : AccountId[a] = AccountId[b] => AccountNum[a] = AccountNum[b]

\* The refinement mapping.
RegistryOf(s) == [owner     |-> [n \in Stored |-> OwnerSeen(s, n)],
                  approved  |-> [n \in Stored |-> ApprovedSeen(s, n)],
                  operators |-> OperatorsSeen(s)]

Registry == INSTANCE NftRegistry
                WITH Serials <- Stored, Id <- AccountId, reg <- RegistryOf(nft)

\* Two steps of the code are not those of a registry: the approved account
\* approves the next one (_approve), ...
HandsOn(r, k) ==
    \E n \in Stored, a \in AnyAddress :
        caller' = r.approved[n] /\ k = [r EXCEPT !.approved[n] = a]

\* ... and a transfer by an operator removes the operator (_transferNFT), for
\* the accounts whose NFTs it moved; it is a registry's transfer otherwise.
UsesUpOperator(r, k) ==
    /\ k.operators # r.operators /\ k.operators \subseteq r.operators
    /\ r.operators \ k.operators \subseteq Ids \X {AccountId[caller']}
    /\ LET kept == [k EXCEPT !.operators = r.operators]
       IN  \/ \E n \in Stored : Registry!Transfer(r, kept, caller', n)
           \/ Registry!TransferTwice(r, kept, caller')

BeyondRegistry == \E r \in {RegistryOf(nft)}, k \in {RegistryOf(nft')} :
                     r # k /\ (HandsOn(r, k) \/ UsesUpOperator(r, k))

\* Up to these the lazily filled storage behaves as a registry that was there
\* from the start: no order of first uses can be told apart, no one moves an NFT
\* that is not entitled to, and no one else's approval or operator changes.
ForkedNftIsRegistry ==
    Registry!Init /\ [][Registry!Next \/ BeyondRegistry]_(RegistryOf(nft))

-----------------------------------------------------------------------------
(* What the documentation says and the code does not do.                   *)

\* IERC721.sol: "Operators can call {transferFrom} or {safeTransferFrom} for any
\* token owned by the caller" of setApprovalForAll, who alone approves or
\* removes them.
OperatorsStay ==
    [][\A o, p \in Addresses :
          Pair(o, p) \in OperatorsSeen(nft) \ OperatorsSeen(nft') =>
             AccountId[caller'] = AccountId[o]]_vars

\* HtsSystemContract.sol: "The caller must own the token or be an approved
\* operator" of _approve, as IERC721.sol: whoever is approved was approved by one
\* of these, not by the account approved before.
OnlyOwnerAndOperatorsApprove ==
    [][\A n \in Stored :
          ApprovedSeen(nft', n) \notin {Zero, ApprovedSeen(nft, n)} =>
             Registry!MayApprove(RegistryOf(nft), caller', n)]_vars
=============================================================================
