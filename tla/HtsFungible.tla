----------------------------- MODULE HtsFungible -----------------------------
(***************************************************************************)
(* The fungible half of HtsSystemContract.sol as HtsSystemContractJson.sol *)
(* runs it: a token is a contract whose storage is filled lazily from the  *)
(* Mirror Node, and is reached through two doors, the system contract at   *)
(* 0x167 ("Hts...") and the token's own HIP-719 proxy ("Erc20...").        *)
(*                                                                         *)
(* An EVM transaction is atomic: an action is one external call that does  *)
(* not revert, with every internal call it makes.  A call that reverts     *)
(* leaves no trace (the cheatcodes' writes are journaled too) and is not   *)
(* an action; its require() is the guard of the action.                    *)
(*                                                                         *)
(* In the Hardhat plugin the EVM itself fetches a slot at its first use    *)
(* and keeps it, so this module covers that mode as well: there, account   *)
(* ids are the account numbers (AccountId = AccountNum).  One case is the  *)
(* Foundry library's alone: a token created at the address of a token of   *)
(* the network, whose other slots the plugin goes on fetching.             *)
(***************************************************************************)
EXTENDS Integers

CONSTANTS
    Addresses,     \* the non-zero EVM addresses of the model
    Zero,          \* address(0)
    AccountId,     \* address -> uint32 that getAccountId answers
    AccountNum,    \* address -> account number on the Mirror Node, 0 if none
    Tokens,        \* token addresses, as the numbers _createToken counts in
    FirstTokenId,  \* the value the counter takes from 0 (1031 in the code)
    Mirror,        \* remote token -> what the Mirror Node says of it
    Int64Max,      \* 2^63 - 1, scaled down
    WordMax,       \* 2^256 - 1, scaled down: also the unlimited allowance
    Words,         \* the uint256 arguments callers use
    Int64s         \* the int64 arguments callers use

RemoteTokens == DOMAIN Mirror
Ids   == {AccountId[a] : a \in Addresses}
Nums  == {AccountNum[a] : a \in Addresses} \ {0}
Word  == 0 .. WordMax
Int64 == -(Int64Max + 1) .. Int64Max

\* keyExists: a token may have no key of a type, or one that holds no bytes
\* (a threshold key of the network, inheritAccountKey), or a usable one.
KeyState == {"absent", "empty", "usable"}

MirrorToken == [supply : 0 .. Int64Max, treasury : Addresses, supplyKey : KeyState,
                balance : [Nums -> Word], allowance : [Nums \X Nums -> Word],
                associated : SUBSET Nums]

ASSUME AddressAssumption == Zero \notin Addresses
ASSUME IdAssumption == /\ AccountId \in [Addresses -> Nat]
                       /\ AccountNum \in [Addresses -> Nat]
ASSUME WidthAssumption == /\ Int64Max \in Nat /\ WordMax \in Nat
                          /\ 2 * Int64Max < WordMax
ASSUME InputAssumption == Words \subseteq Word /\ Int64s \subseteq Int64
ASSUME TokenAssumption == Tokens \subseteq Nat /\ FirstTokenId \in Nat
ASSUME MirrorAssumption == /\ RemoteTokens \subseteq Tokens
                           /\ Mirror \in [RemoteTokens -> MirrorToken]

VARIABLES
    token,         \* token[t]: the storage of the contract at t
    nextTokenId,   \* the counter in the storage of 0x167
    caller         \* msg.sender of the last transaction (history)

vars == <<token, nextTokenId, caller>>

-----------------------------------------------------------------------------
(* Storage slots and what the Mirror Node holds for them.                  *)

BalanceSlot(a)     == <<"balanceOf", AccountId[a]>>
AllowanceSlot(o, s) == <<"allowance", AccountId[s], AccountId[o]>>
AssociatedSlot(a)  == <<"isAssociated", AccountId[a]>>

BalanceSlots    == {BalanceSlot(a) : a \in Addresses}
AllowanceSlots  == {AllowanceSlot(o, s) : o, s \in Addresses}
AssociatedSlots == {AssociatedSlot(a) : a \in Addresses}
Slots == BalanceSlots \cup AllowanceSlots \cup AssociatedSlots

\* MirrorNode.sol answers 0 for an address it cannot resolve to an account.
getBalance(t, a) ==
    IF t \in RemoteTokens /\ AccountNum[a] # 0 THEN Mirror[t].balance[AccountNum[a]] ELSE 0
getAllowance(t, o, s) ==
    IF t \in RemoteTokens /\ AccountNum[o] # 0 /\ AccountNum[s] # 0
    THEN Mirror[t].allowance[<<AccountNum[o], AccountNum[s]>>] ELSE 0
isAssociated(t, a) ==
    IF t \in RemoteTokens /\ AccountNum[a] # 0 /\ AccountNum[a] \in Mirror[t].associated
    THEN 1 ELSE 0

TokenState == [initialized : BOOLEAN,      \* _initSlot
               local : BOOLEAN,            \* _isLocalTokenSlot
               supply : 0 .. Int64Max, treasury : Addresses \cup {Zero},
               supplyKey : KeyState,
               storage : [Slots -> Word],
               scratch : SUBSET Slots]     \* slots fetched so far

EmptyToken == [initialized |-> FALSE, local |-> FALSE, supply |-> 0,
               treasury |-> Zero, supplyKey |-> "absent",
               storage |-> [x \in Slots |-> 0], scratch |-> {}]

\* _initTokenData: the first call of a remote token copies its info.
Opened(t) ==
    IF token[t].initialized THEN token[t]
    ELSE [token[t] EXCEPT !.initialized = TRUE, !.supply = Mirror[t].supply,
                          !.treasury = Mirror[t].treasury,
                          !.supplyKey = Mirror[t].supplyKey]

\* Any call of a token the Mirror Node does not know reverts.
Callable(t) == token[t].initialized \/ t \in RemoteTokens

\* _shouldFetch and _setValue around every slot computation.
FetchAlways(s, slot, remote) ==      \* mutant: a fetched slot is fetched again
    IF s.local THEN s
    ELSE [s EXCEPT !.storage[slot] = remote, !.scratch = @ \cup {slot}]
Fetch(s, slot, remote) ==
    IF s.local \/ slot \in s.scratch THEN s
    ELSE [s EXCEPT !.storage[slot] = remote, !.scratch = @ \cup {slot}]

FetchBalance(t, s, a)      == Fetch(s, BalanceSlot(a), getBalance(t, a))
FetchAllowance(t, s, o, p) == Fetch(s, AllowanceSlot(o, p), getAllowance(t, o, p))
FetchAssociated(t, s, a)   == Fetch(s, AssociatedSlot(a), isAssociated(t, a))

Store(s, slot, value) == [s EXCEPT !.storage[slot] = value]

-----------------------------------------------------------------------------
(* The internal functions of a token: Can... is the conjunction of the     *)
(* require()s and checked operations, the other the storage they leave.    *)

CanDebit(t, s, a, n) == FetchBalance(t, s, a).storage[BalanceSlot(a)] >= n
Debit(t, s, a, n) ==
    LET f == FetchBalance(t, s, a)
    IN  Store(f, BalanceSlot(a), f.storage[BalanceSlot(a)] - n)

CanCredit(t, s, a, n) == FetchBalance(t, s, a).storage[BalanceSlot(a)] + n <= WordMax
CreditUnfetched(t, s, a, n) ==       \* mutant: the balance is read raw
    Store(s, BalanceSlot(a), s.storage[BalanceSlot(a)] + n)
Credit(t, s, a, n) ==
    LET f == FetchBalance(t, s, a)
    IN  Store(f, BalanceSlot(a), f.storage[BalanceSlot(a)] + n)

\* _update with two non-zero addresses; the credit reads the balance again.
CanTransfer(t, s, from, to, n) ==
    /\ from # Zero /\ to # Zero
    /\ CanDebit(t, s, from, n)
    /\ CanCredit(t, Debit(t, s, from, n), to, n)
TransferReadsFirst(t, s, from, to, n) ==  \* mutant: both balances read first
    LET f == FetchBalance(t, FetchBalance(t, s, from), to)
    IN  Store(Store(f, BalanceSlot(from), f.storage[BalanceSlot(from)] - n),
              BalanceSlot(to), f.storage[BalanceSlot(to)] + n)
TransferUnlessSelf(t, s, from, to, n) ==  \* mutant: the same, but for equal addresses
    IF from = to THEN s ELSE TransferReadsFirst(t, s, from, to, n)
AfterTransfer(t, s, from, to, n) == Credit(t, Debit(t, s, from, n), to, n)

\* _update(address(0), treasury, n) and _update(treasury, address(0), n).
CanMintUnchecked(t, s, n) == s.treasury # Zero /\ CanCredit(t, s, s.treasury, n)  \* mutant
CanMint(t, s, n) == /\ s.treasury # Zero
                    /\ s.supply + n <= Int64Max
                    /\ CanCredit(t, s, s.treasury, n)
MintWithoutSupply(t, s, n) == Credit(t, s, s.treasury, n)  \* mutant
AfterMint(t, s, n) == Credit(t, [s EXCEPT !.supply = @ + n], s.treasury, n)

CanBurn(t, s, n) == /\ s.treasury # Zero
                    /\ CanDebit(t, s, s.treasury, n)
                    /\ s.supply - n >= 0
AfterBurn(t, s, n) == [Debit(t, s, s.treasury, n) EXCEPT !.supply = @ - n]

CanSpend(t, s, owner, spender, n) ==
    /\ owner # Zero /\ spender # Zero
    /\ FetchAllowance(t, s, owner, spender).storage[AllowanceSlot(owner, spender)] >= n
AfterSpend(t, s, owner, spender, n) ==
    LET f   == FetchAllowance(t, s, owner, spender)
        now == f.storage[AllowanceSlot(owner, spender)]
    IN  IF now = WordMax THEN f ELSE Store(f, AllowanceSlot(owner, spender), now - n)

ApproveUnfetched(t, s, owner, spender, n) ==     \* mutant
    Store(s, AllowanceSlot(owner, spender), n)
ApproveSwapped(t, s, owner, spender, n) ==       \* mutant: owner and spender swapped
    Store(FetchAllowance(t, s, spender, owner), AllowanceSlot(spender, owner), n)
AfterApprove(t, s, owner, spender, n) ==
    Store(FetchAllowance(t, s, owner, spender), AllowanceSlot(owner, spender), n)

\* transferFrom of the token's proxy: the allowance is charged even when the
\* spender is the owner.
CanTransferFrom(t, s, c, from, to, n) ==
    /\ CanSpend(t, s, from, c, n)
    /\ CanTransfer(t, AfterSpend(t, s, from, c, n), from, to, n)
TransferFromUnpaid(t, s, c, from, to, n) ==      \* mutant: no allowance is used up
    AfterTransfer(t, s, from, to, n)
AfterTransferFrom(t, s, c, from, to, n) ==
    AfterTransfer(t, AfterSpend(t, s, from, c, n), from, to, n)

\* transferToken of 0x167, for n >= 0: the owner does not need an allowance.
CanMove(t, s, c, from, to, n) ==
    IF from = c THEN CanTransfer(t, s, from, to, n)
                ELSE CanTransferFrom(t, s, c, from, to, n)
AfterMove(t, s, c, from, to, n) ==
    IF from = c THEN AfterTransfer(t, s, from, to, n)
                ELSE AfterTransferFrom(t, s, c, from, to, n)

\* ... and for any int64: a negative amount moves the other way, and the
\* smallest one cannot be negated.
CanTransferToken(t, s, c, sender, recipient, n) ==
    /\ n # -(Int64Max + 1)
    /\ IF n < 0 THEN CanMove(t, s, c, recipient, sender, -n)
                ELSE CanMove(t, s, c, sender, recipient, n)
AfterTransferToken(t, s, c, sender, recipient, n) ==
    IF n < 0 THEN AfterMove(t, s, c, recipient, sender, -n)
             ELSE AfterMove(t, s, c, sender, recipient, n)

\* int64(int256(n)) keeps the low 64 bits of a uint256.
ToInt64(n) == LET r == n % (2 * (Int64Max + 1))
              IN  IF r > Int64Max THEN r - 2 * (Int64Max + 1) ELSE r

-----------------------------------------------------------------------------
(* External calls.                                                         *)

Commit(c, t, s) ==
    /\ token' = [token EXCEPT ![t] = s]
    /\ caller' = c
    /\ UNCHANGED nextTokenId

Erc20Transfer(c, t, to, n) ==
    /\ Callable(t)
    /\ CanTransfer(t, Opened(t), c, to, n)
    /\ Commit(c, t, AfterTransfer(t, Opened(t), c, to, n))

Erc20TransferFrom(c, t, from, to, n) ==
    /\ Callable(t)
    /\ CanTransferFrom(t, Opened(t), c, from, to, n)
    /\ Commit(c, t, AfterTransferFrom(t, Opened(t), c, from, to, n))

\* The same through either door.
Approve(c, t, spender, n) ==
    /\ Callable(t) /\ spender # Zero
    /\ Commit(c, t, AfterApprove(t, Opened(t), c, spender, n))

HtsTransferToken(c, t, sender, recipient, n) ==
    /\ Callable(t)
    /\ CanTransferToken(t, Opened(t), c, sender, recipient, n)
    /\ Commit(c, t, AfterTransferToken(t, Opened(t), c, sender, recipient, n))

HtsTransferFrom(c, t, sender, recipient, n) ==
    HtsTransferToken(c, t, sender, recipient, ToInt64(n))

\* A list of two entries, each with the caller as its sender.
HtsTransferTokens(c, t, a, n, b, m) ==
    LET first == AfterTransferToken(t, Opened(t), c, c, a, n)
    IN  /\ Callable(t)
        /\ CanTransferToken(t, Opened(t), c, c, a, n)
        /\ CanTransferToken(t, first, c, c, b, m)
        /\ Commit(c, t, AfterTransferToken(t, first, c, c, b, m))

\* Without a supply key the call succeeds with TOKEN_HAS_NO_SUPPLY_KEY.
MintToken(c, t, n) ==
    /\ Callable(t) /\ n > 0
    /\ \/ /\ Opened(t).supplyKey # "usable"
          /\ Commit(c, t, Opened(t))
       \/ /\ Opened(t).supplyKey = "usable"
          /\ CanMint(t, Opened(t), n)
          /\ Commit(c, t, AfterMint(t, Opened(t), n))

BurnToken(c, t, n) ==
    /\ Callable(t) /\ n > 0
    /\ \/ /\ Opened(t).supplyKey # "usable"
          /\ Commit(c, t, Opened(t))
       \/ /\ Opened(t).supplyKey = "usable"
          /\ CanBurn(t, Opened(t), n)
          /\ Commit(c, t, AfterBurn(t, Opened(t), n))

\* The next address, whatever is there, a token of the network included: its
\* info is overwritten, its slots are not but none is fetched any more, and keys
\* are pushed after those there are, of which keyExists takes the first.  The
\* initial supply is minted whether or not there is a key.
NewTokenId == (IF nextTokenId = 0 THEN FirstTokenId ELSE nextTokenId) + 1

SetTokenInfoOnly(t, treasury, key) ==   \* mutant: _isLocalTokenSlot is not set
    [token[t] EXCEPT !.initialized = TRUE, !.supply = 0, !.treasury = treasury,
                     !.supplyKey = IF @ = "absent" THEN key ELSE @]
SetTokenInfo(t, treasury, key) ==
    [token[t] EXCEPT !.initialized = TRUE, !.local = TRUE, !.supply = 0,
                     !.treasury = treasury,
                     !.supplyKey = IF @ = "absent" THEN key ELSE @]

CreateFungibleToken(c, treasury, n, key) ==
    LET t == NewTokenId
        s == SetTokenInfo(t, treasury, key)
    IN  /\ t \in Tokens
        /\ treasury # Zero /\ n >= 0
        /\ nextTokenId' = t
        /\ caller' = c
        /\ \/ n = 0 /\ token' = [token EXCEPT ![t] = s]
           \/ /\ n > 0 /\ CanMint(t, s, n)
              /\ token' = [token EXCEPT ![t] = AfterMint(t, s, n)]

SetAssociation(c, ts, value) ==
    /\ ts # {} /\ \A t \in ts : Callable(t)
    /\ token' = [t \in Tokens |-> IF t \in ts
          THEN Store(FetchAssociated(t, Opened(t), c), AssociatedSlot(c), value)
          ELSE token[t]]
    /\ caller' = c
    /\ UNCHANGED nextTokenId

AssociateTokens(c, ts)  == SetAssociation(c, ts, 1)
DissociateTokens(c, ts) == SetAssociation(c, ts, 0)

\* View calls: they change no token, but they fill the slots they read.
BalanceOf(c, t, a) == Callable(t) /\ Commit(c, t, FetchBalance(t, Opened(t), a))
Allowance(c, t, o, s) == Callable(t) /\ Commit(c, t, FetchAllowance(t, Opened(t), o, s))
IsAssociated(c, t) ==
    /\ Callable(t) /\ AccountNum[c] # 0
    /\ Commit(c, t, FetchAssociated(t, Opened(t), c))
GetTokenInfo(c, t) == Callable(t) /\ Commit(c, t, Opened(t))

-----------------------------------------------------------------------------

Init == /\ token = [t \in Tokens |-> EmptyToken]
        /\ nextTokenId = 0
        /\ caller = Zero

AnyAddress == Addresses \cup {Zero}

TokenCall(c, t) ==
    \/ \E to \in AnyAddress, n \in Words : Erc20Transfer(c, t, to, n)
    \/ \E from, to \in AnyAddress, n \in Words :
          \/ Erc20TransferFrom(c, t, from, to, n)
          \/ HtsTransferFrom(c, t, from, to, n)
    \/ \E from, to \in AnyAddress, n \in Int64s : HtsTransferToken(c, t, from, to, n)
    \/ \E a, b \in AnyAddress, n, m \in Int64s : HtsTransferTokens(c, t, a, n, b, m)
    \/ \E s \in AnyAddress, n \in Words : Approve(c, t, s, n)
    \/ \E n \in Int64s : MintToken(c, t, n) \/ BurnToken(c, t, n)
    \/ \E a \in Addresses : BalanceOf(c, t, a)
    \/ \E o, s \in Addresses : Allowance(c, t, o, s)
    \/ IsAssociated(c, t)
    \/ GetTokenInfo(c, t)

Next == \E c \in Addresses :
    \/ \E t \in Tokens : TokenCall(c, t)
    \/ \E a \in AnyAddress, n \in Int64s, key \in KeyState :
          CreateFungibleToken(c, a, n, key)
    \/ \E ts \in SUBSET Tokens : AssociateTokens(c, ts) \/ DissociateTokens(c, ts)

Spec == Init /\ [][Next]_vars

-----------------------------------------------------------------------------
(* Correctness.  The ...Seen operators are what a view call would answer:   *)
(* the stored value of a slot in use, else what the Mirror Node has for it. *)

Seen(s, slot, remote) ==
    IF s.local \/ slot \in s.scratch THEN s.storage[slot] ELSE remote

BalanceSeen(t, s, a)      == Seen(s, BalanceSlot(a), getBalance(t, a))
AllowanceSeen(t, s, o, p) == Seen(s, AllowanceSlot(o, p), getAllowance(t, o, p))
AssociationSeen(t, s, a)  == Seen(s, AssociatedSlot(a), isAssociated(t, a))

\* Two addresses share an id only if they are the same account.
IdsIdentifyAccounts ==
    \A a, b \in Addresses : AccountId[a] = AccountId[b] => AccountNum[a] = AccountNum[b]

\* The counter knows nothing of the network: a token may be created at the
\* address of one there is.  What was fetched of that one stays, the rest of it
\* reads as nothing from then on.
Replaced(t)   == t \in RemoteTokens /\ token[t].local
IsReplaced(t) == ~Replaced(t) /\ Replaced(t)'

\* The type invariant; supply and storage stay within their widths.
TypeOK == /\ token \in [Tokens -> TokenState]
          /\ nextTokenId \in Nat
          /\ caller \in Addresses \cup {Zero}

\* A slot of a forked token holds something only once it was fetched.  A write
\* that came before the fetch of its slot would be lost to the next reader,
\* for whom _shouldFetch still answers true.
WrittenSlotsAreFetched ==
    \A t \in Tokens : \A x \in Slots :
        ~token[t].local /\ token[t].storage[x] # 0 => x \in token[t].scratch

\* Nobody loses units but by an own call, by a call of a spender whose
\* allowance it uses up, or as the treasury of a token that is burnt; or, when
\* another token is created at its address, what was not fetched before.  Holds
\* for both doors, for negative amounts and truncated ones, and for lists.
\* (A storage that stays as it is shows the same values.)
NoUnauthorisedSpending ==
    [][\A t \in {u \in Tokens : token'[u] # token[u]}, a \in Addresses :
         LET loss == BalanceSeen(t, token[t], a) - BalanceSeen(t, token'[t], a)
             had  == AllowanceSeen(t, token[t], a, caller')
             left == AllowanceSeen(t, token'[t], a, caller')
         IN  loss > 0 => \/ AccountId[caller'] = AccountId[a]
                         \/ loss <= had - left
                         \/ had = WordMax
                         \/ /\ AccountId[Opened(t).treasury] = AccountId[a]
                            /\ loss = Opened(t).supply - token'[t].supply
                         \/ IsReplaced(t) /\ BalanceSlot(a) \notin token[t].scratch
      ]_vars

\* An allowance is set by its owner only, and otherwise only used up by its
\* spender: in particular no fetch brings a used allowance back, and a token
\* created at the address of another one leaves at most those fetched before.
AllowancesOnlySpent ==
    [][\A t \in {u \in Tokens : token'[u] # token[u]}, o, s \in Addresses :
         LET had  == AllowanceSeen(t, token[t], o, s)
             left == AllowanceSeen(t, token'[t], o, s)
         IN  left # had => \/ AccountId[caller'] = AccountId[o]
                           \/ AccountId[caller'] = AccountId[s] /\ left < had
                           \/ /\ IsReplaced(t) /\ left = 0
                              /\ AllowanceSlot(o, s) \notin token[t].scratch
      ]_vars
=============================================================================
