-------------------------- MODULE HtsFungible_proofs ---------------------------
(***************************************************************************)
(* Proofs about HtsFungible, for every set of addresses, tokens, widths    *)
(* and every content of the Mirror Node.                                   *)
(*                                                                         *)
(* The inductive invariant is stated for the storage of one token: Good(s) *)
(* says that it is well-typed and that what was written was fetched first. *)
(* One lemma per internal function of the contract shows that the function *)
(* preserves Good; the external calls are compositions of those.           *)
(***************************************************************************)
EXTENDS HtsFungible, TLAPS

FetchedFirst(s) == \A x \in Slots : ~s.local /\ s.storage[x] # 0 => x \in s.scratch

Good(s) == s \in TokenState /\ FetchedFirst(s)

-----------------------------------------------------------------------------
(* Slots and remote values.                                                *)

LEMMA SlotTypes ==
    ASSUME NEW a \in Addresses, NEW b \in Addresses
    PROVE  BalanceSlot(a) \in Slots /\ AllowanceSlot(a, b) \in Slots
           /\ AssociatedSlot(a) \in Slots
  BY DEF Slots, BalanceSlots, AllowanceSlots, AssociatedSlots

LEMMA WordFacts == 0 \in Word /\ 1 \in Word /\ Word \subseteq Nat
  BY WidthAssumption DEF Word

LEMMA NumTypes == \A a \in Addresses : AccountNum[a] # 0 => AccountNum[a] \in Nums
  BY DEF Nums

LEMMA RemoteTypes ==
    ASSUME NEW t \in Tokens, NEW a \in Addresses, NEW b \in Addresses
    PROVE  getBalance(t, a) \in Word /\ getAllowance(t, a, b) \in Word
           /\ isAssociated(t, a) \in Word
<1>1. t \in RemoteTokens => Mirror[t] \in MirrorToken
  BY MirrorAssumption
<1>2. getBalance(t, a) \in Word
  BY <1>1, NumTypes, WordFacts DEF getBalance, MirrorToken
<1>3. getAllowance(t, a, b) \in Word
  BY <1>1, NumTypes, WordFacts DEF getAllowance, MirrorToken
<1>4. isAssociated(t, a) \in Word
  BY WordFacts DEF isAssociated
<1> QED BY <1>2, <1>3, <1>4

-----------------------------------------------------------------------------
(* The internal functions of a token.                                      *)

LEMMA FetchGood ==
    ASSUME NEW s, Good(s), NEW x \in Slots, NEW v \in Word
    PROVE  /\ Good(Fetch(s, x, v))
           /\ Fetch(s, x, v).local \/ x \in Fetch(s, x, v).scratch
           /\ Fetch(s, x, v).supply = s.supply
           /\ Fetch(s, x, v).treasury = s.treasury
  BY DEF Fetch, Good, FetchedFirst, TokenState

LEMMA StoreGood ==
    ASSUME NEW s, Good(s), NEW x \in Slots, s.local \/ x \in s.scratch, NEW v \in Word
    PROVE  /\ Good(Store(s, x, v))
           /\ Store(s, x, v).supply = s.supply
           /\ Store(s, x, v).treasury = s.treasury
  BY DEF Store, Good, FetchedFirst, TokenState

LEMMA FetchBalanceGood ==
    ASSUME NEW t \in Tokens, NEW s, Good(s), NEW a \in Addresses
    PROVE  /\ Good(FetchBalance(t, s, a))
           /\ \A v \in Word : Good(Store(FetchBalance(t, s, a), BalanceSlot(a), v))
           /\ FetchBalance(t, s, a).storage[BalanceSlot(a)] \in Word
           /\ \A v : Store(FetchBalance(t, s, a), BalanceSlot(a), v).supply = s.supply
           /\ \A v : Store(FetchBalance(t, s, a), BalanceSlot(a), v).treasury = s.treasury
<1>1. BalanceSlot(a) \in Slots /\ getBalance(t, a) \in Word
  BY SlotTypes, RemoteTypes
<1> DEFINE f == FetchBalance(t, s, a)
<1>2. /\ Good(f) /\ (f.local \/ BalanceSlot(a) \in f.scratch)
      /\ f.supply = s.supply /\ f.treasury = s.treasury
  BY <1>1, FetchGood DEF FetchBalance
<1>3. f.storage[BalanceSlot(a)] \in Word
  BY <1>1, <1>2 DEF Good, TokenState
<1>4. \A v \in Word : Good(Store(f, BalanceSlot(a), v))
  BY <1>1, <1>2, StoreGood
<1>5. \A v : Store(f, BalanceSlot(a), v).supply = f.supply
             /\ Store(f, BalanceSlot(a), v).treasury = f.treasury
  BY <1>2 DEF Store, Good, TokenState
<1> QED BY <1>2, <1>3, <1>4, <1>5

LEMMA FetchAllowanceGood ==
    ASSUME NEW t \in Tokens, NEW s, Good(s), NEW o \in Addresses, NEW p \in Addresses
    PROVE  /\ Good(FetchAllowance(t, s, o, p))
           /\ \A v \in Word : Good(Store(FetchAllowance(t, s, o, p), AllowanceSlot(o, p), v))
           /\ FetchAllowance(t, s, o, p).storage[AllowanceSlot(o, p)] \in Word
<1>1. AllowanceSlot(o, p) \in Slots /\ getAllowance(t, o, p) \in Word
  BY SlotTypes, RemoteTypes
<1> DEFINE f == FetchAllowance(t, s, o, p)
<1>2. Good(f) /\ (f.local \/ AllowanceSlot(o, p) \in f.scratch)
  BY <1>1, FetchGood DEF FetchAllowance
<1>3. f.storage[AllowanceSlot(o, p)] \in Word
  BY <1>1, <1>2 DEF Good, TokenState
<1>4. \A v \in Word : Good(Store(f, AllowanceSlot(o, p), v))
  BY <1>1, <1>2, StoreGood
<1> QED BY <1>2, <1>3, <1>4

LEMMA FetchAssociatedGood ==
    ASSUME NEW t \in Tokens, NEW s, Good(s), NEW a \in Addresses
    PROVE  /\ Good(FetchAssociated(t, s, a))
           /\ \A v \in Word : Good(Store(FetchAssociated(t, s, a), AssociatedSlot(a), v))
<1>1. AssociatedSlot(a) \in Slots /\ isAssociated(t, a) \in Word
  BY SlotTypes, RemoteTypes
<1> DEFINE f == FetchAssociated(t, s, a)
<1>2. Good(f) /\ (f.local \/ AssociatedSlot(a) \in f.scratch)
  BY <1>1, FetchGood DEF FetchAssociated
<1> QED BY <1>1, <1>2, StoreGood

LEMMA DebitGood ==
    ASSUME NEW t \in Tokens, NEW s, Good(s), NEW a \in Addresses, NEW n \in Nat,
           CanDebit(t, s, a, n)
    PROVE  /\ Good(Debit(t, s, a, n))
           /\ Debit(t, s, a, n).supply = s.supply
           /\ Debit(t, s, a, n).treasury = s.treasury
<1>1. FetchBalance(t, s, a).storage[BalanceSlot(a)] - n \in Word
  BY FetchBalanceGood, WordFacts, WidthAssumption DEF CanDebit, Word
<1> QED BY <1>1, FetchBalanceGood DEF Debit

LEMMA CreditGood ==
    ASSUME NEW t \in Tokens, NEW s, Good(s), NEW a \in Addresses, NEW n \in Nat,
           CanCredit(t, s, a, n)
    PROVE  /\ Good(Credit(t, s, a, n))
           /\ Credit(t, s, a, n).supply = s.supply
<1>1. FetchBalance(t, s, a).storage[BalanceSlot(a)] + n \in Word
  BY FetchBalanceGood, WordFacts, WidthAssumption DEF CanCredit, Word
<1> QED BY <1>1, FetchBalanceGood DEF Credit

LEMMA TransferGood ==
    ASSUME NEW t \in Tokens, NEW s, Good(s),
           NEW from \in AnyAddress, NEW to \in AnyAddress, NEW n \in Nat,
           CanTransfer(t, s, from, to, n)
    PROVE  Good(AfterTransfer(t, s, from, to, n))
<1>1. from \in Addresses /\ to \in Addresses
  BY DEF AnyAddress, CanTransfer
<1>2. Good(Debit(t, s, from, n))
  BY <1>1, DebitGood DEF CanTransfer
<1> QED BY <1>1, <1>2, CreditGood DEF CanTransfer, AfterTransfer

LEMMA SpendGood ==
    ASSUME NEW t \in Tokens, NEW s, Good(s),
           NEW o \in AnyAddress, NEW p \in AnyAddress, NEW n \in Nat,
           CanSpend(t, s, o, p, n)
    PROVE  Good(AfterSpend(t, s, o, p, n))
<1>1. o \in Addresses /\ p \in Addresses
  BY DEF AnyAddress, CanSpend
<1> DEFINE f == FetchAllowance(t, s, o, p)
           now == f.storage[AllowanceSlot(o, p)]
<1>2. Good(f) /\ now - n \in Word
  BY <1>1, FetchAllowanceGood, WordFacts, WidthAssumption DEF CanSpend, Word
<1>3. Good(Store(f, AllowanceSlot(o, p), now - n))
  BY <1>1, <1>2, FetchAllowanceGood
<1> QED BY <1>2, <1>3 DEF AfterSpend

LEMMA TransferFromGood ==
    ASSUME NEW t \in Tokens, NEW s, Good(s), NEW c \in Addresses,
           NEW from \in AnyAddress, NEW to \in AnyAddress, NEW n \in Nat,
           CanTransferFrom(t, s, c, from, to, n)
    PROVE  Good(AfterTransferFrom(t, s, c, from, to, n))
<1>1. c \in AnyAddress
  BY DEF AnyAddress
<1>2. Good(AfterSpend(t, s, from, c, n))
  BY <1>1, SpendGood DEF CanTransferFrom
<1> QED BY <1>2, TransferGood DEF CanTransferFrom, AfterTransferFrom

LEMMA MoveGood ==
    ASSUME NEW t \in Tokens, NEW s, Good(s), NEW c \in Addresses,
           NEW from \in AnyAddress, NEW to \in AnyAddress, NEW n \in Nat,
           CanMove(t, s, c, from, to, n)
    PROVE  Good(AfterMove(t, s, c, from, to, n))
<1>1. CASE from = c
  BY <1>1, TransferGood DEF CanMove, AfterMove
<1>2. CASE from # c
  BY <1>2, TransferFromGood DEF CanMove, AfterMove
<1> QED BY <1>1, <1>2

LEMMA TransferTokenGood ==
    ASSUME NEW t \in Tokens, NEW s, Good(s), NEW c \in Addresses,
           NEW from \in AnyAddress, NEW to \in AnyAddress, NEW n \in Int64,
           CanTransferToken(t, s, c, from, to, n)
    PROVE  Good(AfterTransferToken(t, s, c, from, to, n))
<1>1. CASE n < 0
  <2>1. -n \in Nat
    BY <1>1, WidthAssumption DEF Int64
  <2> QED BY <1>1, <2>1, MoveGood DEF CanTransferToken, AfterTransferToken
<1>2. CASE ~(n < 0)
  <2>1. n \in Nat
    BY <1>2, WidthAssumption DEF Int64
  <2> QED BY <1>2, <2>1, MoveGood DEF CanTransferToken, AfterTransferToken
<1> QED BY <1>1, <1>2

LEMMA ToInt64Type == \A n \in Word : ToInt64(n) \in Int64
<1> SUFFICES ASSUME NEW n \in Word PROVE ToInt64(n) \in Int64
  OBVIOUS
<1> DEFINE m == 2 * (Int64Max + 1)
           r == n % m
<1>1. n \in Nat /\ Int64Max \in Nat /\ m \in Nat \ {0}
  BY WidthAssumption DEF Word
<1>2. r \in 0 .. m - 1
  <2> HIDE DEF m
  <2> QED BY <1>1
<1> QED BY <1>1, <1>2 DEF ToInt64, Int64

LEMMA SupplyGood ==
    ASSUME NEW s, Good(s), NEW v \in 0 .. Int64Max
    PROVE  Good([s EXCEPT !.supply = v]) /\ [s EXCEPT !.supply = v].treasury = s.treasury
  BY DEF Good, TokenState, FetchedFirst

LEMMA MintGood ==
    ASSUME NEW t \in Tokens, NEW s, Good(s), NEW n \in Nat, CanMint(t, s, n)
    PROVE  Good(AfterMint(t, s, n))
<1> DEFINE u == [s EXCEPT !.supply = @ + n]
<1>1. s.supply + n \in 0 .. Int64Max /\ s.treasury \in Addresses
  BY WidthAssumption DEF CanMint, Good, TokenState
<1>2. Good(u)
  BY <1>1, SupplyGood
<1>3. CanCredit(t, u, s.treasury, n)
  BY <1>1 DEF CanMint, CanCredit, FetchBalance, Fetch, Good, TokenState
<1> QED BY <1>1, <1>2, <1>3, CreditGood DEF AfterMint

LEMMA BurnGood ==
    ASSUME NEW t \in Tokens, NEW s, Good(s), NEW n \in Nat, CanBurn(t, s, n)
    PROVE  Good(AfterBurn(t, s, n))
<1> DEFINE d == Debit(t, s, s.treasury, n)
<1>1. s.supply - n \in 0 .. Int64Max /\ s.treasury \in Addresses
  BY WidthAssumption DEF CanBurn, Good, TokenState
<1>2. Good(d) /\ d.supply = s.supply
  BY <1>1, DebitGood DEF CanBurn
<1> QED BY <1>1, <1>2, SupplyGood DEF AfterBurn

-----------------------------------------------------------------------------
(* The inductive invariant.                                                *)

IInv == TypeOK /\ WrittenSlotsAreFetched

LEMMA IInvGood ==
    IInv <=> /\ \A t \in Tokens : Good(token[t])
             /\ token = [t \in Tokens |-> token[t]]
             /\ nextTokenId \in Nat /\ caller \in Addresses \cup {Zero}
  BY DEF IInv, TypeOK, WrittenSlotsAreFetched, Good, FetchedFirst

LEMMA OpenedGood ==
    ASSUME IInv, NEW t \in Tokens, Callable(t)
    PROVE  Good(Opened(t))
<1>1. Good(token[t])
  BY IInvGood
<1>2. CASE token[t].initialized
  BY <1>1, <1>2 DEF Opened
<1>3. CASE ~token[t].initialized
  <2>1. Mirror[t] \in MirrorToken
    BY <1>3, MirrorAssumption DEF Callable
  <2> QED BY <1>1, <1>3, <2>1 DEF Opened, MirrorToken, Good, FetchedFirst, TokenState
<1> QED BY <1>2, <1>3

LEMMA CommitGood ==
    ASSUME IInv, NEW c \in Addresses, NEW t \in Tokens, NEW s, Good(s), Commit(c, t, s)
    PROVE  IInv'
<1>1. /\ token' = [token EXCEPT ![t] = s]
      /\ caller' \in Addresses \cup {Zero}
      /\ nextTokenId' \in Nat
  BY IInvGood DEF Commit
<1>2. TypeOK'
  BY <1>1 DEF TypeOK, IInv, Good
<1>3. WrittenSlotsAreFetched'
  BY <1>1 DEF IInv, TypeOK, WrittenSlotsAreFetched, Good, FetchedFirst
<1> QED BY <1>2, <1>3 DEF IInv

LEMMA CreateGood ==
    ASSUME IInv, NEW c \in Addresses, NEW a \in AnyAddress, NEW n \in Int64,
           NEW key \in KeyState, CreateFungibleToken(c, a, n, key)
    PROVE  IInv'
<1> DEFINE t == NewTokenId
           s == SetTokenInfo(t, a, key)
<1>1. t \in Tokens /\ t \in Nat /\ a \in Addresses
  BY TokenAssumption DEF CreateFungibleToken, AnyAddress
<1>2. Good(s)
  <2> HIDE DEF t
  <2>1. token[t] \in TokenState /\ 0 \in 0 .. Int64Max /\ a \in Addresses \cup {Zero}
    BY <1>1, IInvGood, WidthAssumption DEF Good
  <2>2. (IF token[t].supplyKey = "absent" THEN key ELSE token[t].supplyKey) \in KeyState
    BY <2>1 DEF TokenState
  <2>3. s \in TokenState /\ s.local
    BY <2>1, <2>2 DEF SetTokenInfo, TokenState
  <2> QED BY <2>3 DEF Good, FetchedFirst
<1>3. n > 0 /\ CanMint(t, s, n) => Good(AfterMint(t, s, n))
  <2> HIDE DEF t, s
  <2>1. n > 0 => n \in Nat
    BY WidthAssumption DEF Int64
  <2> QED BY <1>1, <1>2, <2>1, MintGood
<1>4. PICK u : Good(u) /\ token' = [token EXCEPT ![t] = u]
  BY <1>2, <1>3 DEF CreateFungibleToken
<1>5. nextTokenId' \in Nat /\ caller' \in Addresses \cup {Zero}
  BY <1>1 DEF CreateFungibleToken
<1> HIDE DEF t
<1>6. TypeOK'
  BY <1>4, <1>5, IInvGood DEF TypeOK, IInv, Good
<1>7. WrittenSlotsAreFetched'
  BY <1>4, <1>1 DEF IInv, TypeOK, WrittenSlotsAreFetched, Good, FetchedFirst
<1> QED BY <1>6, <1>7 DEF IInv

LEMMA AssociationGood ==
    ASSUME IInv, NEW c \in Addresses, NEW ts \in SUBSET Tokens, NEW v \in {0, 1},
           SetAssociation(c, ts, v)
    PROVE  IInv'
<1> DEFINE u(t) == IF t \in ts
                   THEN Store(FetchAssociated(t, Opened(t), c), AssociatedSlot(c), v)
                   ELSE token[t]
<1>1. \A t \in Tokens : Good(u(t))
  <2> SUFFICES ASSUME NEW t \in Tokens PROVE Good(u(t))
    OBVIOUS
  <2>1. CASE t \in ts
    <3>1. Good(Opened(t))
      BY <2>1, OpenedGood DEF SetAssociation
    <3>2. v \in Word
      BY WordFacts
    <3> QED BY <2>1, <3>1, <3>2, FetchAssociatedGood
  <2>2. CASE t \notin ts
    BY <2>2, IInvGood
  <2> QED BY <2>1, <2>2
<1>2. token' = [t \in Tokens |-> u(t)]
  BY DEF SetAssociation
<1> HIDE DEF u
<1>3. TypeOK'
  BY <1>1, <1>2, IInvGood DEF TypeOK, Good, SetAssociation
<1>4. WrittenSlotsAreFetched'
  BY <1>1, <1>2 DEF WrittenSlotsAreFetched, Good, FetchedFirst
<1> QED BY <1>3, <1>4 DEF IInv

\* A call of one token commits a good storage.
LEMMA TokenCallGood ==
    ASSUME IInv, NEW c \in Addresses, NEW t \in Tokens, TokenCall(c, t)
    PROVE  IInv'
<1> DEFINE o == Opened(t)
<1>0. Callable(t) => Good(o)
  BY OpenedGood
<1>w. \A n \in Words : n \in Nat /\ n \in Word
  BY InputAssumption, WordFacts
<1>i. \A n \in Int64s : n \in Int64 /\ (n > 0 => n \in Nat)
  BY InputAssumption, WidthAssumption DEF Int64
<1>c. c \in AnyAddress
  BY DEF AnyAddress
<1>1. ASSUME NEW to \in AnyAddress, NEW n \in Words, Erc20Transfer(c, t, to, n)
      PROVE  IInv'
  <2>1. Good(AfterTransfer(t, o, c, to, n))
    BY <1>0, <1>w, <1>c, <1>1, TransferGood DEF Erc20Transfer
  <2> QED BY <1>1, <2>1, CommitGood DEF Erc20Transfer
<1>2. ASSUME NEW from \in AnyAddress, NEW to \in AnyAddress, NEW n \in Words,
             Erc20TransferFrom(c, t, from, to, n)
      PROVE  IInv'
  <2>1. Good(AfterTransferFrom(t, o, c, from, to, n))
    BY <1>0, <1>w, <1>2, TransferFromGood DEF Erc20TransferFrom
  <2> QED BY <1>2, <2>1, CommitGood DEF Erc20TransferFrom
<1>3. ASSUME NEW from \in AnyAddress, NEW to \in AnyAddress, NEW n \in Int64,
             HtsTransferToken(c, t, from, to, n)
      PROVE  IInv'
  <2>1. Good(AfterTransferToken(t, o, c, from, to, n))
    BY <1>0, <1>3, TransferTokenGood DEF HtsTransferToken
  <2> QED BY <1>3, <2>1, CommitGood DEF HtsTransferToken
<1>4. ASSUME NEW from \in AnyAddress, NEW to \in AnyAddress, NEW n \in Words,
             HtsTransferFrom(c, t, from, to, n)
      PROVE  IInv'
  BY <1>3, <1>4, <1>w, ToInt64Type DEF HtsTransferFrom
<1>5. ASSUME NEW a \in AnyAddress, NEW b \in AnyAddress, NEW n \in Int64s, NEW m \in Int64s,
             HtsTransferTokens(c, t, a, n, b, m)
      PROVE  IInv'
  <2> DEFINE first == AfterTransferToken(t, o, c, c, a, n)
  <2>1. Good(first)
    BY <1>0, <1>i, <1>c, <1>5, TransferTokenGood DEF HtsTransferTokens
  <2>2. CanTransferToken(t, first, c, c, b, m)
        /\ Commit(c, t, AfterTransferToken(t, first, c, c, b, m))
    BY <1>5 DEF HtsTransferTokens
  <2> HIDE DEF first
  <2>3. Good(AfterTransferToken(t, first, c, c, b, m))
    BY <2>1, <2>2, <1>i, <1>c, TransferTokenGood
  <2> QED BY <2>2, <2>3, CommitGood
<1>6. ASSUME NEW p \in AnyAddress, NEW n \in Words, Approve(c, t, p, n)
      PROVE  IInv'
  <2>1. p \in Addresses /\ Good(o)
    BY <1>0, <1>6 DEF Approve, AnyAddress
  <2>2. Good(AfterApprove(t, o, c, p, n))
    BY <2>1, <1>w, FetchAllowanceGood DEF AfterApprove
  <2> QED BY <1>6, <2>2, CommitGood DEF Approve
<1>7. ASSUME NEW n \in Int64s, MintToken(c, t, n)
      PROVE  IInv'
  BY <1>0, <1>i, <1>7, MintGood, CommitGood DEF MintToken
<1>8. ASSUME NEW n \in Int64s, BurnToken(c, t, n)
      PROVE  IInv'
  BY <1>0, <1>i, <1>8, BurnGood, CommitGood DEF BurnToken
<1>9. ASSUME NEW a \in Addresses, BalanceOf(c, t, a)
      PROVE  IInv'
  BY <1>0, <1>9, FetchBalanceGood, CommitGood DEF BalanceOf
<1>10. ASSUME NEW a \in Addresses, NEW p \in Addresses, Allowance(c, t, a, p)
       PROVE  IInv'
  BY <1>0, <1>10, FetchAllowanceGood, CommitGood DEF Allowance
<1>11. ASSUME IsAssociated(c, t)
       PROVE  IInv'
  BY <1>0, <1>11, FetchAssociatedGood, CommitGood DEF IsAssociated
<1>12. ASSUME GetTokenInfo(c, t)
       PROVE  IInv'
  BY <1>0, <1>12, CommitGood DEF GetTokenInfo
<1> QED
  BY <1>1, <1>2, <1>3, <1>4, <1>5, <1>6, <1>7, <1>8, <1>9, <1>10, <1>11, <1>12, <1>i
     DEF TokenCall

THEOREM InitIInv == Init => IInv
  BY WordFacts, WidthAssumption
     DEF Init, IInv, TypeOK, WrittenSlotsAreFetched, EmptyToken, TokenState, KeyState

THEOREM NextIInv == IInv /\ [Next]_vars => IInv'
<1> SUFFICES ASSUME IInv, [Next]_vars PROVE IInv'
  OBVIOUS
<1>1. CASE UNCHANGED vars
  BY <1>1 DEF vars, IInv, TypeOK, WrittenSlotsAreFetched
<1>2. ASSUME NEW c \in Addresses, NEW t \in Tokens, TokenCall(c, t)
      PROVE  IInv'
  BY <1>2, TokenCallGood
<1>3. ASSUME NEW c \in Addresses, NEW a \in AnyAddress, NEW n \in Int64s,
             NEW key \in KeyState, CreateFungibleToken(c, a, n, key)
      PROVE  IInv'
  BY <1>3, CreateGood, InputAssumption
<1>4. ASSUME NEW c \in Addresses, NEW ts \in SUBSET Tokens,
             AssociateTokens(c, ts) \/ DissociateTokens(c, ts)
      PROVE  IInv'
  BY <1>4, AssociationGood DEF AssociateTokens, DissociateTokens
<1> QED BY <1>1, <1>2, <1>3, <1>4 DEF Next

\* Types, widths and the invariant of the lazy fetch hold for every instance.
THEOREM TypeCorrect == Spec => []TypeOK
<1>1. IInv => TypeOK
  BY DEF IInv
<1> QED BY <1>1, InitIInv, NextIInv, PTL DEF Spec

\* No write of _update, _approve or associate is ever lost to a later fetch of
\* its slot, whatever the calls and their order.
THEOREM WritesAreNeverLost == Spec => []WrittenSlotsAreFetched
<1>1. IInv => WrittenSlotsAreFetched
  BY DEF IInv
<1> QED BY <1>1, InitIInv, NextIInv, PTL DEF Spec

-----------------------------------------------------------------------------
(* Who can lose units of a token, and who can change an allowance: proofs  *)
(* about HtsFungible for every set of addresses and tokens, all widths and *)
(* every content of the Mirror Node, as long as ids identify accounts.     *)
(*                                                                         *)
(* View(t, s) is what the view calls show of the storage s of token t, as  *)
(* a function of the slot.  A fetch does not change it (FetchView), and    *)
(* each internal function changes it at the slots that it names, so that   *)
(* the order in which slots are first used disappears from the proofs.     *)


LEMMA SlotsDiffer ==
    ASSUME NEW a \in Addresses, NEW b \in Addresses, NEW x \in Addresses, NEW y \in Addresses
    PROVE  /\ BalanceSlot(a) # AllowanceSlot(x, y)
           /\ BalanceSlot(a) # AssociatedSlot(x)
           /\ AllowanceSlot(a, b) # AssociatedSlot(x)
           /\ BalanceSlot(a) = BalanceSlot(x) <=> AccountId[a] = AccountId[x]
           /\ AssociatedSlot(a) = AssociatedSlot(x) <=> AccountId[a] = AccountId[x]
           /\ AllowanceSlot(a, b) = AllowanceSlot(x, y) <=>
                 AccountId[a] = AccountId[x] /\ AccountId[b] = AccountId[y]
  BY DEF BalanceSlot, AllowanceSlot, AssociatedSlot

-----------------------------------------------------------------------------
(* What the Mirror Node has for a slot.                                    *)

RemoteAt(t, x, v) ==
    \A a, b \in Addresses :
        /\ x = BalanceSlot(a) => v = getBalance(t, a)
        /\ x = AllowanceSlot(a, b) => v = getAllowance(t, a, b)
        /\ x = AssociatedSlot(a) => v = isAssociated(t, a)

RemoteOf(t) == [x \in Slots |-> CHOOSE v \in Word : RemoteAt(t, x, v)]

\* Slots are kept by id, the Mirror Node's numbers by account number.
LEMMA SameIdSameRemote ==
    ASSUME IdsIdentifyAccounts, NEW t, NEW a \in Addresses, NEW b \in Addresses,
           NEW x \in Addresses, NEW y \in Addresses, AccountId[a] = AccountId[x]
    PROVE  /\ getBalance(t, a) = getBalance(t, x)
           /\ isAssociated(t, a) = isAssociated(t, x)
           /\ AccountId[b] = AccountId[y] => getAllowance(t, a, b) = getAllowance(t, x, y)
<1>1. AccountNum[a] = AccountNum[x] /\ (AccountId[b] = AccountId[y] => AccountNum[b] = AccountNum[y])
  BY DEF IdsIdentifyAccounts
<1>2. getBalance(t, a) = getBalance(t, x)
  BY <1>1 DEF getBalance
<1>3. isAssociated(t, a) = isAssociated(t, x)
  BY <1>1 DEF isAssociated
<1>4. AccountId[b] = AccountId[y] => getAllowance(t, a, b) = getAllowance(t, x, y)
  BY <1>1 DEF getAllowance
<1> QED BY <1>2, <1>3, <1>4

LEMMA RemoteExists ==
    ASSUME IdsIdentifyAccounts, NEW t \in Tokens, NEW x \in Slots
    PROVE  \E v \in Word : RemoteAt(t, x, v)
<1>1. ASSUME NEW c \in Addresses, x = BalanceSlot(c)
      PROVE  RemoteAt(t, x, getBalance(t, c))
  BY <1>1, SlotsDiffer, SameIdSameRemote DEF RemoteAt
<1>2. ASSUME NEW c \in Addresses, NEW d \in Addresses, x = AllowanceSlot(c, d)
      PROVE  RemoteAt(t, x, getAllowance(t, c, d))
  BY <1>2, SlotsDiffer, SameIdSameRemote DEF RemoteAt
<1>3. ASSUME NEW c \in Addresses, x = AssociatedSlot(c)
      PROVE  RemoteAt(t, x, isAssociated(t, c))
  BY <1>3, SlotsDiffer, SameIdSameRemote DEF RemoteAt
<1>4. \/ \E c \in Addresses : x = BalanceSlot(c) \/ x = AssociatedSlot(c)
      \/ \E c, d \in Addresses : x = AllowanceSlot(c, d)
  BY DEF Slots, BalanceSlots, AllowanceSlots, AssociatedSlots
<1> QED BY <1>1, <1>2, <1>3, <1>4, RemoteTypes

LEMMA RemoteOfIs ==
    ASSUME IdsIdentifyAccounts, NEW t \in Tokens
    PROVE  /\ RemoteOf(t) \in [Slots -> Word]
           /\ \A a \in Addresses : RemoteOf(t)[BalanceSlot(a)] = getBalance(t, a)
           /\ \A a \in Addresses : RemoteOf(t)[AssociatedSlot(a)] = isAssociated(t, a)
           /\ \A a, b \in Addresses : RemoteOf(t)[AllowanceSlot(a, b)] = getAllowance(t, a, b)
<1>1. \A x \in Slots : RemoteOf(t)[x] \in Word /\ RemoteAt(t, x, RemoteOf(t)[x])
  BY RemoteExists DEF RemoteOf
<1>2. RemoteOf(t) \in [Slots -> Word]
  BY <1>1 DEF RemoteOf
<1> QED BY <1>1, <1>2, SlotTypes DEF RemoteAt

-----------------------------------------------------------------------------
(* What the view calls show.                                               *)

View(t, s) == [x \in Slots |-> Seen(s, x, RemoteOf(t)[x])]

\* All of a token but its slots.
SameInfo(s, k) == /\ k.initialized = s.initialized /\ k.local = s.local
                  /\ k.supply = s.supply /\ k.treasury = s.treasury
                  /\ k.supplyKey = s.supplyKey

LEMMA ViewIs ==
    ASSUME IdsIdentifyAccounts, NEW t \in Tokens, NEW s, Good(s)
    PROVE  /\ View(t, s) \in [Slots -> Word]
           /\ \A a \in Addresses : View(t, s)[BalanceSlot(a)] = BalanceSeen(t, s, a)
           /\ \A a \in Addresses : View(t, s)[AssociatedSlot(a)] = AssociationSeen(t, s, a)
           /\ \A a, b \in Addresses : View(t, s)[AllowanceSlot(a, b)] = AllowanceSeen(t, s, a, b)
<1>1. View(t, s) \in [Slots -> Word]
  BY RemoteOfIs DEF View, Seen, Good, TokenState
<1> QED BY <1>1, RemoteOfIs, SlotTypes DEF View, BalanceSeen, AssociationSeen, AllowanceSeen

LEMMA FetchView ==
    ASSUME NEW t \in Tokens, NEW s, Good(s), NEW x \in Slots
    PROVE  /\ View(t, Fetch(s, x, RemoteOf(t)[x])) = View(t, s)
           /\ Fetch(s, x, RemoteOf(t)[x]).storage[x] = View(t, s)[x]
           /\ SameInfo(s, Fetch(s, x, RemoteOf(t)[x]))
           /\ LET f == Fetch(s, x, RemoteOf(t)[x]) IN f.local \/ x \in f.scratch
<1>1. PICK r : r = RemoteOf(t)
  OBVIOUS
<1>2. PICK f : f = Fetch(s, x, r[x])
  OBVIOUS
<1>3. /\ \A y \in Slots : Seen(f, y, r[y]) = Seen(s, y, r[y])
      /\ f.storage[x] = Seen(s, x, r[x])
      /\ f.local \/ x \in f.scratch
      /\ SameInfo(s, f)
  BY <1>2 DEF Fetch, Seen, Good, TokenState, SameInfo
<1> QED BY <1>1, <1>2, <1>3 DEF View

LEMMA StoreView ==
    ASSUME NEW t \in Tokens, NEW s, Good(s), NEW x \in Slots, NEW v,
           s.local \/ x \in s.scratch
    PROVE  /\ View(t, Store(s, x, v)) = [View(t, s) EXCEPT ![x] = v]
           /\ SameInfo(s, Store(s, x, v))
<1>1. PICK r : r = RemoteOf(t)
  OBVIOUS
<1>2. PICK f : f = Store(s, x, v)
  OBVIOUS
<1>3. /\ \A y \in Slots : Seen(f, y, r[y]) = IF y = x THEN v ELSE Seen(s, y, r[y])
      /\ SameInfo(s, f)
  BY <1>2 DEF Store, Seen, Good, TokenState, SameInfo
<1> QED BY <1>1, <1>2, <1>3 DEF View

-----------------------------------------------------------------------------
(* The internal functions, each as a change of what is shown.              *)

LEMMA BalanceView ==
    ASSUME IdsIdentifyAccounts, NEW t \in Tokens, NEW s, Good(s), NEW a \in Addresses
    PROVE  /\ FetchBalance(t, s, a).storage[BalanceSlot(a)] = View(t, s)[BalanceSlot(a)]
           /\ View(t, FetchBalance(t, s, a)) = View(t, s)
           /\ SameInfo(s, FetchBalance(t, s, a))
           /\ \A v : LET k == Store(FetchBalance(t, s, a), BalanceSlot(a), v)
                     IN  /\ View(t, k) = [View(t, s) EXCEPT ![BalanceSlot(a)] = v]
                         /\ SameInfo(s, k)
<1>1. PICK f : f = FetchBalance(t, s, a)
  OBVIOUS
<1>2. BalanceSlot(a) \in Slots /\ RemoteOf(t)[BalanceSlot(a)] = getBalance(t, a)
  BY SlotTypes, RemoteOfIs
<1>3. /\ f.storage[BalanceSlot(a)] = View(t, s)[BalanceSlot(a)]
      /\ View(t, f) = View(t, s) /\ SameInfo(s, f)
      /\ f.local \/ BalanceSlot(a) \in f.scratch
  BY <1>1, <1>2, FetchView DEF FetchBalance
<1>4. Good(f)
  BY <1>1, FetchBalanceGood
<1>5. ASSUME NEW v
      PROVE  LET k == Store(f, BalanceSlot(a), v)
             IN  View(t, k) = [View(t, s) EXCEPT ![BalanceSlot(a)] = v] /\ SameInfo(s, k)
  <2>1. PICK k : k = Store(f, BalanceSlot(a), v)
    OBVIOUS
  <2>2. View(t, k) = [View(t, f) EXCEPT ![BalanceSlot(a)] = v] /\ SameInfo(f, k)
    BY <1>2, <1>3, <1>4, <2>1, StoreView
  <2>3. SameInfo(s, k)
    BY <1>3, <2>2 DEF SameInfo
  <2> QED BY <1>3, <2>1, <2>2, <2>3
<1> QED BY <1>1, <1>3, <1>5

LEMMA AllowanceView ==
    ASSUME IdsIdentifyAccounts, NEW t \in Tokens, NEW s, Good(s),
           NEW o \in Addresses, NEW p \in Addresses
    PROVE  /\ FetchAllowance(t, s, o, p).storage[AllowanceSlot(o, p)] = View(t, s)[AllowanceSlot(o, p)]
           /\ View(t, FetchAllowance(t, s, o, p)) = View(t, s)
           /\ SameInfo(s, FetchAllowance(t, s, o, p))
           /\ \A v : LET k == Store(FetchAllowance(t, s, o, p), AllowanceSlot(o, p), v)
                     IN  /\ View(t, k) = [View(t, s) EXCEPT ![AllowanceSlot(o, p)] = v]
                         /\ SameInfo(s, k)
<1>1. PICK f : f = FetchAllowance(t, s, o, p)
  OBVIOUS
<1>2. AllowanceSlot(o, p) \in Slots /\ RemoteOf(t)[AllowanceSlot(o, p)] = getAllowance(t, o, p)
  BY SlotTypes, RemoteOfIs
<1>3. /\ f.storage[AllowanceSlot(o, p)] = View(t, s)[AllowanceSlot(o, p)]
      /\ View(t, f) = View(t, s) /\ SameInfo(s, f)
      /\ f.local \/ AllowanceSlot(o, p) \in f.scratch
  BY <1>1, <1>2, FetchView DEF FetchAllowance
<1>4. Good(f)
  BY <1>1, FetchAllowanceGood
<1>5. ASSUME NEW v
      PROVE  LET k == Store(f, AllowanceSlot(o, p), v)
             IN  View(t, k) = [View(t, s) EXCEPT ![AllowanceSlot(o, p)] = v] /\ SameInfo(s, k)
  <2>1. PICK k : k = Store(f, AllowanceSlot(o, p), v)
    OBVIOUS
  <2>2. View(t, k) = [View(t, f) EXCEPT ![AllowanceSlot(o, p)] = v] /\ SameInfo(f, k)
    BY <1>2, <1>3, <1>4, <2>1, StoreView
  <2>3. SameInfo(s, k)
    BY <1>3, <2>2 DEF SameInfo
  <2> QED BY <1>3, <2>1, <2>2, <2>3
<1> QED BY <1>1, <1>3, <1>5

LEMMA AssociationView ==
    ASSUME IdsIdentifyAccounts, NEW t \in Tokens, NEW s, Good(s), NEW a \in Addresses
    PROVE  /\ View(t, FetchAssociated(t, s, a)) = View(t, s)
           /\ SameInfo(s, FetchAssociated(t, s, a))
           /\ \A v : LET k == Store(FetchAssociated(t, s, a), AssociatedSlot(a), v)
                     IN  /\ View(t, k) = [View(t, s) EXCEPT ![AssociatedSlot(a)] = v]
                         /\ SameInfo(s, k)
<1>1. PICK f : f = FetchAssociated(t, s, a)
  OBVIOUS
<1>2. AssociatedSlot(a) \in Slots /\ RemoteOf(t)[AssociatedSlot(a)] = isAssociated(t, a)
  BY SlotTypes, RemoteOfIs
<1>3. /\ View(t, f) = View(t, s) /\ SameInfo(s, f)
      /\ f.local \/ AssociatedSlot(a) \in f.scratch
  BY <1>1, <1>2, FetchView DEF FetchAssociated
<1>4. Good(f)
  BY <1>1, FetchAssociatedGood
<1>5. ASSUME NEW v
      PROVE  LET k == Store(f, AssociatedSlot(a), v)
             IN  View(t, k) = [View(t, s) EXCEPT ![AssociatedSlot(a)] = v] /\ SameInfo(s, k)
  <2>1. PICK k : k = Store(f, AssociatedSlot(a), v)
    OBVIOUS
  <2>2. View(t, k) = [View(t, f) EXCEPT ![AssociatedSlot(a)] = v] /\ SameInfo(f, k)
    BY <1>2, <1>3, <1>4, <2>1, StoreView
  <2>3. SameInfo(s, k)
    BY <1>3, <2>2 DEF SameInfo
  <2> QED BY <1>3, <2>1, <2>2, <2>3
<1> QED BY <1>1, <1>3, <1>5

\* n units from one account to another; they may be the same.
Paid(v, from, to, n) ==
    [[v EXCEPT ![BalanceSlot(from)] = @ - n] EXCEPT ![BalanceSlot(to)] = @ + n]

\* The unlimited allowance is not used up.
Charged(v, o, p, n) ==
    IF v[AllowanceSlot(o, p)] = WordMax THEN v ELSE [v EXCEPT ![AllowanceSlot(o, p)] = @ - n]

LEMMA DebitView ==
    ASSUME IdsIdentifyAccounts, NEW t \in Tokens, NEW s, Good(s), NEW a \in Addresses, NEW n \in Nat,
           NEW v, v = View(t, s), NEW k, k = Debit(t, s, a, n)
    PROVE  /\ CanDebit(t, s, a, n) <=> v[BalanceSlot(a)] >= n
           /\ View(t, k) = [v EXCEPT ![BalanceSlot(a)] = @ - n]
           /\ SameInfo(s, k)
  BY BalanceView DEF CanDebit, Debit

LEMMA CreditView ==
    ASSUME IdsIdentifyAccounts, NEW t \in Tokens, NEW s, Good(s), NEW a \in Addresses, NEW n \in Nat,
           NEW v, v = View(t, s), NEW k, k = Credit(t, s, a, n)
    PROVE  /\ CanCredit(t, s, a, n) <=> v[BalanceSlot(a)] + n <= WordMax
           /\ View(t, k) = [v EXCEPT ![BalanceSlot(a)] = @ + n]
           /\ SameInfo(s, k)
  BY BalanceView DEF CanCredit, Credit

LEMMA TransferView ==
    ASSUME IdsIdentifyAccounts, NEW t \in Tokens, NEW s, Good(s),
           NEW from \in AnyAddress, NEW to \in AnyAddress, NEW n \in Nat,
           CanTransfer(t, s, from, to, n), NEW v, v = View(t, s)
    PROVE  /\ from \in Addresses /\ to \in Addresses /\ v[BalanceSlot(from)] >= n
           /\ View(t, AfterTransfer(t, s, from, to, n)) = Paid(v, from, to, n)
           /\ SameInfo(s, AfterTransfer(t, s, from, to, n))
<1>1. from \in Addresses /\ to \in Addresses
  BY DEF AnyAddress, CanTransfer
<1>2. PICK d : d = Debit(t, s, from, n)
  OBVIOUS
<1>3. /\ v[BalanceSlot(from)] >= n /\ Good(d) /\ SameInfo(s, d)
      /\ View(t, d) = [v EXCEPT ![BalanceSlot(from)] = @ - n]
  BY <1>1, <1>2, DebitView, DebitGood DEF CanTransfer
<1>4. PICK k : k = Credit(t, d, to, n)
  OBVIOUS
<1>5. View(t, k) = Paid(v, from, to, n) /\ SameInfo(d, k)
  <2>1. PICK u : u = [v EXCEPT ![BalanceSlot(from)] = @ - n]
    OBVIOUS
  <2>2. u = View(t, d) /\ Good(d)
    BY <1>3, <2>1
  <2>3. View(t, k) = [u EXCEPT ![BalanceSlot(to)] = @ + n] /\ SameInfo(d, k)
    BY <1>1, <1>4, <2>2, CreditView
  <2>4. Paid(v, from, to, n) = [u EXCEPT ![BalanceSlot(to)] = @ + n]
    BY <2>1 DEF Paid
  <2> QED BY <2>3, <2>4
<1>6. SameInfo(s, k)
  BY <1>3, <1>5 DEF SameInfo
<1> QED BY <1>1, <1>2, <1>3, <1>4, <1>5, <1>6 DEF AfterTransfer

LEMMA SpendView ==
    ASSUME IdsIdentifyAccounts, NEW t \in Tokens, NEW s, Good(s),
           NEW o \in AnyAddress, NEW p \in AnyAddress, NEW n \in Nat,
           CanSpend(t, s, o, p, n), NEW v, v = View(t, s)
    PROVE  /\ o \in Addresses /\ p \in Addresses /\ v[AllowanceSlot(o, p)] >= n
           /\ View(t, AfterSpend(t, s, o, p, n)) = Charged(v, o, p, n)
           /\ SameInfo(s, AfterSpend(t, s, o, p, n))
<1>1. o \in Addresses /\ p \in Addresses
  BY DEF AnyAddress, CanSpend
<1>2. PICK f : f = FetchAllowance(t, s, o, p)
  OBVIOUS
<1>3. PICK now : now = f.storage[AllowanceSlot(o, p)]
  OBVIOUS
<1>4. now = v[AllowanceSlot(o, p)] /\ View(t, f) = v /\ SameInfo(s, f)
  BY <1>1, <1>2, <1>3, AllowanceView
<1>5. LET k == Store(f, AllowanceSlot(o, p), now - n)
      IN  View(t, k) = [v EXCEPT ![AllowanceSlot(o, p)] = now - n] /\ SameInfo(s, k)
  BY <1>1, <1>2, AllowanceView
<1>6. AfterSpend(t, s, o, p, n) = IF now = WordMax THEN f ELSE Store(f, AllowanceSlot(o, p), now - n)
  BY <1>2, <1>3 DEF AfterSpend
<1>7. now >= n
  BY <1>2, <1>3 DEF CanSpend
<1> QED BY <1>1, <1>4, <1>5, <1>6, <1>7 DEF Charged

\* c moves n units from i to j: out of its own balance, or with an allowance.
Moves(v, w, c, i, j, n) ==
    /\ i \in Addresses /\ j \in Addresses /\ n \in Nat
    /\ v[BalanceSlot(i)] >= n
    /\ \/ i = c /\ w = Paid(v, i, j, n)
       \/ v[AllowanceSlot(i, c)] >= n /\ w = Paid(Charged(v, i, c, n), i, j, n)

LEMMA TransferFromView ==
    ASSUME IdsIdentifyAccounts, NEW t \in Tokens, NEW s, Good(s), NEW c \in Addresses,
           NEW from \in AnyAddress, NEW to \in AnyAddress, NEW n \in Nat,
           CanTransferFrom(t, s, c, from, to, n)
    PROVE  /\ Moves(View(t, s), View(t, AfterTransferFrom(t, s, c, from, to, n)), c, from, to, n)
           /\ SameInfo(s, AfterTransferFrom(t, s, c, from, to, n))
<1>1. c \in AnyAddress
  BY DEF AnyAddress
<1>2. PICK v : v = View(t, s)
  OBVIOUS
<1>3. PICK f : f = AfterSpend(t, s, from, c, n)
  OBVIOUS
<1>4. /\ from \in Addresses /\ v[AllowanceSlot(from, c)] >= n
      /\ View(t, f) = Charged(v, from, c, n) /\ SameInfo(s, f) /\ Good(f)
  BY <1>1, <1>2, <1>3, SpendView, SpendGood DEF CanTransferFrom
<1>5. CanTransfer(t, f, from, to, n)
  BY <1>3 DEF CanTransferFrom
<1>6. PICK k : k = AfterTransfer(t, f, from, to, n)
  OBVIOUS
<1>7. /\ to \in Addresses /\ View(t, f)[BalanceSlot(from)] >= n
      /\ View(t, k) = Paid(View(t, f), from, to, n) /\ SameInfo(f, k)
  BY <1>4, <1>5, <1>6, TransferView
<1>8. Charged(v, from, c, n)[BalanceSlot(from)] = v[BalanceSlot(from)]
  <2>1. v \in [Slots -> Word]
    BY <1>2, ViewIs
  <2> QED BY <1>4, <2>1, SlotTypes, SlotsDiffer DEF Charged
<1>9. Moves(v, View(t, k), c, from, to, n)
  BY <1>4, <1>7, <1>8 DEF Moves
<1>10. SameInfo(s, k)
  BY <1>4, <1>7 DEF SameInfo
<1> QED BY <1>2, <1>3, <1>6, <1>9, <1>10 DEF AfterTransferFrom

LEMMA MoveView ==
    ASSUME IdsIdentifyAccounts, NEW t \in Tokens, NEW s, Good(s), NEW c \in Addresses,
           NEW from \in AnyAddress, NEW to \in AnyAddress, NEW n \in Nat,
           CanMove(t, s, c, from, to, n)
    PROVE  /\ Moves(View(t, s), View(t, AfterMove(t, s, c, from, to, n)), c, from, to, n)
           /\ SameInfo(s, AfterMove(t, s, c, from, to, n))
<1>1. CASE from = c
  <2>1. CanTransfer(t, s, from, to, n) /\ AfterMove(t, s, c, from, to, n) = AfterTransfer(t, s, from, to, n)
    BY <1>1 DEF CanMove, AfterMove
  <2> QED BY <1>1, <2>1, TransferView DEF Moves
<1>2. CASE from # c
  <2>1. /\ CanTransferFrom(t, s, c, from, to, n)
        /\ AfterMove(t, s, c, from, to, n) = AfterTransferFrom(t, s, c, from, to, n)
    BY <1>2 DEF CanMove, AfterMove
  <2> QED BY <2>1, TransferFromView
<1> QED BY <1>1, <1>2

\* The sender of a transfer by c, whichever way it goes.
TransfersAs(v, w, c) == \E i, j \in Addresses, n \in Nat : Moves(v, w, c, i, j, n)

LEMMA TransferTokenView ==
    ASSUME IdsIdentifyAccounts, NEW t \in Tokens, NEW s, Good(s), NEW c \in Addresses,
           NEW from \in AnyAddress, NEW to \in AnyAddress, NEW n \in Int64,
           CanTransferToken(t, s, c, from, to, n),
           NEW k, k = AfterTransferToken(t, s, c, from, to, n)
    PROVE  TransfersAs(View(t, s), View(t, k), c) /\ SameInfo(s, k) /\ Good(k)
<1>1. CASE n < 0
  <2>1. -n \in Nat
    BY <1>1, WidthAssumption DEF Int64
  <2>2. CanMove(t, s, c, to, from, -n) /\ k = AfterMove(t, s, c, to, from, -n)
    BY <1>1 DEF CanTransferToken, AfterTransferToken
  <2>3. Moves(View(t, s), View(t, k), c, to, from, -n) /\ SameInfo(s, k)
    BY <2>1, <2>2, MoveView
  <2> QED BY <2>1, <2>3, TransferTokenGood DEF TransfersAs, Moves
<1>2. CASE ~(n < 0)
  <2>1. n \in Nat
    BY <1>2, WidthAssumption DEF Int64
  <2>2. CanMove(t, s, c, from, to, n) /\ k = AfterMove(t, s, c, from, to, n)
    BY <1>2 DEF CanTransferToken, AfterTransferToken
  <2>3. Moves(View(t, s), View(t, k), c, from, to, n) /\ SameInfo(s, k)
    BY <2>1, <2>2, MoveView
  <2> QED BY <2>1, <2>3, TransferTokenGood DEF TransfersAs, Moves
<1> QED BY <1>1, <1>2

\* n units more, or fewer, of the treasury and of the supply.
Issued(v, treasury, n) == [v EXCEPT ![BalanceSlot(treasury)] = @ + n]

\* All of a token but its slots and its supply.
SameButSupply(s, k) == /\ k.initialized = s.initialized /\ k.local = s.local
                       /\ k.treasury = s.treasury /\ k.supplyKey = s.supplyKey

LEMMA SupplyView ==
    ASSUME NEW t \in Tokens, NEW s, Good(s), NEW n, NEW k, k = [s EXCEPT !.supply = n]
    PROVE  View(t, k) = View(t, s) /\ SameButSupply(s, k) /\ k.supply = n
<1>1. /\ k.local = s.local /\ k.scratch = s.scratch /\ k.storage = s.storage
      /\ SameButSupply(s, k) /\ k.supply = n
  BY DEF Good, TokenState, SameButSupply
<1> QED BY <1>1 DEF View, Seen

LEMMA MintView ==
    ASSUME IdsIdentifyAccounts, NEW t \in Tokens, NEW s, Good(s), NEW n \in Nat, CanMint(t, s, n),
           NEW k, k = AfterMint(t, s, n)
    PROVE  /\ s.treasury \in Addresses
           /\ View(t, k) = Issued(View(t, s), s.treasury, n)
           /\ k.supply = s.supply + n /\ SameButSupply(s, k)
<1>1. s.treasury \in Addresses /\ s.supply + n \in 0 .. Int64Max
  BY WidthAssumption DEF CanMint, Good, TokenState
<1>2. PICK u : u = [s EXCEPT !.supply = @ + n]
  OBVIOUS
<1>3. /\ Good(u) /\ View(t, u) = View(t, s)
      /\ SameButSupply(s, u) /\ u.supply = s.supply + n
  BY <1>1, <1>2, SupplyGood, SupplyView
<1>4. k = Credit(t, u, s.treasury, n)
  BY <1>2 DEF AfterMint
<1>5. PICK v : v = View(t, u)
  OBVIOUS
<1>6. View(t, k) = [v EXCEPT ![BalanceSlot(s.treasury)] = @ + n] /\ SameInfo(u, k)
  BY <1>1, <1>3, <1>4, <1>5, CreditView
<1> QED BY <1>1, <1>3, <1>5, <1>6 DEF Issued, SameInfo, SameButSupply

LEMMA BurnView ==
    ASSUME IdsIdentifyAccounts, NEW t \in Tokens, NEW s, Good(s), NEW n \in Nat, CanBurn(t, s, n),
           NEW k, k = AfterBurn(t, s, n)
    PROVE  /\ s.treasury \in Addresses
           /\ View(t, s)[BalanceSlot(s.treasury)] >= n
           /\ View(t, k) = Issued(View(t, s), s.treasury, -n)
           /\ k.supply = s.supply - n /\ SameButSupply(s, k)
<1>1. s.treasury \in Addresses
  BY DEF CanBurn, Good, TokenState
<1>2. PICK d : d = Debit(t, s, s.treasury, n)
  OBVIOUS
<1>3. PICK v : v = View(t, s)
  OBVIOUS
<1>4. /\ Good(d) /\ SameInfo(s, d) /\ v[BalanceSlot(s.treasury)] >= n
      /\ View(t, d) = [v EXCEPT ![BalanceSlot(s.treasury)] = @ - n]
  BY <1>1, <1>2, <1>3, DebitView, DebitGood DEF CanBurn
<1>5. PICK rest : rest = s.supply - n
  OBVIOUS
<1>6. View(t, k) = View(t, d) /\ SameButSupply(d, k) /\ k.supply = s.supply - n
  <2>1. k = [d EXCEPT !.supply = rest]
    BY <1>2, <1>4, <1>5 DEF AfterBurn, SameInfo
  <2> QED BY <1>4, <1>5, <2>1, SupplyView
<1>7. v \in [Slots -> Word] /\ BalanceSlot(s.treasury) \in Slots
  BY <1>1, <1>3, ViewIs, SlotTypes
<1>8. View(t, k) = Issued(v, s.treasury, -n)
  BY <1>4, <1>6, <1>7, WordFacts DEF Issued
<1> QED BY <1>1, <1>3, <1>4, <1>6, <1>8 DEF SameInfo, SameButSupply

-----------------------------------------------------------------------------
(* The same, account by account.                                           *)

Same(a, b) == AccountId[a] = AccountId[b]

\* What n units of i's account are to a's.
Share(a, i, n) == IF Same(a, i) THEN n ELSE 0

\* What p's spending of n units of o's takes off the allowance of b by a.
UsedUp(v, a, b, o, p, n) ==
    IF Same(a, o) /\ Same(b, p) /\ v[AllowanceSlot(o, p)] # WordMax THEN n ELSE 0

LEMMA PaidAt ==
    ASSUME NEW v \in [Slots -> Int], NEW i \in Addresses, NEW j \in Addresses, NEW n \in Nat
    PROVE  /\ Paid(v, i, j, n) \in [Slots -> Int]
           /\ \A a \in Addresses :
                 Paid(v, i, j, n)[BalanceSlot(a)] =
                    v[BalanceSlot(a)] - Share(a, i, n) + Share(a, j, n)
           /\ \A a, b \in Addresses : Paid(v, i, j, n)[AllowanceSlot(a, b)] = v[AllowanceSlot(a, b)]
           /\ \A a \in Addresses : Paid(v, i, j, n)[AssociatedSlot(a)] = v[AssociatedSlot(a)]
<1>1. PICK x, y : x = BalanceSlot(i) /\ y = BalanceSlot(j)
  OBVIOUS
<1>2. x \in Slots /\ y \in Slots
  BY <1>1, SlotTypes
<1>3. PICK u : u = [v EXCEPT ![x] = @ - n]
  OBVIOUS
<1>4. u \in [Slots -> Int] /\ \A z \in Slots : u[z] = IF z = x THEN v[z] - n ELSE v[z]
  BY <1>2, <1>3
<1>5. PICK w : w = [u EXCEPT ![y] = @ + n]
  OBVIOUS
<1>6. w \in [Slots -> Int] /\ \A z \in Slots : w[z] = IF z = y THEN u[z] + n ELSE u[z]
  BY <1>2, <1>4, <1>5
<1>7. w = Paid(v, i, j, n)
  BY <1>1, <1>3, <1>5 DEF Paid
<1>8. \A z \in Slots : w[z] = v[z] - (IF z = x THEN n ELSE 0) + (IF z = y THEN n ELSE 0)
  BY <1>4, <1>6
<1>9. ASSUME NEW a \in Addresses, NEW b \in Addresses
      PROVE  /\ w[BalanceSlot(a)] = v[BalanceSlot(a)] - Share(a, i, n) + Share(a, j, n)
             /\ w[AllowanceSlot(a, b)] = v[AllowanceSlot(a, b)]
             /\ w[AssociatedSlot(a)] = v[AssociatedSlot(a)]
  <2>1. /\ BalanceSlot(a) \in Slots /\ AllowanceSlot(a, b) \in Slots /\ AssociatedSlot(a) \in Slots
        /\ AllowanceSlot(a, b) # x /\ AllowanceSlot(a, b) # y
        /\ AssociatedSlot(a) # x /\ AssociatedSlot(a) # y
        /\ BalanceSlot(a) = x <=> Same(a, i)
        /\ BalanceSlot(a) = y <=> Same(a, j)
    BY <1>1, SlotTypes, SlotsDiffer DEF Same
  <2> QED BY <1>4, <1>6, <1>8, <2>1 DEF Share
<1> QED BY <1>6, <1>7, <1>9

LEMMA ChargedAt ==
    ASSUME NEW v \in [Slots -> Int], NEW o \in Addresses, NEW p \in Addresses, NEW n \in Nat
    PROVE  /\ Charged(v, o, p, n) \in [Slots -> Int]
           /\ \A a \in Addresses : Charged(v, o, p, n)[BalanceSlot(a)] = v[BalanceSlot(a)]
           /\ \A a, b \in Addresses :
                 Charged(v, o, p, n)[AllowanceSlot(a, b)] =
                    v[AllowanceSlot(a, b)] - UsedUp(v, a, b, o, p, n)
           /\ \A a \in Addresses : Charged(v, o, p, n)[AssociatedSlot(a)] = v[AssociatedSlot(a)]
<1>1. PICK x \in Slots : x = AllowanceSlot(o, p)
  BY SlotTypes
<1>2. PICK w : w = Charged(v, o, p, n)
  OBVIOUS
<1>3. /\ w \in [Slots -> Int]
      /\ \A z \in Slots : w[z] = IF z = x /\ v[x] # WordMax THEN v[z] - n ELSE v[z]
  BY <1>1, <1>2 DEF Charged
<1>4. ASSUME NEW a \in Addresses, NEW b \in Addresses
      PROVE  /\ BalanceSlot(a) \in Slots /\ AllowanceSlot(a, b) \in Slots /\ AssociatedSlot(a) \in Slots
             /\ BalanceSlot(a) # x /\ AssociatedSlot(a) # x
             /\ AllowanceSlot(a, b) = x <=> Same(a, o) /\ Same(b, p)
  BY <1>1, SlotTypes, SlotsDiffer DEF Same
<1> QED BY <1>1, <1>2, <1>3, <1>4 DEF UsedUp

-----------------------------------------------------------------------------
(* What c may do to others.                                                *)

\* c uses up allowances of its own to take from accounts other than its own.
Spends(v, w, c) ==
    \A a \in Addresses : ~Same(a, c) =>
        LET had  == v[AllowanceSlot(a, c)]
            left == w[AllowanceSlot(a, c)]
            loss == v[BalanceSlot(a)] - w[BalanceSlot(a)]
        IN  /\ left <= had /\ (had = WordMax => left = WordMax)
            /\ had # WordMax => loss <= had - left

UsesUp(v, w, c) ==
    \A a, b \in Addresses :
        LET had  == v[AllowanceSlot(a, b)]
            left == w[AllowanceSlot(a, b)]
        IN  left # had => Same(b, c) /\ left < had

LEMMA MovesSpends ==
    ASSUME NEW v \in [Slots -> Word], NEW w \in [Slots -> Word], NEW c \in Addresses,
           TransfersAs(v, w, c)
    PROVE  Spends(v, w, c) /\ UsesUp(v, w, c)
<1>1. PICK i \in Addresses, j \in Addresses, n \in Nat : Moves(v, w, c, i, j, n)
  BY DEF TransfersAs
<1>2. v \in [Slots -> Int] /\ \A x \in Slots : v[x] \in Nat /\ v[x] <= WordMax /\ w[x] \in Nat
  BY WordFacts, WidthAssumption DEF Word
<1>3. \A a, b \in Addresses : BalanceSlot(a) \in Slots /\ AllowanceSlot(a, b) \in Slots
  BY SlotTypes
<1>4. CASE i = c /\ w = Paid(v, i, j, n)
  <2>1. /\ \A a, b \in Addresses : w[AllowanceSlot(a, b)] = v[AllowanceSlot(a, b)]
        /\ \A a \in Addresses :
              w[BalanceSlot(a)] = v[BalanceSlot(a)] - Share(a, i, n) + Share(a, j, n)
    BY <1>2, <1>4, PaidAt
  <2>2. \A a \in Addresses : ~Same(a, c) => w[BalanceSlot(a)] >= v[BalanceSlot(a)]
    BY <1>2, <1>3, <1>4, <2>1 DEF Share
  <2> QED BY <1>2, <1>3, <2>1, <2>2 DEF Spends, UsesUp
<1>5. CASE v[AllowanceSlot(i, c)] >= n /\ w = Paid(Charged(v, i, c, n), i, j, n)
  <2>1. PICK u \in [Slots -> Int] : u = Charged(v, i, c, n)
    BY <1>2, ChargedAt
  <2>2. /\ \A a \in Addresses : u[BalanceSlot(a)] = v[BalanceSlot(a)]
        /\ \A a, b \in Addresses :
              u[AllowanceSlot(a, b)] = v[AllowanceSlot(a, b)] - UsedUp(v, a, b, i, c, n)
    <3>1. v \in [Slots -> Int]
      BY <1>2
    <3> HIDE <1>2
    <3>2. \A a, b \in Addresses :
             u[AllowanceSlot(a, b)] = v[AllowanceSlot(a, b)] - UsedUp(v, a, b, i, c, n)
      BY <2>1, <3>1, ChargedAt
    <3> QED BY <2>1, <3>1, <3>2, ChargedAt
  <2>3. /\ \A a, b \in Addresses : w[AllowanceSlot(a, b)] = u[AllowanceSlot(a, b)]
        /\ \A a \in Addresses :
              w[BalanceSlot(a)] = u[BalanceSlot(a)] - Share(a, i, n) + Share(a, j, n)
    BY <1>5, <2>1, PaidAt
  <2>4. \A a, b \in Addresses : Same(a, i) /\ Same(b, c) => AllowanceSlot(a, b) = AllowanceSlot(i, c)
    BY SlotsDiffer DEF Same
  <2>5. ASSUME NEW a \in Addresses, NEW b \in Addresses
        PROVE  w[AllowanceSlot(a, b)] # v[AllowanceSlot(a, b)] =>
                  Same(b, c) /\ w[AllowanceSlot(a, b)] < v[AllowanceSlot(a, b)]
    BY <1>2, <1>3, <2>2, <2>3 DEF UsedUp
  <2>6. ASSUME NEW a \in Addresses
        PROVE  LET had  == v[AllowanceSlot(a, c)]
                   left == w[AllowanceSlot(a, c)]
                   loss == v[BalanceSlot(a)] - w[BalanceSlot(a)]
               IN  /\ left <= had /\ (had = WordMax => left = WordMax)
                   /\ had # WordMax => loss <= had - left
    <3>1. Same(c, c)
      BY DEF Same
    <3>2. CASE Same(a, i)
      <4>1. AllowanceSlot(a, c) = AllowanceSlot(i, c)
        BY <2>4, <3>1, <3>2
      <4> QED BY <1>2, <1>3, <2>2, <2>3, <3>1, <3>2, <4>1 DEF UsedUp, Share
    <3>3. CASE ~Same(a, i)
      BY <1>2, <1>3, <2>2, <2>3, <3>3 DEF UsedUp, Share
    <3> QED BY <3>2, <3>3
  <2> QED BY <2>5, <2>6 DEF Spends, UsesUp
<1> QED BY <1>1, <1>4, <1>5 DEF Moves

\* Two transfers of a list.
LEMMA SpendsTwice ==
    ASSUME NEW v \in [Slots -> Word], NEW u \in [Slots -> Word], NEW w \in [Slots -> Word],
           NEW c \in Addresses,
           Spends(v, u, c), UsesUp(v, u, c), Spends(u, w, c), UsesUp(u, w, c)
    PROVE  Spends(v, w, c) /\ UsesUp(v, w, c)
<1>1. \A x \in Slots : /\ v[x] \in Nat /\ v[x] <= WordMax /\ u[x] \in Nat /\ u[x] <= WordMax
                       /\ w[x] \in Nat
  BY WordFacts, WidthAssumption DEF Word
<1>2. \A a, b \in Addresses : BalanceSlot(a) \in Slots /\ AllowanceSlot(a, b) \in Slots
  BY SlotTypes
<1>3. UsesUp(v, w, c)
  BY <1>1, <1>2 DEF UsesUp
<1>4. ASSUME NEW a \in Addresses, ~Same(a, c)
      PROVE  LET had  == v[AllowanceSlot(a, c)]
                 left == w[AllowanceSlot(a, c)]
                 loss == v[BalanceSlot(a)] - w[BalanceSlot(a)]
             IN  /\ left <= had /\ (had = WordMax => left = WordMax)
                 /\ had # WordMax => loss <= had - left
  BY <1>1, <1>2, <1>4, WidthAssumption DEF Spends
<1> QED BY <1>3, <1>4 DEF Spends

-----------------------------------------------------------------------------
(* External calls: what each one shows of its token before (v) and after   *)
(* (w), and what it leaves of the rest (s before, k after).                *)

Approves(v, w, c) == \E p \in Addresses, n \in Word : w = [v EXCEPT ![AllowanceSlot(c, p)] = n]

Associates(v, w, c) == \E yes \in {0, 1} : w = [v EXCEPT ![AssociatedSlot(c)] = yes]

Mints(v, w, s, k) ==
    \E n \in Nat : /\ k.supply = s.supply + n
                   /\ w = Issued(v, s.treasury, n)

Burns(v, w, s, k) ==
    \E n \in Nat : /\ v[BalanceSlot(s.treasury)] >= n
                   /\ k.supply = s.supply - n
                   /\ w = Issued(v, s.treasury, -n)

Supplies(v, w, s, k) ==
    /\ s.supplyKey = "usable" /\ s.treasury \in Addresses /\ SameButSupply(s, k)
    /\ Mints(v, w, s, k) \/ Burns(v, w, s, k)

Shows(v, w, s, k, c) ==
    \/ Supplies(v, w, s, k)
    \/ /\ SameInfo(s, k)
       /\ \/ w = v
          \/ Approves(v, w, c)
          \/ Associates(v, w, c)
          \/ TransfersAs(v, w, c)
          \/ \E u \in [Slots -> Word] : TransfersAs(v, u, c) /\ TransfersAs(u, w, c)

LEMMA OpenedView ==
    ASSUME IdsIdentifyAccounts, IInv, NEW t \in Tokens, Callable(t)
    PROVE  /\ Good(Opened(t)) /\ View(t, Opened(t)) = View(t, token[t])
           /\ Opened(t).initialized /\ Opened(t).local = token[t].local
<1>1. PICK s : s = token[t]
  OBVIOUS
<1>2. Good(s)
  BY <1>1, IInvGood
<1>3. PICK k : k = Opened(t)
  OBVIOUS
<1>4. /\ k.local = s.local /\ k.scratch = s.scratch /\ k.storage = s.storage
      /\ k.initialized
  BY <1>1, <1>2, <1>3 DEF Opened, Good, TokenState
<1>5. View(t, k) = View(t, s)
  BY <1>4 DEF View, Seen
<1> QED BY <1>1, <1>3, <1>4, <1>5, OpenedGood

\* The calls that read only.
LEMMA ReadShows ==
    ASSUME NEW t, NEW s, NEW k, NEW c, SameInfo(s, k), View(t, k) = View(t, s)
    PROVE  Shows(View(t, s), View(t, k), s, k, c)
  BY DEF Shows

LEMMA SameInfoSelf == \A s : SameInfo(s, s)
  BY DEF SameInfo

\* What a call of a token leaves.
Leaves(t, k, c) ==
    /\ Callable(t) /\ Commit(c, t, k) /\ Good(k)
    /\ Shows(View(t, token[t]), View(t, k), Opened(t), k, c)

LEMMA TransferTokenLeaves ==
    ASSUME IdsIdentifyAccounts, IInv, NEW c \in Addresses, NEW t \in Tokens,
           NEW from \in AnyAddress, NEW to \in AnyAddress, NEW n \in Int64,
           HtsTransferToken(c, t, from, to, n)
    PROVE  \E k : Leaves(t, k, c)
<1>1. PICK o : o = Opened(t)
  OBVIOUS
<1>2. Callable(t) /\ CanTransferToken(t, o, c, from, to, n)
  BY <1>1 DEF HtsTransferToken
<1>3. Good(o) /\ View(t, o) = View(t, token[t])
  BY <1>1, <1>2, OpenedView
<1>4. PICK k : k = AfterTransferToken(t, o, c, from, to, n)
  OBVIOUS
<1>5. TransfersAs(View(t, o), View(t, k), c) /\ SameInfo(o, k) /\ Good(k)
  BY <1>2, <1>3, <1>4, TransferTokenView
<1>6. Commit(c, t, k)
  BY <1>1, <1>4 DEF HtsTransferToken
<1> QED BY <1>1, <1>2, <1>3, <1>5, <1>6 DEF Leaves, Shows

LEMMA TokenCallLeaves ==
    ASSUME IdsIdentifyAccounts, IInv, NEW c \in Addresses, NEW t \in Tokens, TokenCall(c, t)
    PROVE  \E k : Leaves(t, k, c)
<1>1. PICK o : o = Opened(t)
  OBVIOUS
<1>2. Callable(t) => Good(o) /\ View(t, o) = View(t, token[t])
  BY <1>1, OpenedView
<1>w. \A n \in Words : n \in Nat /\ n \in Word
  BY InputAssumption, WordFacts
<1>i. \A n \in Int64s : n \in Int64 /\ (n > 0 => n \in Nat)
  BY InputAssumption, WidthAssumption DEF Int64
<1>c. c \in AnyAddress
  BY DEF AnyAddress
<1>l. ASSUME NEW k, Callable(t), Commit(c, t, k), Good(k), Shows(View(t, o), View(t, k), o, k, c)
      PROVE  Leaves(t, k, c)
  BY <1>1, <1>2, <1>l DEF Leaves
<1>r. ASSUME NEW k, Callable(t), Commit(c, t, k), Good(k), SameInfo(o, k), View(t, k) = View(t, o)
      PROVE  Leaves(t, k, c)
  BY <1>r, <1>l, ReadShows
<1>3. ASSUME NEW to \in AnyAddress, NEW n \in Words, Erc20Transfer(c, t, to, n)
      PROVE  \E k : Leaves(t, k, c)
  <2>1. PICK k : k = AfterTransfer(t, o, c, to, n)
    OBVIOUS
  <2>2. Callable(t) /\ CanTransfer(t, o, c, to, n) /\ Commit(c, t, k)
    BY <1>1, <1>3, <2>1 DEF Erc20Transfer
  <2>3. PICK v : v = View(t, o)
    OBVIOUS
  <2>4. /\ to \in Addresses /\ v[BalanceSlot(c)] >= n
        /\ View(t, k) = Paid(v, c, to, n) /\ SameInfo(o, k) /\ Good(k)
    BY <1>2, <1>w, <1>c, <2>1, <2>2, <2>3, TransferView, TransferGood
  <2>5. Moves(v, View(t, k), c, c, to, n)
    BY <1>w, <2>4 DEF Moves
  <2>6. Shows(v, View(t, k), o, k, c)
    BY <1>w, <2>4, <2>5 DEF Shows, TransfersAs
  <2> QED BY <2>2, <2>3, <2>4, <2>6, <1>l
<1>4. ASSUME NEW from \in AnyAddress, NEW to \in AnyAddress, NEW n \in Words,
             Erc20TransferFrom(c, t, from, to, n)
      PROVE  \E k : Leaves(t, k, c)
  <2>1. PICK k : k = AfterTransferFrom(t, o, c, from, to, n)
    OBVIOUS
  <2>2. Callable(t) /\ CanTransferFrom(t, o, c, from, to, n) /\ Commit(c, t, k)
    BY <1>1, <1>4, <2>1 DEF Erc20TransferFrom
  <2>3. Moves(View(t, o), View(t, k), c, from, to, n) /\ SameInfo(o, k) /\ Good(k)
    BY <1>2, <1>w, <2>1, <2>2, TransferFromView, TransferFromGood
  <2>4. Shows(View(t, o), View(t, k), o, k, c)
    BY <2>3 DEF Shows, TransfersAs, Moves
  <2> QED BY <2>2, <2>3, <2>4, <1>l
<1>5. ASSUME NEW from \in AnyAddress, NEW to \in AnyAddress, NEW n \in Words,
             HtsTransferFrom(c, t, from, to, n)
      PROVE  \E k : Leaves(t, k, c)
  BY <1>5, <1>w, ToInt64Type, TransferTokenLeaves DEF HtsTransferFrom
<1>6. ASSUME NEW from \in AnyAddress, NEW to \in AnyAddress, NEW n \in Int64s,
             HtsTransferToken(c, t, from, to, n)
      PROVE  \E k : Leaves(t, k, c)
  BY <1>6, <1>i, TransferTokenLeaves
<1>7. ASSUME NEW a \in AnyAddress, NEW b \in AnyAddress, NEW n \in Int64s, NEW m \in Int64s,
             HtsTransferTokens(c, t, a, n, b, m)
      PROVE  \E k : Leaves(t, k, c)
  <2>1. PICK first : first = AfterTransferToken(t, o, c, c, a, n)
    OBVIOUS
  <2>2. PICK k : k = AfterTransferToken(t, first, c, c, b, m)
    OBVIOUS
  <2>3. /\ Callable(t) /\ CanTransferToken(t, o, c, c, a, n)
        /\ CanTransferToken(t, first, c, c, b, m) /\ Commit(c, t, k)
    BY <1>1, <1>7, <2>1, <2>2 DEF HtsTransferTokens
  <2>4. TransfersAs(View(t, o), View(t, first), c) /\ SameInfo(o, first) /\ Good(first)
    BY <1>2, <1>c, <1>i, <2>1, <2>3, TransferTokenView
  <2>5. TransfersAs(View(t, first), View(t, k), c) /\ SameInfo(first, k) /\ Good(k)
    BY <1>c, <1>i, <2>2, <2>3, <2>4, TransferTokenView
  <2>6. View(t, first) \in [Slots -> Word]
    BY <2>4, ViewIs
  <2>7. Shows(View(t, o), View(t, k), o, k, c)
    BY <2>4, <2>5, <2>6 DEF Shows, SameInfo
  <2> QED BY <2>3, <2>5, <2>7, <1>l
<1>8. ASSUME NEW p \in AnyAddress, NEW n \in Words, Approve(c, t, p, n)
      PROVE  \E k : Leaves(t, k, c)
  <2>1. PICK k : k = AfterApprove(t, o, c, p, n)
    OBVIOUS
  <2>2. Callable(t) /\ p \in Addresses /\ Commit(c, t, k)
    BY <1>1, <1>8, <2>1 DEF Approve, AnyAddress
  <2>3. View(t, k) = [View(t, o) EXCEPT ![AllowanceSlot(c, p)] = n] /\ SameInfo(o, k)
    BY <1>2, <2>1, <2>2, AllowanceView DEF AfterApprove
  <2>4. Good(k)
    BY <1>2, <1>w, <2>1, <2>2, FetchAllowanceGood DEF AfterApprove
  <2>5. Shows(View(t, o), View(t, k), o, k, c)
    BY <1>w, <2>2, <2>3 DEF Shows, Approves
  <2> QED BY <2>2, <2>4, <2>5, <1>l
<1>9. ASSUME NEW n \in Int64s, MintToken(c, t, n)
      PROVE  \E k : Leaves(t, k, c)
  <2>1. Callable(t) /\ n \in Nat
    BY <1>9, <1>i DEF MintToken
  <2>2. CASE o.supplyKey # "usable" /\ Commit(c, t, o)
    BY <1>2, <1>r, <2>1, <2>2, SameInfoSelf
  <2>3. CASE o.supplyKey = "usable" /\ CanMint(t, o, n) /\ Commit(c, t, AfterMint(t, o, n))
    <3>1. PICK k : k = AfterMint(t, o, n)
      OBVIOUS
    <3>2. /\ o.treasury \in Addresses /\ View(t, k) = Issued(View(t, o), o.treasury, n)
          /\ k.supply = o.supply + n /\ SameButSupply(o, k) /\ Good(k)
      BY <1>2, <2>1, <2>3, <3>1, MintView, MintGood
    <3>3. Shows(View(t, o), View(t, k), o, k, c)
      BY <2>1, <2>3, <3>2 DEF Shows, Supplies, Mints
    <3> QED BY <2>1, <2>3, <3>1, <3>2, <3>3, <1>l
  <2> QED BY <1>1, <1>9, <2>2, <2>3 DEF MintToken
<1>10. ASSUME NEW n \in Int64s, BurnToken(c, t, n)
       PROVE  \E k : Leaves(t, k, c)
  <2>1. Callable(t) /\ n \in Nat
    BY <1>10, <1>i DEF BurnToken
  <2>2. CASE o.supplyKey # "usable" /\ Commit(c, t, o)
    BY <1>2, <1>r, <2>1, <2>2, SameInfoSelf
  <2>3. CASE o.supplyKey = "usable" /\ CanBurn(t, o, n) /\ Commit(c, t, AfterBurn(t, o, n))
    <3>1. PICK k : k = AfterBurn(t, o, n)
      OBVIOUS
    <3>2. /\ o.treasury \in Addresses /\ View(t, k) = Issued(View(t, o), o.treasury, -n)
          /\ View(t, o)[BalanceSlot(o.treasury)] >= n
          /\ k.supply = o.supply - n /\ SameButSupply(o, k) /\ Good(k)
      BY <1>2, <2>1, <2>3, <3>1, BurnView, BurnGood
    <3>3. Shows(View(t, o), View(t, k), o, k, c)
      BY <2>1, <2>3, <3>2 DEF Shows, Supplies, Burns
    <3> QED BY <2>1, <2>3, <3>1, <3>2, <3>3, <1>l
  <2> QED BY <1>1, <1>10, <2>2, <2>3 DEF BurnToken
<1>11. ASSUME NEW a \in Addresses, BalanceOf(c, t, a)
       PROVE  \E k : Leaves(t, k, c)
  BY <1>1, <1>2, <1>r, <1>11, FetchBalanceGood, BalanceView DEF BalanceOf
<1>12. ASSUME NEW a \in Addresses, NEW p \in Addresses, Allowance(c, t, a, p)
       PROVE  \E k : Leaves(t, k, c)
  BY <1>1, <1>2, <1>r, <1>12, FetchAllowanceGood, AllowanceView DEF Allowance
<1>13. ASSUME IsAssociated(c, t)
       PROVE  \E k : Leaves(t, k, c)
  BY <1>1, <1>2, <1>r, <1>13, FetchAssociatedGood, AssociationView DEF IsAssociated
<1>14. ASSUME GetTokenInfo(c, t)
       PROVE  \E k : Leaves(t, k, c)
  BY <1>1, <1>2, <1>r, <1>14, SameInfoSelf DEF GetTokenInfo
<1> QED
  BY <1>3, <1>4, <1>5, <1>6, <1>7, <1>8, <1>9, <1>10, <1>11, <1>12, <1>13, <1>14
     DEF TokenCall

-----------------------------------------------------------------------------
(* Creation.                                                               *)

\* A token is created at the address that the counter reaches, once; one that
\* is not of the network was never touched before.
CreatedOnce ==
    /\ nextTokenId = 0 \/ nextTokenId > FirstTokenId
    /\ \A t \in Tokens \ RemoteTokens :
          IF token[t].initialized THEN t <= nextTokenId ELSE token[t] = EmptyToken
    /\ \A t \in Tokens : token[t].local => t <= nextTokenId
    /\ \A t \in Tokens : token[t].initialized => token[t].treasury \in Addresses

Nothing == [x \in Slots |-> 0]

\* The token at t shows v and its first supply, which is the treasury's.
Starts(t, v) ==
    \E a \in Addresses : \E n \in Nat :
        /\ token'[t].initialized /\ token'[t].supply = n /\ token'[t].treasury = a
        /\ View(t, token'[t]) = Issued(v, a, n)

\* What a created token shows before and after, at a fresh address ...
Creates(t) ==
    /\ ~Callable(t) /\ token[t] = EmptyToken /\ View(t, token[t]) = Nothing
    /\ Starts(t, Nothing)

\* ... and at the address of a token of the network, of which it keeps what is
\* stored.
Replaces(t) == IsReplaced(t) /\ Starts(t, token[t].storage)

LEMMA EmptyView ==
    ASSUME IdsIdentifyAccounts, NEW t \in Tokens \ RemoteTokens
    PROVE  View(t, EmptyToken) = Nothing
<1>1. ASSUME NEW x \in Slots PROVE RemoteOf(t)[x] = 0
  <2>1. RemoteAt(t, x, RemoteOf(t)[x])
    BY RemoteExists DEF RemoteOf
  <2>2. \/ \E c \in Addresses : x = BalanceSlot(c) \/ x = AssociatedSlot(c)
        \/ \E c, d \in Addresses : x = AllowanceSlot(c, d)
    BY DEF Slots, BalanceSlots, AllowanceSlots, AssociatedSlots
  <2> QED BY <2>1, <2>2 DEF RemoteAt, getBalance, getAllowance, isAssociated
<1>2. PICK e : e = EmptyToken
  OBVIOUS
<1>3. e.scratch = {} /\ e.local = FALSE
  BY <1>2 DEF EmptyToken
<1>4. \A x \in Slots : Seen(e, x, RemoteOf(t)[x]) = 0
  BY <1>1, <1>3 DEF Seen
<1> QED BY <1>2, <1>4 DEF View, Nothing

LEMMA CreateShows ==
    ASSUME IdsIdentifyAccounts, IInv, CreatedOnce,
           NEW c \in Addresses, NEW a \in AnyAddress, NEW n \in Int64, NEW key \in KeyState,
           CreateFungibleToken(c, a, n, key)
    PROVE  \E t \in Tokens :
              /\ Creates(t) \/ Replaces(t)
              /\ t > nextTokenId /\ nextTokenId' = t /\ t > FirstTokenId
              /\ \E k : token' = [token EXCEPT ![t] = k]
<1>1. PICK t : t = NewTokenId
  OBVIOUS
<1>2. PICK s : s = SetTokenInfo(t, a, key)
  OBVIOUS
<1>3. /\ t \in Tokens /\ a \in Addresses /\ n \in Nat /\ nextTokenId' = t
      /\ \/ n = 0 /\ token' = [token EXCEPT ![t] = s]
         \/ n > 0 /\ CanMint(t, s, n) /\ token' = [token EXCEPT ![t] = AfterMint(t, s, n)]
  BY <1>1, <1>2, WidthAssumption DEF CreateFungibleToken, AnyAddress, Int64
<1>4. t > nextTokenId /\ t > FirstTokenId
  BY <1>1, TokenAssumption, IInvGood DEF NewTokenId, CreatedOnce
<1>5. PICK e : e = token[t]
  OBVIOUS
<1>6. e \in TokenState /\ e.storage \in [Slots -> Word] /\ ~e.local
  <2>1. ~(t <= nextTokenId)
    BY <1>3, <1>4, TokenAssumption, IInvGood
  <2> QED BY <1>3, <1>5, <2>1, IInvGood DEF CreatedOnce, Good, TokenState
<1>7. /\ s.local /\ s.initialized /\ s.supply = 0 /\ s.treasury = a
      /\ s.storage = e.storage /\ s.scratch = e.scratch /\ s.supplyKey \in KeyState
  BY <1>2, <1>5, <1>6 DEF SetTokenInfo, TokenState
<1>8. Good(s)
  <2>1. s \in TokenState
    <3>1. PICK q \in KeyState : q = IF e.supplyKey = "absent" THEN key ELSE e.supplyKey
      BY <1>6 DEF TokenState
    <3>2. s = [e EXCEPT !.initialized = TRUE, !.local = TRUE, !.supply = 0,
                        !.treasury = a, !.supplyKey = q]
      BY <1>2, <1>5, <3>1 DEF SetTokenInfo
    <3>3. 0 \in 0 .. Int64Max
      BY WidthAssumption
    <3> QED BY <1>3, <1>6, <3>2, <3>3 DEF TokenState
  <2> QED BY <1>7, <2>1 DEF Good, FetchedFirst
<1>9. View(t, s) = e.storage
  BY <1>6, <1>7 DEF View, Seen
<1>10. PICK k : /\ token' = [token EXCEPT ![t] = k]
                /\ k.initialized /\ k.local /\ k.supply = n /\ k.treasury = a
                /\ View(t, k) = Issued(e.storage, a, n)
  <2>1. CASE n = 0 /\ token' = [token EXCEPT ![t] = s]
    <3>1. BalanceSlot(a) \in Slots
      BY <1>3, SlotTypes
    <3>2. Issued(e.storage, a, 0) = e.storage
      <4>1. e.storage[BalanceSlot(a)] + 0 = e.storage[BalanceSlot(a)]
        <5>1. e.storage[BalanceSlot(a)] \in Nat
          BY <1>6, <3>1, WordFacts
        <5> QED BY <5>1
      <4> QED BY <1>6, <4>1 DEF Issued
    <3> QED BY <1>7, <1>9, <2>1, <3>2
  <2>2. CASE n > 0 /\ CanMint(t, s, n) /\ token' = [token EXCEPT ![t] = AfterMint(t, s, n)]
    <3>1. PICK k : k = AfterMint(t, s, n)
      OBVIOUS
    <3>2. /\ View(t, k) = Issued(View(t, s), s.treasury, n)
          /\ k.supply = s.supply + n /\ SameButSupply(s, k)
      BY <1>3, <1>8, <2>2, <3>1, MintView
    <3>3. k.initialized /\ k.local /\ k.supply = n /\ k.treasury = a
      BY <1>3, <1>7, <3>2 DEF SameButSupply
    <3> QED BY <1>7, <1>9, <2>2, <3>1, <3>2, <3>3
  <2> QED BY <1>3, <2>1, <2>2
<1>11. token'[t] = k
  BY <1>3, <1>10, IInvGood
<1>12. Starts(t, e.storage)
  BY <1>3, <1>10, <1>11 DEF Starts
<1>13. CASE t \in RemoteTokens
  BY <1>3, <1>4, <1>5, <1>6, <1>10, <1>11, <1>12, <1>13 DEF Replaces, IsReplaced, Replaced
<1>14. CASE t \notin RemoteTokens
  <2>1. e = EmptyToken /\ ~e.initialized /\ e.storage = Nothing
    BY <1>3, <1>4, <1>5, <1>14, TokenAssumption, IInvGood DEF CreatedOnce, EmptyToken, Nothing
  <2>2. View(t, token[t]) = Nothing
    BY <1>3, <1>5, <1>14, <2>1, EmptyView
  <2>3. ~Callable(t)
    BY <1>5, <1>14, <2>1 DEF Callable
  <2>4. Creates(t)
    BY <1>5, <1>12, <2>1, <2>2, <2>3 DEF Creates
  <2> QED BY <1>3, <1>4, <1>10, <2>4
<1> QED BY <1>13, <1>14

-----------------------------------------------------------------------------
(* Steps.                                                                  *)

\* What happens to one token in a step.
Changes(t) ==
    \/ token'[t] = token[t]
    \/ Creates(t)
    \/ Replaces(t)
    \/ /\ Callable(t)
       /\ \E c \in Addresses :
             /\ caller' = c
             /\ Shows(View(t, token[t]), View(t, token'[t]), Opened(t), token'[t], c)

LEMMA AssociationShows ==
    ASSUME IdsIdentifyAccounts, IInv, NEW c \in Addresses, NEW ts \in SUBSET Tokens,
           NEW yes \in {0, 1}, SetAssociation(c, ts, yes), NEW t \in Tokens
    PROVE  /\ Changes(t)
           /\ \/ token'[t] = token[t]
              \/ Callable(t) /\ SameInfo(Opened(t), token'[t])
<1>1. CASE t \notin ts
  BY <1>1 DEF SetAssociation, Changes
<1>2. CASE t \in ts
  <2>1. PICK o : o = Opened(t)
    OBVIOUS
  <2>2. /\ Callable(t) /\ caller' = c
        /\ token'[t] = Store(FetchAssociated(t, o, c), AssociatedSlot(c), yes)
    BY <1>2, <2>1 DEF SetAssociation
  <2>3. Good(o) /\ View(t, o) = View(t, token[t])
    BY <2>1, <2>2, OpenedView
  <2>4. PICK k : k = token'[t]
    OBVIOUS
  <2>5. View(t, k) = [View(t, o) EXCEPT ![AssociatedSlot(c)] = yes] /\ SameInfo(o, k)
    BY <2>2, <2>3, <2>4, AssociationView
  <2>6. Shows(View(t, o), View(t, k), o, k, c)
    BY <2>5 DEF Shows, Associates
  <2> QED BY <2>1, <2>2, <2>3, <2>4, <2>5, <2>6 DEF Changes
<1> QED BY <1>1, <1>2

LEMMA NextChanges ==
    ASSUME IdsIdentifyAccounts, IInv, CreatedOnce, Next
    PROVE  CreatedOnce' /\ \A t \in Tokens : Changes(t)
<1>1. ASSUME NEW c \in Addresses, NEW t \in Tokens, TokenCall(c, t)
      PROVE  CreatedOnce' /\ \A u \in Tokens : Changes(u)
  <2>1. PICK k : Leaves(t, k, c)
    BY <1>1, TokenCallLeaves
  <2>2. /\ token' = [token EXCEPT ![t] = k] /\ caller' = c /\ nextTokenId' = nextTokenId
        /\ Callable(t) /\ Shows(View(t, token[t]), View(t, k), Opened(t), k, c)
    BY <2>1 DEF Leaves, Commit
  <2>3. /\ token'[t] = k
        /\ \A u \in Tokens : u # t => token'[u] = token[u]
    BY <2>2, IInvGood
  <2>4. \A u \in Tokens : Changes(u)
    BY <2>2, <2>3 DEF Changes
  <2>5. Opened(t).initialized /\ Opened(t).treasury \in Addresses
    <3>1. token[t] \in TokenState
      BY IInvGood DEF Good
    <3>2. CASE token[t].initialized
      BY <3>2 DEF Opened, CreatedOnce
    <3>3. CASE ~token[t].initialized
      <4>1. Mirror[t].treasury \in Addresses
        BY <2>2, <3>3, MirrorAssumption DEF Callable, MirrorToken
      <4> QED BY <3>1, <3>3, <4>1 DEF Opened, TokenState
    <3> QED BY <3>2, <3>3
  <2>6. k.initialized /\ k.treasury \in Addresses /\ k.local = token[t].local
    <3>1. Opened(t).local = token[t].local
      BY <2>2, OpenedView
    <3> QED BY <2>2, <2>5, <3>1 DEF Shows, Supplies, SameInfo, SameButSupply
  <2>7. t \notin RemoteTokens => t <= nextTokenId
    BY <2>2 DEF Callable, CreatedOnce
  <2>8. CreatedOnce'
    BY <2>2, <2>3, <2>6, <2>7 DEF CreatedOnce
  <2> QED BY <2>4, <2>8
<1>2. ASSUME NEW c \in Addresses, NEW a \in AnyAddress, NEW n \in Int64s,
             NEW key \in KeyState, CreateFungibleToken(c, a, n, key)
      PROVE  CreatedOnce' /\ \A u \in Tokens : Changes(u)
  <2>1. PICK t \in Tokens :
           /\ Creates(t) \/ Replaces(t)
           /\ t > nextTokenId /\ nextTokenId' = t /\ t > FirstTokenId
           /\ \E k : token' = [token EXCEPT ![t] = k]
    BY <1>2, InputAssumption, CreateShows
  <2>2. \A u \in Tokens : u # t => token'[u] = token[u]
    BY <2>1, IInvGood
  <2>3. \A u \in Tokens : Changes(u)
    BY <2>1, <2>2 DEF Changes
  <2>4. token'[t].initialized /\ token'[t].treasury \in Addresses
    BY <2>1 DEF Creates, Replaces, Starts
  <2>5. t \in Nat /\ nextTokenId \in Nat /\ \A u \in Tokens : u \in Nat
    BY TokenAssumption, IInvGood
  <2>6. CreatedOnce'
    BY <2>1, <2>2, <2>4, <2>5 DEF CreatedOnce
  <2> QED BY <2>3, <2>6
<1>3. ASSUME NEW c \in Addresses, NEW ts \in SUBSET Tokens,
             AssociateTokens(c, ts) \/ DissociateTokens(c, ts)
      PROVE  CreatedOnce' /\ \A u \in Tokens : Changes(u)
  <2>1. PICK yes \in {0, 1} : SetAssociation(c, ts, yes)
    BY <1>3 DEF AssociateTokens, DissociateTokens
  <2>2. \A u \in Tokens : Changes(u)
    BY <2>1, AssociationShows
  <2>3. nextTokenId' = nextTokenId
    BY <2>1 DEF SetAssociation
  <2>4. ASSUME NEW u \in Tokens, token'[u] # token[u]
        PROVE  /\ token'[u].initialized /\ token'[u].treasury \in Addresses
               /\ u \notin RemoteTokens => u <= nextTokenId
               /\ token'[u].local = token[u].local
    <3>1. Callable(u) /\ SameInfo(Opened(u), token'[u])
      BY <2>1, <2>4, AssociationShows
    <3>2. token[u] \in TokenState
      BY IInvGood DEF Good
    <3>3. Opened(u).initialized /\ Opened(u).treasury \in Addresses
      <4>1. CASE token[u].initialized
        BY <4>1 DEF Opened, CreatedOnce
      <4>2. CASE ~token[u].initialized
        <5>1. Mirror[u].treasury \in Addresses
          BY <3>1, <4>2, MirrorAssumption DEF Callable, MirrorToken
        <5> QED BY <3>2, <4>2, <5>1 DEF Opened, TokenState
      <4> QED BY <4>1, <4>2
    <3>4. Opened(u).local = token[u].local
      BY <3>1, OpenedView
    <3> QED BY <3>1, <3>3, <3>4 DEF SameInfo, Callable, CreatedOnce
  <2>5. CreatedOnce'
    BY <2>3, <2>4 DEF CreatedOnce
  <2> QED BY <2>2, <2>5
<1> QED BY <1>1, <1>2, <1>3 DEF Next

-----------------------------------------------------------------------------
(* The two action properties.                                              *)

LEMMA IssuedAt ==
    ASSUME NEW v \in [Slots -> Int], NEW i \in Addresses, NEW n \in Int
    PROVE  /\ Issued(v, i, n) \in [Slots -> Int]
           /\ \A a \in Addresses :
                 Issued(v, i, n)[BalanceSlot(a)] = v[BalanceSlot(a)] + Share(a, i, n)
           /\ \A a, b \in Addresses : Issued(v, i, n)[AllowanceSlot(a, b)] = v[AllowanceSlot(a, b)]
           /\ \A a \in Addresses : Issued(v, i, n)[AssociatedSlot(a)] = v[AssociatedSlot(a)]
<1>1. PICK x \in Slots : x = BalanceSlot(i)
  BY SlotTypes
<1>2. PICK w : w = Issued(v, i, n)
  OBVIOUS
<1>3. /\ w \in [Slots -> Int]
      /\ \A z \in Slots : w[z] = IF z = x THEN v[z] + n ELSE v[z]
  BY <1>1, <1>2 DEF Issued
<1>4. ASSUME NEW a \in Addresses, NEW b \in Addresses
      PROVE  /\ BalanceSlot(a) \in Slots /\ AllowanceSlot(a, b) \in Slots /\ AssociatedSlot(a) \in Slots
             /\ AllowanceSlot(a, b) # x /\ AssociatedSlot(a) # x
             /\ BalanceSlot(a) = x <=> Same(a, i)
  BY <1>1, SlotTypes, SlotsDiffer DEF Same
<1> QED BY <1>2, <1>3, <1>4 DEF Share

\* Nobody loses units but to an allowance, or as the treasury of a token that
\* is burnt: what NoUnauthorisedSpending says, of what is shown.
Authorised(v, w, s, k, c) ==
    \A a \in Addresses :
        LET had  == v[AllowanceSlot(a, c)]
            left == w[AllowanceSlot(a, c)]
            loss == v[BalanceSlot(a)] - w[BalanceSlot(a)]
        IN  loss > 0 => \/ Same(a, c)
                        \/ loss <= had - left
                        \/ had = WordMax
                        \/ Same(a, s.treasury) /\ loss = s.supply - k.supply

\* An owner's allowances are its own to set.
OwnersSet(v, w, c) ==
    \A a, b \in Addresses :
        LET had  == v[AllowanceSlot(a, b)]
            left == w[AllowanceSlot(a, b)]
        IN  left # had => Same(a, c) \/ (Same(b, c) /\ left < had)

LEMMA ShowsAuthorised ==
    ASSUME NEW v \in [Slots -> Word], NEW w \in [Slots -> Word], NEW c \in Addresses,
           NEW s, NEW k, s.supply \in Int, Shows(v, w, s, k, c)
    PROVE  Authorised(v, w, s, k, c) /\ OwnersSet(v, w, c)
<1>1. v \in [Slots -> Int] /\ w \in [Slots -> Int]
  BY WordFacts, WidthAssumption DEF Word
<1>2. \A x \in Slots : v[x] \in Int /\ w[x] \in Int
  BY <1>1
<1>3. \A a, b \in Addresses : BalanceSlot(a) \in Slots /\ AllowanceSlot(a, b) \in Slots
  BY SlotTypes
<1>4. CASE Supplies(v, w, s, k)
  <2>1. PICK n \in Int : k.supply = s.supply + n /\ w = Issued(v, s.treasury, n)
    <3>1. CASE Mints(v, w, s, k)
      BY <3>1 DEF Mints
    <3>2. CASE Burns(v, w, s, k)
      <4>1. PICK m \in Nat : k.supply = s.supply - m /\ w = Issued(v, s.treasury, -m)
        BY <3>2 DEF Burns
      <4>2. -m \in Int /\ s.supply - m = s.supply + -m
        OBVIOUS
      <4> QED BY <4>1, <4>2
    <3> QED BY <1>4, <3>1, <3>2 DEF Supplies
  <2>2. s.treasury \in Addresses
    BY <1>4 DEF Supplies
  <2>3. /\ \A a \in Addresses : w[BalanceSlot(a)] = v[BalanceSlot(a)] + Share(a, s.treasury, n)
        /\ \A a, b \in Addresses : w[AllowanceSlot(a, b)] = v[AllowanceSlot(a, b)]
    BY <1>1, <2>1, <2>2, IssuedAt
  <2>4. OwnersSet(v, w, c)
    BY <2>3 DEF OwnersSet
  <2>5. ASSUME NEW a \in Addresses, v[BalanceSlot(a)] - w[BalanceSlot(a)] > 0
        PROVE  /\ Same(a, s.treasury)
               /\ v[BalanceSlot(a)] - w[BalanceSlot(a)] = s.supply - k.supply
    <3>1. w[BalanceSlot(a)] = v[BalanceSlot(a)] + Share(a, s.treasury, n)
      BY <2>3
    <3>2. v[BalanceSlot(a)] \in Int
      BY <1>2, <1>3
    <3>3. CASE Same(a, s.treasury)
      BY <2>1, <3>1, <3>2, <3>3 DEF Share
    <3>4. CASE ~Same(a, s.treasury)
      BY <2>5, <3>1, <3>2, <3>4 DEF Share
    <3> QED BY <3>3, <3>4
  <2> QED BY <2>4, <2>5 DEF Authorised
<1>5. ASSUME Spends(v, w, c), UsesUp(v, w, c)
      PROVE  Authorised(v, w, s, k, c) /\ OwnersSet(v, w, c)
  BY <1>5 DEF Spends, UsesUp, Authorised, OwnersSet
<1>6. CASE w = v
  BY <1>2, <1>3, <1>6 DEF Authorised, OwnersSet
<1>7. CASE Approves(v, w, c)
  <2>1. PICK p \in Addresses, n \in Word : w = [v EXCEPT ![AllowanceSlot(c, p)] = n]
    BY <1>7 DEF Approves
  <2>2. ASSUME NEW a \in Addresses
        PROVE  w[BalanceSlot(a)] = v[BalanceSlot(a)]
    <3>1. BalanceSlot(a) # AllowanceSlot(c, p)
      BY SlotsDiffer
    <3> QED BY <1>3, <2>1, <3>1
  <2>3. ASSUME NEW a \in Addresses, NEW b \in Addresses, ~Same(a, c)
        PROVE  w[AllowanceSlot(a, b)] = v[AllowanceSlot(a, b)]
    <3>1. AllowanceSlot(a, b) # AllowanceSlot(c, p)
      BY <2>3, SlotsDiffer DEF Same
    <3> QED BY <1>3, <2>1, <3>1
  <2> QED BY <1>2, <1>3, <2>2, <2>3 DEF Authorised, OwnersSet
<1>8. CASE Associates(v, w, c)
  <2>1. PICK yes \in {0, 1} : w = [v EXCEPT ![AssociatedSlot(c)] = yes]
    BY <1>8 DEF Associates
  <2>2. \A a \in Addresses : w[BalanceSlot(a)] = v[BalanceSlot(a)]
    BY <1>3, <2>1, SlotsDiffer
  <2>3. \A a, b \in Addresses : w[AllowanceSlot(a, b)] = v[AllowanceSlot(a, b)]
    BY <1>3, <2>1, SlotsDiffer
  <2> QED BY <1>2, <1>3, <2>2, <2>3 DEF Authorised, OwnersSet
<1>9. CASE TransfersAs(v, w, c)
  BY <1>5, <1>9, MovesSpends
<1>10. ASSUME NEW u \in [Slots -> Word], TransfersAs(v, u, c), TransfersAs(u, w, c)
       PROVE  Authorised(v, w, s, k, c) /\ OwnersSet(v, w, c)
  <2>1. Spends(v, u, c) /\ UsesUp(v, u, c) /\ Spends(u, w, c) /\ UsesUp(u, w, c)
    BY <1>10, MovesSpends
  <2> QED BY <1>5, <2>1, SpendsTwice
<1> QED BY <1>4, <1>6, <1>7, <1>8, <1>9, <1>10 DEF Shows

LEMMA IInvGoodNext == IInv' => \A t \in Tokens : Good(token'[t])
  BY DEF IInv, TypeOK, WrittenSlotsAreFetched, Good, FetchedFirst

LEMMA InitCreatedOnce == Init => CreatedOnce
  BY TokenAssumption DEF Init, CreatedOnce, EmptyToken

\* What a step shows of one token.
LEMMA ChangesAuthorised ==
    ASSUME IdsIdentifyAccounts, IInv, IInv', NEW t \in Tokens, token'[t] # token[t], Changes(t)
    PROVE  \/ Creates(t)
           \/ Replaces(t)
           \/ /\ caller' \in Addresses
              /\ Authorised(View(t, token[t]), View(t, token'[t]), Opened(t), token'[t], caller')
              /\ OwnersSet(View(t, token[t]), View(t, token'[t]), caller')
<1>1. View(t, token[t]) \in [Slots -> Word] /\ View(t, token'[t]) \in [Slots -> Word]
  <2>1. Good(token[t]) /\ Good(token'[t])
    BY IInvGood, IInvGoodNext
  <2> QED BY <2>1, ViewIs
<1>2. ASSUME NEW c \in Addresses, Callable(t),
             Shows(View(t, token[t]), View(t, token'[t]), Opened(t), token'[t], c)
      PROVE  /\ Authorised(View(t, token[t]), View(t, token'[t]), Opened(t), token'[t], c)
             /\ OwnersSet(View(t, token[t]), View(t, token'[t]), c)
  <2>1. Opened(t).supply \in Int
    BY <1>2, OpenedView, WidthAssumption DEF Good, TokenState
  <2> QED BY <1>1, <1>2, <2>1, ShowsAuthorised
<1> QED BY <1>2 DEF Changes

LEMMA StepAuthorised ==
    ASSUME IdsIdentifyAccounts, IInv, IInv', NEW t \in Tokens, token'[t] # token[t], Changes(t),
           NEW a \in Addresses, NEW b \in Addresses
    PROVE  /\ LET loss == BalanceSeen(t, token[t], a) - BalanceSeen(t, token'[t], a)
                  had  == AllowanceSeen(t, token[t], a, caller')
                  left == AllowanceSeen(t, token'[t], a, caller')
              IN  loss > 0 => \/ AccountId[caller'] = AccountId[a]
                              \/ loss <= had - left
                              \/ had = WordMax
                              \/ /\ AccountId[Opened(t).treasury] = AccountId[a]
                                 /\ loss = Opened(t).supply - token'[t].supply
                              \/ IsReplaced(t) /\ BalanceSlot(a) \notin token[t].scratch
           /\ LET had  == AllowanceSeen(t, token[t], a, b)
                  left == AllowanceSeen(t, token'[t], a, b)
              IN  left # had => \/ AccountId[caller'] = AccountId[a]
                                \/ AccountId[caller'] = AccountId[b] /\ left < had
                                \/ /\ IsReplaced(t) /\ left = 0
                                   /\ AllowanceSlot(a, b) \notin token[t].scratch
<1>1. PICK v, w : v = View(t, token[t]) /\ w = View(t, token'[t])
  OBVIOUS
<1>2. /\ v[BalanceSlot(a)] = BalanceSeen(t, token[t], a)
      /\ w[BalanceSlot(a)] = BalanceSeen(t, token'[t], a)
      /\ \A p \in Addresses : /\ v[AllowanceSlot(a, p)] = AllowanceSeen(t, token[t], a, p)
                              /\ w[AllowanceSlot(a, p)] = AllowanceSeen(t, token'[t], a, p)
  BY <1>1, ViewIs, IInvGood, IInvGoodNext
<1>3. CASE Creates(t)
  <2>1. PICK i \in Addresses, n \in Nat : v = Nothing /\ w = Issued(Nothing, i, n)
    BY <1>1, <1>3 DEF Creates, Starts
  <2>2. Nothing \in [Slots -> Int] /\ \A x \in Slots : Nothing[x] = 0
    BY DEF Nothing
  <2>3. /\ w[BalanceSlot(a)] = v[BalanceSlot(a)] + Share(a, i, n)
        /\ w[AllowanceSlot(a, b)] = v[AllowanceSlot(a, b)]
    BY <2>1, <2>2, IssuedAt
  <2>4. v[BalanceSlot(a)] = 0 /\ ~(v[BalanceSlot(a)] - w[BalanceSlot(a)] > 0)
    BY <2>1, <2>2, <2>3, SlotTypes DEF Share
  <2> QED BY <1>2, <2>3, <2>4
<1>4. CASE caller' \in Addresses /\ Authorised(v, w, Opened(t), token'[t], caller')
           /\ OwnersSet(v, w, caller')
  BY <1>2, <1>4 DEF Authorised, OwnersSet, Same
<1>5. CASE Replaces(t)
  <2>1. PICK u : u = token[t].storage
    OBVIOUS
  <2>2. PICK i \in Addresses, n \in Nat : w = Issued(u, i, n)
    BY <1>1, <1>5, <2>1 DEF Replaces, Starts
  <2>3. /\ u \in [Slots -> Word] /\ u \in [Slots -> Int] /\ ~token[t].local
        /\ \A x \in Slots : IF x \in token[t].scratch THEN v[x] = u[x] ELSE u[x] = 0
    BY <1>1, <1>5, <2>1, IInvGood, WordFacts, WidthAssumption
       DEF Replaces, IsReplaced, Replaced, Good, FetchedFirst, TokenState, View, Seen, Word
  <2>4. /\ w[BalanceSlot(a)] = u[BalanceSlot(a)] + Share(a, i, n)
        /\ w[AllowanceSlot(a, b)] = u[AllowanceSlot(a, b)]
    <3>1. u \in [Slots -> Int] /\ n \in Int
      BY <2>3
    <3>2. /\ \A p \in Addresses :
                Issued(u, i, n)[BalanceSlot(p)] = u[BalanceSlot(p)] + Share(p, i, n)
          /\ \A p, q \in Addresses : Issued(u, i, n)[AllowanceSlot(p, q)] = u[AllowanceSlot(p, q)]
      BY <3>1, IssuedAt
    <3> QED BY <2>2, <3>2
  <2>5. BalanceSlot(a) \in Slots /\ AllowanceSlot(a, b) \in Slots
    BY SlotTypes
  <2>6. BalanceSlot(a) \in token[t].scratch => ~(v[BalanceSlot(a)] - w[BalanceSlot(a)] > 0)
    BY <2>3, <2>4, <2>5 DEF Share
  <2>7. IF AllowanceSlot(a, b) \in token[t].scratch
        THEN w[AllowanceSlot(a, b)] = v[AllowanceSlot(a, b)]
        ELSE w[AllowanceSlot(a, b)] = 0
    BY <2>3, <2>4, <2>5
  <2> QED BY <1>2, <1>5, <2>6, <2>7 DEF Replaces
<1> QED BY <1>1, <1>3, <1>4, <1>5, ChangesAuthorised

\* Nobody loses units but by its own call, by a call that uses up an allowance
\* for them, or as the treasury of a token that is burnt: for both doors, for
\* negative and truncated amounts and for lists, in whatever order the slots
\* are fetched from the Mirror Node.  The one exception is a token created at the
\* address of another one, which loses what was not fetched.
THEOREM SpendingIsAuthorised ==
    ASSUME IdsIdentifyAccounts
    PROVE  Spec => NoUnauthorisedSpending
<1>1. ASSUME IInv, IInv', CreatedOnce, [Next]_vars
      PROVE  [\A t \in {u \in Tokens : token'[u] # token[u]}, a \in Addresses :
                LET loss == BalanceSeen(t, token[t], a) - BalanceSeen(t, token'[t], a)
                    had  == AllowanceSeen(t, token[t], a, caller')
                    left == AllowanceSeen(t, token'[t], a, caller')
                IN  loss > 0 => \/ AccountId[caller'] = AccountId[a]
                                \/ loss <= had - left
                                \/ had = WordMax
                                \/ /\ AccountId[Opened(t).treasury] = AccountId[a]
                                   /\ loss = Opened(t).supply - token'[t].supply
                                \/ IsReplaced(t) /\ BalanceSlot(a) \notin token[t].scratch
             ]_vars
  <2>1. CASE Next
    BY <1>1, <2>1, NextChanges, StepAuthorised
  <2>2. CASE UNCHANGED vars
    BY <2>2
  <2> QED BY <1>1, <2>1, <2>2
<1>2. CreatedOnce /\ IInv /\ [Next]_vars => CreatedOnce'
  <2>1. CASE UNCHANGED vars
    BY <2>1 DEF vars, CreatedOnce
  <2> QED BY <2>1, NextChanges
<1> QED BY <1>1, <1>2, InitIInv, NextIInv, InitCreatedOnce, PTL DEF Spec, NoUnauthorisedSpending

\* An allowance changes by the call of its owner, or is used up by its spender.
THEOREM AllowancesAreOnlySpent ==
    ASSUME IdsIdentifyAccounts
    PROVE  Spec => AllowancesOnlySpent
<1>1. ASSUME IInv, IInv', CreatedOnce, [Next]_vars
      PROVE  [\A t \in {u \in Tokens : token'[u] # token[u]}, o, s \in Addresses :
                LET had  == AllowanceSeen(t, token[t], o, s)
                    left == AllowanceSeen(t, token'[t], o, s)
                IN  left # had => \/ AccountId[caller'] = AccountId[o]
                                  \/ AccountId[caller'] = AccountId[s] /\ left < had
                                  \/ /\ IsReplaced(t) /\ left = 0
                                     /\ AllowanceSlot(o, s) \notin token[t].scratch
             ]_vars
  <2>1. CASE Next
    BY <1>1, <2>1, NextChanges, StepAuthorised
  <2>2. CASE UNCHANGED vars
    BY <2>2
  <2> QED BY <1>1, <2>1, <2>2
<1>2. CreatedOnce /\ IInv /\ [Next]_vars => CreatedOnce'
  <2>1. CASE UNCHANGED vars
    BY <2>1 DEF vars, CreatedOnce
  <2> QED BY <2>1, NextChanges
<1> QED BY <1>1, <1>2, InitIInv, NextIInv, InitCreatedOnce, PTL DEF Spec, AllowancesOnlySpent
=============================================================================
