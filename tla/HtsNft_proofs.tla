----------------------------- MODULE HtsNft_proofs -----------------------------
(***************************************************************************)
(* Proofs about HtsNft, for every set of addresses and serials and every   *)
(* content of the Mirror Node.                                             *)
(*                                                                         *)
(* As in HtsFungible_proofs, the inductive invariant is a predicate Good   *)
(* on the storage of the token, which each internal function preserves.    *)
(* SameView(s, k) says that a step is invisible: it only fetches.          *)
(***************************************************************************)
EXTENDS HtsNft, TLAPS

FetchedFirst(s) ==
    /\ \A n \in Stored : s.owner[n] # Zero => OwnerOfSlot(n) \in s.scratch
    /\ \A n \in Stored : s.approved[n] # Zero => GetApprovedSlot(n) \in s.scratch
    /\ \A o, p \in AnyAddress : Pair(o, p) \in s.operators => OperatorSlot(o, p) \in s.scratch

Good(s) == s \in NftState /\ FetchedFirst(s)

SameAt(s, k, n) == OwnerSeen(k, n) = OwnerSeen(s, n) /\ ApprovedSeen(k, n) = ApprovedSeen(s, n)
SameView(s, k) == \A n \in Stored : SameAt(s, k, n)

-----------------------------------------------------------------------------
(* Slots.                                                                  *)

LEMMA SlotTypes ==
    ASSUME NEW n \in Stored
    PROVE  OwnerOfSlot(n) \in Slots /\ GetApprovedSlot(n) \in Slots
  BY DEF Slots

LEMMA OperatorSlotTypes ==
    ASSUME NEW o \in AnyAddress, NEW p \in AnyAddress
    PROVE  OperatorSlot(o, p) \in Slots /\ Pair(o, p) \in Ids \X Ids
  BY DEF Slots, Pair, Ids

LEMMA SlotsDiffer ==
    ASSUME NEW n \in Stored, NEW m \in Stored, NEW o \in AnyAddress, NEW p \in AnyAddress
    PROVE  /\ OwnerOfSlot(n) # GetApprovedSlot(m)
           /\ OwnerOfSlot(n) # OperatorSlot(o, p)
           /\ GetApprovedSlot(n) # OperatorSlot(o, p)
           /\ OwnerOfSlot(n) = OwnerOfSlot(m) => n = m
           /\ GetApprovedSlot(n) = GetApprovedSlot(m) => n = m
  BY DEF OwnerOfSlot, GetApprovedSlot, OperatorSlot

\* The slot of an operator depends on nothing but the pair of account ids.
LEMMA SamePairSameSlot ==
    ASSUME NEW o \in AnyAddress, NEW p \in AnyAddress,
           NEW x \in AnyAddress, NEW y \in AnyAddress, Pair(o, p) = Pair(x, y)
    PROVE  OperatorSlot(o, p) = OperatorSlot(x, y)
  BY DEF Pair, OperatorSlot

-----------------------------------------------------------------------------
(* Fetches.                                                                *)

LEMMA FetchOwnerGood ==
    ASSUME NEW s, Good(s), NEW n \in Stored
    PROVE  /\ Good(FetchOwner(s, n))
           /\ OwnerOfSlot(n) \in FetchOwner(s, n).scratch
           /\ SameView(s, FetchOwner(s, n))
<1>1. getNftOwner(n) \in AnyAddress
  BY NftAssumption DEF getNftOwner, getAccountAddress, AnyAddress
<1>2. FetchOwner(s, n) \in NftState
  BY <1>1, SlotTypes DEF FetchOwner, Good, NftState
<1>3. FetchedFirst(FetchOwner(s, n))
  BY DEF FetchOwner, Good, FetchedFirst, NftState
<1>4. SameView(s, FetchOwner(s, n))
  BY SlotsDiffer DEF FetchOwner, Good, NftState, SameView, SameAt, OwnerSeen, ApprovedSeen
<1>5. OwnerOfSlot(n) \in FetchOwner(s, n).scratch
  BY DEF FetchOwner, Good, NftState
<1> QED BY <1>2, <1>3, <1>4, <1>5 DEF Good

LEMMA FetchApprovedGood ==
    ASSUME NEW s, Good(s), NEW n \in Stored
    PROVE  /\ Good(FetchApproved(s, n))
           /\ GetApprovedSlot(n) \in FetchApproved(s, n).scratch
           /\ s.scratch \subseteq FetchApproved(s, n).scratch
           /\ SameView(s, FetchApproved(s, n))
<1>1. getNftSpender(n) \in AnyAddress
  BY NftAssumption DEF getNftSpender, getAccountAddress, AnyAddress
<1>2. FetchApproved(s, n) \in NftState
  BY <1>1, SlotTypes DEF FetchApproved, Good, NftState
<1>3. FetchedFirst(FetchApproved(s, n))
  BY DEF FetchApproved, Good, FetchedFirst, NftState
<1>4. SameView(s, FetchApproved(s, n))
  BY SlotsDiffer DEF FetchApproved, Good, NftState, SameView, SameAt, OwnerSeen, ApprovedSeen
<1>5. /\ GetApprovedSlot(n) \in FetchApproved(s, n).scratch
      /\ s.scratch \subseteq FetchApproved(s, n).scratch
  BY DEF FetchApproved, Good, NftState
<1> QED BY <1>2, <1>3, <1>4, <1>5 DEF Good

LEMMA SetOperatorType ==
    ASSUME NEW s \in NftState, NEW o \in AnyAddress, NEW p \in AnyAddress, NEW yes
    PROVE  SetOperator(s, o, p, yes) \in NftState
<1> DEFINE pairs == Ids \X Ids
<1> DEFINE ops == IF yes THEN s.operators \cup {Pair(o, p)} ELSE s.operators \ {Pair(o, p)}
<1>1. s \in [owner : [Stored -> AnyAddress], approved : [Stored -> AnyAddress],
           operators : SUBSET pairs, scratch : SUBSET Slots]
  BY DEF NftState
<1>2. Pair(o, p) \in pairs
  BY OperatorSlotTypes
<1>3. SetOperator(s, o, p, yes) = [s EXCEPT !.operators = ops]
  BY DEF SetOperator
<1>4. NftState = [owner : [Stored -> AnyAddress], approved : [Stored -> AnyAddress],
           operators : SUBSET pairs, scratch : SUBSET Slots]
  BY DEF NftState
<1> HIDE DEF pairs
<1>5. ops \in SUBSET pairs
  BY <1>1, <1>2
<1> HIDE DEF ops
<1> QED BY <1>1, <1>3, <1>4, <1>5

LEMMA FetchOperatorGood ==
    ASSUME NEW s, Good(s), NEW o \in AnyAddress, NEW p \in AnyAddress
    PROVE  /\ Good(FetchOperator(s, o, p))
           /\ OperatorSlot(o, p) \in FetchOperator(s, o, p).scratch
           /\ s.scratch \subseteq FetchOperator(s, o, p).scratch
           /\ SameView(s, FetchOperator(s, o, p))
<1> DEFINE f == FetchOperator(s, o, p)
<1>1. f \in NftState
  <2> DEFINE g == SetOperator(s, o, p, isApprovedForAll(o, p))
  <2>1. g \in NftState
    BY SetOperatorType DEF Good
  <2>2. f = IF OperatorSlot(o, p) \in s.scratch THEN s
            ELSE [g EXCEPT !.scratch = @ \cup {OperatorSlot(o, p)}]
    BY Zenon DEF FetchOperator
  <2>3. OperatorSlot(o, p) \in Slots
    BY OperatorSlotTypes
  <2> HIDE DEF f, g
  <2> QED BY <2>1, <2>2, <2>3 DEF Good, NftState
<1>2. s.scratch \subseteq f.scratch /\ OperatorSlot(o, p) \in f.scratch
  BY DEF FetchOperator, SetOperator, Good, NftState
<1>3. f.owner = s.owner /\ f.approved = s.approved
      /\ f.operators \subseteq s.operators \cup {Pair(o, p)}
  BY DEF FetchOperator, SetOperator, Good, NftState
<1>4. FetchedFirst(f)
  BY <1>2, <1>3, SamePairSameSlot DEF Good, FetchedFirst
<1>5. f.scratch \subseteq s.scratch \cup {OperatorSlot(o, p)}
  BY DEF FetchOperator, SetOperator, Good, NftState
<1>6. SameView(s, f)
  BY <1>2, <1>3, <1>5, SlotsDiffer DEF SameView, SameAt, OwnerSeen, ApprovedSeen
<1> QED BY <1>1, <1>2, <1>4, <1>6 DEF Good

LEMMA SetOperatorGood ==
    ASSUME NEW s, Good(s), NEW o \in AnyAddress, NEW p \in AnyAddress,
           NEW yes, OperatorSlot(o, p) \in s.scratch
    PROVE  Good(SetOperator(s, o, p, yes)) /\ SameView(s, SetOperator(s, o, p, yes))
<1> DEFINE f == SetOperator(s, o, p, yes)
<1>1. f \in NftState
  BY SetOperatorType DEF Good
<1>2. /\ f.owner = s.owner /\ f.approved = s.approved /\ f.scratch = s.scratch
      /\ f.operators \subseteq s.operators \cup {Pair(o, p)}
  BY DEF SetOperator, Good, NftState
<1>3. FetchedFirst(f)
  BY <1>2, SamePairSameSlot DEF Good, FetchedFirst
<1>4. SameView(s, f)
  BY <1>2 DEF SameView, SameAt, OwnerSeen, ApprovedSeen
<1> QED BY <1>1, <1>3, <1>4 DEF Good

-----------------------------------------------------------------------------
(* The internal functions.                                                 *)

LEMMA SameViewChain ==
    ASSUME NEW s, NEW k, NEW l, SameView(s, k), SameView(k, l)
    PROVE  SameView(s, l)
  BY DEF SameView, SameAt

LEMMA ApprovalsGood ==
    ASSUME NEW s, Good(s), NEW o \in AnyAddress, NEW c \in AnyAddress, NEW n \in Stored
    PROVE  /\ Good(Approvals(s, o, c, n))
           /\ s.scratch \subseteq Approvals(s, o, c, n).scratch
           /\ SameView(s, Approvals(s, o, c, n))
<1> DEFINE f == FetchApproved(s, n)
<1> DEFINE g == FetchOperator(f, o, c)
<1>1. Good(f) /\ s.scratch \subseteq f.scratch /\ SameView(s, f)
  BY FetchApprovedGood
<1>2. Good(g) /\ f.scratch \subseteq g.scratch /\ SameView(f, g)
  BY <1>1, FetchOperatorGood
<1>3. Approvals(s, o, c, n) = f \/ Approvals(s, o, c, n) = g
  BY DEF Approvals
<1>4. SameView(s, g)
  BY <1>1, <1>2, SameViewChain
<1> HIDE DEF f, g
<1> QED BY <1>1, <1>2, <1>3, <1>4

\* The fetches of _transferNFT and _approve before they write: the owner, and
\* the approvals unless the caller is the owner.
Reads(s, o, c, n) == FetchApproved(IF c = o THEN FetchOwner(s, n)
                                   ELSE Approvals(FetchOwner(s, n), o, c, n), n)

LEMMA ReadsGood ==
    ASSUME NEW s, Good(s), NEW o \in AnyAddress, NEW c \in AnyAddress, NEW n \in Stored,
           NEW b, b = Reads(s, o, c, n)
    PROVE  /\ Good(b) /\ SameView(s, b)
           /\ OwnerOfSlot(n) \in b.scratch /\ GetApprovedSlot(n) \in b.scratch
<1> DEFINE f == FetchOwner(s, n)
<1> DEFINE h == Approvals(f, o, c, n)
<1> DEFINE a == IF c = o THEN f ELSE h
<1>1. Good(f) /\ OwnerOfSlot(n) \in f.scratch /\ SameView(s, f)
  BY FetchOwnerGood
<1>2. Good(h) /\ f.scratch \subseteq h.scratch /\ SameView(f, h)
  BY <1>1, ApprovalsGood
<1>3. SameView(s, h)
  BY <1>1, <1>2, SameViewChain
<1> HIDE DEF f, h
<1>4. Good(a) /\ OwnerOfSlot(n) \in a.scratch /\ SameView(s, a)
  BY <1>1, <1>2, <1>3
<1>5. b = FetchApproved(a, n)
  BY DEF f, h, Reads
<1> HIDE DEF a
<1>6. /\ Good(b) /\ SameView(a, b) /\ a.scratch \subseteq b.scratch
      /\ GetApprovedSlot(n) \in b.scratch
  BY <1>4, <1>5, FetchApprovedGood
<1> QED BY <1>4, <1>6, SameViewChain

\* Writes to slots that were fetched.
Written(b, n, x, y) == [b EXCEPT !.approved[n] = x, !.owner[n] = y]

LEMMA WriteGood ==
    ASSUME NEW b, Good(b), NEW n \in Stored, NEW x \in AnyAddress, NEW y \in AnyAddress,
           OwnerOfSlot(n) \in b.scratch, GetApprovedSlot(n) \in b.scratch
    PROVE  /\ Good(Written(b, n, x, y))
           /\ ApprovedSeen(Written(b, n, x, y), n) = x
           /\ OwnerSeen(Written(b, n, x, y), n) = y
           /\ \A m \in Stored : m # n => SameAt(b, Written(b, n, x, y), m)
<1> DEFINE d == Written(b, n, x, y)
<1>1. d \in NftState
  BY DEF Good, NftState, Written
<1>2. /\ d.operators = b.operators /\ d.scratch = b.scratch
      /\ d.owner[n] = y /\ d.approved[n] = x
      /\ \A m \in Stored : m # n => d.owner[m] = b.owner[m] /\ d.approved[m] = b.approved[m]
  BY DEF Good, NftState, Written
<1> HIDE DEF d
<1>3. FetchedFirst(d)
  BY <1>2 DEF Good, FetchedFirst
<1>4. ApprovedSeen(d, n) = x /\ OwnerSeen(d, n) = y
  BY <1>2 DEF ApprovedSeen, OwnerSeen
<1>5. \A m \in Stored : m # n => SameAt(b, d, m)
  BY <1>2 DEF SameAt, ApprovedSeen, OwnerSeen
<1>6. Good(d)
  BY <1>1, <1>3 DEF Good
<1> QED BY <1>4, <1>5, <1>6 DEF d

LEMMA TransferGood ==
    ASSUME NEW s, Good(s), NEW c \in Addresses, NEW from \in AnyAddress,
           NEW to \in AnyAddress, NEW n \in Stored
    PROVE  /\ Good(AfterTransfer(s, c, from, to, n))
           /\ ApprovedSeen(AfterTransfer(s, c, from, to, n), n) = Zero
           /\ \A m \in Stored : m # n => SameAt(s, AfterTransfer(s, c, from, to, n), m)
<1> DEFINE b == Reads(s, from, c, n)
<1> DEFINE d == Written(b, n, Zero, to)
<1> DEFINE g == FetchOperator(d, from, c)
<1> DEFINE h == SetOperator(g, from, c, FALSE)
<1>0. c \in AnyAddress /\ Zero \in AnyAddress
  BY DEF AnyAddress
<1>1. /\ Good(b) /\ SameView(s, b)
      /\ OwnerOfSlot(n) \in b.scratch /\ GetApprovedSlot(n) \in b.scratch
  BY <1>0, ReadsGood
<1>2. AfterTransfer(s, c, from, to, n) = IF c = from THEN d ELSE h
  BY DEF AfterTransfer, Reads, Written
<1> HIDE DEF b
<1>3. /\ Good(d) /\ ApprovedSeen(d, n) = Zero
      /\ \A m \in Stored : m # n => SameAt(b, d, m)
  BY <1>0, <1>1, WriteGood
<1> HIDE DEF d
<1>4. Good(g) /\ SameView(d, g) /\ OperatorSlot(from, c) \in g.scratch
  BY <1>0, <1>3, FetchOperatorGood
<1> HIDE DEF g
<1>5. Good(h) /\ SameView(g, h)
  BY <1>0, <1>4, SetOperatorGood
<1> HIDE DEF h
<1>6. SameView(d, h)
  BY <1>4, <1>5, SameViewChain
<1>7. ASSUME NEW k, k = d \/ k = h
      PROVE  /\ Good(k) /\ ApprovedSeen(k, n) = Zero
             /\ \A m \in Stored : m # n => SameAt(s, k, m)
  BY <1>1, <1>3, <1>5, <1>6, <1>7 DEF SameView, SameAt
<1> QED BY <1>2, <1>7

LEMMA ApproveGood ==
    ASSUME NEW s, Good(s), NEW c \in Addresses, NEW spender \in AnyAddress,
           NEW n \in Stored
    PROVE  /\ Good(AfterApprove(s, c, spender, n))
           /\ \A m \in Stored :
                OwnerSeen(AfterApprove(s, c, spender, n), m) = OwnerSeen(s, m)
<1> DEFINE o == FetchOwner(s, n).owner[n]
<1> DEFINE b == Reads(s, o, c, n)
<1> DEFINE d == [b EXCEPT !.approved[n] = spender]
<1>0. c \in AnyAddress
  BY DEF AnyAddress
<1>1. AfterApprove(s, c, spender, n) = d
  BY DEF AfterApprove, Reads
<1>2. o \in AnyAddress
  BY FetchOwnerGood DEF Good, NftState
<1> HIDE DEF o
<1>3. /\ Good(b) /\ SameView(s, b)
      /\ OwnerOfSlot(n) \in b.scratch /\ GetApprovedSlot(n) \in b.scratch
  BY <1>0, <1>2, ReadsGood
<1> HIDE DEF b
<1>4. d \in NftState
  BY <1>3 DEF Good, NftState
<1>5. /\ d.operators = b.operators /\ d.scratch = b.scratch /\ d.owner = b.owner
      /\ \A m \in Stored : m # n => d.approved[m] = b.approved[m]
  BY <1>3 DEF Good, NftState
<1>6. FetchedFirst(d)
  BY <1>3, <1>5 DEF Good, FetchedFirst
<1>7. \A m \in Stored : OwnerSeen(d, m) = OwnerSeen(s, m)
  BY <1>3, <1>5 DEF OwnerSeen, SameView, SameAt
<1> QED BY <1>1, <1>4, <1>6, <1>7 DEF Good

-----------------------------------------------------------------------------
(* External calls.                                                         *)

\* The storage k may follow the storage s.
Ends(s, k) == \A n \in Stored :
    OwnerSeen(k, n) # OwnerSeen(s, n) => ApprovedSeen(k, n) = Zero

Follows(s, k) == Good(k) /\ Ends(s, k)

LEMMA SameFollows ==
    ASSUME NEW s, NEW k, Good(k), SameView(s, k)
    PROVE  Follows(s, k)
  BY DEF Follows, Ends, SameView, SameAt

LEMMA TransferFollows ==
    ASSUME NEW s, Good(s), NEW c \in Addresses, NEW from \in AnyAddress,
           NEW to \in AnyAddress, NEW n \in Stored
    PROVE  Follows(s, AfterTransfer(s, c, from, to, n))
  BY TransferGood DEF Follows, Ends, SameAt

LEMMA TransfersFollow ==
    ASSUME NEW s, Good(s), NEW c \in Addresses, NEW from \in AnyAddress,
           NEW to \in AnyAddress, NEW n \in Stored, NEW k, Follows(s, k)
    PROVE  Follows(s, AfterTransfer(k, c, from, to, n))
<1>1. PICK l : l = AfterTransfer(k, c, from, to, n)
  OBVIOUS
<1>2. Good(k) /\ Ends(s, k)
  BY DEF Follows
<1>3. /\ Good(l) /\ ApprovedSeen(l, n) = Zero
      /\ \A m \in Stored : m # n => SameAt(k, l, m)
  BY <1>1, <1>2, TransferGood
<1>4. Ends(s, l)
  BY <1>2, <1>3 DEF Ends, SameAt
<1>5. Follows(s, l)
  BY <1>3, <1>4 DEF Follows
<1> QED BY <1>1, <1>5

LEMMA ApproveFollows ==
    ASSUME NEW s, Good(s), NEW c \in Addresses, NEW spender \in AnyAddress,
           NEW n \in Stored
    PROVE  Follows(s, AfterApprove(s, c, spender, n))
  BY ApproveGood DEF Follows, Ends

IInv == Good(nft) /\ caller \in AnyAddress

LEMMA IInvIs == IInv <=> TypeOK /\ WrittenSlotsAreFetched
  BY DEF IInv, TypeOK, WrittenSlotsAreFetched, Good, FetchedFirst

THEOREM InitIInv == Init => IInv
<1> SUFFICES ASSUME Init PROVE IInv
  OBVIOUS
<1>1. Zero \in AnyAddress
  BY DEF AnyAddress
<1>2. EmptyNft \in NftState
  BY <1>1, NftAssumption DEF EmptyNft, NftState
<1>3. FetchedFirst(EmptyNft)
  BY DEF EmptyNft, FetchedFirst
<1> QED BY <1>1, <1>2, <1>3 DEF Init, IInv, Good

\* One step for each action.
LEMMA NextFollows ==
    ASSUME IInv, Next
    PROVE  Follows(nft, nft') /\ caller' \in AnyAddress
<1> PICK c \in Addresses :
       \/ \E from, to \in AnyAddress, n \in Serials : TransferNFT(c, from, to, n)
       \/ \E f, g, x, y \in AnyAddress, n, m \in Serials : TransferNFTs(c, f, g, n, x, y, m)
       \/ \E a \in AnyAddress, n \in Serials : ApproveNFT(c, a, n)
       \/ \E a \in AnyAddress, yes \in BOOLEAN : SetApprovalForAll(c, a, yes)
       \/ \E n \in Serials : OwnerOf(c, n) \/ GetApproved(c, n)
       \/ \E o, p \in Addresses : IsApprovedForAll(c, o, p)
  BY DEF Next
<1>0. /\ c \in AnyAddress /\ Addresses \subseteq AnyAddress
      /\ Good(nft) /\ \A n \in Serials : uint32(n) \in Stored
  BY DEF AnyAddress, IInv, Stored
<1>1. ASSUME NEW k, Commit(c, k), Follows(nft, k)
      PROVE  Follows(nft, nft') /\ caller' \in AnyAddress
  BY <1>0, <1>1 DEF Commit
<1>2. ASSUME NEW from \in AnyAddress, NEW to \in AnyAddress, NEW n \in Serials,
             TransferNFT(c, from, to, n)
      PROVE  Follows(nft, nft') /\ caller' \in AnyAddress
  <2>1. Follows(nft, AfterTransfer(nft, c, from, to, uint32(n)))
    BY <1>0, TransferFollows
  <2> QED BY <1>2, <1>1, <2>1 DEF TransferNFT
<1>3. ASSUME NEW f \in AnyAddress, NEW g \in AnyAddress, NEW x \in AnyAddress,
             NEW y \in AnyAddress, NEW n \in Serials, NEW m \in Serials,
             TransferNFTs(c, f, g, n, x, y, m)
      PROVE  Follows(nft, nft') /\ caller' \in AnyAddress
  <2>1. PICK k : k = AfterTransfer(nft, c, f, g, uint32(n))
    OBVIOUS
  <2>2. Follows(nft, k)
    BY <1>0, <2>1, TransferFollows
  <2>3. Follows(nft, AfterTransfer(k, c, x, y, uint32(m)))
    BY <1>0, <2>2, TransfersFollow
  <2> QED BY <1>3, <1>1, <2>1, <2>3 DEF TransferNFTs
<1>4. ASSUME NEW a \in AnyAddress, NEW n \in Serials, ApproveNFT(c, a, n)
      PROVE  Follows(nft, nft') /\ caller' \in AnyAddress
  <2>1. Follows(nft, AfterApprove(nft, c, a, uint32(n)))
    BY <1>0, ApproveFollows
  <2> QED BY <1>4, <1>1, <2>1 DEF ApproveNFT
<1>5. ASSUME NEW a \in AnyAddress, NEW yes \in BOOLEAN, SetApprovalForAll(c, a, yes)
      PROVE  Follows(nft, nft') /\ caller' \in AnyAddress
  <2>1. PICK g : g = FetchOperator(nft, c, a)
    OBVIOUS
  <2>2. Good(g) /\ SameView(nft, g) /\ OperatorSlot(c, a) \in g.scratch
    BY <1>0, <2>1, FetchOperatorGood
  <2>3. PICK h : h = SetOperator(g, c, a, yes)
    OBVIOUS
  <2>4. Good(h) /\ SameView(g, h)
    BY <1>0, <2>2, <2>3, SetOperatorGood
  <2>5. Follows(nft, h)
    BY <2>2, <2>4, SameViewChain, SameFollows
  <2> QED BY <1>5, <1>1, <2>1, <2>3, <2>5 DEF SetApprovalForAll
<1>6. ASSUME NEW n \in Serials, OwnerOf(c, n) \/ GetApproved(c, n)
      PROVE  Follows(nft, nft') /\ caller' \in AnyAddress
  <2>1. Follows(nft, FetchOwner(nft, uint32(n)))
    BY <1>0, FetchOwnerGood, SameFollows
  <2>2. Follows(nft, FetchApproved(nft, uint32(n)))
    BY <1>0, FetchApprovedGood, SameFollows
  <2> QED BY <1>6, <1>1, <2>1, <2>2 DEF OwnerOf, GetApproved
<1>7. ASSUME NEW o \in Addresses, NEW p \in Addresses, IsApprovedForAll(c, o, p)
      PROVE  Follows(nft, nft') /\ caller' \in AnyAddress
  <2>1. Follows(nft, FetchOperator(nft, o, p))
    BY <1>0, FetchOperatorGood, SameFollows
  <2> QED BY <1>7, <1>1, <2>1 DEF IsApprovedForAll
<1> QED BY <1>2, <1>3, <1>4, <1>5, <1>6, <1>7

\* The invariant is inductive: each action of HtsSystemContract.sol fetches a
\* slot before it writes it.
THEOREM NextIInv == IInv /\ [Next]_vars => IInv'
<1>1. ASSUME IInv, Next PROVE IInv'
  <2>1. Follows(nft, nft') /\ caller' \in AnyAddress
    BY <1>1, NextFollows
  <2>2. Good(nft')
    BY <2>1 DEF Follows
  <2> QED BY <2>1, <2>2 DEF IInv
<1>2. ASSUME IInv, UNCHANGED vars PROVE IInv'
  BY <1>2 DEF IInv, vars
<1> QED BY <1>1, <1>2

\* The storage of the token keeps its shape.
THEOREM TypeCorrect == Spec => []TypeOK
<1>1. IInv => TypeOK
  BY IInvIs
<1> QED BY <1>1, InitIInv, NextIInv, PTL DEF Spec

\* For any accounts, serials and answers of the Mirror Node: what the token's
\* functions wrote is never fetched over.
THEOREM WritesAreNeverLost == Spec => []WrittenSlotsAreFetched
<1>1. IInv => WrittenSlotsAreFetched
  BY IInvIs
<1> QED BY <1>1, InitIInv, NextIInv, PTL DEF Spec

\* For any accounts, serials and answers of the Mirror Node: no step of
\* _transferNFT or of any other function leaves an approval behind when it
\* changes the owner that a view call answers.
THEOREM ApprovalsEnd == Spec => ApprovalsEndWithOwnership
<1>1. ASSUME IInv, [Next]_vars
      PROVE  [\A n \in Stored : OwnerSeen(nft', n) # OwnerSeen(nft, n) =>
                 ApprovedSeen(nft', n) = Zero]_vars
  <2>1. CASE Next
    BY <1>1, <2>1, NextFollows DEF Follows, Ends
  <2>2. CASE UNCHANGED vars
    BY <2>2
  <2> QED BY <1>1, <2>1, <2>2
<1> QED BY <1>1, InitIInv, NextIInv, PTL DEF Spec, ApprovalsEndWithOwnership

-----------------------------------------------------------------------------
(***************************************************************************)
(* HtsNft implements NftRegistry, for every set of addresses and serials   *)
(* and every content of the Mirror Node: the storage that is filled at its *)
(* first use cannot be told from a registry that was there from the start. *)
(*                                                                         *)
(* A fetch does not change what RegistryOf shows (FetchShows...), a write  *)
(* changes it at one place (...Shows), and the guards of the contract say  *)
(* that the caller is entitled in it (ApprovalsEntitle).                   *)
(***************************************************************************)

\* The operators that are seen, pair by pair of addresses.
SameOperators(s, k) ==
    \A x, y \in AnyAddress : OperatorSeen(k, x, y) <=> OperatorSeen(s, x, y)

LEMMA SameShows ==
    ASSUME NEW s, NEW k, SameView(s, k), SameOperators(s, k)
    PROVE  RegistryOf(k) = RegistryOf(s)
<1>1. OperatorsSeen(k) = OperatorsSeen(s)
  BY DEF SameOperators, OperatorsSeen
<1> QED BY <1>1 DEF RegistryOf, SameView, SameAt

-----------------------------------------------------------------------------
(* Fetches.                                                                *)

LEMMA FetchOwnerShows ==
    ASSUME NEW s, Good(s), NEW n \in Stored
    PROVE  RegistryOf(FetchOwner(s, n)) = RegistryOf(s)
<1> DEFINE f == FetchOwner(s, n)
<1>1. f.operators = s.operators /\ f.scratch \subseteq s.scratch \cup {OwnerOfSlot(n)}
      /\ s.scratch \subseteq f.scratch
  BY DEF FetchOwner, Good, NftState
<1>2. SameOperators(s, f)
  <2> HIDE DEF f
  <2> QED BY <1>1, SlotsDiffer DEF SameOperators, OperatorSeen
<1> QED BY <1>2, FetchOwnerGood, SameShows

LEMMA FetchApprovedShows ==
    ASSUME NEW s, Good(s), NEW n \in Stored
    PROVE  RegistryOf(FetchApproved(s, n)) = RegistryOf(s)
<1> DEFINE f == FetchApproved(s, n)
<1>1. f.operators = s.operators /\ f.scratch \subseteq s.scratch \cup {GetApprovedSlot(n)}
      /\ s.scratch \subseteq f.scratch
  BY DEF FetchApproved, Good, NftState
<1>2. SameOperators(s, f)
  <2> HIDE DEF f
  <2> QED BY <1>1, SlotsDiffer DEF SameOperators, OperatorSeen
<1> QED BY <1>2, FetchApprovedGood, SameShows

\* Slots of operators are kept by id, the Mirror Node's operators by number.
LEMMA SameSlotSameOperator ==
    ASSUME IdsIdentifyAccounts, NEW o \in AnyAddress, NEW p \in AnyAddress,
           NEW x \in AnyAddress, NEW y \in AnyAddress
    PROVE  /\ OperatorSlot(x, y) = OperatorSlot(o, p) <=> Pair(x, y) = Pair(o, p)
           /\ Pair(x, y) = Pair(o, p) => (isApprovedForAll(x, y) <=> isApprovedForAll(o, p))
<1>1. OperatorSlot(x, y) = OperatorSlot(o, p) <=> Pair(x, y) = Pair(o, p)
  BY DEF OperatorSlot, Pair
<1>2. Pair(x, y) = Pair(o, p) => AccountNum[x] = AccountNum[o] /\ AccountNum[y] = AccountNum[p]
  BY DEF IdsIdentifyAccounts, Pair
<1> QED BY <1>1, <1>2 DEF isApprovedForAll

LEMMA FetchOperatorShows ==
    ASSUME IdsIdentifyAccounts, NEW s, Good(s), NEW o \in AnyAddress, NEW p \in AnyAddress
    PROVE  RegistryOf(FetchOperator(s, o, p)) = RegistryOf(s)
<1> DEFINE f == FetchOperator(s, o, p)
<1>1. CASE OperatorSlot(o, p) \in s.scratch
  BY <1>1 DEF FetchOperator
<1>2. CASE OperatorSlot(o, p) \notin s.scratch
  <2>1. f.scratch = s.scratch \cup {OperatorSlot(o, p)}
    BY <1>2 DEF FetchOperator, SetOperator, Good, NftState
  <2>2. f.operators = IF isApprovedForAll(o, p) THEN s.operators \cup {Pair(o, p)}
                                                ELSE s.operators \ {Pair(o, p)}
    BY <1>2 DEF FetchOperator, SetOperator, Good, NftState
  <2> HIDE DEF f
  <2>3. ASSUME NEW x \in AnyAddress, NEW y \in AnyAddress
        PROVE  OperatorSeen(f, x, y) <=> OperatorSeen(s, x, y)
    <3>1. CASE Pair(x, y) = Pair(o, p)
      <4>1. OperatorSlot(x, y) = OperatorSlot(o, p)
            /\ (isApprovedForAll(x, y) <=> isApprovedForAll(o, p))
        BY <3>1, SameSlotSameOperator
      <4>2. OperatorSeen(s, x, y) <=> isApprovedForAll(o, p)
        BY <1>2, <4>1 DEF OperatorSeen
      <4>3. OperatorSeen(f, x, y) <=> isApprovedForAll(o, p)
        BY <2>1, <2>2, <3>1, <4>1 DEF OperatorSeen
      <4> QED BY <4>2, <4>3
    <3>2. CASE Pair(x, y) # Pair(o, p)
      <4>1. OperatorSlot(x, y) # OperatorSlot(o, p)
        BY <3>2, SameSlotSameOperator
      <4>2. Pair(x, y) \in f.operators <=> Pair(x, y) \in s.operators
        BY <2>2, <3>2
      <4> QED BY <2>1, <4>1, <4>2 DEF OperatorSeen
    <3> QED BY <3>1, <3>2
  <2>4. SameOperators(s, f)
    BY <2>3 DEF SameOperators
  <2>5. SameView(s, f)
    BY FetchOperatorGood DEF f
  <2> QED BY <2>4, <2>5, SameShows DEF f
<1> QED BY <1>1, <1>2

LEMMA ApprovalsShow ==
    ASSUME IdsIdentifyAccounts, NEW s, Good(s), NEW o \in AnyAddress, NEW c \in AnyAddress,
           NEW n \in Stored
    PROVE  RegistryOf(Approvals(s, o, c, n)) = RegistryOf(s)
<1>1. PICK f : f = FetchApproved(s, n)
  OBVIOUS
<1>2. Good(f) /\ RegistryOf(f) = RegistryOf(s)
  BY <1>1, FetchApprovedGood, FetchApprovedShows
<1>3. RegistryOf(FetchOperator(f, o, c)) = RegistryOf(f)
  BY <1>2, FetchOperatorShows
<1> QED BY <1>1, <1>2, <1>3 DEF Approvals

\* What is read before a write: the same reads as in ReadsGood.
LEMMA ReadsShow ==
    ASSUME IdsIdentifyAccounts, NEW s, Good(s), NEW o \in AnyAddress, NEW c \in AnyAddress,
           NEW n \in Stored,
           NEW b, b = Reads(s, o, c, n)
    PROVE  RegistryOf(b) = RegistryOf(s)
<1>1. PICK f : f = FetchOwner(s, n)
  OBVIOUS
<1>2. Good(f) /\ RegistryOf(f) = RegistryOf(s)
  BY <1>1, FetchOwnerGood, FetchOwnerShows
<1>3. PICK a : a = IF c = o THEN f ELSE Approvals(f, o, c, n)
  OBVIOUS
<1>4. Good(a) /\ RegistryOf(a) = RegistryOf(s)
  BY <1>2, <1>3, ApprovalsGood, ApprovalsShow
<1>5. b = FetchApproved(a, n)
  BY <1>1, <1>3 DEF Reads
<1> QED BY <1>4, <1>5, FetchApprovedShows

-----------------------------------------------------------------------------
(* Writes.                                                                 *)

LEMMA RegistryType ==
    ASSUME NEW s
    PROVE  RegistryOf(s) = [owner |-> RegistryOf(s).owner, approved |-> RegistryOf(s).approved,
                            operators |-> RegistryOf(s).operators]
  BY DEF RegistryOf

LEMMA OperatorsShow ==
    ASSUME NEW s, NEW f, SameView(s, f)
    PROVE  RegistryOf(f) = [RegistryOf(s) EXCEPT !.operators = OperatorsSeen(f)]
<1>1. PICK owner : owner = [n \in Stored |-> OwnerSeen(s, n)]
  OBVIOUS
<1>2. owner = [n \in Stored |-> OwnerSeen(f, n)]
  BY <1>1 DEF SameView, SameAt
<1>3. PICK approved : approved = [n \in Stored |-> ApprovedSeen(s, n)]
  OBVIOUS
<1>4. approved = [n \in Stored |-> ApprovedSeen(f, n)]
  BY <1>3 DEF SameView, SameAt
<1>5. PICK ops, others : ops = OperatorsSeen(f) /\ others = OperatorsSeen(s)
  OBVIOUS
<1>6. RegistryOf(f) = [owner |-> owner, approved |-> approved, operators |-> ops]
  BY <1>2, <1>4, <1>5, Zenon DEF RegistryOf
<1>7. RegistryOf(s) = [owner |-> owner, approved |-> approved, operators |-> others]
  BY <1>1, <1>3, <1>5, Zenon DEF RegistryOf
<1> QED BY <1>5, <1>6, <1>7

LEMMA SetOperatorShows ==
    ASSUME IdsIdentifyAccounts, NEW s, Good(s), NEW o \in AnyAddress, NEW p \in AnyAddress,
           NEW yes \in BOOLEAN, OperatorSlot(o, p) \in s.scratch
    PROVE  RegistryOf(SetOperator(s, o, p, yes)) =
              [owner     |-> RegistryOf(s).owner,
               approved  |-> RegistryOf(s).approved,
               operators |-> IF yes THEN RegistryOf(s).operators \cup {Pair(o, p)}
                                    ELSE RegistryOf(s).operators \ {Pair(o, p)}]
<1> DEFINE f == SetOperator(s, o, p, yes)
<1>1. f.scratch = s.scratch
  BY DEF SetOperator, Good, NftState
<1>2. f.operators = IF yes THEN s.operators \cup {Pair(o, p)} ELSE s.operators \ {Pair(o, p)}
  BY DEF SetOperator, Good, NftState
<1>3. SameView(s, f)
  BY SetOperatorGood
<1> HIDE DEF f
<1>4. ASSUME NEW x \in AnyAddress, NEW y \in AnyAddress
      PROVE  OperatorSeen(f, x, y) <=>
                IF Pair(x, y) = Pair(o, p) THEN yes ELSE OperatorSeen(s, x, y)
  <2>1. CASE Pair(x, y) = Pair(o, p)
    <3>1. OperatorSlot(x, y) \in f.scratch
      BY <1>1, <2>1, SameSlotSameOperator
    <3> QED BY <1>2, <2>1, <3>1 DEF OperatorSeen
  <2>2. CASE Pair(x, y) # Pair(o, p)
    <3>1. Pair(x, y) \in f.operators <=> Pair(x, y) \in s.operators
      BY <1>2, <2>2
    <3> QED BY <1>1, <2>2, <3>1 DEF OperatorSeen
  <2> QED BY <2>1, <2>2
<1>5. OperatorsSeen(f) = IF yes THEN OperatorsSeen(s) \cup {Pair(o, p)}
                                ELSE OperatorsSeen(s) \ {Pair(o, p)}
  <2>1. ASSUME NEW k
        PROVE  OperatorsSeen(k) = {Pair(y[1], y[2]) :
                  y \in {z \in AnyAddress \X AnyAddress : OperatorSeen(k, z[1], z[2])}}
    BY DEF OperatorsSeen
  <2>2. ASSUME NEW k, NEW v
        PROVE  v \in OperatorsSeen(k) <=>
                  \E x, y \in AnyAddress : OperatorSeen(k, x, y) /\ v = Pair(x, y)
    <3>1. ASSUME v \in OperatorsSeen(k)
          PROVE  \E x, y \in AnyAddress : OperatorSeen(k, x, y) /\ v = Pair(x, y)
      <4>1. PICK z \in AnyAddress \X AnyAddress :
                    OperatorSeen(k, z[1], z[2]) /\ v = Pair(z[1], z[2])
        BY <3>1, <2>1
      <4> QED BY <4>1
    <3>2. ASSUME NEW x \in AnyAddress, NEW y \in AnyAddress,
                 OperatorSeen(k, x, y), v = Pair(x, y)
          PROVE  v \in OperatorsSeen(k)
      <4>1. <<x, y>> \in AnyAddress \X AnyAddress /\ <<x, y>>[1] = x /\ <<x, y>>[2] = y
        OBVIOUS
      <4> QED BY <2>1, <3>2, <4>1
    <3> QED BY <3>1, <3>2
  <2>3. CASE yes
    <3>1. \A v : v \in OperatorsSeen(f) <=> v \in OperatorsSeen(s) \/ v = Pair(o, p)
      BY <1>4, <2>2, <2>3
    <3> QED BY <2>3, <3>1
  <2>4. CASE ~yes
    <3>1. \A v : v \in OperatorsSeen(f) <=> v \in OperatorsSeen(s) /\ v # Pair(o, p)
      BY <1>4, <2>2, <2>4
    <3> QED BY <2>4, <3>1
  <2> QED BY <2>3, <2>4
<1> DEFINE ops == IF yes THEN OperatorsSeen(s) \cup {Pair(o, p)} ELSE OperatorsSeen(s) \ {Pair(o, p)}
<1>6. RegistryOf(f) = [RegistryOf(s) EXCEPT !.operators = ops]
  BY <1>3, <1>5, OperatorsShow
<1>7. RegistryOf(f) = [owner |-> RegistryOf(s).owner, approved |-> RegistryOf(s).approved,
                       operators |-> ops]
  BY <1>6, RegistryType
<1>8. RegistryOf(s).operators = OperatorsSeen(s)
  BY DEF RegistryOf
<1> QED BY <1>7, <1>8 DEF f

\* The write of _approve, and with the owner that of _transferNFT.
LEMMA WriteShows ==
    ASSUME NEW b, Good(b), NEW n \in Stored, NEW x \in AnyAddress, NEW y \in AnyAddress,
           OwnerOfSlot(n) \in b.scratch, GetApprovedSlot(n) \in b.scratch
    PROVE  RegistryOf(Written(b, n, x, y)) =
              [owner     |-> [RegistryOf(b).owner EXCEPT ![n] = y],
               approved  |-> [RegistryOf(b).approved EXCEPT ![n] = x],
               operators |-> RegistryOf(b).operators]
<1>1. PICK d : d = Written(b, n, x, y)
  OBVIOUS
<1>2. /\ ApprovedSeen(d, n) = x /\ OwnerSeen(d, n) = y
      /\ \A m \in Stored : m # n => OwnerSeen(d, m) = OwnerSeen(b, m)
                                   /\ ApprovedSeen(d, m) = ApprovedSeen(b, m)
  BY <1>1, WriteGood DEF SameAt
<1>3. d.operators = b.operators /\ d.scratch = b.scratch
  BY <1>1 DEF Written, Good, NftState
<1>4. OperatorsSeen(d) = OperatorsSeen(b)
  BY <1>3 DEF OperatorsSeen, OperatorSeen
<1>5. PICK owner, approved, ops :
         /\ owner = [m \in Stored |-> OwnerSeen(b, m)]
         /\ approved = [m \in Stored |-> ApprovedSeen(b, m)]
         /\ ops = OperatorsSeen(b)
  OBVIOUS
<1>6. RegistryOf(b) = [owner |-> owner, approved |-> approved, operators |-> ops]
  BY <1>5, Zenon DEF RegistryOf
<1>7. [m \in Stored |-> OwnerSeen(d, m)] = [owner EXCEPT ![n] = y]
  BY <1>2, <1>5
<1>8. [m \in Stored |-> ApprovedSeen(d, m)] = [approved EXCEPT ![n] = x]
  BY <1>2, <1>5
<1>9. RegistryOf(d) = [owner |-> [owner EXCEPT ![n] = y],
                       approved |-> [approved EXCEPT ![n] = x], operators |-> ops]
  BY <1>4, <1>5, <1>7, <1>8, Zenon DEF RegistryOf
<1> QED BY <1>1, <1>6, <1>9

-----------------------------------------------------------------------------
(* The guards.                                                             *)

LEMMA OperatorSeenIs ==
    ASSUME IdsIdentifyAccounts, NEW s, NEW o \in AnyAddress, NEW p \in AnyAddress
    PROVE  Pair(o, p) \in RegistryOf(s).operators <=> OperatorSeen(s, o, p)
<1>1. RegistryOf(s).operators = OperatorsSeen(s)
  BY DEF RegistryOf
<1>2. ASSUME OperatorSeen(s, o, p) PROVE Pair(o, p) \in OperatorsSeen(s)
  <2>1. <<o, p>> \in AnyAddress \X AnyAddress /\ <<o, p>>[1] = o /\ <<o, p>>[2] = p
    OBVIOUS
  <2> QED BY <1>2, <2>1 DEF OperatorsSeen
<1>3. ASSUME Pair(o, p) \in OperatorsSeen(s) PROVE OperatorSeen(s, o, p)
  <2>1. PICK z \in AnyAddress \X AnyAddress :
                OperatorSeen(s, z[1], z[2]) /\ Pair(z[1], z[2]) = Pair(o, p)
    BY <1>3, Zenon DEF OperatorsSeen
  <2>2. PICK x \in AnyAddress, y \in AnyAddress : x = z[1] /\ y = z[2]
    BY <2>1
  <2>3. OperatorSeen(s, x, y) /\ Pair(x, y) = Pair(o, p)
    BY <2>1, <2>2
  <2>4. OperatorSlot(x, y) = OperatorSlot(o, p) /\ (isApprovedForAll(x, y) <=> isApprovedForAll(o, p))
    BY <2>3, SameSlotSameOperator
  <2> QED BY <2>3, <2>4 DEF OperatorSeen
<1> QED BY <1>1, <1>2, <1>3

\* The contract asks for the operator only when the approval does not decide.
LEMMA IsApprovedIs ==
    ASSUME IdsIdentifyAccounts, NEW s, Good(s), NEW o \in AnyAddress, NEW c \in AnyAddress,
           NEW n \in Stored
    PROVE  IsApproved(s, o, c, n) <=> \/ RegistryOf(s).approved[n] = c
                                      \/ Pair(o, c) \in RegistryOf(s).operators
<1>1. PICK f : f = FetchApproved(s, n)
  OBVIOUS
<1>2. Good(f) /\ GetApprovedSlot(n) \in f.scratch /\ RegistryOf(f) = RegistryOf(s)
  BY <1>1, FetchApprovedGood, FetchApprovedShows
<1>3. RegistryOf(s).approved[n] = f.approved[n]
  <2>1. RegistryOf(f).approved[n] = ApprovedSeen(f, n)
    BY DEF RegistryOf
  <2> QED BY <1>2, <2>1 DEF ApprovedSeen
<1>4. CASE f.approved[n] = c
  <2>1. Approvals(s, o, c, n) = f
    BY <1>1, <1>4 DEF Approvals
  <2> QED BY <1>3, <1>4, <2>1 DEF IsApproved
<1>5. CASE f.approved[n] # c
  <2>1. PICK g : g = FetchOperator(f, o, c)
    OBVIOUS
  <2>2. Approvals(s, o, c, n) = g
    BY <1>1, <1>5, <2>1 DEF Approvals
  <2>3. /\ Good(g) /\ RegistryOf(g) = RegistryOf(s)
        /\ OperatorSlot(o, c) \in g.scratch /\ f.scratch \subseteq g.scratch
    BY <1>2, <2>1, FetchOperatorGood, FetchOperatorShows
  <2>4. Pair(o, c) \in RegistryOf(s).operators <=> Pair(o, c) \in g.operators
    BY <2>3, OperatorSeenIs DEF OperatorSeen
  <2>5. g.approved[n] = f.approved[n]
    BY <1>2, <2>1 DEF FetchOperator, SetOperator, Good, NftState
  <2> QED BY <1>3, <1>5, <2>2, <2>4, <2>5 DEF IsApproved
<1> QED BY <1>4, <1>5

LEMMA OwnerFetchedIs ==
    ASSUME NEW s, Good(s), NEW n \in Stored
    PROVE  /\ FetchOwner(s, n).owner[n] = RegistryOf(s).owner[n]
           /\ RegistryOf(s).owner[n] \in AnyAddress
<1>1. PICK f : f = FetchOwner(s, n)
  OBVIOUS
<1>2. Good(f) /\ OwnerOfSlot(n) \in f.scratch /\ RegistryOf(f) = RegistryOf(s)
  BY <1>1, FetchOwnerGood, FetchOwnerShows
<1>3. RegistryOf(f).owner[n] = f.owner[n]
  BY <1>2 DEF RegistryOf, OwnerSeen
<1> QED BY <1>1, <1>2, <1>3 DEF Good, NftState

\* _transferNFT and _approve let through whom the registry entitles, and no one
\* else, whatever was fetched before.
LEMMA GuardsAreTheRegistrys ==
    ASSUME IdsIdentifyAccounts, NEW s, Good(s), NEW c \in Addresses, NEW n \in Stored
    PROVE  /\ CanApprove(s, c, n) <=> Registry!Entitled(RegistryOf(s), c, n)
           /\ \A from, to \in AnyAddress :
                CanTransfer(s, c, from, to, n) <=>
                   /\ from # Zero /\ to # Zero /\ from = RegistryOf(s).owner[n]
                   /\ Registry!Entitled(RegistryOf(s), c, n)
<1>1. PICK f : f = FetchOwner(s, n)
  OBVIOUS
<1>2. Good(f) /\ RegistryOf(f) = RegistryOf(s)
  BY <1>1, FetchOwnerGood, FetchOwnerShows
<1>3. PICK r : r = RegistryOf(s)
  OBVIOUS
<1>4. f.owner[n] = r.owner[n] /\ r.owner[n] \in AnyAddress /\ c \in AnyAddress
  BY <1>1, <1>3, OwnerFetchedIs DEF AnyAddress
<1>5. IsApproved(f, r.owner[n], c, n) <=> r.approved[n] = c \/ Pair(r.owner[n], c) \in r.operators
  BY <1>2, <1>3, <1>4, IsApprovedIs
<1>6. Registry!Entitled(r, c, n) <=> c = r.owner[n] \/ IsApproved(f, r.owner[n], c, n)
  BY <1>5 DEF Registry!Entitled, Registry!MayApprove, Pair
<1>7. CanApprove(s, c, n) <=> c = f.owner[n] \/ IsApproved(f, f.owner[n], c, n)
  BY <1>1 DEF CanApprove
<1>8. ASSUME NEW from \in AnyAddress, NEW to \in AnyAddress
      PROVE  CanTransfer(s, c, from, to, n) <=>
                /\ from # Zero /\ to # Zero /\ f.owner[n] = from
                /\ c = from \/ IsApproved(f, from, c, n)
  BY <1>1 DEF CanTransfer
<1> QED BY <1>3, <1>4, <1>6, <1>7, <1>8

-----------------------------------------------------------------------------
(* The internal functions.                                                 *)

LEMMA TransferShows ==
    ASSUME IdsIdentifyAccounts, NEW s, Good(s), NEW c \in Addresses,
           NEW from \in AnyAddress, NEW to \in AnyAddress, NEW n \in Stored,
           NEW r, r = RegistryOf(s)
    PROVE  RegistryOf(AfterTransfer(s, c, from, to, n)) =
              [owner     |-> [r.owner EXCEPT ![n] = to],
               approved  |-> [r.approved EXCEPT ![n] = Zero],
               operators |-> IF c = from THEN r.operators ELSE r.operators \ {Pair(from, c)}]
<1>0. c \in AnyAddress /\ Zero \in AnyAddress
  BY DEF AnyAddress
<1>1. PICK b : b = Reads(s, from, c, n)
  OBVIOUS
<1>2. PICK d : d = Written(b, n, Zero, to)
  OBVIOUS
<1>3. AfterTransfer(s, c, from, to, n) =
         IF c = from THEN d ELSE SetOperator(FetchOperator(d, from, c), from, c, FALSE)
  BY <1>1, <1>2 DEF AfterTransfer, Reads, Written
<1>4. /\ Good(b) /\ OwnerOfSlot(n) \in b.scratch /\ GetApprovedSlot(n) \in b.scratch
      /\ RegistryOf(b) = r
  <2>1. Good(b) /\ OwnerOfSlot(n) \in b.scratch /\ GetApprovedSlot(n) \in b.scratch
    BY <1>0, <1>1, ReadsGood
  <2>2. RegistryOf(b) = RegistryOf(s)
    BY <1>0, <1>1, ReadsShow
  <2> QED BY <2>1, <2>2
<1>5. /\ Good(d)
      /\ RegistryOf(d) = [owner |-> [r.owner EXCEPT ![n] = to],
                          approved |-> [r.approved EXCEPT ![n] = Zero],
                          operators |-> r.operators]
  BY <1>0, <1>2, <1>4, WriteGood, WriteShows
<1>6. PICK g : g = FetchOperator(d, from, c)
  OBVIOUS
<1>7. Good(g) /\ OperatorSlot(from, c) \in g.scratch /\ RegistryOf(g) = RegistryOf(d)
  BY <1>0, <1>5, <1>6, FetchOperatorGood, FetchOperatorShows
<1>8. RegistryOf(SetOperator(g, from, c, FALSE)) =
         [owner     |-> RegistryOf(g).owner, approved |-> RegistryOf(g).approved,
          operators |-> RegistryOf(g).operators \ {Pair(from, c)}]
  BY <1>0, <1>7, SetOperatorShows
<1>9. CASE c = from
  BY <1>3, <1>5, <1>9
<1>10. CASE c # from
  <2>1. AfterTransfer(s, c, from, to, n) = SetOperator(g, from, c, FALSE)
    BY <1>3, <1>6, <1>10
  <2>2. /\ RegistryOf(g).owner = [r.owner EXCEPT ![n] = to]
        /\ RegistryOf(g).approved = [r.approved EXCEPT ![n] = Zero]
        /\ RegistryOf(g).operators = r.operators
    BY <1>5, <1>7
  <2> QED BY <1>8, <1>10, <2>1, <2>2
<1> QED BY <1>9, <1>10

LEMMA ApproveShows ==
    ASSUME IdsIdentifyAccounts, NEW s, Good(s), NEW c \in Addresses,
           NEW spender \in AnyAddress, NEW n \in Stored, NEW r, r = RegistryOf(s)
    PROVE  RegistryOf(AfterApprove(s, c, spender, n)) =
              [owner |-> r.owner, approved |-> [r.approved EXCEPT ![n] = spender],
               operators |-> r.operators]
<1>0. c \in AnyAddress
  BY DEF AnyAddress
<1>1. PICK o : o = FetchOwner(s, n).owner[n]
  OBVIOUS
<1>2. o \in AnyAddress
  BY <1>1, OwnerFetchedIs
<1>3. PICK b : b = Reads(s, o, c, n)
  OBVIOUS
<1>4. /\ Good(b) /\ OwnerOfSlot(n) \in b.scratch /\ GetApprovedSlot(n) \in b.scratch
      /\ RegistryOf(b) = r
  <2>1. Good(b) /\ OwnerOfSlot(n) \in b.scratch /\ GetApprovedSlot(n) \in b.scratch
    BY <1>0, <1>2, <1>3, ReadsGood
  <2>2. RegistryOf(b) = RegistryOf(s)
    BY <1>0, <1>2, <1>3, ReadsShow
  <2> QED BY <2>1, <2>2
<1>5. AfterApprove(s, c, spender, n) = [b EXCEPT !.approved[n] = spender]
  BY <1>1, <1>3 DEF AfterApprove, Reads
<1>6. Written(b, n, spender, b.owner[n]) = [b EXCEPT !.approved[n] = spender]
  BY <1>4 DEF Written, Good, NftState
<1>7. b.owner[n] \in AnyAddress
  BY <1>4 DEF Good, NftState
<1>8. r.owner[n] = b.owner[n]
  BY <1>4 DEF RegistryOf, OwnerSeen
<1>9. [r.owner EXCEPT ![n] = b.owner[n]] = r.owner
  <2>1. PICK owner : owner = [m \in Stored |-> OwnerSeen(s, m)]
    OBVIOUS
  <2>2. r.owner = owner
    BY <2>1 DEF RegistryOf
  <2> QED BY <1>8, <2>1, <2>2
<1>10. RegistryOf(Written(b, n, spender, b.owner[n])) =
          [owner |-> [r.owner EXCEPT ![n] = b.owner[n]],
           approved |-> [r.approved EXCEPT ![n] = spender], operators |-> r.operators]
  BY <1>4, <1>7, WriteShows
<1> QED BY <1>5, <1>6, <1>9, <1>10

-----------------------------------------------------------------------------
(* External calls.                                                         *)

\* A transfer in the terms of NftRegistry, but for the operator; it is entitled to.
Transferred(r, c, from, to, n) ==
    [owner     |-> [r.owner EXCEPT ![n] = to],
     approved  |-> [r.approved EXCEPT ![n] = Zero],
     operators |-> IF c = from THEN r.operators ELSE r.operators \ {Pair(from, c)}]

LEMMA TransferStep ==
    ASSUME IdsIdentifyAccounts, NEW s, Good(s), NEW c \in Addresses,
           NEW from \in AnyAddress, NEW to \in AnyAddress, NEW n \in Stored,
           CanTransfer(s, c, from, to, n)
    PROVE  /\ RegistryOf(AfterTransfer(s, c, from, to, n)) =
                 Transferred(RegistryOf(s), c, from, to, n)
           /\ RegistryOf(s).owner[n] # Zero /\ Registry!Entitled(RegistryOf(s), c, n)
           /\ to \in Addresses
<1>1. PICK r : r = RegistryOf(s)
  OBVIOUS
<1>2. RegistryOf(AfterTransfer(s, c, from, to, n)) = Transferred(r, c, from, to, n)
  BY <1>1, TransferShows DEF Transferred
<1>3. from # Zero /\ to # Zero /\ from = r.owner[n] /\ Registry!Entitled(r, c, n)
  BY <1>1, GuardsAreTheRegistrys
<1> QED BY <1>1, <1>2, <1>3 DEF AnyAddress

\* A registry's transfer to m, of which k has lost operators: those of the sender.
LEMMA TransferOrUse ==
    ASSUME NEW r, NEW m, NEW k, NEW c \in Addresses, caller' = c,
           m = [owner |-> m.owner, approved |-> m.approved, operators |-> r.operators],
           k = [owner |-> m.owner, approved |-> m.approved, operators |-> k.operators],
           k.operators \subseteq r.operators,
           r.operators \ k.operators \subseteq Ids \X {AccountId[c]},
           \/ \E n \in Stored : Registry!Transfer(r, m, c, n)
           \/ Registry!TransferTwice(r, m, c)
    PROVE  Registry!Step(r, k) \/ UsesUpOperator(r, k)
<1>1. PICK o, p, q, u : o = m.owner /\ p = m.approved /\ q = r.operators /\ u = k.operators
  OBVIOUS
<1>2. /\ m = [owner |-> o, approved |-> p, operators |-> q]
      /\ k = [owner |-> o, approved |-> p, operators |-> u]
  BY <1>1
<1>3. CASE u = q
  <2>1. k = m
    BY <1>2, <1>3
  <2> QED BY <2>1 DEF Registry!Step
<1>4. CASE u # q
  <2>1. [k EXCEPT !.operators = q] = m
    BY <1>2
  <2> QED BY <1>1, <1>4, <2>1 DEF UsesUpOperator
<1> QED BY <1>3, <1>4

LEMMA TransferNFTStep ==
    ASSUME IdsIdentifyAccounts, NEW s, Good(s), NEW c \in Addresses, caller' = c,
           NEW from \in AnyAddress, NEW to \in AnyAddress, NEW n \in Stored,
           CanTransfer(s, c, from, to, n), NEW k,
           k = RegistryOf(AfterTransfer(s, c, from, to, n))
    PROVE  Registry!Step(RegistryOf(s), k) \/ UsesUpOperator(RegistryOf(s), k)
<1>1. PICK r : r = RegistryOf(s)
  OBVIOUS
<1>2. /\ k = Transferred(r, c, from, to, n)
      /\ r.owner[n] # Zero /\ Registry!Entitled(r, c, n) /\ to \in Addresses
  BY <1>1, TransferStep
<1>3. PICK m : m = Registry!Moved(r, n, to)
  OBVIOUS
<1>4. m = [owner |-> [r.owner EXCEPT ![n] = to],
           approved |-> [r.approved EXCEPT ![n] = Zero], operators |-> r.operators]
  BY <1>3 DEF Registry!Moved
<1>5. Registry!Transfer(r, m, c, n)
  BY <1>2, <1>3 DEF Registry!Transfer
<1>6. /\ k.operators \subseteq r.operators
      /\ r.operators \ k.operators \subseteq Ids \X {AccountId[c]}
  BY <1>2 DEF Transferred, Pair, Ids
<1>7. k = [owner |-> m.owner, approved |-> m.approved, operators |-> k.operators]
  BY <1>2, <1>4 DEF Transferred
<1>8. m = [owner |-> m.owner, approved |-> m.approved, operators |-> r.operators]
  BY <1>4
<1> QED BY <1>1, <1>5, <1>6, <1>7, <1>8, TransferOrUse

LEMMA TransferNFTsStep ==
    ASSUME IdsIdentifyAccounts, NEW s, Good(s), NEW c \in Addresses, caller' = c,
           NEW f \in AnyAddress, NEW g \in AnyAddress, NEW n \in Stored,
           NEW x \in AnyAddress, NEW y \in AnyAddress, NEW j \in Stored,
           NEW first, first = AfterTransfer(s, c, f, g, n),
           CanTransfer(s, c, f, g, n), CanTransfer(first, c, x, y, j), NEW k,
           k = RegistryOf(AfterTransfer(first, c, x, y, j))
    PROVE  Registry!Step(RegistryOf(s), k) \/ UsesUpOperator(RegistryOf(s), k)
<1>1. PICK r : r = RegistryOf(s)
  OBVIOUS
<1>2. PICK r1 : r1 = RegistryOf(first)
  OBVIOUS
<1>3. /\ Good(first) /\ r1 = Transferred(r, c, f, g, n)
      /\ r.owner[n] # Zero /\ Registry!Entitled(r, c, n) /\ g \in Addresses
  <2>1. /\ RegistryOf(AfterTransfer(s, c, f, g, n)) = Transferred(RegistryOf(s), c, f, g, n)
        /\ RegistryOf(s).owner[n] # Zero /\ Registry!Entitled(RegistryOf(s), c, n)
        /\ g \in Addresses
    BY TransferStep
  <2>2. Good(AfterTransfer(s, c, f, g, n))
    BY TransferGood
  <2> QED BY <1>1, <1>2, <2>1, <2>2
<1>4. /\ k = Transferred(r1, c, x, y, j)
      /\ r1.owner[j] # Zero /\ Registry!Entitled(r1, c, j) /\ y \in Addresses
  <2>1. /\ RegistryOf(AfterTransfer(first, c, x, y, j)) = Transferred(RegistryOf(first), c, x, y, j)
        /\ RegistryOf(first).owner[j] # Zero /\ Registry!Entitled(RegistryOf(first), c, j)
        /\ y \in Addresses
    BY <1>3, TransferStep
  <2> QED BY <1>2, <2>1
<1>5. PICK via : via = Registry!Moved(r, n, g)
  OBVIOUS
<1>6. PICK m : m = Registry!Moved(via, j, y)
  OBVIOUS
<1>7. via = [owner |-> [r.owner EXCEPT ![n] = g],
             approved |-> [r.approved EXCEPT ![n] = Zero], operators |-> r.operators]
  BY <1>5 DEF Registry!Moved
<1>8. m = [owner |-> [via.owner EXCEPT ![j] = y],
           approved |-> [via.approved EXCEPT ![j] = Zero], operators |-> r.operators]
  BY <1>6, <1>7 DEF Registry!Moved
<1>9. r1.owner = via.owner /\ r1.approved = via.approved /\ r1.operators \subseteq via.operators
  BY <1>3, <1>7 DEF Transferred
<1>10. Registry!TransferTwice(r, m, c)
  <2>1. Registry!Transfer(r, via, c, n)
    BY <1>3, <1>5 DEF Registry!Transfer
  <2>2. via.owner[j] # Zero /\ Registry!Entitled(via, c, j)
    BY <1>4, <1>9 DEF Registry!Entitled, Registry!MayApprove
  <2>3. Registry!Transfer(via, m, c, j)
    BY <1>4, <1>6, <2>2 DEF Registry!Transfer
  <2> QED BY <1>3, <1>5, <2>1, <2>3 DEF Registry!TransferTwice
<1>11. /\ k.operators \subseteq r.operators
       /\ r.operators \ k.operators \subseteq Ids \X {AccountId[c]}
  <2>1. /\ k.operators \subseteq r1.operators /\ r1.operators \subseteq r.operators
        /\ r1.operators \ k.operators \subseteq Ids \X {AccountId[c]}
        /\ r.operators \ r1.operators \subseteq Ids \X {AccountId[c]}
    BY <1>3, <1>4 DEF Transferred, Pair, Ids
  <2> QED BY <2>1
<1>12. k = [owner |-> m.owner, approved |-> m.approved, operators |-> k.operators]
  <2>1. /\ k.owner = [r1.owner EXCEPT ![j] = y] /\ k.approved = [r1.approved EXCEPT ![j] = Zero]
        /\ k = [owner |-> k.owner, approved |-> k.approved, operators |-> k.operators]
    BY <1>4 DEF Transferred
  <2>2. m.owner = [via.owner EXCEPT ![j] = y] /\ m.approved = [via.approved EXCEPT ![j] = Zero]
    BY <1>8
  <2> QED BY <1>9, <2>1, <2>2
<1>13. m = [owner |-> m.owner, approved |-> m.approved, operators |-> r.operators]
  BY <1>8
<1> QED BY <1>1, <1>10, <1>11, <1>12, <1>13, TransferOrUse

LEMMA ApproveStep ==
    ASSUME IdsIdentifyAccounts, NEW s, Good(s), NEW c \in Addresses, caller' = c,
           NEW spender \in AnyAddress, NEW n \in Stored, CanApprove(s, c, n), NEW k,
           k = RegistryOf(AfterApprove(s, c, spender, n))
    PROVE  Registry!Step(RegistryOf(s), k) \/ HandsOn(RegistryOf(s), k)
<1>1. PICK r : r = RegistryOf(s)
  OBVIOUS
<1>2. k = [owner |-> r.owner, approved |-> [r.approved EXCEPT ![n] = spender],
           operators |-> r.operators]
  BY <1>1, ApproveShows
<1>3. k = [r EXCEPT !.approved[n] = spender]
  <2>1. r = [owner |-> r.owner, approved |-> r.approved, operators |-> r.operators]
    BY <1>1, RegistryType
  <2>2. PICK o, a, p : o = r.owner /\ a = r.approved /\ p = r.operators
    OBVIOUS
  <2>3. r = [owner |-> o, approved |-> a, operators |-> p]
    BY <2>1, <2>2
  <2>4. k = [owner |-> o, approved |-> [a EXCEPT ![n] = spender], operators |-> p]
    BY <1>2, <2>2
  <2> HIDE <2>1
  <2> QED BY <2>3, <2>4
<1>4. Registry!Entitled(r, c, n)
  BY <1>1, GuardsAreTheRegistrys
<1>5. CASE c = r.approved[n]
  BY <1>1, <1>3, <1>5 DEF HandsOn
<1>6. CASE Registry!MayApprove(r, c, n)
  <2>1. spender \in Registry!AnyAddress
    BY DEF Registry!AnyAddress, AnyAddress
  <2>2. Registry!Approve(r, k, c, n)
    BY <1>3, <1>6, <2>1 DEF Registry!Approve
  <2> QED BY <1>1, <2>2 DEF Registry!Step
<1> QED BY <1>4, <1>5, <1>6 DEF Registry!Entitled

LEMMA SetApprovalForAllStep ==
    ASSUME IdsIdentifyAccounts, NEW s, Good(s), NEW c \in Addresses,
           NEW p \in Addresses, NEW yes \in BOOLEAN
    PROVE  Registry!SetApprovalForAll(RegistryOf(s),
               RegistryOf(SetOperator(FetchOperator(s, c, p), c, p, yes)), c)
<1>0. c \in AnyAddress /\ p \in AnyAddress
  BY DEF AnyAddress
<1>1. PICK r : r = RegistryOf(s)
  OBVIOUS
<1>2. PICK g : g = FetchOperator(s, c, p)
  OBVIOUS
<1>3. Good(g) /\ OperatorSlot(c, p) \in g.scratch /\ RegistryOf(g) = r
  BY <1>0, <1>1, <1>2, FetchOperatorGood, FetchOperatorShows
<1>4. PICK k : k = RegistryOf(SetOperator(g, c, p, yes))
  OBVIOUS
<1>5. k = [owner |-> r.owner, approved |-> r.approved,
           operators |-> IF yes THEN r.operators \cup {Pair(c, p)} ELSE r.operators \ {Pair(c, p)}]
  BY <1>0, <1>3, <1>4, SetOperatorShows
<1>6. r = [owner |-> r.owner, approved |-> r.approved, operators |-> r.operators]
  BY <1>1, RegistryType
<1>7. k \in {[r EXCEPT !.operators = @ \cup {Pair(c, p)}],
             [r EXCEPT !.operators = @ \ {Pair(c, p)}]}
  BY <1>5, <1>6
<1> QED BY <1>1, <1>2, <1>4, <1>7 DEF Registry!SetApprovalForAll, Pair

-----------------------------------------------------------------------------
(* The refinement.                                                         *)

RegistrySteps(r, k) ==
    k = r \/ Registry!Step(r, k) \/ HandsOn(r, k) \/ UsesUpOperator(r, k)

\* One step for each action.  View calls fetch and nothing else.
LEMMA NextSteps ==
    ASSUME IdsIdentifyAccounts, IInv, Next
    PROVE  RegistrySteps(RegistryOf(nft), RegistryOf(nft'))
<1> PICK c \in Addresses :
       \/ \E from, to \in AnyAddress, n \in Serials : TransferNFT(c, from, to, n)
       \/ \E f, g, x, y \in AnyAddress, n, m \in Serials : TransferNFTs(c, f, g, n, x, y, m)
       \/ \E a \in AnyAddress, n \in Serials : ApproveNFT(c, a, n)
       \/ \E a \in AnyAddress, yes \in BOOLEAN : SetApprovalForAll(c, a, yes)
       \/ \E n \in Serials : OwnerOf(c, n) \/ GetApproved(c, n)
       \/ \E o, p \in Addresses : IsApprovedForAll(c, o, p)
  BY DEF Next
<1>0. /\ c \in AnyAddress /\ Addresses \subseteq AnyAddress
      /\ Good(nft) /\ \A n \in Serials : uint32(n) \in Stored
  BY DEF AnyAddress, IInv, Stored
<1>1. ASSUME NEW from \in AnyAddress, NEW to \in AnyAddress, NEW n \in Serials,
             TransferNFT(c, from, to, n)
      PROVE  RegistrySteps(RegistryOf(nft), RegistryOf(nft'))
  <2>1. PICK i \in Stored : i = uint32(n)
    BY <1>0
  <2>2. /\ CanTransfer(nft, c, from, to, i) /\ caller' = c
        /\ nft' = AfterTransfer(nft, c, from, to, i)
    BY <1>1, <2>1 DEF TransferNFT, Commit
  <2> QED BY <1>0, <2>2, TransferNFTStep DEF RegistrySteps
<1>2. ASSUME NEW f \in AnyAddress, NEW g \in AnyAddress, NEW x \in AnyAddress,
             NEW y \in AnyAddress, NEW n \in Serials, NEW m \in Serials,
             TransferNFTs(c, f, g, n, x, y, m)
      PROVE  RegistrySteps(RegistryOf(nft), RegistryOf(nft'))
  <2>1. PICK i \in Stored, j \in Stored : i = uint32(n) /\ j = uint32(m)
    BY <1>0
  <2>2. PICK first : first = AfterTransfer(nft, c, f, g, i)
    OBVIOUS
  <2>3. /\ CanTransfer(nft, c, f, g, i) /\ CanTransfer(first, c, x, y, j)
        /\ nft' = AfterTransfer(first, c, x, y, j) /\ caller' = c
    BY <1>2, <2>1, <2>2 DEF TransferNFTs, Commit
  <2> QED BY <1>0, <2>2, <2>3, TransferNFTsStep DEF RegistrySteps
<1>3. ASSUME NEW a \in AnyAddress, NEW n \in Serials, ApproveNFT(c, a, n)
      PROVE  RegistrySteps(RegistryOf(nft), RegistryOf(nft'))
  <2>1. PICK i \in Stored : i = uint32(n)
    BY <1>0
  <2>2. CanApprove(nft, c, i) /\ nft' = AfterApprove(nft, c, a, i) /\ caller' = c
    BY <1>3, <2>1 DEF ApproveNFT, Commit
  <2> QED BY <1>0, <2>2, ApproveStep DEF RegistrySteps
<1>4. ASSUME NEW a \in AnyAddress, NEW yes \in BOOLEAN, SetApprovalForAll(c, a, yes)
      PROVE  RegistrySteps(RegistryOf(nft), RegistryOf(nft'))
  <2>1. a \in Addresses /\ nft' = SetOperator(FetchOperator(nft, c, a), c, a, yes)
    BY <1>4 DEF SetApprovalForAll, Commit, AnyAddress
  <2>2. Registry!SetApprovalForAll(RegistryOf(nft), RegistryOf(nft'), c)
    BY <1>0, <2>1, SetApprovalForAllStep
  <2> QED BY <2>2 DEF RegistrySteps, Registry!Step
<1>5. ASSUME NEW n \in Serials, OwnerOf(c, n) \/ GetApproved(c, n)
      PROVE  RegistrySteps(RegistryOf(nft), RegistryOf(nft'))
  <2>1. PICK i \in Stored : i = uint32(n)
    BY <1>0
  <2>2. nft' = FetchOwner(nft, i) \/ nft' = FetchApproved(nft, i)
    BY <1>5, <2>1 DEF OwnerOf, GetApproved, Commit
  <2> QED BY <1>0, <2>2, FetchOwnerShows, FetchApprovedShows DEF RegistrySteps
<1>6. ASSUME NEW o \in Addresses, NEW p \in Addresses, IsApprovedForAll(c, o, p)
      PROVE  RegistrySteps(RegistryOf(nft), RegistryOf(nft'))
  <2>1. nft' = FetchOperator(nft, o, p)
    BY <1>6 DEF IsApprovedForAll, Commit
  <2> QED BY <1>0, <2>1, FetchOperatorShows DEF RegistrySteps
<1> QED BY <1>1, <1>2, <1>3, <1>4, <1>5, <1>6

LEMMA InitRegistry == Init => Registry!Init
<1> SUFFICES ASSUME Init PROVE Registry!Init
  OBVIOUS
<1>1. nft.scratch = {}
  BY DEF Init, EmptyNft
<1>2. \A n \in Stored : getNftOwner(n) \in AnyAddress /\ getNftSpender(n) \in AnyAddress
  BY NftAssumption DEF getNftOwner, getNftSpender, getAccountAddress, AnyAddress
<1>3. [n \in Stored |-> OwnerSeen(nft, n)] \in [Stored -> AnyAddress]
  BY <1>1, <1>2 DEF OwnerSeen
<1>4. [n \in Stored |-> ApprovedSeen(nft, n)] \in [Stored -> AnyAddress]
  BY <1>1, <1>2 DEF ApprovedSeen
<1>5. OperatorsSeen(nft) \subseteq Ids \X Ids
  BY OperatorSlotTypes DEF OperatorsSeen
<1>6. RegistryOf(nft) \in [owner : [Stored -> AnyAddress], approved : [Stored -> AnyAddress],
                           operators : SUBSET (Ids \X Ids)]
  BY <1>3, <1>4, <1>5 DEF RegistryOf
<1>7. Registry!AnyAddress = AnyAddress
  BY DEF Registry!AnyAddress, AnyAddress
<1> QED BY <1>6, <1>7, Zenon DEF Registry!Init, Ids

\* For any accounts, serials and content of the Mirror Node, as long as account
\* ids do not collide: in whatever order slots are first used, transfers,
\* approvals and view calls on the lazily filled storage are those of a registry
\* that had every owner, approval and operator from the start, but for the two
\* steps that are named: an approval handed on by the approved account (HandsOn,
\* _approve) and an operator removed by its own transfer (UsesUpOperator,
\* _transferNFT).
THEOREM RegistryImplemented ==
    ASSUME IdsIdentifyAccounts
    PROVE  Spec => ForkedNftIsRegistry
<1>1. ASSUME IInv, [Next]_vars
      PROVE  [Registry!Next \/ BeyondRegistry]_(RegistryOf(nft))
  <2>1. RegistryOf(nft)' = RegistryOf(nft')
    BY DEF RegistryOf, OperatorsSeen, OwnerSeen, ApprovedSeen, OperatorSeen
  <2>2. RegistrySteps(RegistryOf(nft), RegistryOf(nft'))
    <3>1. CASE Next
      BY <1>1, <3>1, NextSteps
    <3>2. CASE UNCHANGED vars
      BY <3>2 DEF vars, RegistrySteps
    <3> QED BY <1>1, <3>1, <3>2
  <2>3. CASE RegistryOf(nft') = RegistryOf(nft)
    BY <2>1, <2>3
  <2>4. CASE RegistryOf(nft') # RegistryOf(nft)
    BY <2>1, <2>2, <2>4 DEF RegistrySteps, Registry!Next, BeyondRegistry
  <2> QED BY <2>3, <2>4
<1> QED BY <1>1, InitIInv, NextIInv, InitRegistry, PTL DEF Spec, ForkedNftIsRegistry
=============================================================================
