-------------------------- MODULE FoundryInfo_proofs ---------------------------
(***************************************************************************)
(* Proofs about TokenInfo, continued: that no write of _initTokenData      *)
(* overlaps another one (InitNeat), so that in Foundry each field is read  *)
(* back where the getters look for it, and the theorems about what the     *)
(* getters show with both adapters.                                        *)
(*                                                                         *)
(* The last part is about created tokens. The words of one are the packing *)
(* of its own stores (Made), whose items stand after those of a remote     *)
(* token at its address; what push finds as the length of an array         *)
(* (Lengths, CreateMakes) and that later steps keep these words            *)
(* (CreatedInv) give what the getters show of it.                          *)
(***************************************************************************)
EXTENDS TokenInfo_proofs

-----------------------------------------------------------------------------
(* Foundry.  No write of _initTokenData overlaps another one, so what is   *)
(* read at the start of a write is its value.                              *)

Overlap(w, z) == w.slot = z.slot /\ (w.from = z.from \/ w.from \in z.from .. z.to)
IntPath(path) == \A k \in DOMAIN path : path[k] \in Int
Apart(writes) == \A w, z \in writes : Overlap(w, z) => w = z

\* The writes of one state slot and of the slots below it.
Neat(writes, g) ==
    /\ \A w \in writes : w.slot[1] = g /\ IntPath(w.path)
    /\ Apart(writes)
\* The writes of an item of so many slots from slot b on.
NeatItem(writes, g, b, size) ==
    /\ \A w \in writes : /\ Len(w.slot) \in {2, 3} /\ w.slot[1] = g /\ IntPath(w.path)
                         /\ w.slot[2] \in b .. b + size - 1
    /\ Apart(writes)

LEMMA NeatPath ==
  ASSUME NEW path, IntPath(path)
  PROVE  ~Before(path, path)
  BY DEF IntPath, Before

LEMMA ReadWrite ==
  ASSUME NEW writes, words = Written(writes), NEW w \in writes, IntPath(w.path),
         \A z \in writes : Overlap(w, z) \/ Overlap(z, w) => z = w
  PROVE  Read(w.slot, w.from) = w.value
<1> DEFINE v == <<w.from, w.value>>
           at == {x \in words[w.slot] : x[1] = w.from}
<1>1. w.slot \in DOMAIN words
  BY DEF Written
<1>2. Read(w.slot, w.from) = IF at = {} THEN Zero ELSE (CHOOSE x \in at : TRUE)[2]
  BY <1>1 DEF Read, ReadFrom
<1>3. words[w.slot] = {<<z.from, z.value>> : z \in {z \in writes : /\ z.slot = w.slot /\ z.value # Zero
                                                   /\ ~\E y \in writes : Replaces(y, z)}}
  BY DEF Written
<1>4. ASSUME NEW x \in at PROVE x = v /\ w.value # Zero
  <2>1. PICK z \in writes : x = <<z.from, z.value>> /\ z.slot = w.slot /\ z.value # Zero
    BY <1>3
  <2>2. z.from = w.from
    BY <2>1
  <2>3. z = w
    BY <2>1, <2>2 DEF Overlap
  <2> QED BY <2>1, <2>3
<1>5. \A y \in writes : ~Replaces(y, w)
  <2>1. SUFFICES ASSUME NEW y \in writes, Replaces(y, w) PROVE FALSE
    OBVIOUS
  <2>2. y = w
    BY <2>1 DEF Overlap, Replaces
  <2> QED BY <2>1, <2>2, NeatPath DEF Replaces
<1>6. w.value # Zero => v \in at
  <2>1. w.value # Zero => v \in words[w.slot]
    BY <1>3, <1>5
  <2> QED BY <2>1
<1>7. v[2] = w.value
  OBVIOUS
<1> HIDE DEF v, at
<1>8. CASE w.value = Zero
  BY <1>2, <1>4, <1>8
<1>9. CASE w.value # Zero
  <2>1. at = {v}
    BY <1>4, <1>6, <1>9
  <2> QED BY <1>2, <1>7, <2>1
<1> QED BY <1>8, <1>9

LEMMA WholeIs ==
  ASSUME NEW path, NEW slot, NEW value
  PROVE  LET w == Whole(path, slot, value)
         IN  /\ w.path = path /\ w.slot = slot /\ w.value = value
             /\ w.from = 0 /\ w.to = 31
  BY DEF Whole, Part

\* The writes of a string at a state slot, and at a slot of an item.
LEMMA TextWrites ==
  ASSUME NEW g \in Int, NEW str, IsText(str)
  PROVE  StoreBytes(<<g>>, <<g>>, str) =
            {Whole(<<g, 0>>, <<g>>, Inline(str))}
            \cup {Whole(<<g, k>>, <<g, k - 1>>, Chunk(str, k)) : k \in Chunks(str)}
<1>1. \A k \in Chunks(str) : k \in Int
  BY DEF Chunks, Ceil32, IsText
<1>2. \A k \in Chunks(str) : Append(<<g>>, k) = <<g, k>> /\ Plus(Keccak(<<g>>), k - 1) = <<g, k - 1>>
  BY <1>1, AppendOne, ChunkSlot
<1>3. Append(<<g>>, 0) = <<g, 0>>
  BY AppendOne
<1>4. {Whole(Append(<<g>>, k), Plus(Keccak(<<g>>), k - 1), Chunk(str, k)) : k \in Chunks(str)}
      = {Whole(<<g, k>>, <<g, k - 1>>, Chunk(str, k)) : k \in Chunks(str)}
  BY <1>2
<1> QED BY <1>3, <1>4 DEF StoreBytes

LEMMA TextNeat ==
  ASSUME NEW g \in Int, NEW str, IsText(str)
  PROVE  Neat(StoreBytes(<<g>>, <<g>>, str), g)
<1> DEFINE W == StoreBytes(<<g>>, <<g>>, str)
           head == Whole(<<g, 0>>, <<g>>, Inline(str))
           chunk(k) == Whole(<<g, k>>, <<g, k - 1>>, Chunk(str, k))
<1>1. \A k \in Chunks(str) : k \in Int
  BY DEF Chunks, Ceil32, IsText
<1>2. \A w \in W : w = head \/ \E k \in Chunks(str) : w = chunk(k)
  BY TextWrites
<1>3. head.slot = <<g>> /\ head.path = <<g, 0>> /\ Len(head.slot) = 1
  BY WholeIs
<1>4. \A k \in Int : chunk(k).slot = <<g, k - 1>> /\ chunk(k).path = <<g, k>> /\ Len(chunk(k).slot) = 2
  BY WholeIs
<1> HIDE DEF W, head, chunk
<1>5. \A w \in W : w.slot[1] = g /\ IntPath(w.path)
  BY <1>1, <1>2, <1>3, <1>4 DEF IntPath
<1>6. \A k, l \in Int : chunk(k).slot = chunk(l).slot => k = l
  <2>1. SUFFICES ASSUME NEW k \in Int, NEW l \in Int, chunk(k).slot = chunk(l).slot PROVE k = l
    OBVIOUS
  <2>2. chunk(k).slot[2] = k - 1 /\ chunk(l).slot[2] = l - 1
    BY <1>4
  <2> QED BY <2>1, <2>2
<1>7. Apart(W)
  BY <1>1, <1>2, <1>3, <1>4, <1>6 DEF Apart, Overlap
<1> QED BY <1>5, <1>7 DEF Neat, W

LEMMA ItemTextWrites ==
  ASSUME NEW g \in Int, NEW n \in Int, NEW c \in Int, NEW h \in Int, NEW str, IsText(str)
  PROVE  StoreBytes(Append(<<g, n>>, h), <<g, c>>, str) =
            {Whole(<<g, n, h, 0>>, <<g, c>>, Inline(str))}
            \cup {Whole(<<g, n, h, k>>, <<g, c, k - 1>>, Chunk(str, k)) : k \in Chunks(str)}
<1>1. \A k \in Chunks(str) : k \in Int
  BY DEF Chunks, Ceil32, IsText
<1>2. Append(<<g, n>>, h) = <<g, n, h>>
  BY AppendTwo
<1>3. \A k \in Chunks(str) : /\ Append(<<g, n, h>>, k) = <<g, n, h, k>>
                             /\ Plus(Keccak(<<g, c>>), k - 1) = <<g, c, k - 1>>
  BY <1>1, AppendThree, ItemChunkSlot
<1>4. Append(<<g, n, h>>, 0) = <<g, n, h, 0>>
  BY AppendThree
<1>5. {Whole(Append(<<g, n, h>>, k), Plus(Keccak(<<g, c>>), k - 1), Chunk(str, k)) : k \in Chunks(str)}
      = {Whole(<<g, n, h, k>>, <<g, c, k - 1>>, Chunk(str, k)) : k \in Chunks(str)}
  BY <1>3
<1> QED BY <1>2, <1>4, <1>5 DEF StoreBytes

\* The writes of an item's string are in one slot of it.
LEMMA ItemTextNeat ==
  ASSUME NEW g \in Int, NEW n \in Int, NEW c \in Int, NEW h \in Int, NEW str, IsText(str)
  PROVE  LET W == StoreBytes(Append(<<g, n>>, h), <<g, c>>, str)
         IN  /\ \A w \in W : /\ Len(w.slot) \in {2, 3} /\ w.slot[1] = g /\ w.slot[2] = c
                             /\ IntPath(w.path)
             /\ Apart(W)
<1> DEFINE W == StoreBytes(Append(<<g, n>>, h), <<g, c>>, str)
           head == Whole(<<g, n, h, 0>>, <<g, c>>, Inline(str))
           chunk(k) == Whole(<<g, n, h, k>>, <<g, c, k - 1>>, Chunk(str, k))
<1>1. \A k \in Chunks(str) : k \in Int
  BY DEF Chunks, Ceil32, IsText
<1>2. \A w \in W : w = head \/ \E k \in Chunks(str) : w = chunk(k)
  BY ItemTextWrites
<1>3. head.slot = <<g, c>> /\ head.path = <<g, n, h, 0>> /\ Len(head.slot) = 2
  BY WholeIs
<1>4. \A k \in Int : chunk(k).slot = <<g, c, k - 1>> /\ chunk(k).path = <<g, n, h, k>> /\ Len(chunk(k).slot) = 3
  BY WholeIs
<1> HIDE DEF W, head, chunk
<1>5. \A w \in W : /\ Len(w.slot) \in {2, 3} /\ w.slot[1] = g /\ w.slot[2] = c
                   /\ IntPath(w.path)
  <2>1. Len(head.slot) \in {2, 3} /\ head.slot[1] = g /\ head.slot[2] = c /\ IntPath(head.path)
    BY <1>3 DEF IntPath
  <2>2. ASSUME NEW k \in Int
        PROVE  Len(chunk(k).slot) \in {2, 3} /\ chunk(k).slot[1] = g /\ chunk(k).slot[2] = c
    BY <1>4
  <2>3. ASSUME NEW k \in Int
        PROVE  IntPath(chunk(k).path)
    <3>1. IntPath(<<g, n, h, k>>)
      BY DEF IntPath
    <3>2. chunk(k).path = <<g, n, h, k>>
      BY <1>4
    <3> QED BY <3>1, <3>2
  <2> QED BY <1>1, <1>2, <2>1, <2>2, <2>3
<1>6. \A k, l \in Int : chunk(k).slot = chunk(l).slot => k = l
  <2>1. SUFFICES ASSUME NEW k \in Int, NEW l \in Int, chunk(k).slot = chunk(l).slot PROVE k = l
    OBVIOUS
  <2>2. chunk(k).slot[3] = k - 1 /\ chunk(l).slot[3] = l - 1
    BY <1>4
  <2> QED BY <2>1, <2>2
<1>7. \A k \in Int : chunk(k).slot # head.slot
  <2>1. SUFFICES ASSUME NEW k \in Int, chunk(k).slot = head.slot PROVE FALSE
    OBVIOUS
  <2>2. Len(chunk(k).slot) = 3
    BY <1>4
  <2>3. Len(head.slot) = 2
    BY <1>3
  <2> QED BY <2>1, <2>2, <2>3
<1>8. Apart(W)
  BY <1>1, <1>2, <1>6, <1>7 DEF Apart, Overlap
<1> QED BY <1>5, <1>8 DEF W

LEMMA ArrayNeat ==
  ASSUME NEW g \in Int, NEW size \in {2, 3, 5}, NEW value, NEW list, IsList(list), NEW f,
         \A n \in DOMAIN list : NeatItem(f[n], g, (n - 1) * size, size)
  PROVE  Neat({Whole(<<g, 0>>, <<g>>, value)} \cup UNION {f[n] : n \in DOMAIN list}, g)
<1> DEFINE head == Whole(<<g, 0>>, <<g>>, value)
           W == {head} \cup UNION {f[n] : n \in DOMAIN list}
<1>1. head.slot = <<g>> /\ head.path = <<g, 0>> /\ Len(head.slot) = 1
  BY WholeIs
<1> HIDE DEF head
<1>2. \A w \in W : w = head \/ \E n \in DOMAIN list : w \in f[n]
  OBVIOUS
<1> HIDE DEF W
<1>3. \A n \in DOMAIN list : n \in Int
  BY DEF IsList
<1>4. \A w \in W : w.slot[1] = g /\ IntPath(w.path)
  BY <1>1, <1>2 DEF NeatItem, IntPath
<1>5. ASSUME NEW w \in W, NEW z \in W, Overlap(w, z)
      PROVE  w = z
  <2>1. CASE w = head \/ z = head
    BY <2>1, <1>1, <1>2, <1>5 DEF NeatItem, Overlap
  <2>2. CASE w # head /\ z # head
    <3>1. PICK n \in DOMAIN list : w \in f[n]
      BY <1>2, <2>2
    <3>2. PICK m \in DOMAIN list : z \in f[m]
      BY <1>2, <2>2
    <3> DEFINE x == w.slot[2]
    <3>3. x \in (n - 1) * size .. (n - 1) * size + size - 1
      BY <3>1 DEF NeatItem
    <3>4. z.slot[2] \in (m - 1) * size .. (m - 1) * size + size - 1
      BY <3>2 DEF NeatItem
    <3>5. x \in (m - 1) * size .. (m - 1) * size + size - 1
      BY <1>5, <3>4 DEF Overlap
    <3> HIDE DEF x
    <3>6. n = m
      <4>1. CASE size = 2
        BY <4>1, <3>3, <3>5, <1>3
      <4>2. CASE size = 3
        BY <4>2, <3>3, <3>5, <1>3
      <4>3. CASE size = 5
        BY <4>3, <3>3, <3>5, <1>3
      <4> QED BY <4>1, <4>2, <4>3
    <3> QED BY <1>5, <3>1, <3>2, <3>6 DEF NeatItem, Apart
  <2> QED BY <2>1, <2>2
<1> QED BY <1>4, <1>5 DEF Neat, Apart, W, head

LEMMA PartIs ==
  ASSUME NEW path, NEW slot, NEW offset \in Int, NEW bytes \in Int, NEW value
  PROVE  LET w == Part(path, slot, offset, bytes, value)
         IN  /\ w.path = path /\ w.slot = slot /\ w.value = value
             /\ w.from = offset /\ w.to = offset + bytes - 1
  BY DEF Part

LEMMA ItemPath ==
  ASSUME NEW g \in Int, NEW n \in Int, NEW h \in Int
  PROVE  IntPath(Append(<<g, n>>, h))
<1>1. Append(<<g, n>>, h) = <<g, n, h>>
  BY AppendTwo
<1>2. IntPath(<<g, n, h>>)
  BY DEF IntPath
<1> QED BY <1>1, <1>2

LEMMA FixedNeat ==
  ASSUME NEW g \in Int, NEW n \in Int, NEW b \in Int, NEW fee, NEW id, NEW u
  PROVE  NeatItem(FixedFeeWrites(<<g, n>>, <<g, b>>, fee, id, u), g, b, 2)
<1> DEFINE p == <<g, n>>
           s0 == <<g, b + 0>>
           s1 == <<g, b + 1>>
           e1 == Int64(Append(p, 1), s0, 0, fee.amount)
           e2 == Address(Append(p, 2), s0, 8, AddressOf(fee.denominating_token_id, u))
           e3 == Bool(Append(p, 3), s0, 28, fee.denominating_token_id = Null)
           e4 == Bool(Append(p, 4), s0, 29, fee.denominating_token_id = id)
           e5 == Whole(Append(p, 5), s1, AddressOf(fee.collector_account_id, u))
           W == FixedFeeWrites(p, <<g, b>>, fee, id, u)
<1>1. W = {e1, e2, e3, e4, e5}
  <2>1. Plus(<<g, b>>, 1) = s1 /\ <<g, b>> = s0
    BY PlusTwo
  <2> HIDE DEF s0, s1, p
  <2> QED BY <2>1 DEF FixedFeeWrites
<1>2. s0 # s1
  <2>1. s0[2] # s1[2]
    OBVIOUS
  <2> QED BY <2>1
<1> HIDE DEF s0, s1, p
<1>3. /\ e1.slot = s0 /\ e1.path = Append(p, 1) /\ e1.from = 0 /\ e1.to = 7
      /\ e2.slot = s0 /\ e2.path = Append(p, 2) /\ e2.from = 8 /\ e2.to = 27
      /\ e3.slot = s0 /\ e3.path = Append(p, 3) /\ e3.from = 28 /\ e3.to = 28
      /\ e4.slot = s0 /\ e4.path = Append(p, 4) /\ e4.from = 29 /\ e4.to = 29
      /\ e5.slot = s1 /\ e5.path = Append(p, 5) /\ e5.from = 0 /\ e5.to = 31
  BY DEF Int64, Address, Bool, Whole, Part
<1> HIDE DEF e1, e2, e3, e4, e5, W
<1>4. Apart(W)
  BY <1>1, <1>2, <1>3 DEF Apart, Overlap
<1>5. ASSUME NEW w \in W
      PROVE  /\ Len(w.slot) \in {2, 3} /\ w.slot[1] = g /\ IntPath(w.path)
             /\ w.slot[2] \in b .. b + 2 - 1
  <2>1. w.slot = s0 \/ w.slot = s1
    BY <1>1, <1>3
  <2>2. PICK d \in Int : w.slot = <<g, d>> /\ d \in b .. b + 1
    BY <2>1 DEF s0, s1
  <2>3. \/ w.path = Append(p, 1) \/ w.path = Append(p, 2) \/ w.path = Append(p, 3)
        \/ w.path = Append(p, 4) \/ w.path = Append(p, 5)
    BY <1>1, <1>3
  <2>4. PICK h \in Int : w.path = Append(<<g, n>>, h)
    BY <2>3 DEF p
  <2>5. Len(w.slot) \in {2, 3} /\ w.slot[1] = g /\ w.slot[2] = d
    BY <2>2
  <2>6. IntPath(w.path)
    <3>1. IntPath(Append(<<g, n>>, h))
      BY ItemPath
    <3> QED BY <3>1, <2>4
  <2> QED BY <2>2, <2>5, <2>6
<1> QED BY <1>4, <1>5 DEF NeatItem, W, p

LEMMA FractionalNeat ==
  ASSUME NEW g \in Int, NEW n \in Int, NEW b \in Int, NEW fee, NEW u
  PROVE  NeatItem(FractionalFeeWrites(<<g, n>>, <<g, b>>, fee, u), g, b, 2)
<1> DEFINE p == <<g, n>>
           s0 == <<g, b + 0>>
           s1 == <<g, b + 1>>
           e1 == Int64(Append(p, 1), s0, 0, fee.numerator)
           e2 == Int64(Append(p, 2), s0, 8, fee.denominator)
           e3 == Int64(Append(p, 3), s0, 16, fee.minimum)
           e4 == Int64(Append(p, 4), s0, 24, fee.maximum)
           e5 == Bool(Append(p, 5), s1, 0, fee.net_of_transfers = "true")
           e6 == Address(Append(p, 6), s1, 1, AddressOf(fee.collector_account_id, u))
           W == FractionalFeeWrites(p, <<g, b>>, fee, u)
<1>1. W = {e1, e2, e3, e4, e5, e6}
  <2>1. Plus(<<g, b>>, 1) = s1 /\ <<g, b>> = s0
    BY PlusTwo
  <2> HIDE DEF s0, s1, p
  <2> QED BY <2>1 DEF FractionalFeeWrites
<1>2. s0 # s1
  <2>1. s0[2] # s1[2]
    OBVIOUS
  <2> QED BY <2>1
<1> HIDE DEF s0, s1, p
<1>3. /\ e1.slot = s0 /\ e1.path = Append(p, 1) /\ e1.from = 0 /\ e1.to = 7
      /\ e2.slot = s0 /\ e2.path = Append(p, 2) /\ e2.from = 8 /\ e2.to = 15
      /\ e3.slot = s0 /\ e3.path = Append(p, 3) /\ e3.from = 16 /\ e3.to = 23
      /\ e4.slot = s0 /\ e4.path = Append(p, 4) /\ e4.from = 24 /\ e4.to = 31
      /\ e5.slot = s1 /\ e5.path = Append(p, 5) /\ e5.from = 0 /\ e5.to = 0
      /\ e6.slot = s1 /\ e6.path = Append(p, 6) /\ e6.from = 1 /\ e6.to = 20
  BY DEF Int64, Address, Bool, Part
<1> HIDE DEF e1, e2, e3, e4, e5, e6, W
<1>4. Apart(W)
  BY <1>1, <1>2, <1>3 DEF Apart, Overlap
<1>5. ASSUME NEW w \in W
      PROVE  /\ Len(w.slot) \in {2, 3} /\ w.slot[1] = g /\ IntPath(w.path)
             /\ w.slot[2] \in b .. b + 2 - 1
  <2>1. w.slot = s0 \/ w.slot = s1
    BY <1>1, <1>3
  <2>2. PICK d \in Int : w.slot = <<g, d>> /\ d \in b .. b + 2 - 1
    BY <2>1 DEF s0, s1
  <2>3. \/ w.path = Append(p, 1) \/ w.path = Append(p, 2) \/ w.path = Append(p, 3)
        \/ w.path = Append(p, 4) \/ w.path = Append(p, 5) \/ w.path = Append(p, 6)
    BY <1>1, <1>3
  <2>4. PICK h \in Int : w.path = Append(<<g, n>>, h)
    BY <2>3 DEF p
  <2>5. Len(w.slot) \in {2, 3} /\ w.slot[1] = g /\ w.slot[2] = d
    BY <2>2
  <2>6. IntPath(w.path)
    <3>1. IntPath(Append(<<g, n>>, h))
      BY ItemPath
    <3> QED BY <3>1, <2>4
  <2> QED BY <2>2, <2>5, <2>6
<1> QED BY <1>4, <1>5 DEF NeatItem, W, p

LEMMA RoyaltyNeat ==
  ASSUME NEW g \in Int, NEW n \in Int, NEW b \in Int, NEW fee, NEW u
  PROVE  NeatItem(RoyaltyFeeWrites(<<g, n>>, <<g, b>>, fee, u), g, b, 3)
<1> DEFINE p == <<g, n>>
           s0 == <<g, b + 0>>
           s1 == <<g, b + 1>>
           s2 == <<g, b + 2>>
           e1 == Int64(Append(p, 1), s0, 0, fee.numerator)
           e2 == Int64(Append(p, 2), s0, 8, fee.denominator)
           e3 == Int64(Append(p, 3), s0, 16, IF fee.fallback_fee = Null THEN 0 ELSE fee.fallback_fee.amount)
           e4 == Address(Append(p, 4), s1, 0, Zero)
           e5 == Bool(Append(p, 5), s1, 20, fee.collector_account_id = Null)
           e6 == Whole(Append(p, 6), s2, AddressOf(fee.collector_account_id, u))
           W == RoyaltyFeeWrites(p, <<g, b>>, fee, u)
<1>1. W = {e1, e2, e3, e4, e5, e6}
  <2>1. Plus(<<g, b>>, 1) = s1 /\ Plus(<<g, b>>, 2) = s2 /\ <<g, b>> = s0
    BY PlusTwo
  <2> HIDE DEF s0, s1, s2, p
  <2> QED BY <2>1 DEF RoyaltyFeeWrites
<1>2. s0 # s1 /\ s0 # s2 /\ s1 # s2
  <2>1. s0[2] # s1[2] /\ s0[2] # s2[2] /\ s1[2] # s2[2]
    OBVIOUS
  <2> QED BY <2>1
<1> HIDE DEF s0, s1, s2, p
<1>3. /\ e1.slot = s0 /\ e1.path = Append(p, 1) /\ e1.from = 0 /\ e1.to = 7
      /\ e2.slot = s0 /\ e2.path = Append(p, 2) /\ e2.from = 8 /\ e2.to = 15
      /\ e3.slot = s0 /\ e3.path = Append(p, 3) /\ e3.from = 16 /\ e3.to = 23
      /\ e4.slot = s1 /\ e4.path = Append(p, 4) /\ e4.from = 0 /\ e4.to = 19
      /\ e5.slot = s1 /\ e5.path = Append(p, 5) /\ e5.from = 20 /\ e5.to = 20
      /\ e6.slot = s2 /\ e6.path = Append(p, 6) /\ e6.from = 0 /\ e6.to = 31
  BY DEF Int64, Address, Bool, Whole, Part
<1> HIDE DEF e1, e2, e3, e4, e5, e6, W
<1>4. Apart(W)
  BY <1>1, <1>2, <1>3 DEF Apart, Overlap
<1>5. ASSUME NEW w \in W
      PROVE  /\ Len(w.slot) \in {2, 3} /\ w.slot[1] = g /\ IntPath(w.path)
             /\ w.slot[2] \in b .. b + 3 - 1
  <2>1. w.slot = s0 \/ w.slot = s1 \/ w.slot = s2
    BY <1>1, <1>3
  <2>2. PICK d \in Int : w.slot = <<g, d>> /\ d \in b .. b + 3 - 1
    BY <2>1 DEF s0, s1, s2
  <2>3. \/ w.path = Append(p, 1) \/ w.path = Append(p, 2) \/ w.path = Append(p, 3)
        \/ w.path = Append(p, 4) \/ w.path = Append(p, 5) \/ w.path = Append(p, 6)
    BY <1>1, <1>3
  <2>4. PICK h \in Int : w.path = Append(<<g, n>>, h)
    BY <2>3 DEF p
  <2>5. Len(w.slot) \in {2, 3} /\ w.slot[1] = g /\ w.slot[2] = d
    BY <2>2
  <2>6. IntPath(w.path)
    <3>1. IntPath(Append(<<g, n>>, h))
      BY ItemPath
    <3> QED BY <3>1, <2>4
  <2> QED BY <2>2, <2>5, <2>6
<1> QED BY <1>4, <1>5 DEF NeatItem, W, p

LEMMA KeyNeat ==
  ASSUME NEW g \in Int, NEW n \in Int, NEW b \in Int, NEW key, NEW type,
         IsText(BytesOf(key, "ED25519")), IsText(BytesOf(key, "ECDSA_SECP256K1"))
  PROVE  NeatItem(KeyWrites(<<g, n>>, <<g, b>>, key, type), g, b, 5)
<1> DEFINE p == <<g, n>>
           s0 == <<g, b + 0>>
           s1 == <<g, b + 1>>
           s2 == <<g, b + 2>>
           s3 == <<g, b + 3>>
           s4 == <<g, b + 4>>
           e1 == Whole(Append(p, 1), s0, Number(IF key = Null THEN 0 ELSE type))
           e2 == Bool(Append(p, 2), s1, 0, FALSE)
           e3 == Address(Append(p, 3), s1, 1, Zero)
           e6 == Whole(Append(p, 6), s4, Zero)
           T4 == StoreBytes(Append(p, 4), s2, BytesOf(key, "ED25519"))
           T5 == StoreBytes(Append(p, 5), s3, BytesOf(key, "ECDSA_SECP256K1"))
           W == KeyWrites(p, <<g, b>>, key, type)
<1>1. W = {e1, e2, e3, e6} \cup T4 \cup T5
  <2>1. /\ Plus(<<g, b>>, 1) = s1 /\ Plus(<<g, b>>, 2) = s2 /\ Plus(<<g, b>>, 3) = s3
        /\ Plus(<<g, b>>, 4) = s4 /\ <<g, b>> = s0
    <3>2. <<g, b>> = s0
      OBVIOUS
    <3>3. Plus(<<g, b>>, 1) = s1 /\ Plus(<<g, b>>, 2) = s2
      BY PlusTwo
    <3> DEFINE k == 3
               l == 4
    <3>4. k \in Int /\ l \in Int
      OBVIOUS
    <3> HIDE DEF k, l
    <3>5. Plus(<<g, b>>, k) = <<g, b + k>>
      BY <3>4, PlusTwo
    <3>6. Plus(<<g, b>>, l) = <<g, b + l>>
      BY <3>4, PlusTwo
    <3> QED BY <3>2, <3>3, <3>5, <3>6 DEF k, l
  <2> HIDE DEF s0, s1, s2, s3, s4, p
  <2> QED BY <2>1 DEF KeyWrites
<1>2. /\ \A w \in T4 : /\ Len(w.slot) \in {2, 3} /\ w.slot[1] = g /\ w.slot[2] = b + 2
                       /\ IntPath(w.path)
      /\ Apart(T4)
  <2> DEFINE c == b + 2
             h == 4
  <2>1. c \in Int /\ h \in Int
    OBVIOUS
  <2> HIDE DEF c, h
  <2>2. LET V == StoreBytes(Append(<<g, n>>, h), <<g, c>>, BytesOf(key, "ED25519"))
        IN  /\ \A w \in V : /\ Len(w.slot) \in {2, 3} /\ w.slot[1] = g /\ w.slot[2] = c
                            /\ IntPath(w.path)
            /\ Apart(V)
    BY <2>1, ItemTextNeat
  <2> QED BY <2>2 DEF c, h
<1>3. /\ \A w \in T5 : /\ Len(w.slot) \in {2, 3} /\ w.slot[1] = g /\ w.slot[2] = b + 3
                       /\ IntPath(w.path)
      /\ Apart(T5)
  <2> DEFINE c == b + 3
             h == 5
  <2>1. c \in Int /\ h \in Int
    OBVIOUS
  <2> HIDE DEF c, h
  <2>2. LET V == StoreBytes(Append(<<g, n>>, h), <<g, c>>, BytesOf(key, "ECDSA_SECP256K1"))
        IN  /\ \A w \in V : /\ Len(w.slot) \in {2, 3} /\ w.slot[1] = g /\ w.slot[2] = c
                            /\ IntPath(w.path)
            /\ Apart(V)
    BY <2>1, ItemTextNeat
  <2> QED BY <2>2 DEF c, h
<1>4. /\ e1.slot[2] = b + 0 /\ e2.slot[2] = b + 1 /\ e3.slot[2] = b + 1 /\ e6.slot[2] = b + 4
      /\ e2.slot = e3.slot
      /\ e1.slot \in {s0, s1, s4} /\ e2.slot \in {s0, s1, s4} /\ e3.slot \in {s0, s1, s4} /\ e6.slot \in {s0, s1, s4}
      /\ e2.from = 0 /\ e2.to = 0 /\ e3.from = 1 /\ e3.to = 20
  BY DEF Whole, Bool, Address, Part
<1>5. /\ e1.path = Append(p, 1) /\ e2.path = Append(p, 2) /\ e3.path = Append(p, 3) /\ e6.path = Append(p, 6)
  BY DEF Whole, Bool, Address, Part
<1>6. \A s \in {s0, s1, s4} : Len(s) = 2 /\ s[1] = g
  OBVIOUS
<1>7. IntPath(Append(p, 1)) /\ IntPath(Append(p, 2)) /\ IntPath(Append(p, 3)) /\ IntPath(Append(p, 6))
  BY ItemPath
<1> HIDE DEF s0, s1, s2, s3, s4, p, e1, e2, e3, e6, T4, T5, W
<1>8. \A w \in W : \/ w \in {e1, e2, e3, e6}
                   \/ w \in T4 /\ w.slot[2] = b + 2
                   \/ w \in T5 /\ w.slot[2] = b + 3
  BY <1>1, <1>2, <1>3
<1>9. Apart(W)
  <2>1. SUFFICES ASSUME NEW w \in W, NEW z \in W, Overlap(w, z) PROVE w = z
    BY DEF Apart
  <2>2. w.slot = z.slot
    BY <2>1 DEF Overlap
  <2>3. w.slot[2] = z.slot[2]
    BY <2>2
  <2>4. CASE w \in T4
    BY <2>1, <2>3, <2>4, <1>2, <1>4, <1>8 DEF Apart
  <2>5. CASE w \in T5
    BY <2>1, <2>3, <2>5, <1>3, <1>2, <1>4, <1>8 DEF Apart
  <2>6. CASE w \in {e1, e2, e3, e6}
    <3>1. z \in {e1, e2, e3, e6}
      BY <2>3, <2>6, <1>4, <1>8
    <3> QED BY <2>1, <2>3, <2>6, <3>1, <1>4 DEF Overlap
  <2> QED BY <2>4, <2>5, <2>6, <1>8
<1>10. ASSUME NEW w \in W
       PROVE  /\ Len(w.slot) \in {2, 3} /\ w.slot[1] = g /\ IntPath(w.path)
              /\ w.slot[2] \in b .. b + 5 - 1
  <2>1. CASE w \in {e1, e2, e3, e6}
    <3>1. w.slot \in {s0, s1, s4} /\ w.slot[2] \in {b + 0, b + 1, b + 4}
      BY <2>1, <1>4
    <3>2. IntPath(w.path)
      BY <2>1, <1>5, <1>7
    <3> QED BY <3>1, <3>2, <1>6
  <2>2. CASE w \in T4
    BY <2>2, <1>2
  <2>3. CASE w \in T5
    BY <2>3, <1>3
  <2> QED BY <2>1, <2>2, <2>3, <1>8
<1> QED BY <1>9, <1>10 DEF NeatItem, W, p

\* The writes of each state slot.
Group(g, u) ==
    CASE g = 0  -> StoreBytes(<<0>>, <<0>>, remote.type)
      [] g = 1  -> {Whole(<<1>>, <<1>>, Number(remote.decimals))}
      [] g = 2  -> StoreBytes(<<2>>, <<2>>, remote.name)
      [] g = 3  -> StoreBytes(<<3>>, <<3>>, remote.symbol)
      [] g = 4  -> {Whole(<<4>>, <<4>>, AddressOf(remote.treasury_account_id, u))}
      [] g = 5  -> StoreBytes(<<5>>, <<5>>, remote.memo)
      [] g = 6  -> { Bool(<<6, 1>>, <<6>>, 0, remote.supply_type = "FINITE"),
                     Int64(<<6, 2>>, <<6>>, 1, remote.max_supply),
                     Bool(<<6, 3>>, <<6>>, 9, remote.freeze_default = "true") }
      [] g = 7  -> InitKeys
      [] g = 8  -> { Int64(<<8, 1>>, <<8>>, 0, remote.expiry_timestamp \div NanosPerSecond),
                     Address(<<8, 2>>, <<8>>, 8, AddressOf(remote.auto_renew_account, u)) }
      [] g = 9  -> {Whole(<<9>>, <<9>>, Amount(remote.auto_renew_period))}
      [] g = 10 -> { Int64(<<10, 1>>, <<10>>, 0, remote.total_supply),
                     Bool(<<10, 2>>, <<10>>, 8, remote.deleted = "true"),
                     Bool(<<10, 3>>, <<10>>, 9, FALSE),
                     Bool(<<10, 4>>, <<10>>, 10, remote.pause_status = "PAUSED") }
      [] g = 11 -> InitFixedFees(u)
      [] g = 12 -> InitFractionalFees(u)
      [] g = 13 -> InitRoyaltyFees(u)
      [] g = 14 -> StoreBytes(<<14>>, <<14>>, LedgerId)

LEMMA Grouped ==
  ASSUME NEW u
  PROVE  \A w : w \in InitWrites(u) <=> \E g \in 0 .. 14 : w \in Group(g, u)
<1> SUFFICES ASSUME NEW w
             PROVE  w \in InitWrites(u) <=> \E g \in 0 .. 14 : w \in Group(g, u)
  OBVIOUS
<1>1. w \in InitWrites(u) <=>
         \/ w \in Group(0, u) \/ w \in Group(1, u) \/ w \in Group(2, u) \/ w \in Group(3, u)
         \/ w \in Group(4, u) \/ w \in Group(5, u) \/ w \in Group(6, u) \/ w \in Group(7, u)
         \/ w \in Group(8, u) \/ w \in Group(9, u) \/ w \in Group(10, u) \/ w \in Group(11, u)
         \/ w \in Group(12, u) \/ w \in Group(13, u) \/ w \in Group(14, u)
  BY DEF InitWrites, Group
<1>2. \A g \in 0 .. 14 : g \in {0, 1, 2, 3, 4, 5, 6, 7, 8, 9, 10, 11, 12, 13, 14}
  OBVIOUS
<1> QED BY <1>1, <1>2

LEMMA FixedGroup ==
  ASSUME IsToken(remote), NEW u, NEW g, g = 11
  PROVE  Neat(InitFixedFees(u), g)
<1> DEFINE fees == FeesOf("fixed_fees")
           size == 2
           value == Number(Len(fees))
           f == [n \in DOMAIN fees |-> FixedFeeWrites(<<g, n>>, <<g, (n - 1) * size>>, fees[n], remote.token_id, u)]
<1>1. IsList(fees)
  BY FeeSizes DEF FeesOf
<1>2. \A n \in DOMAIN fees : n \in Int
  BY <1>1 DEF IsList
<1>3. g \in Int
  OBVIOUS
<1>4. \A n \in DOMAIN fees : ItemSlot(<<g>>, n, size) = <<g, (n - 1) * size>>
  BY <1>2, <1>3, ItemSlotIs
<1>5. InitFixedFees(u) = {Whole(<<g, 0>>, <<g>>, value)} \cup UNION {f[n] : n \in DOMAIN fees}
  BY <1>4 DEF InitFixedFees
<1>6. ASSUME NEW n \in DOMAIN fees
      PROVE  NeatItem(f[n], g, (n - 1) * size, size)
  <2> DEFINE b == (n - 1) * size
  <2>1. b \in Int
    BY <1>2
  <2>2. f[n] = FixedFeeWrites(<<g, n>>, <<g, b>>, fees[n], remote.token_id, u)
    OBVIOUS
  <2> HIDE DEF f, fees, b
  <2> QED BY <1>2, <1>3, <2>1, <2>2, FixedNeat DEF b
<1>7. size \in {2, 3, 5}
  OBVIOUS
<1> HIDE DEF f, fees, size, value
<1>8. Neat({Whole(<<g, 0>>, <<g>>, value)} \cup UNION {f[n] : n \in DOMAIN fees}, g)
  BY <1>1, <1>3, <1>6, <1>7, ArrayNeat
<1> QED BY <1>5, <1>8

LEMMA FractionalGroup ==
  ASSUME IsToken(remote), NEW u, NEW g, g = 12
  PROVE  Neat(InitFractionalFees(u), g)
<1> DEFINE fees == FeesOf("fractional_fees")
           size == 2
           value == Number(Len(fees))
           f == [n \in DOMAIN fees |-> FractionalFeeWrites(<<g, n>>, <<g, (n - 1) * size>>, fees[n], u)]
<1>1. IsList(fees)
  BY FeeSizes DEF FeesOf
<1>2. \A n \in DOMAIN fees : n \in Int
  BY <1>1 DEF IsList
<1>3. g \in Int
  OBVIOUS
<1>4. \A n \in DOMAIN fees : ItemSlot(<<g>>, n, size) = <<g, (n - 1) * size>>
  BY <1>2, <1>3, ItemSlotIs
<1>5. InitFractionalFees(u) = {Whole(<<g, 0>>, <<g>>, value)} \cup UNION {f[n] : n \in DOMAIN fees}
  BY <1>4 DEF InitFractionalFees
<1>6. ASSUME NEW n \in DOMAIN fees
      PROVE  NeatItem(f[n], g, (n - 1) * size, size)
  <2> DEFINE b == (n - 1) * size
  <2>1. b \in Int
    BY <1>2
  <2>2. f[n] = FractionalFeeWrites(<<g, n>>, <<g, b>>, fees[n], u)
    OBVIOUS
  <2> HIDE DEF f, fees, b
  <2> QED BY <1>2, <1>3, <2>1, <2>2, FractionalNeat DEF b
<1>7. size \in {2, 3, 5}
  OBVIOUS
<1> HIDE DEF f, fees, size, value
<1>8. Neat({Whole(<<g, 0>>, <<g>>, value)} \cup UNION {f[n] : n \in DOMAIN fees}, g)
  BY <1>1, <1>3, <1>6, <1>7, ArrayNeat
<1> QED BY <1>5, <1>8

LEMMA RoyaltyGroup ==
  ASSUME IsToken(remote), NEW u, NEW g, g = 13
  PROVE  Neat(InitRoyaltyFees(u), g)
<1> DEFINE fees == FeesOf("royalty_fees")
           size == 3
           value == Number(Len(fees))
           f == [n \in DOMAIN fees |-> RoyaltyFeeWrites(<<g, n>>, <<g, (n - 1) * size>>, fees[n], u)]
<1>1. IsList(fees)
  BY FeeSizes DEF FeesOf
<1>2. \A n \in DOMAIN fees : n \in Int
  BY <1>1 DEF IsList
<1>3. g \in Int
  OBVIOUS
<1>4. \A n \in DOMAIN fees : ItemSlot(<<g>>, n, size) = <<g, (n - 1) * size>>
  BY <1>2, <1>3, ItemSlotIs
<1>5. InitRoyaltyFees(u) = {Whole(<<g, 0>>, <<g>>, value)} \cup UNION {f[n] : n \in DOMAIN fees}
  BY <1>4 DEF InitRoyaltyFees
<1>6. ASSUME NEW n \in DOMAIN fees
      PROVE  NeatItem(f[n], g, (n - 1) * size, size)
  <2> DEFINE b == (n - 1) * size
  <2>1. b \in Int
    BY <1>2
  <2>2. f[n] = RoyaltyFeeWrites(<<g, n>>, <<g, b>>, fees[n], u)
    OBVIOUS
  <2> HIDE DEF f, fees, b
  <2> QED BY <1>2, <1>3, <2>1, <2>2, RoyaltyNeat DEF b
<1>7. size \in {2, 3, 5}
  OBVIOUS
<1> HIDE DEF f, fees, size, value
<1>8. Neat({Whole(<<g, 0>>, <<g>>, value)} \cup UNION {f[n] : n \in DOMAIN fees}, g)
  BY <1>1, <1>3, <1>6, <1>7, ArrayNeat
<1> QED BY <1>5, <1>8

LEMMA BytesTexts ==
  ASSUME IsToken(remote), NEW n \in 1 .. 7, NEW kind
  PROVE  IsText(BytesOf(remote[KeyTypes[n][1]], kind))
<1> DEFINE key == remote[KeyTypes[n][1]]
<1>1. key = Null \/ IsText(key.key)
  BY KeyTypesAre DEF IsToken
<1>2. IsText(Empty)
  BY DEF IsText, Empty
<1> HIDE DEF key
<1>3. IsText(BytesOf(key, kind))
  BY <1>1, <1>2 DEF BytesOf
<1> QED BY <1>3 DEF key

LEMMA KeyGroup ==
  ASSUME IsToken(remote), NEW g, g = 7
  PROVE  Neat(InitKeys, g)
<1> DEFINE size == 5
           value == Number(Len(KeyTypes))
           f == [n \in DOMAIN KeyTypes |->
                    KeyWrites(<<g, n>>, <<g, (n - 1) * size>>, remote[KeyTypes[n][1]], KeyTypes[n][2])]
<1>1. IsList(KeyTypes)
  BY DEF IsList, KeyTypes
<1>2. DOMAIN KeyTypes = 1 .. 7
  BY KeyTypesAre
<1>3. g \in Int
  OBVIOUS
<1>4. \A n \in DOMAIN KeyTypes : ItemSlot(<<g>>, n, size) = <<g, (n - 1) * size>>
  BY <1>2, <1>3, ItemSlotIs
<1>5. InitKeys = {Whole(<<g, 0>>, <<g>>, value)} \cup UNION {f[n] : n \in DOMAIN KeyTypes}
  BY <1>4 DEF InitKeys
<1>6. ASSUME NEW n \in DOMAIN KeyTypes
      PROVE  NeatItem(f[n], g, (n - 1) * size, size)
  <2> DEFINE b == (n - 1) * size
             key == remote[KeyTypes[n][1]]
             type == KeyTypes[n][2]
  <2>1. b \in Int /\ n \in Int
    BY <1>2
  <2>2. f[n] = KeyWrites(<<g, n>>, <<g, b>>, key, type)
    OBVIOUS
  <2>3. IsText(BytesOf(key, "ED25519")) /\ IsText(BytesOf(key, "ECDSA_SECP256K1"))
    BY <1>2, BytesTexts
  <2> HIDE DEF f, b, key, type
  <2> QED BY <1>3, <2>1, <2>2, <2>3, KeyNeat DEF b
<1>7. size \in {2, 3, 5}
  OBVIOUS
<1> HIDE DEF f, size, value
<1>8. Neat({Whole(<<g, 0>>, <<g>>, value)} \cup UNION {f[n] : n \in DOMAIN KeyTypes}, g)
  BY <1>1, <1>3, <1>6, <1>7, ArrayNeat
<1> QED BY <1>5, <1>8

LEMMA OneWrite ==
  ASSUME NEW g \in Int, NEW value
  PROVE  Neat({Whole(<<g>>, <<g>>, value)}, g)
<1> DEFINE w == Whole(<<g>>, <<g>>, value)
<1>1. w.slot = <<g>> /\ w.path = <<g>>
  BY WholeIs
<1> HIDE DEF w
<1>2. Neat({w}, g)
  BY <1>1 DEF Neat, IntPath, Apart
<1> QED BY <1>2 DEF w

LEMMA PackedGroups ==
  ASSUME NEW u
  PROVE  Neat(Group(6, u), 6) /\ Neat(Group(8, u), 8) /\ Neat(Group(10, u), 10)
<1>1. Neat(Group(6, u), 6)
  <2> DEFINE x == Bool(<<6, 1>>, <<6>>, 0, remote.supply_type = "FINITE")
             y == Int64(<<6, 2>>, <<6>>, 1, remote.max_supply)
             z == Bool(<<6, 3>>, <<6>>, 9, remote.freeze_default = "true")
  <2>1. /\ x.slot = <<6>> /\ x.from = 0 /\ x.to = 0 /\ y.slot = <<6>> /\ y.from = 1 /\ y.to = 8
        /\ z.slot = <<6>> /\ z.from = 9 /\ z.to = 9
    BY DEF Bool, Int64, Part
  <2>2. x.path = <<6, 1>> /\ y.path = <<6, 2>> /\ z.path = <<6, 3>>
    BY DEF Bool, Int64, Part
  <2>3. Group(6, u) = {x, y, z}
    BY DEF Group
  <2> HIDE DEF x, y, z
  <2>4. Apart({x, y, z})
    BY <2>1 DEF Apart, Overlap
  <2>5. \A w \in {x, y, z} : w.slot[1] = 6 /\ IntPath(w.path)
    BY <2>1, <2>2 DEF IntPath
  <2> QED BY <2>3, <2>4, <2>5 DEF Neat
<1>2. Neat(Group(8, u), 8)
  <2> DEFINE x == Int64(<<8, 1>>, <<8>>, 0, remote.expiry_timestamp \div NanosPerSecond)
             y == Address(<<8, 2>>, <<8>>, 8, AddressOf(remote.auto_renew_account, u))
  <2>1. x.slot = <<8>> /\ x.from = 0 /\ x.to = 7 /\ y.slot = <<8>> /\ y.from = 8 /\ y.to = 27
    BY DEF Address, Int64, Part
  <2>2. x.path = <<8, 1>> /\ y.path = <<8, 2>>
    BY DEF Address, Int64, Part
  <2>3. Group(8, u) = {x, y}
    BY DEF Group
  <2> HIDE DEF x, y
  <2>4. Apart({x, y})
    BY <2>1 DEF Apart, Overlap
  <2>5. \A w \in {x, y} : w.slot[1] = 8 /\ IntPath(w.path)
    BY <2>1, <2>2 DEF IntPath
  <2> QED BY <2>3, <2>4, <2>5 DEF Neat
<1>3. Neat(Group(10, u), 10)
  <2> DEFINE x == Int64(<<10, 1>>, <<10>>, 0, remote.total_supply)
             y == Bool(<<10, 2>>, <<10>>, 8, remote.deleted = "true")
             z == Bool(<<10, 3>>, <<10>>, 9, FALSE)
             v == Bool(<<10, 4>>, <<10>>, 10, remote.pause_status = "PAUSED")
  <2>1. /\ x.slot = <<10>> /\ x.from = 0 /\ x.to = 7 /\ y.slot = <<10>> /\ y.from = 8 /\ y.to = 8
        /\ z.slot = <<10>> /\ z.from = 9 /\ z.to = 9 /\ v.slot = <<10>> /\ v.from = 10 /\ v.to = 10
    BY DEF Bool, Int64, Part
  <2>2. x.path = <<10, 1>> /\ y.path = <<10, 2>> /\ z.path = <<10, 3>> /\ v.path = <<10, 4>>
    BY DEF Bool, Int64, Part
  <2>3. Group(10, u) = {x, y, z, v}
    BY DEF Group
  <2> HIDE DEF x, y, z, v
  <2>4. Apart({x, y, z, v})
    BY <2>1 DEF Apart, Overlap
  <2>5. \A w \in {x, y, z, v} : w.slot[1] = 10 /\ IntPath(w.path)
    BY <2>1, <2>2 DEF IntPath
  <2> QED BY <2>3, <2>4, <2>5 DEF Neat
<1> QED BY <1>1, <1>2, <1>3

LEMMA InitNeat ==
  ASSUME IsToken(remote), NEW u, NEW g \in 0 .. 14
  PROVE  Neat(Group(g, u), g)
<1>1. CASE g \in {0, 2, 3, 5, 14}
  <2>1. \A str : IsText(str) => Neat(StoreBytes(<<g>>, <<g>>, str), g)
    BY TextNeat
  <2>2. IsText(remote.type) /\ IsText(remote.name) /\ IsText(remote.symbol) /\ IsText(remote.memo)
        /\ IsText(LedgerId)
    BY TokensAssumption DEF IsToken
  <2>3. \E str : IsText(str) /\ Group(g, u) = StoreBytes(<<g>>, <<g>>, str)
    BY <1>1, <2>2 DEF Group
  <2> QED BY <2>1, <2>3
<1>2. CASE g \in {1, 4, 9}
  <2>1. \E value : Group(g, u) = {Whole(<<g>>, <<g>>, value)}
    <3>1. CASE g = 1
      <4>1. Group(g, u) = {Whole(<<g>>, <<g>>, Number(remote.decimals))}
        BY <3>1 DEF Group
      <4> QED BY <4>1
    <3>2. CASE g = 4
      <4>1. Group(g, u) = {Whole(<<g>>, <<g>>, AddressOf(remote.treasury_account_id, u))}
        BY <3>2 DEF Group
      <4> QED BY <4>1
    <3>3. CASE g = 9
      <4>1. Group(g, u) = {Whole(<<g>>, <<g>>, Amount(remote.auto_renew_period))}
        BY <3>3 DEF Group
      <4> QED BY <4>1
    <3> QED BY <1>2, <3>1, <3>2, <3>3
  <2> QED BY <2>1, OneWrite
<1>3. CASE g \in {6, 8, 10}
  BY <1>3, PackedGroups
<1>4. CASE g = 7
  <2>1. Group(g, u) = InitKeys
    BY <1>4 DEF Group
  <2> QED BY <1>4, <2>1, KeyGroup
<1>5. CASE g = 11
  <2>1. Group(g, u) = InitFixedFees(u)
    BY <1>5 DEF Group
  <2> QED BY <1>5, <2>1, FixedGroup
<1>6. CASE g = 12
  <2>1. Group(g, u) = InitFractionalFees(u)
    BY <1>6 DEF Group
  <2> QED BY <1>6, <2>1, FractionalGroup
<1>7. CASE g = 13
  <2>1. Group(g, u) = InitRoyaltyFees(u)
    BY <1>7 DEF Group
  <2> QED BY <1>7, <2>1, RoyaltyGroup
<1> QED BY <1>1, <1>2, <1>3, <1>4, <1>5, <1>6, <1>7

\* What Foundry writes is read where it was written.
LEMMA FoundryRead ==
  ASSUME IsToken(remote), NEW u, words = Written(InitWrites(u)), NEW g \in 0 .. 14, NEW w \in Group(g, u)
  PROVE  Read(w.slot, w.from) = w.value
<1> DEFINE W == InitWrites(u)
<1>1. w \in W
  BY Grouped
<1>2. IntPath(w.path) /\ w.slot[1] = g
  BY InitNeat DEF Neat
<1>3. ASSUME NEW z \in W, Overlap(w, z) \/ Overlap(z, w)
      PROVE  z = w
  <2>1. PICK h \in 0 .. 14 : z \in Group(h, u)
    BY Grouped
  <2>2. z.slot[1] = h
    BY <2>1, InitNeat DEF Neat
  <2>3. h = g
    BY <1>2, <1>3, <2>2 DEF Overlap
  <2>4. Apart(Group(g, u))
    BY InitNeat DEF Neat
  <2> QED BY <1>3, <2>1, <2>3, <2>4 DEF Apart
<1> HIDE DEF W
<1> QED BY <1>1, <1>2, <1>3, ReadWrite DEF W

-----------------------------------------------------------------------------
(* Foundry shows every field.                                              *)

Filled == IsToken(remote) /\ words = Written(InitWrites(missed))

LEMMA FoundryText ==
  ASSUME Filled, NEW g \in 0 .. 14, NEW str, IsText(str), Group(g, missed) = StoreBytes(<<g>>, <<g>>, str)
  PROVE  ReadBytes(<<g>>) = str
<1>1. \A w \in Group(g, missed) : Read(w.slot, w.from) = w.value
  BY FoundryRead DEF Filled
<1> DEFINE head == Whole(<<g, 0>>, <<g>>, Inline(str))
           chunk(k) == Whole(<<g, k>>, <<g, k - 1>>, Chunk(str, k))
<1>2. head \in Group(g, missed) /\ \A k \in Chunks(str) : chunk(k) \in Group(g, missed)
  BY TextWrites
<1>3. head.slot = <<g>> /\ head.from = 0 /\ head.value = Inline(str)
  BY WholeIs
<1>4. \A k : chunk(k).slot = <<g, k - 1>> /\ chunk(k).from = 0 /\ chunk(k).value = Chunk(str, k)
  BY WholeIs
<1> HIDE DEF head, chunk
<1>5. Read(<<g>>, 0) = Inline(str)
  BY <1>1, <1>2, <1>3
<1>6. \A k \in Chunks(str) : Read(<<g, k - 1>>, 0) = Chunk(str, k)
  BY <1>1, <1>2, <1>4
<1>7. \A k \in Chunks(str) : Plus(Keccak(<<g>>), k - 1) = <<g, k - 1>>
  <2>1. \A k \in Chunks(str) : k \in Int
    BY DEF Chunks, Ceil32, IsText
  <2> QED BY <2>1, ChunkSlot
<1>8. TextAt(<<g>>, str)
  BY <1>5, <1>6, <1>7 DEF TextAt
<1> QED BY <1>8, ReadText

\* Any write of a state slot.
LEMMA FoundryWord ==
  ASSUME Filled, NEW g \in 0 .. 14, NEW w \in Group(g, missed)
  PROVE  Read(w.slot, w.from) = w.value
  BY FoundryRead DEF Filled

LEMMA FoundryTokenType ==
  ASSUME Filled
  PROVE  PlainAt(1) = remote.type /\ PlainAt(2) = Number(remote.decimals)
<1>1. PlainAt(1) = ReadBytes(<<0>>) /\ PlainAt(2) = Read(<<1>>, 0)
  BY DEF PlainAt, Storage, Member, ByteTypes
<1>2. ReadBytes(<<0>>) = remote.type
  <2>1. Group(0, missed) = StoreBytes(<<0>>, <<0>>, remote.type) /\ IsText(remote.type)
    BY DEF Group, Filled, IsToken
  <2> DEFINE g == 0
  <2>2. g \in 0 .. 14
    OBVIOUS
  <2> HIDE DEF g
  <2>3. Group(g, missed) = StoreBytes(<<g>>, <<g>>, remote.type)
    BY <2>1 DEF g
  <2>4. ReadBytes(<<g>>) = remote.type
    BY <2>1, <2>2, <2>3, FoundryText
  <2> QED BY <2>4 DEF g
<1>3. Read(<<1>>, 0) = Number(remote.decimals)
  <2> DEFINE w == Whole(<<1>>, <<1>>, Number(remote.decimals))
  <2>1. w \in Group(1, missed)
    BY DEF Group
  <2>2. w.slot = <<1>> /\ w.from = 0 /\ w.value = Number(remote.decimals)
    BY WholeIs
  <2> HIDE DEF w
  <2> QED BY <2>1, <2>2, FoundryWord
<1> QED BY <1>1, <1>2, <1>3

LEMMA FoundryTexts ==
  ASSUME Filled
  PROVE  /\ ReadBytes(<<2>>) = remote.name /\ ReadBytes(<<3>>) = remote.symbol
         /\ ReadBytes(<<5>>) = remote.memo /\ ReadBytes(<<14>>) = LedgerId
<1> DEFINE text(g) == CASE g = 2 -> remote.name [] g = 3 -> remote.symbol
                        [] g = 5 -> remote.memo [] g = 14 -> LedgerId
<1>1. ASSUME NEW g \in {2, 3, 5, 14} PROVE ReadBytes(<<g>>) = text(g)
  <2>1. Group(g, missed) = StoreBytes(<<g>>, <<g>>, text(g))
    BY DEF Group
  <2>2. IsText(text(g))
    BY TokensAssumption DEF Filled, IsToken
  <2>3. g \in 0 .. 14
    OBVIOUS
  <2> HIDE DEF text
  <2> QED BY <2>1, <2>2, <2>3, FoundryText
<1>2. text(2) = remote.name /\ text(3) = remote.symbol /\ text(5) = remote.memo /\ text(14) = LedgerId
  OBVIOUS
<1> HIDE DEF text
<1> QED BY <1>1, <1>2

LEMMA FoundryFields ==
  ASSUME Filled
  PROVE  FieldsShown
<1>1. /\ PlainAt(3) = ReadBytes(<<2>>) /\ PlainAt(4) = ReadBytes(<<3>>) /\ PlainAt(6) = ReadBytes(<<5>>)
      /\ PlainAt(21) = ReadBytes(<<14>>)
  BY DEF PlainAt, Storage, Member, ByteTypes
<1>2. /\ PlainAt(5) = Read(<<4>>, 0) /\ PlainAt(7) = Read(<<6>>, 0) /\ PlainAt(8) = Read(<<6>>, 1)
      /\ PlainAt(9) = Read(<<6>>, 9) /\ PlainAt(11) = Read(<<8>>, 0) /\ PlainAt(12) = Read(<<8>>, 8)
      /\ PlainAt(13) = Read(<<9>>, 0) /\ PlainAt(14) = Read(<<10>>, 0) /\ PlainAt(15) = Read(<<10>>, 8)
      /\ PlainAt(17) = Read(<<10>>, 10)
  BY DEF PlainAt, Storage, Member, ByteTypes
<1>3. \A id : AddressOf(id, missed) \in Addresses(id)
  BY AddressShown DEF AddressOf
<1>4. /\ Read(<<4>>, 0) = AddressOf(remote.treasury_account_id, missed)
      /\ Read(<<9>>, 0) = Amount(remote.auto_renew_period)
  <2> DEFINE x == Whole(<<4>>, <<4>>, AddressOf(remote.treasury_account_id, missed))
             y == Whole(<<9>>, <<9>>, Amount(remote.auto_renew_period))
  <2>1. x \in Group(4, missed) /\ y \in Group(9, missed)
    BY DEF Group
  <2>2. /\ x.slot = <<4>> /\ x.from = 0 /\ x.value = AddressOf(remote.treasury_account_id, missed)
        /\ y.slot = <<9>> /\ y.from = 0 /\ y.value = Amount(remote.auto_renew_period)
    BY WholeIs
  <2> HIDE DEF x, y
  <2>3. Read(x.slot, x.from) = x.value /\ Read(y.slot, y.from) = y.value
    BY <2>1, FoundryWord
  <2> QED BY <2>2, <2>3
<1>5. /\ Read(<<6>>, 0) = Truth(remote.supply_type = "FINITE")
      /\ Read(<<6>>, 1) = Number(remote.max_supply)
      /\ Read(<<6>>, 9) = Truth(remote.freeze_default = "true")
  <2> DEFINE x == Bool(<<6, 1>>, <<6>>, 0, remote.supply_type = "FINITE")
             y == Int64(<<6, 2>>, <<6>>, 1, remote.max_supply)
             z == Bool(<<6, 3>>, <<6>>, 9, remote.freeze_default = "true")
  <2>1. x \in Group(6, missed) /\ y \in Group(6, missed) /\ z \in Group(6, missed)
    BY DEF Group
  <2>2. /\ x.slot = <<6>> /\ x.from = 0 /\ y.slot = <<6>> /\ y.from = 1 /\ z.slot = <<6>> /\ z.from = 9
        /\ x.value = Truth(remote.supply_type = "FINITE") /\ y.value = Number(remote.max_supply)
        /\ z.value = Truth(remote.freeze_default = "true")
    BY DEF Bool, Int64, Part, Truth
  <2> HIDE DEF x, y, z
  <2>3. Read(x.slot, x.from) = x.value /\ Read(y.slot, y.from) = y.value /\ Read(z.slot, z.from) = z.value
    BY <2>1, FoundryWord
  <2> QED BY <2>2, <2>3
<1>6. /\ Read(<<8>>, 0) = Number(remote.expiry_timestamp \div NanosPerSecond)
      /\ Read(<<8>>, 8) = AddressOf(remote.auto_renew_account, missed)
  <2> DEFINE x == Int64(<<8, 1>>, <<8>>, 0, remote.expiry_timestamp \div NanosPerSecond)
             y == Address(<<8, 2>>, <<8>>, 8, AddressOf(remote.auto_renew_account, missed))
  <2>1. x \in Group(8, missed) /\ y \in Group(8, missed)
    BY DEF Group
  <2>2. /\ x.slot = <<8>> /\ x.from = 0 /\ x.value = Number(remote.expiry_timestamp \div NanosPerSecond)
        /\ y.slot = <<8>> /\ y.from = 8 /\ y.value = AddressOf(remote.auto_renew_account, missed)
    BY DEF Address, Int64, Part
  <2> HIDE DEF x, y
  <2>3. Read(x.slot, x.from) = x.value /\ Read(y.slot, y.from) = y.value
    BY <2>1, FoundryWord
  <2> QED BY <2>2, <2>3
<1>7. /\ Read(<<10>>, 0) = Number(remote.total_supply)
      /\ Read(<<10>>, 8) = Truth(remote.deleted = "true")
      /\ Read(<<10>>, 10) = Truth(remote.pause_status = "PAUSED")
  <2> DEFINE x == Int64(<<10, 1>>, <<10>>, 0, remote.total_supply)
             y == Bool(<<10, 2>>, <<10>>, 8, remote.deleted = "true")
             z == Bool(<<10, 4>>, <<10>>, 10, remote.pause_status = "PAUSED")
  <2>1. x \in Group(10, missed) /\ y \in Group(10, missed) /\ z \in Group(10, missed)
    BY DEF Group
  <2>2. /\ x.slot = <<10>> /\ x.from = 0 /\ y.slot = <<10>> /\ y.from = 8 /\ z.slot = <<10>> /\ z.from = 10
        /\ x.value = Number(remote.total_supply) /\ y.value = Truth(remote.deleted = "true")
        /\ z.value = Truth(remote.pause_status = "PAUSED")
    BY DEF Bool, Int64, Part, Truth
  <2> HIDE DEF x, y, z
  <2>3. Read(x.slot, x.from) = x.value /\ Read(y.slot, y.from) = y.value /\ Read(z.slot, z.from) = z.value
    BY <2>1, FoundryWord
  <2> QED BY <2>2, <2>3
<1>8. PlainAt(17) \in {Truth(remote.pause_status = "PAUSED")} \cup (IF adapter = "hardhat" THEN {Zero} ELSE {})
  BY <1>2, <1>7
<1> QED BY <1>1, <1>2, <1>3, <1>4, <1>5, <1>6, <1>7, <1>8, FoundryTexts DEF FieldsShown

LEMMA FoundryFixedItems ==
  ASSUME Filled
  PROVE  FixedItemsShown
<1> DEFINE fees == Listed(remote.custom_fees, "fixed_fees")
<1>1. IsList(fees)
  BY FeeSizes DEF Filled
<1>2. Group(11, missed) = InitFixedFees(missed)
  BY DEF Group
<1>3. Read(<<11>>, 0) = Number(Len(fees))
  <2> DEFINE w == Whole(<<11, 0>>, <<11>>, Number(Len(fees)))
  <2>1. w \in Group(11, missed)
    BY <1>2 DEF InitFixedFees, FeesOf
  <2>2. w.slot = <<11>> /\ w.from = 0 /\ w.value = Number(Len(fees))
    BY WholeIs
  <2> HIDE DEF w, fees
  <2> QED BY <2>1, <2>2, FoundryWord
<1>4. ASSUME NEW n \in DOMAIN fees
      PROVE 
        /\ ItemAt(18, n, 1) = Number(fees[n].amount)
            
        /\ ItemAt(18, n, 2) \in Addresses(fees[n].denominating_token_id)
            
        /\ ItemAt(18, n, 3) = Truth(fees[n].denominating_token_id = Null)
            
        /\ ItemAt(18, n, 4) = Truth(fees[n].denominating_token_id = remote.token_id)
            
        /\ ItemAt(18, n, 5) \in Addresses(fees[n].collector_account_id)
  <2> DEFINE fee == fees[n]
             b == (n - 1) * 2
             p == <<11, n>>
             s == <<11, b>>
             W == FixedFeeWrites(p, s, fee, remote.token_id, missed)
  <2>1. n \in Int /\ b \in Int
    BY <1>1 DEF IsList
  <2>2. s = ItemSlot(<<11>>, n, 2)
    <3> DEFINE g == 11
               size == 2
    <3>1. g \in Int /\ size \in Int
      OBVIOUS
    <3> HIDE DEF g, size
    <3>2. ItemSlot(<<g>>, n, size) = <<g, (n - 1) * size>>
      BY <2>1, <3>1, ItemSlotIs
    <3> QED BY <3>2 DEF g, size
  <2>3. \A w \in W : Read(w.slot, w.from) = w.value
    <3>1. \A w \in W : w \in InitFixedFees(missed)
      BY <2>2 DEF InitFixedFees, FeesOf
    <3> HIDE DEF W
    <3> QED BY <1>2, <3>1, FoundryWord
  <2>4. /\ ItemAt(18, n, 1) = Read(<<11, b + 0>>, 0)
        /\ ItemAt(18, n, 2) = Read(<<11, b + 0>>, 8)
        /\ ItemAt(18, n, 3) = Read(<<11, b + 0>>, 28)
        /\ ItemAt(18, n, 4) = Read(<<11, b + 0>>, 29)
        /\ ItemAt(18, n, 5) = Read(<<11, b + 1>>, 0)
    <3>1. Storage[18].slot = 11 /\ Storage[18].type = "FixedFee" /\ Size["FixedFee"] = 2
      BY DEF Storage, Member, Size
    <3>2. /\ Items["FixedFee"][1].slot = 0 /\ Items["FixedFee"][1].offset = 0 /\ Items["FixedFee"][1].type \notin ByteTypes
          /\ Items["FixedFee"][2].slot = 0 /\ Items["FixedFee"][2].offset = 8 /\ Items["FixedFee"][2].type \notin ByteTypes
          /\ Items["FixedFee"][3].slot = 0 /\ Items["FixedFee"][3].offset = 28 /\ Items["FixedFee"][3].type \notin ByteTypes
          /\ Items["FixedFee"][4].slot = 0 /\ Items["FixedFee"][4].offset = 29 /\ Items["FixedFee"][4].type \notin ByteTypes
          /\ Items["FixedFee"][5].slot = 1 /\ Items["FixedFee"][5].offset = 0 /\ Items["FixedFee"][5].type \notin ByteTypes
      BY DEF Items, Member, ByteTypes
    <3> HIDE DEF b, fees
    <3>3. /\ SlotInItem(18, n, 1) = b + 0
          /\ SlotInItem(18, n, 2) = b + 0
          /\ SlotInItem(18, n, 3) = b + 0
          /\ SlotInItem(18, n, 4) = b + 0
          /\ SlotInItem(18, n, 5) = b + 1
      BY <3>1, <3>2 DEF SlotInItem, InItem, b
    <3> QED BY <3>1, <3>2, <3>3 DEF ItemAt, InItem
  <2> DEFINE s0 == <<11, b + 0>>
             s1 == <<11, b + 1>>
  <2>5. s = s0 /\ Plus(s, 1) = s1
    <3> DEFINE g == 11
    <3>1. g \in Int
      OBVIOUS
    <3>2. s = s0
      BY <2>1
    <3> HIDE DEF g, b
    <3>3. Plus(<<g, b>>, 1) = <<g, b + 1>>
      BY <2>1, <3>1, PlusTwo
    <3> QED BY <3>2, <3>3 DEF g
  <2> DEFINE e1 == Int64(Append(p, 1), s0, 0, fee.amount)
             e2 == Address(Append(p, 2), s0, 8, AddressOf(fee.denominating_token_id, missed))
             e3 == Bool(Append(p, 3), s0, 28, fee.denominating_token_id = Null)
             e4 == Bool(Append(p, 4), s0, 29, fee.denominating_token_id = remote.token_id)
             e5 == Whole(Append(p, 5), s1, AddressOf(fee.collector_account_id, missed))
  <2>6. e1 \in W /\ e2 \in W /\ e3 \in W /\ e4 \in W /\ e5 \in W
    <3> HIDE DEF s, p, fee, s0, s1
    <3> QED BY <2>5 DEF FixedFeeWrites
  <2>7. /\ e1.slot = s0 /\ e1.from = 0 /\ e1.value = Number(fee.amount)
        /\ e2.slot = s0 /\ e2.from = 8 /\ e2.value = AddressOf(fee.denominating_token_id, missed)
        /\ e3.slot = s0 /\ e3.from = 28 /\ e3.value = Truth(fee.denominating_token_id = Null)
        /\ e4.slot = s0 /\ e4.from = 29 /\ e4.value = Truth(fee.denominating_token_id = remote.token_id)
        /\ e5.slot = s1 /\ e5.from = 0 /\ e5.value = AddressOf(fee.collector_account_id, missed)
    <3> HIDE DEF p, fee, s0, s1
    <3> QED BY DEF Int64, Bool, Address, Whole, Part, Truth
  <2> HIDE DEF W, e1, e2, e3, e4, e5
  <2>8. /\ Read(s0, 0) = Number(fee.amount)
        /\ Read(s0, 8) = AddressOf(fee.denominating_token_id, missed)
        /\ Read(s0, 28) = Truth(fee.denominating_token_id = Null)
        /\ Read(s0, 29) = Truth(fee.denominating_token_id = remote.token_id)
        /\ Read(s1, 0) = AddressOf(fee.collector_account_id, missed)
    BY <2>3, <2>6, <2>7
  <2>9. \A id : AddressOf(id, missed) \in Addresses(id)
    BY AddressShown DEF AddressOf
  <2> QED BY <2>4, <2>8, <2>9
<1> QED BY <1>3, <1>4 DEF FixedItemsShown

LEMMA FoundryFractionalItems ==
  ASSUME Filled
  PROVE  FractionalItemsShown
<1> DEFINE fees == Listed(remote.custom_fees, "fractional_fees")
<1>1. IsList(fees)
  BY FeeSizes DEF Filled
<1>2. Group(12, missed) = InitFractionalFees(missed)
  BY DEF Group
<1>3. Read(<<12>>, 0) = Number(Len(fees))
  <2> DEFINE w == Whole(<<12, 0>>, <<12>>, Number(Len(fees)))
  <2>1. w \in Group(12, missed)
    BY <1>2 DEF InitFractionalFees, FeesOf
  <2>2. w.slot = <<12>> /\ w.from = 0 /\ w.value = Number(Len(fees))
    BY WholeIs
  <2> HIDE DEF w, fees
  <2> QED BY <2>1, <2>2, FoundryWord
<1>4. ASSUME NEW n \in DOMAIN fees
      PROVE 
        /\ ItemAt(19, n, 1) = Number(fees[n].numerator)
            
        /\ ItemAt(19, n, 2) = Number(fees[n].denominator)
            
        /\ ItemAt(19, n, 3) = Number(fees[n].minimum)
            
        /\ ItemAt(19, n, 4) = Number(fees[n].maximum)
            
        /\ ItemAt(19, n, 5) = Truth(fees[n].net_of_transfers = "true")
            
        /\ ItemAt(19, n, 6) \in Addresses(fees[n].collector_account_id)
  <2> DEFINE fee == fees[n]
             b == (n - 1) * 2
             p == <<12, n>>
             s == <<12, b>>
             W == FractionalFeeWrites(p, s, fee, missed)
  <2>1. n \in Int /\ b \in Int
    BY <1>1 DEF IsList
  <2>2. s = ItemSlot(<<12>>, n, 2)
    <3> DEFINE g == 12
               size == 2
    <3>1. g \in Int /\ size \in Int
      OBVIOUS
    <3> HIDE DEF g, size
    <3>2. ItemSlot(<<g>>, n, size) = <<g, (n - 1) * size>>
      BY <2>1, <3>1, ItemSlotIs
    <3> QED BY <3>2 DEF g, size
  <2>3. \A w \in W : Read(w.slot, w.from) = w.value
    <3>1. \A w \in W : w \in InitFractionalFees(missed)
      BY <2>2 DEF InitFractionalFees, FeesOf
    <3> HIDE DEF W
    <3> QED BY <1>2, <3>1, FoundryWord
  <2>4. /\ ItemAt(19, n, 1) = Read(<<12, b + 0>>, 0)
        /\ ItemAt(19, n, 2) = Read(<<12, b + 0>>, 8)
        /\ ItemAt(19, n, 3) = Read(<<12, b + 0>>, 16)
        /\ ItemAt(19, n, 4) = Read(<<12, b + 0>>, 24)
        /\ ItemAt(19, n, 5) = Read(<<12, b + 1>>, 0)
        /\ ItemAt(19, n, 6) = Read(<<12, b + 1>>, 1)
    <3>1. Storage[19].slot = 12 /\ Storage[19].type = "FractionalFee" /\ Size["FractionalFee"] = 2
      BY DEF Storage, Member, Size
    <3>2. /\ Items["FractionalFee"][1].slot = 0 /\ Items["FractionalFee"][1].offset = 0 /\ Items["FractionalFee"][1].type \notin ByteTypes
          /\ Items["FractionalFee"][2].slot = 0 /\ Items["FractionalFee"][2].offset = 8 /\ Items["FractionalFee"][2].type \notin ByteTypes
          /\ Items["FractionalFee"][3].slot = 0 /\ Items["FractionalFee"][3].offset = 16 /\ Items["FractionalFee"][3].type \notin ByteTypes
          /\ Items["FractionalFee"][4].slot = 0 /\ Items["FractionalFee"][4].offset = 24 /\ Items["FractionalFee"][4].type \notin ByteTypes
          /\ Items["FractionalFee"][5].slot = 1 /\ Items["FractionalFee"][5].offset = 0 /\ Items["FractionalFee"][5].type \notin ByteTypes
          /\ Items["FractionalFee"][6].slot = 1 /\ Items["FractionalFee"][6].offset = 1 /\ Items["FractionalFee"][6].type \notin ByteTypes
      BY DEF Items, Member, ByteTypes
    <3> HIDE DEF b, fees
    <3>3. /\ SlotInItem(19, n, 1) = b + 0
          /\ SlotInItem(19, n, 2) = b + 0
          /\ SlotInItem(19, n, 3) = b + 0
          /\ SlotInItem(19, n, 4) = b + 0
          /\ SlotInItem(19, n, 5) = b + 1
          /\ SlotInItem(19, n, 6) = b + 1
      BY <3>1, <3>2 DEF SlotInItem, InItem, b
    <3> QED BY <3>1, <3>2, <3>3 DEF ItemAt, InItem
  <2> DEFINE s0 == <<12, b + 0>>
             s1 == <<12, b + 1>>
  <2>5. s = s0 /\ Plus(s, 1) = s1
    <3> DEFINE g == 12
    <3>1. g \in Int
      OBVIOUS
    <3>2. s = s0
      BY <2>1
    <3> HIDE DEF g, b
    <3>3. Plus(<<g, b>>, 1) = <<g, b + 1>>
      BY <2>1, <3>1, PlusTwo
    <3> QED BY <3>2, <3>3 DEF g
  <2> DEFINE e1 == Int64(Append(p, 1), s0, 0, fee.numerator)
             e2 == Int64(Append(p, 2), s0, 8, fee.denominator)
             e3 == Int64(Append(p, 3), s0, 16, fee.minimum)
             e4 == Int64(Append(p, 4), s0, 24, fee.maximum)
             e5 == Bool(Append(p, 5), s1, 0, fee.net_of_transfers = "true")
             e6 == Address(Append(p, 6), s1, 1, AddressOf(fee.collector_account_id, missed))
  <2>6. e1 \in W /\ e2 \in W /\ e3 \in W /\ e4 \in W /\ e5 \in W /\ e6 \in W
    <3> HIDE DEF s, p, fee, s0, s1
    <3> QED BY <2>5 DEF FractionalFeeWrites
  <2>7. /\ e1.slot = s0 /\ e1.from = 0 /\ e1.value = Number(fee.numerator)
        /\ e2.slot = s0 /\ e2.from = 8 /\ e2.value = Number(fee.denominator)
        /\ e3.slot = s0 /\ e3.from = 16 /\ e3.value = Number(fee.minimum)
        /\ e4.slot = s0 /\ e4.from = 24 /\ e4.value = Number(fee.maximum)
        /\ e5.slot = s1 /\ e5.from = 0 /\ e5.value = Truth(fee.net_of_transfers = "true")
        /\ e6.slot = s1 /\ e6.from = 1 /\ e6.value = AddressOf(fee.collector_account_id, missed)
    <3> HIDE DEF p, fee, s0, s1
    <3> QED BY DEF Int64, Bool, Address, Whole, Part, Truth
  <2> HIDE DEF W, e1, e2, e3, e4, e5, e6
  <2>8. /\ Read(s0, 0) = Number(fee.numerator)
        /\ Read(s0, 8) = Number(fee.denominator)
        /\ Read(s0, 16) = Number(fee.minimum)
        /\ Read(s0, 24) = Number(fee.maximum)
        /\ Read(s1, 0) = Truth(fee.net_of_transfers = "true")
        /\ Read(s1, 1) = AddressOf(fee.collector_account_id, missed)
    BY <2>3, <2>6, <2>7
  <2>9. \A id : AddressOf(id, missed) \in Addresses(id)
    BY AddressShown DEF AddressOf
  <2> QED BY <2>4, <2>8, <2>9
<1> QED BY <1>3, <1>4 DEF FractionalItemsShown

LEMMA FoundryRoyaltyItems ==
  ASSUME Filled
  PROVE  RoyaltyItemsShown
<1> DEFINE fees == Listed(remote.custom_fees, "royalty_fees")
<1>1. IsList(fees)
  BY FeeSizes DEF Filled
<1>2. Group(13, missed) = InitRoyaltyFees(missed)
  BY DEF Group
<1>3. Read(<<13>>, 0) = Number(Len(fees))
  <2> DEFINE w == Whole(<<13, 0>>, <<13>>, Number(Len(fees)))
  <2>1. w \in Group(13, missed)
    BY <1>2 DEF InitRoyaltyFees, FeesOf
  <2>2. w.slot = <<13>> /\ w.from = 0 /\ w.value = Number(Len(fees))
    BY WholeIs
  <2> HIDE DEF w, fees
  <2> QED BY <2>1, <2>2, FoundryWord
<1>4. ASSUME NEW n \in DOMAIN fees
      PROVE 
        /\ ItemAt(20, n, 1) = Number(fees[n].numerator)
            
        /\ ItemAt(20, n, 2) = Number(fees[n].denominator)
            
        /\ ItemAt(20, n, 3) = Number(IF fees[n].fallback_fee = Null THEN 0 ELSE fees[n].fallback_fee.amount)
            
        /\ ItemAt(20, n, 6) \in Addresses(fees[n].collector_account_id)
  <2> DEFINE fee == fees[n]
             b == (n - 1) * 3
             p == <<13, n>>
             s == <<13, b>>
             W == RoyaltyFeeWrites(p, s, fee, missed)
  <2>1. n \in Int /\ b \in Int
    BY <1>1 DEF IsList
  <2>2. s = ItemSlot(<<13>>, n, 3)
    <3> DEFINE g == 13
               size == 3
    <3>1. g \in Int /\ size \in Int
      OBVIOUS
    <3> HIDE DEF g, size
    <3>2. ItemSlot(<<g>>, n, size) = <<g, (n - 1) * size>>
      BY <2>1, <3>1, ItemSlotIs
    <3> QED BY <3>2 DEF g, size
  <2>3. \A w \in W : Read(w.slot, w.from) = w.value
    <3>1. \A w \in W : w \in InitRoyaltyFees(missed)
      BY <2>2 DEF InitRoyaltyFees, FeesOf
    <3> HIDE DEF W
    <3> QED BY <1>2, <3>1, FoundryWord
  <2>4. /\ ItemAt(20, n, 1) = Read(<<13, b + 0>>, 0)
        /\ ItemAt(20, n, 2) = Read(<<13, b + 0>>, 8)
        /\ ItemAt(20, n, 3) = Read(<<13, b + 0>>, 16)
        /\ ItemAt(20, n, 6) = Read(<<13, b + 2>>, 0)
    <3>1. Storage[20].slot = 13 /\ Storage[20].type = "RoyaltyFee" /\ Size["RoyaltyFee"] = 3
      BY DEF Storage, Member, Size
    <3>2. /\ Items["RoyaltyFee"][1].slot = 0 /\ Items["RoyaltyFee"][1].offset = 0 /\ Items["RoyaltyFee"][1].type \notin ByteTypes
          /\ Items["RoyaltyFee"][2].slot = 0 /\ Items["RoyaltyFee"][2].offset = 8 /\ Items["RoyaltyFee"][2].type \notin ByteTypes
          /\ Items["RoyaltyFee"][3].slot = 0 /\ Items["RoyaltyFee"][3].offset = 16 /\ Items["RoyaltyFee"][3].type \notin ByteTypes
          /\ Items["RoyaltyFee"][6].slot = 2 /\ Items["RoyaltyFee"][6].offset = 0 /\ Items["RoyaltyFee"][6].type \notin ByteTypes
      BY DEF Items, Member, ByteTypes
    <3> HIDE DEF b, fees
    <3>3. /\ SlotInItem(20, n, 1) = b + 0
          /\ SlotInItem(20, n, 2) = b + 0
          /\ SlotInItem(20, n, 3) = b + 0
          /\ SlotInItem(20, n, 6) = b + 2
      BY <3>1, <3>2 DEF SlotInItem, InItem, b
    <3> QED BY <3>1, <3>2, <3>3 DEF ItemAt, InItem
  <2> DEFINE s0 == <<13, b + 0>>
             s1 == <<13, b + 1>>
             s2 == <<13, b + 2>>
  <2>5. s = s0 /\ Plus(s, 1) = s1 /\ Plus(s, 2) = s2
    <3> DEFINE g == 13
    <3>1. g \in Int
      OBVIOUS
    <3>2. s = s0
      BY <2>1
    <3> HIDE DEF g, b
    <3>3. Plus(<<g, b>>, 1) = <<g, b + 1>> /\ Plus(<<g, b>>, 2) = <<g, b + 2>>
      BY <2>1, <3>1, PlusTwo
    <3> QED BY <3>2, <3>3 DEF g
  <2> DEFINE e1 == Int64(Append(p, 1), s0, 0, fee.numerator)
             e2 == Int64(Append(p, 2), s0, 8, fee.denominator)
             e3 == Int64(Append(p, 3), s0, 16, IF fee.fallback_fee = Null THEN 0 ELSE fee.fallback_fee.amount)
             e6 == Whole(Append(p, 6), s2, AddressOf(fee.collector_account_id, missed))
  <2>6. e1 \in W /\ e2 \in W /\ e3 \in W /\ e6 \in W
    <3> HIDE DEF s, p, fee, s0, s1, s2
    <3> QED BY <2>5 DEF RoyaltyFeeWrites
  <2>7. /\ e1.slot = s0 /\ e1.from = 0 /\ e1.value = Number(fee.numerator)
        /\ e2.slot = s0 /\ e2.from = 8 /\ e2.value = Number(fee.denominator)
        /\ e3.slot = s0 /\ e3.from = 16 /\ e3.value = Number(IF fee.fallback_fee = Null THEN 0 ELSE fee.fallback_fee.amount)
        /\ e6.slot = s2 /\ e6.from = 0 /\ e6.value = AddressOf(fee.collector_account_id, missed)
    <3> HIDE DEF p, fee, s0, s1, s2
    <3> QED BY DEF Int64, Bool, Address, Whole, Part, Truth
  <2> HIDE DEF W, e1, e2, e3, e6
  <2>8. /\ Read(s0, 0) = Number(fee.numerator)
        /\ Read(s0, 8) = Number(fee.denominator)
        /\ Read(s0, 16) = Number(IF fee.fallback_fee = Null THEN 0 ELSE fee.fallback_fee.amount)
        /\ Read(s2, 0) = AddressOf(fee.collector_account_id, missed)
    BY <2>3, <2>6, <2>7
  <2>9. \A id : AddressOf(id, missed) \in Addresses(id)
    BY AddressShown DEF AddressOf
  <2> QED BY <2>4, <2>8, <2>9
<1> QED BY <1>3, <1>4 DEF RoyaltyItemsShown

\* A string of an item that was written is read back.
LEMMA WrittenText ==
  ASSUME NEW g \in Int, NEW n \in Int, NEW c \in Int, NEW h \in Int, NEW str, IsText(str),
         \A w \in StoreBytes(Append(<<g, n>>, h), <<g, c>>, str) : Read(w.slot, w.from) = w.value
  PROVE  ReadBytes(<<g, c>>) = str
<1> DEFINE W == StoreBytes(Append(<<g, n>>, h), <<g, c>>, str)
           head == Whole(<<g, n, h, 0>>, <<g, c>>, Inline(str))
           chunk(k) == Whole(<<g, n, h, k>>, <<g, c, k - 1>>, Chunk(str, k))
<1>1. head \in W /\ \A k \in Chunks(str) : chunk(k) \in W
  BY ItemTextWrites
<1>2. head.slot = <<g, c>> /\ head.from = 0 /\ head.value = Inline(str)
  BY WholeIs
<1>3. \A k : chunk(k).slot = <<g, c, k - 1>> /\ chunk(k).from = 0 /\ chunk(k).value = Chunk(str, k)
  BY WholeIs
<1>4. \A w \in W : Read(w.slot, w.from) = w.value
  OBVIOUS
<1> HIDE DEF head, chunk, W
<1>5. Read(<<g, c>>, 0) = Inline(str)
  BY <1>1, <1>2, <1>4
<1>6. \A k \in Chunks(str) : Read(<<g, c, k - 1>>, 0) = Chunk(str, k)
  BY <1>1, <1>3, <1>4
<1>7. \A k \in Chunks(str) : Plus(Keccak(<<g, c>>), k - 1) = <<g, c, k - 1>>
  <2>1. \A k \in Chunks(str) : k \in Int
    BY DEF Chunks, Ceil32, IsText
  <2> QED BY <2>1, ItemChunkSlot
<1>8. TextAt(<<g, c>>, str)
  BY <1>5, <1>6, <1>7 DEF TextAt
<1> QED BY <1>8, ReadText

\* Key n of the list that Foundry writes.
LEMMA FoundryKey ==
  ASSUME Filled, NEW n \in 1 .. 7, NEW key, key = remote[KeyTypes[n][1]]
  PROVE  /\ ItemAt(10, n, 1) = Number(IF key = Null THEN 0 ELSE KeyTypes[n][2])
         /\ ItemAt(10, n, 4) = BytesOf(key, "ED25519")
         /\ ItemAt(10, n, 5) = BytesOf(key, "ECDSA_SECP256K1")
<1> DEFINE b == (n - 1) * 5
           p == <<7, n>>
           s == <<7, b>>
           type == KeyTypes[n][2]
           W == KeyWrites(p, s, key, type)
<1>1. b \in Int
  OBVIOUS
<1>2. s = ItemSlot(<<7>>, n, 5)
  <2> DEFINE g == 7
             size == 5
  <2>1. g \in Int /\ size \in Int
    OBVIOUS
  <2> HIDE DEF g, size
  <2>2. ItemSlot(<<g>>, n, size) = <<g, (n - 1) * size>>
    BY <2>1, ItemSlotIs
  <2> QED BY <2>2 DEF g, size
<1>3. \A w \in W : Read(w.slot, w.from) = w.value
  <2>1. Group(7, missed) = InitKeys
    BY DEF Group
  <2>2. \A w \in W : w \in InitKeys
    BY <1>2, KeyTypesAre DEF InitKeys
  <2> HIDE DEF W
  <2> QED BY <2>1, <2>2, FoundryWord
<1>4. /\ ItemAt(10, n, 1) = Read(<<7, b + 0>>, 0)
      /\ ItemAt(10, n, 4) = ReadBytes(<<7, b + 2>>)
      /\ ItemAt(10, n, 5) = ReadBytes(<<7, b + 3>>)
  <2>1. Storage[10].slot = 7 /\ Storage[10].type = "TokenKey" /\ Size["TokenKey"] = 5
    BY DEF Storage, Member, Size
  <2>2. /\ Items["TokenKey"][1].slot = 0 /\ Items["TokenKey"][1].offset = 0 /\ Items["TokenKey"][1].type \notin ByteTypes
        /\ Items["TokenKey"][4].slot = 2 /\ Items["TokenKey"][4].type \in ByteTypes
        /\ Items["TokenKey"][5].slot = 3 /\ Items["TokenKey"][5].type \in ByteTypes
    BY DEF Items, Member, ByteTypes
  <2> HIDE DEF b
  <2>3. SlotInItem(10, n, 1) = b + 0 /\ SlotInItem(10, n, 4) = b + 2 /\ SlotInItem(10, n, 5) = b + 3
    BY <2>1, <2>2 DEF SlotInItem, InItem, b
  <2> QED BY <2>1, <2>2, <2>3 DEF ItemAt, InItem
<1> DEFINE s2 == <<7, b + 2>>
           s3 == <<7, b + 3>>
<1>5. Plus(s, 2) = s2 /\ Plus(s, 3) = s3
  <2> DEFINE g == 7
             k == 2
             l == 3
  <2>1. g \in Int /\ k \in Int /\ l \in Int
    OBVIOUS
  <2> HIDE DEF g, b, k, l
  <2>2. Plus(<<g, b>>, k) = <<g, b + k>>
    BY <1>1, <2>1, PlusTwo
  <2>3. Plus(<<g, b>>, l) = <<g, b + l>>
    BY <1>1, <2>1, PlusTwo
  <2> QED BY <2>2, <2>3 DEF g, k, l
<1> DEFINE T4 == StoreBytes(Append(p, 4), s2, BytesOf(key, "ED25519"))
           T5 == StoreBytes(Append(p, 5), s3, BytesOf(key, "ECDSA_SECP256K1"))
           e1 == Whole(Append(p, 1), s, Number(IF key = Null THEN 0 ELSE type))
<1>6. e1 \in W /\ (\A w \in T4 : w \in W) /\ (\A w \in T5 : w \in W)
  <2> HIDE DEF s, p, s2, s3, type
  <2> QED BY <1>5 DEF KeyWrites
<1>7. e1.slot = s /\ e1.from = 0 /\ e1.value = Number(IF key = Null THEN 0 ELSE type)
  <2> HIDE DEF s, p, type
  <2> QED BY DEF Whole, Part
<1>8. IsText(BytesOf(key, "ED25519")) /\ IsText(BytesOf(key, "ECDSA_SECP256K1"))
  BY BytesTexts DEF Filled
<1>9. s = <<7, b + 0>>
  OBVIOUS
<1> HIDE DEF W, e1
<1>10. Read(s, 0) = Number(IF key = Null THEN 0 ELSE type)
  BY <1>3, <1>6, <1>7
<1>11. ReadBytes(s2) = BytesOf(key, "ED25519")
  <2> DEFINE g == 7
             h == 4
             c == b + 2
             str == BytesOf(key, "ED25519")
  <2>1. \A w \in T4 : Read(w.slot, w.from) = w.value
    BY <1>3, <1>6
  <2>2. g \in Int /\ h \in Int /\ c \in Int /\ n \in Int /\ IsText(str)
    BY <1>1, <1>8
  <2>3. \A w \in StoreBytes(Append(<<g, n>>, h), <<g, c>>, str) : Read(w.slot, w.from) = w.value
    BY <2>1
  <2> HIDE DEF g, h, c, str
  <2>4. ReadBytes(<<g, c>>) = str
    BY <2>2, <2>3, WrittenText
  <2> QED BY <2>4 DEF g, c, str
<1>12. ReadBytes(s3) = BytesOf(key, "ECDSA_SECP256K1")
  <2> DEFINE g == 7
             h == 5
             c == b + 3
             str == BytesOf(key, "ECDSA_SECP256K1")
  <2>1. \A w \in T5 : Read(w.slot, w.from) = w.value
    BY <1>3, <1>6
  <2>2. g \in Int /\ h \in Int /\ c \in Int /\ n \in Int /\ IsText(str)
    BY <1>1, <1>8
  <2>3. \A w \in StoreBytes(Append(<<g, n>>, h), <<g, c>>, str) : Read(w.slot, w.from) = w.value
    BY <2>1
  <2> HIDE DEF g, h, c, str
  <2>4. ReadBytes(<<g, c>>) = str
    BY <2>2, <2>3, WrittenText
  <2> QED BY <2>4 DEF g, c, str
<1> QED BY <1>4, <1>9, <1>10, <1>11, <1>12

LEMMA FoundryKeyItems ==
  ASSUME Filled
  PROVE  KeyItemsShown
<1>1. Read(<<7>>, 0) = Number(7)
  <2> DEFINE w == Whole(<<7, 0>>, <<7>>, Number(Len(KeyTypes)))
  <2>1. w \in Group(7, missed)
    BY DEF Group, InitKeys
  <2>2. w.slot = <<7>> /\ w.from = 0 /\ w.value = Number(Len(KeyTypes))
    BY WholeIs
  <2>3. Len(KeyTypes) = 7
    BY DEF KeyTypes
  <2> HIDE DEF w
  <2> QED BY <2>1, <2>2, <2>3, FoundryWord
<1>2. ASSUME NEW n \in 1 .. 7, NEW key, key = remote[KeyTypes[n][1]]
      PROVE  \/ key = Null /\ ItemAt(10, n, 1) = Zero
             \/ /\ ItemAt(10, n, 1) = Number(KeyTypes[n][2])
                /\ key = Null \/ key._type \in {"ED25519", "ECDSA_SECP256K1"} =>
                      /\ ItemAt(10, n, 4) = BytesOf(key, "ED25519")
                      /\ ItemAt(10, n, 5) = BytesOf(key, "ECDSA_SECP256K1")
  BY <1>2, FoundryKey DEF Zero
<1> QED BY <1>1, <1>2 DEF KeyItemsShown

-----------------------------------------------------------------------------
(* What the getters show, with both adapters.                              *)

LEMMA FoundryFilled ==
  ASSUME ReadInv, adapter = "foundry", created = Null, called # {}
  PROVE  Filled
  BY TokensAssumption DEF ReadInv, TokenInv, Called, FoundryWords, Filled

LEMMA FieldsOfInv ==
  ASSUME ReadInv, created = Null
  PROVE  /\ "getTokenType" \in called => PlainAt(1) = remote.type
         /\ "decimals" \in called => PlainAt(2) = Number(remote.decimals)
         /\ "getTokenInfo" \in called =>
               /\ IsToken(remote) /\ FieldsShown /\ KeyItemsShown
               /\ FixedItemsShown /\ FractionalItemsShown /\ RoyaltyItemsShown
<1>1. CASE called = {}
  BY <1>1
<1>2. CASE called # {} /\ adapter = "hardhat"
  <2>1. Asks
    BY <1>2, HardhatAsks
  <2> QED BY <2>1, HardhatTokenType, HardhatDecimals, HardhatFields, HardhatKeyItems,
             HardhatFixedItems, HardhatFractionalItems, HardhatRoyaltyItems DEF Asks
<1>3. CASE called # {} /\ adapter = "foundry"
  <2>1. Filled
    BY <1>3, FoundryFilled
  <2> QED BY <2>1, FoundryTokenType, FoundryFields, FoundryKeyItems,
             FoundryFixedItems, FoundryFractionalItems, FoundryRoyaltyItems DEF Filled
<1> QED BY <1>1, <1>2, <1>3 DEF ReadInv, Called

\* Every word that a fork has comes from a request about the token of the
\* Mirror Node, or from the writes of _initTokenData: the inductive invariant.
THEOREM ReadInvAlways == Spec => []ReadInv
  BY InitReadInv, NextReadInv, PTL DEF Spec

\* Names, supply, flags and accounts: getTokenInfo, getTokenType and decimals
\* answer what the Mirror Node has, with both adapters and in every order.
THEOREM InfoShownAlways == Spec => []InfoShown
<1>1. ReadInv => InfoShown
  BY FieldsOfInv, InfoFromFields DEF Shown
<1> QED BY <1>1, ReadInvAlways, PTL

\* getTokenKey answers the token's key of each type, and none where it has none.
THEOREM KeysShownAlways == Spec => []KeysShown
<1>1. ReadInv => KeysShown
  BY FieldsOfInv, KeysFromItems DEF Shown
<1> QED BY <1>1, ReadInvAlways, PTL

\* All custom fees are shown, in order, however many a token has.
THEOREM FeesShownAlways == Spec => []FeesShown
<1>1. ReadInv => FeesShown
  BY FieldsOfInv, FeesFromItems DEF Shown
<1> QED BY <1>1, ReadInvAlways, PTL

-----------------------------------------------------------------------------
(* A created token.  Its items stand after lens of them, and its stores    *)
(* are, up to their paths, some of those of a token with longer lists, so  *)
(* they are apart as well.                                                 *)

ListLabel == {Storage[i].label : i \in Listing}
PaddedList(list, len) ==
    [n \in 1 .. len + Len(list) |-> IF n <= len THEN KeyEntry(Null, 0) ELSE list[n - len]]
Padded(lens) ==
    [label \in Labels(Storage) |->
        IF label \in ListLabel THEN PaddedList(created[label], lens[label]) ELSE created[label]]

Pushed(i, lens) ==
    {StoreWhole(<<>>, <<Storage[i].slot>>, Number(lens[Storage[i].label] + Len(created[Storage[i].label])))}
    \cup UNION {VisitItem(Storage[i].type,
                          ItemSlot(<<Storage[i].slot>>, lens[Storage[i].label] + n, Size[Storage[i].type]),
                          created[Storage[i].label][n], <<n>>) :
                   n \in DOMAIN created[Storage[i].label]}
NewStores(lens) ==
    (UNION {VisitField(Storage[i], <<0>>, created, <<i>>) : i \in Plain})
    \cup (UNION {Pushed(i, lens) : i \in Listing})

Alike(s, t) == s.slot = t.slot /\ s.offset = t.offset /\ s.value = t.value

LEMMA LabelOfPlain ==
  ASSUME NEW i \in 1 .. 21
  PROVE  /\ Storage[i].label \in Labels(Storage)
         /\ Storage[i].label \in ListLabel <=> i \in Listing
<1>1. \A h, j \in 1 .. 21 : Storage[h].label = Storage[j].label => h = j
  BY DEF Storage, Member
<1> QED BY <1>1, StorageApart DEF Labels, ListLabel, Listing

LEMMA PaddedField ==
  ASSUME NEW lens, NEW i \in 1 .. 21
  PROVE  /\ Field(Padded(lens), Storage[i].label) = Padded(lens)[Storage[i].label]
         /\ i \in Listing => Padded(lens)[Storage[i].label] =
                                PaddedList(created[Storage[i].label], lens[Storage[i].label])
         /\ i \notin Listing => Padded(lens)[Storage[i].label] = created[Storage[i].label]
  BY LabelOfPlain DEF Field, Padded

LEMMA CreatedField ==
  ASSUME IsCreated(created), NEW i \in 1 .. 21
  PROVE  Field(created, Storage[i].label) = created[Storage[i].label]
  BY LabelOfPlain DEF Field, IsCreated

LEMMA CreatedLists ==
  ASSUME IsCreated(created), NEW i \in Listing
  PROVE  IsList(created[Storage[i].label])
<1>1. Storage[i] \in Arrays
  BY StorageApart DEF Arrays, Listing
<1> QED BY <1>1 DEF IsCreated

LEMMA PaddedIs ==
  ASSUME NEW list, IsList(list), NEW len \in Nat
  PROVE  /\ IsList(PaddedList(list, len)) /\ Len(PaddedList(list, len)) = len + Len(list)
         /\ DOMAIN PaddedList(list, len) = 1 .. len + Len(list)
         /\ \A n \in DOMAIN list : /\ len + n \in DOMAIN PaddedList(list, len)
                                   /\ PaddedList(list, len)[len + n] = list[n]
         /\ \A n \in DOMAIN PaddedList(list, len) :
               \/ PaddedList(list, len)[n] = KeyEntry(Null, 0)
               \/ n - len \in DOMAIN list /\ PaddedList(list, len)[n] = list[n - len]
<1> DEFINE size == len + Len(list)
<1>1. size \in Nat /\ DOMAIN list = 1 .. Len(list) /\ Len(list) \in Nat
  BY DEF IsList
<1>2. /\ DOMAIN PaddedList(list, len) = 1 .. size
      /\ \A n \in 1 .. size : PaddedList(list, len)[n] = IF n <= len THEN KeyEntry(Null, 0) ELSE list[n - len]
  BY DEF PaddedList
<1>3. Len(PaddedList(list, len)) = size
  <2>1. \A e : Len([n \in 1 .. size |-> e[n]]) = size
    BY <1>1
  <2> HIDE DEF size
  <2>2. PaddedList(list, len) = [n \in 1 .. size |-> PaddedList(list, len)[n]]
    BY DEF PaddedList, size
  <2> QED BY <2>1, <2>2
<1>4. \A n \in 1 .. Len(list) : len + n \in 1 .. size /\ ~(len + n <= len) /\ (len + n) - len = n
  BY <1>1
<1>5. \A n \in 1 .. size : n <= len \/ n - len \in 1 .. Len(list)
  BY <1>1
<1> HIDE DEF size
<1>6. \A n \in DOMAIN list : /\ len + n \in DOMAIN PaddedList(list, len)
                             /\ PaddedList(list, len)[len + n] = list[n]
  BY <1>1, <1>2, <1>4
<1>7. \A n \in DOMAIN PaddedList(list, len) :
               \/ PaddedList(list, len)[n] = KeyEntry(Null, 0)
               \/ n - len \in DOMAIN list /\ PaddedList(list, len)[n] = list[n - len]
  BY <1>1, <1>2, <1>5
<1> QED BY <1>1, <1>2, <1>3, <1>6, <1>7 DEF IsList, size

LEMMA PaddedShaped ==
  ASSUME IsCreated(created), NEW lens, lens \in [ListLabel -> Nat]
  PROVE  Shaped(Padded(lens))
<1>1. ASSUME NEW i \in Plain, Storage[i].type \in ByteTypes
      PROVE  Field(Padded(lens), Storage[i].label).len \in Nat
  <2>1. Field(Padded(lens), Storage[i].label) = created[Storage[i].label]
    BY PaddedField DEF Plain, Listing
  <2>2. IsText(created[Storage[i].label])
    BY <1>1, PlainTexts DEF IsCreated
  <2> QED BY <2>1, <2>2 DEF IsText
<1>2. ASSUME NEW i \in Listing
      PROVE  /\ IsList(Padded(lens)[Storage[i].label])
             /\ \A n \in DOMAIN Padded(lens)[Storage[i].label], j \in DOMAIN Items[Storage[i].type] :
                  InItem(i, j).type \in ByteTypes =>
                    Field(Padded(lens)[Storage[i].label][n], InItem(i, j).label).len \in Nat
  <2> DEFINE items == created[Storage[i].label]
             len == lens[Storage[i].label]
             list == PaddedList(items, len)
  <2>1. Padded(lens)[Storage[i].label] = list
    BY PaddedField DEF Listing
  <2>2. IsList(items) /\ len \in Nat
    BY CreatedLists DEF ListLabel
  <2> HIDE DEF items, len
  <2>3. /\ IsList(list)
        /\ \A n \in DOMAIN list : \/ list[n] = KeyEntry(Null, 0)
                                  \/ n - len \in DOMAIN items /\ list[n] = items[n - len]
    BY <2>2, PaddedIs
  <2> HIDE DEF list
  <2>4. ASSUME NEW n \in DOMAIN list, NEW j \in DOMAIN Items[Storage[i].type], InItem(i, j).type \in ByteTypes
        PROVE  Field(list[n], InItem(i, j).label).len \in Nat
    <3>1. Storage[i].label = "token_keys" /\ InItem(i, j).label \in {"ed25519", "_e_c_d_s_a_secp256k1"}
      BY <2>4, ListLabels, ItemTexts DEF InItem, Listing
    <3>2. CASE list[n] = KeyEntry(Null, 0)
      <4> DEFINE item == list[n]
      <4>1. item.ed25519 = Empty /\ item._e_c_d_s_a_secp256k1 = Empty
        BY <3>2 DEF KeyEntry
      <4>2. {"ed25519", "_e_c_d_s_a_secp256k1"} \subseteq DOMAIN item
        BY <3>2 DEF KeyEntry
      <4> HIDE DEF item
      <4>3. Field(item, InItem(i, j).label) = Empty
        BY <3>1, <4>1, <4>2 DEF Field
      <4>4. Empty.len \in Nat
        BY DEF Empty
      <4> QED BY <4>3, <4>4 DEF item
    <3>3. CASE n - len \in DOMAIN items /\ list[n] = items[n - len]
      <4>1. \A m \in DOMAIN items : /\ {"ed25519", "_e_c_d_s_a_secp256k1"} \subseteq DOMAIN items[m]
                                    /\ IsText(items[m].ed25519) /\ IsText(items[m]._e_c_d_s_a_secp256k1)
        BY <3>1 DEF IsCreated, items
      <4> DEFINE item == list[n]
      <4>2. /\ {"ed25519", "_e_c_d_s_a_secp256k1"} \subseteq DOMAIN item
            /\ IsText(item.ed25519) /\ IsText(item._e_c_d_s_a_secp256k1)
        BY <3>3, <4>1
      <4> HIDE DEF item
      <4>3. Field(item, InItem(i, j).label).len \in Nat
        BY <3>1, <4>2 DEF Field, IsText
      <4> QED BY <4>3 DEF item
    <3> QED BY <2>3, <3>2, <3>3
  <2> QED BY <2>1, <2>3, <2>4
<1> QED BY <1>1, <1>2 DEF Shaped

LEMMA OtherPath ==
  ASSUME NEW m, NEW base, NEW obj, NEW p, NEW q, NEW t \in VisitField(m, base, obj, p)
  PROVE  \E s \in VisitField(m, base, obj, q) : Alike(s, t)
<1> DEFINE slot == Plus(base, m.slot)
           prop == Field(obj, m.label)
           ks == IF m.type \in ByteTypes THEN Chunks(prop) ELSE {}
           head(x) == Store(Append(x, 0), slot, m.offset, Word(m.type, prop))
           chunk(x, k) == StoreWhole(Append(x, k), Plus(Keccak(slot), k - 1), Chunk(prop, k))
<1>1. \A x : VisitField(m, base, obj, x) = {head(x)} \cup {chunk(x, k) : k \in ks}
  BY DEF VisitField
<1>2. Alike(head(q), head(p)) /\ \A k : Alike(chunk(q, k), chunk(p, k))
  BY DEF Alike, Store, StoreWhole
<1> HIDE DEF head, chunk, ks
<1>3. head(q) \in VisitField(m, base, obj, q) /\ \A k \in ks : chunk(q, k) \in VisitField(m, base, obj, q)
  BY <1>1
<1>4. t = head(p) \/ \E k \in ks : t = chunk(p, k)
  BY <1>1
<1> QED BY <1>2, <1>3, <1>4

\* An item of a created token, as item n of the padded list.
LEMMA PushedItem ==
  ASSUME IsCreated(created), NEW lens, lens \in [ListLabel -> Nat], NEW i \in Listing,
         NEW n \in DOMAIN created[Storage[i].label]
  PROVE  /\ lens[Storage[i].label] + n \in DOMAIN Padded(lens)[Storage[i].label]
         /\ Padded(lens)[Storage[i].label][lens[Storage[i].label] + n] = created[Storage[i].label][n]
<1> DEFINE items == created[Storage[i].label]
           len == lens[Storage[i].label]
<1>1. Padded(lens)[Storage[i].label] = PaddedList(items, len)
  BY PaddedField DEF Listing
<1>2. IsList(items) /\ len \in Nat
  BY CreatedLists DEF ListLabel
<1>3. n \in DOMAIN items
  OBVIOUS
<1> HIDE DEF items, len
<1>4. len + n \in DOMAIN PaddedList(items, len) /\ PaddedList(items, len)[len + n] = items[n]
  BY <1>2, <1>3, PaddedIs
<1> QED BY <1>1, <1>4 DEF items, len

LEMMA StoreOfItemField ==
  ASSUME NEW obj, Shaped(obj), NEW i \in Listing, NEW n \in DOMAIN obj[Storage[i].label],
         NEW j \in DOMAIN Items[Storage[i].type],
         NEW s \in VisitField(InItem(i, j), ItemSlot(<<Storage[i].slot>>, n, Size[Storage[i].type]),
                              obj[Storage[i].label][n], Append(Append(<<i>>, n), j))
  PROVE  s \in StoresOf(obj)
<1>1. VisitField(InItem(i, j), ItemSlot(<<Storage[i].slot>>, n, Size[Storage[i].type]),
                 obj[Storage[i].label][n], Append(Append(<<i>>, n), j)) =
            {ItemFieldOf(obj, i, n, j)}
            \cup {ItemChunkOf(obj, i, n, j, k) :
                     k \in ChunksOf(InItem(i, j).type, Field(obj[Storage[i].label][n], InItem(i, j).label))}
  BY ItemFieldStores
<1>2. \/ s = ItemFieldOf(obj, i, n, j)
      \/ \E k \in ChunksOf(InItem(i, j).type, Field(obj[Storage[i].label][n], InItem(i, j).label)) :
            s = ItemChunkOf(obj, i, n, j, k)
  BY <1>1
<1> QED BY <1>2, Forms DEF ItemFieldStored, ItemChunkStored

LEMMA StoreOfItem ==
  ASSUME NEW obj, Shaped(obj), NEW i \in Listing, NEW n \in DOMAIN obj[Storage[i].label], NEW p,
         NEW t \in VisitItem(Storage[i].type, ItemSlot(<<Storage[i].slot>>, n, Size[Storage[i].type]),
                             obj[Storage[i].label][n], p)
  PROVE  \E s \in StoresOf(obj) : Alike(s, t)
<1> DEFINE base == ItemSlot(<<Storage[i].slot>>, n, Size[Storage[i].type])
           item == obj[Storage[i].label][n]
           path(j) == Append(Append(<<i>>, n), j)
<1>1. PICK j \in DOMAIN Items[Storage[i].type] : t \in VisitField(InItem(i, j), base, item, Append(p, j))
  BY DEF VisitItem, InItem
<1>2. \A s \in VisitField(InItem(i, j), base, item, path(j)) : s \in StoresOf(obj)
  BY StoreOfItemField
<1> HIDE DEF base, path, item
<1>3. PICK s \in VisitField(InItem(i, j), base, item, path(j)) : Alike(s, t)
  BY <1>1, OtherPath
<1> QED BY <1>2, <1>3

LEMMA PushedAsPadded ==
  ASSUME IsCreated(created), NEW lens, lens \in [ListLabel -> Nat], NEW i \in Listing, NEW t \in Pushed(i, lens)
  PROVE  \E s \in StoresOf(Padded(lens)) : Alike(s, t)
<1> DEFINE o == Padded(lens)
           items == created[Storage[i].label]
           len == lens[Storage[i].label]
           base(n) == ItemSlot(<<Storage[i].slot>>, n, Size[Storage[i].type])
           head == StoreWhole(<<>>, <<Storage[i].slot>>, Number(len + Len(items)))
<1>1. Shaped(o)
  BY PaddedShaped
<1>2. t = head \/ \E n \in DOMAIN items : t \in VisitItem(Storage[i].type, base(len + n), items[n], <<n>>)
  BY DEF Pushed
<1>3. CASE t = head
  <2>1. IsList(items) /\ len \in Nat
    BY CreatedLists DEF ListLabel
  <2>2. o[Storage[i].label] = PaddedList(items, len)
    BY PaddedField DEF Listing
  <2> HIDE DEF o, items, len
  <2>3. Len(o[Storage[i].label]) = len + Len(items)
    BY <2>1, <2>2, PaddedIs
  <2>4. LengthOf(o, i) \in StoresOf(o)
    BY <1>1, Forms DEF LengthStored
  <2>5. Alike(LengthOf(o, i), t)
    BY <1>3, <2>3 DEF Alike, LengthOf, StoreWhole
  <2> QED BY <2>4, <2>5 DEF o
<1>4. ASSUME NEW n \in DOMAIN items, t \in VisitItem(Storage[i].type, base(len + n), items[n], <<n>>)
      PROVE  \E s \in StoresOf(o) : Alike(s, t)
  <2> DEFINE m == len + n
  <2>1. m \in DOMAIN o[Storage[i].label] /\ items[n] = o[Storage[i].label][m]
    BY PushedItem
  <2>2. t \in VisitItem(Storage[i].type, ItemSlot(<<Storage[i].slot>>, m, Size[Storage[i].type]),
                        o[Storage[i].label][m], <<n>>)
    BY <1>4, <2>1
  <2> HIDE DEF o, m
  <2> QED BY <1>1, <2>1, <2>2, StoreOfItem
<1> HIDE DEF items, len, head, base
<1> QED BY <1>2, <1>3, <1>4 DEF o

\* The stores of a field that is no list.
OwnStores(i) == VisitField(Storage[i], <<0>>, created, <<i>>)

LEMMA FieldAsPadded ==
  ASSUME IsCreated(created), NEW lens, NEW i \in Plain, NEW t \in OwnStores(i)
  PROVE  t \in StoresOf(Padded(lens))
<1> DEFINE o == Padded(lens)
<1>1. i \in 1 .. 21 /\ i \notin Listing
  BY DEF Plain, Listing
<1>2. Field(o, Storage[i].label) = Field(created, Storage[i].label)
  BY <1>1, PaddedField, CreatedField
<1>3. Visit(Storage[i], o, <<i>>) = VisitField(Storage[i], <<0>>, o, <<i>>)
  BY DEF Visit, Plain
<1> HIDE DEF o
<1>4. VisitField(Storage[i], <<0>>, o, <<i>>) = VisitField(Storage[i], <<0>>, created, <<i>>)
  BY <1>2 DEF VisitField
<1>5. t \in StoresOf(o)
  BY <1>1, <1>3, <1>4, StorageApart DEF StoresOf, OwnStores
<1> QED BY <1>5 DEF o

LEMMA NewAsPadded ==
  ASSUME IsCreated(created), NEW lens, lens \in [ListLabel -> Nat], NEW t \in NewStores(lens)
  PROVE  \E s \in StoresOf(Padded(lens)) : Alike(s, t)
<1>1. CASE \E i \in Plain : t \in VisitField(Storage[i], <<0>>, created, <<i>>)
  <2>1. t \in StoresOf(Padded(lens))
    BY <1>1, FieldAsPadded DEF OwnStores
  <2> QED BY <2>1 DEF Alike
<1>2. CASE \E i \in Listing : t \in Pushed(i, lens)
  BY <1>2, PushedAsPadded
<1> QED BY <1>1, <1>2 DEF NewStores

\* What is read where a created token put a value.
CreatedFrom(lens) ==
    \A slot \in SlotsOf(NewStores(lens)) :
        slot \in DOMAIN words /\ words[slot] = Packed(LoadFrom(NewStores(lens), slot), {})

LEMMA ReadNew ==
  ASSUME IsCreated(created), NEW lens, lens \in [ListLabel -> Nat], CreatedFrom(lens), NEW s \in NewStores(lens)
  PROVE  Read(s.slot, s.offset) = Resolve(s.value, {})
<1>1. s.slot \in DOMAIN words /\ words[s.slot] = Packed(LoadFrom(NewStores(lens), s.slot), {})
  BY DEF CreatedFrom, SlotsOf
<1>2. ASSUME NEW t \in NewStores(lens), t.slot = s.slot /\ t.offset = s.offset
      PROVE  t.value = s.value
  <2>1. PICK s1 \in StoresOf(Padded(lens)) : Alike(s1, s)
    BY NewAsPadded
  <2>2. PICK t1 \in StoresOf(Padded(lens)) : Alike(t1, t)
    BY NewAsPadded
  <2>3. Meet(s1, t1)
    BY <1>2, <2>1, <2>2 DEF Alike, Meet
  <2>4. s1 = t1
    BY <2>3, PaddedShaped, NoClash
  <2> QED BY <2>1, <2>2, <2>4 DEF Alike
<1>3. ReadFrom(words, s.slot, s.offset) = Resolve(s.value, {})
  BY <1>1, <1>2, ReadPacked
<1> QED BY <1>3 DEF Read

-----------------------------------------------------------------------------
(* Every field that a created token has is read back.                      *)

Made(lens) == IsCreated(created) /\ lens \in [ListLabel -> Nat] /\ CreatedFrom(lens)

LEMMA ReadAlike ==
  ASSUME NEW lens, Made(lens), NEW s, NEW t \in NewStores(lens), Alike(t, s)
  PROVE  Read(s.slot, s.offset) = Resolve(s.value, {})
<1>1. Read(t.slot, t.offset) = Resolve(t.value, {})
  BY ReadNew DEF Made
<1> QED BY <1>1 DEF Alike

LEMMA NewField ==
  ASSUME NEW lens, Made(lens), NEW i \in Plain
  PROVE  /\ Read(<<Storage[i].slot>>, Storage[i].offset) =
              Resolve(Word(Storage[i].type, created[Storage[i].label]), {})
         /\ \A k \in ChunksOf(Storage[i].type, created[Storage[i].label]) :
              Read(Plus(Keccak(<<Storage[i].slot>>), k - 1), 0) = Chunk(created[Storage[i].label], k)
<1> DEFINE o == Padded(lens)
           prop == created[Storage[i].label]
<1>1. i \in 1 .. 21 /\ i \notin Listing /\ IsCreated(created)
  BY DEF Plain, Listing, Made
<1>2. Field(o, Storage[i].label) = prop /\ Field(created, Storage[i].label) = prop
  BY <1>1, PaddedField, CreatedField
<1>3. Shaped(o)
  BY PaddedShaped DEF Made
<1> HIDE DEF o, prop
<1>4. Visit(Storage[i], o, <<i>>) = VisitField(Storage[i], <<0>>, o, <<i>>)
  BY DEF Visit, Plain
<1>5. VisitField(Storage[i], <<0>>, o, <<i>>) = VisitField(Storage[i], <<0>>, created, <<i>>)
  BY <1>2 DEF VisitField
<1>6. Visit(Storage[i], o, <<i>>) \subseteq NewStores(lens)
  BY <1>4, <1>5 DEF NewStores
<1>7. Visit(Storage[i], o, <<i>>) = {FieldOf(o, i)} \cup {ChunkOf(o, i, k) : k \in ChunksOf(Storage[i].type, prop)}
  BY <1>2, <1>3, PlainStores
<1>8. FieldOf(o, i) \in NewStores(lens) /\ \A k \in ChunksOf(Storage[i].type, prop) : ChunkOf(o, i, k) \in NewStores(lens)
  BY <1>6, <1>7
<1>9. \A s \in NewStores(lens) : Read(s.slot, s.offset) = Resolve(s.value, {})
  BY ReadNew DEF Made
<1>10. Read(<<Storage[i].slot>>, Storage[i].offset) = Resolve(Word(Storage[i].type, prop), {})
  BY <1>2, <1>8, <1>9 DEF FieldOf, Store
<1>11. ASSUME NEW k \in ChunksOf(Storage[i].type, prop)
       PROVE  Read(Plus(Keccak(<<Storage[i].slot>>), k - 1), 0) = Chunk(prop, k)
  <2> DEFINE s == ChunkOf(o, i, k)
  <2>1. s.slot = <<Storage[i].slot, k - 1>> /\ s.offset = 0 /\ s.value = Chunk(prop, k)
    BY <1>2 DEF ChunkOf, StoreWhole
  <2>2. s \in NewStores(lens)
    BY <1>8
  <2> HIDE DEF s
  <2>3. Read(s.slot, s.offset) = Resolve(s.value, {})
    BY <1>9, <2>2
  <2>4. Resolve(Chunk(prop, k), {}) = Chunk(prop, k)
    BY DEF Resolve, Chunk
  <2>5. k \in Int /\ Storage[i].slot \in Int
    <3>1. Storage[i].type \in ByteTypes => prop.len \in Nat
      BY <1>2, <1>3 DEF Shaped
    <3> QED BY <1>1, <3>1, ChunksAre, StorageApart
  <2>6. Plus(Keccak(<<Storage[i].slot>>), k - 1) = <<Storage[i].slot, k - 1>>
    BY <2>5, ChunkSlot
  <2> QED BY <2>1, <2>3, <2>4, <2>6
<1> QED BY <1>10, <1>11 DEF prop

LEMMA NewPlain ==
  ASSUME NEW lens, Made(lens), NEW i \in Plain
  PROVE  /\ Storage[i].type \in ByteTypes => PlainAt(i) = created[Storage[i].label]
         /\ Storage[i].type \notin ByteTypes =>
               PlainAt(i) = Resolve(Word(Storage[i].type, created[Storage[i].label]), {})
<1> DEFINE prop == created[Storage[i].label]
<1>1. CASE Storage[i].type \notin ByteTypes
  BY <1>1, NewField DEF PlainAt
<1>2. CASE Storage[i].type \in ByteTypes
  <2>1. IsText(prop)
    BY <1>2, PlainTexts DEF Made, IsCreated
  <2>2. Storage[i].offset = 0
    BY <1>2, StorageApart DEF Plain, Wide
  <2>3. Word(Storage[i].type, prop) = Inline(prop)
    BY <1>2 DEF Word, ByteTypes
  <2>4. Resolve(Inline(prop), {}) = Inline(prop)
    BY DEF Resolve, Inline, Zero, Number
  <2>5. TextAt(<<Storage[i].slot>>, prop)
    BY <1>2, <2>2, <2>3, <2>4, NewField DEF TextAt, ChunksOf
  <2>6. ReadBytes(<<Storage[i].slot>>) = prop
    BY <2>1, <2>5, ReadText
  <2> QED BY <1>2, <2>6 DEF PlainAt
<1> QED BY <1>1, <1>2

CreatedFieldsShown ==
    /\ PlainAt(3) = created.name /\ PlainAt(4) = created.symbol
    /\ PlainAt(6) = created.memo /\ PlainAt(21) = created.ledger_id
    /\ PlainAt(5) \in Addresses(created.treasury)
    /\ PlainAt(12) \in Addresses(created.auto_renew_account)
    /\ PlainAt(13) = Amount(created.auto_renew_period) /\ PlainAt(11) = Amount(created.second)
    /\ PlainAt(8) = Amount(created.max_supply) /\ PlainAt(14) = Amount(created.total_supply)
    /\ PlainAt(7) = Truth(created.token_supply_type = "true")
    /\ PlainAt(9) = Truth(created.freeze_default = "true")
    /\ PlainAt(15) = Truth(created.deleted = "true")
    /\ PlainAt(16) = Truth(created.default_kyc_status = "true")
    /\ PlainAt(17) = Truth(created.pause_status = "true")

LEMMA NewFieldsShown ==
  ASSUME NEW lens, Made(lens)
  PROVE  CreatedFieldsShown
<1>1. ASSUME NEW i \in {3, 4, 6, 21} PROVE PlainAt(i) = created[Storage[i].label]
  <2>1. i \in Plain /\ Storage[i].type \in ByteTypes
    BY StorageIndex DEF Storage, Member, ByteTypes
  <2> QED BY <2>1, NewPlain
<1>2. ASSUME NEW i \in {5, 12} PROVE PlainAt(i) \in Addresses(created[Storage[i].label])
  <2>1. i \in Plain /\ Storage[i].type = "address"
    BY StorageIndex DEF Storage, Member
  <2> DEFINE prop == created[Storage[i].label]
  <2>2. PlainAt(i) = Resolve(Word("address", prop), {})
    BY <2>1, NewPlain DEF ByteTypes
  <2>3. Word("address", prop) = IF prop = Null THEN Zero ELSE <<"account", prop>>
    BY DEF Word, ByteTypes
  <2> HIDE DEF prop
  <2>4. Resolve(IF prop = Null THEN Zero ELSE <<"account", prop>>, {}) \in Addresses(prop)
    BY AddressShown
  <2> QED BY <2>2, <2>3, <2>4 DEF prop
<1>3. \A n : Resolve(Number(n), {}) = Number(n)
  BY DEF Resolve, Number
<1>4. ASSUME NEW i \in {8, 11, 13, 14} PROVE PlainAt(i) = Amount(created[Storage[i].label])
  <2>1. i \in Plain /\ Storage[i].type = "int64"
    BY StorageIndex DEF Storage, Member
  <2> DEFINE prop == created[Storage[i].label]
  <2>2. PlainAt(i) = Resolve(Word("int64", prop), {})
    BY <2>1, NewPlain DEF ByteTypes
  <2>3. Word("int64", prop) = Amount(prop)
    BY DEF Word, ByteTypes
  <2> QED BY <1>3, <2>2, <2>3 DEF Amount
<1>5. ASSUME NEW i \in {7, 9, 15, 16, 17} PROVE PlainAt(i) = Truth(created[Storage[i].label] = "true")
  <2>1. i \in Plain /\ Storage[i].type = "bool"
    BY StorageIndex DEF Storage, Member
  <2> DEFINE prop == created[Storage[i].label]
  <2>2. PlainAt(i) = Resolve(Word("bool", prop), {})
    BY <2>1, NewPlain DEF ByteTypes
  <2>3. Word("bool", prop) = Number(IF prop = "true" THEN 1 ELSE 0)
    BY DEF Word, ByteTypes
  <2> QED BY <1>3, <2>2, <2>3 DEF Truth
<1>6. /\ Storage[3].label = "name" /\ Storage[4].label = "symbol" /\ Storage[5].label = "treasury"
      /\ Storage[6].label = "memo" /\ Storage[7].label = "token_supply_type" /\ Storage[8].label = "max_supply"
      /\ Storage[9].label = "freeze_default" /\ Storage[11].label = "second"
      /\ Storage[12].label = "auto_renew_account" /\ Storage[13].label = "auto_renew_period"
      /\ Storage[14].label = "total_supply" /\ Storage[15].label = "deleted"
      /\ Storage[16].label = "default_kyc_status"
      /\ Storage[17].label = "pause_status" /\ Storage[21].label = "ledger_id"
  BY DEF Storage, Member
<1> QED BY <1>1, <1>2, <1>4, <1>5, <1>6 DEF CreatedFieldsShown

-----------------------------------------------------------------------------
(* Every item that was pushed is read back, and how many there are.        *)

LEMMA NewLength ==
  ASSUME NEW lens, Made(lens), NEW i \in Listing
  PROVE  Read(<<Storage[i].slot>>, 0) =
            Number(lens[Storage[i].label] + Len(created[Storage[i].label]))
<1> DEFINE size == lens[Storage[i].label] + Len(created[Storage[i].label])
           s == StoreWhole(<<>>, <<Storage[i].slot>>, Number(size))
<1>1. s \in Pushed(i, lens)
  BY DEF Pushed
<1>2. s.slot = <<Storage[i].slot>> /\ s.offset = 0 /\ s.value = Number(size)
  BY DEF StoreWhole
<1> HIDE DEF s, size
<1>3. s \in NewStores(lens)
  BY <1>1 DEF NewStores
<1>4. Read(s.slot, s.offset) = Resolve(s.value, {})
  BY <1>3, ReadNew DEF Made
<1>5. Resolve(Number(size), {}) = Number(size)
  BY DEF Resolve, Number
<1> QED BY <1>2, <1>4, <1>5 DEF size

\* Where item n of a created token stands in its array.
Place(lens, i, n) == lens[Storage[i].label] + n

\* The stores of an item of the padded token are stores of the pushed one.
LEMMA PaddedAsNew ==
  ASSUME NEW lens, Made(lens), NEW i \in Listing, NEW n \in DOMAIN created[Storage[i].label],
         NEW m, m = Place(lens, i, n), NEW j \in DOMAIN Items[Storage[i].type],
         NEW s \in VisitField(InItem(i, j), ItemSlot(<<Storage[i].slot>>, m, Size[Storage[i].type]),
                              created[Storage[i].label][n], Append(Append(<<i>>, m), j))
  PROVE  Read(s.slot, s.offset) = Resolve(s.value, {})
<1> DEFINE base == ItemSlot(<<Storage[i].slot>>, m, Size[Storage[i].type])
           item == created[Storage[i].label][n]
<1>1. PICK t \in VisitField(InItem(i, j), base, item, Append(<<n>>, j)) : Alike(t, s)
  <2> HIDE DEF base, item
  <2>1. s \in VisitField(InItem(i, j), base, item, Append(Append(<<i>>, m), j))
    BY DEF base, item
  <2> QED BY <2>1, OtherPath
<1>2. t \in VisitItem(Storage[i].type, base, item, <<n>>)
  BY <1>1 DEF VisitItem, InItem
<1>3. t \in Pushed(i, lens)
  BY <1>2 DEF Pushed, Place
<1>4. t \in NewStores(lens)
  BY <1>3 DEF NewStores
<1> QED BY <1>1, <1>4, ReadAlike

LEMMA NewItem ==
  ASSUME NEW lens, Made(lens), NEW i \in Listing, NEW n \in DOMAIN created[Storage[i].label],
         NEW m, m = Place(lens, i, n), NEW j \in DOMAIN Items[Storage[i].type],
         NEW prop, prop = Field(created[Storage[i].label][n], InItem(i, j).label)
  PROVE  /\ Read(<<Storage[i].slot, SlotInItem(i, m, j)>>, InItem(i, j).offset) =
              Resolve(Word(InItem(i, j).type, prop), {})
         /\ \A k \in ChunksOf(InItem(i, j).type, prop) :
              Read(Plus(Keccak(<<Storage[i].slot, SlotInItem(i, m, j)>>), k - 1), 0) = Chunk(prop, k)
<1> DEFINE o == Padded(lens)
           item == created[Storage[i].label][n]
           a == Storage[i].slot
           b == SlotInItem(i, m, j)
           visited == VisitField(InItem(i, j), ItemSlot(<<Storage[i].slot>>, m, Size[Storage[i].type]),
                                 item, Append(Append(<<i>>, m), j))
<1>1. Shaped(o)
  BY PaddedShaped DEF Made
<1>2. o[Storage[i].label][m] = item
  BY PushedItem DEF Made, Place
<1>11. m \in DOMAIN o[Storage[i].label]
  BY PushedItem DEF Made, Place
<1>3. \A s \in visited : Read(s.slot, s.offset) = Resolve(s.value, {})
  BY PaddedAsNew
<1> HIDE DEF o, item
<1>4. VisitField(InItem(i, j), ItemSlot(<<Storage[i].slot>>, m, Size[Storage[i].type]),
                 o[Storage[i].label][m], Append(Append(<<i>>, m), j)) =
            {ItemFieldOf(o, i, m, j)}
            \cup {ItemChunkOf(o, i, m, j, k) :
                     k \in ChunksOf(InItem(i, j).type, Field(o[Storage[i].label][m], InItem(i, j).label))}
  BY <1>1, <1>11, ItemFieldStores
<1>5. Field(o[Storage[i].label][m], InItem(i, j).label) = prop
  BY <1>2 DEF item
<1>6. visited = {ItemFieldOf(o, i, m, j)}
                \cup {ItemChunkOf(o, i, m, j, k) : k \in ChunksOf(InItem(i, j).type, prop)}
  BY <1>2, <1>4, <1>5
<1> HIDE DEF visited
<1>7. Read(<<a, b>>, InItem(i, j).offset) = Resolve(Word(InItem(i, j).type, prop), {})
  <2> DEFINE s == ItemFieldOf(o, i, m, j)
  <2>1. s.slot = <<a, b>> /\ s.offset = InItem(i, j).offset /\ s.value = Word(InItem(i, j).type, prop)
    BY <1>5 DEF ItemFieldOf, Store
  <2>2. s \in visited
    BY <1>6
  <2> HIDE DEF s, a, b
  <2> QED BY <1>3, <2>1, <2>2
<1>8. m \in Int /\ (InItem(i, j).type \in ByteTypes => prop.len \in Nat)
  <2>1. IsList(o[Storage[i].label])
    BY <1>1 DEF Shaped
  <2>2. InItem(i, j).type \in ByteTypes => Field(o[Storage[i].label][m], InItem(i, j).label).len \in Nat
    BY <1>1, <1>11 DEF Shaped
  <2> QED BY <1>5, <1>11, <2>1, <2>2 DEF IsList
<1>9. a \in Int /\ b \in Int
  <2>1. Storage[i].type \in DOMAIN Items
    BY DEF Listing
  <2>3. a \in Int
    <3>1. i \in 1 .. 21
      BY DEF Listing
    <3>2. Storage[i].slot \in 0 .. 14
      BY <3>1, StorageApart
    <3> QED BY <3>2
  <2>2. Size[Storage[i].type] \in Nat /\ InItem(i, j).slot \in 0 .. Size[Storage[i].type] - 1
    <3> DEFINE type == Storage[i].type
    <3> HIDE DEF type
    <3>1. Size[type] \in Nat /\ \A l \in DOMAIN Items[type] : Items[type][l].slot \in 0 .. Size[type] - 1
      BY <2>1, ItemsApart DEF type
    <3> QED BY <3>1 DEF InItem, type
  <2> QED BY <2>2, <2>3, <1>8 DEF SlotInItem
<1> HIDE DEF a, b
<1>10. ASSUME NEW k \in ChunksOf(InItem(i, j).type, prop)
       PROVE  Read(Plus(Keccak(<<a, b>>), k - 1), 0) = Chunk(prop, k)
  <2> DEFINE s == ItemChunkOf(o, i, m, j, k)
  <2>1. s.slot = <<a, b, k - 1>> /\ s.offset = 0 /\ s.value = Chunk(prop, k)
    BY <1>5 DEF ItemChunkOf, StoreWhole, a, b
  <2>2. s \in visited
    BY <1>6
  <2> HIDE DEF s
  <2>3. Read(s.slot, s.offset) = Resolve(s.value, {})
    BY <1>3, <2>2
  <2>4. Resolve(Chunk(prop, k), {}) = Chunk(prop, k)
    BY DEF Resolve, Chunk
  <2>5. k \in Int
    BY <1>8, ChunksAre
  <2>6. Plus(Keccak(<<a, b>>), k - 1) = <<a, b, k - 1>>
    BY <1>9, <2>5, ItemChunkSlot
  <2> QED BY <2>1, <2>3, <2>4, <2>6
<1> QED BY <1>7, <1>10 DEF a, b

LEMMA NewItemText ==
  ASSUME NEW lens, Made(lens), NEW i \in Listing, NEW n \in DOMAIN created[Storage[i].label],
         NEW m, m = Place(lens, i, n), NEW j \in DOMAIN Items[Storage[i].type],
         InItem(i, j).type \in ByteTypes,
         NEW prop, prop = Field(created[Storage[i].label][n], InItem(i, j).label), IsText(prop)
  PROVE  ItemAt(i, m, j) = prop
<1> DEFINE slot == <<Storage[i].slot, SlotInItem(i, m, j)>>
<1>1. InItem(i, j).offset = 0
  <2> DEFINE type == Storage[i].type
  <2>1. type \in DOMAIN Items
    BY DEF Listing
  <2> HIDE DEF type
  <2>2. Items[type][j].type \in ByteTypes => Items[type][j].offset = 0
    BY <2>1, ItemsApart DEF type
  <2> QED BY <2>2 DEF InItem, type
<1>2. Word(InItem(i, j).type, prop) = Inline(prop)
  BY DEF Word, ByteTypes
<1>3. Resolve(Inline(prop), {}) = Inline(prop)
  BY DEF Resolve, Inline, Zero, Number
<1>4. /\ Read(slot, InItem(i, j).offset) = Resolve(Word(InItem(i, j).type, prop), {})
      /\ \A k \in ChunksOf(InItem(i, j).type, prop) : Read(Plus(Keccak(slot), k - 1), 0) = Chunk(prop, k)
  BY NewItem
<1> HIDE DEF slot
<1>5. TextAt(slot, prop)
  BY <1>1, <1>2, <1>3, <1>4 DEF TextAt, ChunksOf
<1>6. ReadBytes(slot) = prop
  BY <1>5, ReadText
<1> QED BY <1>6 DEF ItemAt, slot

-----------------------------------------------------------------------------
(* What getTokenInfo shows of a created token.                             *)

LEMMA LastItems ==
  ASSUME NEW f, NEW size \in Nat, NEW len \in Nat, NEW n \in 1 .. size
  PROVE  SubSeq(f, (len + size) - size + 1, len + size)[n] = f[len + n]
<1> DEFINE first == len + 1
           last == len + size
           S == {f[x] : x \in first .. last}
<1>1. /\ first \in Int /\ last \in Int /\ n \in 1 .. last - first + 1 /\ first + n - 1 = len + n
      /\ last - size + 1 = first
  OBVIOUS
<1>2. \A x \in first .. last : f[x] \in S
  OBVIOUS
<1> HIDE DEF first, last, S
<1>3. SubSeq(f, first, last)[n] = f[first + n - 1]
  BY <1>1, <1>2, SubSeqProperties
<1> QED BY <1>1, <1>3 DEF last

LEMMA NewKey ==
  ASSUME NEW lens, Made(lens), NEW n \in DOMAIN created.token_keys, NEW m, m = Place(lens, 10, n)
  PROVE  /\ ItemAt(10, m, 1) = Number(created.token_keys[n].key_type)
         /\ ItemAt(10, m, 4) = created.token_keys[n].ed25519
         /\ ItemAt(10, m, 5) = created.token_keys[n]._e_c_d_s_a_secp256k1
<1> DEFINE i == 10
           key == created.token_keys[n]
<1>1. /\ i \in Listing /\ Storage[i].label = "token_keys" /\ Storage[i].type = "TokenKey"
      /\ DOMAIN Items["TokenKey"] = 1 .. 6
  BY StorageIndex DEF Storage, Member, Items
<1>2. /\ InItem(i, 1).label = "key_type" /\ InItem(i, 4).label = "ed25519"
      /\ InItem(i, 5).label = "_e_c_d_s_a_secp256k1" /\ InItem(i, 1).type = "uint256"
      /\ InItem(i, 4).type \in ByteTypes /\ InItem(i, 5).type \in ByteTypes
  BY <1>1 DEF InItem, Items, Member, ByteTypes
<1>3. /\ {"key_type", "ed25519", "_e_c_d_s_a_secp256k1"} \subseteq DOMAIN key
      /\ key.key_type \in Int /\ IsText(key.ed25519) /\ IsText(key._e_c_d_s_a_secp256k1)
  BY DEF Made, IsCreated
<1>4. n \in DOMAIN created[Storage[i].label] /\ created[Storage[i].label][n] = key
  BY <1>1
<1>5. m = Place(lens, i, n)
  OBVIOUS
<1> HIDE DEF i, key
<1>6. /\ Field(key, "key_type") = key.key_type /\ Field(key, "ed25519") = key.ed25519
      /\ Field(key, "_e_c_d_s_a_secp256k1") = key._e_c_d_s_a_secp256k1
  BY <1>3 DEF Field
<1>7. ItemAt(i, m, 1) = Number(key.key_type)
  <2> DEFINE j == 1
             prop == key.key_type
  <2>1. j \in DOMAIN Items[Storage[i].type] /\ InItem(i, j).type = "uint256"
    BY <1>1, <1>2
  <2>2. prop = Field(created[Storage[i].label][n], InItem(i, j).label)
    BY <1>2, <1>4, <1>6
  <2>3. prop \in Int
    BY <1>3
  <2> HIDE DEF j, prop
  <2>4. Read(<<Storage[i].slot, SlotInItem(i, m, j)>>, InItem(i, j).offset) = Resolve(Word(InItem(i, j).type, prop), {})
    BY <1>1, <1>4, <1>5, <2>1, <2>2, NewItem
  <2>5. Word("uint256", prop) = Number(prop)
    BY <2>3, NullAssumption DEF Word, ByteTypes, Amount
  <2>6. Resolve(Number(prop), {}) = Number(prop)
    BY DEF Resolve, Number
  <2>7. InItem(i, j).type \notin ByteTypes
    BY <2>1 DEF ByteTypes
  <2>8. ItemAt(i, m, j) = Number(prop)
    BY <2>1, <2>4, <2>5, <2>6, <2>7 DEF ItemAt
  <2> QED BY <2>8 DEF j, prop
<1>8. ASSUME NEW j \in {4, 5} PROVE ItemAt(i, m, j) = Field(key, InItem(i, j).label)
  <2> DEFINE prop == Field(key, InItem(i, j).label)
  <2>1. j \in DOMAIN Items[Storage[i].type] /\ InItem(i, j).type \in ByteTypes
    BY <1>1, <1>2
  <2>2. IsText(prop)
    BY <1>2, <1>3, <1>6
  <2>3. prop = Field(created[Storage[i].label][n], InItem(i, j).label)
    BY <1>4
  <2> HIDE DEF prop
  <2>4. ItemAt(i, m, j) = prop
    BY <1>1, <1>4, <1>5, <2>1, <2>2, <2>3, NewItemText
  <2> QED BY <2>4 DEF prop
<1> QED BY <1>2, <1>6, <1>7, <1>8 DEF i, key

LEMMA NewFixedFee ==
  ASSUME NEW lens, Made(lens), NEW n \in DOMAIN created.fixed_fees, NEW m, m = Place(lens, 18, n)
  PROVE  ItemAt(18, m, 1) = Amount(created.fixed_fees[n].amount)
<1> DEFINE i == 18
           j == 1
           fee == created.fixed_fees[n]
           prop == fee.amount
<1>1. /\ i \in Listing /\ Storage[i].label = "fixed_fees" /\ Storage[i].type = "FixedFee"
      /\ j \in DOMAIN Items["FixedFee"]
  BY StorageIndex DEF Storage, Member, Items
<1>2. InItem(i, j).label = "amount" /\ InItem(i, j).type = "int64"
  BY <1>1 DEF InItem, Items, Member
<1>3. prop = Field(fee, "amount")
  BY DEF Made, IsCreated, Field
<1>4. n \in DOMAIN created[Storage[i].label] /\ created[Storage[i].label][n] = fee
  BY <1>1
<1>5. m = Place(lens, i, n)
  OBVIOUS
<1> HIDE DEF i, j, fee, prop
<1>6. prop = Field(created[Storage[i].label][n], InItem(i, j).label)
  BY <1>2, <1>3, <1>4
<1>7. Read(<<Storage[i].slot, SlotInItem(i, m, j)>>, InItem(i, j).offset) = Resolve(Word(InItem(i, j).type, prop), {})
  BY <1>1, <1>4, <1>5, <1>6, NewItem
<1>8. Word("int64", prop) = Amount(prop)
  BY DEF Word, ByteTypes
<1>9. Resolve(Amount(prop), {}) = Amount(prop)
  BY DEF Resolve, Amount, Number
<1>10. ItemAt(i, m, j) = Amount(prop)
  BY <1>2, <1>7, <1>8, <1>9 DEF ItemAt, ByteTypes
<1> QED BY <1>10 DEF i, j, prop, fee

LEMMA ArraysAre == Arrays = {Storage[i] : i \in Listing}
<1>1. \A i \in DOMAIN Storage : Storage[i].type \in DOMAIN Items <=> i \in Listing
  BY StorageApart DEF Listing
<1>2. Listing \subseteq DOMAIN Storage
  BY StorageApart DEF Listing
<1> QED BY <1>1, <1>2 DEF Arrays

LEMMA NewArray ==
  ASSUME NEW lens, Made(lens), NEW i \in Listing
  PROVE  /\ Len(Info[Storage[i].label]) = lens[Storage[i].label] + Len(created[Storage[i].label])
         /\ DOMAIN Info[Storage[i].label] = 1 .. lens[Storage[i].label] + Len(created[Storage[i].label])
         /\ \A n \in DOMAIN created[Storage[i].label] :
               Own(Info, Storage[i].label)[n] = Info[Storage[i].label][Place(lens, i, n)]
         /\ \A n \in DOMAIN created[Storage[i].label], j \in DOMAIN Items[Storage[i].type] :
               Info[Storage[i].label][Place(lens, i, n)][InItem(i, j).label] = ItemAt(i, Place(lens, i, n), j)
<1> DEFINE label == Storage[i].label
           info == Info
           list == created[label]
           len == lens[label]
           size == len + Len(list)
           shown == info[label]
<1>1. IsList(list) /\ len \in Nat
  BY CreatedLists DEF Made, ListLabel
<1>2. Read(<<Storage[i].slot>>, 0) = Number(size)
  BY NewLength
<1>3. \A n : Place(lens, i, n) = len + n
  BY DEF Place
<1>4. Own(info, label) = SubSeq(shown, Len(shown) - Len(list) + 1, Len(shown))
  BY DEF Own
<1> HIDE DEF len, list
<1>5. size \in Nat /\ Len(list) \in Nat /\ DOMAIN list = 1 .. Len(list)
  BY <1>1 DEF IsList
<1> HIDE DEF size
<1>6. /\ DOMAIN shown = 1 .. size /\ Len(shown) = size
      /\ \A n \in 1 .. size, j \in DOMAIN Items[Storage[i].type] : shown[n][InItem(i, j).label] = ItemAt(i, n, j)
  BY <1>2, <1>5, ItemLabels
<1> HIDE DEF shown, info, label
<1>7. ASSUME NEW n \in DOMAIN list
      PROVE  Own(info, label)[n] = shown[len + n] /\ len + n \in 1 .. size
  <2>1. n \in 1 .. Len(list)
    BY <1>5
  <2>2. SubSeq(shown, (len + Len(list)) - Len(list) + 1, len + Len(list))[n] = shown[len + n]
    <3> DEFINE old == Len(list)
    <3>1. old \in Nat /\ n \in 1 .. old
      BY <1>5, <2>1
    <3> HIDE DEF old
    <3>2. SubSeq(shown, (len + old) - old + 1, len + old)[n] = shown[len + n]
      BY <1>1, <3>1, LastItems
    <3> QED BY <3>2 DEF old
  <2>3. len + n \in 1 .. size
    BY <1>1, <1>5, <2>1 DEF size
  <2> QED BY <1>4, <1>6, <2>2, <2>3 DEF size
<1>8. \A n \in DOMAIN list : Own(info, label)[n] = shown[Place(lens, i, n)]
  BY <1>3, <1>7
<1>9. \A n \in DOMAIN list, j \in DOMAIN Items[Storage[i].type] :
         shown[Place(lens, i, n)][InItem(i, j).label] = ItemAt(i, Place(lens, i, n), j)
  BY <1>3, <1>6, <1>7
<1> QED BY <1>6, <1>8, <1>9 DEF info, label, size, shown, list, len

LEMMA NewKeyShown ==
  ASSUME NEW lens, Made(lens), NEW n \in DOMAIN created.token_keys
  PROVE  LET shown == Info.token_keys[Place(lens, 10, n)]
         IN  /\ Own(Info, "token_keys")[n] = shown
             /\ shown.key_type = Number(created.token_keys[n].key_type)
             /\ shown.ed25519 = created.token_keys[n].ed25519
             /\ shown._e_c_d_s_a_secp256k1 = created.token_keys[n]._e_c_d_s_a_secp256k1
<1> DEFINE i == 10
           list == created.token_keys
           m == Place(lens, i, n)
           item == Info.token_keys[m]
<1>1. /\ i \in Listing /\ Storage[i].label = "token_keys" /\ Storage[i].type = "TokenKey"
      /\ DOMAIN Items["TokenKey"] = 1 .. 6
  BY StorageIndex DEF Storage, Member, Items
<1>2. /\ InItem(i, 1).label = "key_type" /\ InItem(i, 4).label = "ed25519"
      /\ InItem(i, 5).label = "_e_c_d_s_a_secp256k1"
  BY <1>1 DEF InItem, Items, Member
<1>3. /\ ItemAt(i, m, 1) = Number(list[n].key_type)
      /\ ItemAt(i, m, 4) = list[n].ed25519
      /\ ItemAt(i, m, 5) = list[n]._e_c_d_s_a_secp256k1
  BY NewKey
<1>4. n \in DOMAIN created[Storage[i].label]
  BY <1>1
<1> HIDE DEF i, list
<1>5. /\ Own(Info, Storage[i].label)[n] = Info[Storage[i].label][m]
      /\ \A j \in DOMAIN Items[Storage[i].type] :
            Info[Storage[i].label][m][InItem(i, j).label] = ItemAt(i, m, j)
  BY <1>1, <1>4, NewArray
<1>6. /\ Own(Info, "token_keys")[n] = item
      /\ \A j \in 1 .. 6 : item[InItem(i, j).label] = ItemAt(i, m, j)
  BY <1>1, <1>5
<1> HIDE DEF item, m
<1>7. /\ item.key_type = ItemAt(i, m, 1) /\ item.ed25519 = ItemAt(i, m, 4)
      /\ item._e_c_d_s_a_secp256k1 = ItemAt(i, m, 5)
  BY <1>2, <1>6
<1> QED BY <1>3, <1>6, <1>7 DEF item, list, m, i

LEMMA NewFeeShown ==
  ASSUME NEW lens, Made(lens), NEW n \in DOMAIN created.fixed_fees
  PROVE  Own(Info, "fixed_fees")[n].amount = Amount(created.fixed_fees[n].amount)
<1> DEFINE i == 18
           j == 1
           list == created.fixed_fees
           m == Place(lens, i, n)
           item == Info.fixed_fees[m]
<1>1. /\ i \in Listing /\ Storage[i].label = "fixed_fees" /\ Storage[i].type = "FixedFee"
      /\ j \in DOMAIN Items["FixedFee"]
  BY StorageIndex DEF Storage, Member, Items
<1>2. InItem(i, j).label = "amount"
  BY <1>1 DEF InItem, Items, Member
<1>3. ItemAt(i, m, j) = Amount(list[n].amount)
  BY NewFixedFee
<1>4. n \in DOMAIN created[Storage[i].label]
  BY <1>1
<1> HIDE DEF i, j, list
<1>5. /\ Own(Info, Storage[i].label)[n] = Info[Storage[i].label][m]
      /\ \A l \in DOMAIN Items[Storage[i].type] :
            Info[Storage[i].label][m][InItem(i, l).label] = ItemAt(i, m, l)
  BY <1>1, <1>4, NewArray
<1>6. Own(Info, "fixed_fees")[n] = item /\ item[InItem(i, j).label] = ItemAt(i, m, j)
  BY <1>1, <1>5
<1> HIDE DEF item, m
<1> QED BY <1>2, <1>3, <1>6 DEF list

\* A token that was created where there was none.
Alone(lens) == \A label \in ListLabel : lens[label] = 0

LEMMA AloneLength ==
  ASSUME NEW lens, Made(lens), Alone(lens), NEW array \in Arrays
  PROVE  Len(Info[array.label]) = Len(created[array.label])
<1>1. PICK i \in Listing : array = Storage[i]
  BY ArraysAre
<1> DEFINE label == Storage[i].label
<1>2. Len(Info[label]) = lens[label] + Len(created[label])
  BY NewArray
<1>3. lens[label] = 0
  BY DEF Alone, ListLabel
<1>4. Len(created[label]) \in Nat
  BY CreatedLists DEF Made, IsList
<1> HIDE DEF label
<1> QED BY <1>1, <1>2, <1>3, <1>4 DEF label

LEMMA AloneKey ==
  ASSUME NEW lens, Made(lens), Alone(lens), NEW n \in DOMAIN created.token_keys,
         \A m \in 1 .. n - 1 : created.token_keys[m].key_type # created.token_keys[n].key_type
  PROVE  GetTokenKey(Info, created.token_keys[n].key_type) =
            [ed25519 |-> created.token_keys[n].ed25519,
             ecdsa   |-> created.token_keys[n]._e_c_d_s_a_secp256k1]
<1> DEFINE i == 10
           list == created.token_keys
           keys == Info.token_keys
           type == list[n].key_type
           found == {m \in DOMAIN keys : keys[m].key_type = Number(type)}
           shown == GetTokenKey(Info, type)
<1>1. i \in Listing /\ Storage[i].label = "token_keys"
  BY StorageIndex DEF Storage, Member
<1>2. lens["token_keys"] = 0
  BY <1>1 DEF Alone, ListLabel
<1>3. \A m : Place(lens, i, m) = 0 + m
  BY <1>1, <1>2 DEF Place
<1>4. \A m \in DOMAIN list : /\ keys[Place(lens, i, m)].key_type = Number(list[m].key_type)
                             /\ keys[Place(lens, i, m)].ed25519 = list[m].ed25519
                             /\ keys[Place(lens, i, m)]._e_c_d_s_a_secp256k1 = list[m]._e_c_d_s_a_secp256k1
  BY NewKeyShown
<1>5. shown = IF found = {} THEN [ed25519 |-> Empty, ecdsa |-> Empty]
              ELSE [ed25519 |-> keys[Min(found)].ed25519, ecdsa |-> keys[Min(found)]._e_c_d_s_a_secp256k1]
  BY DEF GetTokenKey
<1>6. DOMAIN keys = 1 .. lens["token_keys"] + Len(list)
  <2> HIDE DEF i
  <2>1. DOMAIN Info[Storage[i].label] = 1 .. lens[Storage[i].label] + Len(created[Storage[i].label])
    BY <1>1, NewArray
  <2> QED BY <1>1, <2>1
<1>7. IsList(list)
  <2> HIDE DEF i
  <2> QED BY <1>1, CreatedLists DEF Made
<1> HIDE DEF i, list, keys, found, shown, type
<1>8. Len(list) \in Nat /\ DOMAIN list = 1 .. Len(list) /\ DOMAIN keys = 1 .. Len(list)
  BY <1>2, <1>6, <1>7 DEF IsList
<1>9. \A m \in 1 .. Len(list) : /\ keys[m].key_type = Number(list[m].key_type)
                                /\ keys[m].ed25519 = list[m].ed25519
                                /\ keys[m]._e_c_d_s_a_secp256k1 = list[m]._e_c_d_s_a_secp256k1
  <2>1. ASSUME NEW m \in 1 .. Len(list) PROVE Place(lens, i, m) = m
    BY <1>3
  <2> QED BY <1>4, <1>8, <2>1
<1>10. n \in 1 .. Len(list)
  BY <1>8 DEF list
<1>11. n \in found
  BY <1>8, <1>9, <1>10 DEF found, type
<1>12. ASSUME NEW m \in found PROVE n <= m
  <2>1. m \in 1 .. Len(list) /\ Number(list[m].key_type) = Number(type)
    BY <1>8, <1>9 DEF found
  <2>2. list[m].key_type = type
    BY <2>1 DEF Number
  <2>3. m \notin 1 .. n - 1
    BY <2>2 DEF list, type
  <2> QED BY <1>10, <2>1, <2>3
<1>13. Min(found) = n
  <2>1. \A m \in found : m \in Int
    BY <1>8 DEF found
  <2>2. \A m \in found : (\A x \in found : m <= x) => m = n
    BY <1>10, <1>11, <1>12, <2>1
  <2> QED BY <1>11, <1>12, <2>2 DEF Min
<1>14. shown = [ed25519 |-> keys[n].ed25519, ecdsa |-> keys[n]._e_c_d_s_a_secp256k1]
  BY <1>5, <1>11, <1>13
<1>15. shown = [ed25519 |-> list[n].ed25519, ecdsa |-> list[n]._e_c_d_s_a_secp256k1]
  BY <1>9, <1>10, <1>14
<1> QED BY <1>15 DEF shown, list, type

LEMMA CreatedShows ==
  ASSUME NEW lens, Made(lens), remote = Null => Alone(lens)
  PROVE  CreatedInfoShown
<1> DEFINE info == Info
<1>1. CreatedFieldsShown
  BY NewFieldsShown
<1>2. info.default_kyc_status = PlainAt(16)
  <2>1. 16 \in Plain /\ Storage[16].label = "default_kyc_status"
    BY StorageIndex DEF Storage, Member
  <2> QED BY <2>1, InfoOf DEF PlainAt, Plain
<1>3. \A n \in DOMAIN created.token_keys :
         /\ Own(info, "token_keys")[n].key_type = Number(created.token_keys[n].key_type)
         /\ Own(info, "token_keys")[n].ed25519 = created.token_keys[n].ed25519
  BY NewKeyShown
<1>4. \A n \in DOMAIN created.fixed_fees :
         Own(info, "fixed_fees")[n].amount = Amount(created.fixed_fees[n].amount)
  BY NewFeeShown
<1>5. remote = Null =>
         /\ \A array \in Arrays : Len(info[array.label]) = Len(created[array.label])
         /\ \A n \in DOMAIN created.token_keys :
               (\A m \in 1 .. n - 1 : created.token_keys[m].key_type # created.token_keys[n].key_type) =>
                   GetTokenKey(info, created.token_keys[n].key_type) =
                      [ed25519 |-> created.token_keys[n].ed25519,
                       ecdsa   |-> created.token_keys[n]._e_c_d_s_a_secp256k1]
  BY AloneLength, AloneKey
<1>6. /\ info.name = PlainAt(3) /\ info.symbol = PlainAt(4) /\ info.treasury = PlainAt(5)
      /\ info.memo = PlainAt(6) /\ info.token_supply_type = PlainAt(7) /\ info.max_supply = PlainAt(8)
      /\ info.freeze_default = PlainAt(9) /\ info.second = PlainAt(11)
      /\ info.auto_renew_account = PlainAt(12) /\ info.auto_renew_period = PlainAt(13)
      /\ info.total_supply = PlainAt(14) /\ info.deleted = PlainAt(15)
      /\ info.pause_status = PlainAt(17) /\ info.ledger_id = PlainAt(21)
  BY InfoLabels
<1> HIDE DEF info
<1>7. /\ \A label \in {"name", "symbol", "memo", "ledger_id"} : info[label] = created[label]
      /\ \A label \in {"treasury", "auto_renew_account"} : info[label] \in Addresses(created[label])
      /\ \A label \in {"auto_renew_period", "second", "max_supply", "total_supply"} :
            info[label] = Amount(created[label])
      /\ \A label \in {"token_supply_type", "freeze_default", "deleted", "default_kyc_status", "pause_status"} :
            info[label] = Truth(created[label] = "true")
  BY <1>1, <1>2, <1>6 DEF CreatedFieldsShown
<1> QED BY <1>3, <1>4, <1>5, <1>7 DEF CreatedInfoShown, info

-----------------------------------------------------------------------------
(* Where the items of a created token are pushed: after those that the     *)
(* fork has, or could read, at its address.                                *)

AskedLengths == IF adapter = "hardhat" THEN Asked({7, 11, 12, 13}) \cap LengthSlots ELSE {}
Lengthened == Over(Answers(AskedLengths, {}), words)

CreatedInv ==
    /\ created # Null => \E lens \in [ListLabel -> Nat] : Made(lens) /\ (remote = Null => Alone(lens))
    /\ created = Null /\ called = {} => DOMAIN words = {}

LEMMA LengthenedIs ==
  /\ DOMAIN Lengthened = AskedLengths \cup DOMAIN words
  /\ \A s \in AskedLengths : Lengthened[s] = Answers(AskedLengths, {})[s]
  /\ \A s \in DOMAIN words \ AskedLengths : Lengthened[s] = words[s]
<1>1. DOMAIN Answers(AskedLengths, {}) = AskedLengths
  BY DEF Answers
<1> QED BY <1>1 DEF Lengthened, Over

LEMMA SameRead ==
  ASSUME AskedLengths = {}, NEW slot, NEW offset
  PROVE  ReadFrom(Lengthened, slot, offset) = Read(slot, offset)
<1>1. (IF slot \in DOMAIN Lengthened THEN Lengthened[slot] ELSE {}) =
         (IF slot \in DOMAIN words THEN words[slot] ELSE {})
  BY LengthenedIs
<1> DEFINE word(map) == IF slot \in DOMAIN map THEN map[slot] ELSE {}
           shown(w) == LET at == {v \in w : v[1] = offset} IN IF at = {} THEN Zero ELSE (CHOOSE v \in at : TRUE)[2]
<1>2. \A map : ReadFrom(map, slot, offset) = shown(word(map))
  BY DEF ReadFrom
<1>3. word(Lengthened) = word(words)
  BY <1>1
<1> HIDE DEF word, shown
<1> QED BY <1>2, <1>3 DEF Read

LEMMA NothingRead ==
  ASSUME DOMAIN words = {}, NEW slot, NEW offset
  PROVE  Read(slot, offset) = Zero
  BY DEF Read, ReadFrom

LEMMA HardhatLengths ==
  ASSUME ReadInv, created = Null, remote # Null, adapter = "hardhat", NEW i \in Listing
  PROVE  \E x \in Nat : ReadFrom(Lengthened, <<Storage[i].slot>>, 0) = Number(x)
<1>1. IsToken(remote)
  BY TokensAssumption DEF ReadInv, TokenInv
<1>2. PICK p \in PausedFlags : StoresOf(Once) = Stores(p)
  BY RequestStores DEF ReadInv
<1>3. StoresOf(Again) = Stores("false") /\ "false" \in PausedFlags
  BY RequestStores DEF ReadInv, PausedFlags
<1> DEFINE s(q) == LengthOf(Shape(q), i)
           slot == <<Storage[i].slot>>
           list == Value(Storage[i].label, "false")
<1>4. \A q : Shape(q)[Storage[i].label] = list
  BY ShapeField, SameValue DEF Listing, Wide
<1>5. \A q : s(q) \in Stores(q)
  BY <1>1, ShapeShaped, Forms DEF LengthStored, Stores
<1>6. \A q : s(q).slot = slot /\ s(q).offset = 0 /\ s(q).value = Number(Len(list))
  BY <1>4 DEF LengthOf, StoreWhole
<1>7. Len(list) \in Nat
  BY <1>1, ListLabels, ListsAre DEF IsList
<1>8. slot \in LengthSlots
  BY ArraysAre DEF LengthSlots
<1>9. slot[1] \in {7, 11, 12, 13}
  BY ListLabels
<1> HIDE DEF s, slot, list
<1>10. slot \in SlotsOf(StoresOf(Once))
  BY <1>2, <1>5, <1>6 DEF SlotsOf
<1>11. slot \in AskedLengths \cup DOMAIN words
  BY <1>8, <1>9, <1>10 DEF AskedLengths, Asked
<1>12. \E q \in PausedFlags, u \in {{}} \cup SUBSET missed : Lengthened[slot] = Packed(LoadFrom(Stores(q), slot), u)
  <2>1. CASE slot \in AskedLengths
    <3>1. \/ Lengthened[slot] = Packed(LoadFrom(StoresOf(Once), slot), {})
          \/ Lengthened[slot] = Packed(LoadFrom(StoresOf(Again), slot), {})
      BY <2>1, LengthenedIs DEF Answers
    <3> QED BY <3>1, <1>2, <1>3
  <2>2. CASE slot \notin AskedLengths
    <3>1. slot \in DOMAIN words /\ Lengthened[slot] = words[slot]
      BY <2>2, <1>11, LengthenedIs
    <3> QED BY <3>1 DEF ReadInv, HardhatWords
  <2> QED BY <2>1, <2>2
<1>13. PICK q \in PausedFlags, u \in {{}} \cup SUBSET missed : Lengthened[slot] = Packed(LoadFrom(Stores(q), slot), u)
  BY <1>12
<1>14. slot \in DOMAIN Lengthened
  BY <1>11, LengthenedIs
<1>15. ReadFrom(Lengthened, s(q).slot, s(q).offset) = Resolve(s(q).value, u)
  <2> DEFINE store == s(q)
  <2>1. store \in Stores(q) /\ store.slot = slot
    BY <1>5, <1>6
  <2> HIDE DEF store
  <2>2. store.slot \in DOMAIN Lengthened /\ Lengthened[store.slot] = Packed(LoadFrom(Stores(q), store.slot), u)
    BY <1>13, <1>14, <2>1
  <2>3. ReadFrom(Lengthened, store.slot, store.offset) = Resolve(store.value, u)
    BY <1>1, <2>1, <2>2, ReadStoreFrom
  <2> QED BY <2>3 DEF store
<1>16. Resolve(Number(Len(list)), u) = Number(Len(list))
  BY DEF Resolve, Number
<1>17. ReadFrom(Lengthened, slot, 0) = Number(Len(list))
  BY <1>6, <1>15, <1>16
<1> QED BY <1>7, <1>17 DEF slot

LEMMA FoundryLengths ==
  ASSUME ReadInv, created = Null, called # {}, adapter = "foundry", NEW i \in Listing
  PROVE  \E x \in Nat : Read(<<Storage[i].slot>>, 0) = Number(x)
<1>1. Filled
  BY FoundryFilled
<1>2. /\ IsList(Listed(remote.custom_fees, "fixed_fees"))
      /\ IsList(Listed(remote.custom_fees, "fractional_fees"))
      /\ IsList(Listed(remote.custom_fees, "royalty_fees"))
  BY <1>1, FeeSizes DEF Filled
<1>3. /\ Read(<<7>>, 0) = Number(7)
      /\ Read(<<11>>, 0) = Number(Len(Listed(remote.custom_fees, "fixed_fees")))
      /\ Read(<<12>>, 0) = Number(Len(Listed(remote.custom_fees, "fractional_fees")))
      /\ Read(<<13>>, 0) = Number(Len(Listed(remote.custom_fees, "royalty_fees")))
  BY <1>1, FoundryKeyItems, FoundryFixedItems, FoundryFractionalItems, FoundryRoyaltyItems
     DEF KeyItemsShown, FixedItemsShown, FractionalItemsShown, RoyaltyItemsShown
<1>4. \A n \in {7, 11, 12, 13} : \E x \in Nat : Read(<<n>>, 0) = Number(x)
  BY <1>2, <1>3 DEF IsList
<1>5. Storage[i].slot \in {7, 11, 12, 13}
  BY ListLabels
<1> QED BY <1>4, <1>5

LEMMA Lengths ==
  ASSUME ReadInv, CreatedInv, created = Null, NEW i \in Listing
  PROVE  \E x \in Nat : /\ ReadFrom(Lengthened, <<Storage[i].slot>>, 0) = Number(x)
                        /\ remote = Null => x = 0
<1>1. CASE remote # Null /\ adapter = "hardhat"
  BY <1>1, HardhatLengths
<1>2. CASE ~(remote # Null /\ adapter = "hardhat")
  <2>1. AskedLengths = {}
    BY <1>2 DEF AskedLengths, Asked
  <2>2. CASE called = {}
    <3>1. ReadFrom(Lengthened, <<Storage[i].slot>>, 0) = Zero
      BY <2>1, <2>2, SameRead, NothingRead DEF CreatedInv
    <3> QED BY <3>1 DEF Zero
  <2>3. CASE called # {}
    <3>1. adapter = "foundry" /\ remote # Null
      BY <1>2, <2>3 DEF ReadInv, Called
    <3> QED BY <2>1, <2>3, <3>1, SameRead, FoundryLengths
  <2> QED BY <2>2, <2>3
<1> QED BY <1>1, <1>2

\* The numbers of items that Create finds in the four arrays.
LEMMA LensFound ==
  ASSUME ReadInv, CreatedInv, created = Null
  PROVE  \E lens \in [ListLabel -> Nat] :
            /\ \A i \in Listing : ReadFrom(Lengthened, <<Storage[i].slot>>, 0) = Number(lens[Storage[i].label])
            /\ remote = Null => Alone(lens)
<1> DEFINE before(i) == ReadFrom(Lengthened, <<Storage[i].slot>>, 0)
           fits(label, x) == /\ \A i \in Listing : Storage[i].label = label => before(i) = Number(x)
                             /\ remote = Null => x = 0
           lens == [label \in ListLabel |-> CHOOSE x \in Nat : fits(label, x)]
<1>1. ASSUME NEW label \in ListLabel
      PROVE  \E x \in Nat : fits(label, x)
  <2>1. PICK i \in Listing : label = Storage[i].label
    BY DEF ListLabel
  <2>2. \A h \in Listing : Storage[h].label = label => h = i
    BY <2>1 DEF Storage, Member, Listing
  <2>3. PICK x \in Nat : before(i) = Number(x) /\ (remote = Null => x = 0)
    BY Lengths
  <2> HIDE DEF before
  <2> QED BY <2>2, <2>3
<1> HIDE DEF fits, before
<1>2. \A label \in ListLabel : lens[label] \in Nat /\ fits(label, lens[label])
  BY <1>1
<1>3. lens \in [ListLabel -> Nat]
  BY <1>2
<1> HIDE DEF lens
<1>4. \A i \in Listing : before(i) = Number(lens[Storage[i].label])
  BY <1>2 DEF fits, ListLabel
<1>5. remote = Null => Alone(lens)
  BY <1>2 DEF fits, Alone
<1> QED BY <1>3, <1>4, <1>5 DEF before

\* What SetTokenInfo stores.
LEMMA PushIs ==
  ASSUME NEW info, NEW lens, NEW map, NEW i \in Listing,
         ReadFrom(map, <<Storage[i].slot>>, 0) = Number(lens[Storage[i].label])
  PROVE  Push(map, Storage[i], info[Storage[i].label]) =
            {StoreWhole(<<>>, <<Storage[i].slot>>, Number(lens[Storage[i].label] + Len(info[Storage[i].label])))}
            \cup UNION {VisitItem(Storage[i].type,
                                  ItemSlot(<<Storage[i].slot>>, lens[Storage[i].label] + n, Size[Storage[i].type]),
                                  info[Storage[i].label][n], <<n>>) :
                           n \in DOMAIN info[Storage[i].label]}
<1> DEFINE len == lens[Storage[i].label]
<1>1. ReadFrom(map, <<Storage[i].slot>>, 0)[2] = len
  BY DEF Number
<1> HIDE DEF len
<1> QED BY <1>1 DEF Push, len

LEMMA PlainIndex ==
  ASSUME NEW j \in 1 .. 21
  PROVE  Storage[j] \in Arrays <=> j \in Listing
<1>1. \A i \in Listing : Storage[j] = Storage[i] => Storage[j].type \in DOMAIN Items
  BY DEF Listing
<1> QED BY <1>1, ArraysAre DEF Listing

LEMMA CreateMakes ==
  ASSUME ReadInv, CreatedInv, NEW new \in NewTokens, Create(new)
  PROVE  CreatedInv'
<1>1. /\ created = Null /\ created' = CreatedInfo(new) /\ UNCHANGED <<adapter, remote, called>>
      /\ words' = SetTokenInfo(Lengthened, created')
  BY DEF Create, Lengthened, AskedLengths
<1>2. IsCreated(created') /\ created' # Null
  BY <1>1, CreatedAssumption DEF IsCreated
<1>3. PICK lens \in [ListLabel -> Nat] :
         /\ \A i \in Listing : ReadFrom(Lengthened, <<Storage[i].slot>>, 0) = Number(lens[Storage[i].label])
         /\ remote = Null => Alone(lens)
  BY <1>1, LensFound
<1> DEFINE info == created'
           push(i) == Push(Lengthened, Storage[i], info[Storage[i].label])
           fields == UNION {VisitField(Storage[i], <<0>>, info, <<i>>) :
                               i \in {j \in DOMAIN Storage : Storage[j] \notin Arrays}}
           pushes == UNION {Push(Lengthened, array, info[array.label]) : array \in Arrays}
           stores == fields \cup pushes
           fresh == [s \in SlotsOf(stores) |-> Packed(LoadFrom(stores, s), {})]
<1>4. words' = Over(fresh, Lengthened)
  BY <1>1 DEF SetTokenInfo
<1>5. \A s \in SlotsOf(stores) : s \in DOMAIN words' /\ words'[s] = Packed(LoadFrom(stores, s), {})
  <2>1. DOMAIN fresh = SlotsOf(stores) /\ \A s \in SlotsOf(stores) : fresh[s] = Packed(LoadFrom(stores, s), {})
    OBVIOUS
  <2> HIDE DEF fresh, stores
  <2> QED BY <1>4, <2>1 DEF Over
<1> HIDE DEF fresh
<1>6. fields = UNION {VisitField(Storage[i], <<0>>, created', <<i>>) : i \in Plain}
  <2>1. {j \in DOMAIN Storage : Storage[j] \notin Arrays} = Plain
    <3>1. \A j : j \in DOMAIN Storage /\ Storage[j] \notin Arrays <=> j \in Plain
      BY StorageApart, PlainIndex DEF Plain, Listing
    <3> QED BY <3>1
  <2> QED BY <2>1
<1>7. pushes = UNION {push(i) : i \in Listing}
  BY ArraysAre
<1>8. \A i \in Listing : push(i) = Pushed(i, lens)'
  <2>1. ASSUME NEW i \in Listing PROVE push(i) = Pushed(i, lens)'
    BY <1>3, PushIs DEF Pushed
  <2> QED BY <2>1
<1>9. stores = NewStores(lens)'
  <2> HIDE DEF fields, pushes, push
  <2>1. {push(i) : i \in Listing} = {Pushed(i, lens)' : i \in Listing}
    BY <1>8
  <2> QED BY <1>6, <1>7, <2>1 DEF NewStores
<1> HIDE DEF stores
<1>10. Made(lens)'
  BY <1>2, <1>5, <1>9 DEF Made, CreatedFrom
<1>11. (remote = Null => Alone(lens))'
  BY <1>1, <1>3 DEF Alone
<1> QED BY <1>2, <1>10, <1>11 DEF CreatedInv

\* The words of a created token stay.
LEMMA MadeStays ==
  ASSUME UNCHANGED created, \A s \in DOMAIN words : s \in DOMAIN words' /\ words'[s] = words[s],
         NEW lens, Made(lens)
  PROVE  Made(lens)'
<1>1. NewStores(lens)' = NewStores(lens)
  BY DEF NewStores, Pushed
<1>2. IsCreated(created)'
  BY DEF Made
<1>3. CreatedFrom(lens)'
  BY <1>1 DEF Made, CreatedFrom
<1> QED BY <1>2, <1>3 DEF Made

LEMMA WordsStay ==
  ASSUME CreatedInv, UNCHANGED <<created, remote>>, called' # {} \/ UNCHANGED <<words, called>>,
         \A s \in DOMAIN words : s \in DOMAIN words' /\ words'[s] = words[s]
  PROVE  CreatedInv'
<1>1. CASE created # Null
  <2>1. PICK lens \in [ListLabel -> Nat] : Made(lens) /\ (remote = Null => Alone(lens))
    BY <1>1 DEF CreatedInv
  <2>2. Made(lens)'
    BY <2>1, MadeStays
  <2>3. (remote = Null => Alone(lens))'
    BY <2>1 DEF Alone
  <2> QED BY <1>1, <2>2, <2>3 DEF CreatedInv
<1>2. CASE created = Null
  BY <1>2 DEF CreatedInv
<1> QED BY <1>1, <1>2

LEMMA CallHardhatKeeps ==
  ASSUME CreatedInv, NEW getter \in DOMAIN SlotsRead, CallHardhat(getter)
  PROVE  CreatedInv'
<1> DEFINE asked == Asked(SlotsRead[getter])
<1>1. UNCHANGED <<created, remote>> /\ getter \in called'
  BY DEF CallHardhat
<1>2. PICK u \in SUBSET (LookedUp(asked) \cap Accounts) : words' = Over(Answers(asked, u), words)
  BY DEF CallHardhat, Requests
<1>3. asked \cap DOMAIN words = {}
  BY DEF Asked
<1> HIDE DEF asked
<1>4. DOMAIN Answers(asked, u) = asked
  BY DEF Answers
<1>5. \A s \in DOMAIN words : s \in DOMAIN words' /\ words'[s] = words[s]
  BY <1>2, <1>3, <1>4 DEF Over
<1>6. called' # {}
  BY <1>1
<1> QED BY <1>1, <1>5, <1>6, WordsStay

LEMMA CallFoundryKeeps ==
  ASSUME CreatedInv, NEW getter \in DOMAIN SlotsRead, CallFoundry(getter)
  PROVE  CreatedInv'
<1>1. UNCHANGED <<created, remote>> /\ getter \in called'
  BY DEF CallFoundry
<1>2. CASE created # Null
  <2>1. UNCHANGED words
    BY <1>2 DEF CallFoundry, IsInitialised
  <2>2. called' # {}
    BY <1>1
  <2> QED BY <1>1, <2>1, <2>2, WordsStay
<1>3. CASE created = Null
  BY <1>1, <1>3 DEF CreatedInv
<1> QED BY <1>2, <1>3

\* The words of a created token come from its own stores, and nothing is
\* read before the first getter: the inductive invariant of Create.
THEOREM CreatedInvAlways == Spec => []CreatedInv
<1>1. Init => CreatedInv
  BY DEF Init, CreatedInv
<1>2. ReadInv /\ CreatedInv /\ [Next]_vars => CreatedInv'
  <2> SUFFICES ASSUME ReadInv, CreatedInv, [Next]_vars PROVE CreatedInv'
    OBVIOUS
  <2>1. CASE UNCHANGED vars
    <3>1. UNCHANGED <<created, remote, words, called>>
      BY <2>1 DEF vars
    <3> QED BY <3>1, WordsStay
  <2>2. ASSUME NEW getter \in DOMAIN SlotsRead, CallHardhat(getter) PROVE CreatedInv'
    BY <2>2, CallHardhatKeeps
  <2>3. ASSUME NEW getter \in DOMAIN SlotsRead, CallFoundry(getter) PROVE CreatedInv'
    BY <2>3, CallFoundryKeeps
  <2>4. ASSUME NEW new \in NewTokens, Create(new) PROVE CreatedInv'
    BY <2>4, CreateMakes
  <2> QED BY <2>1, <2>2, <2>3, <2>4 DEF Next
<1> QED BY <1>1, <1>2, ReadInvAlways, PTL DEF Spec

\* A created token shows what it was created with, whatever was read at its
\* address before, and where nothing was, its own keys and fees only.
THEOREM CreatedInfoShownAlways == Spec => []CreatedInfoShown
<1>1. CreatedInv => CreatedInfoShown
  <2>1. CASE created = Null
    BY <2>1 DEF CreatedInfoShown, CreatedShown
  <2>2. CASE created # Null
    BY <2>2, CreatedShows DEF CreatedInv
  <2> QED BY <2>1, <2>2
<1> QED BY <1>1, CreatedInvAlways, PTL
=============================================================================
