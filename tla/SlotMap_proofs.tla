---------------------------- MODULE SlotMap_proofs -----------------------------
(***************************************************************************)
(* Proofs about SlotMap: the stores of the walk over a token, for every    *)
(* number of keys and fees and every length of the strings.                *)
(*                                                                         *)
(* A store is one of five forms (Forms): a field of the token, a chunk of  *)
(* one, the length of an array, a field of an item, a chunk of one. From   *)
(* its slot one can tell which field, item and chunk it is (StateSlots,    *)
(* ChunkSlots, ItemFieldSlots, ...), so that no two stores of the walk     *)
(* meet (NoClash) and store refuses none (NotRefused).                     *)
(***************************************************************************)
EXTENDS SlotMap, SequenceTheorems, TLAPS

-----------------------------------------------------------------------------
(* Slots and paths are tuples of at most four numbers.                     *)

LEMMA SameSequence ==
  ASSUME NEW p \in Seq(Int), NEW q \in Seq(Int), Len(p) = Len(q), \A n \in 1 .. Len(p) : p[n] = q[n]
  PROVE  p = q
<1>1. p \in [1 .. Len(p) -> Int] /\ q \in [1 .. Len(p) -> Int]
  BY LenProperties
<1> QED BY <1>1

LEMMA AppendOne ==
  ASSUME NEW a \in Int, NEW b \in Int
  PROVE  Append(<<a>>, b) = <<a, b>>
<1> DEFINE p == Append(<<a>>, b)
           q == <<a, b>>
<1>1. p \in Seq(Int) /\ Len(p) = 2 /\ p[1] = a /\ p[2] = b
  OBVIOUS
<1>2. q \in Seq(Int) /\ Len(q) = 2 /\ q[1] = a /\ q[2] = b
  OBVIOUS
<1> HIDE DEF p, q
<1>3. \A k \in 1 .. 2 : p[k] = q[k]
  BY <1>1, <1>2
<1>4. p = q
  BY <1>1, <1>2, <1>3, SameSequence
<1> QED BY <1>4 DEF p, q

LEMMA AppendTwo ==
  ASSUME NEW a \in Int, NEW b \in Int, NEW c \in Int
  PROVE  Append(<<a, b>>, c) = <<a, b, c>>
<1> DEFINE p == Append(<<a, b>>, c)
           q == <<a, b, c>>
<1>1. p \in Seq(Int) /\ Len(p) = 3 /\ p[1] = a /\ p[2] = b /\ p[3] = c
  OBVIOUS
<1>2. q \in Seq(Int) /\ Len(q) = 3 /\ q[1] = a /\ q[2] = b /\ q[3] = c
  OBVIOUS
<1> HIDE DEF p, q
<1>3. \A k \in 1 .. 3 : p[k] = q[k]
  BY <1>1, <1>2
<1>4. p = q
  BY <1>1, <1>2, <1>3, SameSequence
<1> QED BY <1>4 DEF p, q

LEMMA AppendThree ==
  ASSUME NEW a \in Int, NEW b \in Int, NEW c \in Int, NEW d \in Int
  PROVE  Append(<<a, b, c>>, d) = <<a, b, c, d>>
<1> DEFINE p == Append(<<a, b, c>>, d)
           q == <<a, b, c, d>>
<1>1. p \in Seq(Int) /\ Len(p) = 4 /\ p[1] = a /\ p[2] = b /\ p[3] = c /\ p[4] = d
  OBVIOUS
<1>2. q \in Seq(Int) /\ Len(q) = 4 /\ q[1] = a /\ q[2] = b /\ q[3] = c /\ q[4] = d
  OBVIOUS
<1> HIDE DEF p, q
<1>3. \A k \in 1 .. 4 : p[k] = q[k]
  BY <1>1, <1>2
<1>4. p = q
  BY <1>1, <1>2, <1>3, SameSequence
<1> QED BY <1>4 DEF p, q

LEMMA PlusOne ==
  ASSUME NEW a \in Int, NEW n \in Int
  PROVE  Plus(<<a>>, n) = <<a + n>>
  BY DEF Plus

LEMMA PlusTwo ==
  ASSUME NEW a \in Int, NEW b \in Int, NEW n \in Int
  PROVE  Plus(<<a, b>>, n) = <<a, b + n>>
  BY DEF Plus

LEMMA PlusThree ==
  ASSUME NEW a \in Int, NEW b \in Int, NEW c \in Int, NEW n \in Int
  PROVE  Plus(<<a, b, c>>, n) = <<a, b, c + n>>
  BY DEF Plus

\* Chunk k of the string at a state slot, and at a slot of an item.
LEMMA ChunkSlot ==
  ASSUME NEW a \in Int, NEW k \in Int
  PROVE  Plus(Keccak(<<a>>), k - 1) = <<a, k - 1>>
<1>1. Keccak(<<a>>) = <<a, 0>>
  BY AppendOne DEF Keccak
<1>2. Plus(<<a, 0>>, k - 1) = <<a, 0 + (k - 1)>>
  BY DEF Plus
<1> QED BY <1>1, <1>2

LEMMA ItemChunkSlot ==
  ASSUME NEW a \in Int, NEW b \in Int, NEW k \in Int
  PROVE  Plus(Keccak(<<a, b>>), k - 1) = <<a, b, k - 1>>
<1>1. Keccak(<<a, b>>) = <<a, b, 0>>
  BY AppendTwo DEF Keccak
<1>2. Plus(<<a, b, 0>>, k - 1) = <<a, b, 0 + (k - 1)>>
  BY DEF Plus
<1> QED BY <1>1, <1>2

-----------------------------------------------------------------------------
(* The layout: no two fields meet.                                         *)

Wide(m) == m.type \in ByteTypes \cup DOMAIN Items

LEMMA StorageApart ==
  /\ DOMAIN Storage = 1 .. 21
  /\ \A i \in 1 .. 21 : /\ Storage[i].slot \in 0 .. 14 /\ Storage[i].offset \in Nat
                        /\ Wide(Storage[i]) => Storage[i].offset = 0
  /\ \A i, j \in 1 .. 21 : i # j /\ Storage[i].slot = Storage[j].slot =>
        Storage[i].offset # Storage[j].offset /\ ~Wide(Storage[i])
  BY DEF Storage, Member, Wide, ByteTypes, Items

LEMMA ItemsApart ==
  ASSUME NEW type \in DOMAIN Items
  PROVE  /\ \E n \in Nat : DOMAIN Items[type] = 1 .. n
         /\ Size[type] \in Nat
         /\ \A i \in DOMAIN Items[type] :
               /\ Items[type][i].slot \in 0 .. Size[type] - 1 /\ Items[type][i].offset \in Nat
               /\ Items[type][i].type \in ByteTypes => Items[type][i].offset = 0
         /\ \A i, j \in DOMAIN Items[type] : i # j /\ Items[type][i].slot = Items[type][j].slot =>
               Items[type][i].offset # Items[type][j].offset /\ Items[type][i].type \notin ByteTypes
<1>1. CASE type = "TokenKey"
  BY <1>1 DEF Items, Member, ByteTypes, Size
<1>2. CASE type = "FixedFee"
  BY <1>2 DEF Items, Member, ByteTypes, Size
<1>3. CASE type = "FractionalFee"
  BY <1>3 DEF Items, Member, ByteTypes, Size
<1>4. CASE type = "RoyaltyFee"
  BY <1>4 DEF Items, Member, ByteTypes, Size
<1> QED BY <1>1, <1>2, <1>3, <1>4 DEF Items

LEMMA Strides ==
  ASSUME NEW type \in DOMAIN Items, NEW n \in Int, NEW m \in Int,
         NEW x \in 0 .. Size[type] - 1, NEW y \in 0 .. Size[type] - 1,
         (n - 1) * Size[type] + x = (m - 1) * Size[type] + y
  PROVE  n = m /\ x = y
<1>1. CASE Size[type] = 5
  BY <1>1
<1>2. CASE Size[type] = 2
  BY <1>2
<1>3. CASE Size[type] = 3
  BY <1>3
<1> QED BY <1>1, <1>2, <1>3 DEF Items, Size
-----------------------------------------------------------------------------
(* The stores of the walk, in five forms: a field of the token or of item  *)
(* n of an array, a chunk of one of those, or the length of an array.      *)

Plain == {i \in 1 .. 21 : Storage[i].type \notin DOMAIN Items}
Listing == {i \in 1 .. 21 : Storage[i].type \in DOMAIN Items}

FieldOf(obj, i) ==
    Store(<<i, 0>>, <<Storage[i].slot>>, Storage[i].offset,
          Word(Storage[i].type, Field(obj, Storage[i].label)))
ChunkOf(obj, i, k) ==
    StoreWhole(<<i, k>>, <<Storage[i].slot, k - 1>>, Chunk(Field(obj, Storage[i].label), k))
LengthOf(obj, i) ==
    StoreWhole(<<i, 0>>, <<Storage[i].slot>>, Number(Len(obj[Storage[i].label])))

\* Field j of the items of array i, and its slot in item n.
InItem(i, j) == Items[Storage[i].type][j]
SlotInItem(i, n, j) == (n - 1) * Size[Storage[i].type] + InItem(i, j).slot
ItemFieldOf(obj, i, n, j) ==
    Store(<<i, n, j, 0>>, <<Storage[i].slot, SlotInItem(i, n, j)>>, InItem(i, j).offset,
          Word(InItem(i, j).type, Field(obj[Storage[i].label][n], InItem(i, j).label)))
ItemChunkOf(obj, i, n, j, k) ==
    StoreWhole(<<i, n, j, k>>, <<Storage[i].slot, SlotInItem(i, n, j), k - 1>>,
               Chunk(Field(obj[Storage[i].label][n], InItem(i, j).label), k))

\* What StoresOf needs of an object: lists are lists, strings have a length.
Shaped(obj) ==
    /\ \A i \in Plain : Storage[i].type \in ByteTypes => Field(obj, Storage[i].label).len \in Nat
    /\ \A i \in Listing :
          /\ IsList(obj[Storage[i].label])
          /\ \A n \in DOMAIN obj[Storage[i].label], j \in DOMAIN Items[Storage[i].type] :
                InItem(i, j).type \in ByteTypes =>
                    Field(obj[Storage[i].label][n], InItem(i, j).label).len \in Nat

ChunksOf(type, prop) == IF type \in ByteTypes THEN Chunks(prop) ELSE {}

LEMMA ChunksAre ==
  ASSUME NEW type, NEW prop, type \in ByteTypes => prop.len \in Nat
  PROVE  \A k \in ChunksOf(type, prop) : k \in Nat \ {0} /\ type \in ByteTypes
  BY DEF ChunksOf, Chunks, Ceil32

LEMMA PlainStores ==
  ASSUME NEW obj, Shaped(obj), NEW i \in Plain
  PROVE  Visit(Storage[i], obj, <<i>>) =
            {FieldOf(obj, i)}
            \cup {ChunkOf(obj, i, k) : k \in ChunksOf(Storage[i].type, Field(obj, Storage[i].label))}
<1> DEFINE m == Storage[i]
           prop == Field(obj, m.label)
<1>1. m.slot \in Int /\ i \in Int
  BY StorageApart DEF Plain
<1>2. Plus(<<0>>, m.slot) = <<m.slot>>
  BY <1>1 DEF Plus
<1>3. \A k \in ChunksOf(m.type, prop) : k \in Int
  BY ChunksAre DEF Shaped
<1>4. \A k \in Int : Plus(Keccak(<<m.slot>>), k - 1) = <<m.slot, k - 1>> /\ Append(<<i>>, k) = <<i, k>>
  BY <1>1, ChunkSlot, AppendOne
<1>5. Visit(m, obj, <<i>>) =
        {Store(Append(<<i>>, 0), <<m.slot>>, m.offset, Word(m.type, prop))}
        \cup {StoreWhole(Append(<<i>>, k), Plus(Keccak(<<m.slot>>), k - 1), Chunk(prop, k)) :
                 k \in ChunksOf(m.type, prop)}
  BY <1>2 DEF Visit, VisitField, Plain, ChunksOf
<1> HIDE DEF m, prop
<1>6. {StoreWhole(Append(<<i>>, k), Plus(Keccak(<<m.slot>>), k - 1), Chunk(prop, k)) :
                 k \in ChunksOf(m.type, prop)}
      = {StoreWhole(<<i, k>>, <<m.slot, k - 1>>, Chunk(prop, k)) : k \in ChunksOf(m.type, prop)}
  BY <1>3, <1>4
<1>7. Append(<<i>>, 0) = <<i, 0>>
  BY <1>1, AppendOne
<1> QED BY <1>5, <1>6, <1>7 DEF FieldOf, ChunkOf, m, prop

LEMMA ItemSlotIs ==
  ASSUME NEW a \in Int, NEW n \in Int, NEW size \in Int
  PROVE  ItemSlot(<<a>>, n, size) = <<a, (n - 1) * size>>
<1>1. Keccak(<<a>>) = <<a, 0>>
  BY AppendOne DEF Keccak
<1> DEFINE d == (n - 1) * size
<1>2. d \in Int
  OBVIOUS
<1> HIDE DEF d
<1>3. Plus(<<a, 0>>, d) = <<a, 0 + d>>
  BY <1>2 DEF Plus
<1> QED BY <1>1, <1>2, <1>3 DEF ItemSlot, d

LEMMA ItemFieldStores ==
  ASSUME NEW obj, Shaped(obj), NEW i \in Listing, NEW n \in DOMAIN obj[Storage[i].label],
         NEW j \in DOMAIN Items[Storage[i].type]
  PROVE  VisitField(InItem(i, j), ItemSlot(<<Storage[i].slot>>, n, Size[Storage[i].type]),
                    obj[Storage[i].label][n], Append(Append(<<i>>, n), j)) =
            {ItemFieldOf(obj, i, n, j)}
            \cup {ItemChunkOf(obj, i, n, j, k) :
                     k \in ChunksOf(InItem(i, j).type, Field(obj[Storage[i].label][n], InItem(i, j).label))}
<1> DEFINE m == InItem(i, j)
           size == Size[Storage[i].type]
           a == Storage[i].slot
           b == (n - 1) * size
           c == SlotInItem(i, n, j)
           prop == Field(obj[Storage[i].label][n], m.label)
<1>1. /\ a \in Int /\ i \in Int /\ n \in Int /\ Storage[i].type \in DOMAIN Items /\ size \in Int
      /\ j \in Int /\ m.slot \in Int
  <2>1. a \in Int /\ i \in Int /\ Storage[i].type \in DOMAIN Items
    BY StorageApart DEF Listing
  <2>2. n \in Int
    BY DEF Shaped, IsList
  <2> DEFINE type == Storage[i].type
  <2>3. /\ \E l \in Nat : DOMAIN Items[type] = 1 .. l
        /\ Size[type] \in Nat
        /\ \A h \in DOMAIN Items[type] : Items[type][h].slot \in 0 .. Size[type] - 1
    <3> HIDE DEF type
    <3> QED BY <2>1, ItemsApart DEF type
  <2> QED BY <2>1, <2>2, <2>3 DEF InItem
<1>2. b \in Int /\ c = b + m.slot
  BY <1>1 DEF SlotInItem
<1>3. ItemSlot(<<a>>, n, size) = <<a, b>>
  BY <1>1, ItemSlotIs
<1>4. m.type \in ByteTypes => prop.len \in Nat
  BY DEF Shaped
<1>5. \A k \in ChunksOf(m.type, prop) : k \in Int
  BY <1>4, ChunksAre
<1> HIDE DEF b, c, m, size, a, prop
<1>6. Plus(<<a, b>>, m.slot) = <<a, c>> /\ c \in Int
  <2>1. Plus(<<a, b>>, m.slot) = <<a, b + m.slot>>
    BY <1>1, <1>2, PlusTwo
  <2> QED BY <2>1, <1>1, <1>2
<1>7. Append(Append(<<i>>, n), j) = <<i, n, j>>
  <2>1. Append(<<i>>, n) = <<i, n>>
    BY <1>1, AppendOne
  <2>2. Append(<<i, n>>, j) = <<i, n, j>>
    BY <1>1, AppendTwo
  <2> QED BY <2>1, <2>2
<1>8. \A k \in Int : Plus(Keccak(<<a, c>>), k - 1) = <<a, c, k - 1>> /\ Append(<<i, n, j>>, k) = <<i, n, j, k>>
  BY <1>1, <1>6, ItemChunkSlot, AppendThree
<1>9. VisitField(m, <<a, b>>, obj[Storage[i].label][n], <<i, n, j>>) =
        {Store(Append(<<i, n, j>>, 0), <<a, c>>, m.offset, Word(m.type, prop))}
        \cup {StoreWhole(Append(<<i, n, j>>, k), Plus(Keccak(<<a, c>>), k - 1), Chunk(prop, k)) :
                 k \in ChunksOf(m.type, prop)}
  BY <1>6 DEF VisitField, ChunksOf, prop
<1>10. {StoreWhole(Append(<<i, n, j>>, k), Plus(Keccak(<<a, c>>), k - 1), Chunk(prop, k)) :
                 k \in ChunksOf(m.type, prop)}
      = {StoreWhole(<<i, n, j, k>>, <<a, c, k - 1>>, Chunk(prop, k)) : k \in ChunksOf(m.type, prop)}
  BY <1>5, <1>8
<1>11. Append(<<i, n, j>>, 0) = <<i, n, j, 0>>
  BY <1>1, AppendThree
<1> QED BY <1>3, <1>7, <1>9, <1>10, <1>11 DEF ItemFieldOf, ItemChunkOf, a, c, m, prop, size
LEMMA ArrayStores ==
  ASSUME NEW obj, Shaped(obj), NEW i \in Listing, NEW s
  PROVE  s \in Visit(Storage[i], obj, <<i>>) <=>
            \/ s = LengthOf(obj, i)
            \/ \E n \in DOMAIN obj[Storage[i].label], j \in DOMAIN Items[Storage[i].type] :
                  \/ s = ItemFieldOf(obj, i, n, j)
                  \/ \E k \in ChunksOf(InItem(i, j).type, Field(obj[Storage[i].label][n], InItem(i, j).label)) :
                        s = ItemChunkOf(obj, i, n, j, k)
<1> DEFINE type == Storage[i].type
           a == Storage[i].slot
           arr == obj[Storage[i].label]
<1>1. i \in Int /\ type \in DOMAIN Items
  BY StorageApart DEF Listing
<1>2. Visit(Storage[i], obj, <<i>>) = VisitArray(Storage[i], <<a>>, arr, <<i>>)
  BY <1>1 DEF Visit
<1>3. Append(<<i>>, 0) = <<i, 0>>
  BY <1>1, AppendOne
<1>4. s \in VisitArray(Storage[i], <<a>>, arr, <<i>>) <=>
         \/ s = StoreWhole(<<i, 0>>, <<a>>, Number(Len(arr)))
         \/ \E n \in DOMAIN arr : s \in VisitItem(type, ItemSlot(<<a>>, n, Size[type]), arr[n], Append(<<i>>, n))
  BY <1>3 DEF VisitArray
<1>5. ASSUME NEW n \in DOMAIN arr
      PROVE  s \in VisitItem(type, ItemSlot(<<a>>, n, Size[type]), arr[n], Append(<<i>>, n)) <=>
                \E j \in DOMAIN Items[type] :
                   \/ s = ItemFieldOf(obj, i, n, j)
                   \/ \E k \in ChunksOf(InItem(i, j).type, Field(arr[n], InItem(i, j).label)) :
                        s = ItemChunkOf(obj, i, n, j, k)
  <2>1. ASSUME NEW j \in DOMAIN Items[type]
        PROVE  s \in VisitField(InItem(i, j), ItemSlot(<<a>>, n, Size[type]), arr[n], Append(Append(<<i>>, n), j)) <=>
                  \/ s = ItemFieldOf(obj, i, n, j)
                  \/ \E k \in ChunksOf(InItem(i, j).type, Field(arr[n], InItem(i, j).label)) :
                        s = ItemChunkOf(obj, i, n, j, k)
    <3>1. VisitField(InItem(i, j), ItemSlot(<<a>>, n, Size[type]), arr[n], Append(Append(<<i>>, n), j)) =
            {ItemFieldOf(obj, i, n, j)}
            \cup {ItemChunkOf(obj, i, n, j, k) :
                     k \in ChunksOf(InItem(i, j).type, Field(arr[n], InItem(i, j).label))}
      BY ItemFieldStores
    <3> QED BY <3>1
  <2>2. s \in VisitItem(type, ItemSlot(<<a>>, n, Size[type]), arr[n], Append(<<i>>, n)) <=>
            \E j \in DOMAIN Items[type] :
               s \in VisitField(InItem(i, j), ItemSlot(<<a>>, n, Size[type]), arr[n], Append(Append(<<i>>, n), j))
    BY DEF VisitItem, InItem
  <2> HIDE DEF type, a, arr
  <2> QED BY <2>1, <2>2
<1>6. LengthOf(obj, i) = StoreWhole(<<i, 0>>, <<a>>, Number(Len(arr)))
  BY DEF LengthOf
<1> HIDE DEF a, type, arr
<1>7. s \in Visit(Storage[i], obj, <<i>>) <=>
            \/ s = LengthOf(obj, i)
            \/ \E n \in DOMAIN arr, j \in DOMAIN Items[type] :
                  \/ s = ItemFieldOf(obj, i, n, j)
                  \/ \E k \in ChunksOf(InItem(i, j).type, Field(arr[n], InItem(i, j).label)) :
                        s = ItemChunkOf(obj, i, n, j, k)
  BY <1>2, <1>4, <1>5, <1>6
<1> QED BY <1>7 DEF type, arr

\* Element s is one of the stores, by its form.
FieldStored(obj, s) == \E i \in Plain : s = FieldOf(obj, i)
ChunkStored(obj, s) ==
    \E i \in Plain : \E k \in ChunksOf(Storage[i].type, Field(obj, Storage[i].label)) :
        s = ChunkOf(obj, i, k)
LengthStored(obj, s) == \E i \in Listing : s = LengthOf(obj, i)
ItemFieldStored(obj, s) ==
    \E i \in Listing : \E n \in DOMAIN obj[Storage[i].label], j \in DOMAIN Items[Storage[i].type] :
        s = ItemFieldOf(obj, i, n, j)
ItemChunkStored(obj, s) ==
    \E i \in Listing : \E n \in DOMAIN obj[Storage[i].label], j \in DOMAIN Items[Storage[i].type] :
        \E k \in ChunksOf(InItem(i, j).type, Field(obj[Storage[i].label][n], InItem(i, j).label)) :
            s = ItemChunkOf(obj, i, n, j, k)

LEMMA Forms ==
  ASSUME NEW obj, Shaped(obj), NEW s
  PROVE  s \in StoresOf(obj) <=>
            \/ FieldStored(obj, s) \/ ChunkStored(obj, s) \/ LengthStored(obj, s)
            \/ ItemFieldStored(obj, s) \/ ItemChunkStored(obj, s)
<1>1. s \in StoresOf(obj) <=> \E i \in 1 .. 21 : s \in Visit(Storage[i], obj, <<i>>)
  BY StorageApart DEF StoresOf
<1>2. \A i \in 1 .. 21 : (i \in Plain /\ i \notin Listing) \/ (i \in Listing /\ i \notin Plain)
  BY DEF Plain, Listing
<1>3. \A i \in Plain \cup Listing : i \in 1 .. 21
  BY DEF Plain, Listing
<1>4. (\E i \in Plain : s \in Visit(Storage[i], obj, <<i>>)) <=> FieldStored(obj, s) \/ ChunkStored(obj, s)
  <2>1. ASSUME NEW i \in Plain
        PROVE  s \in Visit(Storage[i], obj, <<i>>) <=>
                  \/ s = FieldOf(obj, i)
                  \/ \E k \in ChunksOf(Storage[i].type, Field(obj, Storage[i].label)) : s = ChunkOf(obj, i, k)
    <3>1. Visit(Storage[i], obj, <<i>>) =
            {FieldOf(obj, i)}
            \cup {ChunkOf(obj, i, k) : k \in ChunksOf(Storage[i].type, Field(obj, Storage[i].label))}
      BY PlainStores
    <3> QED BY <3>1
  <2> QED BY <2>1 DEF FieldStored, ChunkStored
<1>5. (\E i \in Listing : s \in Visit(Storage[i], obj, <<i>>)) <=>
         LengthStored(obj, s) \/ ItemFieldStored(obj, s) \/ ItemChunkStored(obj, s)
  <2>1. ASSUME NEW i \in Listing
        PROVE  s \in Visit(Storage[i], obj, <<i>>) <=>
                  \/ s = LengthOf(obj, i)
                  \/ \E n \in DOMAIN obj[Storage[i].label], j \in DOMAIN Items[Storage[i].type] :
                        \/ s = ItemFieldOf(obj, i, n, j)
                        \/ \E k \in ChunksOf(InItem(i, j).type, Field(obj[Storage[i].label][n], InItem(i, j).label)) :
                              s = ItemChunkOf(obj, i, n, j, k)
    BY ArrayStores
  <2> QED BY <2>1 DEF LengthStored, ItemFieldStored, ItemChunkStored
<1> QED BY <1>1, <1>2, <1>3, <1>4, <1>5
-----------------------------------------------------------------------------
(* Two stores with a slot in common do not meet: either they are the same, *)
(* or they are parts of it at two offsets.                                 *)

Meet(s, t) == s.slot = t.slot /\ (s.whole \/ t.whole \/ s.offset = t.offset)

LEMMA StateSlots ==
  ASSUME NEW obj, NEW s, NEW t, Meet(s, t),
         FieldStored(obj, s) \/ LengthStored(obj, s), FieldStored(obj, t) \/ LengthStored(obj, t)
  PROVE  s = t
<1>1. PICK i \in 1 .. 21 : \/ i \in Plain /\ s = FieldOf(obj, i)
                           \/ i \in Listing /\ s = LengthOf(obj, i)
  BY DEF FieldStored, LengthStored, Plain, Listing
<1>2. PICK j \in 1 .. 21 : \/ j \in Plain /\ t = FieldOf(obj, j)
                           \/ j \in Listing /\ t = LengthOf(obj, j)
  BY DEF FieldStored, LengthStored, Plain, Listing
<1>3. Storage[i].slot = Storage[j].slot
  BY <1>1, <1>2 DEF Meet, FieldOf, LengthOf, Store, StoreWhole
<1>4. i = j
  <2>1. SUFFICES ASSUME i # j PROVE FALSE
    OBVIOUS
  <2>2. ~Wide(Storage[i]) /\ ~Wide(Storage[j]) /\ Storage[i].offset # Storage[j].offset
    BY <1>3, <2>1, StorageApart
  <2>3. i \in Plain /\ j \in Plain
    BY <1>1, <1>2, <2>2 DEF Wide, Listing, Plain
  <2> QED BY <1>1, <1>2, <2>2, <2>3 DEF Meet, FieldOf, Store, Plain, Listing
<1> QED BY <1>1, <1>2, <1>4 DEF Plain, Listing

LEMMA ChunkSlots ==
  ASSUME NEW obj, Shaped(obj), NEW s, NEW t, Meet(s, t), ChunkStored(obj, s), ChunkStored(obj, t)
  PROVE  s = t
<1>1. PICK i \in Plain : \E k \in ChunksOf(Storage[i].type, Field(obj, Storage[i].label)) : s = ChunkOf(obj, i, k)
  BY DEF ChunkStored
<1>2. PICK k \in ChunksOf(Storage[i].type, Field(obj, Storage[i].label)) : s = ChunkOf(obj, i, k)
  BY <1>1
<1>3. PICK j \in Plain : \E l \in ChunksOf(Storage[j].type, Field(obj, Storage[j].label)) : t = ChunkOf(obj, j, l)
  BY DEF ChunkStored
<1>4. PICK l \in ChunksOf(Storage[j].type, Field(obj, Storage[j].label)) : t = ChunkOf(obj, j, l)
  BY <1>3
<1>5. k \in Nat /\ Storage[i].type \in ByteTypes
  BY <1>2, ChunksAre DEF Shaped
<1>6. l \in Nat /\ Storage[j].type \in ByteTypes
  BY <1>4, ChunksAre DEF Shaped
<1>7. Storage[i].slot = Storage[j].slot /\ k - 1 = l - 1
  BY <1>2, <1>4 DEF Meet, ChunkOf, StoreWhole
<1>8. k = l
  BY <1>5, <1>6, <1>7
<1>9. i = j
  BY <1>5, <1>7, StorageApart DEF Wide, Plain
<1> QED BY <1>2, <1>4, <1>8, <1>9

\* Slots of the items: the item, and the field or the slot of it.
LEMMA ItemSlots ==
  ASSUME NEW i \in Listing, NEW i2 \in Listing, Storage[i].slot = Storage[i2].slot,
         NEW j \in DOMAIN Items[Storage[i].type], NEW j2 \in DOMAIN Items[Storage[i2].type],
         NEW n \in Int, NEW n2 \in Int, SlotInItem(i, n, j) = SlotInItem(i2, n2, j2)
  PROVE  /\ i = i2 /\ n = n2
         /\ j = j2 \/ /\ InItem(i, j).offset # InItem(i, j2).offset
                      /\ InItem(i, j).type \notin ByteTypes
<1>1. i \in 1 .. 21 /\ i2 \in 1 .. 21 /\ Wide(Storage[i]) /\ Storage[i].type \in DOMAIN Items
  BY DEF Listing, Wide
<1>2. i = i2
  BY <1>1, StorageApart
<1> DEFINE type == Storage[i].type
           x == Items[type][j].slot
           y == Items[type][j2].slot
<1>3. x \in 0 .. Size[type] - 1 /\ y \in 0 .. Size[type] - 1
  BY <1>1, <1>2, ItemsApart
<1>4. (n - 1) * Size[type] + x = (n2 - 1) * Size[type] + y
  BY <1>2 DEF SlotInItem, InItem
<1> HIDE DEF type, x, y
<1>5. n = n2 /\ x = y
  BY <1>1, <1>3, <1>4, Strides DEF type
<1>6. Items[type][j].slot = Items[type][j2].slot
  BY <1>5 DEF x, y
<1>7. j # j2 => Items[type][j].offset # Items[type][j2].offset /\ Items[type][j].type \notin ByteTypes
  BY <1>1, <1>2, <1>6, ItemsApart DEF type
<1> QED BY <1>2, <1>5, <1>7 DEF InItem, type

LEMMA ItemFieldSlots ==
  ASSUME NEW obj, Shaped(obj), NEW s, NEW t, Meet(s, t), ItemFieldStored(obj, s), ItemFieldStored(obj, t)
  PROVE  s = t
<1>1. PICK i \in Listing : \E n \in DOMAIN obj[Storage[i].label], j \in DOMAIN Items[Storage[i].type] :
          s = ItemFieldOf(obj, i, n, j)
  BY DEF ItemFieldStored
<1>2. PICK n \in DOMAIN obj[Storage[i].label], j \in DOMAIN Items[Storage[i].type] : s = ItemFieldOf(obj, i, n, j)
  BY <1>1
<1>3. PICK i2 \in Listing : \E m \in DOMAIN obj[Storage[i2].label], h \in DOMAIN Items[Storage[i2].type] :
          t = ItemFieldOf(obj, i2, m, h)
  BY DEF ItemFieldStored
<1>4. PICK n2 \in DOMAIN obj[Storage[i2].label], j2 \in DOMAIN Items[Storage[i2].type] : t = ItemFieldOf(obj, i2, n2, j2)
  BY <1>3
<1>5. n \in Int /\ n2 \in Int
  BY DEF Shaped, IsList
<1>6. Storage[i].slot = Storage[i2].slot /\ SlotInItem(i, n, j) = SlotInItem(i2, n2, j2)
      /\ InItem(i, j).offset = InItem(i2, j2).offset
  BY <1>2, <1>4 DEF Meet, ItemFieldOf, Store
<1>7. i = i2 /\ n = n2 /\ (j = j2 \/ InItem(i, j).offset # InItem(i, j2).offset)
  BY <1>5, <1>6, ItemSlots
<1> QED BY <1>2, <1>4, <1>6, <1>7

LEMMA ItemChunkSlots ==
  ASSUME NEW obj, Shaped(obj), NEW s, NEW t, Meet(s, t), ItemChunkStored(obj, s), ItemChunkStored(obj, t)
  PROVE  s = t
<1> DEFINE In(i, n, j) == ChunksOf(InItem(i, j).type, Field(obj[Storage[i].label][n], InItem(i, j).label))
<1>1. PICK i \in Listing : \E n \in DOMAIN obj[Storage[i].label], j \in DOMAIN Items[Storage[i].type] :
          \E k \in In(i, n, j) : s = ItemChunkOf(obj, i, n, j, k)
  BY DEF ItemChunkStored
<1>2. PICK n \in DOMAIN obj[Storage[i].label], j \in DOMAIN Items[Storage[i].type] :
          \E k \in In(i, n, j) : s = ItemChunkOf(obj, i, n, j, k)
  BY <1>1
<1>3. PICK k \in In(i, n, j) : s = ItemChunkOf(obj, i, n, j, k)
  BY <1>2
<1>4. PICK i2 \in Listing : \E m \in DOMAIN obj[Storage[i2].label], h \in DOMAIN Items[Storage[i2].type] :
          \E k2 \in In(i2, m, h) : t = ItemChunkOf(obj, i2, m, h, k2)
  BY DEF ItemChunkStored
<1>5. PICK n2 \in DOMAIN obj[Storage[i2].label], j2 \in DOMAIN Items[Storage[i2].type] :
          \E k2 \in In(i2, n2, j2) : t = ItemChunkOf(obj, i2, n2, j2, k2)
  BY <1>4
<1>6. PICK l \in In(i2, n2, j2) : t = ItemChunkOf(obj, i2, n2, j2, l)
  BY <1>5
<1>7. n \in Int /\ n2 \in Int
  BY DEF Shaped, IsList
<1>8. k \in Nat /\ InItem(i, j).type \in ByteTypes
  BY <1>3, ChunksAre DEF Shaped
<1>9. l \in Nat
  BY <1>6, ChunksAre DEF Shaped
<1>10. Storage[i].slot = Storage[i2].slot /\ SlotInItem(i, n, j) = SlotInItem(i2, n2, j2) /\ k - 1 = l - 1
  BY <1>3, <1>6 DEF Meet, ItemChunkOf, StoreWhole
<1>11. i = i2 /\ n = n2 /\ j = j2
  <2>1. i = i2 /\ n = n2 /\ (j = j2 \/ InItem(i, j).type \notin ByteTypes)
    <3> HIDE DEF In
    <3> QED BY <1>7, <1>10, ItemSlots
  <2> QED BY <2>1, <1>8
<1>12. k = l
  BY <1>8, <1>9, <1>10
<1> QED BY <1>3, <1>6, <1>11, <1>12

LEMMA ChunkItemSlots ==
  ASSUME NEW obj, Shaped(obj), NEW s, NEW t, s.slot = t.slot, ChunkStored(obj, s), ItemFieldStored(obj, t)
  PROVE  FALSE
<1>1. PICK i \in Plain : \E k \in ChunksOf(Storage[i].type, Field(obj, Storage[i].label)) : s = ChunkOf(obj, i, k)
  BY DEF ChunkStored
<1>2. PICK k \in ChunksOf(Storage[i].type, Field(obj, Storage[i].label)) : s = ChunkOf(obj, i, k)
  BY <1>1
<1>3. PICK i2 \in Listing : \E m \in DOMAIN obj[Storage[i2].label], h \in DOMAIN Items[Storage[i2].type] :
          t = ItemFieldOf(obj, i2, m, h)
  BY DEF ItemFieldStored
<1>4. PICK n2 \in DOMAIN obj[Storage[i2].label], j2 \in DOMAIN Items[Storage[i2].type] : t = ItemFieldOf(obj, i2, n2, j2)
  BY <1>3
<1>5. Storage[i].slot = Storage[i2].slot
  BY <1>2, <1>4 DEF ItemFieldOf, ChunkOf, Store, StoreWhole
<1>6. Wide(Storage[i2])
  BY DEF Listing, Wide
<1> QED BY <1>5, <1>6, StorageApart DEF Plain, Listing

LEMMA SlotLengths ==
  ASSUME NEW obj, NEW s
  PROVE  /\ FieldStored(obj, s) \/ LengthStored(obj, s) => Len(s.slot) = 1
         /\ ChunkStored(obj, s) \/ ItemFieldStored(obj, s) => Len(s.slot) = 2
         /\ ItemChunkStored(obj, s) => Len(s.slot) = 3
  BY DEF FieldStored, LengthStored, ChunkStored, ItemFieldStored, ItemChunkStored,
         FieldOf, LengthOf, ChunkOf, ItemFieldOf, ItemChunkOf, Store, StoreWhole

LEMMA NoClash ==
  ASSUME NEW obj, Shaped(obj), NEW s \in StoresOf(obj), NEW t \in StoresOf(obj), Meet(s, t)
  PROVE  s = t
<1>1. /\ FieldStored(obj, s) \/ ChunkStored(obj, s) \/ LengthStored(obj, s)
           \/ ItemFieldStored(obj, s) \/ ItemChunkStored(obj, s)
      /\ FieldStored(obj, t) \/ ChunkStored(obj, t) \/ LengthStored(obj, t)
           \/ ItemFieldStored(obj, t) \/ ItemChunkStored(obj, t)
  BY Forms
<1>2. s.slot = t.slot /\ Meet(t, s)
  BY DEF Meet
<1>3. CASE Len(s.slot) = 1
  BY <1>1, <1>2, <1>3, SlotLengths, StateSlots
<1>4. CASE Len(s.slot) = 2
  <2>1. /\ ChunkStored(obj, s) \/ ItemFieldStored(obj, s)
        /\ ChunkStored(obj, t) \/ ItemFieldStored(obj, t)
    BY <1>1, <1>2, <1>4, SlotLengths
  <2> QED BY <2>1, <1>2, ChunkSlots, ItemFieldSlots, ChunkItemSlots
<1>5. CASE Len(s.slot) = 3
  BY <1>1, <1>2, <1>5, SlotLengths, ItemChunkSlots
<1> QED BY <1>1, <1>3, <1>4, <1>5, SlotLengths

\* The path of a store is made of integers, so no store is before itself.
LEMMA PathOrder ==
  ASSUME NEW obj, Shaped(obj), NEW s \in StoresOf(obj)
  PROVE  ~Before(s.path, s.path)
<1>1. \A k \in DOMAIN s.path : s.path[k] \in Int
  <2>1. CASE FieldStored(obj, s)
    BY <2>1 DEF FieldStored, FieldOf, Store, Plain
  <2>2. CASE LengthStored(obj, s)
    BY <2>2 DEF LengthStored, LengthOf, StoreWhole, Listing
  <2>3. CASE ChunkStored(obj, s)
    <3>1. PICK i \in Plain : \E k \in ChunksOf(Storage[i].type, Field(obj, Storage[i].label)) : s = ChunkOf(obj, i, k)
      BY <2>3 DEF ChunkStored
    <3>2. PICK k \in ChunksOf(Storage[i].type, Field(obj, Storage[i].label)) : s = ChunkOf(obj, i, k)
      BY <3>1
    <3>3. i \in Int /\ k \in Int
      BY <3>2, ChunksAre DEF Shaped, Plain
    <3> QED BY <3>2, <3>3 DEF ChunkOf, StoreWhole
  <2>4. CASE ItemFieldStored(obj, s)
    <3>1. PICK i \in Listing : \E n \in DOMAIN obj[Storage[i].label], j \in DOMAIN Items[Storage[i].type] :
              s = ItemFieldOf(obj, i, n, j)
      BY <2>4 DEF ItemFieldStored
    <3>2. PICK n \in DOMAIN obj[Storage[i].label], j \in DOMAIN Items[Storage[i].type] :
              s = ItemFieldOf(obj, i, n, j)
      BY <3>1
    <3>3. i \in Int /\ n \in Int
      BY DEF Shaped, IsList, Listing
    <3>4. j \in Int
      BY ItemsApart DEF Listing
    <3> QED BY <3>2, <3>3, <3>4 DEF ItemFieldOf, Store
  <2>5. CASE ItemChunkStored(obj, s)
    <3> DEFINE In(i, n, j) == ChunksOf(InItem(i, j).type, Field(obj[Storage[i].label][n], InItem(i, j).label))
    <3>1. PICK i \in Listing : \E n \in DOMAIN obj[Storage[i].label], j \in DOMAIN Items[Storage[i].type] :
              \E k \in In(i, n, j) : s = ItemChunkOf(obj, i, n, j, k)
      BY <2>5 DEF ItemChunkStored
    <3>2. PICK n \in DOMAIN obj[Storage[i].label], j \in DOMAIN Items[Storage[i].type] :
              \E k \in In(i, n, j) : s = ItemChunkOf(obj, i, n, j, k)
      BY <3>1
    <3>3. PICK k \in In(i, n, j) : s = ItemChunkOf(obj, i, n, j, k)
      BY <3>2
    <3>4. i \in Int /\ n \in Int
      BY DEF Shaped, IsList, Listing
    <3>5. j \in Int
      BY ItemsApart DEF Listing
    <3>6. k \in Int
      BY <3>3, ChunksAre DEF Shaped
    <3> QED BY <3>3, <3>4, <3>5, <3>6 DEF ItemChunkOf, StoreWhole
  <2> QED BY <2>1, <2>2, <2>3, <2>4, <2>5, Forms
<1> QED BY <1>1 DEF Before

LEMMA NotRefused ==
  ASSUME NEW obj, Shaped(obj)
  PROVE  ~Refused(StoresOf(obj))
<1>1. SUFFICES ASSUME NEW s \in StoresOf(obj), NEW t \in StoresOf(obj), s.slot = t.slot,
                      Before(s.path, t.path), t.whole \/ s.offset = t.offset
               PROVE  FALSE
  BY DEF Refused
<1>2. Meet(s, t)
  BY <1>1 DEF Meet
<1>3. s = t
  BY <1>2, NoClash
<1> QED BY <1>1, <1>3, PathOrder
=============================================================================
