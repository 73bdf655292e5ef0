--------------------------- MODULE TokenInfo_proofs ----------------------------
(***************************************************************************)
(* Proofs about TokenInfo, for every set of tokens of the Mirror Node,     *)
(* every created token and both adapters. Here is the inductive invariant  *)
(* ReadInv, which says of every word of the storage where it comes from,   *)
(* how the getters read words, and that on Hardhat they read every field;  *)
(* FoundryInfo_proofs has Foundry and the theorems.                        *)
(*                                                                         *)
(* On Hardhat the words come from requests at different times, each of     *)
(* which walked over an object that the earlier ones had normalised: a     *)
(* word is the packing of the stores of one walk, with one of the values   *)
(* of pause_status (HardhatWords). In Foundry they are what _initTokenData *)
(* wrote (FoundryWords).                                                   *)
(***************************************************************************)
EXTENDS TokenInfo, SlotMap_proofs

-----------------------------------------------------------------------------
(* Normalising an object any number of times keeps what the layout asks,   *)
(* up to pause_status, which is a JavaScript Boolean after the first time. *)

Agrees(obj) ==
    /\ RawLabels \subseteq DOMAIN obj
    /\ \A label \in RawLabels : obj[label] = remote[label]
    /\ obj.pause_status = "PAUSED" => remote.pause_status = "PAUSED"

Keys == [i \in DOMAIN KeyTypes |-> KeyEntry(remote[KeyTypes[i][1]], KeyTypes[i][2])]
FixedFees ==
    LET fees == Listed(remote.custom_fees, "fixed_fees")
    IN  [i \in DOMAIN fees |-> FixedFeeOf(fees[i], remote.token_id)]
FractionalFees ==
    LET fees == Listed(remote.custom_fees, "fractional_fees")
    IN  [i \in DOMAIN fees |-> FractionalFeeOf(fees[i])]
RoyaltyFees ==
    LET fees == Listed(remote.custom_fees, "royalty_fees")
    IN  [i \in DOMAIN fees |-> RoyaltyFeeOf(fees[i])]

\* Field label of a normalised object with pause_status paused.
Value(label, paused) ==
    CASE label = "token_type"          -> remote.type
      [] label = "token_supply_type"   -> Flag(remote.supply_type = "FINITE")
      [] label = "default_kyc_status"  -> Flag(FALSE)
      [] label = "treasury"            -> remote.treasury_account_id
      [] label = "ledger_id"           -> LedgerId
      [] label = "second"              -> remote.expiry_timestamp \div NanosPerSecond
      [] label = "pause_status"        -> paused
      [] label = "token_keys"          -> Keys
      [] label = "fixed_fees"          -> FixedFees
      [] label = "fractional_fees"     -> FractionalFees
      [] label = "royalty_fees"        -> RoyaltyFees
      [] label \in {"decimals", "name", "symbol", "memo", "max_supply", "freeze_default",
                    "auto_renew_account", "auto_renew_period", "total_supply", "deleted"} -> remote[label]

LEMMA LabelsAre ==
  ASSUME NEW i \in 1 .. 21
  PROVE  Storage[i].label \in
           {"token_type", "decimals", "name", "symbol", "treasury", "memo", "token_supply_type",
            "max_supply", "freeze_default", "token_keys", "second", "auto_renew_account",
            "auto_renew_period", "total_supply", "deleted", "default_kyc_status", "pause_status",
            "fixed_fees", "fractional_fees", "royalty_fees", "ledger_id"}
  BY DEF Storage, Member

LEMMA KeyTypesAre ==
  /\ DOMAIN KeyTypes = 1 .. 7
  /\ \A i \in 1 .. 7 : KeyTypes[i][1] \in RawLabels /\ KeyTypes[i][2] \in Int
  /\ \A i, j \in 1 .. 7 : i # j => KeyTypes[i][2] # KeyTypes[j][2]
  BY DEF KeyTypes, RawLabels

LEMMA NormalisedFields ==
  ASSUME NEW obj, Agrees(obj), NEW label,
         label \in {Storage[i].label : i \in 1 .. 21}
  PROVE  /\ label \in DOMAIN Normalise(obj, LedgerId)
         /\ Normalise(obj, LedgerId)[label] = Value(label, Flag(obj.pause_status = "PAUSED"))
<1>1. /\ obj.type = remote.type /\ obj.supply_type = remote.supply_type
      /\ obj.treasury_account_id = remote.treasury_account_id
      /\ obj.expiry_timestamp = remote.expiry_timestamp
      /\ obj.custom_fees = remote.custom_fees /\ obj.token_id = remote.token_id
  BY DEF Agrees, RawLabels
<1>2. \A i \in DOMAIN KeyTypes : obj[KeyTypes[i][1]] = remote[KeyTypes[i][1]]
  BY DEF Agrees, RawLabels
<1> DEFINE fixed      == Listed(obj.custom_fees, "fixed_fees")
           fractional == Listed(obj.custom_fees, "fractional_fees")
           royalty    == Listed(obj.custom_fees, "royalty_fees")
           keys == [i \in DOMAIN KeyTypes |-> KeyEntry(obj[KeyTypes[i][1]], KeyTypes[i][2])]
           fixedFees == [i \in DOMAIN fixed |-> FixedFeeOf(fixed[i], obj.token_id)]
           fractionalFees == [i \in DOMAIN fractional |-> FractionalFeeOf(fractional[i])]
           royaltyFees == [i \in DOMAIN royalty |-> RoyaltyFeeOf(royalty[i])]
           second == obj.expiry_timestamp \div NanosPerSecond
           new == [token_type         |-> obj.type,
                   token_supply_type  |-> Flag(obj.supply_type = "FINITE"),
                   default_kyc_status |-> Flag(FALSE),
                   treasury           |-> obj.treasury_account_id,
                   ledger_id          |-> LedgerId,
                   second             |-> second,
                   pause_status       |-> Flag(obj.pause_status = "PAUSED"),
                   token_keys         |-> keys,
                   fixed_fees         |-> fixedFees,
                   fractional_fees    |-> fractionalFees,
                   royalty_fees       |-> royaltyFees]
<1>3. Normalise(obj, LedgerId) = Over(new, obj)
  BY DEF Normalise
<1>4. keys = Keys /\ fixedFees = FixedFees /\ fractionalFees = FractionalFees /\ royaltyFees = RoyaltyFees
      /\ second = remote.expiry_timestamp \div NanosPerSecond
  BY <1>1, <1>2 DEF Keys, FixedFees, FractionalFees, RoyaltyFees
<1> HIDE DEF keys, fixedFees, fractionalFees, royaltyFees, second
<1>5. CASE label \in DOMAIN new
  <2>1. label \in DOMAIN Over(new, obj) /\ Over(new, obj)[label] = new[label]
    BY <1>5 DEF Over
  <2>2. new[label] = Value(label, Flag(obj.pause_status = "PAUSED"))
    <3>1. /\ new.token_type = obj.type
          /\ new.token_supply_type = Flag(obj.supply_type = "FINITE")
          /\ new.default_kyc_status = Flag(FALSE)
          /\ new.treasury = obj.treasury_account_id
          /\ new.ledger_id = LedgerId
          /\ new.second = second
          /\ new.pause_status = Flag(obj.pause_status = "PAUSED")
          /\ new.token_keys = keys
          /\ new.fixed_fees = fixedFees
          /\ new.fractional_fees = fractionalFees
          /\ new.royalty_fees = royaltyFees
      OBVIOUS
    <3>2. label \in {"token_type", "token_supply_type", "default_kyc_status", "treasury", "ledger_id",
                     "second", "pause_status", "token_keys", "fixed_fees", "fractional_fees", "royalty_fees"}
      BY <1>5
    <3> HIDE DEF new
    <3>3. CASE label \in {"token_type", "token_supply_type", "default_kyc_status", "treasury"}
      BY <3>1, <3>3, <1>1 DEF Value
    <3>4. CASE label \in {"ledger_id", "second", "pause_status", "token_keys"}
      BY <3>1, <3>4, <1>4 DEF Value
    <3>5. CASE label \in {"fixed_fees", "fractional_fees", "royalty_fees"}
      BY <3>1, <3>5, <1>4 DEF Value
    <3> QED BY <3>2, <3>3, <3>4, <3>5
  <2> QED BY <2>1, <2>2, <1>3
<1>6. CASE label \notin DOMAIN new
  <2>1. label \in {"decimals", "name", "symbol", "memo", "max_supply", "freeze_default",
                   "auto_renew_account", "auto_renew_period", "total_supply", "deleted"}
    BY <1>6, LabelsAre
  <2>2. label \in RawLabels
    BY <2>1 DEF RawLabels
  <2>3. label \in DOMAIN obj /\ obj[label] = remote[label]
    BY <2>2 DEF Agrees
  <2> HIDE DEF new
  <2>4. label \in DOMAIN Over(new, obj) /\ Over(new, obj)[label] = obj[label]
    BY <1>6, <2>3 DEF Over
  <2>5. Value(label, Flag(obj.pause_status = "PAUSED")) = remote[label]
    BY <2>1 DEF Value
  <2> QED BY <2>3, <2>4, <2>5, <1>3
<1> QED BY <1>5, <1>6

\* The objects that the requests leave agree with the one of the Mirror Node.
LEMMA NormalisedAgrees ==
  ASSUME NEW obj, Agrees(obj)
  PROVE  Agrees(Normalise(obj, LedgerId)) /\ Normalise(obj, LedgerId).pause_status # "PAUSED"
<1> DEFINE fixed      == Listed(obj.custom_fees, "fixed_fees")
           fractional == Listed(obj.custom_fees, "fractional_fees")
           royalty    == Listed(obj.custom_fees, "royalty_fees")
           keys == [i \in DOMAIN KeyTypes |-> KeyEntry(obj[KeyTypes[i][1]], KeyTypes[i][2])]
           fixedFees == [i \in DOMAIN fixed |-> FixedFeeOf(fixed[i], obj.token_id)]
           fractionalFees == [i \in DOMAIN fractional |-> FractionalFeeOf(fractional[i])]
           royaltyFees == [i \in DOMAIN royalty |-> RoyaltyFeeOf(royalty[i])]
           second == obj.expiry_timestamp \div NanosPerSecond
           new == [token_type         |-> obj.type,
                   token_supply_type  |-> Flag(obj.supply_type = "FINITE"),
                   default_kyc_status |-> Flag(FALSE),
                   treasury           |-> obj.treasury_account_id,
                   ledger_id          |-> LedgerId,
                   second             |-> second,
                   pause_status       |-> Flag(obj.pause_status = "PAUSED"),
                   token_keys         |-> keys,
                   fixed_fees         |-> fixedFees,
                   fractional_fees    |-> fractionalFees,
                   royalty_fees       |-> royaltyFees]
<1>1. Normalise(obj, LedgerId) = Over(new, obj)
  BY DEF Normalise
<1> HIDE DEF keys, fixedFees, fractionalFees, royaltyFees, second
<1>2. \A label \in RawLabels : label \notin DOMAIN new
  BY DEF RawLabels, KeyTypes
<1>3. "pause_status" \in DOMAIN new /\ new.pause_status = Flag(obj.pause_status = "PAUSED")
  OBVIOUS
<1> HIDE DEF new
<1>4. Over(new, obj).pause_status \in {"true", "false"}
  BY <1>3 DEF Over, Flag
<1>5. \A label \in RawLabels : label \in DOMAIN Over(new, obj) /\ Over(new, obj)[label] = obj[label]
  BY <1>2 DEF Over, Agrees
<1> QED BY <1>1, <1>4, <1>5 DEF Agrees

\* What the layout asks of such an object, and the stores of it.
Shape(paused) == [label \in {Storage[i].label : i \in 1 .. 21} |-> Value(label, paused)]

LEMMA ShapeField ==
  ASSUME NEW paused, NEW i \in 1 .. 21
  PROVE  /\ Field(Shape(paused), Storage[i].label) = Value(Storage[i].label, paused)
         /\ Shape(paused)[Storage[i].label] = Value(Storage[i].label, paused)
<1>1. Storage[i].label \in {Storage[h].label : h \in 1 .. 21}
  OBVIOUS
<1> DEFINE label == Storage[i].label
<1> HIDE DEF label
<1>2. label \in DOMAIN Shape(paused) /\ Shape(paused)[label] = Value(label, paused)
  BY <1>1 DEF Shape, label
<1> QED BY <1>2 DEF Field, label

LEMMA SameStores ==
  ASSUME NEW obj, Agrees(obj)
  PROVE  StoresOf(Normalise(obj, LedgerId)) = StoresOf(Shape(Flag(obj.pause_status = "PAUSED")))
<1> DEFINE norm == Normalise(obj, LedgerId)
           shape == Shape(Flag(obj.pause_status = "PAUSED"))
<1>1. ASSUME NEW i \in 1 .. 21
      PROVE  /\ Field(norm, Storage[i].label) = Field(shape, Storage[i].label)
             /\ norm[Storage[i].label] = shape[Storage[i].label]
  <2>1. Storage[i].label \in {Storage[h].label : h \in 1 .. 21}
    OBVIOUS
  <2> DEFINE label == Storage[i].label
  <2>2. label \in DOMAIN norm /\ norm[label] = Value(label, Flag(obj.pause_status = "PAUSED"))
    BY <2>1, NormalisedFields
  <2> HIDE DEF norm
  <2> QED BY <2>2, ShapeField DEF Field
<1> HIDE DEF norm, shape
<1>2. ASSUME NEW i \in 1 .. 21
      PROVE  Visit(Storage[i], norm, <<i>>) = Visit(Storage[i], shape, <<i>>)
  BY <1>1 DEF Visit, VisitField
<1>3. StoresOf(norm) = StoresOf(shape)
  BY <1>2, StorageApart DEF StoresOf
<1> QED BY <1>3 DEF norm, shape

\* The stores need lists and the lengths of strings, which every token has.
LEMMA PlainTexts ==
  ASSUME NEW i \in Plain, Storage[i].type \in ByteTypes
  PROVE  Storage[i].label \in {"token_type", "name", "symbol", "memo", "ledger_id"}
  BY DEF Plain, Storage, Member, ByteTypes, Items

LEMMA ListLabels ==
  ASSUME NEW i \in Listing
  PROVE  \/ Storage[i].label = "token_keys" /\ Storage[i].type = "TokenKey" /\ Storage[i].slot = 7
         \/ Storage[i].label = "fixed_fees" /\ Storage[i].type = "FixedFee" /\ Storage[i].slot = 11
         \/ Storage[i].label = "fractional_fees" /\ Storage[i].type = "FractionalFee" /\ Storage[i].slot = 12
         \/ Storage[i].label = "royalty_fees" /\ Storage[i].type = "RoyaltyFee" /\ Storage[i].slot = 13
  BY DEF Listing, Storage, Member, Items

LEMMA ItemTexts ==
  ASSUME NEW type \in DOMAIN Items, NEW j \in DOMAIN Items[type], Items[type][j].type \in ByteTypes
  PROVE  type = "TokenKey" /\ Items[type][j].label \in {"ed25519", "_e_c_d_s_a_secp256k1"}
<1>1. CASE type = "TokenKey"
  BY <1>1 DEF Items, Member, ByteTypes
<1>2. CASE type = "FixedFee"
  BY <1>2 DEF Items, Member, ByteTypes
<1>3. CASE type = "FractionalFee"
  BY <1>3 DEF Items, Member, ByteTypes
<1>4. CASE type = "RoyaltyFee"
  BY <1>4 DEF Items, Member, ByteTypes
<1> QED BY <1>1, <1>2, <1>3, <1>4 DEF Items

LEMMA KeyTexts ==
  ASSUME NEW n \in 1 .. 7, IsToken(remote)
  PROVE  IsText(Keys[n].ed25519) /\ IsText(Keys[n]._e_c_d_s_a_secp256k1)
<1>1. remote[KeyTypes[n][1]] = Null \/ IsText(remote[KeyTypes[n][1]].key)
  BY KeyTypesAre DEF IsToken
<1>2. IsText(Empty)
  BY DEF IsText, Empty
<1> DEFINE key == remote[KeyTypes[n][1]]
<1>3. Keys[n] = KeyEntry(key, KeyTypes[n][2])
  BY KeyTypesAre DEF Keys
<1> HIDE DEF key
<1> QED BY <1>1, <1>2, <1>3 DEF KeyEntry, key

LEMMA ListsAre ==
  ASSUME IsToken(remote), NEW label \in {"token_keys", "fixed_fees", "fractional_fees", "royalty_fees"}, NEW paused
  PROVE  IsList(Value(label, paused))
<1>2. IsList(Keys)
  BY KeyTypesAre DEF Keys, IsList
<1>3. IsList(FixedFees)
  BY DEF FixedFees, IsToken, IsList
<1>4. IsList(FractionalFees)
  BY DEF FractionalFees, IsToken, IsList
<1>5. IsList(RoyaltyFees)
  BY DEF RoyaltyFees, IsToken, IsList
<1> QED BY <1>2, <1>3, <1>4, <1>5 DEF Value

LEMMA ShapeShaped ==
  ASSUME IsToken(remote), NEW paused
  PROVE  Shaped(Shape(paused))
<1>1. ASSUME NEW i \in Plain, Storage[i].type \in ByteTypes
      PROVE  Field(Shape(paused), Storage[i].label).len \in Nat
  <2>1. Field(Shape(paused), Storage[i].label) = Value(Storage[i].label, paused)
    BY ShapeField DEF Plain
  <2>2. IsText(Value(Storage[i].label, paused))
    BY <1>1, PlainTexts, TokensAssumption DEF Value, IsToken
  <2> QED BY <2>1, <2>2 DEF IsText
<1>2. ASSUME NEW i \in Listing
      PROVE  /\ IsList(Shape(paused)[Storage[i].label])
             /\ \A n \in DOMAIN Shape(paused)[Storage[i].label], j \in DOMAIN Items[Storage[i].type] :
                  InItem(i, j).type \in ByteTypes =>
                    Field(Shape(paused)[Storage[i].label][n], InItem(i, j).label).len \in Nat
  <2> DEFINE list == Shape(paused)[Storage[i].label]
  <2>1. list = Value(Storage[i].label, paused)
    BY ShapeField DEF Listing
  <2>2. IsList(list)
    BY <2>1, ListLabels, ListsAre
  <2> HIDE DEF list
  <2>3. ASSUME NEW n \in DOMAIN list, NEW j \in DOMAIN Items[Storage[i].type], InItem(i, j).type \in ByteTypes
        PROVE  Field(list[n], InItem(i, j).label).len \in Nat
    <3>1. Storage[i].label = "token_keys" /\ InItem(i, j).label \in {"ed25519", "_e_c_d_s_a_secp256k1"}
      BY <2>3, ListLabels, ItemTexts DEF InItem, Listing
    <3>2. list = Keys
      BY <3>1, <2>1 DEF Value
    <3>3. n \in 1 .. 7 /\ {"ed25519", "_e_c_d_s_a_secp256k1"} \subseteq DOMAIN Keys[n]
      BY <3>2, KeyTypesAre DEF Keys, KeyEntry
    <3> QED BY <3>1, <3>2, <3>3, KeyTexts DEF Field, IsText
  <2> QED BY <2>2, <2>3 DEF list
<1> QED BY <1>1, <1>2 DEF Shaped

\* The walk over any object that a request may leave stores nothing twice.
LEMMA NormalisedNotRefused ==
  ASSUME IsToken(remote), NEW obj, Agrees(obj)
  PROVE  ~Refused(StoresOf(Normalise(obj, LedgerId)))
  BY SameStores, ShapeShaped, NotRefused

TokenInv == remote \in Tokens /\ (remote # Null => Agrees(token))

LEMMA InitTokenInv == Init => TokenInv
<1>1. Init /\ remote # Null => Agrees(remote)
  BY TokensAssumption DEF Init, IsToken, Agrees
<1> QED BY <1>1 DEF Init, TokenInv

LEMMA NextTokenInv == TokenInv /\ [Next]_vars => TokenInv'
<1> SUFFICES ASSUME TokenInv, [Next]_vars PROVE TokenInv'
  OBVIOUS
<1> DEFINE Left == token' = token \/ token' = Once \/ token' = Again
<1>1. UNCHANGED remote /\ (remote = Null \/ Left)
  <2>1. CASE UNCHANGED vars
    BY <2>1 DEF vars
  <2>2. ASSUME NEW getter \in DOMAIN SlotsRead, CallHardhat(getter)
        PROVE  UNCHANGED remote /\ Left
    BY <2>2 DEF CallHardhat, Requests
  <2>3. ASSUME NEW getter \in DOMAIN SlotsRead, CallFoundry(getter)
        PROVE  UNCHANGED remote /\ Left
    BY <2>3 DEF CallFoundry
  <2>4. ASSUME NEW new \in NewTokens, Create(new)
        PROVE  UNCHANGED remote /\ Left
    BY <2>4 DEF Create
  <2> QED BY <2>1, <2>2, <2>3, <2>4 DEF Next
<1>2. remote # Null => Agrees(Once) /\ Agrees(Again)
  BY NormalisedAgrees DEF TokenInv, Once, Again
<1>3. \A obj : UNCHANGED remote /\ Agrees(obj) /\ token' = obj => Agrees(token)'
  BY DEF Agrees
<1> QED BY <1>1, <1>2, <1>3 DEF TokenInv

\* No request makes SlotMap.store throw, for any token of the Mirror Node.
THEOREM NoSlotTakenTwiceAlways == Spec => []NoSlotTakenTwice
<1>1. TokenInv => NoSlotTakenTwice
  BY NormalisedNotRefused, TokensAssumption DEF TokenInv, NoSlotTakenTwice
<1> QED BY InitTokenInv, NextTokenInv, <1>1, PTL DEF Spec

-----------------------------------------------------------------------------
(* How the getters read: a string from its words, a field by its label.    *)

TextAt(slot, str) ==
    /\ Read(slot, 0) = Inline(str)
    /\ \A k \in Chunks(str) : Read(Plus(Keccak(slot), k - 1), 0) = Chunk(str, k)

LEMMA ReadText ==
  ASSUME NEW slot, NEW str, IsText(str), TextAt(slot, str)
  PROVE  ReadBytes(slot) = str
<1> DEFINE header == Read(slot, 0)
           chunk(i) == Read(Plus(Keccak(slot), i - 1), 0)
<1>1. header = Inline(str) /\ \A k \in Chunks(str) : chunk(k) = Chunk(str, k)
  BY DEF TextAt
<1>2. ReadBytes(slot) =
        CASE header = Zero -> Empty
          [] header[1] = "inline" /\ header[3] < 32 -> [id |-> header[2], len |-> header[3]]
          [] header[1] = "length" ->
                IF \A i \in 1 .. Ceil32(header[2]) : chunk(i) = <<"chunk", chunk(1)[2], i>>
                THEN [id |-> chunk(1)[2], len |-> header[2]] ELSE Garbled
          [] OTHER -> Garbled
  BY DEF ReadBytes
<1> HIDE DEF header, chunk
<1>3. CASE str.len = 0
  <2>1. header = Zero
    BY <1>1, <1>3 DEF Inline, IsLong
  <2>2. str = Empty
    BY <1>3 DEF IsText
  <2>3. header[1] = "number"
    BY <2>1 DEF Zero, Number
  <2> QED BY <2>1, <2>2, <2>3, <1>2
<1>4. CASE str.len \in 1 .. 31
  <2>1. header = <<"inline", str.id, str.len>> /\ header # Zero
    BY <1>1, <1>4 DEF Inline, IsLong, Zero, Number
  <2>2. header[1] = "inline" /\ header[2] = str.id /\ header[3] = str.len /\ header[3] < 32
    BY <2>1, <1>4
  <2>3. ReadBytes(slot) = [id |-> str.id, len |-> str.len]
    BY <2>1, <2>2, <1>2
  <2> QED BY <2>3 DEF IsText
<1>5. CASE str.len > 31
  <2>1. header = <<"length", str.len>> /\ header # Zero
    BY <1>1, <1>5 DEF Inline, IsLong, Zero, Number
  <2>2. header[1] = "length" /\ header[2] = str.len
    BY <2>1
  <2>3. Chunks(str) = 1 .. Ceil32(str.len) /\ 1 \in Chunks(str)
    BY <1>5 DEF Chunks, IsLong, Ceil32, IsText
  <2>4. \A k \in 1 .. Ceil32(str.len) : chunk(k) = <<"chunk", str.id, k>>
    BY <2>3, <1>1 DEF Chunk
  <2>5. chunk(1)[2] = str.id
    BY <2>3, <2>4
  <2>6. ReadBytes(slot) = [id |-> str.id, len |-> str.len]
    BY <2>1, <2>2, <2>4, <2>5, <1>2
  <2> QED BY <2>6 DEF IsText
<1> QED BY <1>3, <1>4, <1>5 DEF IsText

LEMMA OneLabel ==
  ASSUME NEW i \in 1 .. 21
  PROVE  Labelled(Storage, Storage[i].label) = Storage[i]
<1>1. \A h, j \in 1 .. 21 : Storage[h].label = Storage[j].label => h = j
  BY DEF Storage, Member
<1>2. DOMAIN Storage = 1 .. 21
  BY StorageApart
<1> DEFINE label == Storage[i].label
           h == CHOOSE j \in DOMAIN Storage : Storage[j].label = label
<1>3. h \in DOMAIN Storage /\ Storage[h].label = label
  BY <1>2
<1>4. Labelled(Storage, label) = Storage[h]
  BY DEF Labelled
<1> HIDE DEF h
<1> QED BY <1>1, <1>2, <1>3, <1>4

LEMMA InfoOf ==
  ASSUME NEW i \in 1 .. 21
  PROVE  /\ i \in Plain => Info[Storage[i].label] =
              IF Storage[i].type \in ByteTypes THEN ReadBytes(<<Storage[i].slot>>)
              ELSE Read(<<Storage[i].slot>>, Storage[i].offset)
         /\ i \in Listing => Info[Storage[i].label] = ReadArray(Storage[i].type, <<Storage[i].slot>>)
<1> DEFINE m == Storage[i]
<1>1. m.label \in Labels(Storage)
  BY StorageApart DEF Labels
<1>2. Labelled(Storage, m.label) = m
  BY OneLabel
<1>3. m.slot \in Int
  BY StorageApart
<1> HIDE DEF m
<1>4. Info[m.label] = IF m.type \in DOMAIN Items THEN ReadArray(m.type, <<m.slot>>) ELSE ReadField(m, <<0>>)
  BY <1>1, <1>2 DEF Info
<1>5. Plus(<<0>>, m.slot) = <<m.slot>>
  BY <1>3 DEF Plus
<1> QED BY <1>4, <1>5 DEF ReadField, Plain, Listing, m

LEMMA OneItemLabel ==
  ASSUME NEW type \in DOMAIN Items, NEW j \in DOMAIN Items[type]
  PROVE  Labelled(Items[type], Items[type][j].label) = Items[type][j]
<1>1. \A h, l \in DOMAIN Items[type] : Items[type][h].label = Items[type][l].label => h = l
  <2>1. CASE type = "TokenKey"
    BY <2>1 DEF Items, Member
  <2>2. CASE type = "FixedFee"
    BY <2>2 DEF Items, Member
  <2>3. CASE type = "FractionalFee"
    BY <2>3 DEF Items, Member
  <2>4. CASE type = "RoyaltyFee"
    BY <2>4 DEF Items, Member
  <2> QED BY <2>1, <2>2, <2>3, <2>4 DEF Items
<1> DEFINE members == Items[type]
           label == members[j].label
           h == CHOOSE l \in DOMAIN members : members[l].label = label
<1>3. h \in DOMAIN members /\ members[h].label = label
  OBVIOUS
<1>4. Labelled(members, label) = members[h]
  BY DEF Labelled
<1> HIDE DEF h
<1> QED BY <1>1, <1>3, <1>4

\* Item n of the array of n items at state slot i.
LEMMA ArrayOf ==
  ASSUME NEW i \in Listing, NEW size \in Nat, Read(<<Storage[i].slot>>, 0) = Number(size)
  PROVE  /\ DOMAIN Info[Storage[i].label] = 1 .. size
         /\ Len(Info[Storage[i].label]) = size
         /\ \A n \in 1 .. size, j \in DOMAIN Items[Storage[i].type] :
               Info[Storage[i].label][n][InItem(i, j).label] =
                  IF InItem(i, j).type \in ByteTypes
                  THEN ReadBytes(<<Storage[i].slot, SlotInItem(i, n, j)>>)
                  ELSE Read(<<Storage[i].slot, SlotInItem(i, n, j)>>, InItem(i, j).offset)
<1> DEFINE a == Storage[i].slot
           type == Storage[i].type
           item(n) == ReadItem(type, Plus(Keccak(<<a>>), (n - 1) * Size[type]))
<1>1. i \in 1 .. 21 /\ type \in DOMAIN Items /\ a \in Int /\ Size[type] \in Int
  <2>1. i \in 1 .. 21 /\ type \in DOMAIN Items /\ a \in Int
    BY StorageApart DEF Listing
  <2> HIDE DEF type, a
  <2> QED BY <2>1, ItemsApart
<1>2. Info[Storage[i].label] = ReadArray(type, <<a>>)
  BY <1>1, InfoOf
<1>3. Number(size)[2] = size
  BY DEF Number
<1>4. ReadArray(type, <<a>>) = [n \in 1 .. size |-> item(n)]
  BY <1>3 DEF ReadArray
<1>5. ASSUME NEW n \in 1 .. size, NEW j \in DOMAIN Items[type]
      PROVE  item(n)[InItem(i, j).label] =
                  IF InItem(i, j).type \in ByteTypes THEN ReadBytes(<<a, SlotInItem(i, n, j)>>)
                  ELSE Read(<<a, SlotInItem(i, n, j)>>, InItem(i, j).offset)
  <2> DEFINE b == (n - 1) * Size[type]
             m == InItem(i, j)
             base == Plus(Keccak(<<a>>), b)
  <2>1. base = <<a, b>>
    <3>1. ItemSlot(<<a>>, n, Size[type]) = <<a, b>>
      <4> HIDE DEF a, type
      <4> QED BY <1>1, ItemSlotIs
    <3> QED BY <3>1 DEF ItemSlot
  <2>2. b \in Int /\ m.slot \in Int
    BY <1>1, ItemsApart DEF InItem
  <2>3. SlotInItem(i, n, j) = b + m.slot
    BY DEF SlotInItem
  <2>4. m.label \in Labels(Items[type]) /\ Labelled(Items[type], m.label) = m
    BY <1>1, OneItemLabel DEF Labels, InItem
  <2>5. item(n) = ReadItem(type, base)
    OBVIOUS
  <2> HIDE DEF item, base, b, m, a, type
  <2>6. ReadItem(type, base)[m.label] = ReadField(m, base)
    BY <2>4 DEF ReadItem
  <2>7. Plus(base, m.slot) = <<a, b + m.slot>>
    BY <1>1, <2>1, <2>2, PlusTwo
  <2> QED BY <2>3, <2>5, <2>6, <2>7 DEF ReadField, m
<1> HIDE DEF item
<1>6. DOMAIN Info[Storage[i].label] = 1 .. size /\ \A n \in 1 .. size : Info[Storage[i].label][n] = item(n)
  BY <1>2, <1>4
<1>7. Len([n \in 1 .. size |-> item(n)]) = size
  OBVIOUS
<1> QED BY <1>2, <1>4, <1>5, <1>6, <1>7

LEMMA AddressShown ==
  ASSUME NEW id, NEW u \in SUBSET missed
  PROVE  Resolve(IF id = Null THEN Zero ELSE <<"account", id>>, u) \in Addresses(id)
<1>1. CASE id = Null
  BY <1>1 DEF Resolve, Addresses, Zero, Number
<1>2. CASE id # Null
  <2> DEFINE v == <<"account", id>>
  <2>1. v[1] = "account" /\ v[2] = id
    OBVIOUS
  <2> HIDE DEF v
  <2>2. Resolve(v, u) = IF id \in Accounts \ u THEN <<"evm", id>> ELSE Number(id)
    BY <2>1 DEF Resolve
  <2>3. Resolve(v, {}) = IF id \in Accounts THEN <<"evm", id>> ELSE Number(id)
    BY <2>1 DEF Resolve
  <2>4. Addresses(id) = {Resolve(v, {})} \cup (IF id \in missed THEN {Number(id)} ELSE {})
    BY <1>2 DEF Addresses, v
  <2> QED BY <1>2, <2>2, <2>3, <2>4 DEF v
<1> QED BY <1>1, <1>2

-----------------------------------------------------------------------------
(* Hardhat.  Every word was made by one request, from an object with one   *)
(* of the values of pause_status, missing some of the accounts.            *)

PausedFlags == {"false"} \cup (IF remote.pause_status = "PAUSED" THEN {"true"} ELSE {})
Stores(paused) == StoresOf(Shape(paused))

Called ==
    /\ called \subseteq DOMAIN SlotsRead
    /\ called # {} => adapter \in {"hardhat", "foundry"}
    /\ called # {} /\ created = Null => remote # Null
HardhatWords ==
    adapter = "hardhat" /\ created = Null =>
        /\ \A s \in DOMAIN words : \E p \in PausedFlags, u \in SUBSET missed :
              words[s] = Packed(LoadFrom(Stores(p), s), u)
        /\ \A getter \in called, s \in SlotsOf(Stores("false")) :
              s[1] \in SlotsRead[getter] => s \in DOMAIN words

\* Only one value depends on pause_status, and no slot.
LEMMA SameValue ==
  ASSUME NEW p, NEW q, NEW i \in 1 .. 21, Wide(Storage[i]) \/ Storage[i].label # "pause_status"
  PROVE  Value(Storage[i].label, p) = Value(Storage[i].label, q)
<1>1. Storage[i].label # "pause_status"
  BY DEF Storage, Member, Wide, ByteTypes, Items
<1> QED BY <1>1 DEF Value

LEMMA SlotsOfStores ==
  ASSUME IsToken(remote), NEW p, NEW q, NEW s \in Stores(p)
  PROVE  \E t \in Stores(q) : t.slot = s.slot
<1> DEFINE o == Shape(p)
           o2 == Shape(q)
<1>1. Shaped(o) /\ Shaped(o2)
  BY ShapeShaped
<1>2. \A i \in Plain : Storage[i].type \in ByteTypes =>
          Field(o, Storage[i].label) = Field(o2, Storage[i].label)
  BY ShapeField, SameValue DEF Plain, Wide
<1>3. \A i \in Listing : o[Storage[i].label] = o2[Storage[i].label]
  BY ShapeField, SameValue DEF Listing, Wide
<1> HIDE DEF o, o2
<1>4. s \in StoresOf(o)
  BY DEF Stores, o
<1>5. \E t \in StoresOf(o2) : t.slot = s.slot
  <2>1. CASE FieldStored(o, s)
    <3>1. PICK i \in Plain : s = FieldOf(o, i)
      BY <2>1 DEF FieldStored
    <3>2. FieldOf(o2, i) \in StoresOf(o2)
      BY <1>1, Forms DEF FieldStored
    <3> QED BY <3>1, <3>2 DEF FieldOf, Store
  <2>2. CASE LengthStored(o, s)
    <3>1. PICK i \in Listing : s = LengthOf(o, i)
      BY <2>2 DEF LengthStored
    <3>2. LengthOf(o2, i) \in StoresOf(o2)
      BY <1>1, Forms DEF LengthStored
    <3> QED BY <3>1, <3>2 DEF LengthOf, StoreWhole
  <2>3. CASE ChunkStored(o, s)
    <3>1. PICK i \in Plain : \E k \in ChunksOf(Storage[i].type, Field(o, Storage[i].label)) : s = ChunkOf(o, i, k)
      BY <2>3 DEF ChunkStored
    <3>2. PICK k \in ChunksOf(Storage[i].type, Field(o, Storage[i].label)) : s = ChunkOf(o, i, k)
      BY <3>1
    <3>3. k \in ChunksOf(Storage[i].type, Field(o2, Storage[i].label))
      BY <1>2 DEF ChunksOf
    <3>4. ChunkOf(o2, i, k) \in StoresOf(o2)
      BY <1>1, <3>3, Forms DEF ChunkStored
    <3> QED BY <3>2, <3>4 DEF ChunkOf, StoreWhole
  <2>4. CASE ItemFieldStored(o, s)
    <3>1. PICK i \in Listing : \E n \in DOMAIN o[Storage[i].label], j \in DOMAIN Items[Storage[i].type] :
              s = ItemFieldOf(o, i, n, j)
      BY <2>4 DEF ItemFieldStored
    <3>2. PICK n \in DOMAIN o[Storage[i].label], j \in DOMAIN Items[Storage[i].type] :
              s = ItemFieldOf(o, i, n, j)
      BY <3>1
    <3>3. ItemFieldStored(o2, ItemFieldOf(o2, i, n, j))
      BY <1>3 DEF ItemFieldStored
    <3>4. ItemFieldOf(o2, i, n, j) \in StoresOf(o2)
      BY <1>1, <3>3, Forms
    <3> QED BY <3>2, <3>4 DEF ItemFieldOf, Store
  <2>5. CASE ItemChunkStored(o, s)
    <3>1. PICK i \in Listing : \E n \in DOMAIN o[Storage[i].label], j \in DOMAIN Items[Storage[i].type] :
              \E k \in ChunksOf(InItem(i, j).type, Field(o[Storage[i].label][n], InItem(i, j).label)) :
                  s = ItemChunkOf(o, i, n, j, k)
      BY <2>5 DEF ItemChunkStored
    <3>2. PICK n \in DOMAIN o[Storage[i].label], j \in DOMAIN Items[Storage[i].type] :
              \E k \in ChunksOf(InItem(i, j).type, Field(o[Storage[i].label][n], InItem(i, j).label)) :
                  s = ItemChunkOf(o, i, n, j, k)
      BY <3>1
    <3>3. PICK k \in ChunksOf(InItem(i, j).type, Field(o[Storage[i].label][n], InItem(i, j).label)) :
                  s = ItemChunkOf(o, i, n, j, k)
      BY <3>2
    <3>4. ItemChunkStored(o2, ItemChunkOf(o2, i, n, j, k))
      BY <1>3 DEF ItemChunkStored
    <3>5. ItemChunkOf(o2, i, n, j, k) \in StoresOf(o2)
      BY <1>1, <3>4, Forms
    <3> QED BY <3>3, <3>5 DEF ItemChunkOf, StoreWhole
  <2> QED BY <1>1, <1>4, <2>1, <2>2, <2>3, <2>4, <2>5, Forms
<1> QED BY <1>5 DEF Stores, o2

LEMMA SameSlots ==
  ASSUME IsToken(remote), NEW p, NEW q
  PROVE  SlotsOf(Stores(p)) = SlotsOf(Stores(q))
<1>1. ASSUME NEW a, NEW b, NEW x \in SlotsOf(Stores(a))
      PROVE  x \in SlotsOf(Stores(b))
  <2>1. PICK s \in Stores(a) : x = s.slot
    BY DEF SlotsOf
  <2>2. PICK t \in Stores(b) : t.slot = s.slot
    BY SlotsOfStores
  <2> QED BY <2>1, <2>2 DEF SlotsOf
<1> QED BY <1>1

\* What is read where one store put its value.
LEMMA ReadPacked ==
  ASSUME NEW map, NEW stores, NEW u, NEW s \in stores, s.slot \in DOMAIN map,
         map[s.slot] = Packed(LoadFrom(stores, s.slot), u),
         \A t \in stores : t.slot = s.slot /\ t.offset = s.offset => t.value = s.value
  PROVE  ReadFrom(map, s.slot, s.offset) = Resolve(s.value, u)
<1> DEFINE v == <<s.offset, Resolve(s.value, u)>>
           at == {w \in map[s.slot] : w[1] = s.offset}
<1>1. ReadFrom(map, s.slot, s.offset) = IF at = {} THEN Zero ELSE (CHOOSE w \in at : TRUE)[2]
  BY DEF ReadFrom
<1>2. ASSUME NEW w \in at PROVE w = v /\ v[2] # Zero
  <2>1. w \in Packed(LoadFrom(stores, s.slot), u) /\ w[1] = s.offset
    OBVIOUS
  <2>2. PICK x \in LoadFrom(stores, s.slot) : w = <<x[1], Resolve(x[2], u)>> /\ w[2] # Zero
    BY <2>1 DEF Packed
  <2>3. PICK t \in stores : t.slot = s.slot /\ x = <<t.offset, t.value>>
    BY <2>2 DEF LoadFrom
  <2>4. t.offset = s.offset
    BY <2>1, <2>2, <2>3
  <2>5. t.value = s.value
    BY <2>3, <2>4
  <2> QED BY <2>2, <2>3, <2>5
<1>3. v[2] # Zero => v \in at
  <2>1. <<s.offset, s.value>> \in LoadFrom(stores, s.slot)
    BY DEF LoadFrom
  <2>2. v[2] # Zero => v \in Packed(LoadFrom(stores, s.slot), u)
    BY <2>1 DEF Packed
  <2> QED BY <2>2
<1>4. v[2] = Resolve(s.value, u)
  OBVIOUS
<1> HIDE DEF v, at
<1>5. CASE v[2] = Zero
  <2>1. at = {}
    BY <1>2, <1>5
  <2> QED BY <1>1, <1>4, <1>5, <2>1
<1>6. CASE v[2] # Zero
  <2>1. at = {v}
    BY <1>2, <1>3, <1>6
  <2> QED BY <1>1, <1>4, <2>1
<1> QED BY <1>5, <1>6

LEMMA ReadStoreFrom ==
  ASSUME IsToken(remote), NEW p, NEW u, NEW map, NEW s \in Stores(p), s.slot \in DOMAIN map,
         map[s.slot] = Packed(LoadFrom(Stores(p), s.slot), u)
  PROVE  ReadFrom(map, s.slot, s.offset) = Resolve(s.value, u)
<1>1. \A t \in Stores(p) : t.slot = s.slot /\ t.offset = s.offset => t = s
  BY ShapeShaped, NoClash DEF Meet, Stores
<1> QED BY <1>1, ReadPacked

LEMMA ReadStore ==
  ASSUME IsToken(remote), NEW p, NEW u, NEW s \in Stores(p), s.slot \in DOMAIN words,
         words[s.slot] = Packed(LoadFrom(Stores(p), s.slot), u)
  PROVE  Read(s.slot, s.offset) = Resolve(s.value, u)
  BY ReadStoreFrom DEF Read

\* What the getters read once a getter of the slot was called.
Reads(slot, offset, value) ==
    \E u \in SUBSET missed : Read(slot, offset) = Resolve(value, u)

LEMMA HardhatStore ==
  ASSUME IsToken(remote), Called, HardhatWords, adapter = "hardhat", created = Null,
         NEW getter \in called, NEW p, NEW s \in Stores(p), s.slot[1] \in SlotsRead[getter]
  PROVE  \E q \in PausedFlags, u \in SUBSET missed :
            s.slot \in DOMAIN words /\ words[s.slot] = Packed(LoadFrom(Stores(q), s.slot), u)
<1>1. s.slot \in SlotsOf(Stores("false"))
  BY SameSlots DEF SlotsOf
<1> QED BY <1>1 DEF HardhatWords

LEMMA HardhatField ==
  ASSUME IsToken(remote), Called, HardhatWords, adapter = "hardhat", created = Null,
         NEW getter \in called, NEW i \in Plain, Storage[i].slot \in SlotsRead[getter]
  PROVE  \E q \in PausedFlags :
            Reads(<<Storage[i].slot>>, Storage[i].offset, Word(Storage[i].type, Value(Storage[i].label, q)))
<1> DEFINE s(p) == FieldOf(Shape(p), i)
<1>1. \A p : s(p) \in Stores(p)
  BY ShapeShaped, Forms DEF FieldStored, Stores
<1>2. \A p : s(p).slot = <<Storage[i].slot>> /\ s(p).offset = Storage[i].offset
  BY DEF FieldOf, Store
<1>3. \A p : s(p).value = Word(Storage[i].type, Value(Storage[i].label, p))
  BY ShapeField DEF FieldOf, Store, Plain
<1> HIDE DEF s
<1>4. PICK q \in PausedFlags, u \in SUBSET missed :
         /\ <<Storage[i].slot>> \in DOMAIN words
         /\ words[<<Storage[i].slot>>] = Packed(LoadFrom(Stores(q), <<Storage[i].slot>>), u)
  <2>1. s("false").slot[1] \in SlotsRead[getter]
    BY <1>2
  <2> QED BY <1>1, <1>2, <2>1, HardhatStore
<1>5. Read(s(q).slot, s(q).offset) = Resolve(s(q).value, u)
  BY <1>1, <1>2, <1>4, ReadStore
<1> QED BY <1>2, <1>3, <1>4, <1>5 DEF Reads

LEMMA HardhatChunk ==
  ASSUME IsToken(remote), Called, HardhatWords, adapter = "hardhat", created = Null,
         NEW getter \in called, NEW i \in Plain, Storage[i].slot \in SlotsRead[getter],
         Storage[i].type \in ByteTypes, NEW k \in Chunks(Value(Storage[i].label, "false"))
  PROVE  Read(Plus(Keccak(<<Storage[i].slot>>), k - 1), 0) = Chunk(Value(Storage[i].label, "false"), k)
<1> DEFINE s(p) == ChunkOf(Shape(p), i, k)
           text == Value(Storage[i].label, "false")
<1>1. \A p : Field(Shape(p), Storage[i].label) = text
  BY ShapeField, SameValue DEF Plain, Wide
<1>2. \A p : s(p) \in Stores(p)
  <2>1. \A p : k \in ChunksOf(Storage[i].type, Field(Shape(p), Storage[i].label))
    BY <1>1 DEF ChunksOf
  <2> QED BY <2>1, ShapeShaped, Forms DEF ChunkStored, Stores
<1>3. k \in Int /\ Storage[i].slot \in Int
  <2>1. text.len \in Nat
    BY <1>1, ShapeShaped DEF Shaped
  <2> QED BY <2>1, StorageApart DEF Chunks, Ceil32, Plain
<1>4. \A p : s(p).slot = <<Storage[i].slot, k - 1>> /\ s(p).offset = 0 /\ s(p).value = Chunk(text, k)
  BY <1>1 DEF ChunkOf, StoreWhole
<1> HIDE DEF s, text
<1>5. PICK q \in PausedFlags, u \in SUBSET missed :
         /\ s("false").slot \in DOMAIN words
         /\ words[s("false").slot] = Packed(LoadFrom(Stores(q), s("false").slot), u)
  <2>1. s("false").slot[1] \in SlotsRead[getter]
    BY <1>4
  <2> QED BY <1>2, <2>1, HardhatStore
<1>6. s(q).slot = s("false").slot
  BY <1>4
<1>7. Read(s(q).slot, s(q).offset) = Resolve(s(q).value, u)
  BY <1>2, <1>5, <1>6, ReadStore
<1>8. Resolve(Chunk(text, k), u) = Chunk(text, k)
  BY DEF Resolve, Chunk
<1>9. Plus(Keccak(<<Storage[i].slot>>), k - 1) = <<Storage[i].slot, k - 1>>
  BY <1>3, ChunkSlot
<1> QED BY <1>4, <1>7, <1>8, <1>9 DEF text

LEMMA HardhatText ==
  ASSUME IsToken(remote), Called, HardhatWords, adapter = "hardhat", created = Null,
         NEW getter \in called, NEW i \in Plain, Storage[i].slot \in SlotsRead[getter],
         Storage[i].type \in ByteTypes
  PROVE  TextAt(<<Storage[i].slot>>, Value(Storage[i].label, "false"))
<1> DEFINE text == Value(Storage[i].label, "false")
<1>1. PICK q \in PausedFlags :
         Reads(<<Storage[i].slot>>, Storage[i].offset, Word(Storage[i].type, Value(Storage[i].label, q)))
  BY HardhatField
<1>2. Value(Storage[i].label, q) = text /\ Storage[i].offset = 0
  BY SameValue, StorageApart DEF Plain, Wide
<1>3. Word(Storage[i].type, text) = Inline(text)
  BY DEF Word, ByteTypes
<1>4. \A u : Resolve(Inline(text), u) = Inline(text)
  BY DEF Resolve, Inline, Zero, Number
<1>5. Read(<<Storage[i].slot>>, 0) = Inline(text)
  BY <1>1, <1>2, <1>3, <1>4 DEF Reads
<1> QED BY <1>5, HardhatChunk DEF TextAt

LEMMA HardhatLength ==
  ASSUME IsToken(remote), Called, HardhatWords, adapter = "hardhat", created = Null,
         NEW getter \in called, NEW i \in Listing, Storage[i].slot \in SlotsRead[getter]
  PROVE  Read(<<Storage[i].slot>>, 0) = Number(Len(Value(Storage[i].label, "false")))
<1> DEFINE s(p) == LengthOf(Shape(p), i)
           list == Value(Storage[i].label, "false")
<1>1. \A p : Shape(p)[Storage[i].label] = list
  BY ShapeField, SameValue DEF Listing, Wide
<1>2. \A p : s(p) \in Stores(p)
  BY ShapeShaped, Forms DEF LengthStored, Stores
<1>3. \A p : s(p).slot = <<Storage[i].slot>> /\ s(p).offset = 0 /\ s(p).value = Number(Len(list))
  BY <1>1 DEF LengthOf, StoreWhole
<1> HIDE DEF s, list
<1>4. PICK q \in PausedFlags, u \in SUBSET missed :
         /\ s("false").slot \in DOMAIN words
         /\ words[s("false").slot] = Packed(LoadFrom(Stores(q), s("false").slot), u)
  <2>1. s("false").slot[1] \in SlotsRead[getter]
    BY <1>3
  <2> QED BY <1>2, <2>1, HardhatStore
<1>5. s(q).slot = s("false").slot
  BY <1>3
<1>6. Read(s(q).slot, s(q).offset) = Resolve(s(q).value, u)
  BY <1>2, <1>4, <1>5, ReadStore
<1>7. Resolve(Number(Len(list)), u) = Number(Len(list))
  BY DEF Resolve, Number
<1> QED BY <1>3, <1>6, <1>7 DEF list

LEMMA HardhatItemField ==
  ASSUME IsToken(remote), Called, HardhatWords, adapter = "hardhat", created = Null,
         NEW getter \in called, NEW i \in Listing, Storage[i].slot \in SlotsRead[getter],
         NEW n \in DOMAIN Value(Storage[i].label, "false"), NEW j \in DOMAIN Items[Storage[i].type]
  PROVE  Reads(<<Storage[i].slot, SlotInItem(i, n, j)>>, InItem(i, j).offset,
               Word(InItem(i, j).type, Field(Value(Storage[i].label, "false")[n], InItem(i, j).label)))
<1> DEFINE s(p) == ItemFieldOf(Shape(p), i, n, j)
           list == Value(Storage[i].label, "false")
           slot == <<Storage[i].slot, SlotInItem(i, n, j)>>
           value == Word(InItem(i, j).type, Field(list[n], InItem(i, j).label))
<1>1. \A p : Shape(p)[Storage[i].label] = list
  BY ShapeField, SameValue DEF Listing, Wide
<1>2. \A p : s(p) \in Stores(p)
  <2>1. \A p : ItemFieldStored(Shape(p), s(p))
    BY <1>1 DEF ItemFieldStored
  <2> QED BY <2>1, ShapeShaped, Forms DEF Stores
<1>3. \A p : s(p).slot = slot /\ s(p).offset = InItem(i, j).offset /\ s(p).value = value
  BY <1>1 DEF ItemFieldOf, Store
<1>4. slot[1] = Storage[i].slot
  OBVIOUS
<1> HIDE DEF s, list, value, slot
<1>5. PICK q \in PausedFlags, u \in SUBSET missed :
         /\ s("false").slot \in DOMAIN words
         /\ words[s("false").slot] = Packed(LoadFrom(Stores(q), s("false").slot), u)
  <2>1. s("false").slot[1] \in SlotsRead[getter]
    BY <1>3, <1>4
  <2> QED BY <1>2, <2>1, HardhatStore
<1>6. s(q).slot = s("false").slot
  BY <1>3
<1>7. Read(s(q).slot, s(q).offset) = Resolve(s(q).value, u)
  BY <1>2, <1>5, <1>6, ReadStore
<1> QED BY <1>3, <1>7 DEF Reads, slot, value, list

LEMMA HardhatItemChunk ==
  ASSUME IsToken(remote), Called, HardhatWords, adapter = "hardhat", created = Null,
         NEW getter \in called, NEW i \in Listing, Storage[i].slot \in SlotsRead[getter],
         NEW n \in DOMAIN Value(Storage[i].label, "false"), NEW j \in DOMAIN Items[Storage[i].type],
         InItem(i, j).type \in ByteTypes,
         NEW k \in Chunks(Field(Value(Storage[i].label, "false")[n], InItem(i, j).label))
  PROVE  Read(Plus(Keccak(<<Storage[i].slot, SlotInItem(i, n, j)>>), k - 1), 0) =
            Chunk(Field(Value(Storage[i].label, "false")[n], InItem(i, j).label), k)
<1> DEFINE s(p) == ItemChunkOf(Shape(p), i, n, j, k)
           list == Value(Storage[i].label, "false")
           text == Field(list[n], InItem(i, j).label)
           a == Storage[i].slot
           b == SlotInItem(i, n, j)
<1>1. \A p : Shape(p)[Storage[i].label] = list
  BY ShapeField, SameValue DEF Listing, Wide
<1>2. \A p : s(p) \in Stores(p)
  <2>1. \A p : ItemChunkStored(Shape(p), s(p))
    BY <1>1 DEF ItemChunkStored, ChunksOf
  <2> QED BY <2>1, ShapeShaped, Forms DEF Stores
<1>3. k \in Int /\ a \in Int /\ b \in Int
  <2>1. text.len \in Nat /\ n \in Int
    <3> DEFINE o == Shape("false")
    <3>1. Shaped(o) /\ o[Storage[i].label] = list
      BY <1>1, ShapeShaped
    <3> HIDE DEF o, list
    <3>2. IsList(list) /\ (InItem(i, j).type \in ByteTypes => text.len \in Nat)
      BY <3>1 DEF Shaped, list
    <3> QED BY <3>2 DEF IsList, list
  <2>2. k \in Int
    BY <2>1 DEF Chunks, Ceil32
  <2>3. a \in Int /\ Storage[i].type \in DOMAIN Items
    BY StorageApart DEF Listing
  <2>4. b \in Int
    <3>1. Size[Storage[i].type] \in Nat /\ InItem(i, j).slot \in 0 .. Size[Storage[i].type] - 1
      <4> DEFINE type == Storage[i].type
      <4> HIDE DEF type
      <4>1. Size[type] \in Nat /\ \A l \in DOMAIN Items[type] : Items[type][l].slot \in 0 .. Size[type] - 1
        BY <2>3, ItemsApart DEF type
      <4> QED BY <4>1 DEF InItem, type
    <3> QED BY <3>1, <2>1 DEF SlotInItem
  <2> QED BY <2>2, <2>3, <2>4
<1>4. \A p : s(p).slot = <<a, b, k - 1>> /\ s(p).offset = 0 /\ s(p).value = Chunk(text, k)
  BY <1>1 DEF ItemChunkOf, StoreWhole
<1>5. <<a, b, k - 1>>[1] = Storage[i].slot
  OBVIOUS
<1> HIDE DEF s, list, text, b, a
<1>6. PICK q \in PausedFlags, u \in SUBSET missed :
         /\ s("false").slot \in DOMAIN words
         /\ words[s("false").slot] = Packed(LoadFrom(Stores(q), s("false").slot), u)
  <2>1. s("false").slot[1] \in SlotsRead[getter]
    BY <1>4, <1>5
  <2> QED BY <1>2, <2>1, HardhatStore
<1>7. s(q).slot = s("false").slot
  BY <1>4
<1>8. Read(s(q).slot, s(q).offset) = Resolve(s(q).value, u)
  BY <1>2, <1>6, <1>7, ReadStore
<1>9. Resolve(Chunk(text, k), u) = Chunk(text, k)
  BY DEF Resolve, Chunk
<1>10. Plus(Keccak(<<a, b>>), k - 1) = <<a, b, k - 1>>
  BY <1>3, ItemChunkSlot
<1> QED BY <1>4, <1>8, <1>9, <1>10 DEF text, list, a, b

LEMMA HardhatItemText ==
  ASSUME IsToken(remote), Called, HardhatWords, adapter = "hardhat", created = Null,
         NEW getter \in called, NEW i \in Listing, Storage[i].slot \in SlotsRead[getter],
         NEW n \in DOMAIN Value(Storage[i].label, "false"), NEW j \in DOMAIN Items[Storage[i].type],
         InItem(i, j).type \in ByteTypes
  PROVE  TextAt(<<Storage[i].slot, SlotInItem(i, n, j)>>,
                Field(Value(Storage[i].label, "false")[n], InItem(i, j).label))
<1> DEFINE text == Field(Value(Storage[i].label, "false")[n], InItem(i, j).label)
<1>1. Reads(<<Storage[i].slot, SlotInItem(i, n, j)>>, InItem(i, j).offset, Word(InItem(i, j).type, text))
  BY HardhatItemField
<1>2. InItem(i, j).offset = 0
  <2> DEFINE type == Storage[i].type
  <2>1. type \in DOMAIN Items
    BY DEF Listing
  <2> HIDE DEF type
  <2>2. Items[type][j].type \in ByteTypes => Items[type][j].offset = 0
    BY <2>1, ItemsApart DEF type
  <2> QED BY <2>2 DEF InItem, type
<1>3. Word(InItem(i, j).type, text) = Inline(text)
  BY DEF Word, ByteTypes
<1>4. \A u : Resolve(Inline(text), u) = Inline(text)
  BY DEF Resolve, Inline, Zero, Number
<1>5. Read(<<Storage[i].slot, SlotInItem(i, n, j)>>, 0) = Inline(text)
  BY <1>1, <1>2, <1>3, <1>4 DEF Reads
<1> QED BY <1>5, HardhatItemChunk DEF TextAt

FoundryWords ==
    adapter = "foundry" /\ created = Null /\ called # {} => words = Written(InitWrites(missed))

\* The inductive invariant: where every word comes from.
ReadInv == TokenInv /\ Called /\ HardhatWords /\ FoundryWords

LEMMA InitReadInv == Init => ReadInv
<1> SUFFICES ASSUME Init PROVE ReadInv
  OBVIOUS
<1>1. called = {} /\ DOMAIN words = {}
  BY DEF Init
<1> QED BY <1>1, InitTokenInv DEF ReadInv, Called, HardhatWords, FoundryWords

\* The stores of a request are those of a token with one of the flags.
LEMMA RequestStores ==
  ASSUME TokenInv, remote # Null
  PROVE  /\ \E p \in PausedFlags : StoresOf(Once) = Stores(p)
         /\ StoresOf(Again) = Stores("false")
<1>1. Agrees(token)
  BY DEF TokenInv
<1>2. Agrees(Once) /\ Once.pause_status # "PAUSED"
  BY <1>1, NormalisedAgrees DEF Once
<1>3. StoresOf(Once) = Stores(Flag(token.pause_status = "PAUSED"))
  BY <1>1, SameStores DEF Once, Stores
<1>4. Flag(token.pause_status = "PAUSED") \in PausedFlags
  BY <1>1 DEF Agrees, Flag, PausedFlags
<1>5. StoresOf(Again) = Stores(Flag(Once.pause_status = "PAUSED"))
  BY <1>2, SameStores DEF Again, Stores
<1>6. Flag(Once.pause_status = "PAUSED") = "false"
  BY <1>2 DEF Flag
<1> QED BY <1>3, <1>4, <1>5, <1>6

LEMMA CallHardhatReads ==
  ASSUME ReadInv, NEW getter \in DOMAIN SlotsRead, CallHardhat(getter)
  PROVE  Called' /\ HardhatWords' /\ FoundryWords'
<1>1. adapter = "hardhat" /\ UNCHANGED <<adapter, remote, created>> /\ called' = called \cup {getter}
  BY DEF CallHardhat
<1>2. Called' /\ FoundryWords'
  BY <1>1 DEF ReadInv, Called, FoundryWords, CallHardhat, HasCode
<1> SUFFICES ASSUME created = Null PROVE HardhatWords'
  BY <1>1, <1>2 DEF HardhatWords
<1>3. remote # Null /\ IsToken(remote)
  BY TokensAssumption DEF CallHardhat, HasCode, ReadInv, TokenInv
<1> DEFINE asked == Asked(SlotsRead[getter])
<1>4. PICK u \in SUBSET (LookedUp(asked) \cap Accounts) :
         /\ words' = Over(Answers(asked, u), words)
         /\ missed' = missed \cup u
  BY DEF CallHardhat, Requests
<1>5. asked = {s \in SlotsOf(StoresOf(Once)) : s[1] \in SlotsRead[getter]} \ DOMAIN words
  BY <1>3 DEF Asked
<1>6. PICK p \in PausedFlags : StoresOf(Once) = Stores(p)
  BY <1>3, RequestStores DEF ReadInv
<1>7. StoresOf(Again) = Stores("false") /\ "false" \in PausedFlags
  BY <1>3, RequestStores DEF ReadInv, PausedFlags
<1> HIDE DEF asked
<1>8. DOMAIN Answers(asked, u) = asked
  BY DEF Answers
<1>9. \A s \in asked : \E q \in PausedFlags : Answers(asked, u)[s] = Packed(LoadFrom(Stores(q), s), u)
  BY <1>6, <1>7 DEF Answers
<1>10. DOMAIN words' = asked \cup DOMAIN words
  BY <1>4, <1>8 DEF Over
<1>11. \A s \in asked : words'[s] = Answers(asked, u)[s]
  BY <1>4, <1>8 DEF Over
<1>12. \A s \in DOMAIN words \ asked : words'[s] = words[s]
  BY <1>4, <1>8 DEF Over
<1>13. PausedFlags' = PausedFlags /\ \A q : Stores(q)' = Stores(q)
  BY <1>1 DEF PausedFlags, Stores, Shape, Value, Keys, FixedFees, FractionalFees, RoyaltyFees
<1>14. ASSUME NEW s \in DOMAIN words'
       PROVE  \E q \in PausedFlags, x \in SUBSET missed' : words'[s] = Packed(LoadFrom(Stores(q), s), x)
  <2>1. CASE s \in asked
    BY <2>1, <1>4, <1>9, <1>11
  <2>2. CASE s \notin asked
    <3>1. s \in DOMAIN words /\ words'[s] = words[s]
      BY <2>2, <1>10, <1>12
    <3>2. PICK q \in PausedFlags, x \in SUBSET missed : words[s] = Packed(LoadFrom(Stores(q), s), x)
      BY <3>1, <1>1 DEF ReadInv, HardhatWords
    <3> QED BY <3>1, <3>2, <1>4
  <2> QED BY <2>1, <2>2
<1>15. ASSUME NEW g \in called', NEW s \in SlotsOf(Stores("false")), s[1] \in SlotsRead[g]
       PROVE  s \in DOMAIN words'
  <2>1. CASE g \in called
    BY <2>1, <1>1, <1>10, <1>15 DEF ReadInv, HardhatWords
  <2>2. CASE g = getter
    <3>1. s \in SlotsOf(StoresOf(Once))
      BY <1>3, <1>6, SameSlots
    <3> QED BY <3>1, <2>2, <1>5, <1>10, <1>15
  <2> QED BY <2>1, <2>2, <1>1
<1> QED BY <1>13, <1>14, <1>15 DEF HardhatWords

LEMMA CallFoundryReads ==
  ASSUME ReadInv, NEW getter \in DOMAIN SlotsRead, CallFoundry(getter)
  PROVE  Called' /\ HardhatWords' /\ FoundryWords'
<1>1. adapter = "foundry" /\ UNCHANGED <<adapter, remote, created>> /\ called' = called \cup {getter}
  BY DEF CallFoundry
<1>2. Called' /\ HardhatWords'
  BY <1>1 DEF ReadInv, Called, HardhatWords, CallFoundry, HasCode
<1>3. \A u : InitWrites(u)' = InitWrites(u)
  BY <1>1 DEF InitWrites, InitKeys, InitFixedFees, InitFractionalFees, InitRoyaltyFees, FeesOf
<1>4. created = Null => words' = Written(InitWrites(missed'))
  <2>1. CASE IsInitialised /\ UNCHANGED <<words, missed>>
    BY <2>1, <1>1 DEF IsInitialised, ReadInv, FoundryWords
  <2>2. CASE \E u \in SUBSET Accounts : words' = Written(InitWrites(u)) /\ missed' = u
    BY <2>2
  <2> QED BY <2>1, <2>2 DEF CallFoundry
<1>5. Written(InitWrites(missed))' = Written(InitWrites(missed'))
  BY <1>3
<1> QED BY <1>1, <1>2, <1>4, <1>5 DEF FoundryWords

LEMMA NextReadInv == ReadInv /\ [Next]_vars => ReadInv'
<1> SUFFICES ASSUME ReadInv, [Next]_vars PROVE ReadInv'
  OBVIOUS
<1>1. TokenInv'
  BY NextTokenInv DEF ReadInv
<1>2. CASE UNCHANGED vars
  <2>1. UNCHANGED <<adapter, remote, token, words, created, called, missed>>
    BY <1>2 DEF vars
  <2>2. /\ PausedFlags' = PausedFlags /\ \A q : Stores(q)' = Stores(q)
        /\ \A u : InitWrites(u)' = InitWrites(u)
    BY <2>1 DEF PausedFlags, Stores, Shape, Value, Keys, FixedFees, FractionalFees, RoyaltyFees,
                InitWrites, InitKeys, InitFixedFees, InitFractionalFees, InitRoyaltyFees, FeesOf
  <2>3. Called' /\ HardhatWords' /\ FoundryWords'
    BY <2>1, <2>2 DEF ReadInv, Called, HardhatWords, FoundryWords
  <2> QED BY <1>1, <2>3 DEF ReadInv
<1>3. ASSUME NEW getter \in DOMAIN SlotsRead, CallHardhat(getter) PROVE ReadInv'
  BY <1>1, <1>3, CallHardhatReads DEF ReadInv
<1>4. ASSUME NEW getter \in DOMAIN SlotsRead, CallFoundry(getter) PROVE ReadInv'
  BY <1>1, <1>4, CallFoundryReads DEF ReadInv
<1>5. ASSUME NEW new \in NewTokens, Create(new) PROVE ReadInv'
  <2>1. created' # Null /\ UNCHANGED <<adapter, called>>
    BY <1>5, CreatedAssumption DEF Create, IsCreated
  <2> QED BY <1>1, <2>1 DEF ReadInv, Called, HardhatWords, FoundryWords
<1> QED BY <1>2, <1>3, <1>4, <1>5 DEF Next

-----------------------------------------------------------------------------
(* What is shown, field by field of the layout.                            *)

PlainAt(i) ==
    IF Storage[i].type \in ByteTypes THEN ReadBytes(<<Storage[i].slot>>)
    ELSE Read(<<Storage[i].slot>>, Storage[i].offset)
ItemAt(i, n, j) ==
    IF InItem(i, j).type \in ByteTypes THEN ReadBytes(<<Storage[i].slot, SlotInItem(i, n, j)>>)
    ELSE Read(<<Storage[i].slot, SlotInItem(i, n, j)>>, InItem(i, j).offset)

FieldsShown ==
    /\ PlainAt(3) = remote.name /\ PlainAt(4) = remote.symbol /\ PlainAt(6) = remote.memo
    /\ PlainAt(21) = LedgerId
    /\ PlainAt(5) \in Addresses(remote.treasury_account_id)
    /\ PlainAt(12) \in Addresses(remote.auto_renew_account)
    /\ PlainAt(13) = Amount(remote.auto_renew_period)
    /\ PlainAt(11) = Number(remote.expiry_timestamp \div NanosPerSecond)
    /\ PlainAt(8) = Number(remote.max_supply) /\ PlainAt(14) = Number(remote.total_supply)
    /\ PlainAt(7) = Truth(remote.supply_type = "FINITE")
    /\ PlainAt(9) = Truth(remote.freeze_default = "true")
    /\ PlainAt(15) = Truth(remote.deleted = "true")
    /\ PlainAt(17) \in {Truth(remote.pause_status = "PAUSED")} \cup (IF adapter = "hardhat" THEN {Zero} ELSE {})

KeyItemsShown ==
    /\ Read(<<7>>, 0) = Number(7)
    /\ \A n \in 1 .. 7 : LET key == remote[KeyTypes[n][1]] IN
          \/ key = Null /\ ItemAt(10, n, 1) = Zero
          \/ /\ ItemAt(10, n, 1) = Number(KeyTypes[n][2])
             /\ key = Null \/ key._type \in {"ED25519", "ECDSA_SECP256K1"} =>
                   /\ ItemAt(10, n, 4) = BytesOf(key, "ED25519")
                   /\ ItemAt(10, n, 5) = BytesOf(key, "ECDSA_SECP256K1")

FixedItemsShown ==
    LET fees == Listed(remote.custom_fees, "fixed_fees")
    IN  /\ Read(<<11>>, 0) = Number(Len(fees))
        /\ \A n \in DOMAIN fees :
              /\ ItemAt(18, n, 1) = Number(fees[n].amount)
              /\ ItemAt(18, n, 2) \in Addresses(fees[n].denominating_token_id)
              /\ ItemAt(18, n, 3) = Truth(fees[n].denominating_token_id = Null)
              /\ ItemAt(18, n, 4) = Truth(fees[n].denominating_token_id = remote.token_id)
              /\ ItemAt(18, n, 5) \in Addresses(fees[n].collector_account_id)

FractionalItemsShown ==
    LET fees == Listed(remote.custom_fees, "fractional_fees")
    IN  /\ Read(<<12>>, 0) = Number(Len(fees))
        /\ \A n \in DOMAIN fees :
              /\ ItemAt(19, n, 1) = Number(fees[n].numerator)
              /\ ItemAt(19, n, 2) = Number(fees[n].denominator)
              /\ ItemAt(19, n, 3) = Number(fees[n].minimum)
              /\ ItemAt(19, n, 4) = Number(fees[n].maximum)
              /\ ItemAt(19, n, 5) = Truth(fees[n].net_of_transfers = "true")
              /\ ItemAt(19, n, 6) \in Addresses(fees[n].collector_account_id)

RoyaltyItemsShown ==
    LET fees == Listed(remote.custom_fees, "royalty_fees")
    IN  /\ Read(<<13>>, 0) = Number(Len(fees))
        /\ \A n \in DOMAIN fees :
              /\ ItemAt(20, n, 1) = Number(fees[n].numerator)
              /\ ItemAt(20, n, 2) = Number(fees[n].denominator)
              /\ ItemAt(20, n, 3) = Number(IF fees[n].fallback_fee = Null THEN 0 ELSE fees[n].fallback_fee.amount)
              /\ ItemAt(20, n, 6) \in Addresses(fees[n].collector_account_id)

LEMMA StorageIndex ==
  /\ \A i \in 1 .. 21 : i \in Plain <=> i \notin {10, 18, 19, 20}
  /\ Listing = {10, 18, 19, 20}
  BY DEF Plain, Listing, Storage, Member, Items

LEMMA InfoLabels ==
  /\ Info.name = PlainAt(3) /\ Info.symbol = PlainAt(4) /\ Info.treasury = PlainAt(5)
  /\ Info.memo = PlainAt(6) /\ Info.token_supply_type = PlainAt(7) /\ Info.max_supply = PlainAt(8)
  /\ Info.freeze_default = PlainAt(9) /\ Info.second = PlainAt(11)
  /\ Info.auto_renew_account = PlainAt(12) /\ Info.auto_renew_period = PlainAt(13)
  /\ Info.total_supply = PlainAt(14) /\ Info.deleted = PlainAt(15)
  /\ Info.pause_status = PlainAt(17) /\ Info.ledger_id = PlainAt(21)
<1>1. \A i \in Plain : Info[Storage[i].label] = PlainAt(i)
  BY InfoOf DEF PlainAt, Plain
<1>2. /\ Storage[3].label = "name" /\ Storage[4].label = "symbol" /\ Storage[5].label = "treasury"
      /\ Storage[6].label = "memo" /\ Storage[7].label = "token_supply_type" /\ Storage[8].label = "max_supply"
      /\ Storage[9].label = "freeze_default" /\ Storage[11].label = "second"
      /\ Storage[12].label = "auto_renew_account" /\ Storage[13].label = "auto_renew_period"
      /\ Storage[14].label = "total_supply" /\ Storage[15].label = "deleted"
      /\ Storage[17].label = "pause_status" /\ Storage[21].label = "ledger_id"
  BY DEF Storage, Member
<1>3. {3, 4, 5, 6, 7, 8, 9, 11, 12, 13, 14, 15, 17, 21} \subseteq Plain
  BY StorageIndex
<1> QED BY <1>1, <1>2, <1>3

LEMMA ItemLabels ==
  ASSUME NEW i \in Listing, NEW size \in Nat, Read(<<Storage[i].slot>>, 0) = Number(size)
  PROVE  /\ DOMAIN Info[Storage[i].label] = 1 .. size
         /\ Len(Info[Storage[i].label]) = size
         /\ \A n \in 1 .. size, j \in DOMAIN Items[Storage[i].type] :
               Info[Storage[i].label][n][InItem(i, j).label] = ItemAt(i, n, j)
  BY ArrayOf DEF ItemAt

LEMMA InfoFromFields ==
  ASSUME "getTokenType" \in called /\ created = Null => PlainAt(1) = remote.type,
         "decimals" \in called /\ created = Null => PlainAt(2) = Number(remote.decimals),
         Shown => FieldsShown
  PROVE  InfoShown
<1>1. PlainAt(1) = ReadBytes(<<0>>) /\ PlainAt(2) = Read(<<1>>, 0)
  BY DEF PlainAt, Storage, Member, ByteTypes
<1> QED BY <1>1, InfoLabels DEF InfoShown, FieldsShown

LEMMA KeysFromItems ==
  ASSUME Shown => KeyItemsShown
  PROVE  KeysShown
<1> SUFFICES ASSUME Shown, NEW n \in 1 .. 7
             PROVE  LET key   == remote[KeyTypes[n][1]]
                        shown == GetTokenKey(Info, KeyTypes[n][2])
                    IN  /\ key = Null => shown.ed25519 = Empty /\ shown.ecdsa = Empty
                        /\ key # Null => CASE key._type = "ED25519" -> shown = [ed25519 |-> key.key, ecdsa |-> Empty]
                                           [] key._type = "ECDSA_SECP256K1" -> shown = [ed25519 |-> Empty, ecdsa |-> key.key]
                                           [] OTHER -> TRUE
  BY KeyTypesAre DEF KeysShown
<1> DEFINE keys == Info.token_keys
           key == remote[KeyTypes[n][1]]
           type == KeyTypes[n][2]
           shown == GetTokenKey(Info, type)
           found == {i \in DOMAIN keys : keys[i].key_type = Number(type)}
<1>1. Storage[10].label = "token_keys" /\ Storage[10].slot = 7 /\ Storage[10].type = "TokenKey" /\ 10 \in Listing
  BY StorageIndex DEF Storage, Member
<1>2. /\ DOMAIN Items["TokenKey"] = 1 .. 6
      /\ InItem(10, 1).label = "key_type" /\ InItem(10, 4).label = "ed25519"
      /\ InItem(10, 5).label = "_e_c_d_s_a_secp256k1"
  BY <1>1 DEF InItem, Items, Member
<1>3. Read(<<7>>, 0) = Number(7)
  BY DEF KeyItemsShown
<1>4. /\ DOMAIN keys = 1 .. 7
      /\ \A i \in 1 .. 7, j \in 1 .. 6 : keys[i][InItem(10, j).label] = ItemAt(10, i, j)
  BY <1>1, <1>2, <1>3, ItemLabels
<1>5. \A i \in 1 .. 7 : /\ keys[i].key_type = ItemAt(10, i, 1)
                        /\ keys[i].ed25519 = ItemAt(10, i, 4)
                        /\ keys[i]._e_c_d_s_a_secp256k1 = ItemAt(10, i, 5)
  BY <1>2, <1>4
<1>6. shown = IF found = {} THEN [ed25519 |-> Empty, ecdsa |-> Empty]
              ELSE [ed25519 |-> keys[Min(found)].ed25519, ecdsa |-> keys[Min(found)]._e_c_d_s_a_secp256k1]
  BY DEF GetTokenKey
<1>7. \A i, j \in 1 .. 7 : i # j => KeyTypes[i][2] # KeyTypes[j][2] /\ KeyTypes[i][2] # 0
  BY DEF KeyTypes
<1> HIDE DEF keys, shown, found
<1>8. \A i \in 1 .. 7 : keys[i].key_type = Number(type) => i = n
  <2>1. SUFFICES ASSUME NEW i \in 1 .. 7, keys[i].key_type = Number(type), i # n PROVE FALSE
    OBVIOUS
  <2>2. ItemAt(10, i, 1) \in {Zero, Number(KeyTypes[i][2])}
    BY DEF KeyItemsShown
  <2>3. ItemAt(10, i, 1) = Number(type)
    BY <1>5, <2>1
  <2>4. type # 0 /\ type # KeyTypes[i][2]
    BY <1>7, <2>1
  <2> QED BY <2>2, <2>3, <2>4 DEF Zero, Number
<1>9. CASE key = Null /\ ItemAt(10, n, 1) = Zero
  <2>1. type # 0
    BY KeyTypesAre DEF KeyTypes
  <2>2. found = {}
    BY <1>4, <1>5, <1>8, <1>9, <2>1 DEF Zero, Number, found
  <2>3. shown = [ed25519 |-> Empty, ecdsa |-> Empty]
    BY <2>2, <1>6
  <2> HIDE DEF key
  <2> QED BY <1>9, <2>3 DEF shown, key
<1>10. CASE /\ ItemAt(10, n, 1) = Number(type)
            /\ key = Null \/ key._type \in {"ED25519", "ECDSA_SECP256K1"} =>
                   /\ ItemAt(10, n, 4) = BytesOf(key, "ED25519")
                   /\ ItemAt(10, n, 5) = BytesOf(key, "ECDSA_SECP256K1")
  <2>1. found = {n}
    BY <1>4, <1>5, <1>8, <1>10 DEF found
  <2>2. Min(found) = n
    BY <2>1 DEF Min
  <2>3. shown = [ed25519 |-> ItemAt(10, n, 4), ecdsa |-> ItemAt(10, n, 5)]
    BY <2>1, <2>2, <1>5, <1>6
  <2> HIDE DEF key
  <2>4. CASE key = Null
    BY <2>3, <2>4, <1>10 DEF BytesOf, shown, key
  <2>5. CASE key # Null /\ key._type = "ED25519"
    <3>1. shown = [ed25519 |-> key.key, ecdsa |-> Empty]
      BY <2>3, <2>5, <1>10 DEF BytesOf
    <3> QED BY <2>5, <3>1 DEF shown, key
  <2>6. CASE key # Null /\ key._type = "ECDSA_SECP256K1"
    <3>1. shown = [ed25519 |-> Empty, ecdsa |-> key.key]
      BY <2>3, <2>6, <1>10 DEF BytesOf
    <3> QED BY <2>6, <3>1 DEF shown, key
  <2>7. CASE key # Null /\ key._type # "ED25519" /\ key._type # "ECDSA_SECP256K1"
    BY <2>7 DEF key
  <2> QED BY <2>4, <2>5, <2>6, <2>7
<1> QED BY <1>9, <1>10 DEF KeyItemsShown

LEMMA FeeSizes ==
  ASSUME IsToken(remote)
  PROVE  /\ IsList(Listed(remote.custom_fees, "fixed_fees"))
         /\ IsList(Listed(remote.custom_fees, "fractional_fees"))
         /\ IsList(Listed(remote.custom_fees, "royalty_fees"))
  BY DEF IsToken

LEMMA FixedFeesFromItems ==
  ASSUME IsToken(remote), FixedItemsShown
  PROVE  LET fees == Listed(remote.custom_fees, "fixed_fees") IN
         /\ Len(Info.fixed_fees) = Len(fees)
         /\ \A n \in DOMAIN fees :
               /\ Info.fixed_fees[n].amount = Number(fees[n].amount)
               /\ Info.fixed_fees[n].token_id \in Addresses(fees[n].denominating_token_id)
               /\ Info.fixed_fees[n].use_hbars_for_payment = Truth(fees[n].denominating_token_id = Null)
               /\ Info.fixed_fees[n].use_current_token_for_payment =
                     Truth(fees[n].denominating_token_id = remote.token_id)
               /\ Info.fixed_fees[n].fee_collector \in Addresses(fees[n].collector_account_id)
<1> DEFINE fees == Listed(remote.custom_fees, "fixed_fees")
           shown == Info.fixed_fees
<1>1. Storage[18].label = "fixed_fees" /\ Storage[18].slot = 11 /\ Storage[18].type = "FixedFee" /\ 18 \in Listing
  BY StorageIndex DEF Storage, Member
<1>2. /\ DOMAIN Items["FixedFee"] = 1 .. 5
      /\ InItem(18, 1).label = "amount" /\ InItem(18, 2).label = "token_id"
      /\ InItem(18, 3).label = "use_hbars_for_payment"
      /\ InItem(18, 4).label = "use_current_token_for_payment" /\ InItem(18, 5).label = "fee_collector"
  BY <1>1 DEF InItem, Items, Member
<1>3. Len(fees) \in Nat /\ DOMAIN fees = 1 .. Len(fees)
  BY FeeSizes DEF IsList
<1>4. Read(<<11>>, 0) = Number(Len(fees))
  BY DEF FixedItemsShown
<1>5. /\ Len(shown) = Len(fees)
      /\ \A n \in 1 .. Len(fees), j \in 1 .. 5 : shown[n][InItem(18, j).label] = ItemAt(18, n, j)
  <2> DEFINE size == Len(fees)
  <2> HIDE DEF size
  <2> QED BY <1>1, <1>2, <1>3, <1>4, ItemLabels DEF size
<1>6. \A n \in DOMAIN fees : /\ shown[n].amount = ItemAt(18, n, 1)
                             /\ shown[n].token_id = ItemAt(18, n, 2)
                             /\ shown[n].use_hbars_for_payment = ItemAt(18, n, 3)
                             /\ shown[n].use_current_token_for_payment = ItemAt(18, n, 4)
                             /\ shown[n].fee_collector = ItemAt(18, n, 5)
  BY <1>2, <1>3, <1>5
<1> HIDE DEF shown
<1>7. /\ Len(shown) = Len(fees)
      /\ \A n \in DOMAIN fees :
               /\ shown[n].amount = Number(fees[n].amount)
               /\ shown[n].token_id \in Addresses(fees[n].denominating_token_id)
               /\ shown[n].use_hbars_for_payment = Truth(fees[n].denominating_token_id = Null)
               /\ shown[n].use_current_token_for_payment =
                     Truth(fees[n].denominating_token_id = remote.token_id)
               /\ shown[n].fee_collector \in Addresses(fees[n].collector_account_id)
  BY <1>5, <1>6 DEF FixedItemsShown
<1> QED BY <1>7 DEF shown

LEMMA FractionalFeesFromItems ==
  ASSUME IsToken(remote), FractionalItemsShown
  PROVE  LET fees == Listed(remote.custom_fees, "fractional_fees") IN
         /\ Len(Info.fractional_fees) = Len(fees)
         /\ \A n \in DOMAIN fees :
               /\ Info.fractional_fees[n].numerator = Number(fees[n].numerator)
               /\ Info.fractional_fees[n].denominator = Number(fees[n].denominator)
               /\ Info.fractional_fees[n].minimum_amount = Number(fees[n].minimum)
               /\ Info.fractional_fees[n].maximum_amount = Number(fees[n].maximum)
               /\ Info.fractional_fees[n].net_of_transfers = Truth(fees[n].net_of_transfers = "true")
               /\ Info.fractional_fees[n].fee_collector \in Addresses(fees[n].collector_account_id)
<1> DEFINE fees == Listed(remote.custom_fees, "fractional_fees")
           shown == Info.fractional_fees
<1>1. Storage[19].label = "fractional_fees" /\ Storage[19].slot = 12 /\ Storage[19].type = "FractionalFee" /\ 19 \in Listing
  BY StorageIndex DEF Storage, Member
<1>2. /\ DOMAIN Items["FractionalFee"] = 1 .. 6
      /\ InItem(19, 1).label = "numerator" /\ InItem(19, 2).label = "denominator"
      /\ InItem(19, 3).label = "minimum_amount" /\ InItem(19, 4).label = "maximum_amount"
      /\ InItem(19, 5).label = "net_of_transfers" /\ InItem(19, 6).label = "fee_collector"
  BY <1>1 DEF InItem, Items, Member
<1>3. Len(fees) \in Nat /\ DOMAIN fees = 1 .. Len(fees)
  BY FeeSizes DEF IsList
<1>4. Read(<<12>>, 0) = Number(Len(fees))
  BY DEF FractionalItemsShown
<1>5. /\ Len(shown) = Len(fees)
      /\ \A n \in 1 .. Len(fees), j \in 1 .. 6 : shown[n][InItem(19, j).label] = ItemAt(19, n, j)
  <2> DEFINE size == Len(fees)
  <2> HIDE DEF size
  <2> QED BY <1>1, <1>2, <1>3, <1>4, ItemLabels DEF size
<1>6. \A n \in DOMAIN fees : /\ shown[n].numerator = ItemAt(19, n, 1)
                             /\ shown[n].denominator = ItemAt(19, n, 2)
                             /\ shown[n].minimum_amount = ItemAt(19, n, 3)
                             /\ shown[n].maximum_amount = ItemAt(19, n, 4)
                             /\ shown[n].net_of_transfers = ItemAt(19, n, 5)
                             /\ shown[n].fee_collector = ItemAt(19, n, 6)
  BY <1>2, <1>3, <1>5
<1> HIDE DEF shown
<1>7. /\ Len(shown) = Len(fees)
      /\ \A n \in DOMAIN fees :
               /\ shown[n].numerator = Number(fees[n].numerator)
               /\ shown[n].denominator = Number(fees[n].denominator)
               /\ shown[n].minimum_amount = Number(fees[n].minimum)
               /\ shown[n].maximum_amount = Number(fees[n].maximum)
               /\ shown[n].net_of_transfers = Truth(fees[n].net_of_transfers = "true")
               /\ shown[n].fee_collector \in Addresses(fees[n].collector_account_id)
  BY <1>5, <1>6 DEF FractionalItemsShown
<1> QED BY <1>7 DEF shown

LEMMA RoyaltyFeesFromItems ==
  ASSUME IsToken(remote), RoyaltyItemsShown
  PROVE  LET fees == Listed(remote.custom_fees, "royalty_fees") IN
         /\ Len(Info.royalty_fees) = Len(fees)
         /\ \A n \in DOMAIN fees :
               /\ Info.royalty_fees[n].numerator = Number(fees[n].numerator)
               /\ Info.royalty_fees[n].denominator = Number(fees[n].denominator)
               /\ Info.royalty_fees[n].amount =
                     Number(IF fees[n].fallback_fee = Null THEN 0 ELSE fees[n].fallback_fee.amount)
               /\ Info.royalty_fees[n].fee_collector \in Addresses(fees[n].collector_account_id)
<1> DEFINE fees == Listed(remote.custom_fees, "royalty_fees")
           shown == Info.royalty_fees
<1>1. Storage[20].label = "royalty_fees" /\ Storage[20].slot = 13 /\ Storage[20].type = "RoyaltyFee" /\ 20 \in Listing
  BY StorageIndex DEF Storage, Member
<1>2. /\ DOMAIN Items["RoyaltyFee"] = 1 .. 6
      /\ InItem(20, 1).label = "numerator" /\ InItem(20, 2).label = "denominator"
      /\ InItem(20, 3).label = "amount" /\ InItem(20, 6).label = "fee_collector"
  BY <1>1 DEF InItem, Items, Member
<1>3. Len(fees) \in Nat /\ DOMAIN fees = 1 .. Len(fees)
  BY FeeSizes DEF IsList
<1>4. Read(<<13>>, 0) = Number(Len(fees))
  BY DEF RoyaltyItemsShown
<1>5. /\ Len(shown) = Len(fees)
      /\ \A n \in 1 .. Len(fees), j \in 1 .. 6 : shown[n][InItem(20, j).label] = ItemAt(20, n, j)
  <2> DEFINE size == Len(fees)
  <2> HIDE DEF size
  <2> QED BY <1>1, <1>2, <1>3, <1>4, ItemLabels DEF size
<1>6. \A n \in DOMAIN fees : /\ shown[n].numerator = ItemAt(20, n, 1)
                             /\ shown[n].denominator = ItemAt(20, n, 2)
                             /\ shown[n].amount = ItemAt(20, n, 3)
                             /\ shown[n].fee_collector = ItemAt(20, n, 6)
  BY <1>2, <1>3, <1>5
<1> HIDE DEF shown
<1>7. /\ Len(shown) = Len(fees)
      /\ \A n \in DOMAIN fees :
               /\ shown[n].numerator = Number(fees[n].numerator)
               /\ shown[n].denominator = Number(fees[n].denominator)
               /\ shown[n].amount = Number(IF fees[n].fallback_fee = Null THEN 0 ELSE fees[n].fallback_fee.amount)
               /\ shown[n].fee_collector \in Addresses(fees[n].collector_account_id)
  BY <1>5, <1>6 DEF RoyaltyItemsShown
<1> QED BY <1>7 DEF shown

LEMMA FeesFromItems ==
  ASSUME Shown => IsToken(remote) /\ FixedItemsShown /\ FractionalItemsShown /\ RoyaltyItemsShown
  PROVE  FeesShown
  BY FixedFeesFromItems, FractionalFeesFromItems, RoyaltyFeesFromItems DEF FeesShown

-----------------------------------------------------------------------------
(* Hardhat shows every field.                                              *)

Asks == IsToken(remote) /\ Called /\ HardhatWords /\ adapter = "hardhat" /\ created = Null

LEMMA HardhatPlain ==
  ASSUME Asks, NEW getter \in called, NEW i \in Plain, Storage[i].slot \in SlotsRead[getter],
         Storage[i].type \notin ByteTypes
  PROVE  \E q \in PausedFlags, u \in SUBSET missed :
            PlainAt(i) = Resolve(Word(Storage[i].type, Value(Storage[i].label, q)), u)
  BY HardhatField DEF PlainAt, Reads, Asks

LEMMA HardhatPlainText ==
  ASSUME Asks, NEW getter \in called, NEW i \in Plain, Storage[i].slot \in SlotsRead[getter],
         Storage[i].type \in ByteTypes, IsText(Value(Storage[i].label, "false"))
  PROVE  PlainAt(i) = Value(Storage[i].label, "false")
  BY HardhatText, ReadText DEF PlainAt, Asks

\* Numbers and flags resolve to themselves.
LEMMA ResolveNumber ==
  ASSUME NEW n, NEW u
  PROVE  Resolve(Number(n), u) = Number(n)
  BY DEF Resolve, Number

LEMMA WordIs ==
  ASSUME NEW prop
  PROVE  /\ Word("int64", prop) = Amount(prop)
         /\ Word("uint8", prop) = Amount(prop)
         /\ Word("uint256", prop) = Amount(prop)
         /\ Word("address", prop) = IF prop = Null THEN Zero ELSE <<"account", prop>>
         /\ Word("bool", prop) = Truth(prop = "true")
  BY DEF Word, ByteTypes, Truth

LEMMA AmountIs ==
  ASSUME NEW n \in Int
  PROVE  Amount(n) = Number(n)
  BY NullAssumption DEF Amount

LEMMA HardhatAmount ==
  ASSUME Asks, NEW getter \in called, NEW i \in Plain, Storage[i].slot \in SlotsRead[getter],
         Storage[i].type \in {"uint8", "int64"}, Storage[i].label # "pause_status"
  PROVE  PlainAt(i) = Amount(Value(Storage[i].label, "false"))
<1>1. PICK q \in PausedFlags, u \in SUBSET missed :
         PlainAt(i) = Resolve(Word(Storage[i].type, Value(Storage[i].label, q)), u)
  BY HardhatPlain DEF ByteTypes
<1>2. Value(Storage[i].label, q) = Value(Storage[i].label, "false")
  BY SameValue DEF Plain
<1>3. Word(Storage[i].type, Value(Storage[i].label, q)) = Amount(Value(Storage[i].label, "false"))
  BY <1>2, WordIs
<1> QED BY <1>1, <1>3, ResolveNumber DEF Amount

LEMMA HardhatBool ==
  ASSUME Asks, NEW getter \in called, NEW i \in Plain, Storage[i].slot \in SlotsRead[getter],
         Storage[i].type = "bool", Storage[i].label # "pause_status"
  PROVE  PlainAt(i) = Truth(Value(Storage[i].label, "false") = "true")
<1>1. PICK q \in PausedFlags, u \in SUBSET missed :
         PlainAt(i) = Resolve(Word(Storage[i].type, Value(Storage[i].label, q)), u)
  BY HardhatPlain DEF ByteTypes
<1>2. Value(Storage[i].label, q) = Value(Storage[i].label, "false")
  BY SameValue DEF Plain
<1>3. Word(Storage[i].type, Value(Storage[i].label, q)) = Truth(Value(Storage[i].label, "false") = "true")
  BY <1>2, WordIs
<1> QED BY <1>1, <1>3, ResolveNumber DEF Truth

LEMMA HardhatAddress ==
  ASSUME Asks, NEW getter \in called, NEW i \in Plain, Storage[i].slot \in SlotsRead[getter],
         Storage[i].type = "address", Storage[i].label # "pause_status"
  PROVE  PlainAt(i) \in Addresses(Value(Storage[i].label, "false"))
<1>1. PICK q \in PausedFlags, u \in SUBSET missed :
         PlainAt(i) = Resolve(Word(Storage[i].type, Value(Storage[i].label, q)), u)
  BY HardhatPlain DEF ByteTypes
<1>2. Value(Storage[i].label, q) = Value(Storage[i].label, "false")
  BY SameValue DEF Plain
<1> DEFINE id == Value(Storage[i].label, "false")
<1>3. Word(Storage[i].type, Value(Storage[i].label, q)) = IF id = Null THEN Zero ELSE <<"account", id>>
  BY <1>2, WordIs
<1> QED BY <1>1, <1>3, AddressShown

LEMMA HardhatTokenType ==
  ASSUME Asks, "getTokenType" \in called
  PROVE  PlainAt(1) = remote.type
<1>1. Storage[1].label = "token_type" /\ Storage[1].slot = 0 /\ Storage[1].type \in ByteTypes
  BY DEF Storage, Member, ByteTypes
<1>2. 0 \in SlotsRead["getTokenType"] /\ 1 \in Plain
  BY StorageIndex DEF SlotsRead
<1>3. Value("token_type", "false") = remote.type /\ IsText(remote.type)
  BY DEF Value, Asks, IsToken
<1> QED BY <1>1, <1>2, <1>3, HardhatPlainText

LEMMA HardhatDecimals ==
  ASSUME Asks, "decimals" \in called
  PROVE  PlainAt(2) = Number(remote.decimals)
<1>1. Storage[2].label = "decimals" /\ Storage[2].slot = 1 /\ Storage[2].type = "uint8"
  BY DEF Storage, Member
<1>2. 1 \in SlotsRead["decimals"] /\ 2 \in Plain
  BY StorageIndex DEF SlotsRead
<1>3. Value("decimals", "false") = remote.decimals /\ remote.decimals \in Int
  BY DEF Value, Asks, IsToken
<1> QED BY <1>1, <1>2, <1>3, HardhatAmount, AmountIs

LEMMA HardhatFields ==
  ASSUME Asks, "getTokenInfo" \in called
  PROVE  FieldsShown
<1>1. \A i \in 3 .. 21 : Storage[i].slot \in SlotsRead["getTokenInfo"]
  BY DEF Storage, Member, SlotsRead
<1>2. {3, 4, 5, 6, 7, 8, 9, 11, 12, 13, 14, 15, 17, 21} \subseteq Plain
  BY StorageIndex
<1>3. PlainAt(3) = remote.name /\ PlainAt(4) = remote.symbol /\ PlainAt(6) = remote.memo
      /\ PlainAt(21) = LedgerId
  <2>1. /\ Storage[3].label = "name" /\ Storage[4].label = "symbol" /\ Storage[6].label = "memo"
        /\ Storage[21].label = "ledger_id"
        /\ \A i \in {3, 4, 6, 21} : Storage[i].type \in ByteTypes
    BY DEF Storage, Member, ByteTypes
  <2>2. /\ Value("name", "false") = remote.name /\ Value("symbol", "false") = remote.symbol
        /\ Value("memo", "false") = remote.memo /\ Value("ledger_id", "false") = LedgerId
    BY DEF Value
  <2>3. \A i \in {3, 4, 6, 21} : IsText(Value(Storage[i].label, "false"))
    BY <2>1, <2>2, TokensAssumption DEF Asks, IsToken
  <2>4. \A i \in {3, 4, 6, 21} : PlainAt(i) = Value(Storage[i].label, "false")
    BY <1>1, <1>2, <2>1, <2>3, HardhatPlainText
  <2> QED BY <2>1, <2>2, <2>4
<1>4. PlainAt(5) \in Addresses(remote.treasury_account_id) /\ PlainAt(12) \in Addresses(remote.auto_renew_account)
  <2>1. /\ Storage[5].label = "treasury" /\ Storage[12].label = "auto_renew_account"
        /\ \A i \in {5, 12} : Storage[i].type = "address"
    BY DEF Storage, Member
  <2>2. /\ Value("treasury", "false") = remote.treasury_account_id
        /\ Value("auto_renew_account", "false") = remote.auto_renew_account
    BY DEF Value
  <2>3. \A i \in {5, 12} : PlainAt(i) \in Addresses(Value(Storage[i].label, "false"))
    BY <1>1, <1>2, <2>1, HardhatAddress
  <2> QED BY <2>1, <2>2, <2>3
<1>5. /\ PlainAt(13) = Amount(remote.auto_renew_period)
      /\ PlainAt(11) = Number(remote.expiry_timestamp \div NanosPerSecond)
      /\ PlainAt(8) = Number(remote.max_supply) /\ PlainAt(14) = Number(remote.total_supply)
  <2> DEFINE seconds == remote.expiry_timestamp \div NanosPerSecond
  <2>1. /\ Storage[13].label = "auto_renew_period" /\ Storage[11].label = "second"
        /\ Storage[8].label = "max_supply" /\ Storage[14].label = "total_supply"
        /\ \A i \in {8, 11, 13, 14} : Storage[i].type = "int64"
    BY DEF Storage, Member
  <2>2. /\ Value("auto_renew_period", "false") = remote.auto_renew_period
        /\ Value("second", "false") = seconds
        /\ Value("max_supply", "false") = remote.max_supply
        /\ Value("total_supply", "false") = remote.total_supply
    BY DEF Value
  <2>3. remote.max_supply \in Int /\ remote.total_supply \in Int /\ remote.expiry_timestamp \in Int
    BY DEF Asks, IsToken
  <2>4. seconds \in Int
    BY <2>3, NanosAssumption
  <2> HIDE DEF seconds
  <2>5. \A i \in {8, 11, 13, 14} : PlainAt(i) = Amount(Value(Storage[i].label, "false"))
    BY <1>1, <1>2, <2>1, HardhatAmount
  <2>6. PlainAt(11) = Number(seconds)
    BY <2>1, <2>2, <2>4, <2>5, AmountIs
  <2>7. PlainAt(8) = Number(remote.max_supply) /\ PlainAt(14) = Number(remote.total_supply)
    BY <2>1, <2>2, <2>3, <2>5, AmountIs
  <2> QED BY <2>1, <2>2, <2>5, <2>6, <2>7 DEF seconds
<1>6. /\ PlainAt(7) = Truth(remote.supply_type = "FINITE")
      /\ PlainAt(9) = Truth(remote.freeze_default = "true")
      /\ PlainAt(15) = Truth(remote.deleted = "true")
  <2>1. /\ Storage[7].label = "token_supply_type" /\ Storage[9].label = "freeze_default"
        /\ Storage[15].label = "deleted"
        /\ \A i \in {7, 9, 15} : Storage[i].type = "bool"
    BY DEF Storage, Member
  <2>2. /\ Value("token_supply_type", "false") = Flag(remote.supply_type = "FINITE")
        /\ Value("freeze_default", "false") = remote.freeze_default
        /\ Value("deleted", "false") = remote.deleted
    BY DEF Value
  <2>3. \A i \in {7, 9, 15} : PlainAt(i) = Truth(Value(Storage[i].label, "false") = "true")
    BY <1>1, <1>2, <2>1, HardhatBool
  <2>4. Truth(Flag(remote.supply_type = "FINITE") = "true") = Truth(remote.supply_type = "FINITE")
    BY DEF Flag, Truth
  <2> QED BY <2>1, <2>2, <2>3, <2>4
<1>7. PlainAt(17) \in {Truth(remote.pause_status = "PAUSED")} \cup (IF adapter = "hardhat" THEN {Zero} ELSE {})
  <2>1. Storage[17].label = "pause_status" /\ Storage[17].type = "bool"
    BY DEF Storage, Member
  <2>2. PICK q \in PausedFlags, u \in SUBSET missed :
           PlainAt(17) = Resolve(Word("bool", Value("pause_status", q)), u)
    BY <1>1, <1>2, <2>1, HardhatPlain DEF ByteTypes
  <2>3. Value("pause_status", q) = q
    BY DEF Value
  <2>4. PlainAt(17) = Truth(q = "true")
    BY <2>2, <2>3, WordIs, ResolveNumber DEF Truth
  <2> QED BY <2>4 DEF PausedFlags, Truth, Zero, Asks
<1> QED BY <1>3, <1>4, <1>5, <1>6, <1>7 DEF FieldsShown

LEMMA HardhatItem ==
  ASSUME Asks, NEW getter \in called, NEW i \in Listing, Storage[i].slot \in SlotsRead[getter],
         NEW n \in DOMAIN Value(Storage[i].label, "false"), NEW j \in DOMAIN Items[Storage[i].type],
         NEW prop, prop = Field(Value(Storage[i].label, "false")[n], InItem(i, j).label)
  PROVE  /\ InItem(i, j).type \in {"uint256", "int64"} => ItemAt(i, n, j) = Amount(prop)
         /\ InItem(i, j).type = "bool" => ItemAt(i, n, j) = Truth(prop = "true")
         /\ InItem(i, j).type = "address" => ItemAt(i, n, j) \in Addresses(prop)
         /\ InItem(i, j).type \in ByteTypes /\ IsText(prop) => ItemAt(i, n, j) = prop
<1>1. PICK u \in SUBSET missed :
         Read(<<Storage[i].slot, SlotInItem(i, n, j)>>, InItem(i, j).offset) = Resolve(Word(InItem(i, j).type, prop), u)
  BY HardhatItemField DEF Reads, Asks
<1>2. InItem(i, j).type \notin ByteTypes => ItemAt(i, n, j) = Resolve(Word(InItem(i, j).type, prop), u)
  BY <1>1 DEF ItemAt
<1>3. InItem(i, j).type \in {"uint256", "int64"} => ItemAt(i, n, j) = Amount(prop)
  BY <1>2, WordIs, ResolveNumber DEF Amount, ByteTypes
<1>4. InItem(i, j).type = "bool" => ItemAt(i, n, j) = Truth(prop = "true")
  BY <1>2, WordIs, ResolveNumber DEF Truth, ByteTypes
<1>5. InItem(i, j).type = "address" => ItemAt(i, n, j) \in Addresses(prop)
  <2>1. InItem(i, j).type = "address" =>
           ItemAt(i, n, j) = Resolve(IF prop = Null THEN Zero ELSE <<"account", prop>>, u)
    BY <1>2, WordIs DEF ByteTypes
  <2> QED BY <2>1, AddressShown
<1>6. InItem(i, j).type \in ByteTypes /\ IsText(prop) => ItemAt(i, n, j) = prop
  <2>1. InItem(i, j).type \in ByteTypes => TextAt(<<Storage[i].slot, SlotInItem(i, n, j)>>, prop)
    BY HardhatItemText DEF Asks
  <2> QED BY <2>1, ReadText DEF ItemAt
<1> QED BY <1>3, <1>4, <1>5, <1>6

\* The items of an array of which the walk sees list.
ItemReads(i, n, j, item) ==
    LET prop == Field(item, InItem(i, j).label)
    IN  /\ InItem(i, j).type \in {"uint256", "int64"} => ItemAt(i, n, j) = Amount(prop)
        /\ InItem(i, j).type = "bool" => ItemAt(i, n, j) = Truth(prop = "true")
        /\ InItem(i, j).type = "address" => ItemAt(i, n, j) \in Addresses(prop)
        /\ InItem(i, j).type \in ByteTypes /\ IsText(prop) => ItemAt(i, n, j) = prop

LEMMA HardhatItems ==
  ASSUME Asks, "getTokenInfo" \in called, NEW i \in Listing, Storage[i].slot \in SlotsRead["getTokenInfo"],
         NEW list, list = Value(Storage[i].label, "false"),
         NEW fields, fields = DOMAIN Items[Storage[i].type]
  PROVE  \A n \in DOMAIN list : \A j \in fields : ItemReads(i, n, j, list[n])
<1> SUFFICES ASSUME NEW n \in DOMAIN list, NEW j \in fields PROVE ItemReads(i, n, j, list[n])
  OBVIOUS
<1> DEFINE prop == Field(list[n], InItem(i, j).label)
<1>1. prop = Field(Value(Storage[i].label, "false")[n], InItem(i, j).label)
  OBVIOUS
<1>2. n \in DOMAIN Value(Storage[i].label, "false") /\ j \in DOMAIN Items[Storage[i].type]
  OBVIOUS
<1>3. /\ InItem(i, j).type \in {"uint256", "int64"} => ItemAt(i, n, j) = Amount(prop)
      /\ InItem(i, j).type = "bool" => ItemAt(i, n, j) = Truth(prop = "true")
      /\ InItem(i, j).type = "address" => ItemAt(i, n, j) \in Addresses(prop)
      /\ InItem(i, j).type \in ByteTypes /\ IsText(prop) => ItemAt(i, n, j) = prop
  <2> HIDE DEF prop
  <2> QED BY <1>1, <1>2, HardhatItem
<1> QED BY <1>3 DEF ItemReads

LEMMA HardhatKeyItems ==
  ASSUME Asks, "getTokenInfo" \in called
  PROVE  KeyItemsShown
<1>1. /\ Storage[10].label = "token_keys" /\ Storage[10].slot = 7 /\ Storage[10].type = "TokenKey"
      /\ 10 \in Listing /\ 7 \in SlotsRead["getTokenInfo"]
  BY StorageIndex DEF Storage, Member, SlotsRead
<1>2. /\ DOMAIN Items["TokenKey"] = 1 .. 6
      /\ InItem(10, 1).label = "key_type" /\ InItem(10, 1).type = "uint256"
      /\ InItem(10, 4).label = "ed25519" /\ InItem(10, 4).type \in ByteTypes
      /\ InItem(10, 5).label = "_e_c_d_s_a_secp256k1" /\ InItem(10, 5).type \in ByteTypes
  BY <1>1 DEF InItem, Items, Member, ByteTypes
<1>3. Value("token_keys", "false") = Keys
  BY DEF Value
<1>4. DOMAIN Keys = 1 .. 7 /\ Len(Keys) = 7
  BY KeyTypesAre DEF Keys
<1>5. Read(<<7>>, 0) = Number(7)
  BY <1>1, <1>3, <1>4, HardhatLength DEF Asks
<1>6. ASSUME NEW n \in 1 .. 7
      PROVE  LET key == remote[KeyTypes[n][1]] IN
             /\ ItemAt(10, n, 1) = Number(KeyTypes[n][2])
             /\ key = Null \/ key._type \in {"ED25519", "ECDSA_SECP256K1"} =>
                   /\ ItemAt(10, n, 4) = BytesOf(key, "ED25519")
                   /\ ItemAt(10, n, 5) = BytesOf(key, "ECDSA_SECP256K1")
  <2> DEFINE key == remote[KeyTypes[n][1]]
             item == Keys[n]
  <2>0. \A j \in 1 .. 6 : ItemReads(10, n, j, item)
    <3> DEFINE i == 10
    <3>1. /\ i \in Listing /\ Storage[i].slot \in SlotsRead["getTokenInfo"]
          /\ Keys = Value(Storage[i].label, "false") /\ 1 .. 6 = DOMAIN Items[Storage[i].type]
      BY <1>1, <1>2, <1>3
    <3>2. n \in DOMAIN Keys
      BY <1>4
    <3> HIDE DEF i
    <3>3. \A j \in 1 .. 6 : ItemReads(i, n, j, item)
      BY <3>1, <3>2, HardhatItems
    <3> QED BY <3>3 DEF i
  <2>1. item = KeyEntry(key, KeyTypes[n][2]) /\ KeyTypes[n][2] \in Int
    BY KeyTypesAre DEF Keys
  <2>2. IsText(item.ed25519) /\ IsText(item._e_c_d_s_a_secp256k1)
    BY KeyTexts DEF Asks
  <2> HIDE DEF item, key
  <2>3. /\ Field(item, "key_type") = KeyTypes[n][2]
        /\ Field(item, "ed25519") = item.ed25519
        /\ Field(item, "_e_c_d_s_a_secp256k1") = item._e_c_d_s_a_secp256k1
    BY <2>1 DEF Field, KeyEntry
  <2>4. /\ item.ed25519 = BytesOf(key, "ED25519")
        /\ key = Null \/ key._type \in {"ED25519", "ECDSA_SECP256K1"} =>
              item._e_c_d_s_a_secp256k1 = BytesOf(key, "ECDSA_SECP256K1")
    BY <2>1 DEF KeyEntry, BytesOf
  <2>5. ItemAt(10, n, 1) = Amount(KeyTypes[n][2])
    BY <1>2, <2>0, <2>3 DEF ItemReads
  <2>6. ItemAt(10, n, 4) = item.ed25519
    BY <1>2, <2>2, <2>0, <2>3 DEF ItemReads
  <2>7. ItemAt(10, n, 5) = item._e_c_d_s_a_secp256k1
    BY <1>2, <2>2, <2>0, <2>3 DEF ItemReads
  <2> QED BY <2>1, <2>4, <2>5, <2>6, <2>7, AmountIs DEF key
<1> QED BY <1>5, <1>6 DEF KeyItemsShown

LEMMA HardhatFixedItems ==
  ASSUME Asks, "getTokenInfo" \in called
  PROVE  FixedItemsShown
<1> DEFINE fees == Listed(remote.custom_fees, "fixed_fees")
<1>1. /\ Storage[18].label = "fixed_fees" /\ Storage[18].slot = 11 /\ Storage[18].type = "FixedFee"
      /\ 18 \in Listing /\ 11 \in SlotsRead["getTokenInfo"]
  BY StorageIndex DEF Storage, Member, SlotsRead
<1>2. /\ DOMAIN Items["FixedFee"] = 1 .. 5
      /\ InItem(18, 1).label = "amount" /\ InItem(18, 1).type = "int64"
      /\ InItem(18, 2).label = "token_id" /\ InItem(18, 2).type = "address"
      /\ InItem(18, 3).label = "use_hbars_for_payment" /\ InItem(18, 3).type = "bool"
      /\ InItem(18, 4).label = "use_current_token_for_payment" /\ InItem(18, 4).type = "bool"
      /\ InItem(18, 5).label = "fee_collector" /\ InItem(18, 5).type = "address"
  BY <1>1 DEF InItem, Items, Member
<1>3. Value("fixed_fees", "false") = FixedFees
  BY DEF Value
<1>4. IsList(fees) /\ DOMAIN FixedFees = DOMAIN fees /\ Len(FixedFees) = Len(fees)
  BY FeeSizes DEF FixedFees, IsList, Asks
<1>5. Read(<<11>>, 0) = Number(Len(fees))
  BY <1>1, <1>3, <1>4, HardhatLength DEF Asks
<1>6. ASSUME NEW n \in DOMAIN fees
      PROVE  /\ ItemAt(18, n, 1) = Number(fees[n].amount)
             /\ ItemAt(18, n, 2) \in Addresses(fees[n].denominating_token_id)
             /\ ItemAt(18, n, 3) = Truth(fees[n].denominating_token_id = Null)
             /\ ItemAt(18, n, 4) = Truth(fees[n].denominating_token_id = remote.token_id)
             /\ ItemAt(18, n, 5) \in Addresses(fees[n].collector_account_id)
  <2> DEFINE fee == fees[n]
             item == FixedFees[n]
  <2>0. \A j \in 1 .. 5 : ItemReads(18, n, j, item)
    <3> DEFINE i == 18
    <3>1. /\ i \in Listing /\ Storage[i].slot \in SlotsRead["getTokenInfo"]
          /\ FixedFees = Value(Storage[i].label, "false") /\ 1 .. 5 = DOMAIN Items[Storage[i].type]
      BY <1>1, <1>2, <1>3
    <3>2. n \in DOMAIN FixedFees
      BY <1>4
    <3> HIDE DEF i
    <3>3. \A j \in 1 .. 5 : ItemReads(i, n, j, item)
      BY <3>1, <3>2, HardhatItems
    <3> QED BY <3>3 DEF i
  <2>1. item = FixedFeeOf(fee, remote.token_id)
    BY <1>4 DEF FixedFees
  <2>2. fee.amount \in Int
    BY DEF Asks, IsToken, Listed
  <2> HIDE DEF item, fee, fees
  <2> DEFINE hbars == Flag(fee.denominating_token_id = Null)
             current == Flag(fee.denominating_token_id = remote.token_id)
  <2>3. /\ Field(item, "amount") = fee.amount
        /\ Field(item, "token_id") = fee.denominating_token_id
        /\ Field(item, "use_hbars_for_payment") = hbars
        /\ Field(item, "use_current_token_for_payment") = current
        /\ Field(item, "fee_collector") = fee.collector_account_id
    BY <2>1 DEF Field, FixedFeeOf
  <2>4. ItemAt(18, n, 1) = Amount(fee.amount)
    BY <1>2, <2>0, <2>3 DEF ItemReads
  <2>5. ItemAt(18, n, 2) \in Addresses(fee.denominating_token_id)
    BY <1>2, <2>0, <2>3 DEF ItemReads
  <2>6. ItemAt(18, n, 3) = Truth(hbars = "true")
    <3> HIDE DEF hbars
    <3> QED BY <1>2, <2>0, <2>3 DEF ItemReads
  <2>7. ItemAt(18, n, 4) = Truth(current = "true")
    <3> HIDE DEF current
    <3> QED BY <1>2, <2>0, <2>3 DEF ItemReads
  <2>8. ItemAt(18, n, 5) \in Addresses(fee.collector_account_id)
    BY <1>2, <2>0, <2>3 DEF ItemReads
  <2>9. /\ ItemAt(18, n, 3) = Truth(fee.denominating_token_id = Null)
        /\ ItemAt(18, n, 4) = Truth(fee.denominating_token_id = remote.token_id)
    BY <2>6, <2>7 DEF Flag, Truth
  <2> QED BY <2>2, <2>4, <2>5, <2>8, <2>9, AmountIs DEF fee
<1> QED BY <1>5, <1>6 DEF FixedItemsShown

LEMMA HardhatFractionalItems ==
  ASSUME Asks, "getTokenInfo" \in called
  PROVE  FractionalItemsShown
<1> DEFINE fees == Listed(remote.custom_fees, "fractional_fees")
<1>1. /\ Storage[19].label = "fractional_fees" /\ Storage[19].slot = 12 /\ Storage[19].type = "FractionalFee"
      /\ 19 \in Listing /\ 12 \in SlotsRead["getTokenInfo"]
  BY StorageIndex DEF Storage, Member, SlotsRead
<1>2. /\ DOMAIN Items["FractionalFee"] = 1 .. 6
      /\ InItem(19, 1).label = "numerator" /\ InItem(19, 1).type = "int64"
      /\ InItem(19, 2).label = "denominator" /\ InItem(19, 2).type = "int64"
      /\ InItem(19, 3).label = "minimum_amount" /\ InItem(19, 3).type = "int64"
      /\ InItem(19, 4).label = "maximum_amount" /\ InItem(19, 4).type = "int64"
      /\ InItem(19, 5).label = "net_of_transfers" /\ InItem(19, 5).type = "bool"
      /\ InItem(19, 6).label = "fee_collector" /\ InItem(19, 6).type = "address"
  BY <1>1 DEF InItem, Items, Member
<1>3. Value("fractional_fees", "false") = FractionalFees
  BY DEF Value
<1>4. IsList(fees) /\ DOMAIN FractionalFees = DOMAIN fees /\ Len(FractionalFees) = Len(fees)
  BY FeeSizes DEF FractionalFees, IsList, Asks
<1>5. Read(<<12>>, 0) = Number(Len(fees))
  BY <1>1, <1>3, <1>4, HardhatLength DEF Asks
<1>6. ASSUME NEW n \in DOMAIN fees
      PROVE  /\ ItemAt(19, n, 1) = Number(fees[n].numerator)
             /\ ItemAt(19, n, 2) = Number(fees[n].denominator)
             /\ ItemAt(19, n, 3) = Number(fees[n].minimum)
             /\ ItemAt(19, n, 4) = Number(fees[n].maximum)
             /\ ItemAt(19, n, 5) = Truth(fees[n].net_of_transfers = "true")
             /\ ItemAt(19, n, 6) \in Addresses(fees[n].collector_account_id)
  <2> DEFINE fee == fees[n]
             item == FractionalFees[n]
  <2>0. \A j \in 1 .. 6 : ItemReads(19, n, j, item)
    <3> DEFINE i == 19
    <3>1. /\ i \in Listing /\ Storage[i].slot \in SlotsRead["getTokenInfo"]
          /\ FractionalFees = Value(Storage[i].label, "false") /\ 1 .. 6 = DOMAIN Items[Storage[i].type]
      BY <1>1, <1>2, <1>3
    <3>2. n \in DOMAIN FractionalFees
      BY <1>4
    <3> HIDE DEF i
    <3>3. \A j \in 1 .. 6 : ItemReads(i, n, j, item)
      BY <3>1, <3>2, HardhatItems
    <3> QED BY <3>3 DEF i
  <2>1. item = FractionalFeeOf(fee)
    BY <1>4 DEF FractionalFees
  <2>2. fee.numerator \in Int /\ fee.denominator \in Int /\ fee.minimum \in Int /\ fee.maximum \in Int
    BY DEF Asks, IsToken, Listed
  <2> HIDE DEF item, fee, fees
  <2>3. /\ Field(item, "numerator") = fee.numerator
        /\ Field(item, "denominator") = fee.denominator
        /\ Field(item, "minimum_amount") = fee.minimum
        /\ Field(item, "maximum_amount") = fee.maximum
        /\ Field(item, "net_of_transfers") = fee.net_of_transfers
        /\ Field(item, "fee_collector") = fee.collector_account_id
    BY <2>1 DEF Field, FractionalFeeOf
  <2>4. ItemAt(19, n, 1) = Amount(fee.numerator)
    BY <1>2, <2>0, <2>3 DEF ItemReads
  <2>5. ItemAt(19, n, 2) = Amount(fee.denominator)
    BY <1>2, <2>0, <2>3 DEF ItemReads
  <2>6. ItemAt(19, n, 3) = Amount(fee.minimum)
    BY <1>2, <2>0, <2>3 DEF ItemReads
  <2>7. ItemAt(19, n, 4) = Amount(fee.maximum)
    BY <1>2, <2>0, <2>3 DEF ItemReads
  <2>8. ItemAt(19, n, 5) = Truth(fee.net_of_transfers = "true")
    BY <1>2, <2>0, <2>3 DEF ItemReads
  <2>9. ItemAt(19, n, 6) \in Addresses(fee.collector_account_id)
    BY <1>2, <2>0, <2>3 DEF ItemReads
  <2> QED BY <2>2, <2>4, <2>5, <2>6, <2>7, <2>8, <2>9, AmountIs DEF fee
<1> QED BY <1>5, <1>6 DEF FractionalItemsShown

LEMMA HardhatRoyaltyItems ==
  ASSUME Asks, "getTokenInfo" \in called
  PROVE  RoyaltyItemsShown
<1> DEFINE fees == Listed(remote.custom_fees, "royalty_fees")
<1>1. /\ Storage[20].label = "royalty_fees" /\ Storage[20].slot = 13 /\ Storage[20].type = "RoyaltyFee"
      /\ 20 \in Listing /\ 13 \in SlotsRead["getTokenInfo"]
  BY StorageIndex DEF Storage, Member, SlotsRead
<1>2. /\ DOMAIN Items["RoyaltyFee"] = 1 .. 6
      /\ InItem(20, 1).label = "numerator" /\ InItem(20, 1).type = "int64"
      /\ InItem(20, 2).label = "denominator" /\ InItem(20, 2).type = "int64"
      /\ InItem(20, 3).label = "amount" /\ InItem(20, 3).type = "int64"
      /\ InItem(20, 6).label = "fee_collector" /\ InItem(20, 6).type = "address"
  BY <1>1 DEF InItem, Items, Member
<1>3. Value("royalty_fees", "false") = RoyaltyFees
  BY DEF Value
<1>4. IsList(fees) /\ DOMAIN RoyaltyFees = DOMAIN fees /\ Len(RoyaltyFees) = Len(fees)
  BY FeeSizes DEF RoyaltyFees, IsList, Asks
<1>5. Read(<<13>>, 0) = Number(Len(fees))
  BY <1>1, <1>3, <1>4, HardhatLength DEF Asks
<1>6. ASSUME NEW n \in DOMAIN fees
      PROVE  /\ ItemAt(20, n, 1) = Number(fees[n].numerator)
             /\ ItemAt(20, n, 2) = Number(fees[n].denominator)
             /\ ItemAt(20, n, 3) = Number(IF fees[n].fallback_fee = Null THEN 0 ELSE fees[n].fallback_fee.amount)
             /\ ItemAt(20, n, 6) \in Addresses(fees[n].collector_account_id)
  <2> DEFINE fee == fees[n]
             item == RoyaltyFees[n]
             amount == IF fee.fallback_fee = Null THEN Null ELSE fee.fallback_fee.amount
  <2>0. \A j \in 1 .. 6 : ItemReads(20, n, j, item)
    <3> DEFINE i == 20
    <3>1. /\ i \in Listing /\ Storage[i].slot \in SlotsRead["getTokenInfo"]
          /\ RoyaltyFees = Value(Storage[i].label, "false") /\ 1 .. 6 = DOMAIN Items[Storage[i].type]
      BY <1>1, <1>2, <1>3
    <3>2. n \in DOMAIN RoyaltyFees
      BY <1>4
    <3> HIDE DEF i
    <3>3. \A j \in 1 .. 6 : ItemReads(i, n, j, item)
      BY <3>1, <3>2, HardhatItems
    <3> QED BY <3>3 DEF i
  <2>1. item = RoyaltyFeeOf(fee)
    BY <1>4 DEF RoyaltyFees
  <2>2. fee.numerator \in Int /\ fee.denominator \in Int
        /\ (fee.fallback_fee = Null \/ fee.fallback_fee.amount \in Int)
    BY DEF Asks, IsToken, Listed
  <2> HIDE DEF item, fee, fees
  <2>3. /\ Field(item, "numerator") = fee.numerator
        /\ Field(item, "denominator") = fee.denominator
        /\ Field(item, "amount") = amount
        /\ Field(item, "fee_collector") = fee.collector_account_id
    BY <2>1 DEF Field, RoyaltyFeeOf
  <2>4. ItemAt(20, n, 1) = Amount(fee.numerator)
    BY <1>2, <2>0, <2>3 DEF ItemReads
  <2>5. ItemAt(20, n, 2) = Amount(fee.denominator)
    BY <1>2, <2>0, <2>3 DEF ItemReads
  <2>6. ItemAt(20, n, 3) = Amount(amount)
    <3> HIDE DEF amount
    <3> QED BY <1>2, <2>0, <2>3 DEF ItemReads
  <2>7. ItemAt(20, n, 6) \in Addresses(fee.collector_account_id)
    BY <1>2, <2>0, <2>3 DEF ItemReads
  <2>8. Amount(amount) = Number(IF fee.fallback_fee = Null THEN 0 ELSE fee.fallback_fee.amount)
    BY <2>2, NullAssumption DEF Amount
  <2> QED BY <2>2, <2>4, <2>5, <2>6, <2>7, <2>8, AmountIs DEF fee
<1> QED BY <1>5, <1>6 DEF RoyaltyItemsShown

LEMMA HardhatAsks ==
  ASSUME ReadInv, adapter = "hardhat", created = Null, called # {}
  PROVE  Asks
  BY TokensAssumption DEF ReadInv, TokenInv, Called, Asks
=============================================================================
