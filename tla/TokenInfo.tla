------------------------------ MODULE TokenInfo ------------------------------
(***************************************************************************)
(* The information of a remote token -- names, supply, keys, fees -- as a  *)
(* contract reads it on a fork, with either storage adapter:               *)
(*  - "hardhat": each slot is a request to the worker, which builds the    *)
(*    slot map of the token object that its client holds (SlotMap), and    *)
(*    EDR keeps the word;                                                  *)
(*  - "foundry": _initTokenData writes the slots before the first read,    *)
(*    computing their numbers by hand.                                     *)
(* Both must put every field where the compiled getters look for it.       *)
(***************************************************************************)
EXTENDS SlotMap, FiniteSets, FiniteSetsExt

CONSTANTS
    Tokens,     \* the token objects that the Mirror Node may have, or Null
    NewTokens,  \* the tokens that a contract may create at the same address
    LedgerId,   \* the ledger of the chain that is forked
    Adapters    \* {"hardhat", "foundry"}

\* What a token object has, by the Mirror Node's API: pause_status may be anything.
RawLabels ==
    {"token_id", "type", "decimals", "name", "symbol", "memo", "treasury_account_id", "supply_type",
     "max_supply", "freeze_default", "expiry_timestamp", "auto_renew_account", "auto_renew_period",
     "total_supply", "deleted", "custom_fees"} \cup {KeyTypes[i][1] : i \in DOMAIN KeyTypes}
IsToken(t) ==
    /\ RawLabels \subseteq DOMAIN t
    /\ IsText(t.type) /\ IsText(t.name) /\ IsText(t.symbol) /\ IsText(t.memo)
    /\ {t.decimals, t.max_supply, t.expiry_timestamp, t.total_supply} \subseteq Int
    /\ \A i \in DOMAIN KeyTypes : t[KeyTypes[i][1]] = Null \/ IsText(t[KeyTypes[i][1]].key)
    /\ \A list \in {"fixed_fees", "fractional_fees", "royalty_fees"} : IsList(Listed(t.custom_fees, list))
    /\ \A i \in DOMAIN Listed(t.custom_fees, "fixed_fees") : t.custom_fees.fixed_fees[i].amount \in Int
    /\ \A i \in DOMAIN Listed(t.custom_fees, "fractional_fees") :
          LET fee == t.custom_fees.fractional_fees[i]
          IN  {fee.numerator, fee.denominator, fee.minimum, fee.maximum} \subseteq Int
    /\ \A i \in DOMAIN Listed(t.custom_fees, "royalty_fees") :
          LET fee == t.custom_fees.royalty_fees[i]
          IN  /\ {fee.numerator, fee.denominator} \subseteq Int
              /\ fee.fallback_fee = Null \/ fee.fallback_fee.amount \in Int

VARIABLES
    adapter,
    remote,     \* the token object of the Mirror Node
    token,      \* the object in the client's cache
    words,      \* the words that the fork has: slot -> word
    created,    \* the token that was created at the address, or Null
    called,     \* the getters that were called, a second call of which reads no new slot
    missed      \* history: the accounts that could not be fetched

vars == <<adapter, remote, token, words, created, called, missed>>

-----------------------------------------------------------------------------
(* Getters of the contract, and the state slots they read.                 *)

\* Before any other slot the type is read, and compared with NOT_FOUND.
SlotsRead == [getTokenType |-> {0}, decimals |-> {0, 1}, name |-> {0, 2}, symbol |-> {0, 3},
              totalSupply  |-> {0, 10}, getTokenInfo |-> {0} \cup 2 .. 14]

\* External: how compiled code reads a field, by the layout.
ReadFrom(map, slot, offset) ==
    LET at == {v \in (IF slot \in DOMAIN map THEN map[slot] ELSE {}) : v[1] = offset}
    IN  IF at = {} THEN Zero ELSE (CHOOSE v \in at : TRUE)[2]
Read(slot, offset) == ReadFrom(words, slot, offset)

Garbled == [id |-> "garbled", len |-> 0]
ReadBytes(slot) ==
    LET header == Read(slot, 0)
        chunk(i) == Read(Plus(Keccak(slot), i - 1), 0)
    IN  CASE header = Zero -> Empty
          [] header[1] = "inline" /\ header[3] < 32 -> [id |-> header[2], len |-> header[3]]
          [] header[1] = "length" ->
                LET id == chunk(1)[2]
                IN  IF \A i \in 1 .. Ceil32(header[2]) : chunk(i) = <<"chunk", id, i>>
                    THEN [id |-> id, len |-> header[2]] ELSE Garbled
          [] OTHER -> Garbled

ReadField(member, base) ==
    LET slot == Plus(base, member.slot)
    IN  IF member.type \in ByteTypes THEN ReadBytes(slot) ELSE Read(slot, member.offset)

Labels(members) == {members[i].label : i \in DOMAIN members}
Labelled(members, label) == members[CHOOSE i \in DOMAIN members : members[i].label = label]

ReadItem(type, base) ==
    [label \in Labels(Items[type]) |-> ReadField(Labelled(Items[type], label), base)]
ReadArray(type, slot) ==
    [i \in 1 .. Read(slot, 0)[2] |-> ReadItem(type, Plus(Keccak(slot), (i - 1) * Size[type]))]

Info == [label \in Labels(Storage) |->
            LET member == Labelled(Storage, label)
            IN  IF member.type \in DOMAIN Items THEN ReadArray(member.type, <<member.slot>>)
                ELSE ReadField(member, <<0>>)]

\* getTokenKey, and KeyLib.keyExists.
GetTokenKey(info, keyType) ==
    LET found == {i \in DOMAIN info.token_keys : info.token_keys[i].key_type = Number(keyType)}
    IN  IF found = {} THEN [ed25519 |-> Empty, ecdsa |-> Empty]
        ELSE LET k == info.token_keys[Min(found)]
             IN  [ed25519 |-> k.ed25519, ecdsa |-> k._e_c_d_s_a_secp256k1]

-----------------------------------------------------------------------------
(* Hardhat.  The getter asks for its slots one after the other, and each   *)
(* request normalises the object that the one before it left.              *)

Once == Normalise(token, LedgerId)
Again == Normalise(Once, LedgerId)

Asked(heads) ==
    IF remote = Null THEN {}
    ELSE {s \in SlotsOf(StoresOf(Once)) : s[1] \in heads} \ DOMAIN words
LookedUp(asked) ==
    IF asked = {} THEN {}
    ELSE {s.value[2] : s \in {t \in StoresOf(Once) : t.slot \in asked /\ t.value[1] = "account"}}

Answers(asked, unreachable) ==
    LET first  == StoresOf(Once)
        rest   == StoresOf(Again)
        start  == <<Min({s[1] : s \in asked})>>
    IN  [s \in asked |-> Packed(LoadFrom(IF s = start THEN first ELSE rest, s), unreachable)]

Requests(asked) ==
    /\ remote # Null => ~Refused(StoresOf(Once))
    /\ \E unreachable \in SUBSET (LookedUp(asked) \cap Accounts) :
          /\ words' = Over(Answers(asked, unreachable), words)
          /\ missed' = missed \cup unreachable
    /\ token' = CASE Cardinality(asked) = 0 -> token
                   [] Cardinality(asked) = 1 -> Once
                   [] OTHER -> Again

HasCode == remote # Null \/ created # Null

CallHardhat(getter) ==
    /\ adapter = "hardhat" /\ HasCode /\ getter \notin called
    /\ Requests(Asked(SlotsRead[getter]))
    /\ called' = called \cup {getter}
    /\ UNCHANGED <<adapter, remote, created>>

-----------------------------------------------------------------------------
(* Foundry.  Store.sol: a whole word, or some bytes of one.                *)

\* A write has its path in the code, like a store of SlotMap.
Part(path, slot, offset, bytes, value) ==
    [path |-> path, slot |-> slot, from |-> offset, to |-> offset + bytes - 1, value |-> value]
Whole(path, slot, value)         == Part(path, slot, 0, 32, value)
Int64(path, slot, offset, n)     == Part(path, slot, offset, 8, Number(n))
Bool(path, slot, offset, b)      == Part(path, slot, offset, 1, Number(IF b THEN 1 ELSE 0))
Address(path, slot, offset, a)   == Part(path, slot, offset, 20, a)
StoreBytes(path, slot, str) ==
    {Whole(Append(path, 0), slot, Inline(str))}
    \cup {Whole(Append(path, i), Plus(Keccak(slot), i - 1), Chunk(str, i)) : i \in Chunks(str)}

ReplacesWord(w, v) ==    \* mutant: a part without the rest of its word
    v.slot = w.slot /\ Before(v.path, w.path)
Replaces(w, v) ==
    v.slot = w.slot /\ Before(v.path, w.path) /\ v.from \in w.from .. w.to
Written(writes) ==
    [s \in {w.slot : w \in writes} |->
        {<<v.from, v.value>> : v \in {v \in writes : /\ v.slot = s /\ v.value # Zero
                                                   /\ ~\E w \in writes : Replaces(w, v)}}]

\* getAccountAddress, which is 0 for no account.
AddressOf(id, unreachable) == Resolve(IF id = Null THEN Zero ELSE <<"account", id>>, unreachable)

\* _getTokenKey: the bytes of a key that is of the kind.
BytesOf(key, kind) == IF key # Null /\ key._type = kind THEN key.key ELSE Empty

EcdsaOverEd25519(path, s, key, keyType) ==    \* mutant: itemSlot not advanced
    { Whole(Append(path, 1), s, Number(IF key = Null THEN 0 ELSE keyType)) }
    \cup StoreBytes(Append(path, 4), Plus(s, 2), BytesOf(key, "ED25519"))
    \cup StoreBytes(Append(path, 5), Plus(s, 2), BytesOf(key, "ECDSA_SECP256K1"))
KeyWrites(path, s, key, keyType) ==
    { Whole(Append(path, 1), s, Number(IF key = Null THEN 0 ELSE keyType)),
      Bool(Append(path, 2), Plus(s, 1), 0, FALSE), Address(Append(path, 3), Plus(s, 1), 1, Zero),
      Whole(Append(path, 6), Plus(s, 4), Zero) }
    \cup StoreBytes(Append(path, 4), Plus(s, 2), BytesOf(key, "ED25519"))
    \cup StoreBytes(Append(path, 5), Plus(s, 3), BytesOf(key, "ECDSA_SECP256K1"))

FlagInAddress(path, s, fee, token_id, unreachable) ==    \* mutant: one byte too low
    { Int64(Append(path, 1), s, 0, fee.amount),
      Address(Append(path, 2), s, 8, AddressOf(fee.denominating_token_id, unreachable)),
      Bool(Append(path, 3), s, 27, fee.denominating_token_id = Null),
      Bool(Append(path, 4), s, 29, fee.denominating_token_id = token_id),
      Whole(Append(path, 5), Plus(s, 1), AddressOf(fee.collector_account_id, unreachable)) }

FixedFeeWrites(path, s, fee, token_id, unreachable) ==
    { Int64(Append(path, 1), s, 0, fee.amount),
      Address(Append(path, 2), s, 8, AddressOf(fee.denominating_token_id, unreachable)),
      Bool(Append(path, 3), s, 28, fee.denominating_token_id = Null),
      Bool(Append(path, 4), s, 29, fee.denominating_token_id = token_id),
      Whole(Append(path, 5), Plus(s, 1), AddressOf(fee.collector_account_id, unreachable)) }

FractionalFeeWrites(path, s, fee, unreachable) ==
    { Int64(Append(path, 1), s, 0, fee.numerator), Int64(Append(path, 2), s, 8, fee.denominator),
      Int64(Append(path, 3), s, 16, fee.minimum), Int64(Append(path, 4), s, 24, fee.maximum),
      Bool(Append(path, 5), Plus(s, 1), 0, fee.net_of_transfers = "true"),
      Address(Append(path, 6), Plus(s, 1), 1, AddressOf(fee.collector_account_id, unreachable)) }

\* denominating_token_id is asked of the fee, which has it in fallback_fee.
RoyaltyFeeWrites(path, s, fee, unreachable) ==
    { Int64(Append(path, 1), s, 0, fee.numerator), Int64(Append(path, 2), s, 8, fee.denominator),
      Int64(Append(path, 3), s, 16, IF fee.fallback_fee = Null THEN 0 ELSE fee.fallback_fee.amount),
      Address(Append(path, 4), Plus(s, 1), 0, Zero),
      Bool(Append(path, 5), Plus(s, 1), 20, fee.collector_account_id = Null),
      Whole(Append(path, 6), Plus(s, 2), AddressOf(fee.collector_account_id, unreachable)) }

\* A list of fees that the document does not have is empty.
FeesOf(list) == Listed(remote.custom_fees, list)
InitKeys ==
    {Whole(<<7, 0>>, <<7>>, Number(Len(KeyTypes)))}
    \cup UNION {KeyWrites(<<7, i>>, ItemSlot(<<7>>, i, 5), remote[KeyTypes[i][1]], KeyTypes[i][2]) :
                   i \in DOMAIN KeyTypes}
InitFixedFees(unreachable) ==
    LET fees == FeesOf("fixed_fees")
    IN  {Whole(<<11, 0>>, <<11>>, Number(Len(fees)))}
        \cup UNION {FixedFeeWrites(<<11, i>>, ItemSlot(<<11>>, i, 2), fees[i], remote.token_id, unreachable) :
                       i \in DOMAIN fees}
InitFractionalFees(unreachable) ==
    LET fees == FeesOf("fractional_fees")
    IN  {Whole(<<12, 0>>, <<12>>, Number(Len(fees)))}
        \cup UNION {FractionalFeeWrites(<<12, i>>, ItemSlot(<<12>>, i, 2), fees[i], unreachable) :
                       i \in DOMAIN fees}
InitRoyaltyFees(unreachable) ==
    LET fees == FeesOf("royalty_fees")
    IN  {Whole(<<13, 0>>, <<13>>, Number(Len(fees)))}
        \cup UNION {RoyaltyFeeWrites(<<13, i>>, ItemSlot(<<13>>, i, 3), fees[i], unreachable) :
                       i \in DOMAIN fees}

\* State slots are written in their order; _tokenInfo starts at slot 2.
InitWrites(unreachable) ==
    StoreBytes(<<0>>, <<0>>, remote.type)
    \cup {Whole(<<1>>, <<1>>, Number(remote.decimals))}
    \cup StoreBytes(<<2>>, <<2>>, remote.name)
    \cup StoreBytes(<<3>>, <<3>>, remote.symbol)
    \cup {Whole(<<4>>, <<4>>, AddressOf(remote.treasury_account_id, unreachable))}
    \cup StoreBytes(<<5>>, <<5>>, remote.memo)
    \cup { Bool(<<6, 1>>, <<6>>, 0, remote.supply_type = "FINITE"),
           Int64(<<6, 2>>, <<6>>, 1, remote.max_supply),
           Bool(<<6, 3>>, <<6>>, 9, remote.freeze_default = "true") }
    \cup InitKeys
    \cup { Int64(<<8, 1>>, <<8>>, 0, remote.expiry_timestamp \div NanosPerSecond),
           Address(<<8, 2>>, <<8>>, 8, AddressOf(remote.auto_renew_account, unreachable)) }
    \cup {Whole(<<9>>, <<9>>, Amount(remote.auto_renew_period))}
    \cup { Int64(<<10, 1>>, <<10>>, 0, remote.total_supply),
           Bool(<<10, 2>>, <<10>>, 8, remote.deleted = "true"),
           Bool(<<10, 3>>, <<10>>, 9, FALSE),
           Bool(<<10, 4>>, <<10>>, 10, remote.pause_status = "PAUSED") }
    \cup InitFixedFees(unreachable)
    \cup InitFractionalFees(unreachable)
    \cup InitRoyaltyFees(unreachable)
    \cup StoreBytes(<<14>>, <<14>>, LedgerId)

\* _initSlot is set before the first getter returns, and by __setTokenInfo.
SetByFetchOnly == called # {}    \* mutant
IsInitialised == called # {} \/ created # Null

CallFoundry(getter) ==
    /\ adapter = "foundry" /\ HasCode /\ getter \notin called
    /\ \/ IsInitialised /\ UNCHANGED <<words, missed>>
       \/ /\ ~IsInitialised /\ remote # Null
          /\ \E unreachable \in SUBSET Accounts :
                words' = Written(InitWrites(unreachable)) /\ missed' = unreachable
    /\ called' = called \cup {getter}
    /\ UNCHANGED <<adapter, remote, token, created>>

-----------------------------------------------------------------------------

(* _createToken and __setTokenInfo: the fields are assigned, the items of  *)
(* the arrays are pushed after those that are there.                       *)

CreatedInfo(new) ==
    Over([total_supply |-> 0, deleted |-> Flag(FALSE), default_kyc_status |-> Flag(TRUE),
          pause_status |-> Flag(FALSE), ledger_id |-> [id |-> "0x03", len |-> 4]], new)

Arrays == {Storage[i] : i \in {j \in DOMAIN Storage : Storage[j].type \in DOMAIN Items}}
LengthSlots == {<<array.slot>> : array \in Arrays}

\* What a created token has, by the types of _createToken: its keys may repeat a type.
IsCreated(info) ==
    /\ info # Null
    /\ Labels(Storage) \subseteq DOMAIN info
    /\ \A label \in {"token_type", "name", "symbol", "memo", "ledger_id"} : IsText(info[label])
    /\ \A array \in Arrays : IsList(info[array.label])
    /\ \A i \in DOMAIN info.token_keys :
          LET key == info.token_keys[i]
          IN  /\ {"key_type", "ed25519", "_e_c_d_s_a_secp256k1"} \subseteq DOMAIN key
              /\ key.key_type \in Int /\ IsText(key.ed25519) /\ IsText(key._e_c_d_s_a_secp256k1)
    /\ \A i \in DOMAIN info.fixed_fees : "amount" \in DOMAIN info.fixed_fees[i]

Push(map, array, items) ==
    LET slot == <<array.slot>>
        len  == ReadFrom(map, slot, 0)[2]
    IN  {StoreWhole(<<>>, slot, Number(len + Len(items)))}
        \cup UNION {VisitItem(array.type, ItemSlot(slot, len + i, Size[array.type]), items[i], <<i>>) :
                       i \in DOMAIN items}

SetTokenInfo(map, info) ==
    LET fields == UNION {VisitField(Storage[i], <<0>>, info, <<i>>) :
                            i \in {j \in DOMAIN Storage : Storage[j] \notin Arrays}}
        stores == fields \cup UNION {Push(map, array, info[array.label]) : array \in Arrays}
    IN  Over([s \in SlotsOf(stores) |-> Packed(LoadFrom(stores, s), {})], map)

Create(new) ==
    /\ created = Null
    /\ created' = CreatedInfo(new)
    /\ LET asked == IF adapter = "hardhat" THEN Asked({7, 11, 12, 13}) \cap LengthSlots ELSE {}
       IN  words' = SetTokenInfo(Over(Answers(asked, {}), words), CreatedInfo(new))
    /\ token' = IF adapter = "hardhat" /\ remote # Null THEN Again ELSE token
    /\ UNCHANGED <<adapter, remote, called, missed>>

-----------------------------------------------------------------------------

ASSUME TokensAssumption == IsText(LedgerId) /\ \A t \in Tokens : t = Null \/ IsToken(t)
ASSUME CreatedAssumption == \A new \in NewTokens : IsCreated(CreatedInfo(new))

Init == /\ adapter \in Adapters
        /\ remote \in Tokens /\ token = remote
        /\ words = <<>> /\ created = Null /\ called = {} /\ missed = {}

Next == \/ \E getter \in DOMAIN SlotsRead : CallHardhat(getter) \/ CallFoundry(getter)
        \/ \E new \in NewTokens : Create(new)

Spec == Init /\ [][Next]_vars

-----------------------------------------------------------------------------
(* Correctness: what the getters show once getTokenInfo was called, after  *)
(* any getters before it.                                                  *)

Shown == "getTokenInfo" \in called /\ created = Null
CreatedShown == "getTokenInfo" \in called /\ created # Null

Addresses(id) ==
    IF id = Null THEN {Zero}
    ELSE {Resolve(<<"account", id>>, {})} \cup (IF id \in missed THEN {Number(id)} ELSE {})
Truth(b) == Number(IF b THEN 1 ELSE 0)

\* Strings of any length, packed numbers, flags and accounts come out of the
\* storage as the Mirror Node has them, whichever getter was first; an account
\* that could not be fetched is its number.  A token is shown paused only if it
\* is, by Foundry also if it is.
InfoShown ==
    /\ "getTokenType" \in called /\ created = Null => ReadBytes(<<0>>) = remote.type
    /\ "decimals" \in called /\ created = Null => Read(<<1>>, 0) = Number(remote.decimals)
    /\ Shown =>
        LET info == Info
            paused == Truth(remote.pause_status = "PAUSED")
        IN  /\ info.name = remote.name /\ info.symbol = remote.symbol /\ info.memo = remote.memo
            /\ info.ledger_id = LedgerId
            /\ info.treasury \in Addresses(remote.treasury_account_id)
            /\ info.auto_renew_account \in Addresses(remote.auto_renew_account)
            /\ info.auto_renew_period = Amount(remote.auto_renew_period)
            /\ info.second = Number(remote.expiry_timestamp \div NanosPerSecond)
            /\ info.max_supply = Number(remote.max_supply)
            /\ info.total_supply = Number(remote.total_supply)
            /\ info.token_supply_type = Truth(remote.supply_type = "FINITE")
            /\ info.freeze_default = Truth(remote.freeze_default = "true")
            /\ info.deleted = Truth(remote.deleted = "true")
            /\ info.pause_status \in {paused} \cup (IF adapter = "hardhat" THEN {Zero} ELSE {})

\* getTokenKey of each type is the token's key of that type and of its kind,
\* and no key where the token has none; other kinds of keys are not stated.
KeysShown ==
    Shown => LET info == Info IN \A i \in DOMAIN KeyTypes :
        LET key   == remote[KeyTypes[i][1]]
            shown == GetTokenKey(info, KeyTypes[i][2])
        IN  /\ key = Null => shown.ed25519 = Empty /\ shown.ecdsa = Empty
            /\ key # Null => CASE key._type = "ED25519" -> shown = [ed25519 |-> key.key, ecdsa |-> Empty]
                               [] key._type = "ECDSA_SECP256K1" -> shown = [ed25519 |-> Empty, ecdsa |-> key.key]
                               [] OTHER -> TRUE

\* Every custom fee is there, in order, with its amounts, its collector and,
\* for a fixed fee, what it is paid in.
FeesShown ==
    Shown => LET info == Info
                 fixed == Listed(remote.custom_fees, "fixed_fees")
                 fractional == Listed(remote.custom_fees, "fractional_fees")
                 royalty == Listed(remote.custom_fees, "royalty_fees")
    IN  /\ Len(info.fixed_fees) = Len(fixed)
        /\ \A i \in DOMAIN fixed :
              LET fee == fixed[i]  shown == info.fixed_fees[i]
              IN  /\ shown.amount = Number(fee.amount)
                  /\ shown.token_id \in Addresses(fee.denominating_token_id)
                  /\ shown.use_hbars_for_payment = Truth(fee.denominating_token_id = Null)
                  /\ shown.use_current_token_for_payment =
                         Truth(fee.denominating_token_id = remote.token_id)
                  /\ shown.fee_collector \in Addresses(fee.collector_account_id)
        /\ Len(info.fractional_fees) = Len(fractional)
        /\ \A i \in DOMAIN fractional :
              LET fee == fractional[i]  shown == info.fractional_fees[i]
              IN  /\ shown.numerator = Number(fee.numerator)
                  /\ shown.denominator = Number(fee.denominator)
                  /\ shown.minimum_amount = Number(fee.minimum)
                  /\ shown.maximum_amount = Number(fee.maximum)
                  /\ shown.net_of_transfers = Truth(fee.net_of_transfers = "true")
                  /\ shown.fee_collector \in Addresses(fee.collector_account_id)
        /\ Len(info.royalty_fees) = Len(royalty)
        /\ \A i \in DOMAIN royalty :
              LET fee == royalty[i]  shown == info.royalty_fees[i]
              IN  /\ shown.numerator = Number(fee.numerator)
                  /\ shown.denominator = Number(fee.denominator)
                  /\ shown.amount = Number(IF fee.fallback_fee = Null THEN 0 ELSE fee.fallback_fee.amount)
                  /\ shown.fee_collector \in Addresses(fee.collector_account_id)

\* A created token has the plain fields it was created with, whatever was read at
\* its address before.  Its keys and fees are all there is only where there is no
\* remote token; over one they are the last, behind those that were read, although
\* CREATE_TOKEN.md asks for just them: CreatedAsDocumented of MCHtsFungible shows
\* that this is not so.
Own(info, array) ==     \* the items that were pushed
    LET n == Len(info[array])  m == Len(created[array])
    IN  SubSeq(info[array], n - m + 1, n)
CreatedInfoShown ==
    CreatedShown =>
    LET info == Info
    IN  /\ \A label \in {"name", "symbol", "memo", "ledger_id"} : info[label] = created[label]
        /\ \A label \in {"treasury", "auto_renew_account"} : info[label] \in Addresses(created[label])
        /\ \A label \in {"auto_renew_period", "second", "max_supply", "total_supply"} :
              info[label] = Amount(created[label])
        /\ \A label \in {"token_supply_type", "freeze_default", "deleted", "default_kyc_status",
                          "pause_status"} : info[label] = Truth(created[label] = "true")
        /\ \A i \in DOMAIN created.token_keys :
              LET key == Own(info, "token_keys")[i]
              IN  /\ key.key_type = Number(created.token_keys[i].key_type)
                  /\ key.ed25519 = created.token_keys[i].ed25519
        /\ \A i \in DOMAIN created.fixed_fees :
              Own(info, "fixed_fees")[i].amount = Amount(created.fixed_fees[i].amount)
        /\ remote = Null =>
              /\ \A array \in Arrays : Len(info[array.label]) = Len(created[array.label])
              /\ \A i \in DOMAIN created.token_keys :
                    LET key == created.token_keys[i]
                    IN  (\A j \in 1 .. i - 1 : created.token_keys[j].key_type # key.key_type) =>
                        GetTokenKey(info, key.key_type) =
                            [ed25519 |-> key.ed25519, ecdsa |-> key._e_c_d_s_a_secp256k1]

\* No request makes SlotMap.store throw, which would end the worker, however
\* many keys, fees and long strings the token has.
NoSlotTakenTwice == remote # Null => ~Refused(StoresOf(Normalise(token, LedgerId)))
=============================================================================
