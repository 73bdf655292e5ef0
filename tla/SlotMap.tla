------------------------------- MODULE SlotMap -------------------------------
(***************************************************************************)
(* src/slotmap.js: a token object of the Mirror Node laid out in the       *)
(* storage slots of a token contract, the way the Solidity compiler lays   *)
(* out the state variables of HtsSystemContract.                           *)
(*                                                                         *)
(* A slot is a sequence of numbers: <<n>> is state slot n, s \o <<i>> is   *)
(* slot keccak256(s) + i.  A word is a set of <<offset, value>>, without   *)
(* zeros.  A value is a tagged tuple; a string or bytes is [id, len],      *)
(* which bytes it is and how many, and its chunks are <<"chunk", id, i>>.  *)
(* A JavaScript Boolean is Flag of one: pause_status is a string at first. *)
(***************************************************************************)
EXTENDS Integers, Sequences

CONSTANTS
    Null,            \* null, or a field that the object does not have
    Accounts,        \* the accounts that have an EVM address of their own
    NanosPerSecond   \* scale of expiry_timestamp

ASSUME NullAssumption  == Null \notin Int /\ Null # "true"
ASSUME NanosAssumption == NanosPerSecond \in Nat \ {0}

Number(n) == <<"number", n>>
Zero == Number(0)
Amount(n) == Number(IF n = Null THEN 0 ELSE n)
Flag(b) == IF b THEN "true" ELSE "false"
Empty == [id |-> "", len |-> 0]
Plus(slot, n) == [slot EXCEPT ![Len(slot)] = @ + n]
Keccak(slot) == Append(slot, 0)
Ceil32(n) == (n + 31) \div 32
Field(obj, label) == IF label \in DOMAIN obj THEN obj[label] ELSE Null
Listed(obj, label) == IF label \in DOMAIN obj THEN obj[label] ELSE <<>>

\* A string or a list as a document has it.
IsText(str) ==
    str = [id |-> str.id, len |-> str.len] /\ str.len \in Nat /\ (str.len = 0 => str = Empty)
IsList(list) == Len(list) \in Nat /\ DOMAIN list = 1 .. Len(list)

\* The fields of obj, and those of rest that it does not have.
Over(obj, rest) ==
    [label \in DOMAIN obj \cup DOMAIN rest |->
        IF label \in DOMAIN obj THEN obj[label] ELSE rest[label]]

-----------------------------------------------------------------------------
(* The storage layout: what the compiler emits for the state variables, in *)
(* their order.  Labels are written the way toSnakeCase turns them.  visit *)
(* goes into a struct with the object it has, so the fields of a struct    *)
(* stand here in the place of the struct; a type of Items is an array.     *)

Member(label, slot, offset, type) ==
    [label |-> label, slot |-> slot, offset |-> offset, type |-> type]

Storage == <<
    Member("token_type", 0, 0, "string"),        Member("decimals", 1, 0, "uint8"),
    Member("name", 2, 0, "string"),              Member("symbol", 3, 0, "string"),
    Member("treasury", 4, 0, "address"),         Member("memo", 5, 0, "string"),
    Member("token_supply_type", 6, 0, "bool"),   Member("max_supply", 6, 1, "int64"),
    Member("freeze_default", 6, 9, "bool"),      Member("token_keys", 7, 0, "TokenKey"),
    Member("second", 8, 0, "int64"),             Member("auto_renew_account", 8, 8, "address"),
    Member("auto_renew_period", 9, 0, "int64"),  Member("total_supply", 10, 0, "int64"),
    Member("deleted", 10, 8, "bool"),            Member("default_kyc_status", 10, 9, "bool"),
    Member("pause_status", 10, 10, "bool"),      Member("fixed_fees", 11, 0, "FixedFee"),
    Member("fractional_fees", 12, 0, "FractionalFee"),
    Member("royalty_fees", 13, 0, "RoyaltyFee"), Member("ledger_id", 14, 0, "string") >>

Items == [
    TokenKey |-> <<
        Member("key_type", 0, 0, "uint256"),     Member("inherit_account_key", 1, 0, "bool"),
        Member("contract_id", 1, 1, "address"),  Member("ed25519", 2, 0, "bytes"),
        Member("_e_c_d_s_a_secp256k1", 3, 0, "bytes"),
        Member("delegatable_contract_id", 4, 0, "address") >>,
    FixedFee |-> <<
        Member("amount", 0, 0, "int64"),         Member("token_id", 0, 8, "address"),
        Member("use_hbars_for_payment", 0, 28, "bool"),
        Member("use_current_token_for_payment", 0, 29, "bool"),
        Member("fee_collector", 1, 0, "address") >>,
    FractionalFee |-> <<
        Member("numerator", 0, 0, "int64"),      Member("denominator", 0, 8, "int64"),
        Member("minimum_amount", 0, 16, "int64"), Member("maximum_amount", 0, 24, "int64"),
        Member("net_of_transfers", 1, 0, "bool"), Member("fee_collector", 1, 1, "address") >>,
    RoyaltyFee |-> <<
        Member("numerator", 0, 0, "int64"),      Member("denominator", 0, 8, "int64"),
        Member("amount", 0, 16, "int64"),        Member("token_id", 1, 0, "address"),
        Member("use_hbars_for_payment", 1, 20, "bool"),
        Member("fee_collector", 2, 0, "address") >> ]

\* numberOfBytes / 32
Size == [TokenKey |-> 5, FixedFee |-> 2, FractionalFee |-> 2, RoyaltyFee |-> 3]

-----------------------------------------------------------------------------
(* _types: the words of a primitive, the first for its own slot and the    *)
(* rest from keccak256 of it on; and visit, the stores of a field in order.*)

ByteTypes == {"string", "bytes"}

IsLongFrom33(str) == str.len > 32    \* mutant: one byte too many inline
IsLong(str) == str.len > 31

Inline(str) ==
    IF IsLong(str) THEN <<"length", str.len>>
    ELSE IF str.len = 0 THEN Zero ELSE <<"inline", str.id, str.len>>
Chunks(str) == IF IsLong(str) THEN 1 .. Ceil32(str.len) ELSE {}
Chunk(str, i) == <<"chunk", str.id, i>>

Word(type, prop) ==
    CASE type \in ByteTypes -> Inline(prop)
      [] type \in {"uint8", "uint256", "int64"} -> Amount(prop)
      [] type = "address" -> IF prop = Null THEN Zero ELSE <<"account", prop>>
      [] type = "bool"    -> Number(IF prop = "true" THEN 1 ELSE 0)

\* A store has its path in the walk, in whose order stores happen; a whole
\* store is one with offset null.
Store(path, slot, offset, value) ==
    [path |-> path, slot |-> slot, offset |-> offset, value |-> value, whole |-> FALSE]
StoreWhole(path, slot, value) ==
    [path |-> path, slot |-> slot, offset |-> 0, value |-> value, whole |-> TRUE]
Before(p, q) == \E n \in DOMAIN p : p[n] < q[n] /\ \A m \in 1 .. n - 1 : p[m] = q[m]

VisitField(member, base, obj, path) ==
    LET slot == Plus(base, member.slot)
        prop == Field(obj, member.label)
    IN  {Store(Append(path, 0), slot, member.offset, Word(member.type, prop))}
        \cup {StoreWhole(Append(path, i), Plus(Keccak(slot), i - 1), Chunk(prop, i)) :
                 i \in IF member.type \in ByteTypes THEN Chunks(prop) ELSE {}}

VisitItem(type, base, item, path) ==
    UNION {VisitField(Items[type][i], base, item, Append(path, i)) : i \in DOMAIN Items[type]}

\* Item i of the array at slot.
UnscaledItem(slot, i, size) == Plus(Keccak(slot), i - 1)    \* mutant: by bytes, not slots
ItemSlot(slot, i, size) == Plus(Keccak(slot), (i - 1) * size)

VisitArray(member, slot, arr, path) ==
    {StoreWhole(Append(path, 0), slot, Number(Len(arr)))}
    \cup UNION {VisitItem(member.type, ItemSlot(slot, i, Size[member.type]), arr[i], Append(path, i)) :
                   i \in DOMAIN arr}

Visit(member, obj, path) ==
    IF member.type \in DOMAIN Items
    THEN VisitArray(member, <<member.slot>>, obj[member.label], path)
    ELSE VisitField(member, <<0>>, obj, path)

-----------------------------------------------------------------------------
(* slotMapOf, its normalisation of the token object and its SlotMap.       *)

KeyTypes == << <<"admin_key", 1>>, <<"kyc_key", 2>>, <<"freeze_key", 4>>, <<"wipe_key", 8>>,
               <<"supply_key", 16>>, <<"fee_schedule_key", 32>>, <<"pause_key", 64>> >>

KeyEntry(key, key_type) ==
    LET isEd25519 == key # Null /\ key._type = "ED25519"
        isOther   == key # Null /\ key._type # "ED25519"
    IN  [key_type             |-> key_type,
         ed25519              |-> IF isEd25519 THEN key.key ELSE Empty,
         _e_c_d_s_a_secp256k1 |-> IF isOther THEN key.key ELSE Empty]

FixedFeeOf(fee, token_id) ==
    [fee_collector |-> fee.collector_account_id, amount |-> fee.amount,
     token_id      |-> fee.denominating_token_id,
     use_hbars_for_payment         |-> Flag(fee.denominating_token_id = Null),
     use_current_token_for_payment |-> Flag(fee.denominating_token_id = token_id)]

FractionalFeeOf(fee) ==
    [net_of_transfers |-> fee.net_of_transfers, fee_collector |-> fee.collector_account_id,
     numerator        |-> fee.numerator,        denominator   |-> fee.denominator,
     minimum_amount   |-> fee.minimum,          maximum_amount |-> fee.maximum]

\* The layout asks for token_id and use_hbars_for_payment, which are not here.
RoyaltyFeeOf(fee) ==
    [numerator |-> fee.numerator, denominator |-> fee.denominator,
     amount    |-> IF fee.fallback_fee = Null THEN Null ELSE fee.fallback_fee.amount,
     tokenId   |-> IF fee.fallback_fee = Null THEN Null
                   ELSE fee.fallback_fee.denominating_token_id,
     fee_collector |-> fee.collector_account_id]

\* In place: the result replaces the object in the client's cache.
Normalise(token, ledgerId) ==
    LET fixed      == Listed(token.custom_fees, "fixed_fees")
        fractional == Listed(token.custom_fees, "fractional_fees")
        royalty    == Listed(token.custom_fees, "royalty_fees")
    IN  Over([token_type         |-> token.type,
              token_supply_type  |-> Flag(token.supply_type = "FINITE"),
              default_kyc_status |-> Flag(FALSE),
              treasury           |-> token.treasury_account_id,
              ledger_id          |-> ledgerId,
              second             |-> token.expiry_timestamp \div NanosPerSecond,
              pause_status       |-> Flag(token.pause_status = "PAUSED"),
              token_keys         |-> [i \in DOMAIN KeyTypes |->
                                         KeyEntry(token[KeyTypes[i][1]], KeyTypes[i][2])],
              fixed_fees         |-> [i \in DOMAIN fixed |-> FixedFeeOf(fixed[i], token.token_id)],
              fractional_fees    |-> [i \in DOMAIN fractional |-> FractionalFeeOf(fractional[i])],
              royalty_fees       |-> [i \in DOMAIN royalty |-> RoyaltyFeeOf(royalty[i])]],
             token)

StoresOf(token) == UNION {Visit(Storage[i], token, <<i>>) : i \in DOMAIN Storage}

\* store: a whole store needs an unused slot, another one an unused offset.
Refused(stores) ==
    \E s, t \in stores : /\ s.slot = t.slot /\ Before(s.path, t.path)
                         /\ t.whole \/ s.offset = t.offset

\* load.
SlotsOf(stores) == {s.slot : s \in stores}
LoadFrom(stores, slot) == {<<s.offset, s.value>> : s \in {t \in stores : t.slot = slot}}

-----------------------------------------------------------------------------
(* The word of a request: what is lazy is looked up, and the rest of an    *)
(* account id that is unknown or cannot be had is its address.             *)

Resolve(value, unreachable) ==
    IF value[1] # "account" THEN value
    ELSE IF value[2] \in Accounts \ unreachable THEN <<"evm", value[2]>> ELSE Number(value[2])

\* packValues.
Packed(values, unreachable) ==
    {v \in {<<w[1], Resolve(w[2], unreachable)>> : w \in values} : v[2] # Zero}
=============================================================================
