------------------------------ MODULE MCTokenInfo ------------------------------
(***************************************************************************)
(* Small instances of TokenInfo: tokens that differ in what the layout     *)
(* tells apart, the lengths of strings around 32 and 64 bytes, the kinds   *)
(* of keys, and lists of none, one and two fees of each kind.              *)
(***************************************************************************)
EXTENDS TokenInfo

Str(id, len) == [id |-> IF len = 0 THEN "" ELSE id, len |-> len]
Ed25519(id)  == [_type |-> "ED25519", key |-> Str(id, 32)]
Ecdsa(id)    == [_type |-> "ECDSA_SECP256K1", key |-> Str(id, 33)]
Other(id)    == [_type |-> "ProtobufEncoded", key |-> Str(id, 70)]

\* Accounts 5 and 6 have EVM addresses; 8 is not found, like tokens 7 and 9.
Plain ==
    [token_id |-> 7, type |-> Str("FUNGIBLE_COMMON", 15), decimals |-> 6,
     name |-> Str("n", 31), symbol |-> Str("s", 3), memo |-> Empty,
     treasury_account_id |-> 5, supply_type |-> "INFINITE", max_supply |-> 0,
     freeze_default |-> "false", expiry_timestamp |-> 12345,
     auto_renew_account |-> Null, auto_renew_period |-> Null,
     total_supply |-> 100, deleted |-> "false", pause_status |-> "NOT_APPLICABLE",
     admin_key |-> Null, kyc_key |-> Null, freeze_key |-> Null, wipe_key |-> Null,
     supply_key |-> Null, fee_schedule_key |-> Null, pause_key |-> Null,
     custom_fees |-> [created |-> 1]]

Named == { [Plain EXCEPT !.name = Str("n", l), !.memo = Str("m", 64)] : l \in {0, 32, 65} }
         \cup {Plain}
Keyed == { Plain,
           [Plain EXCEPT !.admin_key = Ed25519("a"), !.supply_key = Ecdsa("s"),
                         !.pause_key = Ecdsa("p"), !.pause_status = "PAUSED",
                         !.auto_renew_account = 6, !.auto_renew_period = 90],
           [Plain EXCEPT !.kyc_key = Other("k"), !.freeze_key = Ecdsa("f"),
                         !.wipe_key = Ed25519("w"), !.fee_schedule_key = Ed25519("e"),
                         !.supply_type = "FINITE", !.max_supply = 200,
                         !.freeze_default = "true", !.deleted = "true"] }

Fixed(amount, id, collector) ==
    [amount |-> amount, denominating_token_id |-> id, collector_account_id |-> collector]
Fractional(n, d) ==
    [numerator |-> n, denominator |-> d, minimum |-> 3, maximum |-> 4,
     net_of_transfers |-> "true", collector_account_id |-> 6]
Royalty(n, d, fallback) ==
    [numerator |-> n, denominator |-> d, fallback_fee |-> fallback,
     collector_account_id |-> 5, all_collectors_are_exempt |-> "false"]

Fees == { [created |-> 1],
          [fixed_fees |-> <<Fixed(11, Null, 5), Fixed(12, 7, 8)>>,
           fractional_fees |-> <<Fractional(1, 2), Fractional(3, 5)>>],
          [fixed_fees |-> <<Fixed(13, 9, 6)>>, fractional_fees |-> <<>>,
           royalty_fees |-> << Royalty(1, 10, Null),
                               Royalty(2, 10, [amount |-> 14, denominating_token_id |-> 9]),
                               Royalty(3, 10, [amount |-> 15, denominating_token_id |-> Null]) >>] }

WithFees(tokens) == {[t EXCEPT !.custom_fees = fees] : t \in tokens, fees \in Fees}
SomeTokens == WithFees(Keyed) \cup Named \cup {Null}

\* A created token: one long string, three keys of two types, one fixed fee, an account.
NewToken ==
    [token_type |-> Str("FUNGIBLE_COMMON", 15), decimals |-> 2,
     name |-> Str("N", 40), symbol |-> Str("S", 2), memo |-> Empty, treasury |-> 6,
     token_supply_type |-> "true", max_supply |-> 70, freeze_default |-> "false",
     second |-> 99, auto_renew_account |-> Null, auto_renew_period |-> 30,
     token_keys |-> << [key_type |-> 1, ed25519 |-> Str("A", 32), _e_c_d_s_a_secp256k1 |-> Empty],
                       [key_type |-> 16, ed25519 |-> Str("S", 32), _e_c_d_s_a_secp256k1 |-> Empty],
                       [key_type |-> 16, ed25519 |-> Empty, _e_c_d_s_a_secp256k1 |-> Str("T", 33)] >>,
     fixed_fees |-> << [amount |-> 17, token_id |-> Null, use_hbars_for_payment |-> "true",
                        use_current_token_for_payment |-> "false", fee_collector |-> 6] >>,
     fractional_fees |-> <<>>, royalty_fees |-> <<>>]
NewTokenSet == {NewToken}
MirrorLedger == Str("0x01", 4)
=============================================================================
