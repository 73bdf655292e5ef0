------------------------------ MODULE HtsStorage ------------------------------
(***************************************************************************)
(* What getHtsStorageAt (src/index.js) and eth_getCode ask the Mirror Node *)
(* for one storage slot or code request, and the word they make of what it *)
(* answers.  Forwarder runs these requests concurrently.                   *)
(*                                                                         *)
(* The Mirror Node is external: Net[i] is the state of the Hedera network  *)
(* at time i, and block i is the block that ends at time i.                *)
(*                                                                         *)
(* A slot is <<kind, t, x, y>>: its kind, its token, and up to two numbers *)
(* of accounts or serials (0 where the kind has none).  A word is a        *)
(* number: an amount, a flag, an account, the identity of a token URI.     *)
(***************************************************************************)
EXTENDS Integers, Sequences

CONSTANTS
    Net,        \* time -> snapshot of the network
    Null,       \* no entity (404), or no answer
    Precision,  \* 2^53: the integers below it are JavaScript numbers
    HighByte    \* what tells 0x01 || accountNum, and an EVM alias, from a number

Times == DOMAIN Net

\* A snapshot: the accounts there are, token objects [paused, treasury], NFT
\* objects [owner, spender, uri], and one number for each <<kind, t, x, y>>
\* that is a balance, an allowance or a flag; absent entities are left out.
At(f, k) == IF k \in DOMAIN f THEN f[k] ELSE Null
PauseStatus == {"PAUSED", "UNPAUSED", "NOT_APPLICABLE"}
TokenObject == [paused : PauseStatus \cup {"true", "false"}, treasury : Nat]
ASSUME NetAssumption ==
    /\ HighByte \in Nat /\ Times \subseteq Nat /\ Null \notin Nat \cup TokenObject
    /\ \A i \in Times :
          /\ DOMAIN Net[i] = {"accounts", "token", "nft", "number"}
          /\ Net[i].accounts \subseteq 1 .. HighByte - 1
          /\ \A t \in DOMAIN Net[i].token : Net[i].token[t] \in TokenObject
          /\ \A k \in DOMAIN Net[i].nft : Net[i].nft[k] # Null /\ Net[i].nft[k].uri \in Nat
          /\ \A k \in DOMAIN Net[i].number : Net[i].number[k] \in Nat

\* response.json() makes a double of a number; the nearest one below 2^54, where
\* every second integer is one, and of two the one with an even mantissa.
Double(n) == IF n <= Precision \/ n % 2 = 0 THEN n
             ELSE IF n % 4 = 1 THEN n - 1 ELSE n + 1

EvmAddress(a) == HighByte + a     \* against the long-zero address a

-----------------------------------------------------------------------------
(* The queries, in order; one that needs a timestamp follows a "blocks".   *)

Route == [balanceOf        |-> <<"blocks", "balanceOf">>,
          allowance        |-> <<"allowance">>,
          isAssociated     |-> <<"isAssociated">>,
          isApprovedForAll |-> <<"isApprovedForAll">>,
          ownerOf          |-> <<"nfts", "blocks", "accounts">>,
          getApproved      |-> <<"nfts", "blocks", "accounts">>,
          tokenURI         |-> <<"nfts">>,
          tokenURIChunk    |-> <<"blocks", "tokens">>,
          pauseStatus      |-> <<"blocks", "tokens">>,
          treasury         |-> <<"blocks", "tokens", "blocks", "accounts">>,
          getAccountId     |-> <<"blocks", "accounts">>,
          code             |-> <<"blocks", "tokens">>,
          getBlockByNumber |-> <<"blockByNumber">>,
          getBalance       |-> <<"relay">>,
          relay            |-> <<"relay">>]

Kinds == DOMAIN Route \cup {"deployHIP719Proxy", "htsField", "invalid"}
Relayed == {"getBlockByNumber", "getBalance", "relay"}    \* forwarded to the relay
Fields == {"tokenURIChunk", "pauseStatus", "treasury"}    \* need slotMapOf(token)
Numbers == {"balanceOf", "allowance", "isAssociated", "isApprovedForAll"}
LastOf(s) == s[Len(s)]

\* The account a request asks for after the bodies got so far.
OwnerForSpender(slot, got) ==           \* mutant: getApproved looks up the owner
    CASE slot[1] \in {"ownerOf", "getApproved"} -> got[1].owner
      [] slot[1] = "treasury"     -> got[2].treasury
      [] OTHER                    -> slot[3]
AccountOf(slot, got) ==
    CASE slot[1] = "ownerOf"      -> got[1].owner
      [] slot[1] = "getApproved"  -> got[1].spender
      [] slot[1] = "treasury"     -> got[2].treasury
      [] OTHER                    -> slot[3]

\* The URL of the next _get; a timestamp is part of it, and it is Null when
\* the block could not be had ("timestamp=undefined").
BalanceUnpinned(slot, block, got) ==    \* mutant: the balance without a timestamp
    LET step == Route[slot[1]][Len(got) + 1]
    IN  CASE step = "blocks"    -> <<"blocks", block>>
          [] step = "balanceOf" -> <<step, slot[2], slot[3], slot[4]>>
          [] step = "tokens"    -> <<"tokens", slot[2], LastOf(got)>>
          [] step = "accounts"  -> <<"accounts", AccountOf(slot, got), LastOf(got)>>
          [] OTHER              -> <<step, slot[2], slot[3], slot[4]>>
SpenderForgotten(slot, block, got) ==   \* mutant: allowances of any spender
    LET step == Route[slot[1]][Len(got) + 1]
    IN  CASE step = "blocks"    -> <<"blocks", block>>
          [] step = "balanceOf" -> <<step, slot[2], slot[3], slot[4], LastOf(got)>>
          [] step = "tokens"    -> <<"tokens", slot[2], LastOf(got)>>
          [] step = "accounts"  -> <<"accounts", AccountOf(slot, got), LastOf(got)>>
          [] OTHER              -> <<step, slot[2], slot[3], 0>>
Query(slot, block, got) ==
    LET step == Route[slot[1]][Len(got) + 1]
    IN  CASE step = "blocks"    -> <<"blocks", block>>
          [] step = "balanceOf" -> <<step, slot[2], slot[3], slot[4], LastOf(got)>>
          [] step = "tokens"    -> <<"tokens", slot[2], LastOf(got)>>
          [] step = "accounts"  -> <<"accounts", AccountOf(slot, got), LastOf(got)>>
          [] OTHER              -> <<step, slot[2], slot[3], slot[4]>>

Complete(slot, got) ==
    LET n == Len(got)
    IN  n > 0 /\ \/ n = Len(Route[slot[1]])
                 \/ got[n] = Null /\ Route[slot[1]][n] # "blocks"
                 \/ n = 1 /\ slot[1] = "getApproved" /\ got[1] # Null /\ got[1].spender = Null

\* The word for a request that got bodies and whose last one is missing.
DefaultMissing(slot, got) ==            \* mutant: no "?? zero"
    IF slot[1] = "getAccountId" THEN slot[3] ELSE Null
Default(slot, got) ==
    CASE slot[1] = "getAccountId"               -> slot[3]   \* the address' suffix
      [] slot[1] = "treasury" /\ Len(got) = 4    -> got[2].treasury
      [] OTHER                                   -> 0

Answer(slot, got) ==
    LET body == LastOf(got)
        kind == slot[1]
    IN  IF body = Null \/ kind = "tokenURIChunk" THEN Default(slot, got)
        ELSE CASE kind \in Numbers        -> Double(body)
               [] kind \in {"ownerOf", "getApproved", "treasury"} ->
                     IF Len(got) < 3 THEN 0 ELSE EvmAddress(body)
               [] kind = "tokenURI"       -> body.uri
               [] kind = "getAccountId"   -> HighByte + body
               [] kind = "pauseStatus"    -> IF body.paused = "PAUSED" THEN 1 ELSE 0
               [] kind \in {"code"} \cup Relayed -> 1

-----------------------------------------------------------------------------
(* External: what the REST endpoints return at time i.                     *)

Serves(query, i) ==
    CASE query[1] = "blocks"    -> IF query[2] \in Times /\ query[2] <= i THEN query[2] ELSE Null
      [] query[1] = "tokens"    -> At(Net[query[3]].token, query[2])
      [] query[1] = "accounts"  ->
            IF query[2] \in Net[query[3]].accounts THEN query[2] ELSE Null
      [] query[1] = "nfts"      -> At(Net[i].nft, <<query[2], query[3]>>)
      [] query[1] = "balanceOf" /\ Len(query) = 5 ->
            At(Net[query[5]].number, <<"balanceOf", query[2], query[3], query[4]>>)
      [] query[1] \in Numbers /\ Len(query) = 4 -> At(Net[i].number, query)
      [] query[1] = "relay"     -> 0
      [] query[1] = "blockByNumber" ->    \* result is null if there is none
            IF query[2] \in Times /\ query[2] <= i THEN 0 ELSE Null

\* "timestamp=undefined" is a bad request.
Malformed(query) ==
    \/ query[1] \in {"tokens", "accounts"} /\ query[3] = Null
    \/ query[1] = "balanceOf" /\ Len(query) = 5 /\ query[5] = Null

-----------------------------------------------------------------------------
(* The reference: the word that a slot should have in snapshot n; a number  *)
(* that is no double is the nearest one.                                   *)

View(slot, n) ==
    LET nft == At(n.nft, <<slot[2], slot[3]>>)
        tok == At(n.token, slot[2])
        Evm(a, default) == IF a \in n.accounts THEN EvmAddress(a) ELSE default
    IN  CASE slot[1] \in Numbers -> IF At(n.number, slot) = Null THEN 0 ELSE Double(n.number[slot])
          [] slot[1] = "ownerOf"     -> IF nft = Null THEN 0 ELSE Evm(nft.owner, 0)
          [] slot[1] = "getApproved" ->
                IF nft = Null THEN 0 ELSE Evm(nft.spender, 0)
          [] slot[1] \in {"tokenURI", "tokenURIChunk"} -> IF nft = Null THEN 0 ELSE nft.uri
          [] slot[1] = "pauseStatus" ->
                IF tok = Null THEN 0 ELSE IF tok.paused = "PAUSED" THEN 1 ELSE 0
          [] slot[1] = "treasury"    ->
                IF tok = Null THEN 0 ELSE Evm(tok.treasury, tok.treasury)
          [] slot[1] = "getAccountId" -> Evm(slot[3], slot[3])
          [] slot[1] = "code"        -> IF tok = Null THEN 0 ELSE 1
          [] OTHER                   -> 0
=============================================================================
