# hedera-forking: specifications, model checking and proofs

`hedera-forking` lets an Ethereum development network that forks a Hedera network use
Hedera tokens, which are not contracts there. It does so in two modes:

* **Foundry library.** `Hsc.htsSetup` puts `HtsSystemContractJson` at `0x167`. Every token
  address is a HIP-719 proxy that delegates to it, and the storage of a token is filled by
  cheatcodes: a slot is fetched from the Mirror Node (through `curl`) at its first use and
  marked in a scratch account.
* **Hardhat plugin.** A worker thread, the JSON-RPC Forwarder, sits between the
  development network (EDR) and the JSON-RPC Relay. It answers `eth_getCode` and
  `eth_getStorageAt` for token addresses from the Mirror Node, so that the EVM runs
  `HtsSystemContract` on slots that look as if the token had always been there.

This directory holds TLA+ specifications of both, TLC configurations that check small
instances, and TLAPS proofs of what holds for all instances.

## 1. Inventory

| Component | State | Operations | Modelled in |
|---|---|---|---|
| `contracts/HtsSystemContract.sol`, fungible | per token: info, `balanceOf`, `allowance`, `isAssociated` slots; at `0x167`: counter of new tokens | transfers, allowances, mint, burn, association, through `0x167` and through the proxy; views | `HtsFungible` |
| the same, creation | counter, info of the new token | `create*Token*`, `__setTokenInfo`, initial supply | `HtsFungible`, `TokenInfo` (`__setTokenInfo`) |
| the same, non-fungible | per token: `ownerOf`, `getApproved`, `isApprovedForAll`, `tokenURI` slots | transfers, approvals, operators; views | `HtsNft` (not `tokenURI`) |
| `contracts/HtsSystemContractJson.sol` | the slots above plus the scratch marks, `_initSlot`, `_isLocalTokenSlot` | `_initTokenData`, a fetch in front of each slot, account ids by hash | `HtsFungible`, `HtsNft` |
| `contracts/HtsSystemContractJson.sol`, `_initTokenData` | the state variables of a token | writes them from the Mirror Node's document before the first getter | `TokenInfo` |
| `contracts/Store.sol` | none | words, packed fields, strings in storage | `TokenInfo` |
| `contracts/MirrorNode.sol` | none | what the Mirror Node has for a slot | constants of both |
| `src/index.js` `getHtsStorageAt` | `localTokens`, persistent storage | one storage request | `HtsStorage`, `Forwarder` |
| `src/slotmap.js` | persistent slot maps; mutates token objects | `slotMapOf`, its walk, `store`, `load`, `packValues` | `SlotMap`, `TokenInfo`, `Forwarder` |
| `src/forwarder/mirror-node-client.js` | `_responses` | endpoints, `_get` | `HtsStorage` (URLs), `Forwarder` (`_get`) |
| `src/forwarder/json-rpc-forwarder.js`, `index.js` | the server, one thread | request, reply, forward, listen | `Forwarder` |
| `src/plugin/index.js` | resolved configuration, `hre.jsonRPCForwarder` | `extendConfig`, `extendEnvironment` | `HardhatFork` |
| `MirrorNodeFFI.sol`, `Surl.sol`, `Base64.sol`, `Str.sol`, `Hsc.sol`, `utils.js`, `hardhat-addresses.js` | none | I/O, encodings, setup, test accounts | no |

How they interact. In Foundry, a call of a token enters the proxy, which delegates to
`0x167`; a call of `0x167` calls the token with the real sender as an argument; both
reach the same internal functions, and each slot computation may call `MirrorNode`. In
Hardhat, the contract is the same without fetches of its own; EDR asks the worker for a
slot at its first use. The worker shares three things between concurrent requests: the
response cache, the token URIs, the list of local tokens. The plugin starts one worker for
each environment that forks a Hedera network, and points that environment's `forking.url`
at the worker's port; the operating system gives a port to one worker at a time.

What is hard, and where each part is right or wrong:

* *Fungible.* Which slots were fetched depends on the order of first uses, on both doors,
  and on views, which fetch too. Right: nothing written is lost, books balance, spending
  is authorised, and all of it as if there were no fetch at all (`FungibleLedger`), but for a
  token that is created at the address of another one.
* *Non-fungible.* The same, and approvals known only to the Mirror Node that must end with
  ownership (`NftRegistry`).
* *Forwarder.* Requests interleave at awaits; fetches fail, return 404 for what is not
  there yet, race with the network; values are cached without end. Right: an answer is of
  the block asked about (or of now, where no block is sent), not a mixture; one request
  never harms another; each ends.
* *Information of a token.* Three pieces of code that never meet must agree on every slot
  and byte: the layout of the compiler, the walk of `slotMapOf`, and the slots that
  `_initTokenData` counts by hand; and the token object changes under the walk. Right: the
  getters show what the Mirror Node has, and no walk makes `SlotMap.store` throw.
* *Environments.* Workers start, fail, crash and stop while scripts await a promise and EDR
  asks whoever listens. Right: who awaited is answered by its own worker, and nobody waits
  for a worker that cannot come.

PROJECT.json lists each hazard at its line with the properties that watch it.

## 2. Modules

    FungibleLedger          abstract: a token ledger
      ^ refined by
    HtsFungible             the contract and its lazy storage
    HtsLedger               the refinement mapping, for each token; sums of balances
      MCHtsFungible           instances, documented statements
      HtsFungible_proofs      TLAPS: types, fetched before written; who can lose units,
                              who can change an allowance
        FungibleLedger_proofs   TLAPS: the refinement; balances add up to the supply

    NftRegistry             abstract: owners, approvals, operators
      ^ refined by
    HtsNft                  the contract and its lazy storage
      MCHtsNft                instances, documented statements
      HtsNft_proofs           TLAPS: types, fetched before written, approvals end, the refinement

    HtsStorage              URLs, bodies and words of one storage request; the Mirror Node
      ^ extended by
    Forwarder               the worker: concurrent requests, cache, URIs, failures
      MCForwarder             instances
      Forwarder_proofs        TLAPS: token URIs, what ends the worker; types, what it answers

    SlotMap                 the layout, the walk and the words of slotMapOf
      ^ extended by
    TokenInfo               getters over both storage adapters, creation of a token
      MCTokenInfo             instances
      SlotMap_proofs          TLAPS: no two stores of the walk meet
        TokenInfo_proofs        TLAPS: where every word comes from; Hardhat shows each field
          FoundryInfo_proofs      TLAPS: no two writes overlap; what is shown, with both adapters
                                  and for a created token

    HardhatFork             environments, their workers, the port, EDR's requests
      MCHardhatFork           an instance
      HardhatFork_proofs      TLAPS

A definition marked `mutant` is a plausible bug that stands beside the definition it
distorts. Nothing refers to it; PROJECT.json says which property each one breaks.

### HtsFungible

`token[t]` is the storage of the contract at `t`: the dynamic slots (`storage`), the marks
at `_scratchAddr` (`scratch`), the two flags, and of `_tokenInfo` the supply, the treasury
and the state of the supply key. An action is one external call that does not revert. A
revert undoes the cheatcodes' stores as well, so a reverted call is no step; its
`require`s are the guard. `Fetch` is `_shouldFetch` with `_setValue`, and every internal
function (`Debit`, `Credit`, `AfterSpend`, ...) goes through it in the order of the code.
`Can...` gathers the conditions of a function, the operator beside it gives the storage
that it leaves. `Opened` is `_initTokenData`.

`Seen` is what a view would answer: the stored value of a slot in use, otherwise the Mirror
Node's. Properties are stated on it, so they do not depend on which slots happen to be
fetched. `HtsLedger` makes the refinement mapping to `FungibleLedger` from it, account id by
account id.

The counter of new tokens (`NewTokenId`) starts at 1031 in the code, below ordinary tokens of a
network; `FirstTokenId` is that number, and the tokens of the network may be on either side of it.
`SetTokenInfo` at the address of one of them (`Replaced`) overwrites its information and sets the
flag that ends all fetching, so what was fetched stays and the rest reads as zero. No ledger
promises that. It is a step of its own in `HtsLedger`, `Overwrite`: the token is live before and
after, the new supply is on the new treasury, and every other balance, allowance and association
is the old one or gone. `ForkedTokenIsLedger` and `CreatedTokenIsLedger` say that each token is a
`FungibleLedger` up to this step. On Hardhat EDR may go on asking for slots of such a token; this
module has the Foundry library's storage, and `TokenInfo` creates tokens with both adapters.
`Create` of `FungibleLedger` leaves open whether the treasury is associated: the documentation asks
for it and the code does not do it, as `created_token` shows.

Account ids. In Foundry the id is a 32-bit hash of the address, in Hardhat it is the
account number: `AccountId` is a constant, instantiated both ways. Widths are constants,
scaled down: `Int64Max = 3` stands for 2^63-1, `WordMax = 15` for 2^256-1. The
truncation of `transferFrom` (`ToInt64`) and both overflow limits are reached.

Abstracted: lists have at most two entries (a longer list is the same function again);
metadata, names, keys other than the supply key, custom fees, events. A call of a token
whose fetch fails is a revert. The Mirror Node of a fork does not change while a test runs.

### HtsNft

One token of the network. `uint32` truncates serials at the slot, as the code does, with a
scaled `SerialLimit`. `Approvals` reproduces the short-circuit of
`sender == __getApproved(id) || __isApprovedForAll(owner, sender)`: the second slot is
fetched only when the first does not decide. The balance slots are those of the Mirror Node,
which no NFT call changes. The network keeps owners, spenders and operators by account number
(`getAccountAddress`, `isApprovedForAll` of `MirrorNode.sol`), slots by address or by id; every
account of the model can be resolved. `mintToken` makes no serials, so tokens created locally have
none.

`NftRegistry` is the registry of `IERC721.sol`: the owner or an operator approves, an operator
stays. The code leaves it in two steps, which `HtsNft` names: `HandsOn`, the approved account
approves the next one, and `UsesUpOperator`, a transfer, of one NFT or of a list, that is the
registry's but for the caller's operator approvals, which it removes. `ForkedNftIsRegistry`
says that every other step is the registry's, and each of the two has a violation run of its own.

### HtsStorage and Forwarder

`HtsStorage` describes one request as a route of queries (`Route`): the URL of each
(`Query`, with the block's timestamp in it where the client puts one), when the request
needs no further query (`Complete`), and the word that it answers with (`Answer`, `Default`
where a body is missing). `Net` is the history of the network; `Serves` is what REST
endpoints answer at a time, `View` is the reference: the word a slot should have in a
snapshot.

In `Forwarder` an action runs from one await to the next. `Request` is the `end` handler up
to its first await, `Get` is `_get` up to `fetch` (or a hit), `Fetched` and `FetchFailed` are
its continuations with all that follows synchronously in the caller. The Mirror Node may answer
at any moment of the fetch (`since`, set by `Get`, up to now), so of two fetches of one URL the
older body may come last and stay in the cache. Awaits between which
only microtasks run are steps of their own: more interleavings than Node.js has, so what
holds here holds there. An exception after an await is an unhandled rejection, which ends
the worker thread (`Throw`).

Token URIs have more than 31 bytes here, so that there are chunk slots; a chunk is answered
from the persistent storage if the first slot of that token, serial and block was
answered before. `uris` is a history of URIs handed out and `known` says whether a client
could have known the chunk's slot when it asked.

What needs no await is answered in `Request` (`KnownHere`: local accounts, `0x167`,
`console.log`, tokens created locally, fields of `0x167`). A request that an assertion or
`JSON.parse` refuses is `invalid` and throws. Three kinds of request are forwarded
(`Relayed`): `getBlockByNumber`, whose transactions are read from a result that is null where
the relay has no such block, `getBalance` of an account that is not local, and `relay` for
every other method and for addresses that are not long-zero. `response.json()` makes numbers
doubles (`Double`; `Precision = 8` stands for 2^53).

Abstracted: a non-zero shard or realm, the text of bytecode and JSON, and the walk over the
storage layout: of a token's fields `pauseStatus` (normalised) and `treasury` (looked up
later) stand for the rest.

### SlotMap and TokenInfo

`SlotMap` is `src/slotmap.js` as operators. A slot is a path: `<<n>>` is state slot n and
`s \o <<i>>` is keccak256(s) + i, so distinct paths are distinct slots, up to a collision of
the hash. A word is a set of offsets with values. `Storage` is the compiler's layout of
`HtsSystemContract`, whose file is generated, and `Items` that of its arrays' items; both are read
from the declarations, with the fields of a struct in the place of the struct, since `visit`
goes into a struct with the object that it has. So the walk needs no recursion: `Visit` gives
the stores of a state variable (`VisitField`, or `VisitArray` with a `VisitItem` for each item),
each with its place in the walk's order. `Refused` says that `store` throws on one of them,
`Normalise` is what `slotMapOf` does to the token object before the walk, in place, and `Packed`
is `packValues` after the lookups of the word's lazy values.

`TokenInfo` puts a reader on top. `adapter` says which adapter the fork uses, `remote` is the Mirror
Node's document, `token` the object that the worker's cache holds, `words` the storage that the fork
has. `CallHardhat` is a getter: every slot that it reads first (slot 0, for its check of the token's
type, before all others: `SlotsRead`) is a request of its own, so the walk for the second slot
starts from the object that the first one normalised (`Once`, `Again`). `CallFoundry` is a getter
behind `_initTokenData`, whose writes (`InitWrites`) have their place in the code's order; a later
one replaces what starts in the bytes of its mask and keeps the rest of the word (`Replaces`,
`Written`), as in `Store.sol`. `Create` is `_createToken` with `__setTokenInfo`, whose `push`es go
behind what the fork has. `Info` reads as compiled code does. An account whose lookup fails is its
number, and `missed` remembers which.

Abstracted: a string is its identity and length, with 32-byte chunks; numbers
are not cut to their width, because the ledger has no larger ones.

### HardhatFork

`Load` is `extendConfig` followed by `extendEnvironment`: both run synchronously when an
environment is created. `Chains`, `Emulates` and `WorkerPort` are the parts of the first,
`StartsWorker` is the condition of the second and `Loaded` the configuration that both
leave. `Listens` and `Fails` are the two ends of `server.listen` in the worker, `Resolve` the
message handler that settles the promise, `Exit` the end of a process with its workers, which
are `unref`ed. Outside: `Crash` (an unhandled rejection in the worker, see `Forwarder`),
`Terminate` and `Stops` (a script that terminates the worker, as `test/plugin/plugin.test.js`
does without awaiting), and `Request`, a request of EDR to `forking.url`, whose `answer` records
who answered and whether the script had awaited its forwarder.

## 3. Runs

Every passing run is exhaustive within its bounds.

| Run | Bounds | What it shows |
|---|---|---|
| `forked_token` | 3 addresses of 2 accounts, 1 remote token, also created over, amounts 1, 15 and -1, 2 slots in use | types, fetched before written, books, authorised spending, allowances, when two names share slots; 15 is -1 after the truncation, and the unlimited allowance |
| `ledger_refinement` | a remote token and the two tokens that are created, one beside it and the next at its address, 2 slots in use | the books of both from creation on; both implement `FungibleLedger`, up to the one step that overwrites the remote one, and after it |
| `forked_nft` | 3 accounts, 2 serials, one of them -3 over a two-bit slot; approval and operator only on the Mirror Node; 3 slots | types, fetched before written, approvals end with ownership, `NftRegistry` up to `HandsOn` and `UsesUpOperator` |
| `worker_answers` | 2 connections, 7 kinds of request, code of a local account and of a token created locally, an allowance that is no double, 2 times, blocks on both sides, failing fetches, 2 cached responses | answers are of the block, or of one time so far where no block is sent, or the fallback of a failure, and of their own slot; a client that keeps what it read cannot hurt the worker |
| `requests_end` | 2 connections, every failure enabled, repeated URIs, refused requests, a block that the relay may not have | URIs are not mixed while metadata changes; approvals are of one time; every request is answered, or the worker died |
| `token_info` | 12 tokens: strings of 0, 31, 32, 64 and 65 bytes, each kind of key, lists of 0 to 3 fees of each kind; and no token; both adapters; any accounts unreachable; one token created at the same address at any moment | every field, key and fee is where the getters look, whatever was read first; no store throws |
| `hardhat_fork` | 4 environments of 2 processes, ports 1234 and 1235, crashes, terminations, exits | who awaited is answered by its own worker; others only by one on the same port; hardforks stay; the promise settles unless the port is shared |

The violation runs, one property each, are disagreements between statements in the
repository and the code. The properties of `created_token` and `storage_documented` ask only that
of three statements one is kept, which is less than the documentation says; the counterexample is one
behaviour that breaks all three.

| Run | Statement | What the code does |
|---|---|---|
| `transfer_from_amount` | `transferFrom` moves `amount` (`IHederaTokenService.sol:524`) | truncates it to 64 bits; may move backwards |
| `created_token` | `CREATE_TOKEN.md` of a created token: its treasury is associated (`:101`), it has no other balances nor associations (`:102`), `getTokenInfo` returns what was created (`:104`); the counter follows the network (`:111`) | the counter starts at 1031. At the address of a token of the network one creation keeps the balances that were fetched and the supply key, and associates nobody |
| `approved_hands_on` | the owner or an operator approves (`HtsSystemContract.sol:1028`, `IERC721.sol:103`) | so can the approved account |
| `used_operator` | an operator can transfer any token of the owner (`IERC721.sol:112`) | the first transfer removes it |
| `storage_documented` | of `getHtsStorageAt`: it does not throw (`index.d.ts:202`), `blockNumber` is the point in time (`:216`; the notes of `:78` and `:98` except allowances only), and whether a token is paused (`IHederaTokenService.sol:186`) | the second read of a URI at a block throws and the worker ends; no query of an NFT names a block; a token is not paused from the second read on |

Read from the code and not run:

* *Accounts.* In Foundry two addresses of one Mirror Node account have different ids, so they
  have different balances after the first transfer.
* *Numbers.* A balance, an allowance or a supply above 2^53 is rounded to a double by the
  worker (`mirror-node-client.js:169`); Foundry shows the exact number.
* *NFTs.* `balanceOf` of an NFT token is the Mirror Node's: transfers move no balances, while
  `IERC721.sol:69` counts the owner's tokens.
* *Keys and fees.* The token of a royalty's fallback fee is zero with both adapters:
  `slotmap.js:273` names the field `tokenId` where the layout asks for `token_id`, and
  `HtsSystemContractJson.sol:444` looks for it in the fee and not in its `fallback_fee`, while
  `IHederaTokenService.sol:289` says that it is the token of the fee; `FeesShown` leaves it out. A fixed
  fee in its own token sets both `tokenId` and `useCurrentTokenForPayment`, as `test/HTS.t.sol:142`
  expects, while `IHederaTokenService.sol:235` says that exactly one should be set; `FeesShown` has
  both adapters do so. A `ProtobufEncoded` key is shown as an ECDSA key on Hardhat and not at
  all in Foundry; an absent key has its type on Hardhat and type 0 in Foundry.
* *Plugin.* `README.md:307` lists chains 295 to 297, the code has 298 as well. With a
  `workerPort` of 0 `forking.url` is not the port listened on. `hardhat-addresses.js:41` counts
  `i` from `initialIndex` up to `count`, so a positive initial index gives fewer addresses than
  `count`.

**Why these bounds.** Slots interact only in pairs within a call (sender and recipient,
owner and spender), so two or three accounts and two slots in use at once (three for NFTs) produce
every order of first use of the slots of any one call, and the next call on what it left.
`MaxTouched`, `MaxFetched` and `MaxCached` are state constraints: TLC still checks the step
into a state beyond the bound. With two cached responses a request meets each of its queries
cached and not, by itself and by the other connection; in `requests_end` the bound is never
reached. Two connections give every race on a shared URL or slot, and two times with a change
of every field give every mixture of old and new. `worker_answers` and `storage_documented` use symmetry of the
connections, which no action tells apart; `requests_end` checks liveness and does not.
In `token_info` the lengths stand on both sides of the layout's two limits, 31 bytes inline
and 32 in a slot, and two or three items of an array show its stride. In `hardhat_fork` two
environments share a port across processes, two share a process, and one forks a chain that
needs no worker.

**Deadlock** is checked but in four runs. In `requests_end` and `storage_documented` a dead worker does nothing more;
in `token_info` every getter is called once; in `hardhat_fork` processes exit.

**Repeated URIs.** `RepeatedUris = FALSE` states what EDR does: its fork keeps the slots it
has read. `worker_answers` shows that then no `store` throws. `requests_end` does not
assume it.

**Fairness.** In `requests_end`: weak fairness of the worker's start, of `Get` for each
connection (the event loop runs each ready continuation) and of "`Fetched` or `FetchFailed`"
(`fetch` settles: it has no retry, and a connection error rejects). There is none on
clients, on the network's progress, or on success. In `hardhat_fork`: weak fairness of "`Listens` or
`Fails`" (a thread that was started runs, and `listen` has one outcome), of `Resolve` (the main
thread's event loop takes the worker's message) and of `Stops` (a terminated thread ends);
none on loading, requests, crashes or exits.

## 4. Proofs

`HtsFungible_proofs` proves, for every set of addresses and tokens, all widths
and everything the Mirror Node may hold:

* `TypeCorrect`: `Spec => []TypeOK`. Supplies stay in `int64`, balances and allowances in
  `uint256`. This is what the checked operations and `require`s are for.
* `WritesAreNeverLost`: `Spec => []WrittenSlotsAreFetched`. Without it a later `Fetch` would
  put the Mirror Node's value over a write.

The inductive invariant is `IInv == TypeOK /\ WrittenSlotsAreFetched`; neither half is
inductive without the other facts about the same storage, so both are carried as `Good(s)`,
a predicate on the storage of one token. One lemma per internal function says that it
preserves `Good` (`FetchGood`, `DebitGood`, ..., `TransferTokenGood`, `MintGood`), the
external calls are compositions of those, `NextIInv` has one step per kind of call, and the
theorems add the temporal step. Assumptions, all named in `HtsFungible`: `Zero` is not an
address of an account; account numbers and ids are natural numbers; a balance of the
Mirror Node fits `uint256`, a supply fits `int64`; `2 * Int64Max < WordMax`; callers pass
arguments of the declared width. None says that ids are unique.

`HtsFungible_proofs` goes on, where ids identify accounts (`IdsIdentifyAccounts`: account numbers in
Hardhat; in Foundry, 32-bit hashes of addresses of different accounts that do not collide):

* `SpendingIsAuthorised`: `Spec => NoUnauthorisedSpending`. Nobody loses units but by its own
  call, by a call that uses up an allowance or has an unlimited one, or as the treasury of a token that is burnt; with
  truncated and negative amounts, lists, both doors and fetches in the middle of each. A creation
  at the address of a token of the network is the only other way, and only for a balance that no
  one has fetched.
* `AllowancesAreOnlySpent`: `Spec => AllowancesOnlySpent`. A creation there may drop an allowance
  that no one has fetched, and sets none.

Neither assumes anything about where the counter of new tokens starts.
The argument has three layers. `View(t, s)` is what the view calls show of the storage
`s`, as a function of the slot: a fetch leaves it alone (`FetchView`), and one lemma for each
internal function says at which slots it changes and how. `Changes(t)` lists what a whole step may
do to the view of one token, and `NextChanges` shows that each action does one of these: from here
on no order of fetches is left. `Authorised` then follows from each entry of the list by
arithmetic. The first invariant is not enough for creation: `CreatedOnce` adds
that a token that is not there yet has a storage that nobody touched, that it comes into being
once, and that a treasury is an address.

`FungibleLedger_proofs` proves, under the same hypothesis on ids:

* `LedgerImplemented`: every token `t` implements `FungibleLedger` up to `Overwrite(t)`. Initial states map to
  initial states (`InitLedger`), and each entry of `Changes(t)` maps to a step of the ledger or
  to none (`LedgerNext`), where `Books` makes a ledger of a view; a creation maps to `Create` at a
  fresh address and to `Overwritten` at that of a token of the network.
* `ForkedTokenImplements` and `CreatedTokenImplements`: the two instances that
  `ledger_refinement` checks.

`FungibleLedger_proofs` also proves `Conserved`, `Spec => []Conservation`: the balances that
`balanceOf` shows add up to `totalSupply`, for every finite set of addresses, where ids identify
accounts and the balances of the network added up when it was forked (`MirrorConserves`; a Mirror
Node that answers for less than that, or a fork with accounts outside `Addresses`, shows what it is
given). A token that was created over one of the network (`Replaced`) has balances that add up to
its supply or more, since some of the old ones may be left. By `LedgerImplemented` each step is a
step of `FungibleLedger` on each token, or `Overwrite`; `StepBalanced` shows that the first keep the
difference of balances and supply (`Surplus`), and `OverwrittenSurplus` that it is not negative
after the second. The sums are `SumFunction` of the community modules, a fold over subsets. That it
exists for a finite set, and that it does not matter in which order it adds (`SumsExist`,
`SumsAgree`, `SumTake`), is an induction over finite sets, stated without one: the subsets for which
the claim fails form a set, and if it is not empty it has a smallest element (`Smallest`), which
leads to a contradiction. `TheoremsApply` in `MCHtsFungible` makes TLC evaluate the hypotheses in
every run.

`HtsNft_proofs` proves, for every set of addresses and serials, every slot width, every
account numbering and everything the Mirror Node may hold, also two addresses of one id:

* `TypeCorrect` and `WritesAreNeverLost`, as above, for owners, approvals and operators.
* `ApprovalsEnd`: `Spec => ApprovalsEndWithOwnership`. A step that changes the owner that a
  view answers leaves nobody approved, also where only the Mirror Node knew of the approval.

The invariant is the same (`Good`, of one storage). The action property needs it because a
fetch changes the storage and must not change what a view answers: `SameView(s, k)` says so
of a step, `FetchOwnerGood`, `FetchApprovedGood`, `FetchOperatorGood` and `SetOperatorGood`
prove it of each one, and `WriteGood` says what a write to fetched slots shows. That a new
fetch cannot hide behind the write is what `Good` gives. `Follows` puts both together; a
list of two transfers keeps it (`TransfersFollow`) because a second transfer either touches
the same NFT and clears it again, or another. Assumption: `NftAssumption`.

It also proves `RegistryImplemented`, `Spec => ForkedNftIsRegistry`, where ids identify accounts:
the storage filled slot by slot behaves as a registry that had every owner, approval and operator
from the start, up to `HandsOn` and `UsesUpOperator`. With a collision, the account whose slot is
used first decides what both show, which no registry does. Owners and approvals come from `SameView`
as above; for operators the registry's set is compared pair by pair of ids.

`Forwarder_proofs` proves, for every network, set of requests, set of blocks and number of connections:

* `UrisInOnePiece`: `Spec => []UriInOnePiece`. Every failure may happen and URIs may be read
  again. `UriInv` says why: `uris` holds at most one URI for a slot and block (`Shaped`), the
  persistent storage has it once it was answered (`ReadIsStored`), and a client that knew a
  chunk's slot knew it from there (`ChunksStored`). `StoreUriInv` is the heart: a second
  store throws before it changes anything.
* `ReadersNeverEndIt`: `~RepeatedUris /\ CarefulClients /\ ~RelayMayFail /\ ~PortMayBeTaken /\
  Spec => []WorkerSurvives`. `OnceInv` says that at most one connection is on its way to a URI that
  is not stored yet, so no `store` meets an offset that is there. `CarefulClients` says that no
  request is refused and that none asks for a block that is not there yet. The hypotheses exclude
  the other ends of a worker; each of those happens in `requests_end`.

It also proves, in the same generality, with every failure enabled:

* `TypesCorrect`: `Spec => []TypeOK`.
* `AnswersArePinned`: `Spec => []PinnedAnswers`. Where the queries name a block, the answer is what
  the network had at that block, or the fallback after a failure.
* `AnswersAreCurrent`: `Spec => []CurrentAnswers`. Where they name none (NFTs, allowances,
  associations, operators), the answer is what the network had at one moment up to now.

`AnswersInv` says that each cached body is what the Mirror Node said to its URL, up to
the normalisation of a token object by `slotMapOf` (`CacheRight`, `Obtained`, `Known`), that what a
request in flight has got is what its route leads to (`Asks`), and that each answer is right
(`AnswersRight`). None is invariant alone: a request reads what another one cached, and the word
is made of all the bodies. There is one lemma for each kind of slot and number of bodies
(`BalanceStep`, `TreasuryStep`, `NftAccountStep`, ...), which `AnyBody` puts together;
`ProceedAnswers` adds the cache and the token URIs, and `AnswersInvNext` has one step per action.
That time goes on is `Later`: what was true of one moment so far stays so.
Assumptions, which TLC evaluates: `NetAssumption` (numbers and token objects of the Mirror Node
have their shape, and account numbers are below the bit that tells an EVM address) and
`RequestAssumption` (a slot has a kind that the worker knows, and the addresses of HTS and of
`console.log` differ).

`HardhatFork_proofs` proves, for every set of environments, processes and configurations:

* `AwaitedIsOwn`, `MixedBySharedPort` and `HardforkKept`: the three invariants of `hardhat_fork`.
  The inductive invariant says that a loaded configuration is the one the hooks make
  (`LoadedOnce`), that a worker whose promise is settled has listened (`HasListened`),
  and that a port has one holder (`OneHolder`); `AnswererHolds` and `AsksPort` then leave one
  possible answerer. Assumptions: `ConfigAssumption` (a forking configuration has a URL, which
  Hardhat validates) and `NullAssumption` (`Null` is no configuration).

`SlotMap_proofs`, `TokenInfo_proofs` and `FoundryInfo_proofs` prove, for every set of tokens that the
Mirror Node may have, strings of every length, any number of fees, all accounts, and getters in
every order:

* `NoSlotTakenTwiceAlways`: `Spec => []NoSlotTakenTwice`. No request makes `SlotMap.store` throw.
* `InfoShownAlways`, `KeysShownAlways`, `FeesShownAlways`: `Spec => []InfoShown`, and so on. With either
  adapter the getters show each field, key and fee as the Mirror Node has it.
* `CreatedInfoShownAlways`: `Spec => []CreatedInfoShown`. A token that was created on the fork
  shows its own plain fields, and its own keys and fees as the last ones; where there is no remote
  token at its address they are the only ones, and `getTokenKey` answers with the first of a type.
  Over a remote token that was read before, items of that one stand in front, as those of `created_token` do.

A store of the walk is one of five forms (`Forms`), and its slot tells which field, item and chunk
it is of, because an item's fields stay within its stride (`ItemsApart`, `Strides`); so two stores
with a slot in common are parts of it at different offsets (`NoClash`). The same holds of the writes
of `_initTokenData`, whose slots and offsets are counted by hand: one lemma for each kind of item
(`FixedNeat`, `KeyNeat`, ...), one for each state slot, together `InitNeat`. What is read at a
store's slot and offset is then its value.

The inductive invariant `ReadInv` (`ReadInvAlways`) says where every word comes from, since the
properties say nothing until `getTokenInfo` returns. On Hardhat the words of one token come from
requests at different times, each of which normalised the object that the earlier ones left: the
object still agrees with the Mirror Node's, up to `pause_status` (`Agrees`, `NormalisedFields`), so
a word is the packing of the stores of one walk over the shape of the token, with one of the values
of `pause_status` and some accounts missing (`HardhatWords`). In Foundry all words are what
`_initTokenData` wrote (`FoundryWords`). From there the proof goes field by field of the
layout: `FieldsShown`, `KeyItemsShown`, `FixedItemsShown` and so on are shown for each adapter, and
the properties follow from them (`InfoFromFields`, `KeysFromItems`, `FeesFromItems`).
A created token has an invariant of its own, `CreatedInv` (`CreatedInvAlways`): the words at the slots
of its stores are the packing of these stores, and its items stand after some number of others,
none where there is no remote token (`Made`). Up to their paths its stores are some of those of
a token with longer lists (`Padded`, `NewAsPadded`), so `NoClash` holds of them as well, and the
lemmas on reading apply. What `push` finds as the length of an array (`Lengths`) is what Hardhat
answered or what `_initTokenData` wrote, and zero when nothing was read and nothing is remote
(`HardhatLengths`, `FoundryLengths`); `CreateMakes` is the step of `Create`, and the getters that
come after it leave the words that are there (`CallHardhatKeeps`, `CallFoundryKeeps`).

Assumptions: `TokensAssumption` (a document has the fields that the API names, its numbers are numbers,
an empty string is equal to another one, `fallback_fee` may be null), `CreatedAssumption` (a created
token has the fields of `TokenInfo`, which its type gives it), `NullAssumption` and `NanosAssumption`.

Only model-checked: the liveness properties `EveryRequestAnswered` and `EmulationStarts`, which need
ENABLED.

## 5. Not modelled

Text and bytes: `Base64`, `Str`, `Surl`, `utils.js`, the HIP-719 bytecode, the paths into a JSON
document. Processes outside: `curl`, EDR (but for what it asks), the Relay. Setup: `Hsc.sol`,
the test accounts of `hardhat-addresses.js`. `scripts/` generates documentation. In the
components that are partly modelled:

* fungible calls on an NFT token and the contract's `tokenURI`;
* of the plugin's storage, accounts of shards and realms other than 0;
* `evm_revert`, which rolls the chain back but not the worker's `localTokens`;
* getters that show a part of `getTokenInfo`.

The composition of `HtsFungible` with `Forwarder` is left out for its size: the contract reads
a slot through the worker at a pinned block, and what it reads is what `worker_answers` says of
`balanceOf` at that block, which is the constant `Mirror` of `HtsFungible`.

## 6. Plan

1. The core: fungible tokens, non-fungible tokens, forwarder; first theorems. *(done)*
2. Token information through both adapters, slot maps, the plugin's environments and workers;
   theorems about the worker and the environments. *(done)*
3. Prove more: spending and allowances, the sums of balances, the two refinements,
   the answers of the worker. *(done)*
4. Token information: the walk without recursion, its stores and those of the Foundry library
   apart from each other, and what the getters show, for every token. *(done)*
5. What a created token shows, for every token and both adapters, from the same lemmas on slots.
   *(done)*

Every safety and action property that a passing run checks is now a theorem as well.
