------------------------------- MODULE Forwarder -------------------------------
(***************************************************************************)
(* The JSON-RPC Forwarder of the Hardhat plugin: a worker thread with an   *)
(* HTTP server that answers eth_getStorageAt and eth_getCode from the      *)
(* Mirror Node (HtsStorage), and keeps three things between requests: the  *)
(* responses of the MirrorNodeClient, the persistent storage of token      *)
(* URIs, and the list of tokens created locally.                           *)
(*                                                                         *)
(* The worker is one thread, and requests interleave at their awaits: an   *)
(* action is what runs from one await to the next.  An exception in the    *)
(* handler of 'end' is an unhandled rejection, which ends the worker.      *)
(***************************************************************************)
EXTENDS HtsStorage

CONSTANTS
    Connections,   \* HTTP connections of clients
    Requests,      \* the slots that clients ask for
    Blocks,        \* the block numbers they ask about
    MirrorMayFail, \* whether a fetch from the Mirror Node may fail
    RelayMayFail,  \* whether the fetch of a forwarded call may fail
    PortMayBeTaken,
    LocalAddresses, HTSAddress, ConsoleAddress,  \* addresses without a token
    RepeatedUris   \* whether clients ask again for the first slot of a token URI

ASSUME RequestAssumption ==
    /\ 0 \in Times /\ Blocks \subseteq Times
    /\ \A slot \in Requests : /\ slot[1] \in Kinds /\ slot[3] \in Nat
                              /\ slot = <<slot[1], slot[2], slot[3], slot[4]>>
    /\ HTSAddress # ConsoleAddress

VARIABLES
    worker,        \* "starting", "listening" or "dead"
    now,           \* the time on the Hedera network
    conn,          \* conn[c]: the request on connection c, or its answer
    responses,     \* MirrorNodeClient._responses: URL -> body, Null for a 404
    persistent,    \* PersistentStorageMap: <<token, serial, block>> -> URI
    localTokens,   \* the tokens whose deploy slot was read
    uris           \* history: <<<<token, serial, block>>, URI>> of the first slots answered

vars == <<worker, now, conn, responses, persistent, localTokens, uris>>

Idle == [pc |-> "idle"]
InFlight(c) == conn[c].pc \in {"ready", "fetching"}

Asked(q) == <<q.slot[2], q.slot[3], q.block>>
UriKeyOfToken(q) == <<q.slot[2], q.slot[3], 0>>     \* mutant: one for all blocks
UriKey(q) == <<q.slot[2], q.slot[3], q.block>>
IsUri(slot) == slot[1] = "tokenURI"
Put(f, k, v) == [x \in DOMAIN f \cup {k} |-> IF x = k THEN v ELSE f[x]]

-----------------------------------------------------------------------------
(* The ends of a request.                                                  *)

Reply(c, q, word) ==
    /\ conn' = [conn EXCEPT ![c] = [pc |-> "answered", slot |-> q.slot, block |-> q.block,
                                    word |-> word, failed |-> q.failed, known |-> q.known]]

Throw == /\ worker' = "dead"
         /\ conn' = [c \in Connections |-> Idle]

\* SlotMap.store refuses an offset that is there: the second store of a token
\* URI throws.
UriIsStored(q) == UriKey(q) \in DOMAIN persistent
StoreOverwrites(c, q, uri) ==    \* mutant
    /\ persistent' = Put(persistent, UriKey(q), uri)
    /\ uris' = uris \cup {<<Asked(q), uri>>}
    /\ Reply(c, q, uri)
    /\ UNCHANGED worker
StoreUri(c, q, uri) ==
    \/ /\ UriIsStored(q)
       /\ Throw
       /\ UNCHANGED <<persistent, uris>>
    \/ /\ ~UriIsStored(q)
       /\ persistent' = Put(persistent, UriKey(q), uri)
       /\ uris' = uris \cup {<<Asked(q), uri>>}
       /\ Reply(c, q, uri)
       /\ UNCHANGED worker

\* slotMapOf normalises the token object in place, and that object is the one
\* the client keeps.
Normalised(body) ==
    [body EXCEPT !.paused = IF @ = "PAUSED" THEN "true" ELSE "false"]
AfterSlotMap(q, url, body, cache) ==
    IF url[1] = "tokens" /\ q.slot[1] \in Fields /\ body # Null
    THEN Put(cache, url, Normalised(body)) ELSE cache

\* The fetch of a forwarded call is in no try, and the transactions of a block
\* are read from a result that is null where the relay has no such block.
ReplyThrows(slot, body, failure) ==
    \/ slot[1] \in Relayed /\ failure
    \/ slot[1] = "getBlockByNumber" /\ body = Null

\* The handler goes on with a body, up to the next _get or to its end.
Proceed(c, q, body, failure, cache) ==
    LET url == Query(q.slot, q.block, q.got)
        r   == [pc |-> "ready", slot |-> q.slot, block |-> q.block, got |-> Append(q.got, body),
                since |-> 0, known |-> q.known,
                failed |-> q.failed \/ failure \/ (url[1] = "blocks" /\ body = Null)]
    IN  /\ responses' = AfterSlotMap(q, url, body, cache)
        /\ \/ /\ ~Complete(r.slot, r.got)
              /\ conn' = [conn EXCEPT ![c] = r]
              /\ UNCHANGED <<worker, persistent, uris>>
           \/ /\ Complete(r.slot, r.got)
              /\ IsUri(r.slot) /\ body # Null
              /\ StoreUri(c, r, body.uri)
           \/ /\ Complete(r.slot, r.got)
              /\ ReplyThrows(r.slot, body, failure)
              /\ Throw
              /\ UNCHANGED <<persistent, uris>>
           \/ /\ Complete(r.slot, r.got)
              /\ ~(IsUri(r.slot) /\ body # Null) /\ ~ReplyThrows(r.slot, body, failure)
              /\ Reply(c, r, Answer(r.slot, r.got))
              /\ UNCHANGED <<worker, persistent, uris>>
        /\ UNCHANGED <<now, localTokens>>

-----------------------------------------------------------------------------
(* The clients are external.  One that has the URI in the first slot        *)
(* asks for the slots that follow; EDR, whose fork keeps what it has read,  *)
(* does not ask for the first one again.                                    *)

UriWasRead(key) == \E u \in uris : u[1] = key
KnowsUri(slot, block) == slot[1] = "tokenURIChunk" /\ UriWasRead(<<slot[2], slot[3], block>>)
UriIsAsked(key) ==
    \E c \in Connections : InFlight(c) /\ IsUri(conn[c].slot) /\ Asked(conn[c]) = key

\* What needs no query: eth_getCode and eth_getBalance of the accounts of the
\* local chain, eth_getCode of 0x167, of console.log and of a token created
\* here, and a slot of 0x167 that is no call.
NoCode == LocalAddresses \cup {ConsoleAddress}
KnownHere(slot) ==
    \/ slot[1] = "getBalance" /\ slot[2] \in LocalAddresses
    \/ slot[1] = "code" /\ slot[2] \in NoCode \cup {HTSAddress} \cup localTokens
    \/ slot[1] = "htsField"
LocalCode(slot) == slot[1] = "code" /\ slot[2] \notin LocalAddresses
                   /\ slot[2] \in {HTSAddress} \cup localTokens

\* 'end' of an HTTP request: getHtsStorageAt and eth_getCode run up to their
\* first await, and some need none.  An assertion ends the worker.
Request(c, slot, block) ==
    LET q == [pc |-> "ready", slot |-> slot, block |-> block, got |-> <<>>,
              since |-> 0, known |-> KnowsUri(slot, block), failed |-> FALSE]
        isHere   == KnownHere(slot)
        fromUris == slot[1] = "tokenURIChunk" /\ UriIsStored(q)
    IN  /\ worker = "listening" /\ ~InFlight(c)
        /\ (IsUri(slot) /\ ~RepeatedUris) => ~UriWasRead(Asked(q)) /\ ~UriIsAsked(Asked(q))
        /\ \/ /\ slot[1] = "deployHIP719Proxy"
              /\ localTokens' = localTokens \cup {slot[2]}
              /\ Reply(c, q, 0)
              /\ UNCHANGED worker
           \/ /\ isHere
              /\ Reply(c, q, IF LocalCode(slot) THEN 1 ELSE 0)
              /\ UNCHANGED <<worker, localTokens>>
           \/ fromUris /\ Reply(c, q, persistent[UriKey(q)]) /\ UNCHANGED <<worker, localTokens>>
           \/ slot[1] = "invalid" /\ Throw /\ UNCHANGED localTokens
           \/ /\ slot[1] \notin {"deployHIP719Proxy", "invalid"} /\ ~isHere /\ ~fromUris
              /\ conn' = [conn EXCEPT ![c] = q]
              /\ UNCHANGED <<worker, localTokens>>
        /\ UNCHANGED <<now, responses, persistent, uris>>

\* _get: a response there is, or a fetch; or the fetch of a forwarded call.
Get(c) ==
    LET q   == conn[c]
        url == Query(q.slot, q.block, q.got)
    IN  /\ q.pc = "ready"
        /\ \/ /\ q.slot[1] \notin Relayed /\ url \in DOMAIN responses
              /\ Proceed(c, q, responses[url], FALSE, responses)
           \/ /\ q.slot[1] \in Relayed \/ url \notin DOMAIN responses
              /\ conn' = [conn EXCEPT ![c] = [q EXCEPT !.pc = "fetching", !.since = now]]
              /\ UNCHANGED <<worker, now, responses, persistent, localTokens, uris>>

\* The server answers at some moment of the fetch, and the answer takes its
\* time.  Two requests may fetch one URL at a time; the last answer that comes
\* is kept, which may be the older one.
Fetched(c) ==
    LET q   == conn[c]
        url == Query(q.slot, q.block, q.got)
    IN  /\ q.pc = "fetching" /\ ~Malformed(url)
        /\ \E i \in Times : \E body \in {Serves(url, i)} :
              /\ q.since <= i /\ i <= now
              /\ Proceed(c, q, body, FALSE,
                         IF q.slot[1] \in Relayed THEN responses ELSE Put(responses, url, body))

\* _get catches every failure and returns null, which it does not keep.
FailureRetried(c) ==  \* mutant: tried again until it succeeds
    LET q   == conn[c]
        url == Query(q.slot, q.block, q.got)
    IN  /\ q.pc = "fetching"
        /\ Malformed(url) \/ MirrorMayFail
        /\ conn' = [conn EXCEPT ![c].pc = "ready"]
        /\ UNCHANGED <<worker, now, responses, persistent, localTokens, uris>>
FailureKept(c) ==    \* mutant
    LET q   == conn[c]
        url == Query(q.slot, q.block, q.got)
    IN  /\ q.pc = "fetching"
        /\ Malformed(url) \/ MirrorMayFail
        /\ Proceed(c, q, Null, TRUE, Put(responses, url, Null))
FetchFailed(c) ==
    LET q   == conn[c]
        url == Query(q.slot, q.block, q.got)
    IN  /\ q.pc = "fetching"
        /\ \/ Malformed(url)
           \/ q.slot[1] \notin Relayed /\ MirrorMayFail
           \/ q.slot[1] \in Relayed /\ RelayMayFail
        /\ Proceed(c, q, Null, TRUE, responses)

Listen == /\ worker = "starting" /\ worker' = "listening"
          /\ UNCHANGED <<now, conn, responses, persistent, localTokens, uris>>

PortTaken == /\ PortMayBeTaken
             /\ worker = "starting" /\ worker' = "dead"
             /\ UNCHANGED <<now, conn, responses, persistent, localTokens, uris>>

\* External: the Hedera network goes on.
NetworkMoves == /\ now + 1 \in Times /\ now' = now + 1
                /\ UNCHANGED <<worker, conn, responses, persistent, localTokens, uris>>

-----------------------------------------------------------------------------

Init == /\ worker = "starting"
        /\ now = 0
        /\ conn = [c \in Connections |-> Idle]
        /\ responses = <<>> /\ persistent = <<>>
        /\ localTokens = {} /\ uris = {}

Next == \/ Listen \/ PortTaken \/ NetworkMoves
        \/ \E c \in Connections :
              \/ \E slot \in Requests, block \in Blocks : Request(c, slot, block)
              \/ Get(c) \/ Fetched(c) \/ FetchFailed(c)

Spec == Init /\ [][Next]_vars

\* The event loop goes on with every request that can, and fetch settles.
Fairness == /\ WF_vars(Listen \/ PortTaken)
            /\ \A c \in Connections : WF_vars(Get(c)) /\ WF_vars(Fetched(c) \/ FetchFailed(c))
FairSpec == Spec /\ Fairness

-----------------------------------------------------------------------------
(* Correctness.                                                            *)

Uris == UNION {{Net[i].nft[k].uri : k \in DOMAIN Net[i].nft} : i \in Times}
TypeOK ==
    /\ worker \in {"starting", "listening", "dead"}
    /\ now \in Times
    /\ \A c \in Connections : InFlight(c) =>
          /\ conn[c].pc \in {"ready", "fetching"}
          /\ conn[c].slot \in Requests /\ conn[c].block \in Blocks
          /\ ~Complete(conn[c].slot, conn[c].got)
          /\ worker = "listening"
    /\ \A k \in DOMAIN persistent : persistent[k] \in Uris
    /\ \A c \in Connections : conn[c].pc = "answered" =>
          conn[c].slot \in Requests /\ conn[c].block \in Blocks /\ conn[c].word \in Nat

Pinned == {"balanceOf", "treasury", "getAccountId", "code"}
Current == {"allowance", "isAssociated", "isApprovedForAll", "ownerOf", "getApproved", "tokenURI"}

\* The words a request falls back on when a query fails.
Fallback(slot, n) ==
    CASE slot[1] = "getAccountId" -> {slot[3]}
      [] slot[1] = "treasury" /\ At(n.token, slot[2]) # Null -> {0, n.token[slot[2]].treasury}
      [] OTHER -> {0}

Answered(kinds) == {conn[c] : c \in {d \in Connections :
                                 conn[d].pc = "answered" /\ conn[d].slot[1] \in kinds}}

\* The word of a slot, or of an address that is no token of the network.
Expected(slot, block) ==
    IF slot[1] = "code" /\ slot[2] \in NoCode THEN 0
    ELSE IF slot[1] = "code" /\ slot[2] = HTSAddress THEN 1
    ELSE View(slot, Net[block])

\* A balance, a treasury, an account id or a code is what it was at the end of
\* the block that was asked about, whatever else the worker fetches at the same
\* time, cached or not; only after a failed query is it the fallback.  A
\* token that was created locally has code, no other token gets any, and an
\* account of the local chain never has.
PinnedAnswers ==
    \A a \in Answered(Pinned) :
        \/ a.word = Expected(a.slot, a.block)
        \/ a.failed /\ a.word \in Fallback(a.slot, Net[a.block])
        \/ a.slot[1] = "code" /\ a.word = 1 /\ a.slot[2] \in localTokens \ LocalAddresses

\* What is asked without a timestamp was so at some time until now, and belongs
\* to the token, the accounts and the serial of its slot; an NFT's accounts are
\* looked up as of the block.
CurrentAnswers ==
    \A a \in Answered(Current) :
        \/ a.failed /\ a.word = 0
        \/ \E i \in 0 .. now :
              a.word = View(a.slot, [Net[i] EXCEPT !.accounts = Net[a.block].accounts])

\* A client that read the first slot of a token URI finds the bytes of that
\* URI in the slots that follow, whoever else reads the URI meanwhile and
\* whatever the metadata has become.
UriInOnePiece ==
    \A a \in Answered({"tokenURIChunk"}), u \in uris : u[1] = Asked(a) =>
        a.word = u[2] \/ (a.word = 0 /\ ~a.known)

\* No request ends the worker, with which every other request would be lost.
WorkerSurvives == worker # "dead"

\* Every request is answered, with no request waiting for another, as long as
\* the worker lives.
EveryRequestAnswered ==
    \A c \in Connections : InFlight(c) ~> conn[c].pc = "answered" \/ worker = "dead"

-----------------------------------------------------------------------------
(* What the documentation says and the code does not do.                   *)

\* index.d.ts of getHtsStorageAt: blockNumber "specifies the point in time to fetch
\* the requested slot from the Mirror Node".  So of the fields of an NFT, ...
NftAnswersAtBlock ==
    \A a \in Answered({"ownerOf", "getApproved", "tokenURI"}) :
        a.failed \/ a.word = View(a.slot, Net[a.block])

\* ... and of pauseStatus, which "Specifies whether the token is currently paused
\* or not" (IHederaTokenService.sol).
PauseStatusShown ==
    \A a \in Answered({"pauseStatus"}) : a.failed \/ a.word = View(a.slot, Net[a.block])

\* Also, getHtsStorageAt "should not throw", which ends the worker.  One behaviour
\* of a few clients breaks all three: a request throws while two others have got
\* wrong answers, of each kind one.
StorageAsDocumented ==
    [][NftAnswersAtBlock \/ PauseStatusShown \/ WorkerSurvives']_vars
=============================================================================
