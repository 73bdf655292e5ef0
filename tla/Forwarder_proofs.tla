--------------------------- MODULE Forwarder_proofs ----------------------------
(***************************************************************************)
(* What the worker keeps between requests, for every network, every set of *)
(* connections and every schedule of their requests: a stored token URI    *)
(* stays what its readers saw, and clients that keep what they read never  *)
(* make the worker store one twice.                                        *)
(***************************************************************************)
EXTENDS Forwarder, SequenceTheorems, TLAPS

\* A request in flight has its fields.
Shaped ==
    /\ conn = [c \in Connections |-> conn[c]]
    /\ \A c \in Connections : InFlight(c) =>
          DOMAIN conn[c] = {"pc", "slot", "block", "got", "since", "failed", "known"}

\* Clients have read what is stored, and all of it.
ReadIsStored ==
    /\ \A u \in uris : u[1] \in DOMAIN persistent /\ persistent[u[1]] = u[2]
    /\ \A k \in DOMAIN persistent : UriWasRead(k)

\* A chunk in flight was not there when it was asked for; one that was
\* answered is a part of what is stored, or nothing.
ChunkWaits(q) == q.slot[1] = "tokenURIChunk" => ~q.known
ChunkIsStored(a) ==
    a.slot[1] = "tokenURIChunk" =>
        \/ Asked(a) \in DOMAIN persistent /\ a.word = persistent[Asked(a)]
        \/ a.word = 0 /\ ~a.known
ChunksStored ==
    \A c \in Connections : /\ InFlight(c) => ChunkWaits(conn[c])
                           /\ conn[c].pc = "answered" => ChunkIsStored(conn[c])

UriInv == Shaped /\ ReadIsStored /\ ChunksStored

-----------------------------------------------------------------------------

LEMMA UriInvInit == Init => UriInv
  BY DEF Init, UriInv, Shaped, ReadIsStored, ChunksStored, InFlight, Idle

\* The request on a connection goes on: the others keep theirs.
LEMMA ConnChanges ==
  ASSUME UriInv, NEW c \in Connections, NEW r, conn' = [conn EXCEPT ![c] = r],
         UNCHANGED <<persistent, uris>>,
         r.pc \in {"ready", "fetching"} =>
            /\ DOMAIN r = {"pc", "slot", "block", "got", "since", "failed", "known"}
            /\ ChunkWaits(r),
         r.pc = "answered" => ChunkIsStored(r)
  PROVE  UriInv'
<1>1. conn' = [d \in Connections |-> IF d = c THEN r ELSE conn[d]]
  BY DEF UriInv, Shaped
<1>2. Shaped'
  BY <1>1 DEF UriInv, Shaped, InFlight
<1>3. ReadIsStored'
  BY DEF UriInv, ReadIsStored, UriWasRead
<1>4. ChunksStored'
  <2> SUFFICES ASSUME NEW d \in Connections
               PROVE  /\ InFlight(d)' => ChunkWaits(conn[d])'
                      /\ conn'[d].pc = "answered" => ChunkIsStored(conn[d])'
    BY DEF ChunksStored
  <2>1. CASE d = c
    BY <1>1, <2>1 DEF InFlight, ChunkIsStored, Asked
  <2>2. CASE d # c
    BY <1>1, <2>2 DEF UriInv, ChunksStored, InFlight, ChunkIsStored, Asked
  <2> QED BY <2>1, <2>2
<1> QED BY <1>2, <1>3, <1>4 DEF UriInv

LEMMA ThrowInv ==
  ASSUME UriInv, Throw, UNCHANGED <<persistent, uris>>
  PROVE  UriInv'
  BY DEF UriInv, Throw, Shaped, ReadIsStored, ChunksStored, InFlight, Idle, UriWasRead

\* A URI is stored once: what was stored before stays.
LEMMA StoreUriInv ==
  ASSUME UriInv, NEW c \in Connections, NEW q, NEW uri, IsUri(q.slot), StoreUri(c, q, uri)
  PROVE  UriInv'
<1>1. CASE UriIsStored(q)
  BY <1>1, ThrowInv DEF StoreUri
<1>2. CASE ~UriIsStored(q)
  <2> DEFINE a == [pc |-> "answered", slot |-> q.slot, block |-> q.block,
                   word |-> uri, failed |-> q.failed, known |-> q.known]
             k == Asked(q)
  <2>1. /\ persistent' = Put(persistent, k, uri)
        /\ uris' = uris \cup {<<k, uri>>}
        /\ conn' = [conn EXCEPT ![c] = a]
    BY <1>2 DEF StoreUri, Reply, UriKey, Asked
  <2>2. k \notin DOMAIN persistent
    BY <1>2 DEF UriIsStored, UriKey, Asked
  <2>3. conn' = [d \in Connections |-> IF d = c THEN a ELSE conn[d]]
    BY <2>1 DEF UriInv, Shaped
  <2>4. Shaped'
    BY <2>3 DEF UriInv, Shaped, InFlight
  <2> HIDE DEF k
  <2>5. /\ DOMAIN persistent' = DOMAIN persistent \cup {k}
        /\ persistent'[k] = uri
        /\ \A x \in DOMAIN persistent : persistent'[x] = persistent[x]
    BY <2>1, <2>2 DEF Put
  <2>6. ReadIsStored'
    <3>1. ASSUME NEW u \in uris'
          PROVE  u[1] \in DOMAIN persistent' /\ persistent'[u[1]] = u[2]
      <4>1. CASE u \in uris
        BY <2>5, <4>1 DEF UriInv, ReadIsStored
      <4>2. CASE u = <<k, uri>>
        BY <2>5, <4>2
      <4> QED BY <2>1, <3>1, <4>1, <4>2
    <3>2. ASSUME NEW x \in DOMAIN persistent'
          PROVE  \E u \in uris' : u[1] = x
      <4>1. CASE x = k
        <5>1. <<k, uri>> \in uris' /\ <<k, uri>>[1] = x
          BY <2>1, <4>1
        <5> QED BY <5>1
      <4>2. CASE x \in DOMAIN persistent
        BY <2>1, <4>2 DEF UriInv, ReadIsStored, UriWasRead
      <4> QED BY <2>5, <4>1, <4>2
    <3> QED BY <3>1, <3>2 DEF ReadIsStored, UriWasRead
  <2>7. a.slot[1] # "tokenURIChunk"
    BY DEF IsUri
  <2>8. ChunksStored'
    <3> SUFFICES ASSUME NEW d \in Connections
                 PROVE  /\ InFlight(d)' => ChunkWaits(conn[d])'
                        /\ conn'[d].pc = "answered" => ChunkIsStored(conn[d])'
      BY DEF ChunksStored
    <3>1. CASE d = c
      BY <2>3, <2>7, <3>1 DEF InFlight, ChunkIsStored
    <3>2. CASE d # c
      BY <2>3, <2>5, <3>2 DEF UriInv, ChunksStored, InFlight, ChunkIsStored, Asked
    <3> QED BY <3>1, <3>2
  <2> QED BY <2>4, <2>6, <2>8 DEF UriInv
<1> QED BY <1>1, <1>2

LEMMA ProceedInv ==
  ASSUME UriInv, NEW c \in Connections, InFlight(c), NEW body, NEW failure, NEW cache,
         Proceed(c, conn[c], body, failure, cache)
  PROVE  UriInv'
<1> DEFINE q == conn[c]
           r == [pc |-> "ready", slot |-> q.slot, block |-> q.block, got |-> Append(q.got, body),
                 since |-> 0,
                 failed |-> q.failed \/ failure
                            \/ (Query(q.slot, q.block, q.got)[1] = "blocks" /\ body = Null),
                 known |-> q.known]
<1>0. ChunkWaits(q)
  BY DEF UriInv, ChunksStored
<1>1. CASE conn' = [conn EXCEPT ![c] = r] /\ UNCHANGED <<persistent, uris>>
  <2>1. DOMAIN r = {"pc", "slot", "block", "got", "since", "failed", "known"} /\ r.pc = "ready"
    OBVIOUS
  <2>2. ChunkWaits(r)
    BY <1>0 DEF ChunkWaits
  <2> HIDE DEF r
  <2> QED BY <1>1, <2>1, <2>2, ConnChanges
<1>2. CASE IsUri(r.slot) /\ StoreUri(c, r, body.uri)
  <2> HIDE DEF r
  <2> QED BY <1>2, StoreUriInv
<1>3. CASE Throw /\ UNCHANGED <<persistent, uris>>
  BY <1>3, ThrowInv
<1>4. CASE Reply(c, r, Answer(r.slot, r.got)) /\ UNCHANGED <<persistent, uris>>
  <2> DEFINE a == [pc |-> "answered", slot |-> r.slot, block |-> r.block,
                   word |-> Answer(r.slot, r.got), failed |-> r.failed, known |-> r.known]
  <2>1. conn' = [conn EXCEPT ![c] = a]
    BY <1>4 DEF Reply
  <2>2. ChunkIsStored(a)
    <3> SUFFICES ASSUME a.slot[1] = "tokenURIChunk"
                 PROVE  a.word = 0 /\ ~a.known
      BY DEF ChunkIsStored
    <3>1. r.slot[1] = "tokenURIChunk" /\ r.slot = q.slot
      OBVIOUS
    <3>2. Answer(r.slot, r.got) = 0
      <4> HIDE DEF r
      <4> QED BY <3>1 DEF Answer, Default
    <3> QED BY <1>0, <3>1, <3>2 DEF ChunkWaits
  <2>3. a.pc = "answered"
    OBVIOUS
  <2> HIDE DEF a
  <2> QED BY <1>4, <2>1, <2>2, <2>3, ConnChanges
<1>5. \/ conn' = [conn EXCEPT ![c] = r] /\ UNCHANGED <<persistent, uris>>
      \/ IsUri(r.slot) /\ StoreUri(c, r, body.uri)
      \/ Throw /\ UNCHANGED <<persistent, uris>>
      \/ Reply(c, r, Answer(r.slot, r.got)) /\ UNCHANGED <<persistent, uris>>
  <2> HIDE DEF r
  <2> QED BY DEF Proceed, r
<1> QED BY <1>1, <1>2, <1>3, <1>4, <1>5

LEMMA RequestInv ==
  ASSUME UriInv, NEW c \in Connections, NEW slot, NEW block, Request(c, slot, block)
  PROVE  UriInv'
<1> DEFINE key == <<slot[2], slot[3], block>>
           q == [pc |-> "ready", slot |-> slot, block |-> block, got |-> <<>>,
                 since |-> 0, failed |-> FALSE, known |-> KnowsUri(slot, block)]
           a(word) == [pc |-> "answered", slot |-> slot, block |-> block,
                       word |-> word, failed |-> FALSE, known |-> KnowsUri(slot, block)]
<1>1. UNCHANGED <<persistent, uris>>
  BY DEF Request, Throw
<1>2. ASSUME NEW word, Reply(c, q, word), ChunkIsStored(a(word))
      PROVE  UriInv'
  <2>1. conn' = [conn EXCEPT ![c] = a(word)] /\ a(word).pc = "answered"
    BY <1>2 DEF Reply
  <2> HIDE DEF a
  <2> QED BY <1>1, <1>2, <2>1, ConnChanges
<1>3. UriKey(q) = key
  BY DEF UriKey
<1>4. CASE slot[1] = "deployHIP719Proxy" /\ Reply(c, q, 0)
  <2>1. ChunkIsStored(a(0))
    BY <1>4 DEF ChunkIsStored
  <2> QED BY <1>2, <1>4, <2>1
<1>5. ASSUME NEW word, KnownHere(slot), Reply(c, q, word)
      PROVE  UriInv'
  <2>1. ChunkIsStored(a(word))
    BY <1>5 DEF ChunkIsStored, KnownHere
  <2> QED BY <1>2, <1>5, <2>1
<1>6. CASE UriIsStored(q) /\ Reply(c, q, persistent[UriKey(q)])
  <2>1. Asked(a(persistent[key])) = key /\ a(persistent[key]).word = persistent[key]
    BY DEF Asked
  <2>2. ChunkIsStored(a(persistent[key]))
    BY <1>3, <1>6, <2>1 DEF ChunkIsStored, UriIsStored
  <2> QED BY <1>2, <1>3, <1>6, <2>2
<1>7. CASE ~(slot[1] = "tokenURIChunk" /\ UriIsStored(q)) /\ conn' = [conn EXCEPT ![c] = q]
  <2>1. KnowsUri(slot, block) => UriIsStored(q)
    BY <1>3 DEF KnowsUri, UriWasRead, UriIsStored, UriInv, ReadIsStored
  <2>2. ChunkWaits(q)
    BY <1>7, <2>1 DEF ChunkWaits
  <2>3. DOMAIN q = {"pc", "slot", "block", "got", "since", "failed", "known"} /\ q.pc = "ready"
    OBVIOUS
  <2> HIDE DEF q
  <2> QED BY <1>1, <1>7, <2>2, <2>3, ConnChanges
<1>8. CASE Throw
  BY <1>1, <1>8, ThrowInv
<1> QED
  <2> HIDE DEF q
  <2> QED BY <1>4, <1>5, <1>6, <1>7, <1>8 DEF Request, q

\* A request whose fetch was sent, and what it leaves.
Fetching(q) == [q EXCEPT !.pc = "fetching", !.since = now]
LEMMA FetchingIs ==
  ASSUME Shaped, NEW c \in Connections, InFlight(c)
  PROVE  LET r == Fetching(conn[c])
         IN  /\ DOMAIN r = {"pc", "slot", "block", "got", "since", "failed", "known"}
             /\ r.pc = "fetching" /\ r.slot = conn[c].slot /\ r.block = conn[c].block
             /\ r.got = conn[c].got /\ r.failed = conn[c].failed /\ r.known = conn[c].known
  BY DEF Shaped, Fetching

LEMMA GetInv ==
  ASSUME UriInv, NEW c \in Connections, Get(c)
  PROVE  UriInv'
<1>1. InFlight(c)
  BY DEF Get, InFlight
<1>2. CASE \E body, cache : Proceed(c, conn[c], body, FALSE, cache)
  BY <1>1, <1>2, ProceedInv
<1>3. CASE conn' = [conn EXCEPT ![c] = Fetching(conn[c])] /\ UNCHANGED <<persistent, uris>>
  <2> DEFINE r == Fetching(conn[c])
  <2>1. conn' = [conn EXCEPT ![c] = r]
    BY <1>3
  <2>2. /\ DOMAIN r = {"pc", "slot", "block", "got", "since", "failed", "known"}
        /\ r.pc = "fetching" /\ r.slot = conn[c].slot /\ r.known = conn[c].known
    BY <1>1, FetchingIs DEF UriInv
  <2>3. ChunkWaits(r)
    BY <1>1, <2>2 DEF UriInv, ChunksStored, ChunkWaits
  <2> HIDE DEF r
  <2> QED BY <1>3, <2>1, <2>2, <2>3, ConnChanges
<1> QED BY <1>2, <1>3 DEF Get, Fetching

LEMMA OtherInv ==
  ASSUME UriInv, UNCHANGED <<conn, persistent, uris>>
  PROVE  UriInv'
  BY DEF UriInv, Shaped, ReadIsStored, ChunksStored, InFlight, ChunkWaits, ChunkIsStored,
         Asked, UriWasRead

LEMMA UriInvNext == UriInv /\ [Next]_vars => UriInv'
<1> SUFFICES ASSUME UriInv, [Next]_vars PROVE UriInv'
  OBVIOUS
<1>1. ASSUME NEW c \in Connections, NEW slot \in Requests, NEW block \in Blocks,
             Request(c, slot, block)
      PROVE  UriInv'
  BY <1>1, RequestInv
<1>2. ASSUME NEW c \in Connections, Get(c) PROVE UriInv'
  BY <1>2, GetInv
<1>3. ASSUME NEW c \in Connections, Fetched(c) \/ FetchFailed(c) PROVE UriInv'
  <2>1. InFlight(c) /\ \E body, failure, cache : Proceed(c, conn[c], body, failure, cache)
    BY <1>3 DEF Fetched, FetchFailed, InFlight
  <2> QED BY <2>1, ProceedInv
<1>4. CASE Listen \/ PortTaken \/ NetworkMoves \/ UNCHANGED vars
  BY <1>4, OtherInv DEF Listen, PortTaken, NetworkMoves, vars
<1> QED BY <1>1, <1>2, <1>3, <1>4 DEF Next

\* Whatever the clients read and however their requests interleave, the slots
\* of a token URI after the first one that a client has are parts of it.
THEOREM UrisInOnePiece == Spec => []UriInOnePiece
<1>1. UriInv => UriInOnePiece
  <2> SUFFICES ASSUME UriInv, NEW c \in Connections, conn[c].pc = "answered",
                      conn[c].slot[1] = "tokenURIChunk",
                      NEW u \in uris, u[1] = Asked(conn[c])
               PROVE  conn[c].word = u[2] \/ (conn[c].word = 0 /\ ~conn[c].known)
    BY DEF UriInOnePiece, Answered
  <2>1. ChunkIsStored(conn[c])
    BY DEF UriInv, ChunksStored
  <2> QED BY <2>1 DEF ChunkIsStored, UriInv, ReadIsStored
<1> QED BY <1>1, UriInvInit, UriInvNext, PTL DEF Spec

-----------------------------------------------------------------------------
(* Clients that keep what they read, as EDR does, and a relay that answers. *)

ReadsUri(c) == InFlight(c) /\ IsUri(conn[c].slot)
Alone(q, c) ==
    /\ Asked(q) \notin DOMAIN persistent
    /\ \A d \in Connections \ {c} : ReadsUri(d) => Asked(conn[d]) # Asked(q)

\* Clients send requests, and do not ask for a block that is not there yet.
CarefulClients ==
    \A slot \in Requests : slot[1] # "invalid" /\ (slot[1] = "getBlockByNumber" => slot[2] = 0)

\* A forwarded request has got nothing before its answer.
Forwards(q) == /\ q.slot[1] = "getBlockByNumber" => q.slot[2] = 0
               /\ q.slot[1] \in Relayed => q.got = <<>>

\* No URI is fetched that is stored, or that another request fetches.
OnceInv ==
    /\ worker # "dead" /\ now \in Times
    /\ \A c \in Connections : /\ ReadsUri(c) => Alone(conn[c], c)
                              /\ InFlight(c) => Forwards(conn[c])

LEMMA OnceInvInit == Init => OnceInv
  BY RequestAssumption DEF Init, OnceInv, ReadsUri, InFlight, Idle

\* The request on a connection goes on, or ends with what it stored.
LEMMA OnceStep ==
  ASSUME UriInv, OnceInv, NEW c \in Connections, NEW r, conn' = [conn EXCEPT ![c] = r],
         UNCHANGED <<worker, now>>,
         \A d \in Connections \ {c} : ReadsUri(d) => Asked(conn[d]) \notin DOMAIN persistent',
         r.pc \in {"ready", "fetching"} =>
            /\ IsUri(r.slot) => Alone(r, c) /\ UNCHANGED persistent
            /\ Forwards(r)
  PROVE  OnceInv'
<1>1. conn' = [d \in Connections |-> IF d = c THEN r ELSE conn[d]]
  BY DEF UriInv, Shaped
<1>2. \A d \in Connections \ {c} : ReadsUri(d)' <=> ReadsUri(d)
  BY <1>1 DEF ReadsUri, InFlight
<1>3. ReadsUri(c)' => r.pc \in {"ready", "fetching"} /\ IsUri(r.slot)
  BY <1>1 DEF ReadsUri, InFlight
<1>4. ASSUME NEW d \in Connections, ReadsUri(d)'
      PROVE  Alone(conn[d], d)'
  <2>1. CASE d = c
    BY <1>1, <1>2, <1>3, <1>4, <2>1 DEF Alone, Asked
  <2>2. CASE d # c
    <3>1. ReadsUri(d) /\ conn'[d] = conn[d]
      BY <1>1, <1>2, <1>4, <2>2
    <3>2. Asked(conn[d]) \notin DOMAIN persistent'
      BY <2>2, <3>1
    <3>3. ASSUME NEW o \in Connections \ {d}, ReadsUri(o)'
          PROVE  Asked(conn'[o]) # Asked(conn[d])
      <4>1. CASE o = c
        BY <1>1, <1>3, <2>2, <3>1, <3>3, <4>1 DEF Alone
      <4>2. CASE o # c
        BY <1>1, <1>2, <3>1, <3>3, <4>2 DEF OnceInv, Alone
      <4> QED BY <4>1, <4>2
    <3> QED BY <3>1, <3>2, <3>3 DEF Alone, Asked
  <2> QED BY <2>1, <2>2
<1>5. ASSUME NEW d \in Connections, InFlight(d)'
      PROVE  Forwards(conn[d])'
  BY <1>1, <1>5 DEF OnceInv, InFlight, Forwards
<1> QED BY <1>4, <1>5 DEF OnceInv

LEMMA ProceedOnce ==
  ASSUME UriInv, OnceInv, NEW c \in Connections, InFlight(c), NEW body, NEW failure, NEW cache,
         conn[c].slot[1] \in Relayed => ~failure,
         conn[c].slot[1] = "getBlockByNumber" => body # Null,
         Proceed(c, conn[c], body, failure, cache)
  PROVE  OnceInv'
<1> DEFINE q == conn[c]
           r == [pc |-> "ready", slot |-> q.slot, block |-> q.block, got |-> Append(q.got, body),
                 since |-> 0,
                 failed |-> q.failed \/ failure
                            \/ (Query(q.slot, q.block, q.got)[1] = "blocks" /\ body = Null),
                 known |-> q.known]
           a(word) == [pc |-> "answered", slot |-> r.slot, block |-> r.block,
                       word |-> word, failed |-> r.failed, known |-> r.known]
<1>1. IsUri(q.slot) => Alone(q, c)
  BY DEF OnceInv, ReadsUri
<1>2. \A d \in Connections : ReadsUri(d) => Asked(conn[d]) \notin DOMAIN persistent
  BY DEF OnceInv, Alone
<1>3. r.slot = q.slot /\ Asked(r) = Asked(q) /\ r.pc = "ready" /\ UriKey(r) = Asked(q)
  BY DEF Asked, UriKey
<1>9. now' = now
  BY DEF Proceed
<1>4. CASE ~Complete(r.slot, r.got) /\ conn' = [conn EXCEPT ![c] = r] /\ UNCHANGED <<worker, persistent>>
  <2>1. q.slot[1] \notin Relayed
    <3> SUFFICES ASSUME q.slot[1] \in Relayed PROVE Complete(r.slot, r.got)
      BY <1>4
    <3>1. q.got = <<>>
      BY DEF OnceInv, Forwards
    <3>2. r.got = Append(<<>>, body)
      BY <3>1
    <3>3. Len(Append(<<>>, body)) = 1
      OBVIOUS
    <3>4. Len(r.got) = 1
      BY <3>2, <3>3
    <3>5. Len(Route[q.slot[1]]) = 1
      BY DEF Route, Relayed
    <3> HIDE DEF r
    <3> QED BY <1>3, <3>4, <3>5 DEF Complete
  <2>2. IsUri(r.slot) => Alone(r, c)
    BY <1>1, <1>3 DEF Alone
  <2>3. Forwards(r)
    <3> HIDE DEF r
    <3> QED BY <1>3, <2>1 DEF OnceInv, Forwards
  <2> HIDE DEF r
  <2> QED BY <1>2, <1>3, <1>4, <1>9, <2>2, <2>3, OnceStep
<1>5. ASSUME NEW word, Reply(c, r, word), worker' = worker,
             \A d \in Connections \ {c} : ReadsUri(d) => Asked(conn[d]) \notin DOMAIN persistent'
      PROVE  OnceInv'
  <2>1. conn' = [conn EXCEPT ![c] = a(word)] /\ a(word).pc = "answered"
    BY <1>5 DEF Reply
  <2> HIDE DEF a
  <2> QED BY <1>5, <1>9, <2>1, OnceStep
<1>6. CASE IsUri(r.slot) /\ StoreUri(c, r, body.uri)
  <2>1. ~UriIsStored(r)
    BY <1>1, <1>3, <1>6 DEF UriIsStored, Alone
  <2>2. /\ persistent' = Put(persistent, Asked(q), body.uri)
        /\ Reply(c, r, body.uri) /\ worker' = worker
    <3> HIDE DEF r
    <3> QED BY <1>3, <1>6, <2>1 DEF StoreUri
  <2>3. DOMAIN persistent' = DOMAIN persistent \cup {Asked(q)}
    BY <2>2 DEF Put
  <2>4. \A d \in Connections \ {c} : ReadsUri(d) => Asked(conn[d]) \notin DOMAIN persistent'
    BY <1>1, <1>2, <1>3, <1>6, <2>3 DEF Alone
  <2> QED BY <1>5, <2>2, <2>4
<1>7. CASE Reply(c, r, Answer(r.slot, r.got)) /\ UNCHANGED <<worker, persistent>>
  BY <1>2, <1>5, <1>7
<1>8. ~ReplyThrows(r.slot, body, failure)
  BY <1>3 DEF ReplyThrows, OnceInv, Forwards
<1> QED
  <2> HIDE DEF r
  <2> QED BY <1>3, <1>4, <1>6, <1>7, <1>8 DEF Proceed, r

LEMMA RequestOnce ==
  ASSUME ~RepeatedUris, CarefulClients, UriInv, OnceInv, NEW c \in Connections,
         NEW slot \in Requests, NEW block, Request(c, slot, block)
  PROVE  OnceInv'
<1> DEFINE q == [pc |-> "ready", slot |-> slot, block |-> block, got |-> <<>>,
                 since |-> 0, failed |-> FALSE, known |-> KnowsUri(slot, block)]
<1>1. UNCHANGED <<worker, now, persistent>> /\ ~InFlight(c) /\ slot[1] # "invalid"
  BY DEF Request, CarefulClients
<1>2. \A d \in Connections : ReadsUri(d) => Asked(conn[d]) \notin DOMAIN persistent
  BY DEF OnceInv, Alone
<1>3. ASSUME NEW word, Reply(c, q, word) PROVE OnceInv'
  <2> DEFINE a == [pc |-> "answered", slot |-> q.slot, block |-> q.block,
                   word |-> word, failed |-> q.failed, known |-> q.known]
  <2>1. conn' = [conn EXCEPT ![c] = a] /\ a.pc = "answered"
    BY <1>3 DEF Reply
  <2> HIDE DEF a
  <2> QED BY <1>1, <1>2, <2>1, OnceStep
<1>4. CASE conn' = [conn EXCEPT ![c] = q]
  <2>1. IsUri(slot) => ~UriWasRead(Asked(q)) /\ ~UriIsAsked(Asked(q))
    <3> HIDE DEF q
    <3> QED BY DEF Request, q
  <2>2. IsUri(slot) => Alone(q, c)
    <3> HIDE DEF q
    <3> QED BY <2>1 DEF Alone, ReadsUri, UriIsAsked, UriInv, ReadIsStored
  <2>3. q.pc = "ready" /\ q.slot = slot /\ Forwards(q)
    BY DEF Forwards, CarefulClients
  <2> HIDE DEF q
  <2> QED BY <1>1, <1>2, <1>4, <2>2, <2>3, OnceStep
<1> QED
  <2> HIDE DEF q
  <2> QED BY <1>1, <1>3, <1>4 DEF Request, q

LEMMA BlockByNumber ==
  ASSUME NEW url, url[1] = "blockByNumber", url[2] \in Times, NEW i, url[2] <= i
  PROVE  Serves(url, i) = 0
  BY DEF Serves, Numbers

LEMMA OnceInvNext ==
  ASSUME ~RepeatedUris, CarefulClients, ~RelayMayFail, ~PortMayBeTaken, UriInv, OnceInv, [Next]_vars
  PROVE  OnceInv'
<1>1. ASSUME NEW c \in Connections, NEW slot \in Requests, NEW block \in Blocks,
             Request(c, slot, block)
      PROVE  OnceInv'
  BY <1>1, RequestOnce
<1>2. ASSUME NEW c \in Connections, Get(c) PROVE OnceInv'
  <2>1. InFlight(c)
    BY <1>2 DEF Get, InFlight
  <2>2. CASE conn[c].slot[1] \notin Relayed /\ \E body, cache : Proceed(c, conn[c], body, FALSE, cache)
    BY <2>1, <2>2, ProceedOnce DEF Relayed
  <2>3. CASE conn' = [conn EXCEPT ![c] = Fetching(conn[c])] /\ UNCHANGED <<worker, now, persistent>>
    <3> DEFINE r == Fetching(conn[c])
    <3>1. conn' = [conn EXCEPT ![c] = r]
      BY <2>3
    <3>2. r.slot = conn[c].slot /\ r.got = conn[c].got /\ Asked(r) = Asked(conn[c])
      BY <2>1, FetchingIs DEF UriInv, Asked
    <3>3. IsUri(r.slot) => Alone(r, c)
      BY <2>1, <3>2 DEF OnceInv, ReadsUri, Alone
    <3>4. \A d \in Connections : ReadsUri(d) => Asked(conn[d]) \notin DOMAIN persistent
      BY DEF OnceInv, Alone
    <3>5. Forwards(r)
      BY <2>1, <3>2 DEF OnceInv, Forwards
    <3> HIDE DEF r
    <3> QED BY <2>3, <3>1, <3>3, <3>4, <3>5, OnceStep
  <2> QED BY <1>2, <2>2, <2>3 DEF Get, Fetching
<1>3. ASSUME NEW c \in Connections, Fetched(c) \/ FetchFailed(c) PROVE OnceInv'
  <2>1. InFlight(c)
    BY <1>3 DEF Fetched, FetchFailed, InFlight
  <2>2. CASE Fetched(c)
    <3>1. ASSUME conn[c].slot[1] = "getBlockByNumber", NEW i \in Times
          PROVE  Serves(Query(conn[c].slot, conn[c].block, conn[c].got), i) # Null
      <4> DEFINE url == Query(conn[c].slot, conn[c].block, conn[c].got)
      <4>1. url[1] = "blockByNumber" /\ url[2] = 0
        <5>1. conn[c].got = <<>> /\ conn[c].slot[2] = 0
          BY <2>1, <3>1 DEF OnceInv, Forwards, Relayed
        <5>2. Route["getBlockByNumber"][Len(<<>>) + 1] = "blockByNumber"
          BY DEF Route
        <5> QED BY <3>1, <5>1, <5>2 DEF Query
      <4>2. 0 \in Times /\ 0 <= i
        BY <3>1, RequestAssumption, NetAssumption
      <4>3. Serves(url, i) = 0
        <5> HIDE DEF url
        <5> QED BY <4>1, <4>2, BlockByNumber
      <4> QED BY <4>3, NetAssumption
    <3>2. PICK body, cache : /\ Proceed(c, conn[c], body, FALSE, cache)
                             /\ conn[c].slot[1] = "getBlockByNumber" => body # Null
      <4>1. PICK i \in Times : \E cache :
               Proceed(c, conn[c], Serves(Query(conn[c].slot, conn[c].block, conn[c].got), i),
                       FALSE, cache)
        BY <2>2, Zenon DEF Fetched
      <4> QED BY <3>1, <4>1
    <3> QED BY <2>1, <3>2, ProceedOnce
  <2>3. CASE FetchFailed(c)
    <3>1. conn[c].slot[1] \notin Relayed
      <4> SUFFICES ASSUME conn[c].slot[1] \in Relayed PROVE FALSE
        OBVIOUS
      <4>1. conn[c].got = <<>>
        BY <2>1 DEF OnceInv, Forwards
      <4>2. Route[conn[c].slot[1]][Len(<<>>) + 1] \in {"relay", "blockByNumber"}
        BY DEF Route, Relayed
      <4>3. Query(conn[c].slot, conn[c].block, conn[c].got)[1] \in {"relay", "blockByNumber"}
        BY <4>1, <4>2 DEF Query
      <4> QED BY <2>3, <4>3 DEF FetchFailed, Malformed
    <3>2. \E cache : Proceed(c, conn[c], Null, TRUE, cache)
      BY <2>3 DEF FetchFailed
    <3> QED BY <2>1, <3>1, <3>2, ProceedOnce DEF Relayed
  <2> QED BY <1>3, <2>2, <2>3
<1>4. CASE Listen \/ NetworkMoves \/ UNCHANGED vars
  BY <1>4 DEF OnceInv, Forwards, Listen, NetworkMoves, vars, ReadsUri, Alone, InFlight, Asked
<1>5. ~PortTaken
  BY DEF PortTaken
<1> QED BY <1>1, <1>2, <1>3, <1>4, <1>5 DEF Next

\* As long as the port is free, the relay answers and clients send it requests
\* for blocks that are there, no interleaving of clients
\* that keep a token URI's first slot ends the worker, whatever fetches from
\* the Mirror Node fail.
THEOREM ReadersNeverEndIt ==
  ASSUME ~RepeatedUris, CarefulClients, ~RelayMayFail, ~PortMayBeTaken
  PROVE  Spec => []WorkerSurvives
<1>1. UriInv /\ OnceInv /\ [Next]_vars => OnceInv'
  BY OnceInvNext
<1>2. OnceInv => WorkerSurvives
  BY DEF OnceInv, WorkerSurvives
<1> QED BY <1>1, <1>2, UriInvInit, UriInvNext, OnceInvInit, PTL DEF Spec

-----------------------------------------------------------------------------
(* For every network, every set of requests and every schedule of          *)
(* fetches, failures and other connections, what the forwarder answers is  *)
(* of the block it forked, where the Mirror Node has a block to ask for,   *)
(* and of one moment otherwise.                                            *)
(*                                                                         *)
(* The invariant is about three things at once: the cache holds only       *)
(* what the Mirror Node said, the bodies of a request in flight are those  *)
(* its route leads to, and every answer given is right.  A request reads   *)
(* the cache that another one wrote, so none of the three is invariant     *)
(* without the others.                                                     *)


-----------------------------------------------------------------------------
(* Sequences: the bodies that a request has got, one more, the last one.   *)

LEMMA Append1 ==
  ASSUME NEW a, NEW x
  PROVE  Append(<<a>>, x) = <<a, x>>
<1> DEFINE s == Append(<<a>>, x)
           u == <<a, x>>
<1>1. <<a>> \in Seq({a, x}) /\ u \in Seq({a, x}) /\ s \in Seq({a, x})
  OBVIOUS
<1>2. Len(s) = 2 /\ Len(u) = 2
  BY <1>1
<1>3. s[1] = a /\ u[1] = a /\ s[2] = x /\ u[2] = x
  BY <1>1
<1> HIDE DEF s, u
<1>4. \A i \in 1 .. 2 : s[i] = u[i]
  BY <1>3
<1>5. s = u
  BY <1>1, <1>2, <1>4, SeqEqual
<1> QED BY <1>5 DEF s, u

LEMMA Append2 ==
  ASSUME NEW a, NEW b, NEW x
  PROVE  Append(<<a, b>>, x) = <<a, b, x>>
<1> DEFINE s == Append(<<a, b>>, x)
           u == <<a, b, x>>
<1>1. <<a, b>> \in Seq({a, b, x}) /\ u \in Seq({a, b, x}) /\ s \in Seq({a, b, x})
  OBVIOUS
<1>2. Len(s) = 3 /\ Len(u) = 3
  BY <1>1
<1>3. s[1] = a /\ u[1] = a /\ s[2] = b /\ u[2] = b /\ s[3] = x /\ u[3] = x
  BY <1>1
<1> HIDE DEF s, u
<1>4. \A i \in 1 .. 3 : s[i] = u[i]
  BY <1>3
<1>5. s = u
  BY <1>1, <1>2, <1>4, SeqEqual
<1> QED BY <1>5 DEF s, u

LEMMA Append3 ==
  ASSUME NEW a, NEW b, NEW d, NEW x
  PROVE  Append(<<a, b, d>>, x) = <<a, b, d, x>>
<1> DEFINE s == Append(<<a, b, d>>, x)
           u == <<a, b, d, x>>
<1>1. <<a, b, d>> \in Seq({a, b, d, x}) /\ u \in Seq({a, b, d, x}) /\ s \in Seq({a, b, d, x})
  OBVIOUS
<1>2. Len(s) = 4 /\ Len(u) = 4
  BY <1>1
<1>3. s[1] = a /\ u[1] = a /\ s[2] = b /\ u[2] = b /\ s[3] = d /\ u[3] = d /\ s[4] = x /\ u[4] = x
  BY <1>1
<1> HIDE DEF s, u
<1>4. \A i \in 1 .. 4 : s[i] = u[i]
  BY <1>3
<1>5. s = u
  BY <1>1, <1>2, <1>4, SeqEqual
<1> QED BY <1>5 DEF s, u

LEMMA Lens ==
  ASSUME NEW a, NEW b, NEW d, NEW x
  PROVE  /\ Len(<<>>) = 0 /\ Len(<<a>>) = 1 /\ Len(<<a, b>>) = 2
         /\ Len(<<a, b, d>>) = 3 /\ Len(<<a, b, d, x>>) = 4
  OBVIOUS

LEMMA Last1 == ASSUME NEW a PROVE LastOf(<<a>>) = a
  BY DEF LastOf
LEMMA Last2 == ASSUME NEW a, NEW b PROVE LastOf(<<a, b>>) = b
  BY DEF LastOf
LEMMA Last3 == ASSUME NEW a, NEW b, NEW d PROVE LastOf(<<a, b, d>>) = d
  BY DEF LastOf
LEMMA Last4 == ASSUME NEW a, NEW b, NEW d, NEW x PROVE LastOf(<<a, b, d, x>>) = x
  BY DEF LastOf

-----------------------------------------------------------------------------
(* The route of a slot kind, from getHtsStorageAt, by its first query: the *)
(* block, the number itself (of any moment), or the NFT.                   *)

Blocky == {"balanceOf", "tokenURIChunk", "pauseStatus", "treasury", "getAccountId", "code"}
Unpinned == {"allowance", "isAssociated", "isApprovedForAll"}
LEMMA Routes ==
  /\ \A k \in Blocky : Route[k][1] = "blocks"
  /\ \A k \in Blocky \ {"treasury"} : Len(Route[k]) = 2
  /\ Route["balanceOf"][2] = "balanceOf"
  /\ \A k \in {"tokenURIChunk", "pauseStatus", "treasury", "code"} : Route[k][2] = "tokens"
  /\ Route["getAccountId"][2] = "accounts"
  /\ Route["treasury"][3] = "blocks" /\ Route["treasury"][4] = "accounts" /\ Len(Route["treasury"]) = 4
  /\ \A k \in Unpinned : Route[k][1] = k /\ Len(Route[k]) = 1
  /\ \A k \in {"ownerOf", "getApproved"} :
        Route[k][1] = "nfts" /\ Route[k][2] = "blocks" /\ Route[k][3] = "accounts" /\ Len(Route[k]) = 3
  /\ Route["tokenURI"][1] = "nfts" /\ Len(Route["tokenURI"]) = 1
  /\ \A k \in Relayed : Route[k][1] \in {"relay", "blockByNumber"} /\ Len(Route[k]) = 1
  BY DEF Route, Blocky, Unpinned, Relayed

\* The query that follows, the end of the route, and the word, for each kind
\* and number of bodies.

LEMMA BlockFirst ==
  ASSUME NEW slot, slot[1] \in Blocky, NEW block, NEW b
  PROVE  Query(slot, block, <<>>) = <<"blocks", block>> /\ ~Complete(slot, <<b>>)
<1>1. Route[slot[1]][Len(<<>>) + 1] = "blocks"
  BY Routes
<1>2. Query(slot, block, <<>>) = <<"blocks", block>>
  BY <1>1 DEF Query
<1>3. Len(<<b>>) = 1 /\ Len(Route[slot[1]]) # 1 /\ Route[slot[1]][1] = "blocks"
  BY Routes
<1>4. slot[1] # "getApproved"
  BY DEF Blocky
<1>5. ~Complete(slot, <<b>>)
  BY <1>3, <1>4 DEF Complete
<1> QED BY <1>2, <1>5

LEMMA OneNumber ==
  ASSUME NEW slot, slot[1] \in Unpinned, NEW block, NEW x
  PROVE  /\ Query(slot, block, <<>>) = <<slot[1], slot[2], slot[3], slot[4]>>
         /\ Complete(slot, <<x>>)
         /\ Answer(slot, <<x>>) = IF x = Null THEN 0 ELSE Double(x)
<1>1. Route[slot[1]][Len(<<>>) + 1] = slot[1]
  BY Routes
<1>2. Query(slot, block, <<>>) = <<slot[1], slot[2], slot[3], slot[4]>>
  BY <1>1 DEF Query, Unpinned
<1>3. Len(<<x>>) = 1 /\ Len(Route[slot[1]]) = 1
  BY Routes
<1>4. Complete(slot, <<x>>)
  BY <1>3 DEF Complete
<1>5. Answer(slot, <<x>>) = IF x = Null THEN 0 ELSE Double(x)
  <2>1. LastOf(<<x>>) = x
    BY Last1
  <2> QED BY <2>1 DEF Answer, Default, Numbers, Relayed, Unpinned
<1> QED BY <1>2, <1>4, <1>5

LEMMA BalanceLast ==
  ASSUME NEW slot, slot[1] = "balanceOf", NEW block, NEW b, NEW x
  PROVE  /\ Query(slot, block, <<b>>) = <<"balanceOf", slot[2], slot[3], slot[4], b>>
         /\ Complete(slot, <<b, x>>)
         /\ Answer(slot, <<b, x>>) = IF x = Null THEN 0 ELSE Double(x)
<1>1. Route[slot[1]][Len(<<b>>) + 1] = "balanceOf"
  BY Routes
<1>2. Query(slot, block, <<b>>) = <<"balanceOf", slot[2], slot[3], slot[4], b>>
  <2>1. LastOf(<<b>>) = b
    BY Last1
  <2> QED BY <1>1, <2>1 DEF Query
<1>3. Len(<<b, x>>) = 2 /\ Len(Route[slot[1]]) = 2
  BY Routes DEF Blocky
<1>4. Complete(slot, <<b, x>>)
  BY <1>3 DEF Complete
<1>5. Answer(slot, <<b, x>>) = IF x = Null THEN 0 ELSE Double(x)
  <2>1. LastOf(<<b, x>>) = x
    BY Last2
  <2> QED BY <2>1 DEF Answer, Default, Numbers, Relayed
<1> QED BY <1>2, <1>4, <1>5

LEMMA TokenSecond ==
  ASSUME NEW slot, slot[1] \in {"tokenURIChunk", "pauseStatus", "treasury", "code"},
         NEW block, NEW b, NEW x
  PROVE  /\ Query(slot, block, <<b>>) = <<"tokens", slot[2], b>>
         /\ Complete(slot, <<b, x>>) <=> slot[1] # "treasury" \/ x = Null
         /\ slot[1] = "code" => Answer(slot, <<b, x>>) = IF x = Null THEN 0 ELSE 1
         /\ slot[1] = "treasury" => Answer(slot, <<b, Null>>) = 0
         /\ slot[1] \in {"tokenURIChunk", "pauseStatus"} => Answer(slot, <<b, x>>) \in {0, 1}
<1>1. Route[slot[1]][Len(<<b>>) + 1] = "tokens"
  BY Routes
<1>2. Query(slot, block, <<b>>) = <<"tokens", slot[2], b>>
  <2>1. LastOf(<<b>>) = b
    BY Last1
  <2> QED BY <1>1, <2>1 DEF Query
<1>3. Len(<<b, x>>) = 2 /\ <<b, x>>[2] = x
  OBVIOUS
<1>4. slot[1] = "treasury" => Len(Route[slot[1]]) = 4
  BY Routes
<1>5. slot[1] # "treasury" => Len(Route[slot[1]]) = 2
  BY Routes DEF Blocky
<1>6. Route[slot[1]][2] = "tokens" /\ slot[1] # "getApproved"
  BY Routes
<1>7. Complete(slot, <<b, x>>) <=> slot[1] # "treasury" \/ x = Null
  <2>1. CASE slot[1] = "treasury"
    BY <1>3, <1>4, <1>6, <2>1 DEF Complete
  <2>2. CASE slot[1] # "treasury"
    BY <1>3, <1>5, <2>2 DEF Complete
  <2> QED BY <2>1, <2>2
<1>8. slot[1] = "code" => Answer(slot, <<b, x>>) = IF x = Null THEN 0 ELSE 1
  <2>1. LastOf(<<b, x>>) = x
    BY Last2
  <2> QED BY <2>1 DEF Answer, Default, Numbers, Relayed
<1>9. slot[1] = "treasury" => Answer(slot, <<b, Null>>) = 0
  <2>1. LastOf(<<b, Null>>) = Null
    BY Last2
  <2> QED BY <2>1, Lens DEF Answer, Default
<1>10. slot[1] \in {"tokenURIChunk", "pauseStatus"} => Answer(slot, <<b, x>>) \in {0, 1}
  <2>1. LastOf(<<b, x>>) = x
    BY Last2
  <2> QED BY <2>1 DEF Answer, Default, Numbers, Relayed
<1> QED BY <1>2, <1>7, <1>8, <1>9, <1>10

LEMMA TreasuryThird ==
  ASSUME NEW slot, slot[1] = "treasury", NEW block, NEW b, NEW t, NEW x
  PROVE  Query(slot, block, <<b, t>>) = <<"blocks", block>> /\ ~Complete(slot, <<b, t, x>>)
<1>1. Route[slot[1]][Len(<<b, t>>) + 1] = "blocks"
  BY Routes
<1>2. Query(slot, block, <<b, t>>) = <<"blocks", block>>
  BY <1>1 DEF Query
<1>3. Len(<<b, t, x>>) = 3 /\ Len(Route[slot[1]]) = 4 /\ Route[slot[1]][3] = "blocks"
  BY Routes
<1>4. ~Complete(slot, <<b, t, x>>)
  BY <1>3 DEF Complete
<1> QED BY <1>2, <1>4

LEMMA TreasuryLast ==
  ASSUME NEW slot, slot[1] = "treasury", NEW block, NEW b, NEW t, NEW d, NEW x
  PROVE  /\ Query(slot, block, <<b, t, d>>) = <<"accounts", t.treasury, d>>
         /\ Complete(slot, <<b, t, d, x>>)
         /\ Answer(slot, <<b, t, d, x>>) = IF x = Null THEN t.treasury ELSE EvmAddress(x)
<1>1. Route[slot[1]][Len(<<b, t, d>>) + 1] = "accounts"
  BY Routes
<1>2. AccountOf(slot, <<b, t, d>>) = t.treasury
  BY DEF AccountOf
<1>3. Query(slot, block, <<b, t, d>>) = <<"accounts", t.treasury, d>>
  <2>1. LastOf(<<b, t, d>>) = d
    BY Last3
  <2> QED BY <1>1, <1>2, <2>1 DEF Query
<1>4. Len(<<b, t, d, x>>) = 4 /\ Len(Route[slot[1]]) = 4
  BY Routes
<1>5. Complete(slot, <<b, t, d, x>>)
  BY <1>4 DEF Complete
<1>6. Default(slot, <<b, t, d, x>>) = t.treasury
  BY <1>4 DEF Default
<1>7. Answer(slot, <<b, t, d, x>>) = IF x = Null THEN t.treasury ELSE EvmAddress(x)
  <2>1. LastOf(<<b, t, d, x>>) = x
    BY Last4
  <2> QED BY <1>4, <1>6, <2>1 DEF Answer, Numbers, Relayed
<1> QED BY <1>3, <1>5, <1>7

LEMMA AccountIdLast ==
  ASSUME NEW slot, slot[1] = "getAccountId", NEW block, NEW b, NEW x
  PROVE  /\ Query(slot, block, <<b>>) = <<"accounts", slot[3], b>>
         /\ Complete(slot, <<b, x>>)
         /\ Answer(slot, <<b, x>>) = IF x = Null THEN slot[3] ELSE HighByte + x
<1>1. Route[slot[1]][Len(<<b>>) + 1] = "accounts"
  BY Routes
<1>2. AccountOf(slot, <<b>>) = slot[3]
  BY DEF AccountOf
<1>3. Query(slot, block, <<b>>) = <<"accounts", slot[3], b>>
  <2>1. LastOf(<<b>>) = b
    BY Last1
  <2> QED BY <1>1, <1>2, <2>1 DEF Query
<1>4. Len(<<b, x>>) = 2 /\ Len(Route[slot[1]]) = 2
  BY Routes DEF Blocky
<1>5. Complete(slot, <<b, x>>)
  BY <1>4 DEF Complete
<1>6. Answer(slot, <<b, x>>) = IF x = Null THEN slot[3] ELSE HighByte + x
  <2>1. LastOf(<<b, x>>) = x
    BY Last2
  <2> QED BY <2>1 DEF Answer, Default, Numbers, Relayed
<1> QED BY <1>3, <1>5, <1>6

LEMMA NftFirst ==
  ASSUME NEW slot, slot[1] \in {"ownerOf", "getApproved", "tokenURI"}, NEW block, NEW x
  PROVE  /\ Query(slot, block, <<>>) = <<"nfts", slot[2], slot[3], slot[4]>>
         /\ Complete(slot, <<x>>) <=> \/ x = Null \/ slot[1] = "tokenURI"
                                      \/ slot[1] = "getApproved" /\ x # Null /\ x.spender = Null
         /\ Answer(slot, <<Null>>) = 0
         /\ slot[1] = "getApproved" => Answer(slot, <<x>>) = 0
<1>1. Route[slot[1]][Len(<<>>) + 1] = "nfts"
  BY Routes
<1>2. Query(slot, block, <<>>) = <<"nfts", slot[2], slot[3], slot[4]>>
  BY <1>1 DEF Query
<1>3. Len(<<x>>) = 1 /\ <<x>>[1] = x
  OBVIOUS
<1>4. Route[slot[1]][1] = "nfts"
  BY Routes
<1>5. slot[1] = "tokenURI" => Len(Route[slot[1]]) = 1
  BY Routes
<1>6. slot[1] # "tokenURI" => Len(Route[slot[1]]) = 3
  BY Routes
<1>7. Complete(slot, <<x>>) <=> \/ x = Null \/ slot[1] = "tokenURI"
                                \/ slot[1] = "getApproved" /\ x # Null /\ x.spender = Null
  <2>1. CASE slot[1] = "tokenURI"
    BY <1>3, <1>5, <2>1 DEF Complete
  <2>2. CASE slot[1] # "tokenURI"
    BY <1>3, <1>4, <1>6, <2>2 DEF Complete
  <2> QED BY <2>1, <2>2
<1>8. Answer(slot, <<Null>>) = 0
  <2>1. LastOf(<<Null>>) = Null
    BY Last1
  <2> QED BY <2>1 DEF Answer, Default
<1>9. slot[1] = "getApproved" => Answer(slot, <<x>>) = 0
  <2>1. LastOf(<<x>>) = x
    BY Last1
  <2> QED BY <2>1, <1>3 DEF Answer, Default, Numbers, Relayed
<1> QED BY <1>2, <1>7, <1>8, <1>9

LEMMA NftSecond ==
  ASSUME NEW slot, slot[1] \in {"ownerOf", "getApproved"}, NEW block, NEW nft, NEW b
  PROVE  Query(slot, block, <<nft>>) = <<"blocks", block>> /\ ~Complete(slot, <<nft, b>>)
<1>1. Route[slot[1]][Len(<<nft>>) + 1] = "blocks"
  BY Routes
<1>2. Query(slot, block, <<nft>>) = <<"blocks", block>>
  BY <1>1 DEF Query
<1>3. Len(<<nft, b>>) = 2 /\ Len(Route[slot[1]]) = 3 /\ Route[slot[1]][2] = "blocks"
  BY Routes
<1>4. ~Complete(slot, <<nft, b>>)
  BY <1>3 DEF Complete
<1> QED BY <1>2, <1>4

LEMMA NftLast ==
  ASSUME NEW slot, slot[1] \in {"ownerOf", "getApproved"}, NEW block, NEW nft, NEW b, NEW x
  PROVE  /\ Query(slot, block, <<nft, b>>) =
                <<"accounts", IF slot[1] = "ownerOf" THEN nft.owner ELSE nft.spender, b>>
         /\ Complete(slot, <<nft, b, x>>)
         /\ Answer(slot, <<nft, b, x>>) = IF x = Null THEN 0 ELSE EvmAddress(x)
<1>1. Route[slot[1]][Len(<<nft, b>>) + 1] = "accounts"
  BY Routes
<1>2. AccountOf(slot, <<nft, b>>) = IF slot[1] = "ownerOf" THEN nft.owner ELSE nft.spender
  BY DEF AccountOf
<1>3. Query(slot, block, <<nft, b>>) =
          <<"accounts", IF slot[1] = "ownerOf" THEN nft.owner ELSE nft.spender, b>>
  <2>1. LastOf(<<nft, b>>) = b
    BY Last2
  <2> QED BY <1>1, <1>2, <2>1 DEF Query
<1>4. Len(<<nft, b, x>>) = 3 /\ Len(Route[slot[1]]) = 3
  BY Routes
<1>5. Complete(slot, <<nft, b, x>>)
  BY <1>4 DEF Complete
<1>6. Answer(slot, <<nft, b, x>>) = IF x = Null THEN 0 ELSE EvmAddress(x)
  <2>1. LastOf(<<nft, b, x>>) = x
    BY Last3
  <2> QED BY <1>4, <2>1 DEF Answer, Default, Numbers, Relayed
<1> QED BY <1>3, <1>5, <1>6

LEMMA RelayOnly ==
  ASSUME NEW slot, slot[1] \in Relayed, NEW block, NEW x
  PROVE  /\ Query(slot, block, <<>>)[1] \in {"relay", "blockByNumber"}
         /\ Complete(slot, <<x>>)
         /\ Answer(slot, <<x>>) \in {0, 1}
<1>1. Route[slot[1]][Len(<<>>) + 1] \in {"relay", "blockByNumber"}
  BY Routes
<1>2. Query(slot, block, <<>>)[1] \in {"relay", "blockByNumber"}
  BY <1>1 DEF Query
<1>3. Len(<<x>>) = 1 /\ Len(Route[slot[1]]) = 1
  BY Routes
<1>4. Complete(slot, <<x>>)
  BY <1>3 DEF Complete
<1>5. Answer(slot, <<x>>) \in {0, 1}
  <2>1. LastOf(<<x>>) = x
    BY Last1
  <2> QED BY <2>1 DEF Answer, Default, Numbers, Relayed
<1> QED BY <1>2, <1>4, <1>5

-----------------------------------------------------------------------------
(* What a body says, of the URL that it answers.                           *)

\* slotMapOf may have normalised the object since it was fetched.
SameToken(body, object) ==
    IF object = Null THEN body = Null
    ELSE body \in TokenObject /\ body.treasury = object.treasury

SoFar(time) == {i \in Times : i <= time}
Known(url, body, time) ==
    /\ url[1] = "blocks"    => body \in {url[2], Null}
    /\ url[1] = "tokens" /\ url[3] \in Times =>
          SameToken(body, At(Net[url[3]].token, url[2]))
    /\ url[1] = "accounts"  => body = IF url[2] \in Net[url[3]].accounts THEN url[2] ELSE Null
    /\ url[1] = "balanceOf" =>
          body = At(Net[url[5]].number, <<"balanceOf", url[2], url[3], url[4]>>)
    /\ url[1] \in Unpinned =>
          \E i \in SoFar(time) : body = At(Net[i].number, url)
    /\ url[1] = "nfts" => \E i \in SoFar(time) : body = At(Net[i].nft, <<url[2], url[3]>>)

Obtained(url, body, failure, time) ==
    IF failure THEN body = Null ELSE ~Malformed(url) /\ Known(url, body, time)

\* What a request in flight has got so far.
BlockGot(block, b, failed) == b = block \/ (b = Null /\ failed)
TokenGot(slot, block, t) ==
    /\ slot[2] \in DOMAIN Net[block].token
    /\ t.treasury = Net[block].token[slot[2]].treasury
NftGot(slot, nft, time) ==
    /\ slot[1] = "getApproved" => nft.spender # Null
    /\ \E i \in SoFar(time) : /\ <<slot[2], slot[3]>> \in DOMAIN Net[i].nft
                              /\ nft = Net[i].nft[<<slot[2], slot[3]>>]
Asks(slot, block, got, failed, time) ==
    \/ got = <<>>
    \/ /\ slot[1] \in Blocky
       /\ \E b : got = <<b>> /\ BlockGot(block, b, failed)
    \/ /\ slot[1] = "treasury"
       /\ \E b, t : got = <<b, t>> /\ TokenGot(slot, block, t)
    \/ /\ slot[1] = "treasury"
       /\ \E b, t, d : got = <<b, t, d>> /\ TokenGot(slot, block, t) /\ BlockGot(block, d, failed)
    \/ /\ slot[1] \in {"ownerOf", "getApproved"}
       /\ \E nft : got = <<nft>> /\ NftGot(slot, nft, time)
    \/ /\ slot[1] \in {"ownerOf", "getApproved"}
       /\ \E nft, b : got = <<nft, b>> /\ NftGot(slot, nft, time) /\ BlockGot(block, b, failed)

\* A word that the Mirror Node had for a slot, or the fallback after a failure.
AsOf(block, i) == [Net[i] EXCEPT !.accounts = Net[block].accounts]
Right(slot, block, word, failed, time) ==
    /\ word \in Nat
    /\ slot[1] \in Pinned =>
          \/ word = View(slot, Net[block])
          \/ failed /\ word \in Fallback(slot, Net[block])
    /\ slot[1] \in Current =>
          \/ failed /\ word = 0
          \/ \E i \in SoFar(time) : word = View(slot, AsOf(block, i))

-----------------------------------------------------------------------------
(* One step of a request, for each kind of query.                          *)

LEMMA DoubleIsNat == ASSUME NEW n \in Nat PROVE Double(n) \in Nat
  BY DEF Double

LEMMA NumberAt ==
  ASSUME NEW i \in Times, NEW k, At(Net[i].number, k) # Null
  PROVE  At(Net[i].number, k) \in Nat
  BY NetAssumption DEF At

LEMMA BalanceStep ==
  ASSUME NEW time, NEW later, NEW slot, slot[1] = "balanceOf",
         slot = <<slot[1], slot[2], slot[3], slot[4]>>, NEW block \in Times, NEW b,
         BlockGot(block, b, later), NEW body, NEW failure,
         Obtained(<<"balanceOf", slot[2], slot[3], slot[4], b>>, body, failure, time),
         failure => later
  PROVE  Right(slot, block, IF body = Null THEN 0 ELSE Double(body), later, time)
<1> DEFINE url == <<"balanceOf", slot[2], slot[3], slot[4], b>>
           word == IF body = Null THEN 0 ELSE Double(body)
<1>1. slot[1] \notin Current
  BY DEF Current
<1>2. CASE failure
  <2>1. word = 0
    BY <1>2 DEF Obtained
  <2>2. 0 \in Fallback(slot, Net[block])
    BY DEF Fallback
  <2> QED BY <1>1, <1>2, <2>1, <2>2 DEF Right
<1>3. CASE ~failure
  <2>1. b # Null /\ Known(url, body, time)
    <3>1. Len(url) = 5 /\ url[1] = "balanceOf" /\ url[5] = b
      OBVIOUS
    <3> QED BY <1>3, <3>1 DEF Obtained, Malformed
  <2>2. b = block
    BY <2>1 DEF BlockGot
  <2>3. body = At(Net[block].number, slot)
    BY <2>1, <2>2 DEF Known
  <2>4. View(slot, Net[block]) = IF At(Net[block].number, slot) = Null THEN 0
                                 ELSE Double(Net[block].number[slot])
    BY DEF View, Numbers
  <2>5. word = View(slot, Net[block])
    BY <2>3, <2>4 DEF At
  <2>6. word \in Nat
    BY <2>3, NumberAt, DoubleIsNat
  <2> QED BY <1>1, <2>5, <2>6 DEF Right
<1> QED BY <1>2, <1>3

LEMMA NumberStep ==
  ASSUME NEW time, NEW later, NEW slot, slot[1] \in Unpinned,
         NEW block \in Times, NEW body, NEW failure,
         Obtained(slot, body, failure, time), failure => later,
         NEW word, body = Null => word = 0, body # Null => word = Double(body)
  PROVE  Right(slot, block, word, later, time)
<1>1. slot[1] \notin Pinned
  BY DEF Pinned, Unpinned
<1>2. CASE failure
  BY <1>1, <1>2 DEF Right, Obtained
<1>3. CASE ~failure
  <2>1. PICK i \in SoFar(time) : body = At(Net[i].number, slot)
    BY <1>3 DEF Obtained, Known
  <2> DEFINE n == AsOf(block, i)
  <2>2. n.number = Net[i].number
    BY NetAssumption DEF SoFar, AsOf
  <2>3. View(slot, n) = IF At(n.number, slot) = Null THEN 0 ELSE Double(n.number[slot])
    <3> HIDE DEF n
    <3> QED BY DEF View, Numbers, Unpinned
  <2>4. word = View(slot, n)
    BY <2>1, <2>2, <2>3 DEF At
  <2>5. word \in Nat
    BY <2>1, NumberAt, DoubleIsNat DEF SoFar
  <2> QED BY <1>1, <2>4, <2>5 DEF Right
<1> QED BY <1>2, <1>3

LEMMA TokenStep ==
  ASSUME NEW time, NEW later, NEW slot, slot[1] \in {"treasury", "code"},
         NEW block \in Times, NEW b, BlockGot(block, b, later), NEW body,
         NEW failure, Obtained(<<"tokens", slot[2], b>>, body, failure, time),
         failure => later
  PROVE  /\ slot[1] = "treasury" /\ body # Null => TokenGot(slot, block, body)
         /\ slot[1] = "treasury" /\ body = Null => Right(slot, block, 0, later, time)
         /\ slot[1] = "code" => Right(slot, block, IF body = Null THEN 0 ELSE 1, later, time)
<1> DEFINE object == At(Net[block].token, slot[2])
<1>1. slot[1] \notin Current
  BY DEF Current
<1>2. CASE failure
  <2>1. body = Null
    BY <1>2 DEF Obtained
  <2>2. 0 \in Fallback(slot, Net[block])
    BY DEF Fallback
  <2> QED BY <1>1, <1>2, <2>1, <2>2 DEF Right
<1>3. CASE ~failure
  <2>1. b # Null /\ Known(<<"tokens", slot[2], b>>, body, time)
    BY <1>3 DEF Obtained, Malformed
  <2>2. b = block
    BY <2>1 DEF BlockGot
  <2>3. SameToken(body, object)
    BY <2>1, <2>2 DEF Known
  <2>4. body # Null => object # Null /\ body.treasury = object.treasury
    BY <2>3 DEF SameToken
  <2>5. body = Null => object = Null
    BY <2>3, NetAssumption DEF SameToken
  <2>6. slot[1] = "treasury" /\ body # Null => TokenGot(slot, block, body)
    BY <2>4 DEF TokenGot, At
  <2>7. body = Null => View(slot, Net[block]) = 0
    BY <2>5 DEF View, Numbers
  <2>8. slot[1] = "code" /\ body # Null => View(slot, Net[block]) = 1
    BY <2>4 DEF View, Numbers
  <2> QED BY <1>1, <2>6, <2>7, <2>8 DEF Right
<1> QED BY <1>2, <1>3

LEMMA TreasuryStep ==
  ASSUME NEW time, NEW later, NEW slot, slot[1] = "treasury", NEW block \in Times,
         NEW t, NEW d, TokenGot(slot, block, t), BlockGot(block, d, later),
         NEW body, NEW failure,
         Obtained(<<"accounts", t.treasury, d>>, body, failure, time),
         failure => later
  PROVE  Right(slot, block, IF body = Null THEN t.treasury ELSE EvmAddress(body), later, time)
<1> DEFINE object == At(Net[block].token, slot[2])
           word == IF body = Null THEN t.treasury ELSE EvmAddress(body)
<1>1. slot[1] \notin Current
  BY DEF Current
<1>0. /\ t.treasury \in Nat /\ HighByte \in Nat
      /\ \A a \in Net[block].accounts : a \in Nat /\ EvmAddress(a) \in Nat
  BY NetAssumption DEF TokenGot, EvmAddress, TokenObject
<1>2. object = Net[block].token[slot[2]] /\ object # Null /\ t.treasury = object.treasury
  <2>1. object = Net[block].token[slot[2]] /\ t.treasury = object.treasury
    BY DEF TokenGot, At
  <2>2. object # Null
    BY <2>1, NetAssumption DEF TokenGot, TokenObject
  <2> QED BY <2>1, <2>2
<1>3. CASE failure
  <2>1. word = t.treasury
    BY <1>3 DEF Obtained
  <2>2. t.treasury \in Fallback(slot, Net[block])
    BY <1>2 DEF Fallback
  <2> QED BY <1>0, <1>1, <1>3, <2>1, <2>2 DEF Right
<1>4. CASE ~failure
  <2>1. d # Null /\ Known(<<"accounts", t.treasury, d>>, body, time)
    BY <1>4 DEF Obtained, Malformed
  <2>2. d = block
    BY <2>1 DEF BlockGot
  <2>3. body = IF t.treasury \in Net[block].accounts THEN t.treasury ELSE Null
    BY <2>1, <2>2 DEF Known
  <2>4. Net[block].accounts \subseteq Nat /\ Null \notin Nat
    BY NetAssumption
  <2>5. word = IF t.treasury \in Net[block].accounts THEN EvmAddress(t.treasury) ELSE t.treasury
    BY <2>3, <2>4
  <2>6. word = View(slot, Net[block])
    <3> HIDE DEF word
    <3> QED BY <1>2, <2>5 DEF View, Numbers
  <2>7. word \in Nat
    BY <1>0, <2>5
  <2>8. Right(slot, block, word, later, time)
    <3> HIDE DEF word
    <3> QED BY <1>1, <2>6, <2>7 DEF Right
  <2> QED BY <2>8
<1> QED BY <1>3, <1>4

LEMMA AccountIdStep ==
  ASSUME NEW time, NEW later, NEW slot, slot[1] = "getAccountId", slot[3] \in Nat,
         NEW block \in Times, NEW b, BlockGot(block, b, later), NEW body,
         NEW failure, Obtained(<<"accounts", slot[3], b>>, body, failure, time),
         failure => later
  PROVE  Right(slot, block, IF body = Null THEN slot[3] ELSE HighByte + body, later, time)
<1> DEFINE word == IF body = Null THEN slot[3] ELSE HighByte + body
<1>0. \A a \in Net[block].accounts : a \in Nat /\ EvmAddress(a) \in Nat
  BY NetAssumption DEF EvmAddress
<1>1. slot[1] \notin Current
  BY DEF Current
<1>2. CASE failure
  <2>1. word = slot[3]
    BY <1>2 DEF Obtained
  <2>2. slot[3] \in Fallback(slot, Net[block])
    BY DEF Fallback
  <2> QED BY <1>1, <1>2, <2>1, <2>2 DEF Right
<1>3. CASE ~failure
  <2>1. b # Null /\ Known(<<"accounts", slot[3], b>>, body, time)
    BY <1>3 DEF Obtained, Malformed
  <2>2. b = block
    BY <2>1 DEF BlockGot
  <2>3. body = IF slot[3] \in Net[block].accounts THEN slot[3] ELSE Null
    BY <2>1, <2>2 DEF Known
  <2>4. Net[block].accounts \subseteq Nat /\ Null \notin Nat
    BY NetAssumption
  <2>5. word = IF slot[3] \in Net[block].accounts THEN EvmAddress(slot[3]) ELSE slot[3]
    BY <2>3, <2>4 DEF EvmAddress
  <2>6. word = View(slot, Net[block])
    <3> HIDE DEF word
    <3> QED BY <2>5 DEF View, Numbers
  <2>7. word \in Nat
    BY <1>0, <2>5
  <2>8. Right(slot, block, word, later, time)
    <3> HIDE DEF word
    <3> QED BY <1>1, <2>6, <2>7 DEF Right
  <2> QED BY <2>8
<1> QED BY <1>2, <1>3

LEMMA SnapshotAsOf ==
  ASSUME NEW i \in Times, NEW block
  PROVE  AsOf(block, i).nft = Net[i].nft /\ AsOf(block, i).accounts = Net[block].accounts
  BY NetAssumption DEF AsOf

LEMMA AccountsAreNumbers ==
  ASSUME NEW i \in Times
  PROVE  Null \notin Net[i].accounts /\ \A a \in Net[i].accounts : a \in Nat /\ EvmAddress(a) \in Nat
  BY NetAssumption DEF EvmAddress

NftSaid(slot, block, nft, later, time) ==
    /\ nft = Null => Right(slot, block, 0, later, time)
    /\ nft # Null /\ (slot[1] = "getApproved" => nft.spender # Null) => NftGot(slot, nft, time)
    /\ nft # Null /\ slot[1] = "getApproved" /\ nft.spender = Null => Right(slot, block, 0, later, time)
    /\ nft # Null /\ slot[1] = "tokenURI" => Right(slot, block, nft.uri, later, time) /\ nft.uri \in Uris
LEMMA NftStep ==
  ASSUME NEW time, NEW later, NEW slot,
         slot[1] \in {"ownerOf", "getApproved", "tokenURI"}, NEW block \in Times,
         NEW body, NEW failure,
         Obtained(<<"nfts", slot[2], slot[3], slot[4]>>, body, failure, time),
         failure => later
  PROVE  NftSaid(slot, block, body, later, time)
<1> DEFINE key == <<slot[2], slot[3]>>
<1>1. slot[1] \notin Pinned
  BY DEF Pinned
<1>2. CASE failure
  BY <1>1, <1>2 DEF Right, Obtained, NftSaid
<1>3. CASE ~failure
  <2>1. PICK i \in SoFar(time) : body = At(Net[i].nft, key)
    BY <1>3 DEF Obtained, Known
  <2> DEFINE n == AsOf(block, i)
  <2>2. i \in Times /\ n.nft = Net[i].nft /\ n.accounts = Net[block].accounts
    BY SnapshotAsOf DEF SoFar
  <2>3. At(n.nft, key) = body
    BY <2>1, <2>2
  <2>4. body # Null => key \in DOMAIN Net[i].nft /\ body = Net[i].nft[key] /\ body.uri \in Nat
    BY <2>1, <2>2, NetAssumption DEF At
  <2>5. /\ body = Null => View(slot, n) = 0
        /\ body # Null /\ slot[1] = "tokenURI" => View(slot, n) = body.uri
        /\ body # Null /\ slot[1] = "getApproved" /\ body.spender = Null => View(slot, n) = 0
    <3>1. Null \notin Net[block].accounts
      BY AccountsAreNumbers
    <3> HIDE DEF n
    <3> QED BY <2>2, <2>3, <3>1 DEF View, Numbers
  <2>6. body # Null => body.uri \in Uris
    BY <2>2, <2>4 DEF Uris
  <2>7. body # Null /\ (slot[1] = "getApproved" => body.spender # Null) => NftGot(slot, body, time)
    BY <2>4 DEF NftGot
  <2> QED BY <1>1, <2>4, <2>5, <2>6, <2>7 DEF Right, NftSaid
<1> QED BY <1>2, <1>3

LEMMA NftAccountStep ==
  ASSUME NEW time, NEW later, NEW slot, slot[1] \in {"ownerOf", "getApproved"},
         NEW block \in Times, NEW nft, NEW b, NftGot(slot, nft, time),
         BlockGot(block, b, later), NEW body, NEW failure, NEW a,
         a = (IF slot[1] = "ownerOf" THEN nft.owner ELSE nft.spender),
         Obtained(<<"accounts", a, b>>, body, failure, time), failure => later
  PROVE  Right(slot, block, IF body = Null THEN 0 ELSE EvmAddress(body), later, time)
<1> DEFINE key == <<slot[2], slot[3]>>
           word == IF body = Null THEN 0 ELSE EvmAddress(body)
<1>1. slot[1] \notin Pinned
  BY DEF Pinned
<1>2. CASE failure
  BY <1>1, <1>2 DEF Right, Obtained
<1>3. CASE ~failure
  <2>1. b = block /\ Known(<<"accounts", a, b>>, body, time)
    BY <1>3 DEF Obtained, Malformed, BlockGot
  <2>2. body = IF a \in Net[block].accounts THEN a ELSE Null
    BY <2>1 DEF Known
  <2>3. word = IF a \in Net[block].accounts THEN EvmAddress(a) ELSE 0
    BY <2>2, AccountsAreNumbers
  <2>4. PICK i \in SoFar(time) : key \in DOMAIN Net[i].nft /\ nft = Net[i].nft[key]
    BY DEF NftGot
  <2> DEFINE n == AsOf(block, i)
  <2>5. n.nft = Net[i].nft /\ n.accounts = Net[block].accounts /\ nft # Null
    BY <2>4, SnapshotAsOf, NetAssumption DEF SoFar
  <2>6. At(n.nft, key) = nft
    BY <2>4, <2>5 DEF At
  <2>7. View(slot, n) = IF a \in Net[block].accounts THEN EvmAddress(a) ELSE 0
    <3> HIDE DEF n
    <3> QED BY <2>5, <2>6 DEF View, Numbers
  <2>8. word \in Nat
    BY <2>3, AccountsAreNumbers
  <2>9. Right(slot, block, word, later, time)
    <3> HIDE DEF word
    <3> QED BY <1>1, <2>3, <2>7, <2>8 DEF Right
  <2> QED BY <2>9
<1> QED BY <1>2, <1>3

-----------------------------------------------------------------------------
(* Any step of a request.                                                  *)

LEMMA PlainWord ==
  ASSUME NEW time, NEW slot, slot[1] \notin Pinned \cup Current, NEW block,
         NEW word \in Nat, NEW failed
  PROVE  Right(slot, block, word, failed, time)
  BY DEF Right

\* With one more body the request goes on, or its word is right.
Advances(slot, block, got, body, later, time) ==
    /\ ~Complete(slot, got) => Asks(slot, block, got, later, time)
    /\ Complete(slot, got) /\ ~(IsUri(slot) /\ body # Null) =>
          Right(slot, block, Answer(slot, got), later, time)
    /\ IsUri(slot) /\ body # Null => Right(slot, block, body.uri, later, time) /\ body.uri \in Uris

LEMMA NumberBody ==
  ASSUME NEW time, NEW later, NEW slot, slot[1] \in Unpinned, NEW block \in Times,
         NEW body, NEW failure, Obtained(slot, body, failure, time), failure => later
  PROVE  Right(slot, block, Answer(slot, <<body>>), later, time)
<1>1. PICK word : word = Answer(slot, <<body>>)
  OBVIOUS
<1>2. (body = Null => word = 0) /\ (body # Null => word = Double(body))
  BY <1>1, OneNumber
<1>3. Right(slot, block, word, later, time)
  BY <1>2, NumberStep
<1> QED BY <1>1, <1>3

LEMMA FirstBody ==
  ASSUME NEW time, NEW later, NEW slot \in Requests, slot[1] \in DOMAIN Route,
         NEW block \in Blocks, NEW body, NEW failure,
         Obtained(Query(slot, block, <<>>), body, failure, time), failure => later,
         Query(slot, block, <<>>)[1] = "blocks" /\ body = Null => later
  PROVE  Advances(slot, block, <<body>>, body, later, time)
<1>1. CASE slot[1] \in Blocky
  <2>1. Query(slot, block, <<>>) = <<"blocks", block>> /\ ~Complete(slot, <<body>>)
    BY <1>1, BlockFirst
  <2>2. BlockGot(block, body, later)
    BY <2>1 DEF Obtained, Known, BlockGot
  <2>3. Asks(slot, block, <<body>>, later, time) /\ ~IsUri(slot)
    BY <1>1, <2>2 DEF Asks, IsUri, Blocky
  <2> QED BY <2>1, <2>3 DEF Advances
<1>2. CASE slot[1] \in Unpinned
  <2>1. /\ Query(slot, block, <<>>) = <<slot[1], slot[2], slot[3], slot[4]>>
        /\ Complete(slot, <<body>>) /\ ~IsUri(slot)
        /\ Answer(slot, <<body>>) = IF body = Null THEN 0 ELSE Double(body)
    BY <1>2, OneNumber DEF IsUri, Unpinned
  <2>2. Right(slot, block, Answer(slot, <<body>>), later, time)
    <3>1. slot = <<slot[1], slot[2], slot[3], slot[4]>> /\ block \in Times
      BY RequestAssumption
    <3>2. Obtained(slot, body, failure, time)
      BY <2>1, <3>1
    <3> QED BY <1>2, <3>1, <3>2, NumberBody
  <2> QED BY <2>1, <2>2 DEF Advances
<1>3. CASE slot[1] \in {"ownerOf", "getApproved", "tokenURI"}
  <2>1. /\ Query(slot, block, <<>>) = <<"nfts", slot[2], slot[3], slot[4]>>
        /\ Complete(slot, <<body>>) <=> \/ body = Null \/ slot[1] = "tokenURI"
                                        \/ slot[1] = "getApproved" /\ body # Null /\ body.spender = Null
        /\ Answer(slot, <<Null>>) = 0
        /\ slot[1] = "getApproved" => Answer(slot, <<body>>) = 0
    BY <1>3, NftFirst
  <2>2. /\ body = Null => Right(slot, block, 0, later, time)
        /\ body # Null /\ (slot[1] = "getApproved" => body.spender # Null) => NftGot(slot, body, time)
        /\ body # Null /\ slot[1] = "getApproved" /\ body.spender = Null =>
               Right(slot, block, 0, later, time)
        /\ body # Null /\ slot[1] = "tokenURI" =>
               Right(slot, block, body.uri, later, time) /\ body.uri \in Uris
    <3>1. Obtained(<<"nfts", slot[2], slot[3], slot[4]>>, body, failure, time) /\ block \in Times
      BY <2>1, RequestAssumption
    <3>2. NftSaid(slot, block, body, later, time)
      BY <1>3, <3>1, NftStep
    <3> QED BY <3>2 DEF NftSaid
  <2>3. ~Complete(slot, <<body>>) => Asks(slot, block, <<body>>, later, time)
    BY <1>3, <2>1, <2>2 DEF Asks
  <2>4. CASE body = Null
    BY <2>1, <2>2, <2>3, <2>4 DEF Advances
  <2>5. CASE body # Null
    BY <1>3, <2>1, <2>2, <2>3, <2>5 DEF Advances, IsUri
  <2> QED BY <2>4, <2>5
<1>4. CASE slot[1] \in Relayed
  <2>1. Complete(slot, <<body>>) /\ Answer(slot, <<body>>) \in {0, 1} /\ ~IsUri(slot)
    BY <1>4, RelayOnly DEF IsUri, Relayed
  <2>2. slot[1] \notin Pinned \cup Current
    BY <1>4 DEF Relayed, Pinned, Current
  <2> QED BY <2>1, <2>2, PlainWord DEF Advances
<1>5. DOMAIN Route = Blocky \cup Unpinned
                            \cup {"ownerOf", "getApproved", "tokenURI"} \cup Relayed
  BY DEF Route, Blocky, Unpinned, Relayed
<1> QED BY <1>1, <1>2, <1>3, <1>4, <1>5

LEMMA BodyAfterBlock ==
  ASSUME NEW time, NEW later, NEW slot \in Requests, slot[1] \in Blocky,
         NEW block \in Blocks, NEW b, BlockGot(block, b, later), NEW body,
         NEW failure, Obtained(Query(slot, block, <<b>>), body, failure, time),
         failure => later
  PROVE  Advances(slot, block, <<b, body>>, body, later, time)
<1>1. ~IsUri(slot) /\ slot = <<slot[1], slot[2], slot[3], slot[4]>> /\ slot[3] \in Nat /\ block \in Times
  BY RequestAssumption DEF IsUri, Blocky
<1>2. CASE slot[1] = "balanceOf"
  <2>1. /\ Query(slot, block, <<b>>) = <<"balanceOf", slot[2], slot[3], slot[4], b>>
        /\ Complete(slot, <<b, body>>)
        /\ Answer(slot, <<b, body>>) = IF body = Null THEN 0 ELSE Double(body)
    BY <1>2, BalanceLast
  <2>2. Right(slot, block, Answer(slot, <<b, body>>), later, time)
    BY <1>1, <1>2, <2>1, BalanceStep
  <2> QED BY <1>1, <2>1, <2>2 DEF Advances
<1>3. CASE slot[1] = "getAccountId"
  <2>1. /\ Query(slot, block, <<b>>) = <<"accounts", slot[3], b>>
        /\ Complete(slot, <<b, body>>)
        /\ Answer(slot, <<b, body>>) = IF body = Null THEN slot[3] ELSE HighByte + body
    BY <1>3, AccountIdLast
  <2>2. Right(slot, block, Answer(slot, <<b, body>>), later, time)
    BY <1>1, <1>3, <2>1, AccountIdStep
  <2> QED BY <1>1, <2>1, <2>2 DEF Advances
<1>4. CASE slot[1] \in {"tokenURIChunk", "pauseStatus", "treasury", "code"}
  <2>1. /\ Query(slot, block, <<b>>) = <<"tokens", slot[2], b>>
        /\ Complete(slot, <<b, body>>) <=> slot[1] # "treasury" \/ body = Null
        /\ slot[1] = "code" => Answer(slot, <<b, body>>) = IF body = Null THEN 0 ELSE 1
        /\ slot[1] = "treasury" => Answer(slot, <<b, Null>>) = 0
        /\ slot[1] \in {"tokenURIChunk", "pauseStatus"} => Answer(slot, <<b, body>>) \in {0, 1}
    BY <1>4, TokenSecond
  <2>2. CASE slot[1] \in {"treasury", "code"}
    <3>1. /\ slot[1] = "treasury" /\ body # Null => TokenGot(slot, block, body)
          /\ slot[1] = "treasury" /\ body = Null => Right(slot, block, 0, later, time)
          /\ slot[1] = "code" => Right(slot, block, IF body = Null THEN 0 ELSE 1, later, time)
      BY <1>1, <2>1, <2>2, TokenStep
    <3>2. ~Complete(slot, <<b, body>>) => Asks(slot, block, <<b, body>>, later, time)
      BY <2>1, <3>1 DEF Asks
    <3>3. Complete(slot, <<b, body>>) => Right(slot, block, Answer(slot, <<b, body>>), later, time)
      BY <2>1, <2>2, <3>1
    <3> QED BY <1>1, <3>2, <3>3 DEF Advances
  <2>3. CASE slot[1] \in {"tokenURIChunk", "pauseStatus"}
    <3>1. slot[1] \notin Pinned \cup Current
      BY <2>3 DEF Pinned, Current
    <3> QED BY <1>1, <2>1, <2>3, <3>1, PlainWord DEF Advances
  <2> QED BY <1>4, <2>2, <2>3
<1> QED BY <1>2, <1>3, <1>4 DEF Blocky

LEMMA BodyAfterNft ==
  ASSUME NEW time, NEW later, NEW slot \in Requests,
         slot[1] \in {"ownerOf", "getApproved"}, NEW block \in Blocks, NEW nft,
         NftGot(slot, nft, time), NEW body, NEW failure,
         Obtained(Query(slot, block, <<nft>>), body, failure, time),
         failure => later,
         Query(slot, block, <<nft>>)[1] = "blocks" /\ body = Null => later
  PROVE  Advances(slot, block, <<nft, body>>, body, later, time)
<1>1. Query(slot, block, <<nft>>) = <<"blocks", block>> /\ ~Complete(slot, <<nft, body>>)
  BY NftSecond
<1>2. BlockGot(block, body, later)
  BY <1>1 DEF Obtained, Known, BlockGot
<1>3. Asks(slot, block, <<nft, body>>, later, time)
  BY <1>2 DEF Asks
<1> QED BY <1>1, <1>3 DEF Advances, IsUri

LEMMA BodyAfterToken ==
  ASSUME NEW time, NEW later, NEW slot \in Requests, slot[1] = "treasury",
         NEW block \in Blocks, NEW b, NEW t, TokenGot(slot, block, t), NEW body,
         NEW failure, Obtained(Query(slot, block, <<b, t>>), body, failure, time),
         failure => later,
         Query(slot, block, <<b, t>>)[1] = "blocks" /\ body = Null => later
  PROVE  Advances(slot, block, <<b, t, body>>, body, later, time)
<1>1. Query(slot, block, <<b, t>>) = <<"blocks", block>> /\ ~Complete(slot, <<b, t, body>>)
  BY TreasuryThird
<1>2. BlockGot(block, body, later)
  BY <1>1 DEF Obtained, Known, BlockGot
<1>3. Asks(slot, block, <<b, t, body>>, later, time)
  BY <1>2 DEF Asks
<1> QED BY <1>1, <1>3 DEF Advances, IsUri

LEMMA AccountOfToken ==
  ASSUME NEW time, NEW later, NEW slot \in Requests, slot[1] = "treasury",
         NEW block \in Blocks, NEW b, NEW t, NEW d, TokenGot(slot, block, t),
         BlockGot(block, d, later), NEW body, NEW failure,
         Obtained(Query(slot, block, <<b, t, d>>), body, failure, time),
         failure => later
  PROVE  Advances(slot, block, <<b, t, d, body>>, body, later, time)
<1>1. /\ Query(slot, block, <<b, t, d>>) = <<"accounts", t.treasury, d>>
      /\ Complete(slot, <<b, t, d, body>>) /\ ~IsUri(slot)
      /\ Answer(slot, <<b, t, d, body>>) = IF body = Null THEN t.treasury ELSE EvmAddress(body)
  BY TreasuryLast DEF IsUri
<1>2. Right(slot, block, Answer(slot, <<b, t, d, body>>), later, time)
  BY <1>1, TreasuryStep, RequestAssumption
<1> QED BY <1>1, <1>2 DEF Advances

LEMMA AccountOfNft ==
  ASSUME NEW time, NEW later, NEW slot \in Requests,
         slot[1] \in {"ownerOf", "getApproved"}, NEW block \in Blocks, NEW nft,
         NEW b, NftGot(slot, nft, time), BlockGot(block, b, later), NEW body,
         NEW failure,
         Obtained(Query(slot, block, <<nft, b>>), body, failure, time),
         failure => later
  PROVE  Advances(slot, block, <<nft, b, body>>, body, later, time)
<1> DEFINE a == IF slot[1] = "ownerOf" THEN nft.owner ELSE nft.spender
<1>1. /\ Query(slot, block, <<nft, b>>) = <<"accounts", a, b>>
      /\ Complete(slot, <<nft, b, body>>) /\ ~IsUri(slot)
      /\ Answer(slot, <<nft, b, body>>) = IF body = Null THEN 0 ELSE EvmAddress(body)
  BY NftLast DEF IsUri
<1>2. Right(slot, block, Answer(slot, <<nft, b, body>>), later, time)
  BY <1>1, NftAccountStep, RequestAssumption
<1> QED BY <1>1, <1>2 DEF Advances

\* A request goes on or ends right, whatever it has got and gets next.
LEMMA AnyBody ==
  ASSUME NEW time, NEW slot \in Requests, slot[1] \in DOMAIN Route, NEW block \in Blocks,
         NEW got, NEW failed, Asks(slot, block, got, failed, time),
         NEW body, NEW failure, Obtained(Query(slot, block, got), body, failure, time),
         NEW later, failed \/ failure => later,
         Query(slot, block, got)[1] = "blocks" /\ body = Null => later
  PROVE  Advances(slot, block, Append(got, body), body, later, time)
<1>0. \A b : BlockGot(block, b, failed) => BlockGot(block, b, later)
  BY DEF BlockGot
<1>1. CASE got = <<>>
  <2>1. Append(got, body) = <<body>>
    BY <1>1
  <2> QED BY <1>1, <2>1, FirstBody
<1>2. CASE slot[1] \in Blocky /\ \E b : got = <<b>> /\ BlockGot(block, b, failed)
  <2>1. PICK b : got = <<b>> /\ BlockGot(block, b, failed)
    BY <1>2
  <2>2. Advances(slot, block, <<b, body>>, body, later, time)
    BY <1>0, <1>2, <2>1, BodyAfterBlock
  <2> QED BY <2>1, <2>2, Append1
<1>3. CASE slot[1] = "treasury" /\ \E b, t : got = <<b, t>> /\ TokenGot(slot, block, t)
  <2>1. PICK b, t : got = <<b, t>> /\ TokenGot(slot, block, t)
    BY <1>3
  <2>2. Advances(slot, block, <<b, t, body>>, body, later, time)
    BY <1>3, <2>1, BodyAfterToken
  <2> QED BY <2>1, <2>2, Append2
<1>4. CASE /\ slot[1] = "treasury"
           /\ \E b, t, d : got = <<b, t, d>> /\ TokenGot(slot, block, t) /\ BlockGot(block, d, failed)
  <2>1. PICK b, t, d : got = <<b, t, d>> /\ TokenGot(slot, block, t) /\ BlockGot(block, d, failed)
    BY <1>4
  <2>2. Advances(slot, block, <<b, t, d, body>>, body, later, time)
    BY <1>0, <1>4, <2>1, AccountOfToken
  <2> QED BY <2>1, <2>2, Append3
<1>5. CASE slot[1] \in {"ownerOf", "getApproved"} /\ \E nft : got = <<nft>> /\ NftGot(slot, nft, time)
  <2>1. PICK nft : got = <<nft>> /\ NftGot(slot, nft, time)
    BY <1>5
  <2>2. Advances(slot, block, <<nft, body>>, body, later, time)
    BY <1>5, <2>1, BodyAfterNft
  <2> QED BY <2>1, <2>2, Append1
<1>6. CASE /\ slot[1] \in {"ownerOf", "getApproved"}
           /\ \E nft, b : got = <<nft, b>> /\ NftGot(slot, nft, time) /\ BlockGot(block, b, failed)
  <2>1. PICK nft, b : got = <<nft, b>> /\ NftGot(slot, nft, time) /\ BlockGot(block, b, failed)
    BY <1>6
  <2>2. Advances(slot, block, <<nft, b, body>>, body, later, time)
    BY <1>0, <1>6, <2>1, AccountOfNft
  <2> QED BY <2>1, <2>2, Append2
<1> QED BY <1>1, <1>2, <1>3, <1>4, <1>5, <1>6 DEF Asks

-----------------------------------------------------------------------------
(* The invariant: what the worker keeps, what it fetches and what it said.  *)

AsksRight(q, time) ==
    /\ q.slot \in Requests /\ q.block \in Blocks
    /\ q.slot[1] \in DOMAIN Route /\ (q.slot[1] = "code" => q.slot[2] \notin NoCode \cup {HTSAddress})
    /\ Asks(q.slot, q.block, q.got, q.failed, time) /\ ~Complete(q.slot, q.got)

\* PinnedAnswers and CurrentAnswers, of one answer.
AnswersRight(a, local, time) ==
    /\ a.slot \in Requests /\ a.block \in Blocks /\ a.word \in Nat
    /\ a.slot[1] \in Pinned =>
          \/ a.word = Expected(a.slot, a.block)
          \/ a.failed /\ a.word \in Fallback(a.slot, Net[a.block])
          \/ a.slot[1] = "code" /\ a.word = 1 /\ a.slot[2] \in local \ LocalAddresses
    /\ a.slot[1] \in Current =>
          \/ a.failed /\ a.word = 0
          \/ \E i \in SoFar(time) : a.word = View(a.slot, AsOf(a.block, i))

CacheRight(cache, time) == \A url \in DOMAIN cache : Obtained(url, cache[url], FALSE, time)

AnswersInv ==
    /\ now \in Times /\ worker \in {"starting", "listening", "dead"}
    /\ CacheRight(responses, now)
    /\ \A k \in DOMAIN persistent : persistent[k] \in Uris
    /\ \A c \in Connections :
          /\ InFlight(c) => AsksRight(conn[c], now) /\ worker = "listening"
          /\ conn[c].pc = "answered" => AnswersRight(conn[c], localTokens, now)

LEMMA AnswersInvInit == Init => AnswersInv
  BY RequestAssumption DEF Init, AnswersInv, CacheRight, InFlight, Idle

\* What was true so far is true later.
LEMMA Later ==
  ASSUME NEW time \in Times, NEW then \in Times, time <= then
  PROVE  SoFar(time) \subseteq SoFar(then)
<1>1. ASSUME NEW i \in Times, i <= time PROVE i <= then
  <2>1. i \in Nat /\ time \in Nat /\ then \in Nat
    BY NetAssumption
  <2> QED BY <1>1, <2>1
<1> QED BY <1>1 DEF SoFar

LEMMA CacheLater ==
  ASSUME NEW time \in Times, NEW then \in Times, time <= then, NEW cache,
         CacheRight(cache, time)
  PROVE  CacheRight(cache, then)
  BY Later DEF CacheRight, Obtained, Known

LEMMA AsksLater ==
  ASSUME NEW time \in Times, NEW then \in Times, time <= then, NEW q, AsksRight(q, time)
  PROVE  AsksRight(q, then)
<1>1. ASSUME NEW slot, NEW nft, NftGot(slot, nft, time)
      PROVE  NftGot(slot, nft, then)
  BY <1>1, Later DEF NftGot
<1> QED BY <1>1 DEF AsksRight, Asks

LEMMA AnswersLater ==
  ASSUME NEW time \in Times, NEW then \in Times, time <= then, NEW a,
         NEW local, NEW more, local \subseteq more, AnswersRight(a, local, time)
  PROVE  AnswersRight(a, more, then)
  BY Later DEF AnswersRight

-----------------------------------------------------------------------------
(* What a fetch adds to the cache.                                         *)

LEMMA Cached ==
  ASSUME NEW time, NEW cache, CacheRight(cache, time), NEW url, NEW body,
         Obtained(url, body, FALSE, time)
  PROVE  CacheRight(Put(cache, url, body), time)
  BY DEF CacheRight, Put

LEMMA NormalisedToken ==
  ASSUME NEW body \in TokenObject
  PROVE  Normalised(body) \in TokenObject /\ Normalised(body).treasury = body.treasury
<1> DEFINE flag == IF body.paused = "PAUSED" THEN "true" ELSE "false"
<1>1. Normalised(body) = [body EXCEPT !.paused = flag]
  BY DEF Normalised
<1>2. flag \in {"true", "false"}
  OBVIOUS
<1> HIDE DEF flag
<1> QED BY <1>1, <1>2 DEF TokenObject

LEMMA CacheAfterSlotMap ==
  ASSUME NEW time, NEW q, NEW url, NEW body, NEW failure,
         Obtained(url, body, failure, time), NEW cache, CacheRight(cache, time)
  PROVE  CacheRight(AfterSlotMap(q, url, body, cache), time)
<1>1. CASE url[1] = "tokens" /\ body # Null
  <2>1. ~Malformed(url) /\ Known(url, body, time)
    BY <1>1 DEF Obtained
  <2>2. url[3] \in Times => SameToken(Normalised(body), At(Net[url[3]].token, url[2]))
    BY <1>1, <2>1, NormalisedToken DEF Known, SameToken
  <2>3. Obtained(url, Normalised(body), FALSE, time)
    BY <1>1, <2>1, <2>2 DEF Obtained, Known, Unpinned
  <2> QED BY <2>3, Cached DEF AfterSlotMap
<1>2. CASE ~(url[1] = "tokens" /\ body # Null)
  BY <1>2 DEF AfterSlotMap
<1> QED BY <1>1, <1>2

LEMMA QueryShape ==
  ASSUME NEW slot, NEW block, NEW got, NEW url, url = Query(slot, block, got)
  PROVE  /\ url[1] = "balanceOf" => Len(url) = 5
         /\ url[1] \in Unpinned => Len(url) = 4
<1> DEFINE step == Route[slot[1]][Len(got) + 1]
<1>1. CASE step = "blocks"
  <2>1. url = <<"blocks", block>>
    BY <1>1 DEF Query
  <2> QED BY <2>1 DEF Unpinned
<1>2. CASE step = "balanceOf"
  <2>1. url = <<"balanceOf", slot[2], slot[3], slot[4], LastOf(got)>>
    BY <1>2 DEF Query
  <2> QED BY <2>1 DEF Unpinned
<1>3. CASE step = "tokens"
  <2>1. url = <<"tokens", slot[2], LastOf(got)>>
    BY <1>3 DEF Query
  <2> QED BY <2>1 DEF Unpinned
<1>4. CASE step = "accounts"
  <2>1. url = <<"accounts", AccountOf(slot, got), LastOf(got)>>
    BY <1>4 DEF Query
  <2> QED BY <2>1 DEF Unpinned
<1>5. CASE step \notin {"blocks", "balanceOf", "tokens", "accounts"}
  <2>1. url = <<step, slot[2], slot[3], slot[4]>>
    <3> HIDE DEF step
    <3> QED BY <1>5 DEF Query, step
  <2> HIDE DEF step
  <2> QED BY <1>5, <2>1
<1> HIDE DEF step
<1> QED BY <1>1, <1>2, <1>3, <1>4, <1>5

\* The Mirror Node tells the truth.
LEMMA ServedIsKnown ==
  ASSUME NEW then \in Times, NEW time \in SoFar(then), NEW url,
         url[1] = "balanceOf" => Len(url) = 5, url[1] \in Unpinned => Len(url) = 4
  PROVE  Known(url, Serves(url, time), then)
<1>0. time \in SoFar(then) /\ time \in Times
  BY DEF SoFar
<1>1. CASE url[1] = "blocks"
  <2>1. Serves(url, time) \in {url[2], Null}
    BY <1>1 DEF Serves, Numbers
  <2> QED BY <1>1, <2>1 DEF Known, Unpinned
<1>2. CASE url[1] = "tokens"
  <2>1. Serves(url, time) = At(Net[url[3]].token, url[2])
    BY <1>2 DEF Serves, Numbers
  <2>2. ASSUME url[3] \in Times, At(Net[url[3]].token, url[2]) # Null
        PROVE  At(Net[url[3]].token, url[2]) \in TokenObject
    BY <2>2, NetAssumption DEF At
  <2> QED BY <1>2, <2>1, <2>2 DEF Known, Unpinned, SameToken
<1>3. CASE url[1] = "accounts"
  <2>1. Serves(url, time) = IF url[2] \in Net[url[3]].accounts THEN url[2] ELSE Null
    BY <1>3 DEF Serves, Numbers
  <2> QED BY <1>3, <2>1 DEF Known, Unpinned
<1>4. CASE url[1] = "balanceOf"
  <2>1. Serves(url, time) = At(Net[url[5]].number, <<"balanceOf", url[2], url[3], url[4]>>)
    BY <1>4 DEF Serves, Numbers
  <2> QED BY <1>4, <2>1 DEF Known, Unpinned
<1>5. CASE url[1] \in Unpinned
  <2>1. Serves(url, time) = At(Net[time].number, url)
    BY <1>5 DEF Serves, Numbers, Unpinned
  <2> QED BY <1>0, <1>5, <2>1 DEF Known, Unpinned
<1>6. CASE url[1] = "nfts"
  <2>1. Serves(url, time) = At(Net[time].nft, <<url[2], url[3]>>)
    BY <1>6 DEF Serves, Numbers
  <2> QED BY <1>0, <1>6, <2>1 DEF Known, Unpinned
<1>7. CASE url[1] \notin {"blocks", "tokens", "accounts", "balanceOf", "nfts"} \cup Unpinned
  BY <1>7 DEF Known
<1> QED BY <1>1, <1>2, <1>3, <1>4, <1>5, <1>6, <1>7

-----------------------------------------------------------------------------
(* The steps of the worker.                                                *)

Kept == /\ now' \in Times /\ now <= now' /\ localTokens \subseteq localTokens'
        /\ CacheRight(responses', now')
        /\ \A k \in DOMAIN persistent' : persistent'[k] \in Uris

LEMMA AnswersStep ==
  ASSUME Shaped, AnswersInv, Kept, worker' = worker, worker = "listening",
         NEW c \in Connections, NEW r, conn' = [conn EXCEPT ![c] = r],
         r.pc \in {"ready", "fetching"} => AsksRight(r, now'),
         r.pc = "answered" => AnswersRight(r, localTokens', now')
  PROVE  AnswersInv'
<1>1. conn' = [d \in Connections |-> IF d = c THEN r ELSE conn[d]]
  BY DEF Shaped
<1>2. now \in Times
  BY DEF AnswersInv
<1>3. ASSUME NEW d \in Connections
      PROVE  /\ InFlight(d)' => AsksRight(conn'[d], now')
             /\ conn'[d].pc = "answered" => AnswersRight(conn'[d], localTokens', now')
  <2>1. CASE d = c
    BY <1>1, <2>1 DEF InFlight
  <2>2. CASE d # c
    <3>1. conn'[d] = conn[d]
      BY <1>1, <2>2
    <3>2. ASSUME InFlight(d)' PROVE AsksRight(conn[d], now')
      <4>1. AsksRight(conn[d], now)
        BY <3>1, <3>2 DEF InFlight, AnswersInv
      <4> QED BY <1>2, <4>1, AsksLater DEF Kept
    <3>3. ASSUME conn[d].pc = "answered" PROVE AnswersRight(conn[d], localTokens', now')
      <4>1. AnswersRight(conn[d], localTokens, now)
        BY <3>3 DEF AnswersInv
      <4> QED BY <1>2, <4>1, AnswersLater DEF Kept
    <3> QED BY <3>1, <3>2, <3>3
  <2> QED BY <2>1, <2>2
<1> QED BY <1>3 DEF AnswersInv, Kept

LEMMA AnswersThrow ==
  ASSUME AnswersInv, Kept, Throw
  PROVE  AnswersInv'
<1>1. \A c \in Connections : conn'[c].pc = "idle"
  BY DEF Throw, Idle
<1> QED BY <1>1 DEF AnswersInv, Kept, Throw, InFlight

LEMMA WordOfAnswer ==
  ASSUME NEW a, NEW local, NEW time, a.slot \in Requests, a.block \in Blocks,
         Right(a.slot, a.block, a.word, a.failed, time),
         a.slot[1] = "code" => a.slot[2] \notin NoCode \cup {HTSAddress}
  PROVE  AnswersRight(a, local, time)
<1>1. Expected(a.slot, a.block) = View(a.slot, Net[a.block])
  BY DEF Expected
<1> QED BY <1>1 DEF AnswersRight, Right

LEMMA ProceedAnswers ==
  ASSUME Shaped, AnswersInv, NEW c \in Connections, InFlight(c), NEW body,
         NEW failure, NEW cache,
         Obtained(Query(conn[c].slot, conn[c].block, conn[c].got), body, failure, now),
         CacheRight(cache, now), Proceed(c, conn[c], body, failure, cache)
  PROVE  AnswersInv'
<1> DEFINE q == conn[c]
           url == Query(q.slot, q.block, q.got)
           later == q.failed \/ failure \/ (url[1] = "blocks" /\ body = Null)
           r == [pc |-> "ready", slot |-> q.slot, block |-> q.block, got |-> Append(q.got, body),
                 since |-> 0,
                 failed |-> later, known |-> q.known]
           a(word) == [pc |-> "answered", slot |-> r.slot, block |-> r.block,
                       word |-> word, failed |-> r.failed, known |-> r.known]
<1>1. AsksRight(q, now) /\ worker = "listening" /\ now \in Times
  BY DEF AnswersInv
<1>2. CacheRight(AfterSlotMap(q, url, body, cache), now)
  BY CacheAfterSlotMap
<1>3. now' = now /\ localTokens' = localTokens /\ CacheRight(responses', now')
  <2> HIDE DEF r
  <2> QED BY <1>2 DEF Proceed
<1>4. UNCHANGED persistent => Kept
  BY <1>1, <1>3, NetAssumption DEF Kept, AnswersInv
<1>5. /\ r.pc = "ready" /\ r.slot = q.slot /\ r.block = q.block
      /\ r.got = Append(q.got, body) /\ r.failed = later
  OBVIOUS
<1>6. Advances(q.slot, q.block, Append(q.got, body), body, later, now)
  <2>1. /\ q.slot \in Requests /\ q.slot[1] \in DOMAIN Route /\ q.block \in Blocks
        /\ Asks(q.slot, q.block, q.got, q.failed, now)
    BY <1>1 DEF AsksRight
  <2>2. (q.failed \/ failure => later) /\ (url[1] = "blocks" /\ body = Null => later)
    OBVIOUS
  <2> HIDE DEF r, later
  <2> QED BY <2>1, <2>2, AnyBody
<1>7. CASE ~Complete(r.slot, r.got) /\ conn' = [conn EXCEPT ![c] = r] /\ UNCHANGED <<worker, persistent>>
  <2> HIDE DEF later
  <2>1. AsksRight(r, now)
    <3> HIDE DEF r
    <3> QED BY <1>1, <1>5, <1>6, <1>7 DEF AsksRight, Advances
  <2> HIDE DEF r
  <2> QED BY <1>1, <1>3, <1>4, <1>5, <1>7, <2>1, AnswersStep
<1>8. ASSUME NEW word, Right(q.slot, q.block, word, later, now), Reply(c, r, word), worker' = worker, Kept
      PROVE  AnswersInv'
  <2>1. conn' = [conn EXCEPT ![c] = a(word)]
    BY <1>8 DEF Reply
  <2>2. /\ a(word).pc = "answered" /\ a(word).slot = q.slot /\ a(word).block = q.block
        /\ a(word).word = word /\ a(word).failed = later
    OBVIOUS
  <2> HIDE DEF a, later
  <2>3. AnswersRight(a(word), localTokens', now)
    BY <1>1, <1>8, <2>2, WordOfAnswer DEF AsksRight
  <2> QED BY <1>1, <1>3, <1>8, <2>1, <2>2, <2>3, AnswersStep
<1>9. CASE IsUri(r.slot) /\ body # Null /\ StoreUri(c, r, body.uri)
  <2>1. Right(q.slot, q.block, body.uri, later, now) /\ body.uri \in Uris
    BY <1>5, <1>6, <1>9 DEF Advances
  <2> HIDE DEF later
  <2>2. CASE UriIsStored(r)
    <3> HIDE DEF r
    <3> QED BY <1>4, <1>9, <2>2, AnswersThrow DEF StoreUri
  <2>3. CASE ~UriIsStored(r)
    <3>1. /\ persistent' = Put(persistent, UriKey(r), body.uri)
          /\ Reply(c, r, body.uri) /\ worker' = worker
      <4> HIDE DEF r
      <4> QED BY <1>9, <2>3 DEF StoreUri
    <3>2. \A k \in DOMAIN persistent' : persistent'[k] \in Uris
      <4> HIDE DEF r
      <4> QED BY <2>1, <3>1 DEF Put, AnswersInv
    <3>3. Kept
      BY <1>1, <1>3, <3>2, NetAssumption DEF Kept
    <3> QED BY <1>8, <2>1, <3>1, <3>3
  <2> QED BY <2>2, <2>3
<1>10. CASE Throw /\ UNCHANGED persistent
  BY <1>4, <1>10, AnswersThrow
<1>11. CASE /\ Complete(r.slot, r.got) /\ ~(IsUri(r.slot) /\ body # Null)
            /\ Reply(c, r, Answer(r.slot, r.got)) /\ UNCHANGED <<worker, persistent>>
  <2>1. Right(q.slot, q.block, Answer(q.slot, r.got), later, now)
    <3> HIDE DEF later, r
    <3> QED BY <1>5, <1>6, <1>11 DEF Advances
  <2> QED BY <1>4, <1>5, <1>8, <1>11, <2>1
<1> QED
  <2> HIDE DEF r
  <2> QED BY <1>7, <1>9, <1>10, <1>11 DEF Proceed, r

\* What is answered without a query: the code of an address that is known here,
\* what has no word in the Mirror Node, or a part of a stored URI.
LEMMA LocalAnswer ==
  ASSUME NEW a, a.slot \in Requests, a.block \in Blocks, KnownHere(a.slot),
         a.word = IF LocalCode(a.slot) THEN 1 ELSE 0, NEW time
  PROVE  AnswersRight(a, localTokens, time)
<1>1. a.slot[1] \notin Current /\ a.word \in Nat /\ (a.slot[1] \in Pinned => a.slot[1] = "code")
  BY DEF KnownHere, Current, Pinned
<1>2. ASSUME a.slot[1] = "code"
      PROVE  \/ a.word = Expected(a.slot, a.block)
             \/ a.word = 1 /\ a.slot[2] \in localTokens \ LocalAddresses
  <2>1. a.slot[2] \in NoCode \cup {HTSAddress} \cup localTokens
    BY <1>2 DEF KnownHere
  <2>2. HTSAddress # ConsoleAddress
    BY RequestAssumption
  <2> QED BY <1>2, <2>1, <2>2 DEF LocalCode, NoCode, Expected
<1> QED BY <1>1, <1>2 DEF AnswersRight

LEMMA StoredPart ==
  ASSUME AnswersInv, NEW a, a.slot \in Requests, a.block \in Blocks,
         a.slot[1] = "tokenURIChunk", a.word \in Uris, NEW time
  PROVE  AnswersRight(a, localTokens, time)
<1>1. a.slot[1] \notin Pinned \cup Current
  BY DEF Pinned, Current
<1>2. a.word \in Nat
  BY NetAssumption DEF Uris
<1> QED BY <1>1, <1>2 DEF AnswersRight

LEMMA RequestAnswers ==
  ASSUME Shaped, AnswersInv, NEW c \in Connections, NEW slot \in Requests,
         NEW block \in Blocks, Request(c, slot, block)
  PROVE  AnswersInv'
<1> DEFINE q == [pc |-> "ready", slot |-> slot, block |-> block, got |-> <<>>,
                 since |-> 0, failed |-> FALSE, known |-> KnowsUri(slot, block)]
           a(word) == [pc |-> "answered", slot |-> q.slot, block |-> q.block,
                       word |-> word, failed |-> q.failed, known |-> q.known]
<1>1. worker = "listening" /\ now' = now /\ UNCHANGED <<responses, persistent>>
  BY DEF Request
<1>2. Kept
  <2>1. now \in Times /\ CacheRight(responses, now) /\ \A k \in DOMAIN persistent : persistent[k] \in Uris
    BY DEF AnswersInv
  <2>2. localTokens \subseteq localTokens'
    BY DEF Request, Throw
  <2> QED BY <1>1, <2>1, <2>2, NetAssumption DEF Kept
<1>3. ASSUME NEW word, Reply(c, q, word), worker' = worker, AnswersRight(a(word), localTokens', now')
      PROVE  AnswersInv'
  <2>1. conn' = [conn EXCEPT ![c] = a(word)] /\ a(word).pc = "answered"
    BY <1>3 DEF Reply
  <2> HIDE DEF a
  <2> QED BY <1>1, <1>2, <1>3, <2>1, AnswersStep
<1>4. \A word : a(word).slot = slot /\ a(word).block = block /\ a(word).word = word
  OBVIOUS
<1>5. CASE slot[1] = "deployHIP719Proxy" /\ Reply(c, q, 0) /\ worker' = worker
  <2>1. slot[1] \notin Pinned \cup Current
    BY <1>5 DEF Pinned, Current
  <2>2. AnswersRight(a(0), localTokens', now')
    <3> HIDE DEF a
    <3> QED BY <1>4, <2>1 DEF AnswersRight
  <2> QED BY <1>3, <1>5, <2>2
<1>6. CASE /\ KnownHere(slot) /\ Reply(c, q, IF LocalCode(slot) THEN 1 ELSE 0)
           /\ UNCHANGED <<worker, localTokens>>
  <2> DEFINE word == IF LocalCode(slot) THEN 1 ELSE 0
  <2>1. AnswersRight(a(word), localTokens, now')
    <3> HIDE DEF a
    <3> QED BY <1>4, <1>6, LocalAnswer
  <2> QED BY <1>3, <1>6, <2>1
<1>7. CASE /\ slot[1] = "tokenURIChunk" /\ UriIsStored(q)
           /\ Reply(c, q, persistent[UriKey(q)]) /\ UNCHANGED <<worker, localTokens>>
  <2> DEFINE word == persistent[UriKey(q)]
  <2>1. word \in Uris
    BY <1>7 DEF UriIsStored, AnswersInv
  <2> HIDE DEF word
  <2>2. AnswersRight(a(word), localTokens, now')
    <3> HIDE DEF a
    <3> QED BY <1>4, <1>7, <2>1, StoredPart
  <2> QED BY <1>3, <1>7, <2>2 DEF word
<1>8. CASE Throw
  BY <1>2, <1>8, AnswersThrow
<1>9. CASE /\ slot[1] \notin {"deployHIP719Proxy", "invalid"} /\ ~KnownHere(slot)
           /\ conn' = [conn EXCEPT ![c] = q] /\ UNCHANGED worker
  <2>1. slot[1] \in DOMAIN Route
    <3>1. slot[1] \in Kinds
      BY RequestAssumption
    <3> QED BY <1>9, <3>1 DEF Kinds, KnownHere
  <2>2. slot[1] = "code" => slot[2] \notin NoCode \cup {HTSAddress}
    BY <1>9 DEF KnownHere
  <2>3. ~Complete(slot, <<>>) /\ Asks(slot, block, <<>>, FALSE, now')
    BY DEF Complete, Asks
  <2>4. AsksRight(q, now') /\ q.pc = "ready"
    BY <2>1, <2>2, <2>3 DEF AsksRight
  <2> HIDE DEF q
  <2> QED BY <1>1, <1>2, <1>9, <2>4, AnswersStep
<1> QED
  <2> HIDE DEF q
  <2> QED BY <1>5, <1>6, <1>7, <1>8, <1>9 DEF Request, q

LEMMA GetAnswers ==
  ASSUME Shaped, AnswersInv, NEW c \in Connections, Get(c)
  PROVE  AnswersInv'
<1> DEFINE q == conn[c]
           url == Query(q.slot, q.block, q.got)
<1>1. InFlight(c)
  BY DEF Get, InFlight
<1>2. CASE url \in DOMAIN responses /\ Proceed(c, q, responses[url], FALSE, responses)
  <2>1. CacheRight(responses, now) /\ Obtained(url, responses[url], FALSE, now)
    BY <1>2 DEF AnswersInv, CacheRight
  <2> QED BY <1>1, <1>2, <2>1, ProceedAnswers
<1>3. CASE /\ conn' = [conn EXCEPT ![c] = Fetching(conn[c])]
           /\ UNCHANGED <<worker, now, responses, persistent, localTokens>>
  <2> DEFINE r == Fetching(conn[c])
  <2>1. conn' = [conn EXCEPT ![c] = r]
    BY <1>3
  <2>2. /\ r.pc = "fetching" /\ r.slot = q.slot /\ r.block = q.block /\ r.got = q.got
        /\ r.failed = q.failed
    BY <1>1, FetchingIs
  <2>3. AsksRight(q, now) /\ worker = "listening"
    BY <1>1 DEF AnswersInv
  <2> HIDE DEF r
  <2>4. AsksRight(r, now)
    BY <2>2, <2>3 DEF AsksRight
  <2>5. Kept
    BY <1>3, NetAssumption DEF Kept, AnswersInv
  <2> QED BY <1>3, <2>1, <2>2, <2>3, <2>4, <2>5, AnswersStep
<1> QED BY <1>2, <1>3 DEF Get, Fetching

LEMMA FetchAnswers ==
  ASSUME Shaped, AnswersInv, NEW c \in Connections, Fetched(c) \/ FetchFailed(c)
  PROVE  AnswersInv'
<1> DEFINE q == conn[c]
           url == Query(q.slot, q.block, q.got)
<1>1. InFlight(c) /\ CacheRight(responses, now) /\ now \in Times
  BY DEF Fetched, FetchFailed, InFlight, AnswersInv
<1>2. CASE Fetched(c)
  <2>0. PICK i \in SoFar(now) :
           /\ ~Malformed(url)
           /\ Proceed(c, q, Serves(url, i), FALSE,
                      IF q.slot[1] \in Relayed THEN responses ELSE Put(responses, url, Serves(url, i)))
    BY <1>2, Zenon DEF Fetched, SoFar
  <2> DEFINE body == Serves(url, i)
             cache == IF q.slot[1] \in Relayed THEN responses ELSE Put(responses, url, body)
  <2>1. ~Malformed(url) /\ Proceed(c, q, body, FALSE, cache)
    BY <2>0
  <2>2. Known(url, body, now)
    BY <1>1, QueryShape, ServedIsKnown
  <2>3. Obtained(url, body, FALSE, now)
    BY <2>1, <2>2 DEF Obtained
  <2>4. CacheRight(cache, now)
    BY <1>1, <2>3, Cached
  <2> HIDE DEF body, cache
  <2> QED BY <1>1, <2>1, <2>3, <2>4, ProceedAnswers
<1>3. CASE FetchFailed(c)
  <2>1. Proceed(c, q, Null, TRUE, responses)
    BY <1>3 DEF FetchFailed
  <2>2. Obtained(url, Null, TRUE, now)
    BY DEF Obtained
  <2> QED BY <1>1, <2>1, <2>2, ProceedAnswers
<1> QED BY <1>2, <1>3

\* The worker starts or does not, or the network goes on.
LEMMA OtherAnswers ==
  ASSUME AnswersInv, UNCHANGED <<conn, responses, persistent, localTokens>>,
         now' \in Times, now <= now', worker' \in {"starting", "listening", "dead"},
         worker = "listening" => worker' = "listening"
  PROVE  AnswersInv'
<1>1. now \in Times /\ CacheRight(responses', now')
  BY CacheLater DEF AnswersInv
<1>2. ASSUME NEW c \in Connections, InFlight(c)'
      PROVE  AsksRight(conn'[c], now') /\ worker' = "listening"
  <2>1. AsksRight(conn[c], now) /\ worker = "listening"
    BY <1>2 DEF AnswersInv, InFlight
  <2> QED BY <1>1, <2>1, AsksLater
<1>3. ASSUME NEW c \in Connections, conn'[c].pc = "answered"
      PROVE  AnswersRight(conn'[c], localTokens', now')
  <2>1. AnswersRight(conn[c], localTokens, now)
    BY <1>3 DEF AnswersInv
  <2> QED BY <1>1, <2>1, AnswersLater
<1> QED BY <1>1, <1>2, <1>3 DEF AnswersInv

LEMMA AnswersInvNext ==
  ASSUME UriInv, AnswersInv, [Next]_vars
  PROVE  AnswersInv'
<1>0. Shaped
  BY DEF UriInv
<1>1. ASSUME NEW c \in Connections, NEW slot \in Requests, NEW block \in Blocks,
             Request(c, slot, block)
      PROVE  AnswersInv'
  BY <1>0, <1>1, RequestAnswers
<1>2. ASSUME NEW c \in Connections, Get(c) PROVE AnswersInv'
  BY <1>0, <1>2, GetAnswers
<1>3. ASSUME NEW c \in Connections, Fetched(c) \/ FetchFailed(c) PROVE AnswersInv'
  BY <1>0, <1>3, FetchAnswers
<1>4. CASE Listen \/ PortTaken \/ NetworkMoves \/ UNCHANGED vars
  <2>1. /\ now' \in Times /\ now <= now'
        /\ UNCHANGED <<conn, responses, persistent, localTokens>>
    BY <1>4, NetAssumption DEF Listen, PortTaken, NetworkMoves, vars, AnswersInv
  <2>2. /\ worker' \in {"starting", "listening", "dead"}
        /\ worker = "listening" => worker' = "listening"
    BY <1>4 DEF Listen, PortTaken, NetworkMoves, vars, AnswersInv
  <2> QED BY <2>1, <2>2, OtherAnswers
<1> QED BY <1>1, <1>2, <1>3, <1>4 DEF Next

\* What the worker keeps and answers has its type: a word is a number, and a
\* request in flight is not complete and does not outlive the worker.
THEOREM TypesCorrect == Spec => []TypeOK
<1>1. AnswersInv => TypeOK
  BY DEF AnswersInv, TypeOK, AsksRight, AnswersRight, InFlight
<1> QED BY <1>1, UriInvInit, UriInvNext, AnswersInvInit, AnswersInvNext, PTL DEF Spec

\* For every network and every schedule of requests, fetches and failures, an
\* answer that has a block is of that block.
THEOREM AnswersArePinned == Spec => []PinnedAnswers
<1>1. AnswersInv => PinnedAnswers
  <2> SUFFICES ASSUME AnswersInv, NEW c \in Connections, conn[c].pc = "answered",
                      conn[c].slot[1] \in Pinned
               PROVE  \/ conn[c].word = Expected(conn[c].slot, conn[c].block)
                      \/ conn[c].failed /\ conn[c].word \in Fallback(conn[c].slot, Net[conn[c].block])
                      \/ /\ conn[c].slot[1] = "code" /\ conn[c].word = 1
                         /\ conn[c].slot[2] \in localTokens \ LocalAddresses
    BY DEF PinnedAnswers, Answered
  <2> QED BY DEF AnswersInv, AnswersRight
<1> QED BY <1>1, UriInvInit, UriInvNext, AnswersInvInit, AnswersInvNext, PTL DEF Spec

\* ... and one that has none was right at some time until now.
THEOREM AnswersAreCurrent == Spec => []CurrentAnswers
<1>1. AnswersInv => CurrentAnswers
  <2> SUFFICES ASSUME AnswersInv, NEW c \in Connections, conn[c].pc = "answered",
                      conn[c].slot[1] \in Current,
                      ~(conn[c].failed /\ conn[c].word = 0)
               PROVE  \E i \in 0 .. now :
                         conn[c].word = View(conn[c].slot,
                                             [Net[i] EXCEPT !.accounts = Net[conn[c].block].accounts])
    BY DEF CurrentAnswers, Answered
  <2>1. PICK i \in SoFar(now) : conn[c].word = View(conn[c].slot, AsOf(conn[c].block, i))
    BY DEF AnswersInv, AnswersRight
  <2>2. i \in 0 .. now
    BY NetAssumption DEF SoFar, AnswersInv
  <2> QED BY <2>1, <2>2 DEF AsOf
<1> QED BY <1>1, UriInvInit, UriInvNext, AnswersInvInit, AnswersInvNext, PTL DEF Spec
=============================================================================
