--------------------------- MODULE HardhatFork_proofs ---------------------------
(***************************************************************************)
(* Proofs about HardhatFork, for any environments, processes, ports and    *)
(* user configurations.  The invariant: a port has one holder, a worker    *)
(* runs with the configuration that was loaded, and what was posted or     *)
(* resolved was so by a worker that had listened.                          *)
(***************************************************************************)
EXTENDS HardhatFork, TLAPS

States == {"none", "starting", "listening", "stopping", "dead"}
Port(e) == config[e].forking.workerPort

TypeInv == /\ config \in [Envs -> {Loaded(e) : e \in Envs} \cup {Null}]
           /\ worker \in [Envs -> States]
           /\ posted \in [Envs -> BOOLEAN]
           /\ promise \in [Envs -> {"none", "pending", "resolved"}]

LoadedOnce == \A e \in Envs : /\ config[e] # Null => config[e] = Loaded(e)
                              /\ worker[e] # "none" => config[e] = Loaded(e) /\ StartsWorker(e)
HasListened == \A e \in Envs : posted[e] \/ promise[e] = "resolved" =>
                  worker[e] \in {"listening", "stopping", "dead"}
OneHolder == \A v, w \in Envs : Holds(v) /\ Holds(w) /\ Port(v) = Port(w) => v = w

Inv == TypeInv /\ LoadedOnce /\ HasListened /\ OneHolder

-----------------------------------------------------------------------------
(* What a worker was started with.                                         *)

LEMMA StartedFork ==
    ASSUME NEW e \in Envs, StartsWorker(e)
    PROVE  LET f == Loaded(e).forking
           IN  /\ Has(f, "chainId") /\ f.url = f.workerPort
               /\ f.workerPort = WorkerPort(UserConfig[e].forking)
               /\ Emulates(UserConfig[e].forking)
<1> DEFINE user == UserConfig[e]
           g == [url |-> user.forking.url, chainId |-> user.forking.chainId,
                 workerPort |-> WorkerPort(user.forking)]
<1>1. Has(ExtendConfig(user).forking, "chainId")
  BY DEF StartsWorker, Starts
<1>2. user.forking # Null /\ Emulates(user.forking)
  <2>1. ExtendConfig(user).forking # Null /\ "chainId" \in DOMAIN ExtendConfig(user).forking
    BY <1>1 DEF Has
  <2>2. CASE user.forking = Null
    BY <2>1, <2>2 DEF ExtendConfig
  <2>3. CASE user.forking # Null /\ ~Emulates(user.forking)
    <3>1. ExtendConfig(user).forking = [url |-> user.forking.url]
      BY <2>3 DEF ExtendConfig
    <3> QED BY <2>1, <3>1
  <2> QED BY <2>2, <2>3
<1>3. ExtendConfig(user) = [chains |-> Chains(user.chains), forking |-> g]
  BY <1>2 DEF ExtendConfig
<1>4. Loaded(e).forking = [url |-> g.workerPort, chainId |-> g.chainId, workerPort |-> g.workerPort]
  BY <1>3 DEF Loaded, UrlOf
<1>5. Loaded(e).forking # Null
  BY NullAssumption
<1> QED BY <1>2, <1>4, <1>5 DEF Has

LEMMA NotStartedFork ==
    ASSUME NEW e \in Envs, ~Emulates(UserConfig[e].forking)
    PROVE  ~StartsWorker(e) /\ ~Has(Loaded(e).forking, "chainId")
<1>1. ~StartsWorker(e)
  BY StartedFork
<1>2. Loaded(e) = ExtendConfig(UserConfig[e])
  BY <1>1 DEF Loaded
<1>3. CASE UserConfig[e].forking = Null
  BY <1>1, <1>2, <1>3 DEF ExtendConfig, Has
<1>4. CASE UserConfig[e].forking # Null
  <2>1. Loaded(e).forking = [url |-> UserConfig[e].forking.url]
    BY <1>2, <1>4 DEF ExtendConfig
  <2> QED BY <1>1, <2>1 DEF Has
<1> QED BY <1>3, <1>4

-----------------------------------------------------------------------------
(* The invariant is inductive.                                             *)

LEMMA InvInit == Init => Inv
  BY DEF Init, Inv, TypeInv, LoadedOnce, HasListened, OneHolder, Holds, States

LEMMA LoadInv ==
    ASSUME Inv, NEW e \in Envs, Load(e)
    PROVE  Inv'
<1> USE DEF Inv
<1>1. worker[e] = "none" /\ Loaded(e) # Null
  BY NullAssumption DEF Load, LoadedOnce
<1>2. \A o \in Envs : Holds(o)' => o # e /\ Holds(o) /\ Port(o)' = Port(o)
  BY <1>1 DEF Load, Holds, Port, TypeInv
<1>3. OneHolder'
  BY <1>2 DEF OneHolder
<1>4. TypeInv'
  BY <1>1 DEF Load, TypeInv, States
<1>5. LoadedOnce'
  BY <1>1 DEF Load, TypeInv, LoadedOnce
<1>6. HasListened'
  BY <1>1 DEF Load, TypeInv, HasListened
<1> QED BY <1>3, <1>4, <1>5, <1>6

LEMMA ListensInv ==
    ASSUME Inv, NEW e \in Envs, Listens(e)
    PROVE  Inv'
<1> USE DEF Inv
<1>1. \A o \in Envs : Holds(o) => Port(o) # Port(e)
  BY DEF Listens, Owner, Port
<1>2. \A o \in Envs : (Holds(o)' => o = e \/ Holds(o)) /\ Port(o)' = Port(o)
  BY DEF Listens, Holds, Port, TypeInv
<1>3. OneHolder'
  BY <1>1, <1>2 DEF OneHolder
<1>4. TypeInv' /\ LoadedOnce' /\ HasListened'
  BY DEF Listens, TypeInv, States, LoadedOnce, HasListened
<1> QED BY <1>3, <1>4

\* The steps after which nobody holds a port that did not hold it before.
LEMMA EndInv ==
    ASSUME Inv, NEW e \in Envs, Fails(e) \/ Resolve(e) \/ Crash(e) \/ Terminate(e) \/ Stops(e)
    PROVE  Inv'
<1> USE DEF Inv
<1>1. \A o \in Envs : (Holds(o)' => Holds(o)) /\ Port(o)' = Port(o)
  BY DEF Fails, Resolve, Crash, Terminate, Stops, Holds, Port, TypeInv
<1>2. OneHolder'
  BY <1>1 DEF OneHolder
<1>3. TypeInv'
  BY DEF Fails, Resolve, Crash, Terminate, Stops, TypeInv, States
<1>4. LoadedOnce'
  BY DEF Fails, Resolve, Crash, Terminate, Stops, TypeInv, LoadedOnce
<1>5. HasListened'
  BY DEF Fails, Resolve, Crash, Terminate, Stops, TypeInv, HasListened
<1> QED BY <1>2, <1>3, <1>4, <1>5

LEMMA ExitInv ==
    ASSUME Inv, NEW p, Exit(p)
    PROVE  Inv'
<1> USE DEF Inv
<1>1. \A o \in Envs : (Holds(o)' => Holds(o)) /\ Port(o)' = Port(o)
  BY DEF Exit, Holds, Port
<1>2. OneHolder'
  BY <1>1 DEF OneHolder
<1>3. TypeInv' /\ LoadedOnce' /\ HasListened'
  BY DEF Exit, TypeInv, States, LoadedOnce, HasListened
<1> QED BY <1>2, <1>3

LEMMA InvNext == Inv /\ [Next]_vars => Inv'
<1> SUFFICES ASSUME Inv, [Next]_vars PROVE Inv'
  OBVIOUS
<1>1. CASE \E e \in Envs : Load(e)
  BY <1>1, LoadInv
<1>2. CASE \E e \in Envs : Listens(e)
  BY <1>2, ListensInv
<1>3. CASE \E e \in Envs : Fails(e) \/ Resolve(e) \/ Crash(e) \/ Terminate(e) \/ Stops(e)
  BY <1>3, EndInv
<1>4. CASE \E p \in {Process[e] : e \in Envs} : Exit(p)
  BY <1>4, ExitInv
<1>5. CASE (\E e \in Envs : Request(e)) \/ UNCHANGED vars
  <2>1. UNCHANGED <<config, worker, posted, promise>>
    BY <1>5 DEF Request, vars
  <2> QED BY <2>1 DEF Inv, TypeInv, LoadedOnce, HasListened, OneHolder, Holds, Port
<1> QED BY <1>1, <1>2, <1>3, <1>4, <1>5 DEF Next

LEMMA InvAlways == Spec => []Inv
  BY InvInit, InvNext, PTL DEF Spec

-----------------------------------------------------------------------------
(* Who answers.                                                            *)

\* A request goes to the port that its environment configured, or, without
\* emulation, to the relay.
LEMMA AsksPort ==
    ASSUME Inv, NEW e \in Envs, Request(e)
    PROVE  LET f == config[e].forking
           IN  IF Emulates(UserConfig[e].forking)
               THEN Has(f, "chainId") /\ f.url = Port(e)
                    /\ Port(e) = WorkerPort(UserConfig[e].forking)
               ELSE ~Has(f, "chainId")
<1>1. config[e] = Loaded(e) /\ UserConfig[e].network = "hardhat" /\ config[e].forking # Null
  BY DEF Request, Alive, Inv, LoadedOnce
<1>2. CASE ~Emulates(UserConfig[e].forking)
  BY <1>1, <1>2, NotStartedFork
<1>3. CASE Emulates(UserConfig[e].forking)
  <2>1. StartsWorker(e)
    <3> SUFFICES ASSUME ~StartsWorker(e) PROVE FALSE
      OBVIOUS
    <3>1. Loaded(e) = ExtendConfig(UserConfig[e])
      BY DEF Loaded
    <3>2. UserConfig[e].forking # Null
      BY <1>3 DEF Emulates, Has
    <3>3. "chainId" \in DOMAIN ExtendConfig(UserConfig[e]).forking
      BY <1>3, <3>2 DEF ExtendConfig
    <3> QED BY <1>1, <3>1, <3>3 DEF StartsWorker, Starts, Has
  <2> QED BY <1>1, <1>3, <2>1, StartedFork DEF Port
<1> QED BY <1>2, <1>3

LEMMA AnswererHolds ==
    ASSUME Inv, NEW e \in Envs, Request(e), Emulates(UserConfig[e].forking)
    PROVE  \E w : /\ answer' = [to |-> e, by |-> w,
                                awaited |-> promise[e] = "resolved"
                                            /\ worker[e] \in {"starting", "listening"}]
                  /\ \/ w = "refused"
                        /\ {v \in Owner(Port(e)) : worker[v] = "listening"} = {}
                     \/ w \in Owner(Port(e)) /\ worker[w] = "listening"
<1> DEFINE f == config[e].forking
           by == {v \in Owner(Port(e)) : worker[v] = "listening"}
<1>1. Has(f, "chainId") /\ f.url = Port(e)
  BY AsksPort
<1>2. PICK w \in IF by = {} THEN {"refused"} ELSE by :
         answer' = [to |-> e, by |-> w,
                    awaited |-> promise[e] = "resolved" /\ worker[e] \in {"starting", "listening"}]
  BY <1>1 DEF Request
<1> QED BY <1>2

LEMMA RequestOwn ==
    ASSUME Inv, NEW e \in Envs, Request(e)
    PROVE  OwnWorkerAnswers'
<1> SUFFICES ASSUME answer'.awaited PROVE answer'.by = answer'.to
  BY DEF OwnWorkerAnswers
<1>1. answer'.awaited = (promise[e] = "resolved" /\ worker[e] \in {"starting", "listening"})
      /\ answer'.to = e
  BY DEF Request
<1>2. worker[e] = "listening"
  BY <1>1 DEF Inv, HasListened
<1>3. Emulates(UserConfig[e].forking)
  BY <1>2, NotStartedFork DEF Inv, LoadedOnce
<1>4. PICK w : /\ answer' = [to |-> e, by |-> w,
                             awaited |-> promise[e] = "resolved"
                                         /\ worker[e] \in {"starting", "listening"}]
               /\ \/ w = "refused"
                     /\ {v \in Owner(Port(e)) : worker[v] = "listening"} = {}
                  \/ w \in Owner(Port(e)) /\ worker[w] = "listening"
  BY <1>3, AnswererHolds
<1>5. e \in Owner(Port(e))
  BY <1>2 DEF Owner, Holds, Port
<1>6. w \in Owner(Port(e))
  BY <1>2, <1>4, <1>5
<1>7. w = e
  BY <1>5, <1>6 DEF Owner, Port, Inv, OneHolder
<1> QED BY <1>4, <1>7

LEMMA RequestMixed ==
    ASSUME Inv, NEW e \in Envs, Request(e)
    PROVE  MixedOnlyBySharedPort'
<1>1. CASE Emulates(UserConfig[e].forking)
  <2>1. PICK w : /\ answer' = [to |-> e, by |-> w,
                               awaited |-> promise[e] = "resolved"
                                           /\ worker[e] \in {"starting", "listening"}]
                 /\ \/ w = "refused"
                       /\ {v \in Owner(Port(e)) : worker[v] = "listening"} = {}
                    \/ w \in Owner(Port(e)) /\ worker[w] = "listening"
    BY <1>1, AnswererHolds
  <2>2. answer'.to = e /\ answer'.by = w
    BY <2>1
  <2>3. CASE w = "refused"
    BY <1>1, <2>2, <2>3 DEF MixedOnlyBySharedPort, Emulates, HederaChains
  <2>4. CASE w \in Owner(Port(e)) /\ worker[w] = "listening"
    <3>1. w \in Envs /\ Port(w) = Port(e) /\ config[w] = Loaded(w) /\ StartsWorker(w)
      BY <2>4 DEF Owner, Port, Inv, LoadedOnce
    <3>2. Port(w) = WorkerPort(UserConfig[w].forking)
      BY <3>1, StartedFork DEF Port
    <3>3. Port(e) = WorkerPort(UserConfig[e].forking)
      BY <1>1, AsksPort
    <3> QED BY <1>1, <2>2, <3>1, <3>2, <3>3 DEF MixedOnlyBySharedPort, Emulates, HederaChains
  <2> QED BY <2>1, <2>3, <2>4
<1>2. CASE ~Emulates(UserConfig[e].forking)
  <2>1. ~Has(config[e].forking, "chainId")
    BY <1>2, AsksPort
  <2>2. answer'.to = e /\ answer'.by = "relay"
    BY <2>1 DEF Request
  <2> QED BY <1>2, <2>2 DEF MixedOnlyBySharedPort, Emulates, HederaChains
<1> QED BY <1>1, <1>2

LEMMA AnswersNext ==
    ASSUME Inv, [Next]_vars, OwnWorkerAnswers, MixedOnlyBySharedPort
    PROVE  OwnWorkerAnswers' /\ MixedOnlyBySharedPort'
<1>1. CASE \E e \in Envs : Request(e)
  BY <1>1, RequestOwn, RequestMixed
<1>2. CASE ~\E e \in Envs : Request(e)
  <2>1. UNCHANGED answer
    BY <1>2 DEF Next, vars, Load, Listens, Fails, Resolve, Crash, Terminate, Stops, Exit
  <2> QED BY <2>1 DEF OwnWorkerAnswers, MixedOnlyBySharedPort
<1> QED BY <1>1, <1>2

-----------------------------------------------------------------------------
(* Theorems.                                                               *)

\* A script that awaits hre.jsonRPCForwarder is answered by that worker as long
\* as it lives, whatever else runs on the machine and whatever ports it has.
THEOREM AwaitedIsOwn == Spec => []OwnWorkerAnswers
<1>1. Init => OwnWorkerAnswers /\ MixedOnlyBySharedPort
  BY DEF Init, OwnWorkerAnswers, MixedOnlyBySharedPort
<1>2. Inv /\ OwnWorkerAnswers /\ MixedOnlyBySharedPort /\ [Next]_vars
         => (OwnWorkerAnswers /\ MixedOnlyBySharedPort)'
  BY AnswersNext
<1> QED BY <1>1, <1>2, InvAlways, PTL DEF Spec

\* An environment is answered by another one's worker only on a port that both
\* configured, by its relay exactly if its chain has no Mirror Node.
THEOREM MixedBySharedPort == Spec => []MixedOnlyBySharedPort
<1>1. Init => OwnWorkerAnswers /\ MixedOnlyBySharedPort
  BY DEF Init, OwnWorkerAnswers, MixedOnlyBySharedPort
<1>2. Inv /\ OwnWorkerAnswers /\ MixedOnlyBySharedPort /\ [Next]_vars
         => (OwnWorkerAnswers /\ MixedOnlyBySharedPort)'
  BY AnswersNext
<1> QED BY <1>1, <1>2, InvAlways, PTL DEF Spec

\* Every configuration that was loaded knows the hardfork of every Hedera
\* chain, and the user's where the user chose one.
THEOREM HardforkKept == Spec => []HardforkOfUser
<1>1. Inv => HardforkOfUser
  <2> SUFFICES ASSUME Inv, NEW e \in Envs, config[e] # Null,
                      NEW id \in HederaChains \cup DOMAIN UserConfig[e].chains
               PROVE  /\ id \in DOMAIN config[e].chains
                      /\ id \in DOMAIN UserConfig[e].chains =>
                            config[e].chains[id] = UserConfig[e].chains[id]
    BY DEF HardforkOfUser
  <2>1. config[e] = Loaded(e)
    BY DEF Inv, LoadedOnce
  <2>2. config[e].chains = Chains(UserConfig[e].chains)
    BY <2>1 DEF Loaded, ExtendConfig
  <2> QED BY <2>2 DEF Chains
<1> QED BY <1>1, InvAlways, PTL
=============================================================================
