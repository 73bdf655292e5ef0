------------------------------ MODULE HardhatFork ------------------------------
(***************************************************************************)
(* How Hardhat environments come to talk to a JSON-RPC Forwarder: the two  *)
(* hooks of the plugin (src/plugin/index.js), which run synchronously when *)
(* an environment is loaded, the worker they start (src/forwarder/index.js *)
(* and the end of json-rpc-forwarder.js), and EDR, which asks whoever      *)
(* listens on the port.  Environments of several processes, and several    *)
(* environments of one process, live on one machine.                       *)
(***************************************************************************)
EXTENDS Integers

CONSTANTS
    Envs,            \* Hardhat environments (hre)
    Process,         \* the operating system process of each
    UserConfig,      \* [network, chains, forking] that the user wrote
    WorkerMayCrash,  \* whether a request may end a worker (see Forwarder)
    Null

\* chains: chain id -> hardfork history; forking: Null, or a function of some
\* of "url", "chainId" and "workerPort".
ASSUME ConfigAssumption ==
    \A e \in Envs : LET f == UserConfig[e].forking IN f # Null => "url" \in DOMAIN f

VARIABLES
    config,    \* config[e]: the resolved configuration, Null before it is loaded
    worker,    \* "none", "starting", "listening", "stopping" or "dead"
    posted,    \* posted[e]: 'listening' is on its way to the main thread
    promise,   \* hre.jsonRPCForwarder: "none", "pending" or "resolved"
    answer,    \* history: who answered whom last, and whether it had been awaited
    exited     \* processes that are gone

vars == <<config, worker, posted, promise, answer, exited>>

HederaChains == 295 .. 298     \* those with a Mirror Node URL
DefaultPort == 1234
Has(f, k) == f # Null /\ k \in DOMAIN f
Alive(e) == config[e] # Null /\ Process[e] \notin exited

-----------------------------------------------------------------------------
(* extendConfig.                                                           *)

Overwritten(chains) ==    \* mutant
    [id \in DOMAIN chains \cup HederaChains |-> IF id \in HederaChains THEN "shanghai" ELSE chains[id]]
Chains(chains) ==
    [id \in DOMAIN chains \cup HederaChains |-> IF id \in DOMAIN chains THEN chains[id] ELSE "shanghai"]

WorkerPort(forking) == IF Has(forking, "workerPort") THEN forking.workerPort ELSE DefaultPort

AnyChain(forking) == Has(forking, "chainId")    \* mutant: without a Mirror Node URL
Emulates(forking) == Has(forking, "chainId") /\ forking.chainId \in HederaChains

\* The resolved forking has no chainId unless the plugin sets it.
ExtendConfig(user) ==
    [chains  |-> Chains(user.chains),
     forking |-> IF user.forking = Null THEN Null
                 ELSE IF Emulates(user.forking)
                 THEN [url |-> user.forking.url, chainId |-> user.forking.chainId,
                       workerPort |-> WorkerPort(user.forking)]
                 ELSE [url |-> user.forking.url]]

\* extendEnvironment: only if the selected network forks.
Starts(user, resolved) == user.network = "hardhat" /\ Has(resolved.forking, "chainId")
UrlOfDefault(forking) == DefaultPort      \* mutant
UrlOf(forking) == forking.workerPort      \* http://127.0.0.1:<port>

StartsWorker(e) == Starts(UserConfig[e], ExtendConfig(UserConfig[e]))
Loaded(e) ==
    LET resolved == ExtendConfig(UserConfig[e])
        f == resolved.forking
    IN  IF StartsWorker(e)
        THEN [chains |-> resolved.chains,
              forking |-> [url |-> UrlOf(f), chainId |-> f.chainId, workerPort |-> f.workerPort]]
        ELSE resolved

ASSUME NullAssumption ==
    \A e \in Envs : Loaded(e) # Null /\ (StartsWorker(e) => Loaded(e).forking # Null)

Load(e) ==
    /\ config[e] = Null /\ Process[e] \notin exited
    /\ config' = [config EXCEPT ![e] = Loaded(e)]
    /\ worker' = [worker EXCEPT ![e] = IF StartsWorker(e) THEN "starting" ELSE @]
    /\ promise' = [promise EXCEPT ![e] = IF StartsWorker(e) THEN "pending" ELSE @]
    /\ UNCHANGED <<posted, answer, exited>>

-----------------------------------------------------------------------------
(* The worker.  The operating system gives a port to one of them.          *)

Holds(w) == worker[w] \in {"listening", "stopping"}
Owner(port) == {w \in Envs : Holds(w) /\ config[w].forking.workerPort = port}

Listens(e) ==
    /\ Alive(e) /\ worker[e] = "starting"
    /\ Owner(config[e].forking.workerPort) = {}
    /\ worker' = [worker EXCEPT ![e] = "listening"]
    /\ posted' = [posted EXCEPT ![e] = TRUE]
    /\ UNCHANGED <<config, promise, answer, exited>>

RetriesForEver(e) ==    \* mutant
    /\ Alive(e) /\ worker[e] = "starting"
    /\ Owner(config[e].forking.workerPort) # {}
    /\ UNCHANGED vars

\* The 'error' of the server ends the worker; the main thread logs it.
Fails(e) ==
    /\ Alive(e) /\ worker[e] = "starting"
    /\ Owner(config[e].forking.workerPort) # {}
    /\ worker' = [worker EXCEPT ![e] = "dead"]
    /\ UNCHANGED <<config, posted, promise, answer, exited>>

ResolveWhenStarted(e) ==    \* mutant: on 'online' and not on 'listening'
    /\ Alive(e) /\ promise[e] = "pending"
    /\ promise' = [promise EXCEPT ![e] = "resolved"]
    /\ UNCHANGED <<config, worker, posted, answer, exited>>

Resolve(e) ==
    /\ Alive(e) /\ posted[e] /\ promise[e] = "pending"
    /\ promise' = [promise EXCEPT ![e] = "resolved"]
    /\ posted' = [posted EXCEPT ![e] = FALSE]
    /\ UNCHANGED <<config, worker, answer, exited>>

Crash(e) ==
    /\ WorkerMayCrash /\ Alive(e) /\ worker[e] = "listening"
    /\ worker' = [worker EXCEPT ![e] = "dead"]
    /\ UNCHANGED <<config, posted, promise, answer, exited>>

\* External: the user stops a worker that the promise gave, without waiting.
Terminate(e) ==
    /\ Alive(e) /\ promise[e] = "resolved" /\ worker[e] = "listening"
    /\ worker' = [worker EXCEPT ![e] = "stopping"]
    /\ UNCHANGED <<config, posted, promise, answer, exited>>
Stops(e) ==
    /\ Alive(e) /\ worker[e] = "stopping"
    /\ worker' = [worker EXCEPT ![e] = "dead"]
    /\ UNCHANGED <<config, posted, promise, answer, exited>>

\* worker.unref: a process ends with its workers.
Exit(p) ==
    /\ p \notin exited
    /\ exited' = exited \cup {p}
    /\ worker' = [e \in Envs |-> IF Process[e] = p /\ worker[e] # "none" THEN "dead" ELSE worker[e]]
    /\ UNCHANGED <<config, posted, promise, answer>>

-----------------------------------------------------------------------------
(* External: EDR asks forking.url; nobody may be there, and the request is *)
(* refused.                                                                *)

Request(e) ==
    /\ Alive(e) /\ UserConfig[e].network = "hardhat" /\ config[e].forking # Null
    /\ LET f  == config[e].forking
           by == IF Has(f, "chainId") THEN {w \in Owner(f.url) : worker[w] = "listening"} ELSE {"relay"}
           awaited == promise[e] = "resolved" /\ worker[e] \in {"starting", "listening"}
       IN  \E w \in IF by = {} THEN {"refused"} ELSE by :
               answer' = [to |-> e, by |-> w, awaited |-> awaited]
    /\ UNCHANGED <<config, worker, posted, promise, exited>>

Init == /\ config = [e \in Envs |-> Null]
        /\ worker = [e \in Envs |-> "none"]
        /\ posted = [e \in Envs |-> FALSE]
        /\ promise = [e \in Envs |-> "none"]
        /\ answer = Null
        /\ exited = {}

Next == \/ \E e \in Envs : \/ Load(e) \/ Listens(e) \/ Fails(e) \/ Resolve(e) \/ Crash(e)
                           \/ Terminate(e) \/ Stops(e) \/ Request(e)
        \/ \E p \in {Process[e] : e \in Envs} : Exit(p)

Spec == Init /\ [][Next]_vars

\* Threads that start or stop do so, and the main thread takes its messages.
Fairness == \A e \in Envs : WF_vars(Listens(e) \/ Fails(e)) /\ WF_vars(Resolve(e)) /\ WF_vars(Stops(e))
FairSpec == Spec /\ Fairness

-----------------------------------------------------------------------------
(* Properties.                                                             *)

\* A script that awaits hre.jsonRPCForwarder, and whose worker nobody stopped
\* and nothing ended since, is answered by that worker: not refused, and not
\* answered by the worker of another environment on the same port.
OwnWorkerAnswers == answer # Null /\ answer.awaited => answer.by = answer.to

\* An environment is answered by the worker of another one only where the two
\* configured one port; one that forks a chain without a Mirror Node URL is
\* answered by its own relay, one that forks Hedera never is.
MixedOnlyBySharedPort ==
    answer # Null =>
        LET f == UserConfig[answer.to].forking
        IN  IF ~Has(f, "chainId") \/ f.chainId \notin 295 .. 298 THEN answer.by = "relay"
            ELSE \/ answer.by = "refused"
                 \/ /\ answer.by \in Envs
                    /\ WorkerPort(UserConfig[answer.by].forking) = WorkerPort(f)

\* No environment forks a chain whose hardfork EDR does not know, and the
\* hardfork the user chose for a Hedera network is the one that runs.
HardforkOfUser ==
    \A e \in Envs : config[e] # Null =>
        LET user == UserConfig[e].chains
        IN  \A id \in HederaChains \cup DOMAIN user :
                /\ id \in DOMAIN config[e].chains
                /\ id \in DOMAIN user => config[e].chains[id] = user[id]

\* Whoever awaits the forwarder gets it while the process lives, unless the
\* port was configured by another environment too: then the worker may end,
\* and the promise stays pending without an error.
Alone(e) == \A o \in Envs \ {e} :
    LET f == UserConfig[o].forking
    IN  f = Null \/ ~Emulates(f) \/ WorkerPort(f) # WorkerPort(UserConfig[e].forking)
EmulationStarts ==
    \A e \in Envs :
        promise[e] = "pending" ~> \/ promise[e] = "resolved" \/ Process[e] \in exited
                                  \/ worker[e] = "dead" /\ ~Alone(e)
=============================================================================
