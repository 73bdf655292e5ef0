--------------------------- MODULE MCHardhatFork ---------------------------
(* Four environments of two processes, for the model checker.              *)
EXTENDS HardhatFork, TLC

CONSTANTS e1, e2, e3, e4, p1, p2

\* e1 and e2 fork testnet on the default port in two processes, e3 shares the
\* process of e1 and asks for a port of its own with its own hardfork, and e4
\* forks a chain without a Mirror Node.
TwoProjects == (e1 :> p1) @@ (e2 :> p2) @@ (e3 :> p1) @@ (e4 :> p2)

NoChains == [id \in {} |-> ""]
UserConfigs ==
    (e1 :> [network |-> "hardhat", chains |-> NoChains,
            forking |-> [url |-> "relay", chainId |-> 296]]) @@
    (e2 :> [network |-> "hardhat", chains |-> NoChains,
            forking |-> [url |-> "relay", chainId |-> 295, workerPort |-> 1234]]) @@
    (e3 :> [network |-> "hardhat", chains |-> (296 :> "london"),
            forking |-> [url |-> "relay", chainId |-> 296, workerPort |-> 1235]]) @@
    (e4 :> [network |-> "hardhat", chains |-> NoChains,
            forking |-> [url |-> "relay", chainId |-> 1]])
=============================================================================
