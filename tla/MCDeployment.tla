---------------------------- MODULE MCDeployment -----------------------------
(* Two runs of the scripts, with two wallets that join and one that stakes.  *)
EXTENDS DeploymentProperties

\* lit-core and lit-node for another owner; lit-node for the deployer itself,
\* with too few IP addresses or none; contracts only.
SomeConfigs ==
    { [core |-> TRUE,  handsOver |-> TRUE,  staffed |-> TRUE,  ips |-> "all"],
      [core |-> FALSE, handsOver |-> TRUE,  staffed |-> TRUE,  ips |-> "none"],
      [core |-> FALSE, handsOver |-> FALSE, staffed |-> TRUE,  ips |-> "joined"],
      [core |-> FALSE, handsOver |-> FALSE, staffed |-> FALSE, ips |-> "none"] }
=============================================================================
