------------------------ MODULE DeploymentProperties -------------------------
(* What a deployment that ends well leaves behind, whatever happened before. *)
EXTENDS Deployment

Phases == {"idle", "failed", "done", "resolver", "register", "roles", "deploy", "open",
           "resolve", "admin", "output", "fund", "lock", "handover", "configs",
           "wallets"} \cup WalletPhases

Parties == {Deployer, NewOwner, SubnetOwner}

DeployerTxs ==
    [op : {"setContract"}, resolver : Addresses, kind : Entries, to : Runs]
      \cup [op : {"grantRole", "renounceRole"}, register : Runs]

WalletTxs == [op : WalletPhases, wallet : Wallets, token : Runs, to : Runs]

\* Type correctness: no address is used before there is a contract at it, and
\* the phases and their steps stay within their bounds.
DeploymentTypeOK ==
    /\ run \in 0..MaxRuns /\ phase \in Phases /\ config \in ConfigType
    /\ step \in 1..(Len(DeployOrder) + Joined + StakedOnly)
    /\ contracts \in [Kinds -> Addresses] /\ existing \in [Kinds -> Addresses]
    /\ phase \in {"open", "resolve", "admin", "output", "fund", "lock", "handover", "done"}
                    \cup WalletPhases => contracts \in [Kinds -> Runs]
    /\ mempool \in Seq(DeployerTxs)
    /\ walletTxs \subseteq WalletTxs
    /\ owner \in [Kinds -> [Runs -> {NoOne, Deployer, NewOwner}]]
    /\ registerAdmins \in [Runs -> SUBSET Parties]
    /\ resolverAdmins \in [Addresses -> SUBSET Parties]
    /\ resolver \in [Addresses -> [Entries -> Addresses]]
    /\ resolverOf \in [Runs -> Addresses]
    /\ staking \in [Runs -> {"Paused", "Active", "NextValidatorSetLocked"}]
    /\ nextSet \in [Runs -> SUBSET Wallets]
    /\ approvals \subseteq Wallets \X Runs \X Runs
    /\ stakes \subseteq Wallets \X Runs
    /\ outputFile \in [Kinds -> Addresses]
    /\ networkContext \in [ContextKinds -> Addresses]
    /\ configsOf \in 0..MaxRuns /\ savedWallets \subseteq Wallets

\* The three records of a deployment name the same contracts when the script
\* has ended well: the output file, networkContext.json, and the resolver as
\* soon as the chain has caught up.  Neither an earlier run that died between
\* them nor its transactions that are mined late make a difference.
RecordsAgree ==
    phase = "done" =>
        /\ outputFile = contracts
        /\ \A k \in ContextKinds : networkContext[k] = contracts[k]
        /\ mempool = <<>> => \A k \in Kinds : resolver[resolverOf[run]][k] = contracts[k]

\* When the script has ended well each wallet it made can be used, and those
\* meant to are in a set of validators that is locked, with a stake where the
\* Staking of the deployment will look for it: though nobody waits for the
\* entries of the resolver, the validators' transactions find them.
ValidatorsCanRun ==
    (phase = "done" /\ config.staffed) =>
        LET s == contracts["Staking"]
        IN  /\ staking[s] = "NextValidatorSetLocked"
            /\ configsOf = run
            /\ \A i \in 1..(Joined + StakedOnly) :
                  /\ <<run, i>> \in savedWallets
                  /\ <<<<run, i>>, Lookup(s, "StakingBalances")>> \in stakes
                  /\ i <= Joined => <<run, i>> \in nextSet[s]
            /\ Lookup(s, "StakingBalances") = outputFile["StakingBalances"]
            /\ config.handsOver => owner["Staking"][s] = NewOwner

\* A release register that can be found is administered by its subnet owner,
\* although the deployer sends the grants, the entry of the resolver and its
\* own renouncement one after the other without waiting for any, and may die
\* in between.
RegisterHasOwner ==
    \A r \in Runs :
        resolver[r]["ReleaseRegister"] = r => SubnetOwner \in registerAdmins[r]

-----------------------------------------------------------------------------

\* Contracts are handed over by the run that deployed them, once its validators
\* are locked in; what an earlier run deployed and this one kept stays with the
\* owner it has, but for Staking.
Transferable(kind, at) ==
    /\ phase = "handover"
    /\ at = run \/ kind = "Staking"
    /\ staking[contracts["Staking"]] = "NextValidatorSetLocked"
    /\ \A i \in 1..Joined : <<run, i>> \in nextSet[contracts["Staking"]]

OwnershipMoves ==
    [][\A kind \in Kinds, at \in Runs :
          owner[kind][at] \in {owner'[kind][at], NoOne} \/ Transferable(kind, at)]_vars
=============================================================================
