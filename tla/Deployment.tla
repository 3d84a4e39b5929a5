------------------------------ MODULE Deployment -----------------------------
(***************************************************************************)
(* The scripts that deploy a network (scripts/deployWithConfig.ts and what *)
(* it calls): optionally the two lit-core contracts; the lit-node          *)
(* contracts; their entries in the ContractResolver; the wallets of the    *)
(* first validators, which stake, join and are locked in; the handover of  *)
(* the contracts to the owner; the files the operator is left with.        *)
(*                                                                         *)
(* The script may die at any moment (any exception ends it), which loses   *)
(* what it has in memory; the operator may then run it again, with the     *)
(* contracts of the last output file as the existing ones or without.      *)
(*                                                                         *)
(* An address is abstracted to the number of the run that deployed the     *)
(* contract.  The deployer's transactions are mined in the order of their  *)
(* nonces, so a transaction it waits for is mined after all it sent        *)
(* before: it is one step, taken when the mempool is empty.  Those that    *)
(* the scripts do not wait for go through the mempool.  The validators'    *)
(* transactions have senders of their own and are mined in any order.      *)
(***************************************************************************)
EXTENDS Naturals, FiniteSets, Sequences, SequencesExt

CONSTANTS
    MaxRuns,                   \* bound: runs of the script
    Configs,                   \* the deploy configurations the operator may use
    Joined, StakedOnly,        \* numbers of wallets that join, that only stake
    MinimumValidatorCount,
    Deployer, NewOwner, SubnetOwner, NoOne

Runs == 1..MaxRuns
NoContract == 0                \* also the resolver that was there before
Addresses == 0..MaxRuns

\* core: lit-core is deployed as well, and its resolver used; handsOver: the
\* new owner is not the deployer; staffed: the numbers of wallets are those
\* above and not zero; ips: how many IP addresses are given.
ConfigType == [core : BOOLEAN, handsOver : BOOLEAN, staffed : BOOLEAN,
               ips : {"none", "joined", "all"}]

ASSUME DeploymentAssumption ==
    /\ MaxRuns \in Nat
    /\ Configs \subseteq ConfigType
    /\ Joined \in Nat /\ StakedOnly \in Nat /\ Joined + StakedOnly > 0
    /\ MinimumValidatorCount \in Nat
    /\ Deployer \notin {NewOwner, SubnetOwner}
    /\ NoOne \notin {Deployer, NewOwner, SubnetOwner}

DeployOrder ==
    << "LITToken", "StakingBalances", "Staking", "Allowlist", "PKPNFT",
       "RateLimitNFT", "PubkeyRouter", "Multisender", "PKPNFTMetadata",
       "DomainWalletRegistry", "PKPPermissions", "PKPHelper", "PKPHelperV2",
       "KeyDeriver", "BackupRecovery", "PaymentDelegation" >>

Kinds == ToSet(DeployOrder)
Entries == Kinds \cup {"ReleaseRegister"}

\* A mutated form: an entry is forgotten.
ResolveOrderButOne ==
    << "LITToken", "Multisender", "RateLimitNFT", "PubkeyRouter", "PKPHelper",
       "PKPPermissions", "PKPNFTMetadata", "PKPNFT", "Allowlist",
       "DomainWalletRegistry", "KeyDeriver", "BackupRecovery", "Staking",
       "StakingBalances", "PaymentDelegation" >>

ResolveOrder ==
    << "LITToken", "Multisender", "RateLimitNFT", "PubkeyRouter", "PKPHelper",
       "PKPHelperV2", "PKPPermissions", "PKPNFTMetadata", "PKPNFT",
       "Allowlist", "DomainWalletRegistry", "KeyDeriver", "BackupRecovery",
       "Staking", "StakingBalances", "PaymentDelegation" >>

\* networkContext.json, written between the transactions to the resolver.
ContextKinds ==
    { "Allowlist", "LITToken", "Multisender", "PKPHelper", "PKPNFT",
      "PKPNFTMetadata", "PKPPermissions", "PubkeyRouter", "RateLimitNFT",
      "Staking", "StakingBalances" }
WritesContextAfter == "Allowlist"

\* Those whose address in an output file is found when the file is given as
\* the existing contracts.  LITToken and Allowlist are not looked up; for the
\* others the table of names has no key, or one that output files do not use.
FoundAgain ==
    { "Staking", "PKPNFT", "RateLimitNFT", "PubkeyRouter", "Multisender",
      "PKPNFTMetadata", "DomainWalletRegistry", "PKPPermissions", "PKPHelper" }

HandoverOrder ==
    << "Allowlist", "Staking", "RateLimitNFT", "PubkeyRouter", "Multisender",
       "PKPPermissions", "PKPHelper", "PKPNFT", "DomainWalletRegistry" >>

Wallets == Runs \X (1..(Joined + StakedOnly))
NoContracts == [k \in Kinds |-> NoContract]

VARIABLES
    \* the script
    run, phase, step,
    config,
    existing,                  \* existingContracts of the configuration
    resolverOf,                \* run -> the resolver its contracts consult
    contracts,                 \* the contracts of the run, in memory
    \* the chain
    mempool,                   \* transactions of the deployer nobody waits for
    walletTxs,                 \* those of the validators
    owner,                     \* kind and address -> owner or admin
    registerAdmins,            \* address of a ReleaseRegister -> its ADMINs
    resolverAdmins,            \* address of a resolver -> its ADMINs
    resolver,                  \* address of a resolver -> its entries
    staking,                   \* address of a Staking -> its state
    nextSet,                   \* address of a Staking -> wallets that joined
    approvals,                 \* wallet, token, spender
    stakes,                    \* wallet, StakingBalances
    \* the files
    outputFile, networkContext,
    configsOf,                 \* the run whose node configurations are saved
    savedWallets

runVars == <<run, config, existing, resolverOf>>
txVars == <<mempool, walletTxs>>
coreVars == <<registerAdmins, resolverAdmins, resolver>>
stakingVars == <<staking, nextSet, approvals, stakes>>
fileVars == <<outputFile, networkContext, configsOf, savedWallets>>
vars == <<phase, step, contracts, runVars, txVars, owner, coreVars, stakingVars,
          fileVars>>

Init ==
    /\ run = 0 /\ phase = "idle" /\ step = 1
    /\ config \in Configs
    /\ existing = NoContracts
    /\ resolverOf = [r \in Runs |-> 0]
    /\ contracts = NoContracts
    /\ mempool = <<>> /\ walletTxs = {}
    /\ owner = [k \in Kinds |-> [r \in Runs |-> NoOne]]
    /\ registerAdmins = [r \in Runs |-> {}]
    /\ resolverAdmins = [r \in Addresses |-> IF r = 0 THEN {Deployer} ELSE {}]
    /\ resolver = [r \in Addresses |-> [k \in Entries |-> NoContract]]
    /\ staking = [r \in Runs |-> "Paused"]
    /\ nextSet = [r \in Runs |-> {}]
    /\ approvals = {} /\ stakes = {}
    /\ outputFile = NoContracts
    /\ networkContext = [k \in ContextKinds |-> NoContract]
    /\ configsOf = 0
    /\ savedWallets = {}

-----------------------------------------------------------------------------
(* The script's control.                                                    *)

Goto(next) == phase' = next /\ step' = 1

\* A mutated form: the last step is left out.
GoOnOneLess(last, next) ==
    IF step = last - 1 THEN Goto(next) ELSE phase' = phase /\ step' = step + 1

GoOn(last, next) == IF step = last THEN Goto(next) ELSE phase' = phase /\ step' = step + 1

\* A transaction the script waits for: all it sent before are mined.
InTurn == mempool = <<>>
Send(tx) == mempool' = Append(mempool, tx) /\ UNCHANGED walletTxs

\* The operator starts the script: the existing contracts are none or those of
\* the output file there is; the resolver, unless one is deployed, any so far.
Begin(c, kept, r) ==
    /\ phase \in {"idle", "failed", "done"}
    /\ run < MaxRuns
    /\ resolverAdmins[r] # {}
    /\ run' = run + 1
    /\ config' = c
    /\ existing' = kept
    /\ resolverOf' = [resolverOf EXCEPT ![run'] = IF c.core THEN run' ELSE r]
    /\ contracts' = NoContracts
    /\ Goto(IF c.core THEN "resolver" ELSE "deploy")
    /\ UNCHANGED <<txVars, owner, coreVars, stakingVars, fileVars>>

\* An exception ends the script, and so does the end of its machine.
Fail ==
    /\ phase \notin {"idle", "failed", "done"}
    /\ Goto("failed")
    /\ contracts' = NoContracts
    /\ UNCHANGED <<runVars, txVars, owner, coreVars, stakingVars, fileVars>>

-----------------------------------------------------------------------------
(* deployLitCore.ts: deployLitCoreContracts.                                *)

DeployResolver ==
    /\ phase = "resolver" /\ InTurn
    /\ resolverAdmins' = [resolverAdmins EXCEPT ![run] = {Deployer}]
    /\ Goto("register")
    /\ UNCHANGED <<contracts, runVars, txVars, owner, registerAdmins, resolver,
                   stakingVars, fileVars>>

DeployRegister ==
    /\ phase = "register" /\ InTurn
    /\ registerAdmins' = [registerAdmins EXCEPT ![run] = {Deployer}]
    /\ Goto("roles")
    /\ UNCHANGED <<contracts, runVars, txVars, owner, resolverAdmins, resolver,
                   stakingVars, fileVars>>

Grant == [op |-> "grantRole", register |-> run]
Publish == [op |-> "setContract", resolver |-> run, kind |-> "ReleaseRegister", to |-> run]
Renounce == [op |-> "renounceRole", register |-> run]

\* A mutated form: the deployer renounces before it has granted.
CoreOrderRenounceFirst == <<Renounce, Grant, Publish>>

CoreOrder == <<Grant, Publish, Renounce>>

\* Sent one after the other; nobody waits for them to be mined.
SendCore ==
    /\ phase = "roles"
    /\ Send(CoreOrder[step])
    /\ GoOn(Len(CoreOrder), "deploy")
    /\ UNCHANGED <<contracts, runVars, owner, coreVars, stakingVars, fileVars>>

-----------------------------------------------------------------------------
(* deploy_lit_node_contracts.js: deployLitNodeContracts.                    *)

\* contractAddressAlreadyExists
Kept(kind) == IF kind \in FoundAgain THEN existing[kind] ELSE NoContract

\* getOrDeployContract
Deploy ==
    LET kind == DeployOrder[step]
    IN  /\ phase = "deploy" /\ InTurn
        /\ IF Kept(kind) # NoContract
           THEN /\ contracts' = [contracts EXCEPT ![kind] = Kept(kind)]
                /\ UNCHANGED owner
           ELSE /\ contracts' = [contracts EXCEPT ![kind] = run]
                /\ owner' = [owner EXCEPT ![kind][run] = Deployer]
        /\ GoOn(Len(DeployOrder), "open")
        /\ UNCHANGED <<runVars, txVars, coreVars, stakingVars, fileVars>>

\* setEpochState(0), whatever the state: only the owner of Staking may.
OpenStaking ==
    /\ phase = "open" /\ InTurn
    /\ owner["Staking"][contracts["Staking"]] = Deployer
    /\ staking' = [staking EXCEPT ![contracts["Staking"]] = "Active"]
    /\ Goto("resolve")
    /\ UNCHANGED <<contracts, runVars, txVars, owner, coreVars, nextSet, approvals,
                   stakes, fileVars>>

SetContract(kind) ==
    [op |-> "setContract", resolver |-> resolverOf[run], kind |-> kind,
     to |-> contracts[kind]]

\* The entries of the resolver are sent one after the other, none is waited
\* for; networkContext.json is written in between.
Resolve ==
    LET kind == ResolveOrder[step]
    IN  /\ phase = "resolve"
        /\ Send(SetContract(kind))
        /\ networkContext' =
             IF kind = WritesContextAfter
             THEN [k \in ContextKinds |-> contracts[k]] ELSE networkContext
        /\ GoOn(Len(ResolveOrder), "admin")
        /\ UNCHANGED <<contracts, runVars, owner, coreVars, stakingVars, outputFile,
                       configsOf, savedWallets>>

\* A new owner becomes an admin of the resolver, and this one is waited for.
AddAdmin ==
    /\ phase = "admin"
    /\ IF config.handsOver
       THEN /\ InTurn
            /\ resolverAdmins' = [resolverAdmins EXCEPT ![resolverOf[run]] = @ \cup {NewOwner}]
       ELSE UNCHANGED resolverAdmins
    /\ Goto("output")
    /\ UNCHANGED <<contracts, runVars, txVars, owner, registerAdmins, resolver,
                   stakingVars, fileVars>>

\* fundAndStakeNodes.ts reads the file at once, and returns if there are no
\* wallets to stake.
WriteOutput ==
    /\ phase = "output"
    /\ outputFile' = contracts
    /\ Goto(IF config.staffed THEN "fund" ELSE "configs")
    /\ UNCHANGED <<contracts, runVars, txVars, owner, coreVars, stakingVars,
                   networkContext, configsOf, savedWallets>>

-----------------------------------------------------------------------------
(* fundAndStakeNodes.ts: the wallets are generated, and exist in memory     *)
(* only; each phase sends their transactions, then waits for all of them.   *)

\* fundWalletsWithGas, fundWalletsWithTokens
Fund ==
    /\ phase = "fund" /\ InTurn
    /\ Goto("approve")
    /\ UNCHANGED <<contracts, runVars, txVars, owner, coreVars, stakingVars, fileVars>>

WalletPhases == {"approve", "stake", "join"}
After == [approve |-> "stake", stake |-> "join", join |-> "lock"]
Number(op) == IF op = "join" THEN Joined ELSE Joined + StakedOnly

SendWalletTx ==
    /\ phase \in WalletPhases
    /\ step <= Number(phase)
    /\ walletTxs' = walletTxs \cup
         {[op |-> phase, wallet |-> <<run, step>>, token |-> contracts["LITToken"],
           to |-> IF phase = "approve" THEN contracts["StakingBalances"]
                                       ELSE contracts["Staking"]]}
    /\ step' = step + 1
    /\ UNCHANGED <<phase, contracts, runVars, mempool, owner, coreVars, stakingVars,
                   fileVars>>

\* The receipt of a transaction that was not reverted.
IsMined(op, w) ==
    \/ op = "approve" /\ \E k, t \in Runs : <<w, k, t>> \in approvals
    \/ op = "stake" /\ \E b \in Runs : <<w, b>> \in stakes
    \/ op = "join" /\ w \in nextSet[contracts["Staking"]]

\* A mutated form: the script goes on when all are sent.
AllSent == step > Number(phase)

AllMined == \A i \in 1..Number(phase) : IsMined(phase, <<run, i>>)

AwaitWalletTxs ==
    /\ phase \in WalletPhases
    /\ step > Number(phase)
    /\ AllMined
    /\ Goto(After[phase])
    /\ UNCHANGED <<contracts, runVars, txVars, owner, coreVars, stakingVars, fileVars>>

MayLock(s) ==
    /\ staking[s] = "Active"
    /\ Cardinality(nextSet[s]) >= MinimumValidatorCount

Lock(s) ==
    /\ MayLock(s)
    /\ staking' = [staking EXCEPT ![s] = "NextValidatorSetLocked"]
    /\ UNCHANGED <<nextSet, approvals, stakes>>

\* The length of the epochs is set after, by the owner of Staking.
LockValidatorSet ==
    /\ phase = "lock" /\ InTurn
    /\ Lock(contracts["Staking"])
    /\ owner["Staking"][contracts["Staking"]] = Deployer
    /\ Goto(IF config.handsOver THEN "handover" ELSE "configs")
    /\ UNCHANGED <<contracts, runVars, txVars, owner, coreVars, fileVars>>

\* A mutated form: existing contracts are transferred, too.
HandsOverAll(kind) == TRUE

\* transferOwnershipIfNotAlreadyExist; Allowlist and Staking are always
\* transferred.
HandsOver(kind) == kind \in {"Allowlist", "Staking"} \/ Kept(kind) = NoContract

\* transferContractsOwnership
HandOver ==
    LET kind == HandoverOrder[step]
        at == contracts[kind]
    IN  /\ phase = "handover" /\ InTurn
        /\ IF HandsOver(kind)
           THEN /\ owner[kind][at] = Deployer
                /\ owner' = [owner EXCEPT ![kind][at] = NewOwner]
           ELSE UNCHANGED owner
        /\ GoOn(Len(HandoverOrder), "configs")
        /\ UNCHANGED <<contracts, runVars, txVars, coreVars, stakingVars, fileVars>>

-----------------------------------------------------------------------------
(* postDeploy.ts.                                                           *)

\* saveConfigFiles throws unless each wallet has an IP address, or none has.
SaveConfigs ==
    /\ phase = "configs"
    /\ config.staffed /\ config.ips = "joined" => StakedOnly = 0
    /\ configsOf' = IF config.staffed THEN run ELSE configsOf
    /\ Goto("wallets")
    /\ UNCHANGED <<contracts, runVars, txVars, owner, coreVars, stakingVars,
                   outputFile, networkContext, savedWallets>>

SaveWallets ==
    /\ phase = "wallets"
    /\ savedWallets' =
         IF config.staffed THEN savedWallets \cup {w \in Wallets : w[1] = run}
                           ELSE savedWallets
    /\ Goto("done")
    /\ UNCHANGED <<contracts, runVars, txVars, owner, coreVars, stakingVars,
                   outputFile, networkContext, configsOf>>

-----------------------------------------------------------------------------
(* The chain.                                                               *)

\* A transaction its sender may not make is reverted, and nobody sees it.
Execute(tx) ==
    \/ /\ tx.op = "setContract" /\ Deployer \in resolverAdmins[tx.resolver]
       /\ resolver' = [resolver EXCEPT ![tx.resolver][tx.kind] = tx.to]
       /\ UNCHANGED <<registerAdmins, resolverAdmins>>
    \/ /\ tx.op = "grantRole" /\ Deployer \in registerAdmins[tx.register]
       /\ registerAdmins' = [registerAdmins EXCEPT ![tx.register] = @ \cup {SubnetOwner}]
       /\ UNCHANGED <<resolverAdmins, resolver>>
    \/ /\ tx.op = "renounceRole"
       /\ registerAdmins' = [registerAdmins EXCEPT ![tx.register] = @ \ {Deployer}]
       /\ UNCHANGED <<resolverAdmins, resolver>>
    \/ /\ tx.op = "grantRole" /\ Deployer \notin registerAdmins[tx.register]
       /\ UNCHANGED coreVars

Mine ==
    /\ mempool # <<>>
    /\ Execute(Head(mempool))
    /\ mempool' = Tail(mempool)
    /\ UNCHANGED <<phase, step, contracts, runVars, walletTxs, owner, stakingVars,
                   fileVars>>

\* What a contract finds in its resolver; no run is the resolver's from before.
Lookup(r, kind) == resolver[resolverOf[r]][kind]

\* The StakingBalances that a Staking finds, if that one finds it back.
BalancesOf(s) ==
    {b \in Runs : b = Lookup(s, "StakingBalances") /\ Lookup(b, "Staking") = s}

MineWalletTx(tx) ==
    /\ tx \in walletTxs
    /\ walletTxs' = walletTxs \ {tx}
    /\ \/ /\ tx.op = "approve"
          /\ approvals' = approvals \cup {<<tx.wallet, tx.token, tx.to>>}
          /\ UNCHANGED <<stakes, nextSet>>
       \/ /\ tx.op = "stake"
          /\ stakes' = stakes \cup
               {<<tx.wallet, b>> : b \in {x \in BalancesOf(tx.to) :
                   <<tx.wallet, Lookup(x, "LITToken"), x>> \in approvals}}
          /\ UNCHANGED <<approvals, nextSet>>
       \/ /\ tx.op = "join"
          /\ nextSet' =
               IF /\ staking[tx.to] \in {"Active", "Paused"}
                  /\ <<tx.wallet, Lookup(tx.to, "StakingBalances")>> \in stakes
               THEN [nextSet EXCEPT ![tx.to] = @ \cup {tx.wallet}]
               ELSE nextSet
          /\ UNCHANGED <<approvals, stakes>>
    /\ UNCHANGED <<phase, step, contracts, runVars, mempool, owner, coreVars, staking,
                   fileVars>>

\* lockValidatorsForNextEpoch may be called by anyone.
LockedByAnyone(s) ==
    /\ Lock(s)
    /\ UNCHANGED <<phase, step, contracts, runVars, txVars, owner, coreVars, fileVars>>

ScriptNext ==
    \/ DeployResolver \/ DeployRegister \/ SendCore
    \/ Deploy \/ OpenStaking \/ Resolve \/ AddAdmin \/ WriteOutput
    \/ Fund \/ SendWalletTx \/ AwaitWalletTxs \/ LockValidatorSet \/ HandOver
    \/ SaveConfigs \/ SaveWallets

Next ==
    \/ ScriptNext \/ Fail \/ Mine
    \/ \E c \in Configs, kept \in {NoContracts, outputFile}, r \in Addresses : Begin(c, kept, r)
    \/ \E tx \in walletTxs : MineWalletTx(tx)
    \/ \E s \in Runs : LockedByAnyone(s)

DeploymentSpec == Init /\ [][Next]_vars
=============================================================================
