--------------------------- MODULE DeploymentProofs ---------------------------
(***************************************************************************)
(* The deployment scripts for any number of runs and wallets, any          *)
(* configurations, and any moment at which a run may die.                  *)
(***************************************************************************)
EXTENDS DeploymentProperties, TLAPS

-----------------------------------------------------------------------------
(* The orders in which the scripts go through the contracts.               *)

LEMMA DeployOrderIsComplete ==
    /\ Len(DeployOrder) = 16
    /\ \A i \in 1..16 : DeployOrder[i] \in Kinds
    /\ \A i, j \in 1..16 : DeployOrder[i] = DeployOrder[j] => i = j
    /\ \A k \in Kinds : \E i \in 1..16 : DeployOrder[i] = k
<1>1. Len(DeployOrder) = 16 /\ DOMAIN DeployOrder = 1..16
  BY DEF DeployOrder
<1>2. Kinds = {DeployOrder[i] : i \in 1..16}
  BY <1>1 DEF Kinds, ToSet
<1>3. \A i, j \in 1..16 : DeployOrder[i] = DeployOrder[j] => i = j
  BY DEF DeployOrder
<1> QED
  BY <1>1, <1>2, <1>3

LEMMA ResolveOrderIsComplete ==
    /\ Len(ResolveOrder) = 16
    /\ \A i \in 1..16 : ResolveOrder[i] \in Kinds
    /\ \A k \in Kinds : \E i \in 1..16 : ResolveOrder[i] = k
    /\ ResolveOrder[10] = WritesContextAfter
<1>1. Len(ResolveOrder) = 16 /\ ResolveOrder[10] = WritesContextAfter
  BY DEF ResolveOrder, WritesContextAfter
<1>2. \A i \in 1..16 : \E j \in 1..16 : ResolveOrder[i] = DeployOrder[j]
  BY DEF ResolveOrder, DeployOrder
<1>3. \A j \in 1..16 : \E i \in 1..16 : ResolveOrder[i] = DeployOrder[j]
  BY DEF ResolveOrder, DeployOrder
<1> QED
  BY <1>1, <1>2, <1>3, DeployOrderIsComplete

LEMMA HandoverOrderIsOfKinds ==
    /\ Len(HandoverOrder) = 9
    /\ \A i \in 1..9 : HandoverOrder[i] \in Kinds
<1>1. Len(HandoverOrder) = 9
  BY DEF HandoverOrder
<1>2. \A i \in 1..9 : \E j \in 1..16 : HandoverOrder[i] = DeployOrder[j]
  BY DEF HandoverOrder, DeployOrder
<1> QED
  BY <1>1, <1>2, DeployOrderIsComplete

LEMMA ContextKindsAreKinds ==
    /\ ContextKinds \subseteq Kinds
    /\ FoundAgain \subseteq Kinds
    /\ {"Staking", "StakingBalances", "LITToken", "Allowlist"} \subseteq Kinds
    /\ "ReleaseRegister" \notin Kinds
<1>1. \A k \in ContextKinds \cup FoundAgain : \E j \in 1..16 : k = DeployOrder[j]
  BY DEF ContextKinds, FoundAgain, DeployOrder
<1>2. \A j \in 1..16 : DeployOrder[j] # "ReleaseRegister"
  BY DEF DeployOrder
<1>3. {"Staking", "StakingBalances", "LITToken", "Allowlist"} \subseteq ContextKinds
  BY DEF ContextKinds
<1> QED
  BY <1>1, <1>2, <1>3, DeployOrderIsComplete

-----------------------------------------------------------------------------
(* Types.                                                                  *)

Staffing == {"fund", "lock", "handover"} \cup WalletPhases
Ending == {"configs", "wallets", "done"}
AfterOutput == Staffing \cup Ending
Publishing == {"resolve", "admin", "output"} \cup AfterOutput
AfterDeploy == {"open"} \cup Publishing

\* The step of each phase is within the list the phase goes through.
StepsInv ==
    /\ phase \in Phases
    /\ phase = "roles" => step \in 1..3
    /\ phase \in {"deploy", "resolve"} => step \in 1..16
    /\ phase = "handover" => step \in 1..9
    /\ phase \in WalletPhases => step \in 1..(Number(phase) + 1)
    /\ phase \notin {"roles", "deploy", "resolve", "handover"} \cup WalletPhases => step = 1

Chosen(kind) == IF Kept(kind) # NoContract THEN Kept(kind) ELSE run

\* The contracts of a run are those kept and those it has deployed.
ContractsInv ==
    /\ run \in 0..MaxRuns
    /\ contracts \in [Kinds -> Addresses] /\ existing \in [Kinds -> Addresses]
    /\ phase # "idle" => run \in Runs
    /\ phase = "deploy" =>
          \A j \in 1..(step - 1) : contracts[DeployOrder[j]] = Chosen(DeployOrder[j])
    /\ phase \in AfterDeploy => \A k \in Kinds : contracts[k] = Chosen(k)

FilesInv ==
    /\ outputFile \in [Kinds -> Addresses]
    /\ networkContext \in [ContextKinds -> Addresses]
    /\ configsOf \in 0..MaxRuns /\ savedWallets \subseteq Wallets

ChainInv ==
    /\ config \in ConfigType
    /\ resolverOf \in [Runs -> Addresses]
    /\ mempool \in Seq(DeployerTxs)
    /\ walletTxs \subseteq WalletTxs
    /\ owner \in [Kinds -> [Runs -> {NoOne, Deployer, NewOwner}]]
    /\ registerAdmins \in [Runs -> SUBSET Parties]
    /\ resolverAdmins \in [Addresses -> SUBSET Parties]
    /\ resolver \in [Addresses -> [Entries -> Addresses]]
    /\ staking \in [Runs -> {"Paused", "Active", "NextValidatorSetLocked"}]
    /\ nextSet \in [Runs -> SUBSET Wallets]
    /\ approvals \subseteq Wallets \X Runs \X Runs
    /\ stakes \subseteq Wallets \X Runs

TypeInv == StepsInv /\ ContractsInv /\ FilesInv /\ ChainInv

LEMMA NumbersAreNat ==
    /\ Joined \in Nat /\ StakedOnly \in Nat /\ MaxRuns \in Nat
    /\ 0 \in Addresses /\ NoContract \in Addresses /\ Runs \subseteq Addresses
    /\ Runs \subseteq Nat /\ Addresses \subseteq Nat /\ Addresses = {0} \cup Runs
    /\ \A op \in WalletPhases : Number(op) \in Nat /\ Number(op) <= Joined + StakedOnly
BY DeploymentAssumption DEF Addresses, Runs, NoContract, WalletPhases, Number

LEMMA InitType == Init => TypeInv
<1> SUFFICES ASSUME Init PROVE TypeInv
  OBVIOUS
<1>1. NoContracts \in [Kinds -> Addresses]
  BY NumbersAreNat DEF NoContracts
<1>2. FilesInv /\ ChainInv
  BY <1>1, NumbersAreNat, DeploymentAssumption
     DEF Init, FilesInv, ChainInv, Parties, NoContract
<1>3. StepsInv
  BY DEF Init, StepsInv, Phases, WalletPhases
<1>4. ContractsInv
  BY <1>1, NumbersAreNat DEF Init, ContractsInv, AfterDeploy, Publishing, AfterOutput, Staffing,
         Ending, WalletPhases
<1> QED
  BY <1>2, <1>3, <1>4 DEF TypeInv

\* What the script does to its phase and its step.
LEMMA StepsStep == ASSUME StepsInv, [Next]_vars PROVE StepsInv'
<1> USE NumbersAreNat, DeployOrderIsComplete, ResolveOrderIsComplete, HandoverOrderIsOfKinds
    DEF StepsInv, Phases, WalletPhases, Goto
<1>1. CASE UNCHANGED <<phase, step>>
  BY <1>1 DEF Number
<1>2. CASE DeployResolver \/ DeployRegister \/ OpenStaking \/ AddAdmin \/ WriteOutput \/ Fund
           \/ AwaitWalletTxs \/ LockValidatorSet \/ SaveConfigs \/ SaveWallets \/ Fail
  BY <1>2 DEF DeployResolver, DeployRegister, OpenStaking, AddAdmin, WriteOutput, Fund,
              AwaitWalletTxs, LockValidatorSet, SaveConfigs, SaveWallets, Fail, Number, After
<1>3. CASE SendCore \/ Deploy \/ Resolve \/ HandOver
  BY <1>3 DEF SendCore, Deploy, Resolve, HandOver, GoOn, CoreOrder
<1>4. CASE SendWalletTx
  BY <1>4 DEF SendWalletTx
<1>5. ASSUME NEW c, NEW kept, NEW r, Begin(c, kept, r) PROVE StepsInv'
  BY <1>5 DEF Begin
<1>6. CASE Mine \/ (\E tx \in walletTxs : MineWalletTx(tx)) \/ (\E s \in Runs : LockedByAnyone(s))
  BY <1>6, <1>1 DEF Mine, MineWalletTx, LockedByAnyone
<1> QED
  BY <1>1, <1>2, <1>3, <1>4, <1>5, <1>6 DEF Next, ScriptNext, vars

LEMMA ContractsStep ==
    ASSUME StepsInv, ContractsInv, FilesInv, [Next]_vars
    PROVE  ContractsInv'
<1> USE NumbersAreNat, DeployOrderIsComplete
    DEF ContractsInv, Goto, AfterDeploy, Publishing, AfterOutput, Staffing, Ending, WalletPhases
<1>1. CASE UNCHANGED <<phase, step, contracts, run, existing>>
  BY <1>1 DEF Chosen, Kept
<1>2. CASE DeployResolver \/ DeployRegister \/ OpenStaking \/ AddAdmin \/ WriteOutput \/ Fund
           \/ AwaitWalletTxs \/ LockValidatorSet \/ SaveConfigs \/ SaveWallets \/ SendWalletTx
  BY <1>2 DEF DeployResolver, DeployRegister, OpenStaking, AddAdmin, WriteOutput, Fund, SendWalletTx,
              AwaitWalletTxs, LockValidatorSet, SaveConfigs, SaveWallets, After, runVars, Chosen, Kept
<1>3. CASE SendCore \/ Resolve \/ HandOver
  <2>1. /\ UNCHANGED <<contracts, run, existing>> /\ phase # "idle"
        /\ \/ phase = "roles" /\ phase' \in {"roles", "deploy"}
           \/ phase \in {"resolve", "handover"} /\ phase' \in {"resolve", "admin", "handover", "configs"}
        /\ phase' = "deploy" => step' = 1
    BY <1>3 DEF SendCore, Resolve, HandOver, GoOn, runVars
  <2> QED
    BY <2>1 DEF Chosen, Kept
<1>4. CASE Deploy
  <2> DEFINE kind == DeployOrder[step]
  <2>1. /\ phase = "deploy" /\ step \in 1..16 /\ kind \in Kinds
        /\ run' = run /\ existing' = existing /\ run \in Runs
        /\ contracts' = [contracts EXCEPT ![kind] = Chosen(kind)]
    BY <1>4 DEF Deploy, StepsInv, runVars, Chosen
  <2>2. \A k \in Kinds : Chosen(k)' = Chosen(k) /\ Chosen(k) \in Addresses
    BY <2>1 DEF Chosen, Kept
  <2>3. \A j \in 1..step : contracts'[DeployOrder[j]] = Chosen(DeployOrder[j])
    BY <2>1
  <2>4. \/ phase' = "open" /\ step = 16
        \/ phase' = "deploy" /\ step' = step + 1
    BY <1>4 DEF Deploy, GoOn
  <2>5. CASE phase' = "open" /\ step = 16
    <3>1. \A k \in Kinds : contracts'[k] = Chosen(k)'
      BY <2>5, <2>2, <2>3
    <3> QED
      BY <2>1, <2>2, <2>5, <3>1
  <2>6. CASE phase' = "deploy" /\ step' = step + 1
    BY <2>1, <2>2, <2>3, <2>6
  <2> QED
    BY <2>4, <2>5, <2>6
<1>5. ASSUME NEW c, NEW kept \in {NoContracts, outputFile}, NEW r, Begin(c, kept, r)
      PROVE ContractsInv'
  <2>1. kept \in [Kinds -> Addresses] /\ NoContracts \in [Kinds -> Addresses]
    BY DEF NoContracts, FilesInv
  <2>2. run' \in Runs
    BY <1>5 DEF Begin, Runs
  <2> QED
    BY <1>5, <2>1, <2>2 DEF Begin, StepsInv, Runs
<1>6. CASE Fail
  BY <1>6 DEF Fail, runVars, NoContracts
<1>7. CASE Mine \/ (\E tx \in walletTxs : MineWalletTx(tx)) \/ (\E s \in Runs : LockedByAnyone(s))
  BY <1>7, <1>1 DEF Mine, MineWalletTx, LockedByAnyone, runVars
<1> QED
  BY <1>1, <1>2, <1>3, <1>4, <1>5, <1>6, <1>7 DEF Next, ScriptNext, vars, runVars

\* The contracts there are by the time anything is done with them.
LEMMA ContractsAreRuns ==
    ASSUME ContractsInv, phase \in AfterDeploy
    PROVE  contracts \in [Kinds -> Runs] /\ run \in Runs
BY NumbersAreNat DEF ContractsInv, AfterDeploy, Publishing, AfterOutput, Staffing, Ending,
   WalletPhases, Chosen, Kept, NoContract

LEMMA FilesStep ==
    ASSUME ContractsInv, FilesInv, [Next]_vars
    PROVE  FilesInv'
<1> USE DEF FilesInv
<1>1. CASE UNCHANGED fileVars
  BY <1>1 DEF fileVars
<1>2. CASE Resolve
  BY <1>2, ContextKindsAreKinds DEF Resolve, ContractsInv
<1>3. CASE WriteOutput \/ SaveConfigs \/ SaveWallets
  BY <1>3 DEF WriteOutput, SaveConfigs, SaveWallets, ContractsInv
<1>4. Next => UNCHANGED fileVars \/ Resolve \/ WriteOutput \/ SaveConfigs \/ SaveWallets
  BY DEF Next, ScriptNext, Begin, Fail, DeployResolver, DeployRegister, SendCore, Deploy,
         OpenStaking, AddAdmin, Fund, SendWalletTx, AwaitWalletTxs, LockValidatorSet, HandOver,
         Mine, MineWalletTx, LockedByAnyone
<1> QED
  BY <1>1, <1>2, <1>3, <1>4 DEF vars

LEMMA SentIsTyped ==
    ASSUME StepsInv, ContractsInv, ChainInv, phase \in {"roles", "resolve"}
    PROVE  /\ phase = "roles" => CoreOrder[step] \in DeployerTxs
           /\ phase = "resolve" => SetContract(ResolveOrder[step]) \in DeployerTxs
<1>1. run \in Runs /\ step \in 1..16
  BY DEF StepsInv, ContractsInv
<1>2. CASE phase = "roles"
  <2>1. step \in 1..3
    BY <1>2 DEF StepsInv
  <2>2. Grant \in DeployerTxs /\ Publish \in DeployerTxs /\ Renounce \in DeployerTxs
    BY <1>1, NumbersAreNat DEF Grant, Publish, Renounce, DeployerTxs, Entries
  <2> QED
    BY <1>2, <2>1, <2>2 DEF CoreOrder
<1>3. CASE phase = "resolve"
  <2>1. ResolveOrder[step] \in Kinds
    BY <1>1, ResolveOrderIsComplete
  <2>2. contracts[ResolveOrder[step]] \in Runs
    BY <1>3, <2>1, ContractsAreRuns DEF AfterDeploy, Publishing
  <2> QED
    BY <1>1, <1>3, <2>1, <2>2 DEF ChainInv, SetContract, DeployerTxs, Entries
<1> QED
  BY <1>2, <1>3

LEMMA ExecutedIsTyped ==
    ASSUME ChainInv, NEW tx \in DeployerTxs, Execute(tx)
    PROVE  /\ registerAdmins' \in [Runs -> SUBSET Parties]
           /\ resolverAdmins' \in [Addresses -> SUBSET Parties]
           /\ resolver' \in [Addresses -> [Entries -> Addresses]]
<1> USE DEF ChainInv, Execute, Parties
<1>1. CASE tx.op = "setContract"
  <2>1. tx.resolver \in Addresses /\ tx.kind \in Entries /\ tx.to \in Addresses
    BY <1>1, NumbersAreNat DEF DeployerTxs
  <2>2. /\ resolver' = [resolver EXCEPT ![tx.resolver] = [@ EXCEPT ![tx.kind] = tx.to]]
        /\ UNCHANGED <<registerAdmins, resolverAdmins>>
    BY <1>1
  <2>3. [resolver[tx.resolver] EXCEPT ![tx.kind] = tx.to] \in [Entries -> Addresses]
    BY <2>1
  <2> QED
    BY <2>1, <2>2, <2>3
<1>2. CASE tx.op # "setContract"
  BY <1>2 DEF coreVars
<1> QED
  BY <1>1, <1>2

LEMMA ChainStep ==
    ASSUME StepsInv, ContractsInv, ChainInv, [Next]_vars
    PROVE  ChainInv'
<1>1. CASE UNCHANGED <<config, resolverOf, txVars, owner, coreVars, stakingVars>>
  BY <1>1 DEF ChainInv, txVars, coreVars, stakingVars
<1>2. ASSUME NEW c \in Configs, NEW kept, NEW r \in Addresses, Begin(c, kept, r)
      PROVE  ChainInv'
  <2>1. c \in ConfigType /\ run' \in Addresses
    BY <1>2, DeploymentAssumption DEF Begin, ContractsInv, Addresses
  <2> QED
    BY <1>2, <2>1 DEF ChainInv, Begin, txVars, coreVars, stakingVars
<1>3. CASE DeployResolver \/ DeployRegister \/ AddAdmin
  <2>1. UNCHANGED <<config, resolverOf, txVars, owner, resolver, stakingVars>>
    BY <1>3 DEF DeployResolver, DeployRegister, AddAdmin, runVars, coreVars
  <2>2. registerAdmins' \in [Runs -> SUBSET Parties]
    BY <1>3 DEF ChainInv, DeployResolver, DeployRegister, AddAdmin, Parties
  <2>3. resolverAdmins' \in [Addresses -> SUBSET Parties]
    BY <1>3 DEF ChainInv, DeployResolver, DeployRegister, AddAdmin, Parties
  <2> QED
    BY <2>1, <2>2, <2>3 DEF ChainInv, txVars, stakingVars
<1>4. CASE SendCore \/ Resolve
  <2>1. UNCHANGED <<config, resolverOf, walletTxs, owner, coreVars, stakingVars>>
    BY <1>4 DEF SendCore, Resolve, Send, runVars
  <2>2. mempool' \in Seq(DeployerTxs)
    <3>1. \E tx \in DeployerTxs : mempool' = Append(mempool, tx)
      BY <1>4, SentIsTyped DEF SendCore, Resolve, Send
    <3>2. mempool \in Seq(DeployerTxs)
      BY DEF ChainInv
    <3> QED
      BY <3>1, <3>2
  <2> QED
    BY <2>1, <2>2 DEF ChainInv, coreVars, stakingVars
<1>5. CASE Deploy \/ HandOver
  <2>1. UNCHANGED <<config, resolverOf, txVars, coreVars, stakingVars>>
    BY <1>5 DEF Deploy, HandOver, runVars
  <2>2. \/ UNCHANGED owner
        \/ \E k \in Kinds, at \in Runs, o \in {Deployer, NewOwner} :
              owner' = [owner EXCEPT ![k] = [@ EXCEPT ![at] = o]]
    <3>1. CASE Deploy
      <4>1. DeployOrder[step] \in Kinds /\ run \in Runs
        BY <3>1, DeployOrderIsComplete DEF Deploy, StepsInv, ContractsInv
      <4> QED
        BY <3>1, <4>1 DEF Deploy
    <3>2. CASE HandOver
      <4>1. HandoverOrder[step] \in Kinds /\ contracts \in [Kinds -> Runs]
        BY <3>2, HandoverOrderIsOfKinds, ContractsAreRuns
           DEF HandOver, StepsInv, AfterDeploy, Publishing, AfterOutput, Staffing
      <4> QED
        BY <3>2, <4>1 DEF HandOver
    <3> QED
      BY <1>5, <3>1, <3>2
  <2>3. owner' \in [Kinds -> [Runs -> {NoOne, Deployer, NewOwner}]]
    <3>1. owner \in [Kinds -> [Runs -> {NoOne, Deployer, NewOwner}]]
      BY DEF ChainInv
    <3>2. ASSUME NEW k \in Kinds, NEW at \in Runs, NEW o \in {Deployer, NewOwner}
          PROVE  [owner[k] EXCEPT ![at] = o] \in [Runs -> {NoOne, Deployer, NewOwner}]
      BY <3>1
    <3> QED
      BY <2>2, <3>1, <3>2
  <2> QED
    BY <2>1, <2>3 DEF ChainInv, txVars, coreVars, stakingVars
<1>6. CASE OpenStaking \/ LockValidatorSet \/ \E s \in Runs : LockedByAnyone(s)
  <2>1. UNCHANGED <<config, resolverOf, txVars, owner, coreVars, nextSet, approvals, stakes>>
    BY <1>6 DEF OpenStaking, LockValidatorSet, LockedByAnyone, Lock, runVars
  <2>2. staking' \in [Runs -> {"Paused", "Active", "NextValidatorSetLocked"}]
    <3>1. staking \in [Runs -> {"Paused", "Active", "NextValidatorSetLocked"}]
      BY DEF ChainInv
    <3>2. CASE OpenStaking
      BY <3>1, <3>2 DEF OpenStaking
    <3>3. ASSUME NEW s, Lock(s)
          PROVE  staking' \in [Runs -> {"Paused", "Active", "NextValidatorSetLocked"}]
      BY <3>1, <3>3 DEF Lock
    <3> QED
      BY <1>6, <3>2, <3>3 DEF LockValidatorSet, LockedByAnyone
  <2> QED
    BY <2>1, <2>2 DEF ChainInv, txVars, coreVars
<1>7. CASE SendWalletTx
  <2>1. contracts \in [Kinds -> Runs] /\ run \in Runs
    BY <1>7, ContractsAreRuns
       DEF SendWalletTx, AfterDeploy, Publishing, AfterOutput, Staffing
  <2>2. <<run, step>> \in Wallets
    BY <1>7, <2>1, NumbersAreNat DEF SendWalletTx, StepsInv, Wallets
  <2>3. /\ phase \in WalletPhases
        /\ contracts["LITToken"] \in Runs /\ contracts["StakingBalances"] \in Runs
        /\ contracts["Staking"] \in Runs
    BY <1>7, <2>1, ContextKindsAreKinds DEF SendWalletTx
  <2>4. \E to \in Runs : walletTxs' = walletTxs \cup
          {[op |-> phase, wallet |-> <<run, step>>, token |-> contracts["LITToken"], to |-> to]}
    BY <1>7, <2>3 DEF SendWalletTx
  <2>5. walletTxs' \subseteq WalletTxs
    <3>1. ASSUME NEW to \in Runs
          PROVE  [op |-> phase, wallet |-> <<run, step>>, token |-> contracts["LITToken"], to |-> to]
                    \in WalletTxs
      BY <2>2, <2>3 DEF WalletTxs
    <3> QED
      BY <2>4, <3>1 DEF ChainInv
  <2>6. UNCHANGED <<config, resolverOf, mempool, owner, coreVars, stakingVars>>
    BY <1>7 DEF SendWalletTx, runVars
  <2> QED
    BY <2>5, <2>6 DEF ChainInv, coreVars, stakingVars
<1>8. CASE Mine
  <2>1. Head(mempool) \in DeployerTxs /\ mempool' \in Seq(DeployerTxs)
    BY <1>8 DEF ChainInv, Mine
  <2>2. Execute(Head(mempool)) /\ UNCHANGED <<config, resolverOf, walletTxs, owner, stakingVars>>
    BY <1>8 DEF Mine, runVars
  <2> QED
    BY <2>1, <2>2, ExecutedIsTyped DEF ChainInv, stakingVars
<1>9. ASSUME NEW tx \in walletTxs, MineWalletTx(tx)
      PROVE  ChainInv'
  <2>1. tx.wallet \in Wallets /\ tx.token \in Runs /\ tx.to \in Runs
    BY DEF ChainInv, WalletTxs
  <2>2. approvals' \subseteq Wallets \X Runs \X Runs
    BY <1>9, <2>1 DEF ChainInv, MineWalletTx
  <2>3. stakes' \subseteq Wallets \X Runs
    <3>1. stakes' \subseteq stakes \cup {<<tx.wallet, b>> : b \in Runs}
      BY <1>9 DEF MineWalletTx, BalancesOf
    <3> QED
      BY <2>1, <3>1 DEF ChainInv
  <2>4. nextSet' \in [Runs -> SUBSET Wallets]
    <3>1. \/ UNCHANGED nextSet
          \/ nextSet' = [nextSet EXCEPT ![tx.to] = @ \cup {tx.wallet}]
      BY <1>9 DEF MineWalletTx
    <3>2. nextSet \in [Runs -> SUBSET Wallets] /\ nextSet[tx.to] \cup {tx.wallet} \in SUBSET Wallets
      BY <2>1 DEF ChainInv
    <3> QED
      BY <2>1, <3>1, <3>2
  <2>5. /\ walletTxs' \subseteq walletTxs
        /\ UNCHANGED <<config, resolverOf, mempool, owner, coreVars, staking>>
    BY <1>9 DEF MineWalletTx, runVars
  <2> QED
    BY <2>2, <2>3, <2>4, <2>5 DEF ChainInv, coreVars
<1>10. Fail \/ WriteOutput \/ Fund \/ AwaitWalletTxs \/ SaveConfigs \/ SaveWallets
         => UNCHANGED <<config, resolverOf, txVars, owner, coreVars, stakingVars>>
  BY DEF Fail, WriteOutput, Fund, AwaitWalletTxs, SaveConfigs, SaveWallets, runVars
<1>11. CASE Next
  BY <1>1, <1>2, <1>3, <1>4, <1>5, <1>6, <1>7, <1>8, <1>9, <1>10, <1>11 DEF Next, ScriptNext
<1> QED
  BY <1>1, <1>11 DEF vars, runVars

LEMMA TypeStep == ASSUME TypeInv, [Next]_vars PROVE TypeInv'
BY StepsStep, ContractsStep, FilesStep, ChainStep DEF TypeInv

LEMMA TypeIsType == TypeInv => DeploymentTypeOK
<1> SUFFICES ASSUME TypeInv PROVE DeploymentTypeOK
  OBVIOUS
<1>1. phase \in AfterDeploy => contracts \in [Kinds -> Runs]
  BY ContractsAreRuns DEF TypeInv
<1>2. step \in 1..(16 + Joined + StakedOnly)
  BY NumbersAreNat DEF TypeInv, StepsInv
<1> QED
  BY <1>1, <1>2, DeployOrderIsComplete
     DEF TypeInv, StepsInv, ContractsInv, FilesInv, ChainInv, DeploymentTypeOK, AfterDeploy,
         Publishing, AfterOutput, Staffing, Ending

-----------------------------------------------------------------------------
(* The records of a deployment.                                            *)

\* The entry of the resolver is there, or under way.
Entered(kind) ==
    \/ resolver[resolverOf[run]][kind] = contracts[kind]
    \/ \E i \in 1..Len(mempool) : mempool[i] = SetContract(kind)

\* What is written so far names the contracts of the run, and once they are
\* all deployed nothing is under way that would name others.
RecordsInv ==
    /\ phase \in AfterOutput => outputFile = contracts
    /\ phase \in {"admin", "output"} \cup AfterOutput \/ (phase = "resolve" /\ step > 10)
         => \A k \in ContextKinds : networkContext[k] = contracts[k]
    /\ phase = "open" \/ (phase = "deploy" /\ step > 1) => mempool = <<>>
    /\ phase \in Publishing =>
         /\ \A i \in 1..Len(mempool) : \E k \in Kinds : mempool[i] = SetContract(k)
         /\ \A j \in 1..16 : (phase = "resolve" => j < step) => Entered(ResolveOrder[j])

LEMMA RecordsStep ==
    ASSUME TypeInv, RecordsInv, [Next]_vars
    PROVE  RecordsInv'
<1> USE DEF RecordsInv, Publishing, AfterOutput, Staffing, Ending, WalletPhases, Goto
<1>1. CASE UNCHANGED <<run, resolverOf, contracts, mempool, resolver>>
           /\ UNCHANGED <<phase, step, outputFile, networkContext>>
  BY <1>1 DEF Entered, SetContract
<1>2. CASE /\ UNCHANGED <<run, resolverOf, contracts, mempool, resolver, networkContext>>
           /\ phase \in {"admin", "output"} \cup AfterOutput
           /\ phase' \in {"output"} \cup AfterOutput
           /\ \/ phase' = "output"
              \/ phase \in AfterOutput /\ UNCHANGED outputFile
              \/ outputFile' = contracts
  BY <1>2 DEF Entered, SetContract
<1>3. CASE AddAdmin \/ WriteOutput \/ Fund \/ SendWalletTx \/ AwaitWalletTxs
           \/ LockValidatorSet \/ HandOver \/ SaveConfigs \/ SaveWallets
  <2>1. UNCHANGED <<run, resolverOf, contracts, mempool, resolver, networkContext>>
    BY <1>3 DEF AddAdmin, WriteOutput, Fund, SendWalletTx, AwaitWalletTxs, LockValidatorSet, HandOver,
                SaveConfigs, SaveWallets, runVars, txVars, coreVars, fileVars
  <2>2. /\ phase \in {"admin", "output"} \cup AfterOutput
        /\ phase' \in {"output"} \cup AfterOutput
        /\ phase \notin AfterOutput => phase' = "output" \/ outputFile' = contracts
        /\ phase \in AfterOutput => UNCHANGED outputFile
    BY <1>3 DEF AddAdmin, WriteOutput, Fund, SendWalletTx, AwaitWalletTxs, LockValidatorSet, HandOver,
                SaveConfigs, SaveWallets, GoOn, After, fileVars
  <2> QED
    BY <1>2, <2>1, <2>2
<1>4. CASE Fail \/ DeployResolver \/ DeployRegister \/ SendCore
           \/ \E c, kept, r : Begin(c, kept, r)
  BY <1>4 DEF Fail, DeployResolver, DeployRegister, SendCore, Begin, GoOn
<1>5. CASE Deploy
  BY <1>5 DEF Deploy, InTurn, txVars, GoOn
<1>6. CASE OpenStaking
  BY <1>6 DEF OpenStaking, InTurn, txVars
<1>7. CASE Resolve
  <2> DEFINE kind == ResolveOrder[step]
  <2>1. /\ phase = "resolve" /\ step \in 1..16 /\ kind \in Kinds
        /\ mempool \in Seq(DeployerTxs) /\ SetContract(kind) \in DeployerTxs
        /\ UNCHANGED <<run, resolverOf, contracts, resolver>>
        /\ mempool' = Append(mempool, SetContract(kind))
    BY <1>7, ResolveOrderIsComplete, SentIsTyped
       DEF Resolve, TypeInv, StepsInv, ChainInv, Send, runVars, coreVars
  <2>2. \/ phase' = "admin" /\ step = 16
        \/ phase' = "resolve" /\ step' = step + 1
    BY <1>7, ResolveOrderIsComplete DEF Resolve, GoOn
  <2>3. \A k : SetContract(k)' = SetContract(k)
    BY <2>1 DEF SetContract
  <2>4. /\ \A i \in 1..Len(mempool) : mempool'[i] = mempool[i]
        /\ Len(mempool') = Len(mempool) + 1 /\ mempool'[Len(mempool) + 1] = SetContract(kind)
        /\ Len(mempool) \in Nat
    BY <2>1
  <2>5. \A i \in 1..Len(mempool') : \E k \in Kinds : mempool'[i] = SetContract(k)'
    BY <2>1, <2>3, <2>4
  <2>6. ASSUME NEW k, Entered(k) \/ k = kind
        PROVE  Entered(k)'
    <3>1. CASE k = kind
      <4>1. Len(mempool) + 1 \in 1..Len(mempool')
        BY <2>4
      <4> QED
        BY <3>1, <4>1, <2>3, <2>4 DEF Entered
    <3>2. CASE resolver[resolverOf[run]][k] = contracts[k]
      BY <3>2, <2>1 DEF Entered
    <3>3. ASSUME NEW i \in 1..Len(mempool), mempool[i] = SetContract(k)
          PROVE  Entered(k)'
      <4>1. i \in 1..Len(mempool') /\ mempool'[i] = SetContract(k)'
        BY <3>3, <2>3, <2>4
      <4> QED
        BY <4>1 DEF Entered
    <3> QED
      BY <2>6, <3>1, <3>2, <3>3 DEF Entered
  <2>7. \A j \in 1..16 : (phase' = "resolve" => j < step') => Entered(ResolveOrder[j])'
    <3>1. ASSUME NEW j \in 1..16, phase' = "resolve" => j < step'
          PROVE  j < step \/ j = step
      BY <3>1, <2>1, <2>2
    <3> QED
      BY <3>1, <2>1, <2>6
  <2>8. (phase' = "resolve" /\ step' > 10) \/ phase' = "admin"
          => \A k \in ContextKinds : networkContext'[k] = contracts'[k]
    <3>1. CASE kind = WritesContextAfter
      BY <1>7, <2>1, <3>1 DEF Resolve
    <3>2. CASE kind # WritesContextAfter
      BY <1>7, <2>1, <2>2, <3>2, ResolveOrderIsComplete DEF Resolve
    <3> QED
      BY <3>1, <3>2
  <2> QED
    BY <2>2, <2>5, <2>7, <2>8
<1>8. CASE Mine
  <2>1. /\ UNCHANGED <<run, resolverOf, contracts, phase, step, outputFile, networkContext>>
        /\ mempool \in Seq(DeployerTxs) /\ mempool # <<>> /\ mempool' = Tail(mempool)
    BY <1>8 DEF Mine, TypeInv, ChainInv, runVars, fileVars
  <2>2. \A k : SetContract(k)' = SetContract(k)
    BY <2>1 DEF SetContract
  <2>3. /\ Len(mempool) \in Nat \ {0} /\ Len(mempool') = Len(mempool) - 1
        /\ \A i \in 1..Len(mempool') : mempool'[i] = mempool[i + 1]
        /\ Head(mempool) = mempool[1]
    BY <2>1
  <2>4. ASSUME phase \in Publishing
        PROVE  /\ \A i \in 1..Len(mempool') : \E k \in Kinds : mempool'[i] = SetContract(k)'
               /\ \A k \in Kinds : Entered(k) => Entered(k)'
    <3>1. PICK m \in Kinds : mempool[1] = SetContract(m)
      BY <2>3, <2>4
    <3>2. resolver' = [resolver EXCEPT ![resolverOf[run]][m] = contracts[m]]
      BY <1>8, <2>3, <3>1 DEF Mine, Execute, SetContract
    <3>3. resolverOf[run] \in Addresses /\ resolver \in [Addresses -> [Entries -> Addresses]]
      BY <2>4, ContractsAreRuns DEF TypeInv, ChainInv, AfterDeploy
    <3>4. \A k \in Kinds : resolver'[resolverOf[run]][k] =
             IF k = m THEN contracts[m] ELSE resolver[resolverOf[run]][k]
      BY <3>2, <3>3 DEF Entries
    <3>5. ASSUME NEW k \in Kinds, Entered(k)
          PROVE  Entered(k)'
      <4>1. CASE k = m
        BY <2>1, <3>4, <4>1 DEF Entered
      <4>2. CASE resolver[resolverOf[run]][k] = contracts[k]
        BY <2>1, <3>4, <4>2 DEF Entered
      <4>3. ASSUME NEW i \in 1..Len(mempool), mempool[i] = SetContract(k), k # m
            PROVE  Entered(k)'
        <5>1. i # 1
          BY <3>1, <4>3 DEF SetContract
        <5>2. i - 1 \in 1..Len(mempool') /\ mempool'[i - 1] = SetContract(k)'
          BY <2>2, <2>3, <4>3, <5>1
        <5> QED
          BY <5>2 DEF Entered
      <4> QED
        BY <3>5, <4>1, <4>2, <4>3 DEF Entered
    <3>6. \A i \in 1..Len(mempool') : \E k \in Kinds : mempool'[i] = SetContract(k)'
      BY <2>2, <2>3, <2>4
    <3> QED
      BY <3>5, <3>6
  <2>5. mempool = <<>> => mempool' = <<>>
    BY <2>1
  <2> QED
    BY <2>1, <2>4, <2>5, ResolveOrderIsComplete
<1>9. CASE (\E tx \in walletTxs : MineWalletTx(tx)) \/ (\E s \in Runs : LockedByAnyone(s))
  BY <1>1, <1>9 DEF MineWalletTx, LockedByAnyone, runVars, txVars, coreVars, fileVars
<1>10. CASE Next
  BY <1>3, <1>4, <1>5, <1>6, <1>7, <1>8, <1>9, <1>10 DEF Next, ScriptNext
<1> QED
  BY <1>1, <1>10 DEF vars, runVars, txVars, coreVars, fileVars

LEMMA RecordsAreKept == RecordsInv => RecordsAgree
<1> SUFFICES ASSUME RecordsInv, phase = "done"
             PROVE  /\ outputFile = contracts
                    /\ \A k \in ContextKinds : networkContext[k] = contracts[k]
                    /\ mempool = <<>> => \A k \in Kinds : resolver[resolverOf[run]][k] = contracts[k]
  BY DEF RecordsAgree
<1> USE DEF RecordsInv, Publishing, AfterOutput, Ending
<1>1. ASSUME NEW k \in Kinds, mempool = <<>>
      PROVE  resolver[resolverOf[run]][k] = contracts[k]
  <2>1. Entered(k)
    BY ResolveOrderIsComplete
  <2> QED
    BY <1>1, <2>1 DEF Entered
<1> QED
  BY <1>1

-----------------------------------------------------------------------------
(* The administrators of a release register.                               *)

GrantOf(r) == [op |-> "grantRole", register |-> r]
PublishOf(r) == [op |-> "setContract", resolver |-> r, kind |-> "ReleaseRegister", to |-> r]
RenounceOf(r) == [op |-> "renounceRole", register |-> r]

UnderWay(tx) == \E i \in 1..Len(mempool) : mempool[i] = tx

Untouched(r) ==
    /\ resolver[r]["ReleaseRegister"] # r
    /\ ~UnderWay(GrantOf(r)) /\ ~UnderWay(PublishOf(r)) /\ ~UnderWay(RenounceOf(r))

\* A register is published after its subnet owner was granted the role, and
\* granted before the deployer renounces.
QueueInv ==
    \A r \in Runs : \A i \in 1..Len(mempool) :
        /\ mempool[i] = PublishOf(r) =>
              \/ SubnetOwner \in registerAdmins[r]
              \/ \E j \in 1..(i - 1) : mempool[j] = GrantOf(r)
        /\ mempool[i] = GrantOf(r) =>
              /\ Deployer \in registerAdmins[r]
              /\ \A j \in 1..(i - 1) : mempool[j] # RenounceOf(r)

\* What the script has done when it sends the next of its three transactions.
RolesInv ==
    /\ \A r \in Runs : r > run \/ (r = run /\ phase \in {"resolver", "register"}) => Untouched(r)
    /\ phase = "roles" /\ step = 1 => Untouched(run) /\ Deployer \in registerAdmins[run]
    /\ phase = "roles" /\ step = 2 =>
          SubnetOwner \in registerAdmins[run] \/ UnderWay(GrantOf(run))

RegisterInv == RegisterHasOwner /\ QueueInv /\ RolesInv

LEMMA RegisterStep ==
    ASSUME TypeInv, RegisterInv, [Next]_vars
    PROVE  RegisterInv'
<1> USE DEF RegisterInv, RegisterHasOwner, Goto
<1>1. CASE UNCHANGED <<run, phase, step, mempool, registerAdmins, resolver>>
  BY <1>1 DEF QueueInv, RolesInv, Untouched, UnderWay
<1>2. CASE UNCHANGED <<run, mempool, registerAdmins, resolver>>
           /\ phase' \notin {"resolver", "register", "roles"}
  BY <1>2 DEF QueueInv, RolesInv, Untouched, UnderWay
<1>3. CASE Fail \/ Deploy \/ OpenStaking \/ AddAdmin \/ WriteOutput \/ Fund \/ SendWalletTx
           \/ AwaitWalletTxs \/ LockValidatorSet \/ HandOver \/ SaveConfigs \/ SaveWallets
  <2>1. UNCHANGED <<run, mempool, registerAdmins, resolver>>
    BY <1>3 DEF Fail, Deploy, OpenStaking, AddAdmin, WriteOutput, Fund, SendWalletTx, AwaitWalletTxs,
                LockValidatorSet, HandOver, SaveConfigs, SaveWallets, runVars, txVars, coreVars
  <2>2. phase' \notin {"resolver", "register", "roles"}
    BY <1>3 DEF Fail, Deploy, OpenStaking, AddAdmin, WriteOutput, Fund, SendWalletTx, AwaitWalletTxs,
                LockValidatorSet, HandOver, SaveConfigs, SaveWallets, GoOn, After, WalletPhases
  <2> QED
    BY <1>2, <2>1, <2>2
<1>4. ASSUME NEW c, NEW kept, NEW r, Begin(c, kept, r)
      PROVE  RegisterInv'
  <2>1. /\ UNCHANGED <<mempool, registerAdmins, resolver>>
        /\ run \in Nat /\ run' = run + 1 /\ phase' \in {"resolver", "deploy"}
    BY <1>4, NumbersAreNat DEF Begin, TypeInv, ContractsInv, txVars, coreVars
  <2>2. \A x \in Runs : (x > run' \/ x = run') => x > run
    BY <2>1, NumbersAreNat
  <2>3. \A x : Untouched(x)' <=> Untouched(x)
    BY <2>1 DEF Untouched, UnderWay
  <2>4. RolesInv'
    BY <2>1, <2>2, <2>3 DEF RolesInv
  <2> QED
    BY <2>1, <2>4 DEF QueueInv
<1>5. CASE DeployResolver
  BY <1>5 DEF DeployResolver, QueueInv, RolesInv, Untouched, UnderWay, runVars, txVars
<1>6. CASE DeployRegister
  <2>1. /\ UNCHANGED <<run, mempool, resolver>> /\ mempool = <<>> /\ run \in Runs
        /\ registerAdmins' = [registerAdmins EXCEPT ![run] = {Deployer}]
        /\ phase = "register" /\ phase' = "roles" /\ step' = 1
    BY <1>6 DEF DeployRegister, InTurn, TypeInv, ContractsInv, runVars, txVars
  <2>2. registerAdmins \in [Runs -> SUBSET Parties]
    BY DEF TypeInv, ChainInv
  <2>3. Untouched(run)
    BY <2>1 DEF RolesInv
  <2> QED
    BY <2>1, <2>2, <2>3 DEF QueueInv, RolesInv, Untouched, UnderWay
<1>7. ASSUME NEW tx \in DeployerTxs, mempool' = Append(mempool, tx),
             UNCHANGED <<run, registerAdmins, resolver>>,
             \A r \in Runs : r > run => tx \notin {GrantOf(r), PublishOf(r), RenounceOf(r)},
             \A r \in Runs : tx = PublishOf(r) =>
                SubnetOwner \in registerAdmins[r] \/ UnderWay(GrantOf(r)),
             \A r \in Runs : tx = GrantOf(r) =>
                Deployer \in registerAdmins[r] /\ ~UnderWay(RenounceOf(r)),
             phase' \notin {"resolver", "register"},
             phase' = "roles" => (run \in Runs /\ tx = GrantOf(run) /\ step' = 2) \/ step' = 3
      PROVE  RegisterInv'
  <2>1. /\ mempool \in Seq(DeployerTxs)
        /\ Len(mempool) \in Nat /\ Len(mempool') = Len(mempool) + 1
        /\ \A i \in 1..Len(mempool) : mempool'[i] = mempool[i]
        /\ mempool'[Len(mempool) + 1] = tx
    BY <1>7 DEF TypeInv, ChainInv
  <2>2. \A t : UnderWay(t)' <=> UnderWay(t) \/ t = tx
    BY <2>1 DEF UnderWay
  <2>3. QueueInv'
    BY <1>7, <2>1 DEF QueueInv, UnderWay
  <2>4. RolesInv'
    BY <1>7, <2>2 DEF RolesInv, Untouched
  <2> QED
    BY <1>7, <2>3, <2>4
<1>8. CASE SendCore
  <2>1. /\ phase = "roles" /\ step \in 1..3 /\ run \in Runs
        /\ mempool' = Append(mempool, CoreOrder[step]) /\ CoreOrder[step] \in DeployerTxs
        /\ UNCHANGED <<run, registerAdmins, resolver>>
        /\ phase' \in {"roles", "deploy"}
        /\ phase' = "roles" => step' = step + 1 /\ step # 3
    BY <1>8, SentIsTyped DEF SendCore, Send, GoOn, CoreOrder, TypeInv, StepsInv, ContractsInv,
                             runVars, coreVars
  <2>2. /\ step = 1 => CoreOrder[step] = GrantOf(run)
        /\ step = 2 => CoreOrder[step] = PublishOf(run)
        /\ step = 3 => CoreOrder[step] = RenounceOf(run)
    BY DEF CoreOrder, Grant, Publish, Renounce, GrantOf, PublishOf, RenounceOf
  <2>3. \A r \in Runs : r > run =>
           CoreOrder[step] \notin {GrantOf(r), PublishOf(r), RenounceOf(r)}
    BY <2>1, <2>2, NumbersAreNat DEF GrantOf, PublishOf, RenounceOf
  <2>4. \A r \in Runs : CoreOrder[step] = PublishOf(r) =>
           SubnetOwner \in registerAdmins[r] \/ UnderWay(GrantOf(r))
    BY <2>1, <2>2 DEF RolesInv, GrantOf, PublishOf, RenounceOf
  <2>5. \A r \in Runs : CoreOrder[step] = GrantOf(r) =>
           Deployer \in registerAdmins[r] /\ ~UnderWay(RenounceOf(r))
    BY <2>1, <2>2 DEF RolesInv, Untouched, GrantOf, PublishOf, RenounceOf
  <2>6. /\ phase' \notin {"resolver", "register"}
        /\ phase' = "roles" =>
              (run \in Runs /\ CoreOrder[step] = GrantOf(run) /\ step' = 2) \/ step' = 3
    BY <2>1, <2>2
  <2> DEFINE tx == CoreOrder[step]
  <2> HIDE DEF tx
  <2>7. /\ tx \in DeployerTxs /\ mempool' = Append(mempool, tx)
        /\ \A r \in Runs : r > run => tx \notin {GrantOf(r), PublishOf(r), RenounceOf(r)}
        /\ \A r \in Runs : tx = PublishOf(r) =>
              SubnetOwner \in registerAdmins[r] \/ UnderWay(GrantOf(r))
        /\ \A r \in Runs : tx = GrantOf(r) =>
              Deployer \in registerAdmins[r] /\ ~UnderWay(RenounceOf(r))
        /\ phase' = "roles" => (run \in Runs /\ tx = GrantOf(run) /\ step' = 2) \/ step' = 3
    BY <2>1, <2>3, <2>4, <2>5, <2>6 DEF tx
  <2> QED
    BY <1>7, <2>1, <2>6, <2>7
<1>9. CASE Resolve
  <2>1. /\ phase = "resolve" /\ ResolveOrder[step] \in Kinds
        /\ SetContract(ResolveOrder[step]) \in DeployerTxs
        /\ mempool' = Append(mempool, SetContract(ResolveOrder[step]))
        /\ UNCHANGED <<run, registerAdmins, resolver>>
        /\ phase' \in {"resolve", "admin"}
    BY <1>9, SentIsTyped, ResolveOrderIsComplete
       DEF Resolve, Send, GoOn, TypeInv, StepsInv, runVars, coreVars
  <2>2. \A r : SetContract(ResolveOrder[step]) \notin {GrantOf(r), PublishOf(r), RenounceOf(r)}
    BY <2>1, ContextKindsAreKinds DEF SetContract, GrantOf, PublishOf, RenounceOf
  <2> QED
    BY <1>7, <2>1, <2>2
<1>10. CASE Mine
  <2> DEFINE tx == mempool[1]
  <2>1. /\ mempool \in Seq(DeployerTxs) /\ mempool # <<>> /\ mempool' = Tail(mempool)
        /\ Execute(Head(mempool)) /\ UNCHANGED <<run, phase, step>>
    BY <1>10 DEF Mine, TypeInv, ChainInv, runVars
  <2>2. /\ Len(mempool) \in Nat \ {0} /\ Len(mempool') = Len(mempool) - 1
        /\ \A i \in 1..Len(mempool') : i + 1 \in 1..Len(mempool) /\ mempool'[i] = mempool[i + 1]
        /\ Head(mempool) = tx /\ tx \in DeployerTxs /\ 1 \in 1..Len(mempool)
    BY <2>1
  <2>3. \A t : UnderWay(t) <=> UnderWay(t)' \/ t = tx
    <3>1. ASSUME NEW i \in 1..Len(mempool)
          PROVE  i = 1 \/ (i - 1 \in 1..Len(mempool') /\ mempool'[i - 1] = mempool[i])
      BY <2>2
    <3> QED
      BY <2>2, <3>1 DEF UnderWay
  <2>4. /\ registerAdmins \in [Runs -> SUBSET Parties]
        /\ resolver \in [Addresses -> [Entries -> Addresses]]
    BY DEF TypeInv, ChainInv
  <2>5. \A r \in Runs : /\ SubnetOwner \in registerAdmins[r] => SubnetOwner \in registerAdmins'[r]
                        /\ tx # RenounceOf(r) /\ Deployer \in registerAdmins[r]
                              => Deployer \in registerAdmins'[r]
                        /\ tx = GrantOf(r) => SubnetOwner \in registerAdmins'[r]
    <3>1. CASE tx.op = "setContract"
      BY <2>1, <2>2, <3>1 DEF Execute, GrantOf
    <3>2. CASE tx.op = "grantRole"
      <4>1. \A r : tx = GrantOf(r) => tx.register = r
        BY DEF GrantOf
      <4>2. \/ registerAdmins' = [registerAdmins EXCEPT ![tx.register] = @ \cup {SubnetOwner}]
            \/ Deployer \notin registerAdmins[tx.register] /\ UNCHANGED registerAdmins
        BY <2>1, <2>2, <3>2 DEF Execute, coreVars
      <4>3. \A r \in Runs : tx = GrantOf(r) => Deployer \in registerAdmins[r]
        BY <2>2 DEF QueueInv
      <4> QED
        BY <2>4, <4>1, <4>2, <4>3
    <3>3. CASE tx.op = "renounceRole"
      <4>1. tx = RenounceOf(tx.register)
        BY <2>2, <3>3 DEF RenounceOf, DeployerTxs
      <4>2. registerAdmins' = [registerAdmins EXCEPT ![tx.register] = @ \ {Deployer}]
        BY <2>1, <2>2, <3>3 DEF Execute
      <4> QED
        BY <2>4, <3>3, <4>1, <4>2, DeploymentAssumption DEF GrantOf
    <3> QED
      BY <2>2, <3>1, <3>2, <3>3 DEF DeployerTxs
  <2>6. \A r \in Runs : resolver'[r]["ReleaseRegister"] = r =>
           resolver[r]["ReleaseRegister"] = r \/ tx = PublishOf(r)
    <3>1. CASE tx.op = "setContract"
      <4>1. resolver' = [resolver EXCEPT ![tx.resolver] = [@ EXCEPT ![tx.kind] = tx.to]]
        BY <2>1, <2>2, <3>1 DEF Execute
      <4>2. tx = [op |-> "setContract", resolver |-> tx.resolver, kind |-> tx.kind, to |-> tx.to]
        BY <2>2, <3>1 DEF DeployerTxs
      <4>3. "ReleaseRegister" \in Entries
        BY DEF Entries
      <4> QED
        BY <2>4, <4>1, <4>2, <4>3, NumbersAreNat DEF PublishOf
    <3>2. CASE tx.op # "setContract"
      BY <2>1, <2>2, <3>2 DEF Execute, coreVars
    <3> QED
      BY <3>1, <3>2
  <2>7. ASSUME NEW r \in Runs, resolver'[r]["ReleaseRegister"] = r
        PROVE  SubnetOwner \in registerAdmins'[r]
    <3>1. CASE tx = PublishOf(r)
      <4>1. SubnetOwner \in registerAdmins[r]
        BY <2>2, <3>1 DEF QueueInv
      <4> QED
        BY <2>5, <4>1
    <3> QED
      BY <2>5, <2>6, <2>7, <3>1
  <2>8. QueueInv'
    <3>1. SUFFICES ASSUME NEW r \in Runs, NEW i \in 1..Len(mempool')
                   PROVE  /\ mempool'[i] = PublishOf(r) =>
                                \/ SubnetOwner \in registerAdmins'[r]
                                \/ \E j \in 1..(i - 1) : mempool'[j] = GrantOf(r)
                          /\ mempool'[i] = GrantOf(r) =>
                                /\ Deployer \in registerAdmins'[r]
                                /\ \A j \in 1..(i - 1) : mempool'[j] # RenounceOf(r)
      BY DEF QueueInv
    <3>2. i + 1 \in 1..Len(mempool) /\ mempool[i + 1] = mempool'[i]
      BY <2>2
    <3>3. \A j \in 1..((i + 1) - 1) : j = 1 \/ (j - 1 \in 1..(i - 1) /\ mempool'[j - 1] = mempool[j])
      BY <2>2
    <3>4. \A j \in 1..(i - 1) : j + 1 \in 1..((i + 1) - 1) /\ mempool'[j] = mempool[j + 1]
      BY <2>2
    <3>5. ASSUME mempool'[i] = PublishOf(r)
          PROVE  \/ SubnetOwner \in registerAdmins'[r]
                 \/ \E j \in 1..(i - 1) : mempool'[j] = GrantOf(r)
      <4>1. \/ SubnetOwner \in registerAdmins[r]
            \/ \E j \in 1..((i + 1) - 1) : mempool[j] = GrantOf(r)
        BY <3>2, <3>5 DEF QueueInv
      <4> QED
        BY <2>5, <3>3, <4>1
    <3>6. ASSUME mempool'[i] = GrantOf(r)
          PROVE  /\ Deployer \in registerAdmins'[r]
                 /\ \A j \in 1..(i - 1) : mempool'[j] # RenounceOf(r)
      <4>1. /\ Deployer \in registerAdmins[r]
            /\ \A j \in 1..((i + 1) - 1) : mempool[j] # RenounceOf(r)
        BY <3>2, <3>6 DEF QueueInv
      <4>2. tx # RenounceOf(r)
        BY <2>2, <4>1
      <4> QED
        BY <2>5, <3>4, <4>1, <4>2
    <3> QED
      BY <3>5, <3>6
  <2>9. RolesInv'
    <3>1. \A r \in Runs : Untouched(r) => Untouched(r)'
      BY <2>3, <2>6 DEF Untouched
    <3>2. phase = "roles" => run \in Runs
      BY DEF TypeInv, ContractsInv
    <3> QED
      BY <2>1, <2>3, <2>5, <3>1, <3>2 DEF RolesInv, Untouched
  <2> QED
    BY <2>7, <2>8, <2>9
<1>11. CASE (\E tx \in walletTxs : MineWalletTx(tx)) \/ (\E s \in Runs : LockedByAnyone(s))
  BY <1>1, <1>11 DEF MineWalletTx, LockedByAnyone, runVars, txVars, coreVars
<1>12. CASE Next
  BY <1>3, <1>4, <1>5, <1>6, <1>8, <1>9, <1>10, <1>11, <1>12 DEF Next, ScriptNext
<1> QED
  BY <1>1, <1>12 DEF vars, runVars, txVars, coreVars

-----------------------------------------------------------------------------
(* The wallets of a run, and what is their own.                            *)

Preparing == {"resolver", "register", "roles", "deploy", "open", "resolve", "admin",
              "output", "fund"}

\* The script has sent, or is sending, the transactions of its wallets.
Staffed == \/ phase \in Staffing \ {"fund"}
           \/ phase \in Ending /\ config.staffed

Unused(r) ==
    /\ \A tx \in walletTxs : tx.wallet[1] # r
    /\ \A a \in approvals : a[1][1] # r
    /\ \A st \in stakes : st[1][1] # r

\* The wallets of a run deal with its own contracts; a stake of theirs shows
\* that the Staking of the run finds them.
OwnContracts ==
    /\ \A tx \in walletTxs : tx.wallet[1] = run =>
          tx.to = IF tx.op = "approve" THEN contracts["StakingBalances"] ELSE contracts["Staking"]
    /\ \A a \in approvals : a[1][1] = run => a[3] = contracts["StakingBalances"]
    /\ \A st \in stakes : st[1][1] = run =>
          /\ st[2] = contracts["StakingBalances"]
          /\ Lookup(contracts["Staking"], "StakingBalances") = contracts["StakingBalances"]

WalletsInv ==
    /\ \A r \in Runs : r > run \/ (r = run /\ phase \in Preparing) => Unused(r)
    /\ Staffed => mempool = <<>> /\ OwnContracts

LEMMA WalletsStep ==
    ASSUME TypeInv, WalletsInv, [Next]_vars
    PROVE  WalletsInv'
<1> USE DEF WalletsInv, Goto
<1>1. CASE UNCHANGED <<run, walletTxs, approvals, stakes>> /\ phase' \in Preparing /\ phase \in Preparing
  BY <1>1 DEF Unused, Staffed, Preparing, Staffing, Ending, WalletPhases
<1>2. CASE UNCHANGED <<run, walletTxs, approvals, stakes>> /\ phase' \notin Preparing /\ ~Staffed'
  BY <1>2 DEF Unused
<1>3. CASE /\ UNCHANGED <<run, contracts, resolverOf, mempool, resolver, walletTxs, approvals, stakes>>
           /\ phase' \in Preparing => phase \in Preparing
           /\ Staffed' => Staffed
  BY <1>3 DEF Unused, OwnContracts, Lookup
<1>4. CASE DeployResolver \/ DeployRegister \/ SendCore \/ Deploy \/ OpenStaking \/ Resolve
           \/ AddAdmin \/ WriteOutput
  <2>1. UNCHANGED <<run, config, walletTxs, approvals, stakes>> /\ phase \in Preparing
    BY <1>4 DEF DeployResolver, DeployRegister, SendCore, Deploy, OpenStaking, Resolve, AddAdmin,
                WriteOutput, Send, Preparing, runVars, txVars, stakingVars
  <2>2. phase' \in Preparing \/ (phase' = "configs" /\ ~config.staffed)
    BY <1>4 DEF DeployResolver, DeployRegister, SendCore, Deploy, OpenStaking, Resolve, AddAdmin,
                WriteOutput, GoOn, Preparing
  <2>3. phase' = "configs" /\ ~config.staffed => phase' \notin Preparing /\ ~Staffed'
    BY <2>1 DEF Staffed, Staffing, Ending, WalletPhases, Preparing
  <2> QED
    BY <1>1, <1>2, <2>1, <2>2, <2>3
<1>5. CASE AwaitWalletTxs \/ LockValidatorSet \/ HandOver \/ SaveConfigs \/ SaveWallets
  <2>1. /\ UNCHANGED <<run, config, contracts, resolverOf, mempool, resolver>>
        /\ UNCHANGED <<walletTxs, approvals, stakes>>
    BY <1>5 DEF AwaitWalletTxs, LockValidatorSet, HandOver, SaveConfigs, SaveWallets, Lock,
                runVars, txVars, coreVars, stakingVars
  <2>2. phase' \notin Preparing /\ phase' # "idle"
    BY <1>5 DEF AwaitWalletTxs, LockValidatorSet, HandOver, SaveConfigs, SaveWallets, GoOn, After,
                WalletPhases, Preparing
  <2>3. \/ phase \in Staffing \ {"fund"}
        \/ phase \in Ending /\ phase' \in Ending
    BY <1>5 DEF AwaitWalletTxs, LockValidatorSet, HandOver, SaveConfigs, SaveWallets,
                Staffing, Ending, WalletPhases
  <2>4. Staffed' => Staffed
    BY <2>1, <2>3 DEF Staffed, Staffing, Ending, WalletPhases
  <2> QED
    BY <1>3, <2>1, <2>2, <2>4
<1>6. CASE Fund
  <2>1. /\ phase = "fund" /\ phase' = "approve" /\ mempool = <<>>
        /\ UNCHANGED <<run, mempool, walletTxs, approvals, stakes>>
    BY <1>6 DEF Fund, InTurn, runVars, txVars, stakingVars
  <2>2. run \in Runs /\ phase \in Preparing /\ phase' \notin Preparing
    BY <2>1 DEF TypeInv, ContractsInv, Preparing
  <2>3. Unused(run)
    BY <2>2
  <2>4. OwnContracts'
    BY <2>1, <2>3 DEF OwnContracts, Unused
  <2>5. \A r : Unused(r)' <=> Unused(r)
    BY <2>1 DEF Unused
  <2> QED
    BY <2>1, <2>2, <2>4, <2>5
<1>7. ASSUME NEW c, NEW kept, NEW r, Begin(c, kept, r)
      PROVE  WalletsInv'
  <2>1. /\ UNCHANGED <<walletTxs, approvals, stakes>>
        /\ run \in Nat /\ run' = run + 1 /\ phase' \in {"resolver", "deploy"}
    BY <1>7, NumbersAreNat DEF Begin, TypeInv, ContractsInv, txVars, stakingVars
  <2>2. \A x \in Runs : (x > run' \/ x = run') => x > run
    BY <2>1, NumbersAreNat
  <2>3. \A x : Unused(x)' <=> Unused(x)
    BY <2>1 DEF Unused
  <2>4. ~Staffed'
    BY <2>1 DEF Staffed, Staffing, Ending, WalletPhases
  <2> QED
    BY <2>2, <2>3, <2>4
<1>8. CASE Fail
  BY <1>8, <1>2 DEF Fail, runVars, txVars, stakingVars, Preparing, Staffed, Staffing, Ending,
                    WalletPhases
<1>9. CASE SendWalletTx
  <2>1. /\ phase \in WalletPhases /\ run \in Runs
        /\ UNCHANGED <<run, phase, config, contracts, resolverOf, mempool, resolver, approvals, stakes>>
    BY <1>9 DEF SendWalletTx, WalletPhases, TypeInv, ContractsInv, runVars, coreVars, stakingVars
  <2>2. PICK tx : /\ walletTxs' = walletTxs \cup {tx}
                  /\ tx.wallet[1] = run
                  /\ tx.to = IF tx.op = "approve" THEN contracts["StakingBalances"]
                                                  ELSE contracts["Staking"]
    <3> DEFINE tx == [op |-> phase, wallet |-> <<run, step>>, token |-> contracts["LITToken"],
                      to |-> IF phase = "approve" THEN contracts["StakingBalances"]
                                                  ELSE contracts["Staking"]]
    <3>1. walletTxs' = walletTxs \cup {tx}
      BY <1>9 DEF SendWalletTx
    <3>2. tx.wallet[1] = run /\ tx.to = IF tx.op = "approve" THEN contracts["StakingBalances"]
                                                              ELSE contracts["Staking"]
      OBVIOUS
    <3> QED
      BY <3>1, <3>2
  <2>3. Staffed /\ phase \notin Preparing
    BY <2>1 DEF Staffed, Staffing, WalletPhases, Preparing
  <2>4. OwnContracts'
    BY <2>1, <2>2, <2>3 DEF OwnContracts, Lookup
  <2>5. \A r \in Runs : r > run /\ Unused(r) => Unused(r)'
    BY <2>1, <2>2, NumbersAreNat DEF Unused
  <2> QED
    BY <2>1, <2>3, <2>4, <2>5
<1>10. ASSUME NEW tx \in walletTxs, MineWalletTx(tx)
       PROVE  WalletsInv'
  <2>1. /\ UNCHANGED <<run, phase, config, contracts, resolverOf, mempool, resolver>>
        /\ walletTxs' \subseteq walletTxs
        /\ \A a \in approvals' :
              a \in approvals \/ (tx.op = "approve" /\ a = <<tx.wallet, tx.token, tx.to>>)
        /\ \A st \in stakes' :
              st \in stakes \/ \E x \in BalancesOf(tx.to) :
                  /\ st = <<tx.wallet, x>> /\ tx.op = "stake"
                  /\ <<tx.wallet, Lookup(x, "LITToken"), x>> \in approvals
    BY <1>10 DEF MineWalletTx, runVars, coreVars
  <2>2. \A r : Unused(r) => Unused(r)'
    <3>1. \A a \in approvals' : a \in approvals \/ a[1] = tx.wallet
      BY <2>1
    <3>2. \A st \in stakes' : st \in stakes \/ st[1] = tx.wallet
      <4>1. ASSUME NEW st \in stakes', st \notin stakes
            PROVE  st[1] = tx.wallet
        <5>1. PICK x : st = <<tx.wallet, x>>
          BY <2>1, <4>1
        <5> QED
          BY <5>1
      <4> QED
        BY <4>1
    <3> QED
      BY <2>1, <3>1, <3>2 DEF Unused
  <2>3. Staffed' => Staffed
    BY <2>1 DEF Staffed
  <2>4. ASSUME Staffed, NEW st \in stakes', st \notin stakes, tx.wallet[1] = run
        PROVE  /\ st[2] = contracts["StakingBalances"]
               /\ Lookup(contracts["Staking"], "StakingBalances") = contracts["StakingBalances"]
    <3>1. PICK x \in BalancesOf(tx.to) :
             /\ st = <<tx.wallet, x>> /\ tx.op = "stake"
             /\ <<tx.wallet, Lookup(x, "LITToken"), x>> \in approvals
      BY <2>1, <2>4
    <3>2. x = contracts["StakingBalances"]
      BY <2>4, <3>1 DEF OwnContracts
    <3>3. x = Lookup(tx.to, "StakingBalances") /\ tx.to = contracts["Staking"]
      BY <2>4, <3>1 DEF OwnContracts, BalancesOf
    <3> QED
      BY <3>1, <3>2, <3>3
  <2>5. ASSUME Staffed
        PROVE  OwnContracts'
    <3>1. \A a \in approvals' : a[1][1] = run => a[3] = contracts["StakingBalances"]
      BY <2>1, <2>5 DEF OwnContracts
    <3>2. ASSUME NEW st \in stakes', st[1][1] = run
          PROVE  /\ st[2] = contracts["StakingBalances"]
                 /\ Lookup(contracts["Staking"], "StakingBalances") = contracts["StakingBalances"]
      <4>1. CASE st \in stakes
        BY <2>5, <3>2, <4>1 DEF OwnContracts
      <4>2. CASE st \notin stakes
        <5>1. PICK x : st = <<tx.wallet, x>>
          BY <2>1, <4>2
        <5>2. tx.wallet[1] = run
          BY <3>2, <5>1
        <5> QED
          BY <2>4, <2>5, <4>2, <5>2
      <4> QED
        BY <4>1, <4>2
    <3>3. \A st \in stakes' : st[1][1] = run =>
             /\ st[2] = contracts["StakingBalances"]
             /\ Lookup(contracts["Staking"], "StakingBalances") = contracts["StakingBalances"]
      BY <3>2
    <3>4. \A s, k : Lookup(s, k)' = Lookup(s, k)
      BY <2>1 DEF Lookup
    <3> QED
      BY <2>1, <2>5, <3>1, <3>3, <3>4 DEF OwnContracts
  <2> QED
    BY <2>1, <2>2, <2>3, <2>5
<1>11. CASE Mine
  <2>1. /\ UNCHANGED <<run, phase, config, walletTxs, approvals, stakes>> /\ mempool # <<>>
    BY <1>11 DEF Mine, runVars, stakingVars
  <2>2. ~Staffed'
    BY <2>1 DEF Staffed
  <2> QED
    BY <2>1, <2>2 DEF Unused
<1>12. CASE \E s \in Runs : LockedByAnyone(s)
  BY <1>3, <1>12 DEF LockedByAnyone, Lock, runVars, txVars, coreVars, Staffed
<1>13. CASE UNCHANGED vars
  BY <1>3, <1>13 DEF vars, runVars, txVars, coreVars, stakingVars, Staffed
<1>14. CASE Next
  BY <1>4, <1>5, <1>6, <1>7, <1>8, <1>9, <1>10, <1>11, <1>12, <1>14 DEF Next, ScriptNext
<1> QED
  BY <1>13, <1>14

-----------------------------------------------------------------------------
(* How far the script has come with its wallets.                           *)

AllStaked == \A i \in 1..(Joined + StakedOnly) : \E b \in Runs : <<<<run, i>>, b>> \in stakes
AllJoined == \A i \in 1..Joined : <<run, i>> \in nextSet[contracts["Staking"]]
IsLocked == staking[contracts["Staking"]] = "NextValidatorSetLocked"
IsHandedOver == owner["Staking"][contracts["Staking"]] = NewOwner
Ended == phase \in Ending /\ config.staffed

ProgressInv ==
    /\ phase \in Staffing => config.staffed
    /\ phase \in {"join", "lock", "handover"} \/ Ended => AllStaked
    /\ phase \in {"lock", "handover"} \/ Ended => AllJoined
    /\ phase = "handover" \/ Ended => IsLocked
    /\ (phase = "handover" /\ step > 2) \/ (Ended /\ config.handsOver) => IsHandedOver
    /\ phase \in {"wallets", "done"} /\ config.staffed => configsOf = run
    /\ phase = "done" /\ config.staffed =>
          \A i \in 1..(Joined + StakedOnly) : <<run, i>> \in savedWallets

LEMMA ProgressStep ==
    ASSUME TypeInv, ProgressInv, [Next]_vars
    PROVE  ProgressInv'
<1> USE DEF ProgressInv, Ended, Staffing, Ending, WalletPhases, Goto
<1>1. CASE /\ UNCHANGED <<run, phase, step, config, contracts, owner, configsOf, savedWallets>>
           /\ stakes \subseteq stakes'
           /\ \A s \in Runs : nextSet[s] \subseteq nextSet'[s]
           /\ IsLocked => IsLocked'
  <2>1. AllStaked => AllStaked'
    BY <1>1 DEF AllStaked
  <2>2. phase \in {"lock", "handover"} \cup Ending => contracts["Staking"] \in Runs
    BY ContractsAreRuns, ContextKindsAreKinds DEF TypeInv, AfterDeploy, Publishing, AfterOutput
  <2>3. phase \in {"lock", "handover"} \cup Ending /\ AllJoined => AllJoined'
    BY <1>1, <2>2 DEF AllJoined
  <2> QED
    BY <1>1, <2>1, <2>3 DEF IsHandedOver
<1>2. CASE phase' \notin Staffing \cup Ending
  BY <1>2
<1>3. CASE Fail \/ DeployResolver \/ DeployRegister \/ SendCore \/ Deploy \/ OpenStaking
           \/ Resolve \/ AddAdmin \/ \E c, kept, r : Begin(c, kept, r)
  BY <1>2, <1>3 DEF Fail, DeployResolver, DeployRegister, SendCore, Deploy, OpenStaking, Resolve,
                    AddAdmin, Begin, GoOn
<1>4. CASE WriteOutput
  BY <1>4 DEF WriteOutput, runVars
<1>5. CASE Fund \/ SendWalletTx
  BY <1>5 DEF Fund, SendWalletTx, AllStaked, runVars, stakingVars
<1>6. CASE AwaitWalletTxs
  <2>1. /\ UNCHANGED <<run, config, contracts, nextSet, stakes>> /\ AllMined
        /\ phase \in WalletPhases /\ phase' = After[phase]
    BY <1>6 DEF AwaitWalletTxs, runVars, stakingVars
  <2>2. phase = "stake" => AllStaked
    BY <2>1 DEF AllMined, IsMined, Number, AllStaked
  <2>3. phase = "join" => AllJoined
    BY <2>1 DEF AllMined, IsMined, Number, AllJoined
  <2>4. (AllStaked => AllStaked') /\ (AllJoined => AllJoined')
    BY <2>1 DEF AllStaked, AllJoined
  <2> QED
    BY <2>1, <2>2, <2>3, <2>4 DEF After
<1>7. CASE LockValidatorSet
  <2>1. /\ UNCHANGED <<run, config, contracts, nextSet, stakes>> /\ phase = "lock"
        /\ staking' = [staking EXCEPT ![contracts["Staking"]] = "NextValidatorSetLocked"]
        /\ \/ phase' = "handover" /\ step' = 1
           \/ phase' = "configs" /\ ~config.handsOver
    BY <1>7 DEF LockValidatorSet, Lock, runVars
  <2>2. contracts["Staking"] \in Runs /\ DOMAIN staking = Runs
    BY <2>1, ContractsAreRuns, ContextKindsAreKinds
       DEF TypeInv, ChainInv, AfterDeploy, Publishing, AfterOutput
  <2>3. IsLocked' /\ (AllStaked => AllStaked') /\ (AllJoined => AllJoined')
    BY <2>1, <2>2 DEF IsLocked, AllStaked, AllJoined
  <2> QED
    BY <2>1, <2>3
<1>8. CASE HandOver
  <2>1. /\ UNCHANGED <<run, config, contracts, nextSet, staking, stakes>> /\ phase = "handover"
        /\ step \in 1..9
        /\ \/ phase' = "configs" /\ step = 9
           \/ phase' = "handover" /\ step' = step + 1
    BY <1>8, HandoverOrderIsOfKinds
       DEF HandOver, GoOn, TypeInv, StepsInv, runVars, stakingVars
  <2>2. /\ (AllStaked => AllStaked') /\ (AllJoined => AllJoined')
        /\ (IsLocked => IsLocked')
    BY <2>1 DEF IsLocked, AllStaked, AllJoined
  <2>3. /\ owner \in [Kinds -> [Runs -> {NoOne, Deployer, NewOwner}]]
        /\ contracts \in [Kinds -> Runs] /\ "Staking" \in Kinds
        /\ HandoverOrder[step] \in Kinds
    BY <2>1, ContractsAreRuns, ContextKindsAreKinds, HandoverOrderIsOfKinds
       DEF TypeInv, ChainInv, AfterDeploy, Publishing, AfterOutput
  <2>4. step = 2 \/ IsHandedOver => IsHandedOver'
    <3>1. CASE HandoverOrder[step] = "Staking"
      BY <1>8, <2>1, <2>3, <3>1 DEF HandOver, HandsOver, IsHandedOver
    <3>2. CASE HandoverOrder[step] # "Staking"
      <4>1. step # 2
        BY <3>2 DEF HandoverOrder
      <4>2. owner'["Staking"] = owner["Staking"]
        BY <1>8, <2>3, <3>2 DEF HandOver
      <4> QED
        BY <2>1, <4>1, <4>2 DEF IsHandedOver
    <3> QED
      BY <3>1, <3>2
  <2> QED
    BY <2>1, <2>2, <2>4
<1>9. CASE SaveConfigs \/ SaveWallets
  <2>1. /\ UNCHANGED <<run, config, contracts, nextSet, staking, stakes, owner>>
        /\ \/ /\ phase = "configs" /\ phase' = "wallets"
              /\ config.staffed => configsOf' = run
           \/ /\ phase = "wallets" /\ phase' = "done" /\ UNCHANGED configsOf
              /\ config.staffed => {w \in Wallets : w[1] = run} \subseteq savedWallets'
    BY <1>9 DEF SaveConfigs, SaveWallets, runVars, stakingVars
  <2>2. /\ (AllStaked => AllStaked') /\ (AllJoined => AllJoined')
        /\ (IsLocked => IsLocked') /\ (IsHandedOver => IsHandedOver')
    BY <2>1 DEF IsLocked, AllStaked, AllJoined, IsHandedOver
  <2>3. \A i \in 1..(Joined + StakedOnly) : <<run, i>> \in Wallets
    BY <2>1 DEF Wallets, TypeInv, ContractsInv
  <2> QED
    BY <2>1, <2>2, <2>3
<1>10. CASE Mine
  BY <1>1, <1>10 DEF Mine, IsLocked, runVars, stakingVars, fileVars
<1>11. ASSUME NEW tx \in walletTxs, MineWalletTx(tx)
       PROVE  ProgressInv'
  <2>1. /\ UNCHANGED <<run, phase, step, config, contracts, owner, configsOf, savedWallets, staking>>
        /\ stakes \subseteq stakes'
        /\ UNCHANGED nextSet \/ nextSet' = [nextSet EXCEPT ![tx.to] = @ \cup {tx.wallet}]
    BY <1>11 DEF MineWalletTx, runVars, fileVars
  <2>2. \A s \in Runs : nextSet[s] \subseteq nextSet'[s]
    BY <2>1 DEF TypeInv, ChainInv
  <2> QED
    BY <1>1, <2>1, <2>2 DEF IsLocked
<1>12. ASSUME NEW s \in Runs, LockedByAnyone(s)
       PROVE  ProgressInv'
  <2>1. /\ UNCHANGED <<run, phase, step, config, contracts, owner, configsOf, savedWallets>>
        /\ UNCHANGED <<stakes, nextSet>>
        /\ staking[s] = "Active" /\ staking' = [staking EXCEPT ![s] = "NextValidatorSetLocked"]
    BY <1>12 DEF LockedByAnyone, Lock, MayLock, runVars, fileVars
  <2>2. IsLocked => IsLocked'
    BY <2>1 DEF IsLocked
  <2> QED
    BY <1>1, <2>1, <2>2
<1>13. CASE UNCHANGED vars
  BY <1>1, <1>13 DEF vars, runVars, stakingVars, fileVars, IsLocked
<1>14. CASE Next
  BY <1>3, <1>4, <1>5, <1>6, <1>7, <1>8, <1>9, <1>10, <1>11, <1>12, <1>14 DEF Next, ScriptNext
<1> QED
  BY <1>13, <1>14

LEMMA WalletsAreReady ==
    TypeInv /\ RecordsInv /\ WalletsInv /\ ProgressInv => ValidatorsCanRun
<1> SUFFICES ASSUME TypeInv, RecordsInv, WalletsInv, ProgressInv, phase = "done", config.staffed
             PROVE  ValidatorsCanRun
  BY DEF ValidatorsCanRun
<1> DEFINE s == contracts["Staking"]
<1>1. Ended /\ Staffed /\ phase \in AfterOutput
  BY DEF Ended, Staffed, Ending, AfterOutput
<1>2. AllStaked /\ AllJoined /\ IsLocked /\ (config.handsOver => IsHandedOver) /\ configsOf = run
  BY <1>1 DEF ProgressInv
<1>3. OwnContracts /\ outputFile = contracts
  BY <1>1 DEF WalletsInv, RecordsInv
<1>4. ASSUME NEW i \in 1..(Joined + StakedOnly)
      PROVE  /\ <<<<run, i>>, contracts["StakingBalances"]>> \in stakes
             /\ Lookup(s, "StakingBalances") = contracts["StakingBalances"]
  <2>1. PICK b \in Runs : <<<<run, i>>, b>> \in stakes
    BY <1>2 DEF AllStaked
  <2>2. b = contracts["StakingBalances"] /\ Lookup(s, "StakingBalances") = contracts["StakingBalances"]
    BY <1>3, <2>1 DEF OwnContracts
  <2> QED
    BY <2>1, <2>2
<1>5. 1 \in 1..(Joined + StakedOnly)
  BY DeploymentAssumption
<1>6. \A i \in 1..(Joined + StakedOnly) : i <= Joined => i \in 1..Joined
  BY DeploymentAssumption
<1> QED
  BY <1>2, <1>3, <1>4, <1>5, <1>6
     DEF ValidatorsCanRun, AllJoined, IsLocked, IsHandedOver, ProgressInv

-----------------------------------------------------------------------------
(* The owners of the contracts.                                            *)

\* Nobody owns what is not deployed yet.
OwnersInv ==
    /\ \A r \in Runs : r > run => \A k \in Kinds : owner[k][r] = NoOne
    /\ phase \in {"resolver", "register", "roles"} => \A k \in Kinds : owner[k][run] = NoOne
    /\ phase = "deploy" => \A j \in step..16 : owner[DeployOrder[j]][run] = NoOne

LEMMA DeployedIsNew ==
    ASSUME TypeInv, Deploy
    PROVE  /\ run \in Runs /\ step \in 1..16 /\ DeployOrder[step] \in Kinds
           /\ \A k \in Kinds, r \in Runs :
                owner'[k][r] = owner[k][r] \/ (k = DeployOrder[step] /\ r = run)
<1>1. run \in Runs /\ step \in 1..16 /\ DeployOrder[step] \in Kinds
  BY DeployOrderIsComplete DEF Deploy, TypeInv, StepsInv, ContractsInv
<1>2. owner \in [Kinds -> [Runs -> {NoOne, Deployer, NewOwner}]]
  BY DEF TypeInv, ChainInv
<1> QED
  BY <1>1, <1>2 DEF Deploy

LEMMA HandedOverIsOwn ==
    ASSUME TypeInv, HandOver, NEW k \in Kinds, NEW r \in Runs, owner'[k][r] # owner[k][r]
    PROVE  /\ owner[k][r] = Deployer
           /\ r = run \/ k = "Staking"
           /\ phase = "handover"
<1>1. phase = "handover" /\ HandoverOrder[step] \in Kinds /\ contracts \in [Kinds -> Runs]
  BY HandoverOrderIsOfKinds, ContractsAreRuns
     DEF HandOver, TypeInv, StepsInv, AfterDeploy, Publishing, AfterOutput, Staffing
<1>2. owner \in [Kinds -> [Runs -> {NoOne, Deployer, NewOwner}]]
  BY DEF TypeInv, ChainInv
<1>3. /\ k = HandoverOrder[step] /\ r = contracts[k] /\ HandsOver(k)
      /\ owner[k][r] = Deployer
  BY <1>1, <1>2 DEF HandOver
<1>4. contracts[k] = Chosen(k)
  BY <1>1 DEF TypeInv, ContractsInv, AfterDeploy, Publishing, AfterOutput, Staffing
<1>5. k = "Allowlist" => Kept(k) = NoContract
  BY DEF Kept, FoundAgain
<1> QED
  BY <1>1, <1>3, <1>4, <1>5 DEF HandsOver, Chosen

LEMMA OwnersStep ==
    ASSUME TypeInv, OwnersInv, [Next]_vars
    PROVE  OwnersInv'
<1> USE DEF OwnersInv, Goto
<1>1. CASE UNCHANGED <<run, owner>> /\ phase' \notin {"resolver", "register", "roles", "deploy"}
  BY <1>1
<1>2. CASE UNCHANGED <<run, owner, phase, step>>
  BY <1>2
<1>3. CASE Fail \/ OpenStaking \/ Resolve \/ AddAdmin \/ WriteOutput \/ Fund \/ SendWalletTx
           \/ AwaitWalletTxs \/ LockValidatorSet \/ SaveConfigs \/ SaveWallets
  <2>1. UNCHANGED <<run, owner>>
    BY <1>3 DEF Fail, OpenStaking, Resolve, AddAdmin, WriteOutput, Fund, SendWalletTx,
                AwaitWalletTxs, LockValidatorSet, SaveConfigs, SaveWallets, runVars
  <2>2. phase' \notin {"resolver", "register", "roles", "deploy"}
    BY <1>3 DEF Fail, OpenStaking, Resolve, AddAdmin, WriteOutput, Fund, SendWalletTx,
                AwaitWalletTxs, LockValidatorSet, SaveConfigs, SaveWallets, GoOn, After, WalletPhases
  <2> QED
    BY <1>1, <2>1, <2>2
<1>4. ASSUME NEW c, NEW kept, NEW r, Begin(c, kept, r)
      PROVE  OwnersInv'
  <2>1. /\ UNCHANGED owner /\ run \in Nat /\ run' = run + 1 /\ phase' \in {"resolver", "deploy"}
        /\ run' \in Runs
    BY <1>4, NumbersAreNat DEF Begin, TypeInv, ContractsInv, Runs
  <2>2. \A x \in Runs : (x > run' \/ x = run') => \A k \in Kinds : owner[k][x] = NoOne
    BY <2>1, NumbersAreNat
  <2>3. \A j \in step'..16 : DeployOrder[j] \in Kinds
    BY <1>4, DeployOrderIsComplete DEF Begin
  <2> QED
    BY <2>1, <2>2, <2>3
<1>5. CASE DeployResolver \/ DeployRegister \/ SendCore
  <2>1. /\ UNCHANGED <<run, owner>> /\ phase \in {"resolver", "register", "roles"}
        /\ phase' \in {"register", "roles"} \/ (phase' = "deploy" /\ step' = 1)
    BY <1>5 DEF DeployResolver, DeployRegister, SendCore, GoOn, runVars
  <2> QED
    BY <2>1, DeployOrderIsComplete
<1>6. CASE Deploy
  <2>1. /\ UNCHANGED run /\ phase = "deploy"
        /\ phase' = "open" \/ (phase' = "deploy" /\ step' = step + 1)
    BY <1>6 DEF Deploy, GoOn, runVars
  <2>2. \A r \in Runs : r > run => r # run
    BY <1>6, DeployedIsNew, NumbersAreNat
  <2>3. \A j \in (step + 1)..16 : DeployOrder[j] \in Kinds /\ DeployOrder[j] # DeployOrder[step]
                                /\ j \in step..16
    BY <1>6, DeployedIsNew, DeployOrderIsComplete
  <2> QED
    BY <1>6, <2>1, <2>2, <2>3, DeployedIsNew
<1>7. CASE HandOver
  <2>1. /\ UNCHANGED run /\ phase' \in {"handover", "configs"}
    BY <1>7 DEF HandOver, GoOn, runVars
  <2>2. \A k \in Kinds, r \in Runs : owner[k][r] = NoOne => owner'[k][r] = NoOne
    BY <1>7, HandedOverIsOwn, DeploymentAssumption
  <2> QED
    BY <2>1, <2>2
<1>8. CASE Mine \/ (\E tx \in walletTxs : MineWalletTx(tx)) \/ (\E s \in Runs : LockedByAnyone(s))
  BY <1>2, <1>8 DEF Mine, MineWalletTx, LockedByAnyone, runVars
<1>9. CASE Next
  BY <1>3, <1>4, <1>5, <1>6, <1>7, <1>8, <1>9 DEF Next, ScriptNext
<1> QED
  BY <1>2, <1>9 DEF vars, runVars

LEMMA OwnershipStep ==
    ASSUME TypeInv, OwnersInv, ProgressInv, Next, NEW k \in Kinds, NEW r \in Runs
    PROVE  owner[k][r] \in {owner'[k][r], NoOne} \/ Transferable(k, r)
<1>1. CASE Deploy
  BY <1>1, DeployedIsNew DEF OwnersInv, Deploy
<1>2. CASE HandOver
  BY <1>2, HandedOverIsOwn DEF ProgressInv, AllJoined, IsLocked, Transferable
<1>3. CASE UNCHANGED owner
  BY <1>3
<1>4. Next => UNCHANGED owner \/ Deploy \/ HandOver
  BY DEF Next, ScriptNext, Begin, Fail, DeployResolver, DeployRegister, SendCore, OpenStaking, Resolve,
         AddAdmin, WriteOutput, Fund, SendWalletTx, AwaitWalletTxs, LockValidatorSet, SaveConfigs,
         SaveWallets, Mine, MineWalletTx, LockedByAnyone
<1> QED
  BY <1>1, <1>2, <1>3, <1>4

-----------------------------------------------------------------------------

DeploymentInv ==
    /\ TypeInv /\ RecordsInv /\ RegisterInv
    /\ WalletsInv /\ ProgressInv /\ OwnersInv

LEMMA DeploymentStarts == Init => DeploymentInv
<1> SUFFICES ASSUME Init PROVE DeploymentInv
  OBVIOUS
<1>1. TypeInv
  BY InitType
<1>2. phase = "idle" /\ mempool = <<>> /\ Len(mempool) = 0
  BY DEF Init
<1>3. RecordsInv
  BY <1>2 DEF RecordsInv, Publishing, AfterOutput, Staffing, Ending, WalletPhases
<1>4. RegisterInv
  <2>1. \A r \in Runs : r \in Addresses /\ r # 0 /\ "ReleaseRegister" \in Entries
    BY NumbersAreNat DEF Runs, Entries
  <2>2. \A r \in Runs : resolver[r]["ReleaseRegister"] = 0
    BY <2>1 DEF Init, NoContract
  <2> QED
    BY <1>2, <2>1, <2>2
       DEF RegisterInv, RegisterHasOwner, QueueInv, RolesInv, Untouched, UnderWay
<1>5. WalletsInv
  BY <1>2 DEF Init, WalletsInv, Staffed, Unused, Staffing, Ending, WalletPhases
<1>6. ProgressInv
  BY <1>2 DEF ProgressInv, Ended, Staffing, Ending, WalletPhases
<1>7. OwnersInv
  BY <1>2 DEF Init, OwnersInv
<1> QED
  BY <1>1, <1>3, <1>4, <1>5, <1>6, <1>7 DEF DeploymentInv

LEMMA DeploymentInvariant == DeploymentSpec => []DeploymentInv
<1>1. DeploymentInv /\ [Next]_vars => DeploymentInv'
  BY TypeStep, RecordsStep, RegisterStep, WalletsStep, ProgressStep, OwnersStep DEF DeploymentInv
<1> QED
  BY <1>1, DeploymentStarts, PTL DEF DeploymentSpec

(* The variables keep their types, for any number of runs.                 *)
THEOREM DeploymentTypeCorrect == DeploymentSpec => []DeploymentTypeOK
<1>1. DeploymentInv => DeploymentTypeOK
  BY TypeIsType DEF DeploymentInv
<1> QED
  BY <1>1, DeploymentInvariant, PTL

(* Output file, network context and resolver agree after a run that ends   *)
(* well, however many have died before.                                    *)
THEOREM RecordsCorrect == DeploymentSpec => []RecordsAgree
<1>1. DeploymentInv => RecordsAgree
  BY RecordsAreKept DEF DeploymentInv
<1> QED
  BY <1>1, DeploymentInvariant, PTL

(* The validators of a run that ends well can run, for any number of them. *)
THEOREM ValidatorsCorrect == DeploymentSpec => []ValidatorsCanRun
<1>1. DeploymentInv => ValidatorsCanRun
  BY WalletsAreReady DEF DeploymentInv
<1> QED
  BY <1>1, DeploymentInvariant, PTL

(* A release register that can be found is its subnet owner's.             *)
THEOREM RegisterCorrect == DeploymentSpec => []RegisterHasOwner
<1>1. DeploymentInv => RegisterHasOwner
  BY DEF DeploymentInv, RegisterInv
<1> QED
  BY <1>1, DeploymentInvariant, PTL

(* Ownership moves only as the handover of a run moves it.                 *)
THEOREM OwnershipCorrect == DeploymentSpec => OwnershipMoves
<1>1. DeploymentInv /\ [Next]_vars =>
        [\A kind \in Kinds, at \in Runs :
            owner[kind][at] \in {owner'[kind][at], NoOne} \/ Transferable(kind, at)]_vars
  BY OwnershipStep DEF DeploymentInv
<1> QED
  BY <1>1, DeploymentInvariant, PTL DEF DeploymentSpec, OwnershipMoves

=============================================================================
