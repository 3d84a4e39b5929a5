# A verification of LitNodeContracts

LitNodeContracts is the on-chain half of a threshold-key network.  Validators
stake LIT tokens, form the set that holds the shares of the root keys, and hand
those shares to the set of the next epoch; the other contracts register root
keys and key-pair tokens (PKPs), say who may use them, recover keys from
backups, and sell request capacity; scripts deploy it, staff it with its first
validators and upgrade it.  This directory has TLA+ models of the contracts and
of those scripts, the TLC configurations that check them on small instances,
and proofs by TLAPS that what matters most holds for every instance.

Run, in this directory: `tlc -config MCStakingEpochs.cfg MCStaking` (and so on,
see "Runs"), `tlapm StakingProofs.tla` (see "Proofs").

## 1. The system

Every contract but the smallest is a diamond (EIP-2535): a proxy that delegates
to facets, over one storage struct.  A transaction is atomic and serialised by
the chain, so **the unit of interleaving is one external function**, with every
call it makes on other contracts; a `revert` undoes all of it.  Concurrency is
between stakers, nodes, anybody (lock and advance may be called by anyone) and
the owner, whose transactions may come in any order; time passes in between,
nodes crash, and their transactions arrive late.  The scripts are processes of
their own: they send transactions, for some of which they do not wait, keep
what they know in memory or in files, and may die between any two steps.

| component | state | operations | hard part | what makes it correct |
|---|---|---|---|---|
| Staking | epoch (number, end, retries), phase, current and next validator sets, two kicked sets, ready flags, votes to kick, registry of nodes and keys | stake, join, leave, lock, signal, advance, kick by vote, unlock; the owner kicks, rejoins, slashes, resets, forces the phase | kicks race the key resharing; flags and kicked sets are kept up by hand in six functions; liveness when nodes crash | the set being reshared is stable; a resharing threshold of the old set remains; a handover has the consent of the old quorum, given in that round; kicked stay out; epochs end |
| StakingBalances | stakes and their total, penalties, rewards, aliases and their counts, permitted stakers, limits | stake, withdraw, penalise, reward, add and remove alias; the owner moves penalties, restakes, sets limits | totals are never recomputed; aliases are resolved anew by each call | tokens held cover stakes and penalties; total = sum; nobody is paid out of another's stake; no double reward |
| PubkeyRouter | votes per root key, root keys, routing data of tokens | voteForRootKeys, setRoutingData, checkNodeSignatures | votes span changes of the validator set; keys are adopted one by one under one guard | every routed key is derived from the keys adopted; a routed key stays |
| BackupRecovery | proposed party, member-to-node maps, recovery keys and votes for them, current and past backups | register a party, become a node of it, vote keys in, submit key sets and proofs | maps in two directions, votes and key sets that arrive after their party was replaced | peers are paired; the keys of a DKG have the votes of its peers; only the present party counts; no backup is dropped |
| PKPNFT, PKPPermissions, PKPHelper | tokens, permitted auth methods and scopes, reverse index | mint, claim, transfer, burn; add, remove, batches; all of it in one transaction | two indexes; a record shared by all tokens; ids that depend on a supply that burning lowers | the indexes agree; a burned token is sealed; every key is derived from the root keys |
| RateLimitNFT | capacity per token, expiry | mint, burn, views of capacity sold | capacity sold overlaps in time | never above the maximum |
| PaymentDelegation, WLIT | payers and users; wrapped balances | delegate, undelegate; deposit, withdraw | two mirrored lists | mirror; backing |
| DomainWalletRegistry | domains, owners, expiry | register, revoke, renew | revoked and expired entries | a domain has one live owner |
| ReleaseRegister | releases, active one per kind | create, activate, burn | burn of an active one | the active release exists |
| Diamond library and facets | selectors of facets, with positions; owner | add, replace, remove; transfer | swap-and-pop; a cut that reverts half way | positions and lists agree |
| Upgrade scripts | manifest, failed operations, sources and artifacts at hand | replace, remove, add, for each facet | requests that fail though they are mined; sources that change under the script; a crash and a second run | functions go to contracts that have them; every facet is installed or reported |
| Deployment scripts | contracts and keys in memory, three files, transactions under way | deploy, register, fund, stake, join, lock, hand over, save | transactions nobody waits for; a crash anywhere and a second run that keeps contracts | files and resolver agree; validators can run; what was deployed has its owner |
| the rest | see `components` in PROJECT.json | | | |

Interactions: `Staking` calls `StakingBalances` (stake, withdraw, reward,
penalise, exit), which reads the current set back from `Staking`;
`PubkeyRouter` and `BackupRecovery` ask `Staking` who validates; `PKPNFT` asks
`PubkeyRouter` whether a root key exists, `PKPPermissions` whether a token
does; `ContractResolver` gives everyone everyone's address, as the deployment
scripts wrote it; the upgrade scripts change what a diamond forwards to.

## 2. Modules

| module | what it is |
|---|---|
| `StakingBalances` | the StakingBalances diamond: state, the functions of anyone and of the owner as actions, the functions only Staking may call as handlers |
| `Staking` | EXTENDS it: the epoch machine and the registry; one action per function, conjoined with the handlers it calls; `Next` has what stakers, nodes and anyone do |
| `StakingProperties` | the invariants and action property of the epoch machine |
| `StakingAdmin` | the owner's functions, at any moment; `AdminSpec`; two properties that survive even that |
| `StakingEstablished` | the same system observed from its second epoch on (`EstablishedInit`), so that runs reach the interesting part |
| `StakingTokens` | properties of tokens across both diamonds |
| `StakingNodes` | the system driven by nodes that crash, with the fairness of the nodes |
| `StakingClaims` | a statement of the repository that the code does not keep |
| `EpochHandover` | the abstract specification of a committee handing over its shares |
| `StakingRefinement` | the mapping under which Staking implements it |
| `StakingTypeProofs`, `StakingProofs`, `StakingTokenProofs` | theorems: the types; the epoch machine, its refinement, its nodes; the tokens |
| `SumTheorems` | sums over a finite set: what the token proofs need of the community modules' `MapThenSumSet` |
| `BackupRecovery` | recovery parties, their nodes, keys and backups; nodes that vote for any list of the keys there are, members that submit any key; `FairSpec` adds the fairness of the nodes |
| `BackupRecoveryProperties`, `BackupRecoveryProofs` | its properties and theorems |
| `PubkeyRouter` | the vote for the root keys and the routing of tokens |
| `PKPNFT` | EXTENDS it: tokens, and the mint and claim that route them |
| `PKPPermissions` | EXTENDS that: auth methods, scopes, the reverse index, PKPHelper; `Spec` of the three together |
| `PKPProperties`, `PKPProofs` | their properties and theorems |
| `Diamond` | LibDiamond: routes, the list beside them, a call of diamondCut selector by selector; `DiamondSpec` is any owner making any cuts |
| `DiamondUpgrade`, `DiamondProofs` | EXTENDS it: tryReplaceAllFacets.ts on a diamond, with the mempool, faults, crashes; its properties, and the theorems of both |
| `Deployment`, `DeploymentProperties`, `DeploymentProofs` | deployWithConfig.ts and what it calls, over the contracts it deploys, its properties, their theorems |
| `MC...` | instances: model values, functions given as constants, symmetry |

### Correspondence with the code

An external function is an action of the same name, a `require`/`revert` is a
conjunct without primes, an assignment is a primed conjunct.  Facts about the
translation that are easy to miss:

- An `EnumerableSet` is a set (no property depends on the order); a mapping to
  `bool` is the set of what it maps to true.  `votesToKickValidatorsInNextEpoch`
  is a set of triples <<epoch, target, voter>>: the voter is the *staker* a
  node is mapped to, and the map is never cleared.
- `block.timestamp` is only compared with the end of the epoch, so `timeLeft`
  is what remains; `Tick` takes one off.  A kick in the Active state, which sets the
  end of the epoch to now, sets `timeLeft` to 0.
- A node address not mapped to a staker gives `address(0)`: `NoAccount`, which
  `SignalReadyForNextEpoch` can put among the ready flags in the first epoch.
- `removeValidatorFromNextEpoch` frees the communication keys of the record
  whether or not the staker was in the set; `requestToJoin` overwrites the
  node mapping, `setIpPortNodeAddressAndCommunicationPubKeys` does not.
- `unlockEpoch` clears the flags of the current set and of what is *left* of
  the next one; `advanceEpoch` only those of the new set.
- `withdraw` compares the raw account with the active set, while `exit`
  passes the balance of the account's *main* account: the model does both.
- `rewardValidator` is called for each member of a set; no call reads what
  another one writes, so the loop is one function update.
- `getReward` sends the transfer to the Staking diamond, which has no such
  function: with a reward outstanding it reverts.  `GetRewardOf` is that guard.
- Arithmetic is checked (Solidity 0.8): a subtraction below zero is a guard.
  Overflow of 256 bits is out of reach of the supply of the token and is not
  modelled.  Percentages and rewards round down (`\div`).

- A transfer of penalty tokens goes to any address, the StakingBalances diamond
  included (`Recipients`), and anyone may send it tokens (`SendLIT`): it may hold
  more than is booked.

- In BackupRecovery, `_deleteNextStateMappings` clears what is held for the
  members of the *present* party, but not the votes for recovery keys: those are
  stored by key and outlive the party.  Once a DKG was run (`RunDkg`, outside the
  contract) its keys exist, and any peer may vote for any list of them, early or
  late (`Vote`); nothing is taken away, so votes come in any order or not at all.
- `recieveNewKeySet` compares the public key only.  The encrypted key and the
  session travel with it and are stored with the first non-empty key; a session
  stands for both.  The empty key equals the proposal as long as there is none,
  so a member that submits it is marked (`MatchKeySet`), and the party completes
  with an empty key if all do.  The key that becomes the proposal
  (`ProposeKeySet`) is not followed by the check that all have been marked: if
  the others submitted the empty key before, somebody has to submit again.
- Parties have no member twice (`PartiesAssumption`): `registerNewBackupParty`
  does not look, the owner has to.  The type of a recovery key and the order of
  the keys in a list are stored and compared nowhere, so a list is a set of keys.
- In PubkeyRouter, too, a node may vote for any list of keys, also for a part of
  the keys of a DKG.  The check that there are no root keys yet is made once per
  call, before its first key.
- A token id, a public key and an address are hashes of one another and one
  value, the pair of key id and root keys it is derived from.  The id of the
  next key hashes supply and block, and is the pair of them: equal supply in
  the same block gives an equal id, as in the code.
- A mint is one action with its routing, its permissions and the transfer
  that PKPHelper ends with.  `mintGrantAndBurnNext` mints to nobody.
- `Permit` is the loop of additions and then the loop of removals of
  `batchAddRemoveAuthMethods`, for a batch that names a method at most once;
  the single functions are batches of one.  Scopes are not removed with the method.
- `StakerOf` stands for Staking's node mapping, which keeps old nodes.

- A call of `diamondCut` is the one place where a transaction is not a step:
  it runs selector by selector on a draft of the storage, which is dropped if
  it reverts.  Places in the list are counted from 1.
- `executeDiamondCutOperations` catches what a request throws and counts the
  operation as failed; a request may fail before its transaction is sent
  (`RefuseOperation`, `DropRequest`) or after (`LoseAnswer`), and is then mined
  later.  `_removeFacet` looks at no failure, the addition that follows does.
- `Start` has the new sources checked out.  The script has no checkout there
  (tryReplaceAllFacets.ts:78-112) and compiles what it finds: that the operator
  returns to the new sources after a run that died with the old ones is an
  assumption, and what a run does otherwise is not covered.
- In `Deployment` the address of a contract is the number of the run that
  deployed it.  The deployer's transactions are mined in the order of their
  nonces, so one that the script waits for is a step taken when the mempool is
  empty; the others (the roles of the release register, the entries of the
  resolver) go through `mempool`.  The wallets' transactions have senders of
  their own and are mined in any order; a receipt is what lets the script go on.
- A contract is kept in a run if the existing contracts name it under a key
  that `CONTRACT_NAME_TO_JSON_CONTRACT_ADDRESS_KEY` has and output files use:
  nine of sixteen (`FoundAgain`).  A second run is given the existing contracts
  of the first or none of them, not some.  A contract remembers the resolver of the run
  that deployed it, so a kept Staking consults the old one.
- `HandOver` goes through nine contracts; Allowlist and Staking are transferred
  even if kept, and the call reverts, ending the script, if they are not the
  deployer's any more.

Calls by somebody without the role (`onlyOwner`, `onlyStakingContract`, ...)
revert and are no step.  The messages of reverts, events, and getters that no
guard uses are left out.

## 3. Runs

| run | instance | question | bounds |
|---|---|---|---|
| `epochs` | three stakers, votes against any of them, nodes that change their staker | who may be kicked, is a threshold left, does the set change under the nodes, readiness, freshness of flags, the refinement | 3 epochs (the threshold guard applies from epoch 2, and a flag left in epoch 1 can meet a set of epoch 3), 1 unlock per behaviour: kicks and aborted rounds with and without an old set; a minimum of 1, so that the set may shrink |
| `tokens` | two founders in their second epoch, alias, kicks at 50 %, slashing, restaking, tokens sent to the contract | custody, the sum of the stakes, whoever may withdraw is paid, and out of its own, double rewards | stakes of 1 or 2 units, 3 epochs |
| `owner` | two stakers and every function of the owner, also forcing Active, ReadyForNextEpoch, Restore | do those kicked stay out, whatever the owner does | 2 epochs, 1 unlock |
| `nodes` | three founders, one joiner, one crash of any node | can an offline member of the current set always be voted out; do the epochs go on | 4 epochs, 3 unlocks |
| `recovery` | two pairs that overlap, three nodes, two validator sets, two public keys and the empty one | pairing of nodes, late and partial votes, keys submitted at any time, progress of a DKG | 2 DKGs (`MaxDkg`): one of each party meets the state the other left; lists with all keys of either DKG and with one key of the second (`KeyLists`); two public keys and a session: the first party's key may meet the second one's |
| `pkp` | two root keys, voted on together or one alone by sets of one and two validators, one claimed id, an action and a WebAuthn credential with two public keys about | root keys, derivation, the two indexes, burned tokens | 2 mints (`MaxMints`), 2 blocks (`MaxBlock`): a burn and a mint in the same block and in the next; four batches (`Batches`) that add, change, and add and remove the same method |
| `upgrade` | three facets that keep their functions: one gains and loses some, one loses one, of one no old commit is known | the loupe's list, routing, what the script says against what it did | 2 faults (a lost answer and another failure meet), 2 runs (the second starts from a diamond upgraded in part) |
| `deployment` | four configurations (core or not, handover or not, IP addresses for all, for too few, for none, and no wallets), two wallets that join, one that only stakes | what a deployment that ends well leaves | 2 runs of the scripts (`MaxRuns`): the second with or without the contracts, resolver and late transactions of the first; a minimum of 2 validators, so that the set may be locked as soon as both joined |
| `claim_comms_keys`, `claim_offline`, `claim_root_votes`, `claim_upgrade` | see "Findings" | refuted statements | |

Bounds are constants in guards: `MaxEpoch` (AdvanceEpoch), `MaxRetries`
(UnlockEpoch), the input sets `Amounts`, `JoinArgs`, `InfoArgs`,
`KickTargets`, `AliasAccounts`, `Settable...`; `MaxFaults` and `MaxRuns` of the
scripts, and `MaxRuns` of the deployments.  At `MaxEpoch`, `MaxRetries` and
`MaxRuns` a behaviour ends, so deadlock is not checked: stopping is a bound here, and a
staking system without transactions does stop.  Three validators are the
smallest set where two thirds are neither all nor a single one
(`ConsensusCount` 2, one kick allowed); two exercise the special case of two.

Symmetry (`epochs`) exchanges two of the three stakers together with their nodes
and keys; the run has no liveness property (`ImplementsHandover` has no
fairness).  The same run has a VIEW (`PresentView`): votes to kick of past epochs
are left out of the identity of a state.  That is sound as no action and no
property of the run reads them but TypeOK, which they met when they were cast: votes
are looked up by the present epoch, whose number never goes back without the owner,
who is not in this run.

`StakingEstablished` starts a run in a state that Staking reaches from its
constructor: the founders stake and join, the network is opened, locked,
signalled and advanced, then the joiners stake and join.

**Fairness** (`StakingNodes`) is of the node software, which is not in this
repository and is modelled from what the contract expects of it: a node that is
online signals when it may and votes against a validator whose node is
offline, and somebody calls lock and advance when they are enabled.  All of it
is weak fairness: every one of these calls stays possible until it is made, or
the round changes and it is made in the next.  A crash never comes back and
leaves a quorum of the current set online, without which no threshold network
goes on.  Stakers owe nothing.

The fairness of `BackupRecovery` is the nodes' too: when all members of the
party have their nodes, they run the DKG, and each votes for all keys of it in one
call (`VoteForItsKeys`).  That no peer votes otherwise is not assumed; where one
has, or where keys of another DKG have closed the vote, `DkgCompletes` promises
nothing (`Spoilt`).  Nothing is assumed of members submitting keys, or of the
owner, and nothing is stated that would need it.  The PKP modules have no
liveness property and no fairness, nor have those of the scripts: a script
may die, and nobody owes the operator another run.

## 4. Proofs

`tlapm` checks every leaf; no step is taken on trust.  All theorems hold for
every set of stakers (finite, as a contract's set is), nodes, keys, every
configuration, and with `MaxEpoch` and `MaxRetries` any naturals; those of
Staking rest on `BalancesAssumption`, `StakingAssumption` and `AdminAssumption`,
those that start from `EstablishedInit` also on `EstablishedAssumption`, those
of nodes on `NodesAssumption`; TLC evaluates all of them in the runs.

- **Types** (`TypeCorrect`, `AdminTypeCorrect`): `TypeOK` is inductive.  One
  lemma per group of actions.
- **The kicked sets and the lock** (`KickedSetsCorrect`, `KickedCountIsExact`,
  `LockedSetIsStable`): hold under `AdminSpec`, i.e. with the
  owner doing anything.  KickedStayOut /\ CurrentKickedExact is inductive on top
  of the types.
- **The epoch machine** (`ResharingThreshold`, `QuorumOfVotes`,
  `ReadinessIsCurrent`, `FlagsAreFresh`): hold under `Spec`.  The
  inductive invariant is `EpochInv`, a conjunction of TypeOK, the kicked sets,
  the four properties, and that the state is never Restore (only the owner
  sets it) and that no vote is recorded for an epoch to come (else a new epoch
  would start with votes).  None of the four is inductive by itself: the
  threshold needs CurrentKickedExact, since the guard counts the second
  kicked set and the property the first; ReadyIsNotStale needs that a frozen set
  cannot change.  `NextCases` reduces the actions to the eight kinds of
  step the machine can tell apart, and each lemma treats those.  The arithmetic
  of the rounding is done once, in lemmas on `ConsensusCount`.
- **The owner and the epoch machine** (`OwnerKeepsQuorums`): readiness is not
  stale and quorums start fresh under `AdminSpec` too, for an owner that forces
  no other state than the locked one (`OwnerKeepsPhases`).  That hypothesis is
  needed: forcing ReadyForNextEpoch says that a set is ready which never
  signalled.  An owner may also break the other two, the threshold and the
  quorum of votes, simply by kicking: they are not claimed of it.
- **The nodes** (`OfflineCanBeKicked`, `NodesKeepEpochs`): a network that starts
  in its second epoch satisfies `EpochInv`, and what nodes do are steps of
  `Next`, so the epoch machine's invariants hold of it as well.  To that the
  invariant (`NodesInv`) adds that whoever was voted out is offline: nodes vote
  against crashed ones only, and a crash is for good.  The kicked members of the
  current set are then among its offline ones; a quorum of it is online, so while
  one of the offline ones is still in the next set there is room for its kick,
  whatever the size of the set and whoever was kicked first.
  It says nothing of an offline node that only the next set has: that one may be
  refused (`claim_offline`).
- **Tokens** (`CustodyCorrect`, `StakesCorrect`, `Solvency`, `WithdrawalsAreOwn`,
  `RewardsCorrect`): under `AdminSpec`, with penalties sent to any address and
  tokens sent to the contract by anyone.  `StakesAddUp` is inductive with the
  types: each step on tokens changes one stake and the total by the same amount
  (`OneStakeChanges`), which carries over to the sum by `SumChange`.  Custody is
  an inequality: what is booked is held, and there may be more.  Solvency
  follows from the sum and from custody: no stake exceeds the total (`SumBound`),
  and what the contract holds beyond the penalties covers the total.  Payments
  are of two kinds, a withdrawal, which lowers the payee's own stake by as much,
  and a transfer of penalties (`WithdrawalsAreOwn`); that an *active* stake stays
  is not claimed, since the stake that stands behind an active alias may leave
  (see "Findings").  Rewards are only paid by advanceEpoch; an active account has one
  payee at most, itself, because an alias of it is refused.
  `EstablishedTokensCorrect` has the same facts for `EstablishedSpec`, the
  specification of the run `tokens`.
- **Sums** (`SumTheorems`): the community modules define a sum by a recursive
  function on subsets, and TLA+ a recursive function by a choice among the
  functions that satisfy its equation.  That there is one is proved first
  (`SumsExist`), then its type, what changes with one summand, and the bound.
  The induction is on the size of a subset, by a least counterexample: a set of
  numbers takes the place of the predicate that the library's induction
  theorems are parameterised by.
- **Refinement** (`StakingImplementsHandover`): the initial states map to the
  initial state, and each step of the machine to a step or a stutter of
  `EpochHandover`.  It needs QuorumStartsFresh's companion fact that an unlock
  clears the flags of the committee, and that two thirds, rounded down, with the
  special case of two, is enough (`ConsensusIsEnough`).

- **Recovery** (`RecoveryTypeCorrect`, `PeersCorrect`, `AcksCorrect`,
  `BackupsKept`, `KeysAreUnanimous`, `VotesCanAlwaysComplete`): the invariants
  join the types and that the two maps are inverse and empty beyond the count of
  members.  The contract compares the number of votes with the size of the party
  and nothing else; that the votes for the keys of the DKG under way are those
  of the peers follows since its keys exist only once the party is complete, and
  a complete party keeps its peers (`VotersInv`), and there are as many of these
  as members (`PeersAreCounted`).  The same count gives the safety side of
  `DkgCompletes`: until keys are registered each key of the DKG lacks the vote of
  some peer, which is not refused (`OpenInv`, with which the votes of all peers
  would have registered the key).  All of it for any lists of keys and any keys
  submitted; rests on the assumptions of `BackupRecovery`.
- **PKPs** (`PKPTypeCorrect`, `KeysCorrect`, `IndexCorrect`, `WebAuthnCorrect`,
  `BurnedSealed`): the root keys are adopted once, whatever lists are voted for,
  so that what was derived from them stays derived from those there are.  Steps
  are reduced to the vote, `Permit` and `Mint`, which all mints and claims are
  made of.

- **The diamond** (`DiamondCorrect`): under any cuts of any length, by any
  owner, reverted ones included.  The invariant is the property of the list for
  the storage and for the draft, with the types; the work is in `Removed`, where
  the last selector may be the one removed.
- **The upgrade** (`UpgradeCorrect`, `UpgradeTypeCorrect`): for any list of facets, any functions, and
  any number of faults and runs.  The invariant adds that the cuts of a
  manifest, of the mempool and of a running call route only to what implements
  them, which holds for `Replace` and `Add` because they are always made from the
  artifacts of the new sources; LoupeIsExact is the library's theorem again.
  `UpgradeHandled` is proved of facets that keep their functions to themselves
  (`OwnFunctions`, which "Findings" shows to be needed): from the start of a run
  each facet is still to be handled, or left to the operator, or named and
  settled (`Reported`), where settled means installed with nothing in the
  mempool or in the running call that touches its functions.  An operation
  touches only the functions of its own facet, which is still to be handled, and
  is only sent with an empty mempool, so what succeeds is settled at once; an
  addition that reports nothing failed has therefore settled its facet,
  whatever became of the removal before it.
- **The deployment** (`DeploymentTypeCorrect`, `RecordsCorrect`,
  `ValidatorsCorrect`, `RegisterCorrect`, `OwnershipCorrect`): for any number of
  runs and wallets, any configurations, and a crash at any moment.  The
  properties speak of the end of a run, so the invariant (`DeploymentInv`) says
  what is true on the way there: the contracts of a run are those kept or its
  own; each entry of the resolver is there or under way, and once the entries
  are sent nothing of an earlier run is left that could overwrite them; in the
  mempool the grant of the register comes before its publication and the
  renouncement; the transactions of a run's wallets deal with its own contracts,
  and a stake was only possible where Staking and StakingBalances find each
  other; a contract that is not deployed yet has no owner.  It rests on
  `DeploymentAssumption`: the deployer is neither the new nor the subnet owner
  (if it is the latter, the register ends without an administrator: see the
  hazards), and there is a wallet to stake.

Every invariant and every action property of a passing run, and the refinement,
is stated by a theorem.  Only model-checked are the two properties of
liveness, `EpochCompletes` and `DkgCompletes`: they rest
on weak fairness, hence on ENABLED, which `tlapm` does not reason about.  What
is proved of them is that the safety side never stands in their way
(`OfflineCanBeKicked`, `VotesCanAlwaysComplete`).

## 5. Findings

- `claim_comms_keys`: a staker may request to leave again although it has
  left; its old keys are freed though somebody else has joined with them since,
  and a third staker can join with the same (the test says "cannot join with the same
  comms keys").
- `claim_offline`: StakingViewsFacet.sol:290 rests on it that "any offline nodes
  will be kicked from the next validator set".  With three validators one kick
  of a member of the current set is allowed in an epoch, and the check does not
  look at whether the target is one: a founder and a joiner crash, the founder
  is voted out first, and the round waits for the joiner for ever, though a
  quorum is online.  Run `nodes` has the part that holds: no offline member of
  the current set is saved by the check, and with one crash the epochs go on.
- `claim_root_votes`: "validator has already voted for this root key"
  guards node addresses.  A validator that changed its node votes from both,
  since Staking keeps the old mapping; a key can be adopted without
  the vote of every validator.

- `claim_upgrade`: the script says of each facet "Operation complete on",
  "Successfully added new facet" or "You will have to handle this facet
  manually."  When a function has moved from facet A to facet B, the
  replacement of B routes it to the new B; the one of A fails for its new
  function, and the removal, made of what the old sources of A declare, takes
  the function out of the diamond.  All is reported well.

Other divergences met while modelling, without a run of their own.

Contracts:
- `withdraw` resolves no alias, `balanceOf` and `exit` do
  (StakingBalancesFacet.sol:164, 173-195): the stake that stands behind an
  active alias is its main account's to withdraw while the alias validates.
- PubkeyRouterFacet.sol:222-266: nodes may vote for different lists, and the
  first key with enough votes closes the vote: [bls] from one of two validators
  and [bls, ecdsa] from the other adopt bls alone, for good (line 235).
- BackupRecoveryFacet.sol:393-446 does the same with recovery keys (line 408).
  Votes of an earlier DKG are kept because "the pubKey will be different for all
  the DKGs" (line 364); when one of its keys gets its last vote from a node that
  is a peer again, `isRecoveryDkgCompleted`, "whether the current Recovery DKG has
  completed successfully" (380-383), is true for the keys of the wrong DKG,
  and those of the current one are refused.
- BackupRecoveryFacet.sol:279-304: "checks if the current set of public keys
  matches", but the encrypted key and the session are not compared, an empty key
  matches an absent proposal, and when the first real key comes last the backup
  waits for one more call.
- `pastBackupStates` is keyed by a session id the members choose: a later
  backup under the same id writes over the earlier one.
- `adminResetEpoch` starts at epoch 1 again with the ready flags and the votes to
  kick of the first time.
- `getReward` of StakingBalances sends its transfer to the Staking diamond,
  which has no such function: no reward is paid, and `exit` reverts with one.
- `getDecryptionThreshold` is computed from the proposed party, which is
  deleted when its backup is complete: it returns 0 then.
- A kick in the Active state locks a set without comparing it with the
  minimum; a ready flag of a validator outside both sets survives and counts
  later; a signal sent for an aborted round counts in the next one; aliases may
  be replaced while active and their counts drift.

Scripts:
- deployNodeConfig.ts:111 tells the operator that "Whatever contract addresses
  you provide will be preserved"; StakingBalances, BackupRecovery,
  PaymentDelegation, PKPHelperV2, KeyDeriver, LITToken and Allowlist are
  deployed anew whatever is given.
- A run that keeps Staking but deploys or is given another resolver writes the
  new StakingBalances where that Staking does not look; its wallets cannot
  stake, and the run never ends well (in the model no behaviour reaches "done").
- "will set the ownership of each contract to the newOwner" (README.md:33):
  StakingBalances, BackupRecovery, PaymentDelegation and PKPHelperV2 stay the
  deployer's, and so does everything when no wallets are to be staked; what a
  run keeps, other than Staking, is not transferred.
- The keys of the wallets are written last.  If the script dies after they
  joined, the next set holds validators nobody can run; a second run that keeps
  the Staking adds its own beside them.  A wrong number of IP addresses is found
  out only then, after the handover.

## 6. Not modelled, and the plan

See `components` in PROJECT.json for each part and its reason.  Of the modelled
contracts, left out: the prices (mint cost, withdraw), the emergency functions
of PubkeyRouter's owner (which would void KeysAreOfTheRoots by design), Merkle
roots of PKPPermissions, the list of recovery statuses of nodes, and the
verification of proofs and signatures, which are inputs.  Of the scripts, left
out: amounts of tokens, the choice between LITToken and WLIT, verification of
sources, prompts and the defaults of a configuration, IP addresses on the
chain, and the manifests that are edited by hand (diamondCut.ts).

How much of the code that is: counted over the TypeScript and JavaScript files
alone, two lines of three are `abis/generated.ts`, which is generated from the
contracts and has no behaviour to model, and most of the rest are one-off scripts
that send a transaction the contract modules have as an action.  The system's
own logic is in the Solidity contracts, which such a count leaves out.  The two
groups of scripts with control worth checking, upgrade and deployment, are
modelled.

What a next step would be, in order:

1. RateLimitNFT (capacity over time), PaymentDelegation (two mirrored lists), WLIT.
2. DomainWalletRegistry (one live owner of a domain), the releases of
   ReleaseRegister.
3. Compositions: the vote for root keys with the epochs and the node mapping of
   Staking; the peers of BackupRecovery with its validator sets.
4. Staking's version requirements.
