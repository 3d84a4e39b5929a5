---------------------------- MODULE PubkeyRouter -----------------------------
(***************************************************************************)
(* PubkeyRouter (PubkeyRouterFacet.sol): the nodes of the validator set    *)
(* vote the root keys of the network in, once; the key of each PKP is      *)
(* derived from them and routed, once.  adminResetRootKeys, which empties  *)
(* the list again, and setRoutingDataAsAdmin are left out.                 *)
(*                                                                         *)
(* A node may vote for any list of keys, part of a DKG's keys included.    *)
(* A derived public key is determined by the root keys and the derived key *)
(* id; token id, public key and address are hashes of one another and one  *)
(* value here.  Module PKPNFT is the only caller of setRoutingData.        *)
(***************************************************************************)
EXTENDS Naturals, FiniteSets

CONSTANTS
    Nodes,         \* node addresses
    Stakers,
    StakerOf,      \* Staking's nodeAddressToStakerAddress
    RootKeys,      \* the keys, whichever DKG they are of, that nodes vote for
    KeyLists,      \* the lists of them that nodes vote for in one call
    ValidatorSets, \* the validator sets Staking may select
    KeyIds         \* derived key ids

ASSUME NodesAssumption ==
    /\ IsFiniteSet(Nodes)
    /\ StakerOf \in [Nodes -> Stakers]
    /\ ValidatorSets \subseteq SUBSET Stakers
ASSUME KeyListsAssumption == KeyLists \subseteq SUBSET RootKeys

VARIABLES
    rootKeys,      \* of the staking contract of this network
    voted,         \* votesToRegisterRootKeys: by key, the nodes that voted
    pubkeys,       \* token id -> the root keys its key was derived from
    validators     \* Staking's validatorsInCurrentEpoch

routerVars == <<rootKeys, voted, pubkeys, validators>>

NotRouted == {}
\* The token ids: a key id under the root keys that it is derived from.
Tokens == KeyIds \X ((SUBSET RootKeys) \ {NotRouted})
TokenOf(id, roots) == <<id, roots>>

RouterInit ==
    /\ rootKeys = {}
    /\ voted = [k \in RootKeys |-> {}]
    /\ pubkeys = [t \in Tokens |-> NotRouted]
    /\ validators \in ValidatorSets

IsActiveValidatorByNodeAddress(n) == StakerOf[n] \in validators
IsRouted(t) == pubkeys[t] # NotRouted

\* "if it has enough votes, register it"
HasEnoughVotes(k, votes) == Cardinality(votes[k]) = Cardinality(validators)

Registered(list, votes) == {k \in list : HasEnoughVotes(k, votes)}

\* A mutated form: the keys may be voted on when they are set.
VoteForRootKeysAgain(n, list) ==
    /\ IsActiveValidatorByNodeAddress(n)
    /\ \A k \in list : n \notin voted[k]
    /\ voted' = [k \in RootKeys |->
                    IF k \in list THEN voted[k] \cup {n} ELSE voted[k]]
    /\ rootKeys' = Registered(list, voted')
    /\ UNCHANGED <<pubkeys, validators>>

\* Node n votes for the keys of a list, in one call.  The check that there are
\* no root keys yet is made once, before the first key: whatever the call
\* registers closes the vote, for keys that are left out as well.
VoteForRootKeys(n, list) ==
    /\ IsActiveValidatorByNodeAddress(n)
    /\ rootKeys = {}
    /\ \A k \in list : n \notin voted[k]
    /\ voted' = [k \in RootKeys |->
                    IF k \in list THEN voted[k] \cup {n} ELSE voted[k]]
    /\ rootKeys' = Registered(list, voted')
    /\ UNCHANGED <<pubkeys, validators>>

\* A mutated form: a key may be routed again.
SetRoutingDataAgain(t) ==
    /\ pubkeys' = [pubkeys EXCEPT ![t] = rootKeys]
    /\ UNCHANGED <<rootKeys, voted, validators>>

\* setRoutingData for a token whose key is derived from the present root keys
\* (without any the derivation fails, and the call with it).
SetRoutingData(t) ==
    /\ ~IsRouted(t)
    /\ pubkeys' = [pubkeys EXCEPT ![t] = rootKeys]
    /\ UNCHANGED <<rootKeys, voted, validators>>

\* Staking selects another validator set.
AdvanceEpoch(vs) ==
    /\ validators' = vs
    /\ UNCHANGED <<rootKeys, voted, pubkeys>>

RouterNext ==
    \/ \E n \in Nodes, list \in KeyLists : VoteForRootKeys(n, list)
    \/ \E vs \in ValidatorSets : AdvanceEpoch(vs)
=============================================================================
