--------------------------- MODULE BackupRecovery ---------------------------
(***************************************************************************)
(* BackupRecovery (BackupRecoveryFacet.sol, LibBackupRecoveryStorage.sol): *)
(* the owner registers a party of backup members; each member is assigned  *)
(* a node of the validator set (its peer); the peers run a recovery DKG    *)
(* and vote its recovery keys in; the members then submit the public keys  *)
(* of the backup, which becomes the current one when all of them have.     *)
(* One call is one step.  The chain orders the calls as it likes, so a     *)
(* call that belongs to an earlier DKG may take effect in a later one.     *)
(*                                                                         *)
(* The recovery keys of a DKG are new in each DKG, and exist once it has   *)
(* been run; from then on any peer may vote for any list of them.  Of what *)
(* a member submits the contract compares the public key only: a session   *)
(* id stands for the rest, the encrypted key and the session, which is     *)
(* stored with the first key to come.                                      *)
(***************************************************************************)
EXTENDS Naturals, Sequences, FiniteSets

CONSTANTS
    Nodes,          \* node addresses
    Members,        \* backup party members
    NoNode, NoMember,   \* the zero address
    KeyTypes,       \* the types of the recovery keys of a DKG
    KeyLists,       \* the lists of recovery keys that are voted for
    PublicKeys, NoKey,      \* the public keys submitted; the empty one
    Sessions, NoSession,    \* the sessions they come with; the empty one
    Parties,        \* the parties the owner may register
    ValidatorSets,  \* the nodes of the validator sets Staking may select
    MaxDkg          \* bound: parties registered

ASSUME SentinelsAssumption ==
    /\ NoNode \notin Nodes /\ NoMember \notin Members
    /\ NoKey \notin PublicKeys
ASSUME PartiesAssumption ==
    /\ Parties \subseteq Seq(Members)
    /\ \A p \in Parties : \A i, j \in DOMAIN p : p[i] = p[j] => i = j
ASSUME BoundAssumption == MaxDkg \in Nat
ASSUME ValidatorSetsAssumption == ValidatorSets \subseteq SUBSET Nodes

VARIABLES
    partyMembers, nodesAssignedCount, registeredRecoveryKeys,
    pubkey, sessionId,  \* the proposal: the keys of the backup under way
    peerToBackupMember, backupMemberPeer, keysRecieved, submittedProofs,
    voted,              \* by recovery key, the nodes that voted for it
    recoveryState, pastBackupStates,
    validators,         \* node addresses of Staking's validatorsInCurrentEpoch
    dkg,                \* number of the party that is registered
    keysMade,           \* the DKGs that were run, whose keys exist
    accepted            \* <<m, key>>: accepted from m for the present party

nextState == <<partyMembers, nodesAssignedCount, registeredRecoveryKeys>>
proposal == <<pubkey, sessionId>>
mappings == <<peerToBackupMember, backupMemberPeer, keysRecieved,
              submittedProofs>>
history == <<recoveryState, pastBackupStates>>
vars == <<nextState, proposal, mappings, voted, history, validators, dkg,
          keysMade, accepted>>

Dkgs == 1..MaxDkg
RecoveryKeys == Dkgs \X KeyTypes
KeysOf(d) == {d} \X KeyTypes
ASSUME KeyListsAssumption == KeyLists \subseteq SUBSET RecoveryKeys
NoBackup == [pubkey |-> NoKey, sessionId |-> NoSession,
             partyThreshold |-> 0, partyMembers |-> <<>>]
Party == {partyMembers[i] : i \in 1..Len(partyMembers)}
Peers == {n \in Nodes : peerToBackupMember[n] # NoMember}

Init ==
    /\ partyMembers = <<>> /\ nodesAssignedCount = 0
    /\ registeredRecoveryKeys = {}
    /\ pubkey = NoKey /\ sessionId = NoSession
    /\ peerToBackupMember = [n \in Nodes |-> NoMember]
    /\ backupMemberPeer = [m \in Members |-> NoNode]
    /\ keysRecieved = {} /\ submittedProofs = {}
    /\ voted = [k \in RecoveryKeys |-> {}]
    /\ recoveryState = NoBackup
    /\ pastBackupStates = [s \in Sessions \cup {NoSession} |-> NoBackup]
    /\ validators \in ValidatorSets
    /\ dkg = 0
    /\ keysMade = {} /\ accepted = {}

----------------------------------------------------------------------------
PartyThreshold ==
    IF Len(partyMembers) = 2 THEN 2 ELSE (Len(partyMembers) * 2) \div 3

AllBackupMembersMapped == Len(partyMembers) = nodesAssignedCount
IsRecoveryDkgCompleted == registeredRecoveryKeys # {}

\* A mutated form: the acknowledgements are left.
DeleteNextStateMappingsButAcks ==
    /\ backupMemberPeer' = [m \in Members |->
          IF m \in Party THEN NoNode ELSE backupMemberPeer[m]]
    /\ peerToBackupMember' = [n \in Nodes |->
          IF \E m \in Party : backupMemberPeer[m] = n
          THEN NoMember ELSE peerToBackupMember[n]]
    /\ submittedProofs' = submittedProofs \ Party
    /\ UNCHANGED keysRecieved

\* _deleteNextStateMappings: what is held for the members of the party.
DeleteNextStateMappings ==
    /\ backupMemberPeer' = [m \in Members |->
          IF m \in Party THEN NoNode ELSE backupMemberPeer[m]]
    /\ peerToBackupMember' = [n \in Nodes |->
          IF \E m \in Party : backupMemberPeer[m] = n
          THEN NoMember ELSE peerToBackupMember[n]]
    /\ keysRecieved' = keysRecieved \ Party
    /\ submittedProofs' = submittedProofs \ Party

\* A mutated form: the count of assigned nodes is not reset.
ResetNextStateButCount(party) ==
    /\ partyMembers' = party
    /\ registeredRecoveryKeys' = {}
    /\ pubkey' = NoKey /\ sessionId' = NoSession /\ accepted' = {}
    /\ UNCHANGED nodesAssignedCount

\* `delete nextState[0]`, after which the party may be set.
ResetNextState(party) ==
    /\ partyMembers' = party
    /\ nodesAssignedCount' = 0 /\ registeredRecoveryKeys' = {}
    /\ pubkey' = NoKey /\ sessionId' = NoSession /\ accepted' = {}

\* A mutated form: the current backup is not deleted, nor recorded.
RegisterNewBackupPartyOver(party) ==
    /\ dkg < MaxDkg
    /\ Len(party) > 1
    /\ DeleteNextStateMappings
    /\ ResetNextState(party)
    /\ dkg' = dkg + 1
    /\ UNCHANGED <<history, voted, validators, keysMade>>

\* The owner abandons what is under way and starts over with a new party.
RegisterNewBackupParty(party) ==
    /\ dkg < MaxDkg
    /\ Len(party) > 1
    /\ pastBackupStates' =
          [pastBackupStates EXCEPT ![recoveryState.sessionId] = recoveryState]
    /\ recoveryState' = NoBackup
    /\ DeleteNextStateMappings
    /\ ResetNextState(party)
    /\ dkg' = dkg + 1
    /\ UNCHANGED <<voted, validators, keysMade>>

\* A mutated form: a node that has a member gets another.
SetMemberForDkgAgain(n) ==
    /\ n \in validators
    /\ ~AllBackupMembersMapped
    /\ LET m == partyMembers[nodesAssignedCount + 1] IN
       /\ peerToBackupMember' = [peerToBackupMember EXCEPT ![n] = m]
       /\ backupMemberPeer' = [backupMemberPeer EXCEPT ![m] = n]
    /\ nodesAssignedCount' = nodesAssignedCount + 1
    /\ UNCHANGED <<partyMembers, registeredRecoveryKeys, proposal,
                   keysRecieved, submittedProofs, voted, history, validators,
                   dkg, keysMade, accepted>>

\* Node n asks for a backup member and gets the first without a peer.
SetMemberForDkg(n) ==
    /\ n \in validators
    /\ ~AllBackupMembersMapped
    /\ peerToBackupMember[n] = NoMember
    /\ LET m == partyMembers[nodesAssignedCount + 1] IN
       /\ peerToBackupMember' = [peerToBackupMember EXCEPT ![n] = m]
       /\ backupMemberPeer' = [backupMemberPeer EXCEPT ![m] = n]
    /\ nodesAssignedCount' = nodesAssignedCount + 1
    /\ UNCHANGED <<partyMembers, registeredRecoveryKeys, proposal,
                   keysRecieved, submittedProofs, voted, history, validators,
                   dkg, keysMade, accepted>>

\* A mutated form: more votes than there are peers.
HasAllVotesAndMore(k, votes) == Cardinality(votes[k]) > Len(partyMembers)

\* "If all the Recovery peers have voted, register it".
HasAllVotes(k, votes) == Cardinality(votes[k]) = Len(partyMembers)

KeysVotedIn(ks, votes) == {k \in ks : HasAllVotes(k, votes)}

\* A mutated form: nodes that are no peers vote too.
RegisterRecoveryKeysOfAnyone(n, ks) ==
    /\ Len(partyMembers) > 1
    /\ registeredRecoveryKeys = {}
    /\ \A k \in ks : n \notin voted[k]
    /\ voted' = [k \in RecoveryKeys |->
                    IF k \in ks THEN voted[k] \cup {n} ELSE voted[k]]
    /\ registeredRecoveryKeys' = KeysVotedIn(ks, voted')
    /\ UNCHANGED <<partyMembers, nodesAssignedCount, proposal, mappings,
                   history, validators, dkg, keysMade, accepted>>

\* Node n votes for a list of recovery keys.  The vote is open until keys are
\* registered, whichever they are.
RegisterRecoveryKeys(n, ks) ==
    /\ Len(partyMembers) > 1
    /\ peerToBackupMember[n] # NoMember
    /\ registeredRecoveryKeys = {}
    /\ \A k \in ks : n \notin voted[k]
    /\ voted' = [k \in RecoveryKeys |->
                    IF k \in ks THEN voted[k] \cup {n} ELSE voted[k]]
    /\ registeredRecoveryKeys' = KeysVotedIn(ks, voted')
    /\ UNCHANGED <<partyMembers, nodesAssignedCount, proposal, mappings,
                   history, validators, dkg, keysMade, accepted>>

\* m is marked as having submitted the keys.
MarkRecieved(m, key) ==
    /\ keysRecieved' = keysRecieved \cup {m}
    /\ accepted' = accepted \cup {<<m, key>>}
    /\ UNCHANGED <<nextState, peerToBackupMember, backupMemberPeer,
                   submittedProofs, history>>

\* _updateRecoveryState: the proposal is now the current backup.
UpdateRecoveryState ==
    /\ recoveryState' = [pubkey |-> pubkey, sessionId |-> sessionId,
                         partyThreshold |-> PartyThreshold,
                         partyMembers |-> partyMembers]
    /\ DeleteNextStateMappings
    /\ ResetNextState(<<>>)
    /\ UNCHANGED pastBackupStates

\* The key is the proposal's, or the empty one while there is no proposal.
MatchKeySet(m, key) ==
    /\ key = pubkey
    /\ IF Party \subseteq keysRecieved \cup {m}
       THEN UpdateRecoveryState
       ELSE MarkRecieved(m, key) /\ UNCHANGED proposal

\* The first key becomes the proposal.  Whether the others have been marked
\* by then is not looked at.
ProposeKeySet(m, key, session) ==
    /\ key # pubkey /\ pubkey = NoKey
    /\ pubkey' = key /\ sessionId' = session
    /\ MarkRecieved(m, key)

\* Member m submits the keys of a backup, whether or not the recovery DKG has
\* completed; a key other than the proposal's is refused.
RecieveNewKeySet(m, key, session) ==
    /\ m \in Party
    /\ MatchKeySet(m, key) \/ ProposeKeySet(m, key, session)
    /\ UNCHANGED <<voted, validators, dkg, keysMade>>

\* A valid proof of member m (an invalid one changes nothing).
RecieveProof(m) ==
    /\ m \in Party
    /\ submittedProofs' = submittedProofs \cup {m}
    /\ UNCHANGED <<nextState, proposal, peerToBackupMember,
                   backupMemberPeer, keysRecieved, voted, history,
                   validators, dkg, keysMade, accepted>>

----------------------------------------------------------------------------
\* Outside the contract: Staking selects another validator set; the mapped
\* nodes run the DKG, which makes its keys; peers vote for keys that exist.
AdvanceEpoch(vs) ==
    /\ validators' = vs
    /\ UNCHANGED <<nextState, proposal, mappings, voted, history, dkg,
                   keysMade, accepted>>

RunDkg ==
    /\ partyMembers # <<>> /\ AllBackupMembersMapped
    /\ dkg \notin keysMade
    /\ keysMade' = keysMade \cup {dkg}
    /\ UNCHANGED <<nextState, proposal, mappings, voted, history, validators,
                   dkg, accepted>>

Vote(n, ks) ==
    /\ \A k \in ks : k[1] \in keysMade
    /\ RegisterRecoveryKeys(n, ks)

\* The vote a peer owes: all the keys of the DKG under way, in one call.
VoteForItsKeys(n) == KeysOf(dkg) \in KeyLists /\ Vote(n, KeysOf(dkg))

Next ==
    \/ \E p \in Parties : RegisterNewBackupParty(p)
    \/ \E n \in Nodes : SetMemberForDkg(n)
    \/ \E n \in Nodes, ks \in KeyLists : Vote(n, ks)
    \/ \E m \in Members, key \in PublicKeys \cup {NoKey}, s \in Sessions :
          RecieveNewKeySet(m, key, s)
    \/ \E m \in Members : RecieveProof(m)
    \/ \E vs \in ValidatorSets : AdvanceEpoch(vs)
    \/ RunDkg

Spec == Init /\ [][Next]_vars

\* The nodes run a DKG they are mapped for, and each votes for its keys until
\* it is refused for good.  Nobody owes another vote, and the owner, the
\* members and Staking owe nothing.
Fairness == WF_vars(RunDkg) /\ \A n \in Nodes : WF_vars(VoteForItsKeys(n))
FairSpec == Spec /\ Fairness
=============================================================================
