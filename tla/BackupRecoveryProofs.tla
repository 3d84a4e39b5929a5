------------------------ MODULE BackupRecoveryProofs ------------------------
(***************************************************************************)
(* BackupRecovery for every set of nodes and members, all parties, any     *)
(* validator sets and any number of DKGs.                                  *)
(***************************************************************************)
EXTENDS BackupRecoveryProperties, FiniteSetTheorems, TLAPS

LEMMA PartyIsOfMembers ==
    ASSUME TypeOK
    PROVE  /\ partyMembers \in Seq(Members)
           /\ Party \subseteq Members
           /\ \A i, j \in 1..Len(partyMembers) :
                 partyMembers[i] = partyMembers[j] => i = j
<1>1. partyMembers \in Seq(Members)
  <2>1. <<>> \in Seq(Members)
    OBVIOUS
  <2> QED
    BY <2>1, PartiesAssumption DEF TypeOK
<1>2. \A i \in 1..Len(partyMembers) : partyMembers[i] \in Members
  BY <1>1
<1>3. CASE partyMembers \in Parties
  <2>1. DOMAIN partyMembers = 1..Len(partyMembers)
    BY <1>1
  <2> QED
    BY <1>1, <1>2, <1>3, <2>1, PartiesAssumption DEF Party
<1>4. CASE partyMembers = <<>>
  BY <1>1, <1>2, <1>4 DEF Party
<1> QED
  BY <1>3, <1>4 DEF TypeOK

-----------------------------------------------------------------------------
\* Type correctness

LEMMA InitType == Init => TypeOK
<1>1. <<>> \in Seq(Members) /\ Len(<<>>) = 0
  OBVIOUS
<1> QED
  BY <1>1, BoundAssumption, ValidatorSetsAssumption
     DEF Init, TypeOK, NoBackup, BackupState

LEMMA StepType == TypeOK /\ [Next]_vars => TypeOK'
<1> SUFFICES ASSUME TypeOK, [Next]_vars PROVE TypeOK'
  OBVIOUS
<1> USE DEF TypeOK
<1>1. /\ partyMembers \in Seq(Members)
      /\ Party \subseteq Members
  BY PartyIsOfMembers
<1>2. MaxDkg \in Nat
  BY BoundAssumption
<1> DEFINE Keys == PublicKeys \cup {NoKey}
           Stored == Sessions \cup {NoSession}
<1>3. ASSUME NEW p \in Parties, RegisterNewBackupParty(p) PROVE TypeOK'
  <2>1. NoBackup \in BackupState
    <3>1. <<>> \in Seq(Members)
      OBVIOUS
    <3> QED
      BY <3>1 DEF NoBackup, BackupState
  <2>2. p \in Seq(Members) /\ Len(p) \in Nat
    BY PartiesAssumption
  <2>3. recoveryState.sessionId \in Stored
    BY DEF BackupState
  <2>4. /\ keysRecieved' \subseteq Members /\ submittedProofs' \subseteq Members
        /\ peerToBackupMember' \in [Nodes -> Members \cup {NoMember}]
        /\ backupMemberPeer' \in [Members -> Nodes \cup {NoNode}]
    BY <1>3 DEF RegisterNewBackupParty, DeleteNextStateMappings
  <2>5. /\ partyMembers' = p /\ nodesAssignedCount' \in 0..Len(partyMembers')
        /\ pubkey' \in Keys /\ sessionId' \in Stored
        /\ registeredRecoveryKeys' = {} /\ accepted' = {}
    BY <1>3, <2>2 DEF RegisterNewBackupParty, ResetNextState
  <2>6. recoveryState' \in BackupState /\ pastBackupStates' \in [Stored -> BackupState]
    BY <1>3, <2>1, <2>3 DEF RegisterNewBackupParty
  <2>7. dkg' \in 0..MaxDkg /\ keysMade' \subseteq 0..dkg'
    BY <1>2, <1>3 DEF RegisterNewBackupParty
  <2> QED
    BY <1>3, <2>4, <2>5, <2>6, <2>7 DEF RegisterNewBackupParty
<1>4. ASSUME NEW n \in Nodes, SetMemberForDkg(n) PROVE TypeOK'
  <2>1. nodesAssignedCount + 1 \in 1..Len(partyMembers)
    BY <1>1, <1>4 DEF SetMemberForDkg, AllBackupMembersMapped
  <2>2. partyMembers[nodesAssignedCount + 1] \in Members
    BY <1>1, <2>1
  <2> QED
    BY <1>1, <1>4, <2>1, <2>2 DEF SetMemberForDkg, history, proposal, Party
<1>5. ASSUME NEW n \in Nodes, NEW ks \in KeyLists, Vote(n, ks) PROVE TypeOK'
  <2>1. voted' \in [RecoveryKeys -> SUBSET Nodes]
    BY <1>5 DEF Vote, RegisterRecoveryKeys
  <2>2. registeredRecoveryKeys' \subseteq RecoveryKeys
    BY <1>5, KeyListsAssumption DEF Vote, RegisterRecoveryKeys, KeysVotedIn
  <2> QED
    BY <1>5, <2>1, <2>2
       DEF Vote, RegisterRecoveryKeys, mappings, history, proposal, Party
<1>6. ASSUME NEW m \in Members, NEW key \in Keys, NEW s \in Sessions,
             RecieveNewKeySet(m, key, s)
      PROVE  TypeOK'
  <2>1. CASE UpdateRecoveryState
    <3>1. PartyThreshold \in Nat
      BY <1>1 DEF PartyThreshold
    <3>2. recoveryState' \in BackupState
      BY <1>1, <2>1, <3>1 DEF UpdateRecoveryState, BackupState
    <3>3. /\ keysRecieved' \subseteq Members /\ submittedProofs' \subseteq Members
          /\ peerToBackupMember' \in [Nodes -> Members \cup {NoMember}]
          /\ backupMemberPeer' \in [Members -> Nodes \cup {NoNode}]
      BY <2>1 DEF UpdateRecoveryState, DeleteNextStateMappings
    <3>4. /\ partyMembers' = <<>> /\ nodesAssignedCount' \in 0..Len(partyMembers')
          /\ pubkey' \in Keys /\ sessionId' \in Stored
          /\ registeredRecoveryKeys' = {} /\ accepted' = {}
      BY <2>1 DEF UpdateRecoveryState, ResetNextState
    <3> QED
      BY <1>6, <2>1, <3>2, <3>3, <3>4 DEF RecieveNewKeySet, UpdateRecoveryState
  <2>2. ASSUME MarkRecieved(m, key), pubkey' \in Keys, sessionId' \in Stored
        PROVE  TypeOK'
    BY <1>6, <2>2 DEF RecieveNewKeySet, MarkRecieved, nextState, history, Party
  <2> QED
    BY <1>6, <2>1, <2>2 DEF RecieveNewKeySet, MatchKeySet, ProposeKeySet, proposal
<1>7. ASSUME NEW m \in Members, RecieveProof(m) PROVE TypeOK'
  BY <1>7 DEF RecieveProof, nextState, proposal, history, Party
<1>8. ASSUME NEW vs \in ValidatorSets, AdvanceEpoch(vs) PROVE TypeOK'
  BY <1>8, ValidatorSetsAssumption
     DEF AdvanceEpoch, nextState, proposal, mappings, history, Party
<1>9. CASE RunDkg
  <2>1. dkg \in 0..dkg
    BY <1>2
  <2> QED
    BY <1>9, <2>1 DEF RunDkg, nextState, proposal, mappings, history, Party
<1>10. CASE UNCHANGED vars
  BY <1>10 DEF vars, nextState, proposal, mappings, history, Party
<1> QED
  BY <1>3, <1>4, <1>5, <1>6, <1>7, <1>8, <1>9, <1>10 DEF Next

\* The storage of BackupRecovery holds what its fields say, whoever calls.
THEOREM RecoveryTypeCorrect == Spec => []TypeOK
<1> QED
  BY InitType, StepType, PTL DEF Spec

-----------------------------------------------------------------------------
\* The peers of the party's members

PeersInv == TypeOK /\ PeersAreInverse

\* What _deleteNextStateMappings leaves: nothing, all that was held being held
\* for the party.
LEMMA NothingIsLeft ==
    ASSUME PeersInv, DeleteNextStateMappings
    PROVE  /\ \A m \in Members : backupMemberPeer'[m] = NoNode
           /\ \A n \in Nodes : peerToBackupMember'[n] = NoMember
<1> USE DEF PeersInv, PeersAreInverse, DeleteNextStateMappings
<1>1. \A m \in Members : backupMemberPeer'[m] = NoNode
  OBVIOUS
<1>2. ASSUME NEW n \in Nodes PROVE peerToBackupMember'[n] = NoMember
  <2>1. CASE peerToBackupMember[n] = NoMember
    BY <2>1
  <2>2. CASE peerToBackupMember[n] # NoMember
    <3> DEFINE m == peerToBackupMember[n]
    <3>1. m \in Members /\ backupMemberPeer[m] = n
      BY <2>2 DEF TypeOK
    <3>2. m \in Party
      BY <3>1, SentinelsAssumption
    <3> QED
      BY <3>1, <3>2
  <2> QED
    BY <2>1, <2>2
<1> QED
  BY <1>1, <1>2

LEMMA FreshParty ==
    ASSUME PeersInv, DeleteNextStateMappings, TypeOK',
           NEW p \in Parties \cup {<<>>}, ResetNextState(p)
    PROVE  PeersAreInverse'
<1>1. \A i \in 1..Len(partyMembers') : partyMembers'[i] \in Members
  <2>1. partyMembers' \in Seq(Members)
    <3>1. <<>> \in Seq(Members)
      OBVIOUS
    <3> QED
      BY <3>1, PartiesAssumption DEF ResetNextState
  <2> QED
    BY <2>1
<1>2. \A i \in 1..Len(partyMembers') : ~(i <= nodesAssignedCount')
  BY DEF ResetNextState
<1> QED
  BY <1>1, <1>2, NothingIsLeft DEF PeersAreInverse

LEMMA PeersNext == PeersInv /\ [Next]_vars => PeersInv'
<1> SUFFICES ASSUME PeersInv, [Next]_vars PROVE PeersAreInverse'
  BY StepType DEF PeersInv
<1>1. TypeOK /\ TypeOK' /\ PeersAreInverse
  BY StepType DEF PeersInv
<1>2. ASSUME NEW p \in Parties, RegisterNewBackupParty(p) PROVE PeersAreInverse'
  BY <1>1, <1>2, FreshParty DEF RegisterNewBackupParty
<1>3. ASSUME NEW n \in Nodes, SetMemberForDkg(n) PROVE PeersAreInverse'
  <2> DEFINE i == nodesAssignedCount + 1
             m == partyMembers[i]
  <2>1. i \in 1..Len(partyMembers) /\ partyMembers \in Seq(Members)
    BY <1>1, <1>3, PartyIsOfMembers
       DEF SetMemberForDkg, AllBackupMembersMapped, TypeOK
  <2>2. m \in Members /\ m \in Party
    BY <2>1 DEF Party
  <2>3. backupMemberPeer[m] = NoNode
    BY <1>1, <2>1 DEF PeersAreInverse, TypeOK
  <2>4. /\ peerToBackupMember' = [peerToBackupMember EXCEPT ![n] = m]
        /\ backupMemberPeer' = [backupMemberPeer EXCEPT ![m] = n]
        /\ nodesAssignedCount' = i /\ UNCHANGED partyMembers
        /\ peerToBackupMember[n] = NoMember
    BY <1>3 DEF SetMemberForDkg
  <2>5. ASSUME NEW j \in 1..Len(partyMembers)
        PROVE  (backupMemberPeer'[partyMembers[j]] # NoNode) <=> (j <= i)
    <3>1. partyMembers[j] \in Members /\ (j # i => partyMembers[j] # m)
      BY <1>1, <2>1, PartyIsOfMembers
    <3>2. (j # i) => (j <= i <=> j <= nodesAssignedCount)
      BY <1>1, <2>1 DEF TypeOK
    <3>3. (backupMemberPeer[partyMembers[j]] # NoNode) <=> (j <= nodesAssignedCount)
      BY <1>1 DEF PeersAreInverse
    <3>4. CASE j = i
      BY <1>1, <2>1, <2>2, <2>4, <3>4, SentinelsAssumption DEF TypeOK
    <3>5. CASE j # i
      <4>1. backupMemberPeer'[partyMembers[j]] = backupMemberPeer[partyMembers[j]]
        BY <1>1, <2>4, <3>1, <3>5 DEF TypeOK
      <4> QED
        BY <3>2, <3>3, <3>5, <4>1
    <3> QED
      BY <3>4, <3>5
  <2>6. ASSUME NEW b \in Members, backupMemberPeer'[b] # NoNode
        PROVE  b \in Party' /\ peerToBackupMember'[backupMemberPeer'[b]] = b
    <3>1. CASE b = m
      BY <1>1, <2>2, <2>4, <3>1 DEF TypeOK, Party
    <3>2. CASE b # m
      <4>1. backupMemberPeer'[b] = backupMemberPeer[b]
        BY <1>1, <2>4, <3>2 DEF TypeOK
      <4>2. backupMemberPeer[b] # n
        BY <1>1, <2>4, <2>6, <4>1, SentinelsAssumption DEF PeersAreInverse
      <4> QED
        BY <1>1, <2>4, <2>6, <4>1, <4>2 DEF TypeOK, PeersAreInverse, Party
    <3> QED
      BY <3>1, <3>2
  <2>7. ASSUME NEW x \in Nodes, peerToBackupMember'[x] # NoMember
        PROVE  backupMemberPeer'[peerToBackupMember'[x]] = x
    <3>1. CASE x = n
      BY <1>1, <2>2, <2>4, <3>1 DEF TypeOK
    <3>2. CASE x # n
      <4>1. peerToBackupMember'[x] = peerToBackupMember[x]
        BY <1>1, <2>4, <3>2 DEF TypeOK
      <4>2. backupMemberPeer[peerToBackupMember[x]] = x
        BY <1>1, <2>7, <4>1 DEF PeersAreInverse
      <4>3. peerToBackupMember[x] # m
        BY <2>3, <4>2, SentinelsAssumption
      <4> QED
        BY <1>1, <2>4, <2>7, <4>1, <4>2, <4>3 DEF TypeOK
    <3> QED
      BY <3>1, <3>2
  <2> QED
    BY <2>4, <2>5, <2>6, <2>7 DEF PeersAreInverse
<1>4. ASSUME NEW b \in Members, NEW key \in PublicKeys \cup {NoKey},
             NEW s \in Sessions, RecieveNewKeySet(b, key, s)
      PROVE  PeersAreInverse'
  <2>1. CASE UpdateRecoveryState
    BY <1>1, <2>1, FreshParty DEF UpdateRecoveryState
  <2>2. CASE MarkRecieved(b, key)
    BY <1>1, <2>2 DEF MarkRecieved, nextState, PeersAreInverse, Party
  <2> QED
    BY <1>4, <2>1, <2>2 DEF RecieveNewKeySet, MatchKeySet, ProposeKeySet
<1>5. CASE UNCHANGED <<partyMembers, nodesAssignedCount, peerToBackupMember,
                       backupMemberPeer>>
  BY <1>1, <1>5 DEF PeersAreInverse, Party
<1> QED
  BY <1>2, <1>3, <1>4, <1>5
     DEF Next, Vote, RegisterRecoveryKeys, RecieveProof, AdvanceEpoch, RunDkg,
         vars, nextState, mappings

\* No node holds the shares of two members, no member has two nodes, and no
\* mapping of an earlier party survives, for every party and validator set.
THEOREM PeersCorrect == Spec => []PeersAreInverse
<1>1. Init => PeersInv
  <2>1. Init => PeersAreInverse
    BY DEF Init, PeersAreInverse
  <2> QED
    BY <2>1, InitType DEF PeersInv
<1>2. PeersInv => PeersAreInverse
  BY DEF PeersInv
<1> QED
  BY <1>1, <1>2, PeersNext, PTL DEF Spec

-----------------------------------------------------------------------------
\* The members' acknowledgements

AcksInv == TypeOK /\ AcksAreOfTheParty

LEMMA AcksNext == AcksInv /\ [Next]_vars => AcksInv'
<1> SUFFICES ASSUME AcksInv, [Next]_vars PROVE AcksAreOfTheParty'
  BY StepType DEF AcksInv
<1> USE DEF AcksAreOfTheParty
<1>1. TypeOK /\ AcksAreOfTheParty
  BY DEF AcksInv
<1>2. ASSUME DeleteNextStateMappings PROVE keysRecieved' = {} /\ submittedProofs' = {}
  BY <1>1, <1>2 DEF DeleteNextStateMappings
<1>3. ASSUME NEW p \in Parties, RegisterNewBackupParty(p) PROVE AcksAreOfTheParty'
  BY <1>2, <1>3 DEF RegisterNewBackupParty
<1>4. ASSUME NEW m \in Members, NEW key \in PublicKeys \cup {NoKey},
             NEW s \in Sessions, RecieveNewKeySet(m, key, s)
      PROVE  AcksAreOfTheParty'
  <2>1. CASE UpdateRecoveryState
    BY <1>2, <2>1 DEF UpdateRecoveryState
  <2>2. ASSUME MarkRecieved(m, key), pubkey' = key, pubkey \in {key, NoKey}
        PROVE  AcksAreOfTheParty'
    <3>1. /\ keysRecieved' = keysRecieved \cup {m} /\ m \in Party
          /\ accepted' = accepted \cup {<<m, key>>}
          /\ UNCHANGED <<partyMembers, submittedProofs>>
      BY <1>4, <2>2 DEF RecieveNewKeySet, MarkRecieved, nextState
    <3>2. ASSUME NEW b \in keysRecieved'
          PROVE  b \in Party' /\ {<<b, pubkey'>>, <<b, NoKey>>} \cap accepted' # {}
      BY <1>1, <2>2, <3>1 DEF Party
    <3> QED
      BY <1>1, <3>1, <3>2 DEF Party
  <2> QED
    BY <1>4, <2>1, <2>2 DEF RecieveNewKeySet, MatchKeySet, ProposeKeySet, proposal
<1>5. ASSUME NEW m \in Members, RecieveProof(m) PROVE AcksAreOfTheParty'
  BY <1>1, <1>5 DEF RecieveProof, nextState, proposal, Party
<1>6. CASE UNCHANGED <<partyMembers, pubkey, keysRecieved, submittedProofs, accepted>>
  BY <1>1, <1>6 DEF Party
<1> QED
  BY <1>3, <1>4, <1>5, <1>6
     DEF Next, Vote, RegisterRecoveryKeys, SetMemberForDkg, AdvanceEpoch, RunDkg,
         vars, nextState, proposal, mappings

\* Only a member of the party now registered counts, for the proposal's public
\* key or the empty one, which it has itself submitted to this party: what
\* earlier parties sent is never counted.
THEOREM AcksCorrect == Spec => []AcksAreOfTheParty
<1>1. Init => AcksInv
  <2>1. Init => AcksAreOfTheParty
    BY DEF Init, AcksAreOfTheParty
  <2> QED
    BY <2>1, InitType DEF AcksInv
<1>2. AcksInv => AcksAreOfTheParty
  BY DEF AcksInv
<1> QED
  BY <1>1, <1>2, AcksNext, PTL DEF Spec

-----------------------------------------------------------------------------
\* Completed backups

\* A party under way means that no backup is current.
BackupsInv == TypeOK /\ (partyMembers # <<>> => recoveryState = NoBackup)

LEMMA BackupsNext == BackupsInv /\ [Next]_vars => BackupsInv'
<1> SUFFICES ASSUME BackupsInv, [Next]_vars
             PROVE  partyMembers' # <<>> => recoveryState' = NoBackup
  BY StepType DEF BackupsInv
<1>1. ASSUME NEW p \in Parties, RegisterNewBackupParty(p)
      PROVE  recoveryState' = NoBackup
  BY <1>1 DEF RegisterNewBackupParty
<1>2. ASSUME UpdateRecoveryState PROVE partyMembers' = <<>>
  BY <1>2 DEF UpdateRecoveryState, ResetNextState
<1> QED
  BY <1>1, <1>2
     DEF Next, Vote, RegisterRecoveryKeys, SetMemberForDkg, AdvanceEpoch, RunDkg,
         RecieveProof, RecieveNewKeySet, MatchKeySet, ProposeKeySet, MarkRecieved,
         BackupsInv, vars, nextState, history

LEMMA CurrentOrPast ==
    ASSUME BackupsInv, [Next]_vars, recoveryState # NoBackup
    PROVE  \/ recoveryState' = recoveryState
           \/ pastBackupStates'[recoveryState.sessionId] = recoveryState
<1>1. partyMembers = <<>> /\ Party = {}
  BY DEF BackupsInv, Party
<1>2. recoveryState.sessionId \in Sessions \cup {NoSession}
  BY DEF BackupsInv, TypeOK, BackupState
<1>3. ASSUME NEW p \in Parties, RegisterNewBackupParty(p)
      PROVE  pastBackupStates'[recoveryState.sessionId] = recoveryState
  BY <1>2, <1>3 DEF RegisterNewBackupParty, BackupsInv, TypeOK
<1>4. ASSUME NEW m \in Members, NEW key \in PublicKeys \cup {NoKey},
             NEW s \in Sessions, RecieveNewKeySet(m, key, s)
      PROVE  FALSE
  BY <1>1, <1>4 DEF RecieveNewKeySet
<1> QED
  BY <1>3, <1>4
     DEF Next, Vote, RegisterRecoveryKeys, SetMemberForDkg, AdvanceEpoch, RunDkg,
         RecieveProof, vars, history

\* A completed backup leaves recoveryState only into pastBackupStates.
THEOREM BackupsKept == Spec => BackupsAreKept
<1>1. Init => BackupsInv
  <2>1. Init => partyMembers = <<>>
    BY DEF Init
  <2> QED
    BY <2>1, InitType DEF BackupsInv
<1> QED
  BY <1>1, BackupsNext, CurrentOrPast, PTL DEF Spec, BackupsAreKept

-----------------------------------------------------------------------------
\* Who has voted for the keys that are registered

\* When all members are mapped there are as many peers as members.
LEMMA PeersAreCounted ==
    ASSUME PeersInv, AllBackupMembersMapped
    PROVE  IsFiniteSet(Peers) /\ Cardinality(Peers) = Len(partyMembers)
<1> DEFINE N == Len(partyMembers)
           f == [i \in 1..N |-> backupMemberPeer[partyMembers[i]]]
<1>1. /\ partyMembers \in Seq(Members) /\ N \in Nat /\ TypeOK /\ PeersAreInverse
      /\ \A i \in 1..N : partyMembers[i] \in Members
  BY PartyIsOfMembers DEF PeersInv
<1>2. ASSUME NEW i \in 1..N
      PROVE  f[i] \in Peers /\ peerToBackupMember[f[i]] = partyMembers[i]
  <2>1. f[i] \in Nodes /\ f[i] # NoNode
    BY <1>1 DEF AllBackupMembersMapped, PeersAreInverse, TypeOK
  <2> QED
    BY <1>1, <2>1, SentinelsAssumption DEF PeersAreInverse, Peers
<1>3. \A i, j \in 1..N : f[i] = f[j] => i = j
  <2>1. \A i, j \in 1..N : f[i] = f[j] => partyMembers[i] = partyMembers[j]
    BY <1>2
  <2> QED
    BY <1>1, <2>1, PartyIsOfMembers
<1>4. ASSUME NEW n \in Peers PROVE \E i \in 1..N : f[i] = n
  <2>1. backupMemberPeer[peerToBackupMember[n]] = n /\ peerToBackupMember[n] \in Members
    BY <1>1 DEF Peers, PeersAreInverse, TypeOK
  <2>2. peerToBackupMember[n] \in Party
    BY <1>1, <2>1, SentinelsAssumption DEF Peers, PeersAreInverse
  <2> QED
    BY <2>1, <2>2 DEF Party
<1>5. f \in Bijection(1..N, Peers)
  <2>1. f \in [1..N -> Peers]
    BY <1>2
  <2> HIDE DEF f
  <2> QED
    BY <1>3, <1>4, <2>1 DEF Bijection, Injection, Surjection, IsInjective
<1>6. ExistsBijection(1..N, Peers)
  BY <1>5 DEF ExistsBijection
<1>7. IsFiniteSet(1..N)
  BY <1>1, FS_Interval
<1>8. IsFiniteSet(Peers)
  BY <1>6, <1>7, FS_Bijection
<1> QED
  BY <1>1, <1>6, <1>8, FS_CountingElements

\* The keys of a DKG exist once it was run, by a party that is complete and
\* keeps its peers; until the next party only those can vote for them.
VotersInv ==
    /\ PeersInv
    /\ NewKeysAreUnanimous
    /\ \A d \in Dkgs, t \in KeyTypes : voted[<<d, t>>] # {} => d \in keysMade
    /\ dkg \in keysMade /\ partyMembers # <<>> =>
          /\ AllBackupMembersMapped
          /\ \A k \in KeysOf(dkg) \cap RecoveryKeys : voted[k] \subseteq Peers

LEMMA VotersNext == VotersInv /\ [Next]_vars => VotersInv'
<1> SUFFICES ASSUME VotersInv, [Next]_vars PROVE VotersInv'
  OBVIOUS
<1>1. /\ PeersInv /\ PeersInv' /\ TypeOK /\ NewKeysAreUnanimous
      /\ dkg \in Nat /\ keysMade \subseteq 0..dkg
  BY PeersNext, BoundAssumption DEF VotersInv, PeersInv, TypeOK
<1>2. ASSUME NEW p \in Parties, RegisterNewBackupParty(p) PROVE VotersInv'
  <2>1. registeredRecoveryKeys' = {} /\ dkg' = dkg + 1 /\ UNCHANGED <<keysMade, voted>>
    BY <1>2 DEF RegisterNewBackupParty, ResetNextState
  <2>2. dkg' \notin keysMade'
    BY <1>1, <2>1
  <2>3. NewKeysAreUnanimous'
    BY <2>1 DEF NewKeysAreUnanimous
  <2> QED
    BY <1>1, <2>1, <2>2, <2>3 DEF VotersInv
<1>3. ASSUME NEW n \in Nodes, SetMemberForDkg(n) PROVE VotersInv'
  <2>1. ~AllBackupMembersMapped /\ partyMembers # <<>>
    BY <1>1, <1>3 DEF SetMemberForDkg, AllBackupMembersMapped, TypeOK
  <2>2. UNCHANGED <<partyMembers, registeredRecoveryKeys, voted, dkg, keysMade>>
    BY <1>3 DEF SetMemberForDkg
  <2>3. registeredRecoveryKeys \cap KeysOf(dkg) = {} /\ dkg \notin keysMade
    BY <1>1, <2>1 DEF VotersInv, NewKeysAreUnanimous
  <2>4. NewKeysAreUnanimous'
    BY <2>2, <2>3 DEF NewKeysAreUnanimous, KeysOf
  <2> QED
    BY <1>1, <2>2, <2>3, <2>4 DEF VotersInv
<1>4. ASSUME NEW n \in Nodes, NEW ks \in KeyLists, Vote(n, ks) PROVE VotersInv'
  <2>1. /\ Len(partyMembers) > 1 /\ partyMembers # <<>> /\ n \in Peers
        /\ ks \subseteq RecoveryKeys /\ \A k \in ks : k[1] \in keysMade
        /\ UNCHANGED <<partyMembers, nodesAssignedCount, peerToBackupMember, dkg, keysMade>>
    BY <1>1, <1>4, KeyListsAssumption
       DEF Vote, RegisterRecoveryKeys, mappings, Peers
  <2>2. \A k \in RecoveryKeys :
           voted'[k] = IF k \in ks THEN voted[k] \cup {n} ELSE voted[k]
    BY <1>4 DEF Vote, RegisterRecoveryKeys
  <2>3. \A d \in Dkgs, t \in KeyTypes : voted'[<<d, t>>] # {} => d \in keysMade'
    BY <2>1, <2>2 DEF VotersInv, RecoveryKeys
  <2>4. dkg \in keysMade =>
           /\ AllBackupMembersMapped
           /\ \A k \in KeysOf(dkg) \cap RecoveryKeys : voted'[k] \subseteq Peers
    BY <2>1, <2>2 DEF VotersInv
  <2>5. ASSUME NEW k \in registeredRecoveryKeys', k \in KeysOf(dkg)
        PROVE  voted'[k] = Peers /\ AllBackupMembersMapped
    <3>1. k \in ks /\ k \in RecoveryKeys /\ Cardinality(voted'[k]) = Len(partyMembers)
      BY <1>4, <2>1, <2>5 DEF Vote, RegisterRecoveryKeys, KeysVotedIn, HasAllVotes
    <3>2. dkg \in keysMade
      BY <2>1, <2>5, <3>1 DEF KeysOf
    <3>3. AllBackupMembersMapped /\ voted'[k] \subseteq Peers
      BY <2>4, <2>5, <3>1, <3>2
    <3> QED
      BY <1>1, <3>1, <3>3, PeersAreCounted, FS_Subset
  <2>6. NewKeysAreUnanimous'
    BY <2>1, <2>5 DEF NewKeysAreUnanimous, KeysOf, Peers, AllBackupMembersMapped
  <2> QED
    BY <1>1, <2>1, <2>3, <2>4, <2>6
       DEF VotersInv, Peers, AllBackupMembersMapped, KeysOf, RecoveryKeys
<1>5. ASSUME NEW m \in Members, NEW key \in PublicKeys \cup {NoKey},
             NEW s \in Sessions, RecieveNewKeySet(m, key, s)
      PROVE  VotersInv'
  <2>1. UNCHANGED <<voted, dkg, keysMade>>
    BY <1>5 DEF RecieveNewKeySet
  <2>2. CASE UpdateRecoveryState
    <3>1. partyMembers' = <<>> /\ registeredRecoveryKeys' = {}
      BY <2>2 DEF UpdateRecoveryState, ResetNextState
    <3>2. NewKeysAreUnanimous'
      BY <3>1 DEF NewKeysAreUnanimous
    <3> QED
      BY <1>1, <2>1, <3>1, <3>2 DEF VotersInv
  <2>3. CASE MarkRecieved(m, key)
    BY <1>1, <2>1, <2>3
       DEF MarkRecieved, nextState, VotersInv, NewKeysAreUnanimous, Peers, KeysOf,
           RecoveryKeys, AllBackupMembersMapped
  <2> QED
    BY <1>5, <2>2, <2>3 DEF RecieveNewKeySet, MatchKeySet, ProposeKeySet
<1>6. CASE RunDkg
  <2>1. /\ keysMade' = keysMade \cup {dkg} /\ AllBackupMembersMapped
        /\ dkg \notin keysMade
        /\ UNCHANGED <<nextState, mappings, voted, dkg>>
    BY <1>6 DEF RunDkg
  <2>2. NewKeysAreUnanimous'
    BY <1>1, <2>1
       DEF NewKeysAreUnanimous, KeysOf, Peers, AllBackupMembersMapped, nextState, mappings
  <2>3. \A k \in KeysOf(dkg) \cap RecoveryKeys : voted[k] = {}
    BY <2>1 DEF VotersInv, KeysOf, RecoveryKeys
  <2>4. /\ AllBackupMembersMapped'
        /\ \A k \in KeysOf(dkg') \cap RecoveryKeys : voted'[k] \subseteq Peers'
    BY <2>1, <2>3 DEF AllBackupMembersMapped, nextState
  <2>5. \A d \in Dkgs, t \in KeyTypes : voted'[<<d, t>>] # {} => d \in keysMade'
    BY <2>1 DEF VotersInv
  <2> QED
    BY <1>1, <2>2, <2>4, <2>5 DEF VotersInv, RecoveryKeys
<1>7. CASE UNCHANGED <<partyMembers, nodesAssignedCount, registeredRecoveryKeys,
                       peerToBackupMember, voted, dkg, keysMade>>
  BY <1>1, <1>7
     DEF VotersInv, NewKeysAreUnanimous, Peers, KeysOf, RecoveryKeys,
         AllBackupMembersMapped
<1> QED
  BY <1>2, <1>3, <1>4, <1>5, <1>6, <1>7
     DEF Next, RecieveProof, AdvanceEpoch, vars, nextState, mappings

\* Initially there are no keys, no votes and no party.
LEMMA InitVoters == Init => VotersInv
<1>1. Init => PeersInv
  <2>1. Init => PeersAreInverse
    BY DEF Init, PeersAreInverse
  <2> QED
    BY <2>1, InitType DEF PeersInv
<1>2. \A d \in Dkgs, t \in KeyTypes : <<d, t>> \in RecoveryKeys
  BY DEF RecoveryKeys
<1> QED
  BY <1>1, <1>2 DEF Init, VotersInv, NewKeysAreUnanimous

\* Keys of the DKG under way are registered by the votes of all its peers and
\* nobody else's, for every size of the party, whatever lists of keys are voted
\* for and however often or late.
THEOREM KeysAreUnanimous == Spec => []NewKeysAreUnanimous
<1>1. VotersInv => NewKeysAreUnanimous
  BY DEF VotersInv
<1> QED
  BY <1>1, InitVoters, VotersNext, PTL DEF Spec

-----------------------------------------------------------------------------
\* The votes that are still to come

\* While the vote of a complete party is open, only its peers have voted for
\* the keys of its DKG, and each of the keys lacks the vote of a peer that will
\* not be refused when it sends it.
VotesCanComplete ==
    partyMembers # <<>> /\ AllBackupMembersMapped /\ ~IsRecoveryDkgCompleted =>
        /\ Len(partyMembers) > 1
        /\ \A k \in KeysOf(dkg) :
              voted[k] \subseteq Peers /\ \E n \in Peers : n \notin voted[k]

\* A party under way is of some DKG, and the votes of all its peers would have
\* registered its keys.
OpenInv ==
    partyMembers # <<>> =>
        /\ dkg \in Dkgs /\ Len(partyMembers) > 1
        /\ AllBackupMembersMapped /\ ~IsRecoveryDkgCompleted =>
              \A k \in KeysOf(dkg) : voted[k] # Peers

LEMMA OpenNext ==
    VotersInv /\ VotersInv' /\ OpenInv /\ [Next]_vars => OpenInv'
<1> SUFFICES ASSUME VotersInv, VotersInv', OpenInv, [Next]_vars PROVE OpenInv'
  OBVIOUS
<1>1. PeersInv /\ PeersInv' /\ TypeOK /\ dkg \in 0..MaxDkg /\ MaxDkg \in Nat
  BY BoundAssumption DEF VotersInv, PeersInv, TypeOK
<1>2. ASSUME NEW p \in Parties, RegisterNewBackupParty(p) PROVE OpenInv'
  <2>1. /\ partyMembers' = p /\ nodesAssignedCount' = 0 /\ Len(p) > 1
        /\ dkg < MaxDkg /\ dkg' = dkg + 1
    BY <1>2 DEF RegisterNewBackupParty, ResetNextState
  <2> QED
    BY <1>1, <2>1 DEF OpenInv, Dkgs, AllBackupMembersMapped
<1>3. ASSUME NEW n \in Nodes, SetMemberForDkg(n) PROVE OpenInv'
  <2>1. ~AllBackupMembersMapped /\ partyMembers # <<>>
    BY <1>1, <1>3 DEF SetMemberForDkg, AllBackupMembersMapped, TypeOK
  <2>2. /\ UNCHANGED <<partyMembers, registeredRecoveryKeys, voted, dkg>>
        /\ nodesAssignedCount' = nodesAssignedCount + 1
        /\ peerToBackupMember' = [peerToBackupMember EXCEPT
              ![n] = partyMembers[nodesAssignedCount + 1]]
    BY <1>3 DEF SetMemberForDkg
  <2>3. n \in Peers'
    <3>1. nodesAssignedCount + 1 \in 1..Len(partyMembers)
      BY <1>1, <2>1, PartyIsOfMembers DEF AllBackupMembersMapped, TypeOK
    <3>2. partyMembers[nodesAssignedCount + 1] \in Members
      BY <1>1, <3>1, PartyIsOfMembers
    <3> QED
      BY <1>1, <2>2, <3>2, SentinelsAssumption DEF Peers, TypeOK
  <2>4. \A k \in KeysOf(dkg) : voted[k] = {}
    BY <2>1 DEF OpenInv, VotersInv, KeysOf
  <2> QED
    BY <2>1, <2>2, <2>3, <2>4 DEF OpenInv, KeysOf
<1>4. ASSUME NEW n \in Nodes, NEW ks \in KeyLists, Vote(n, ks) PROVE OpenInv'
  <2>1. /\ UNCHANGED <<partyMembers, nodesAssignedCount, peerToBackupMember, dkg>>
        /\ registeredRecoveryKeys = {} /\ partyMembers # <<>>
        /\ registeredRecoveryKeys' =
              {k \in ks : Cardinality(voted'[k]) = Len(partyMembers)}
    BY <1>1, <1>4, PartyIsOfMembers
       DEF Vote, RegisterRecoveryKeys, mappings, KeysVotedIn, HasAllVotes
  <2>2. ASSUME AllBackupMembersMapped, registeredRecoveryKeys' = {},
               NEW k \in KeysOf(dkg)
        PROVE  voted'[k] # Peers
    <3>1. CASE k \in ks
      <4>1. Cardinality(voted'[k]) # Len(partyMembers)
        BY <2>1, <2>2, <3>1
      <4> QED
        BY <1>1, <2>2, <4>1, PeersAreCounted
    <3>2. CASE k \notin ks
      <4>1. k \in RecoveryKeys
        BY <2>1 DEF KeysOf, RecoveryKeys, OpenInv
      <4>2. voted'[k] = voted[k]
        BY <1>4, <3>2, <4>1 DEF Vote, RegisterRecoveryKeys
      <4> QED
        BY <2>1, <2>2, <4>2 DEF OpenInv, IsRecoveryDkgCompleted
    <3> QED
      BY <3>1, <3>2
  <2> QED
    BY <2>1, <2>2
       DEF OpenInv, AllBackupMembersMapped, IsRecoveryDkgCompleted, Peers, KeysOf
<1>5. ASSUME NEW m \in Members, NEW key \in PublicKeys \cup {NoKey},
             NEW s \in Sessions, RecieveNewKeySet(m, key, s)
      PROVE  OpenInv'
  <2>1. CASE UpdateRecoveryState
    BY <2>1 DEF UpdateRecoveryState, ResetNextState, OpenInv
  <2>2. CASE MarkRecieved(m, key)
    BY <1>5, <2>2
       DEF RecieveNewKeySet, MarkRecieved, nextState, OpenInv, Peers, KeysOf,
           AllBackupMembersMapped, IsRecoveryDkgCompleted
  <2> QED
    BY <1>5, <2>1, <2>2 DEF RecieveNewKeySet, MatchKeySet, ProposeKeySet
<1>6. CASE UNCHANGED <<partyMembers, nodesAssignedCount, registeredRecoveryKeys,
                       peerToBackupMember, voted, dkg>>
  BY <1>6
     DEF OpenInv, Peers, KeysOf, AllBackupMembersMapped, IsRecoveryDkgCompleted
<1> QED
  BY <1>2, <1>3, <1>4, <1>5, <1>6
     DEF Next, RecieveProof, AdvanceEpoch, RunDkg, vars, nextState, mappings

\* While the vote is open, no key of the DKG under way waits for a vote that
\* would be refused: registerRecoveryKeys is stuck only when a peer does not
\* vote, for every size of the party and whatever lists of keys are voted for.
THEOREM VotesCanAlwaysComplete == Spec => []VotesCanComplete
<1>1. Init => VotersInv /\ OpenInv
  BY InitVoters DEF Init, OpenInv
<1>2. ASSUME VotersInv, OpenInv PROVE VotesCanComplete
  <2> SUFFICES ASSUME partyMembers # <<>>, AllBackupMembersMapped,
                      ~IsRecoveryDkgCompleted, NEW k \in KeysOf(dkg)
               PROVE  voted[k] \subseteq Peers /\ \E n \in Peers : n \notin voted[k]
    BY <1>2 DEF VotesCanComplete, OpenInv
  <2>1. k \in RecoveryKeys /\ voted[k] # Peers
    BY <1>2 DEF OpenInv, KeysOf, RecoveryKeys
  <2>2. voted[k] \subseteq Peers
    BY <1>2, <2>1 DEF VotersInv, KeysOf, RecoveryKeys
  <2> QED
    BY <2>1, <2>2
<1> QED
  BY <1>1, <1>2, VotersNext, OpenNext, PTL DEF Spec
=============================================================================
