---------------------- MODULE BackupRecoveryProperties ----------------------
(* What BackupRecovery is to keep, whatever the order of the calls.          *)
EXTENDS BackupRecovery

BackupState == [pubkey : PublicKeys \cup {NoKey},
                sessionId : Sessions \cup {NoSession},
                partyThreshold : Nat, partyMembers : Seq(Members)]

\* Type correctness: the storage of BackupRecovery holds what its fields say.
TypeOK ==
    /\ partyMembers \in Parties \cup {<<>>}
    /\ nodesAssignedCount \in 0..Len(partyMembers)
    /\ registeredRecoveryKeys \subseteq RecoveryKeys
    /\ pubkey \in PublicKeys \cup {NoKey}
    /\ sessionId \in Sessions \cup {NoSession}
    /\ peerToBackupMember \in [Nodes -> Members \cup {NoMember}]
    /\ backupMemberPeer \in [Members -> Nodes \cup {NoNode}]
    /\ keysRecieved \subseteq Members
    /\ submittedProofs \subseteq Members
    /\ voted \in [RecoveryKeys -> SUBSET Nodes]
    /\ recoveryState \in BackupState
    /\ pastBackupStates \in [Sessions \cup {NoSession} -> BackupState]
    /\ validators \in SUBSET Nodes
    /\ dkg \in 0..MaxDkg
    /\ keysMade \subseteq 0..dkg
    /\ accepted \subseteq Party \X (PublicKeys \cup {NoKey})

\* The members that have a peer are the first nodesAssignedCount ones of the
\* party, and the two mappings that setMemberForDkg fills are inverse of each
\* other: no node holds the shares of two members, no member has two nodes,
\* and nothing of an earlier party is left in either mapping.
PeersAreInverse ==
    /\ \A i \in 1..Len(partyMembers) :
          (backupMemberPeer[partyMembers[i]] # NoNode)
              <=> (i <= nodesAssignedCount)
    /\ \A m \in Members : backupMemberPeer[m] # NoNode =>
          m \in Party /\ peerToBackupMember[backupMemberPeer[m]] = m
    /\ \A n \in Nodes : peerToBackupMember[n] # NoMember =>
          backupMemberPeer[peerToBackupMember[n]] = n

\* A member counted in keysRecieved is of the party now registered and has
\* itself submitted, since that party was registered, the proposal's public
\* key, or the empty key while there was no proposal; what a member sent to an
\* earlier party never counts.  recieveNewKeySet compares no more than the
\* public key, so the member may have sent another session with it.
AcksAreOfTheParty ==
    /\ \A m \in keysRecieved :
          m \in Party /\ {<<m, pubkey>>, <<m, NoKey>>} \cap accepted # {}
    /\ submittedProofs \subseteq Party

\* Keys of the DKG under way are registered only when each peer of the party
\* has voted for them ("If all the Recovery peers have voted, register it"),
\* however often a node sends its vote again.
NewKeysAreUnanimous ==
    \A k \in registeredRecoveryKeys \cap KeysOf(dkg) :
        voted[k] = Peers /\ AllBackupMembersMapped

\* A backup that is complete is not dropped: recoveryState is neither deleted
\* nor written over unless the same step has pastBackupStates hold it under
\* its session.
BackupsAreKept ==
    [][ recoveryState # NoBackup =>
            \/ recoveryState' = recoveryState
            \/ pastBackupStates'[recoveryState.sessionId] = recoveryState
      ]_vars

\* The keys of DKG d will not be voted in whole: keys that are not all of its
\* own have closed the vote, or a peer has voted for a part of them, and is
\* refused when it votes for all.
Spoilt(d) ==
    \/ registeredRecoveryKeys # {} /\ ~(KeysOf(d) \subseteq registeredRecoveryKeys)
    \/ \E n \in Peers, k, l \in KeysOf(d) : n \in voted[k] /\ n \notin voted[l]

\* Once the nodes are mapped for a DKG, all its keys are registered in the
\* end, unless the owner registers another party, the party completes a
\* backup, or the vote is spoilt, which registerRecoveryKeys lets a peer do:
\* otherwise votes that arrive late, twice or for an earlier DKG never leave
\* it waiting for votes that cannot come.
DkgCompletes ==
    \A d \in Dkgs :
        (dkg = d /\ partyMembers # <<>> /\ AllBackupMembersMapped)
            ~> \/ KeysOf(d) \subseteq registeredRecoveryKeys
               \/ Spoilt(d)
               \/ dkg # d
               \/ recoveryState # NoBackup
=============================================================================
