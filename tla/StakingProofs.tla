---------------------------- MODULE StakingProofs ----------------------------
(***************************************************************************)
(* The safety invariants of the epoch machine, for every set of stakers    *)
(* and every value of the other constants.                                 *)
(***************************************************************************)
EXTENDS StakingTypeProofs, StakingNodes, StakingRefinement

-----------------------------------------------------------------------------
(* What the steps do to the part of the state the epoch machine is about.   *)

\* A step that does not concern the machine: tokens, aliases, registry, time.
QuietStep == UNCHANGED <<setVars, state, epochNumber, readyForNextEpoch, votesToKick>>

\* Somebody joins or leaves the next set while it is open.
MembershipStep(a) ==
    /\ SetIsOpen
    /\ \/ /\ a \notin validatorsKickedFromNextEpoch
          /\ validatorsInNextEpoch' = validatorsInNextEpoch \cup {a}
       \/ validatorsInNextEpoch' = validatorsInNextEpoch \ {a}
    /\ UNCHANGED <<validatorsInCurrentEpoch, kickedVars, state, epochNumber,
                   readyForNextEpoch, votesToKick>>

\* A vote to kick that is counted without effect.
VoteStep ==
    /\ votesToKick \subseteq votesToKick'
    /\ UNCHANGED <<setVars, state, epochNumber, readyForNextEpoch>>

\* A vote that completes a quorum.
ExpelStep(a) ==
    /\ a \in validatorsInNextEpoch
    /\ MayKickFromCurrentSet
    /\ ShouldKickValidator(votesToKick', a)
    /\ votesToKick \subseteq votesToKick'
    /\ MarkKicked(a)
    /\ validatorsInNextEpoch' = validatorsInNextEpoch \ {a}
    /\ ReactToKick
    /\ UNCHANGED <<validatorsInCurrentEpoch, epochNumber>>

\* Every step of the specification is one of these.
LEMMA NextCases ==
    ASSUME TypeOK, Next
    PROVE  \/ QuietStep
           \/ \E a \in Stakers : MembershipStep(a)
           \/ VoteStep
           \/ \E a \in Stakers : ExpelStep(a)
           \/ LockValidatorsForNextEpoch
           \/ \E n \in Nodes : SignalReadyForNextEpoch(n)
           \/ AdvanceEpoch
           \/ OpenNetwork
<1> USE DEF QuietStep, stakingVars, setVars, phaseVars
<1>1. ASSUME NEW a \in Stakers, StakerNext(a)
      PROVE  QuietStep \/ MembershipStep(a)
  <2>1. ASSUME NEW n, NEW k, NEW stake, JoinNextEpoch(a, n, k, stake)
        PROVE  MembershipStep(a)
    BY <2>1 DEF JoinNextEpoch, MayJoin, MembershipStep
  <2>2. CASE StakerRequestToLeave(a)
    BY <2>2 DEF StakerRequestToLeave, RemoveValidatorFromNextEpoch, MembershipStep
  <2>3. CASE GetReward(a)
    BY <2>3 DEF GetReward, vars
  <2> QED
    BY <1>1, <2>1, <2>2, <2>3
       DEF StakerNext, RequestToJoin, Stake, StakeAndJoin, Withdraw, Exit, SetNodeInfo,
           AddStakerAlias, RemoveStakerAlias
<1>2. ASSUME NEW n \in Nodes, RequestToLeaveAsNode(n)
      PROVE  \E a \in Stakers : MembershipStep(a)
  <2> DEFINE a == nodeAddressToStakerAddress[n]
  <2>1. a \in Stakers
    BY <1>2 DEF TypeOK, StakingTypeOK, RequestToLeaveAsNode
  <2>2. MembershipStep(a)
    BY <1>2 DEF RequestToLeaveAsNode, StakerRequestToLeave, RemoveValidatorFromNextEpoch,
                MembershipStep
  <2> QED
    BY <2>1, <2>2
<1>3. ASSUME NEW n \in Nodes, NEW a \in KickTargets, NEW r \in Reasons,
             KickValidatorInNextEpoch(n, a, r)
      PROVE  VoteStep \/ ExpelStep(a)
  <2>1. votesToKick \subseteq votesToKick'
    BY <1>3 DEF KickValidatorInNextEpoch
  <2>2. CASE UNCHANGED <<balancesVars, setVars, phaseVars, registryVars>>
    BY <2>1, <2>2 DEF VoteStep
  <2>3. CASE /\ a \in validatorsInNextEpoch
             /\ ShouldKickValidator(votesToKick', a)
             /\ KickByVote(a, r)
    BY <1>3, <2>1, <2>3
       DEF KickValidatorInNextEpoch, KickByVote, RemoveValidatorFromNextEpoch, ExpelStep
  <2> QED
    BY <1>3, <2>2, <2>3 DEF KickValidatorInNextEpoch
<1>4. Tick => QuietStep
  BY DEF Tick
<1>5. ASSUME NEW h \in Holders, NEW amount \in Amounts, SendLIT(h, amount) PROVE QuietStep
  BY <1>5 DEF SendLIT
<1> QED
  BY <1>1, <1>2, <1>3, <1>4, <1>5, StakingAssumption DEF Next, NodeNext

-----------------------------------------------------------------------------
(* Counting.                                                                *)

\* Every set the machine keeps is finite.
LEMMA SetsAreFinite ==
    ASSUME TypeOK, NEW S \in SUBSET Stakers
    PROVE  /\ IsFiniteSet(S)
           /\ Cardinality(S) \in Nat
           /\ \A T \in SUBSET S : Cardinality(T) \in Nat /\ Cardinality(T) <= Cardinality(S)
<1>1. IsFiniteSet(S)
  BY StakingAssumption, FS_Subset
<1>2. \A T \in SUBSET S : IsFiniteSet(T) /\ Cardinality(T) <= Cardinality(S)
  BY <1>1, FS_Subset
<1> QED
  BY <1>1, <1>2, FS_CardinalityType

\* A consensus is a natural number of members, at most all of them.
LEMMA ConsensusType ==
    ASSUME TypeOK, NEW S \in SUBSET Stakers
    PROVE  /\ ConsensusCount(S) \in Nat
           /\ ConsensusCount(S) <= Cardinality(S)
<1>1. Cardinality(S) \in Nat
  BY SetsAreFinite
<1>2. \A c \in Nat : (2 * c) \div 3 \in Nat /\ (2 * c) \div 3 <= c
  OBVIOUS
<1> QED
  BY <1>1, <1>2 DEF ConsensusCount

\* More flags keep a round ready.
LEMMA ReadyIsMonotone ==
    ASSUME TypeOK, NEW R, NEW Q, R \subseteq Q, IsReadyForNextEpoch(R)
    PROVE  IsReadyForNextEpoch(Q)
<1> DEFINE cur == validatorsInCurrentEpoch
           next == validatorsInNextEpoch
<1>1. cur \in SUBSET Stakers /\ next \in SUBSET Stakers
  BY DEF TypeOK, StakingTypeOK
<1>2. ASSUME NEW S \in SUBSET Stakers
      PROVE  /\ Cardinality(S \cap R) \in Nat
             /\ Cardinality(S \cap Q) \in Nat
             /\ Cardinality(S \cap R) <= Cardinality(S \cap Q)
  <2>1. S \cap Q \in SUBSET Stakers /\ S \cap R \in SUBSET (S \cap Q)
    OBVIOUS
  <2> QED
    BY <2>1, SetsAreFinite
<1>3. Cardinality(next) \in Nat /\ ConsensusCount(cur) \in Nat
  BY <1>1, SetsAreFinite, ConsensusType
<1> QED
  BY <1>1, <1>2, <1>3 DEF IsReadyForNextEpoch, CurrentSetIsReady, NextSetIsReady

-----------------------------------------------------------------------------
(* The kicked sets, whatever the owner does.                                *)

KickedInv == TypeOK /\ KickedStayOut /\ CurrentKickedExact

LEMMA KickedNext ==
    ASSUME KickedInv, Next
    PROVE  KickedStayOut' /\ CurrentKickedExact'
<1> USE DEF KickedInv, KickedStayOut, CurrentKickedExact
<1>1. CASE QuietStep \/ VoteStep
  BY <1>1 DEF QuietStep, VoteStep, setVars, kickedVars
<1>2. ASSUME NEW a \in Stakers, MembershipStep(a)
      PROVE  KickedStayOut' /\ CurrentKickedExact'
  BY <1>2 DEF MembershipStep, kickedVars
<1>3. ASSUME NEW a \in Stakers, ExpelStep(a)
      PROVE  KickedStayOut' /\ CurrentKickedExact'
  BY <1>3 DEF ExpelStep, MarkKicked
<1>4. CASE LockValidatorsForNextEpoch \/ OpenNetwork
  BY <1>4 DEF LockValidatorsForNextEpoch, OpenNetwork, SetEpochState, setVars, kickedVars
<1>5. CASE \E n \in Nodes : SignalReadyForNextEpoch(n)
  BY <1>5 DEF SignalReadyForNextEpoch, setVars, kickedVars
<1>6. CASE AdvanceEpoch
  BY <1>6 DEF AdvanceEpoch
<1> QED
  BY <1>1, <1>2, <1>3, <1>4, <1>5, <1>6, NextCases

LEMMA KickedEpochAdmin ==
    ASSUME KickedInv, EpochAdminNext
    PROVE  KickedStayOut' /\ CurrentKickedExact'
<1> USE DEF KickedInv, KickedStayOut, CurrentKickedExact
<1>1. ASSUME NEW a \in Stakers, AdminKickValidatorInNextEpoch(a)
      PROVE  KickedStayOut' /\ CurrentKickedExact'
  BY <1>1 DEF AdminKickValidatorInNextEpoch, MarkKicked, RemoveValidatorFromNextEpoch
<1>2. ASSUME NEW a \in Stakers, AdminRejoinValidator(a)
      PROVE  KickedStayOut' /\ CurrentKickedExact'
  BY <1>2 DEF AdminRejoinValidator, Forgive
<1>3. CASE AdminResetEpoch
  BY <1>3 DEF AdminResetEpoch
<1>4. CASE UNCHANGED setVars
  BY <1>4 DEF setVars, kickedVars
<1> QED
  BY <1>1, <1>2, <1>3, <1>4
     DEF EpochAdminNext, AdminSlashValidator, stakingVars, SetEpochState, SetEpochEndTime,
         SetEpochLength, SetConfig, SetKickPenaltyPercent

(* Kicked validators are not in the next set, and the second kicked set is   *)
(* the current set's part of the first, whatever users, nodes and owner do.  *)
THEOREM KickedSetsCorrect == AdminSpec => [](KickedStayOut /\ CurrentKickedExact)
<1>1. Init => KickedInv
  BY InitType DEF Init, KickedInv, KickedStayOut, CurrentKickedExact
<1>2. KickedInv /\ [AdminNext]_vars => KickedInv'
  <2> SUFFICES ASSUME KickedInv, [AdminNext]_vars PROVE KickedInv'
    OBVIOUS
  <2>1. TypeOK'
    BY AdminStepType DEF KickedInv
  <2>2. CASE BalancesAdminNext \/ UNCHANGED vars
    BY <2>1, <2>2
       DEF KickedInv, KickedStayOut, CurrentKickedExact, BalancesAdminNext, vars,
           stakingVars, setVars, kickedVars
  <2> QED
    BY <2>1, <2>2, KickedNext, KickedEpochAdmin DEF AdminNext, KickedInv
<1>3. KickedInv => KickedStayOut /\ CurrentKickedExact
  BY DEF KickedInv
<1> QED
  BY <1>1, <1>2, <1>3, PTL DEF AdminSpec

(* The set the resharing threshold is computed from is exactly the kicked    *)
(* part of the current set.                                                  *)
THEOREM KickedCountIsExact == AdminSpec => []CurrentKickedExact
BY KickedSetsCorrect, PTL

-----------------------------------------------------------------------------
(* The next set while it is locked, whatever the owner does.                *)

LEMMA FrozenStep ==
    ASSUME TypeOK, [AdminNext]_vars
    PROVE  ~FrozenSetChanges
<1> USE DEF FrozenSetChanges
<1>1. CASE UNCHANGED validatorsInNextEpoch
  BY <1>1
<1>2. ASSUME Next PROVE ~FrozenSetChanges
  <2>1. CASE QuietStep \/ VoteStep
    BY <1>1, <2>1 DEF QuietStep, VoteStep, setVars
  <2>2. ASSUME NEW a \in Stakers, MembershipStep(a) PROVE ~FrozenSetChanges
    BY <2>2 DEF MembershipStep, SetIsOpen, Open, Frozen
  <2>3. ASSUME NEW a \in Stakers, ExpelStep(a) PROVE ~FrozenSetChanges
    BY <2>3 DEF ExpelStep, ReactToKick, UnlockEpoch, Frozen
  <2>4. CASE \/ LockValidatorsForNextEpoch \/ OpenNetwork \/ AdvanceEpoch
            \/ \E n \in Nodes : SignalReadyForNextEpoch(n)
    BY <1>1, <2>4
       DEF LockValidatorsForNextEpoch, OpenNetwork, SetEpochState, AdvanceEpoch,
           SignalReadyForNextEpoch, setVars
  <2> QED
    BY <1>2, <2>1, <2>2, <2>3, <2>4, NextCases
<1>3. ASSUME NEW a \in Stakers, AdminKickValidatorInNextEpoch(a)
      PROVE  ~FrozenSetChanges
  BY <1>3 DEF AdminKickValidatorInNextEpoch, UnlockEpoch, Frozen
<1>4. ASSUME NEW a \in Stakers, AdminRejoinValidator(a)
      PROVE  ~FrozenSetChanges
  BY <1>4 DEF AdminRejoinValidator, SetIsOpen, Open, Frozen
<1>5. CASE AdminResetEpoch
  BY <1>5 DEF AdminResetEpoch, Frozen
<1> QED
  BY <1>1, <1>2, <1>3, <1>4, <1>5
     DEF AdminNext, EpochAdminNext, BalancesAdminNext, AdminSlashValidator, SetEpochState,
         SetEpochEndTime, SetEpochLength, SetConfig, SetKickPenaltyPercent, vars,
         stakingVars, setVars

(* The set being reshared does not change under the nodes: a step that takes *)
(* or adds a member of the locked set leaves the two frozen states.          *)
THEOREM LockedSetIsStable == AdminSpec => FrozenWhileLocked
<1>1. TypeOK /\ [AdminNext]_vars => [~FrozenSetChanges]_vars
  BY FrozenStep
<1> QED
  BY <1>1, AdminTypeCorrect, PTL DEF AdminSpec, FrozenWhileLocked

-----------------------------------------------------------------------------
(* The epoch machine left to itself.  KickedInv and NeverRestored make its  *)
(* invariants inductive: the kicked members of the current set are the ones *)
(* that are counted, and no ready flag can appear outside of the two frozen *)
(* states, because the Restore state is never entered.                      *)

NeverRestored == state # "Restore"

EpochInv ==
    /\ KickedInv
    /\ NeverRestored
    /\ ThresholdNotKicked
    /\ KickedByQuorum
    /\ ReadyIsNotStale
    /\ QuorumStartsFresh

LEMMA RestoreNext ==
    ASSUME TypeOK, NeverRestored, Next
    PROVE  NeverRestored'
<1> USE DEF NeverRestored
<1>1. ASSUME NEW a \in Stakers, MembershipStep(a) PROVE NeverRestored'
  BY <1>1 DEF MembershipStep
<1>2. ASSUME NEW a \in Stakers, ExpelStep(a) PROVE NeverRestored'
  BY <1>2 DEF ExpelStep, ReactToKick, UnlockEpoch
<1>3. ASSUME NEW n \in Nodes, SignalReadyForNextEpoch(n) PROVE NeverRestored'
  BY <1>3 DEF SignalReadyForNextEpoch
<1> QED
  BY <1>1, <1>2, <1>3, NextCases
     DEF QuietStep, VoteStep, LockValidatorsForNextEpoch, OpenNetwork, SetEpochState,
         AdvanceEpoch

\* One more kick of a member of the current set leaves a consensus of it.
LEMMA ThresholdExpel ==
    ASSUME KickedInv, ThresholdNotKicked, NEW a \in Stakers, ExpelStep(a)
    PROVE  ThresholdNotKicked'
<1> DEFINE cur == validatorsInCurrentEpoch
           kicked == validatorsKickedFromNextEpoch
<1> SUFFICES ASSUME epochNumber > 1
             PROVE  Cardinality(cur \ kicked') >= ConsensusCount(cur)
  BY DEF ThresholdNotKicked, ExpelStep, ConsensusCount
<1>1. /\ IsFiniteSet(cur)
      /\ Cardinality(cur) \in Nat
      /\ ConsensusCount(cur) \in Nat
  BY SetsAreFinite, ConsensusType DEF KickedInv, TypeOK, StakingTypeOK
<1>2. /\ Cardinality(cur \cap kicked) \in Nat
      /\ Cardinality(cur \cap kicked) < Cardinality(cur) - ConsensusCount(cur)
  <2>1. currentValidatorsKickedFromNextEpoch = cur \cap kicked
    BY DEF KickedInv, CurrentKickedExact
  <2> QED
    BY <1>1, <2>1, SetsAreFinite DEF ExpelStep, MayKickFromCurrentSet, KickedInv, TypeOK,
                                     StakingTypeOK
<1>3. /\ Cardinality(cur \cap kicked') \in Nat
      /\ Cardinality(cur \cap kicked') <= Cardinality(cur \cap kicked) + 1
  <2>1. cur \cap kicked' \in SUBSET ((cur \cap kicked) \cup {a})
    BY DEF ExpelStep, MarkKicked
  <2>2. IsFiniteSet(cur \cap kicked)
    BY <1>1, FS_Subset
  <2>3. /\ IsFiniteSet((cur \cap kicked) \cup {a})
        /\ \/ Cardinality((cur \cap kicked) \cup {a}) = Cardinality(cur \cap kicked)
           \/ Cardinality((cur \cap kicked) \cup {a}) = Cardinality(cur \cap kicked) + 1
    BY <2>2, FS_AddElement
  <2>4. /\ IsFiniteSet(cur \cap kicked')
        /\ Cardinality(cur \cap kicked') <= Cardinality((cur \cap kicked) \cup {a})
    BY <2>1, <2>3, FS_Subset
  <2>5. Cardinality(cur \cap kicked') \in Nat
    BY <2>4, FS_CardinalityType
  <2> QED
    BY <1>2, <2>3, <2>4, <2>5
<1>4. Cardinality(cur \ kicked') = Cardinality(cur) - Cardinality(cur \cap kicked')
  BY <1>1, FS_Difference
<1> QED
  BY <1>1, <1>2, <1>3, <1>4

LEMMA ThresholdNext ==
    ASSUME KickedInv, ThresholdNotKicked, Next
    PROVE  ThresholdNotKicked'
<1>1. CASE UNCHANGED <<validatorsInCurrentEpoch, validatorsKickedFromNextEpoch, epochNumber>>
  BY <1>1 DEF ThresholdNotKicked, ConsensusCount
<1>2. ASSUME NEW a \in Stakers, ExpelStep(a) PROVE ThresholdNotKicked'
  BY <1>2, ThresholdExpel
<1>3. ASSUME AdvanceEpoch PROVE ThresholdNotKicked'
  <2>1. validatorsInNextEpoch \in SUBSET Stakers
    BY DEF KickedInv, TypeOK, StakingTypeOK
  <2>2. ConsensusCount(validatorsInNextEpoch) <= Cardinality(validatorsInNextEpoch)
    BY <2>1, ConsensusType DEF KickedInv
  <2>3. /\ validatorsInCurrentEpoch' = validatorsInNextEpoch
        /\ validatorsInCurrentEpoch' \ validatorsKickedFromNextEpoch'
              = validatorsInNextEpoch
    BY <1>3 DEF AdvanceEpoch
  <2>4. ConsensusCount(validatorsInCurrentEpoch)' = ConsensusCount(validatorsInNextEpoch)
    BY <2>3 DEF ConsensusCount
  <2>5. /\ Cardinality(validatorsInNextEpoch) \in Nat
        /\ ConsensusCount(validatorsInNextEpoch) \in Nat
    BY <2>1, SetsAreFinite, ConsensusType DEF KickedInv
  <2> QED
    BY <2>2, <2>3, <2>4, <2>5 DEF ThresholdNotKicked
<1> QED
  BY <1>1, <1>2, <1>3, NextCases
     DEF KickedInv, QuietStep, VoteStep, MembershipStep, LockValidatorsForNextEpoch,
         OpenNetwork, SetEpochState, SignalReadyForNextEpoch, setVars, kickedVars

\* Later votes do not undo a quorum of voters.
LEMMA QuorumIsMonotone ==
    ASSUME TypeOK, NEW votes, NEW more, votes \subseteq more, NEW a
    PROVE  /\ Cardinality(VotersToKick(votes, a)) \in Nat
           /\ Cardinality(VotersToKick(more, a)) \in Nat
           /\ Cardinality(VotersToKick(votes, a)) <= Cardinality(VotersToKick(more, a))
<1>1. /\ VotersToKick(more, a) \in SUBSET Stakers
      /\ VotersToKick(votes, a) \in SUBSET VotersToKick(more, a)
  BY DEF VotersToKick
<1> QED
  BY <1>1, SetsAreFinite

LEMMA KickedByQuorumNext ==
    ASSUME KickedInv, KickedByQuorum, Next
    PROVE  KickedByQuorum'
<1>1. ASSUME votesToKick \subseteq votesToKick',
             UNCHANGED <<validatorsInCurrentEpoch, epochNumber>>,
             NEW b \in Stakers,
             \/ b \in validatorsKickedFromNextEpoch
             \/ ShouldKickValidator(votesToKick', b)
      PROVE  Cardinality(VotersToKick(votesToKick, b)')
                >= ConsensusCount(validatorsInCurrentEpoch)'
  <2>1. /\ ConsensusCount(validatorsInCurrentEpoch)'
              = ConsensusCount(validatorsInCurrentEpoch)
        /\ VotersToKick(votesToKick, b)' = VotersToKick(votesToKick', b)
    BY <1>1 DEF ConsensusCount, VotersToKick, Vote
  <2>2. ConsensusCount(validatorsInCurrentEpoch) \in Nat
    BY ConsensusType DEF KickedInv, TypeOK, StakingTypeOK
  <2> QED
    BY <1>1, <2>1, <2>2, QuorumIsMonotone DEF KickedByQuorum, ShouldKickValidator, KickedInv
<1>2. validatorsKickedFromNextEpoch \subseteq Stakers
  BY DEF KickedInv, TypeOK, StakingTypeOK
<1>3. CASE /\ votesToKick \subseteq votesToKick'
           /\ UNCHANGED <<validatorsInCurrentEpoch, epochNumber,
                          validatorsKickedFromNextEpoch>>
  BY <1>1, <1>2, <1>3 DEF KickedByQuorum
<1>4. ASSUME NEW a \in Stakers, ExpelStep(a) PROVE KickedByQuorum'
  BY <1>1, <1>2, <1>4 DEF ExpelStep, MarkKicked, KickedByQuorum
<1>5. CASE AdvanceEpoch
  BY <1>5 DEF AdvanceEpoch, KickedByQuorum
<1> QED
  BY <1>3, <1>4, <1>5, NextCases
     DEF KickedInv, QuietStep, VoteStep, MembershipStep, LockValidatorsForNextEpoch,
         OpenNetwork, SetEpochState, SignalReadyForNextEpoch, setVars, kickedVars

LEMMA ReadyNext ==
    ASSUME TypeOK, ReadyIsNotStale, Next
    PROVE  ReadyIsNotStale'
<1>1. CASE UNCHANGED <<validatorsInCurrentEpoch, validatorsInNextEpoch, readyForNextEpoch,
                       state>>
  BY <1>1 DEF ReadyIsNotStale, IsReadyForNextEpoch, CurrentSetIsReady, NextSetIsReady,
              ConsensusCount
<1>2. CASE state' # "ReadyForNextEpoch"
  BY <1>2 DEF ReadyIsNotStale
<1>3. ASSUME NEW n \in Nodes, SignalReadyForNextEpoch(n) PROVE ReadyIsNotStale'
  <2>1. IsReadyForNextEpoch(readyForNextEpoch)' <=> IsReadyForNextEpoch(readyForNextEpoch')
    BY <1>3 DEF SignalReadyForNextEpoch, IsReadyForNextEpoch, CurrentSetIsReady,
                NextSetIsReady, ConsensusCount, setVars
  <2>2. state = "ReadyForNextEpoch" => IsReadyForNextEpoch(readyForNextEpoch')
    BY <1>3, ReadyIsMonotone DEF ReadyIsNotStale, SignalReadyForNextEpoch
  <2> QED
    BY <1>3, <2>1, <2>2 DEF ReadyIsNotStale, SignalReadyForNextEpoch
<1>4. ASSUME NEW a \in Stakers, MembershipStep(a) PROVE state' # "ReadyForNextEpoch"
  BY <1>4 DEF MembershipStep, SetIsOpen, Open
<1>5. ASSUME NEW a \in Stakers, ExpelStep(a) PROVE state' # "ReadyForNextEpoch"
  BY <1>5 DEF ExpelStep, ReactToKick, UnlockEpoch, Frozen
<1> QED
  BY <1>1, <1>2, <1>3, <1>4, <1>5, NextCases
     DEF QuietStep, VoteStep, LockValidatorsForNextEpoch, OpenNetwork, SetEpochState,
         AdvanceEpoch, setVars

LEMMA FreshNext ==
    ASSUME NeverRestored, TypeOK, QuorumStartsFresh, Next
    PROVE  QuorumStartsFresh'
<1> USE DEF QuorumStartsFresh, Frozen
<1>1. ASSUME NEW a \in Stakers, ExpelStep(a) PROVE QuorumStartsFresh'
  BY <1>1 DEF ExpelStep, ReactToKick, UnlockEpoch, ClearedByUnlock
<1>2. ASSUME NEW n \in Nodes, SignalReadyForNextEpoch(n) PROVE QuorumStartsFresh'
  BY <1>2 DEF SignalReadyForNextEpoch, NeverRestored, setVars
<1>3. CASE AdvanceEpoch
  BY <1>3 DEF AdvanceEpoch, ClearedByAdvance
<1>4. ASSUME NEW a \in Stakers, MembershipStep(a) PROVE QuorumStartsFresh'
  BY <1>4 DEF MembershipStep
<1> QED
  BY <1>1, <1>2, <1>3, <1>4, NextCases
     DEF QuietStep, VoteStep, LockValidatorsForNextEpoch, OpenNetwork, SetEpochState, setVars

LEMMA EpochInvInit == Init => EpochInv
<1> SUFFICES ASSUME Init PROVE EpochInv
  OBVIOUS
<1>1. KickedInv
  BY InitType DEF Init, KickedInv, KickedStayOut, CurrentKickedExact
<1>2. ThresholdNotKicked
  BY DEF Init, ThresholdNotKicked
<1> QED
  BY <1>1, <1>2 DEF Init, EpochInv, NeverRestored, KickedByQuorum, ReadyIsNotStale,
                    QuorumStartsFresh

LEMMA EpochInvNext == EpochInv /\ [Next]_vars => EpochInv'
<1> SUFFICES ASSUME EpochInv, [Next]_vars PROVE EpochInv'
  OBVIOUS
<1>1. CASE Next
  <2>1. KickedInv'
    BY <1>1, KickedNext, NextType DEF EpochInv, KickedInv
  <2> QED
    BY <1>1, <2>1, RestoreNext, ThresholdNext, KickedByQuorumNext, ReadyNext, FreshNext
       DEF EpochInv, KickedInv
<1>2. CASE UNCHANGED vars
  BY <1>2, StutterType
     DEF EpochInv, KickedInv, KickedStayOut, CurrentKickedExact, NeverRestored,
         ThresholdNotKicked, KickedByQuorum, ReadyIsNotStale, QuorumStartsFresh,
         ConsensusCount, VotersToKick, Vote, IsReadyForNextEpoch, CurrentSetIsReady,
         NextSetIsReady, vars, stakingVars, setVars, kickedVars, phaseVars
<1> QED
  BY <1>1, <1>2

LEMMA EpochInvariant == Spec => []EpochInv
BY EpochInvInit, EpochInvNext, PTL DEF Spec

(* After the first epoch, votes never kick the current set below the number  *)
(* of members that resharing needs.                                          *)
THEOREM ResharingThreshold == Spec => []ThresholdNotKicked
BY EpochInvariant, PTL DEF EpochInv

(* Every kicked validator has the votes of a consensus of this epoch.        *)
THEOREM QuorumOfVotes == Spec => []KickedByQuorum
BY EpochInvariant, PTL DEF EpochInv

(* The state ReadyForNextEpoch is never stale.                               *)
THEOREM ReadinessIsCurrent == Spec => []ReadyIsNotStale
BY EpochInvariant, PTL DEF EpochInv

(* No ready flag of the current set survives an attempt.                     *)
THEOREM FlagsAreFresh == Spec => []QuorumStartsFresh
BY EpochInvariant, PTL DEF EpochInv

-----------------------------------------------------------------------------
(* Staking, left alone by its owner, implements EpochHandover.              *)

\* A step that the handover does not see.
HandoverStutters ==
    UNCHANGED <<IF state \in Frozen THEN "locked" ELSE "open", epochNumber,
                validatorsInCurrentEpoch, validatorsInNextEpoch,
                readyForNextEpoch \cap validatorsInCurrentEpoch>>

HandoverStep == Handover!Next \/ HandoverStutters

\* The handover counts as the epoch machine does.
LEMMA SameCardinality ==
    ASSUME NEW S
    PROVE  Handover!Cardinality(S) = Cardinality(S)
BY DEF Handover!Cardinality, Cardinality

\* A consensus of the current set is enough for the handover.
LEMMA ConsensusIsEnough ==
    ASSUME TypeOK, IsReadyForNextEpoch(readyForNextEpoch)
    PROVE  Handover!Enough(readyForNextEpoch \cap validatorsInCurrentEpoch)
<1> DEFINE cur == validatorsInCurrentEpoch
           acks == readyForNextEpoch \cap cur
<1>1. /\ Cardinality(cur) \in Nat
      /\ Cardinality(acks) \in Nat
      /\ ConsensusCount(cur) \in Nat
  BY SetsAreFinite, ConsensusType DEF TypeOK, StakingTypeOK
<1>2. Cardinality(acks) >= ConsensusCount(cur)
  <2>1. acks = cur \cap readyForNextEpoch
    OBVIOUS
  <2> QED
    BY <2>1 DEF IsReadyForNextEpoch, CurrentSetIsReady
<1>3. \A c, n \in Nat : n >= (2 * c) \div 3 => 3 * n + 2 >= 2 * c
  OBVIOUS
<1>4. 3 * Cardinality(acks) + 2 >= 2 * Cardinality(cur)
  <2>1. CASE Cardinality(cur) = 2
    BY <1>1, <1>2, <2>1 DEF ConsensusCount
  <2>2. CASE Cardinality(cur) # 2
    <3>1. Cardinality(acks) >= (2 * Cardinality(cur)) \div 3
      BY <1>2, <2>2 DEF ConsensusCount
    <3> QED
      BY <1>1, <1>3, <3>1
  <2> QED
    BY <2>1, <2>2
<1> QED
  BY <1>4, SameCardinality DEF Handover!Enough

LEMMA MembershipRefines ==
    ASSUME TypeOK, NEW a \in Stakers, MembershipStep(a)
    PROVE  Handover!Nominate
<1>1. validatorsInNextEpoch' \in SUBSET Stakers
  BY DEF TypeOK, StakingTypeOK, MembershipStep
<1> QED
  BY <1>1 DEF MembershipStep, SetIsOpen, Open, Frozen, Handover!Nominate

LEMMA ExpelRefines ==
    ASSUME TypeOK, NEW a \in Stakers, ExpelStep(a)
    PROVE  HandoverStep
<1>1. /\ validatorsInNextEpoch' \in SUBSET validatorsInNextEpoch
      /\ validatorsInNextEpoch' # validatorsInNextEpoch
      /\ validatorsInNextEpoch' \in SUBSET Stakers
  BY DEF TypeOK, StakingTypeOK, ExpelStep
<1>2. CASE UnlockEpoch
  <2>1. readyForNextEpoch' \cap validatorsInCurrentEpoch' = {}
    BY <1>2 DEF UnlockEpoch, ClearedByUnlock, ExpelStep
  <2> QED
    BY <1>1, <1>2, <2>1
       DEF ExpelStep, UnlockEpoch, Frozen, HandoverStep, Handover!Next, Handover!Abort
<1>3. CASE state = "Active" /\ state' = "NextValidatorSetLocked"
           /\ UNCHANGED readyForNextEpoch
  BY <1>1, <1>3 DEF ExpelStep, Frozen, HandoverStep, Handover!Next, Handover!Lock
<1>4. CASE state \notin Frozen /\ UNCHANGED <<state, readyForNextEpoch>>
  BY <1>1, <1>4 DEF ExpelStep, HandoverStep, Handover!Next, Handover!Nominate
<1> QED
  BY <1>2, <1>3, <1>4 DEF ExpelStep, ReactToKick

LEMMA SignalRefines ==
    ASSUME TypeOK, NeverRestored, NEW n \in Nodes, SignalReadyForNextEpoch(n)
    PROVE  HandoverStep
<1> DEFINE a == nodeAddressToStakerAddress[n]
<1>1. /\ state \in Frozen /\ state' \in Frozen
      /\ readyForNextEpoch' = readyForNextEpoch \cup {a}
      /\ UNCHANGED <<epochNumber, validatorsInCurrentEpoch, validatorsInNextEpoch>>
  BY DEF SignalReadyForNextEpoch, NeverRestored, Frozen, setVars
<1>2. CASE a \in validatorsInCurrentEpoch
  <2>1. readyForNextEpoch' \cap validatorsInCurrentEpoch'
          = (readyForNextEpoch \cap validatorsInCurrentEpoch) \cup {a}
    BY <1>1, <1>2
  <2> QED
    BY <1>1, <1>2, <2>1 DEF HandoverStep, Handover!Next, Handover!Acknowledge
<1>3. CASE a \notin validatorsInCurrentEpoch
  BY <1>1, <1>3 DEF HandoverStep, HandoverStutters
<1> QED
  BY <1>2, <1>3

LEMMA AdvanceRefines ==
    ASSUME TypeOK, AdvanceEpoch
    PROVE  Handover!Handover
<1>1. readyForNextEpoch' \cap validatorsInCurrentEpoch' = {}
  BY DEF AdvanceEpoch, ClearedByAdvance
<1>2. Handover!Enough(readyForNextEpoch \cap validatorsInCurrentEpoch)
  BY ConsensusIsEnough DEF AdvanceEpoch, MayAdvance
<1> QED
  BY <1>1, <1>2 DEF AdvanceEpoch, MayAdvance, Frozen, Handover!Handover

LEMMA StepRefines ==
    ASSUME TypeOK, NeverRestored, [Next]_vars
    PROVE  HandoverStep
<1>1. CASE UNCHANGED vars \/ QuietStep \/ VoteStep
  BY <1>1 DEF vars, stakingVars, phaseVars, QuietStep, VoteStep, setVars, HandoverStep,
              HandoverStutters
<1>2. CASE LockValidatorsForNextEpoch
  BY <1>2 DEF LockValidatorsForNextEpoch, setVars, Frozen, HandoverStep, Handover!Next,
              Handover!Lock
<1>3. CASE OpenNetwork
  BY <1>3 DEF OpenNetwork, SetEpochState, setVars, Frozen, HandoverStep, HandoverStutters
<1>4. ASSUME NEW a \in Stakers, MembershipStep(a) PROVE HandoverStep
  BY <1>4, MembershipRefines DEF HandoverStep, Handover!Next
<1>5. ASSUME NEW a \in Stakers, ExpelStep(a) PROVE HandoverStep
  BY <1>5, ExpelRefines
<1>6. ASSUME NEW n \in Nodes, SignalReadyForNextEpoch(n) PROVE HandoverStep
  BY <1>6, SignalRefines
<1>7. CASE AdvanceEpoch
  BY <1>7, AdvanceRefines DEF HandoverStep, Handover!Next
<1> QED
  BY <1>1, <1>2, <1>3, <1>4, <1>5, <1>6, <1>7, NextCases

(* Every behaviour of the epoch machine is one of the abstract handover.     *)
THEOREM StakingImplementsHandover == Spec => ImplementsHandover
<1>1. Init => Handover!Init
  BY DEF Init, Frozen, Handover!Init
<1>2. TypeOK /\ NeverRestored /\ [Next]_vars => [Handover!Next]_(Handover!handoverVars)
  BY StepRefines DEF HandoverStep, HandoverStutters, Handover!handoverVars
<1>3. Spec => [](TypeOK /\ NeverRestored)
  BY EpochInvariant, PTL DEF EpochInv, KickedInv
<1> QED
  BY <1>1, <1>2, <1>3, PTL DEF Spec, ImplementsHandover, Handover!Spec

-----------------------------------------------------------------------------
(* The owner takes part in the epochs but forces no other state than the     *)
(* locked one: it kicks, rejoins, slashes, resets and configures at will.    *)

OwnerKeepsPhases == SettableStates \subseteq {"NextValidatorSetLocked"}

RoundInv == TypeOK /\ NeverRestored /\ ReadyIsNotStale /\ QuorumStartsFresh

LEMMA RoundEpochAdmin ==
    ASSUME OwnerKeepsPhases, RoundInv, EpochAdminNext
    PROVE  NeverRestored' /\ ReadyIsNotStale' /\ QuorumStartsFresh'
<1> DEFINE Goal == NeverRestored' /\ ReadyIsNotStale' /\ QuorumStartsFresh'
<1>1. CASE UNCHANGED <<validatorsInCurrentEpoch, validatorsInNextEpoch, readyForNextEpoch,
                       state>>
  BY <1>1 DEF RoundInv, NeverRestored, ReadyIsNotStale, QuorumStartsFresh,
              IsReadyForNextEpoch, CurrentSetIsReady, NextSetIsReady, ConsensusCount
<1>2. ASSUME NEW a \in Stakers, AdminKickValidatorInNextEpoch(a) PROVE Goal
  <2>1. CASE UnlockEpoch
    BY <1>2, <2>1 DEF AdminKickValidatorInNextEpoch, UnlockEpoch, ClearedByUnlock,
                      NeverRestored, ReadyIsNotStale, QuorumStartsFresh
  <2>2. CASE state \notin Frozen /\ UNCHANGED <<state, readyForNextEpoch>>
    BY <1>2, <2>2 DEF AdminKickValidatorInNextEpoch, RoundInv, NeverRestored,
                      ReadyIsNotStale, QuorumStartsFresh, Frozen
  <2> QED
    BY <1>2, <2>1, <2>2 DEF AdminKickValidatorInNextEpoch
<1>3. ASSUME NEW a \in Stakers, AdminRejoinValidator(a) PROVE Goal
  BY <1>3 DEF AdminRejoinValidator, SetIsOpen, Open, Frozen, phaseVars, RoundInv,
              NeverRestored, ReadyIsNotStale, QuorumStartsFresh
<1>4. CASE AdminResetEpoch
  BY <1>4 DEF AdminResetEpoch, NeverRestored, ReadyIsNotStale, QuorumStartsFresh
<1>5. ASSUME NEW s \in SettableStates, SetEpochState(s) PROVE Goal
  BY <1>5 DEF OwnerKeepsPhases, SetEpochState, setVars, Frozen, RoundInv, NeverRestored,
              ReadyIsNotStale, QuorumStartsFresh
<1> QED
  BY <1>1, <1>2, <1>3, <1>4, <1>5
     DEF EpochAdminNext, AdminSlashValidator, SetEpochEndTime, SetEpochLength, SetConfig,
         SetKickPenaltyPercent, stakingVars, setVars, phaseVars

LEMMA RoundNext == OwnerKeepsPhases /\ RoundInv /\ [AdminNext]_vars => RoundInv'
<1> SUFFICES ASSUME OwnerKeepsPhases, RoundInv, [AdminNext]_vars PROVE RoundInv'
  OBVIOUS
<1>1. TypeOK'
  BY AdminStepType DEF RoundInv
<1>2. CASE Next
  BY <1>1, <1>2, RestoreNext, ReadyNext, FreshNext DEF RoundInv
<1>3. CASE EpochAdminNext
  BY <1>1, <1>3, RoundEpochAdmin DEF RoundInv
<1>4. CASE BalancesAdminNext \/ UNCHANGED vars
  BY <1>1, <1>4
     DEF RoundInv, NeverRestored, ReadyIsNotStale, QuorumStartsFresh, IsReadyForNextEpoch,
         CurrentSetIsReady, NextSetIsReady, ConsensusCount, BalancesAdminNext, vars,
         stakingVars, setVars, phaseVars
<1> QED
  BY <1>2, <1>3, <1>4 DEF AdminNext

(* An owner that forces no state but the locked one makes no quorum stale,   *)
(* whatever else it does: a ready state is backed by flags, and no flag of   *)
(* the current set outlives its round.                                       *)
THEOREM OwnerKeepsQuorums ==
    ASSUME OwnerKeepsPhases
    PROVE  AdminSpec => [](ReadyIsNotStale /\ QuorumStartsFresh)
<1>1. Init => RoundInv
  BY EpochInvInit DEF EpochInv, KickedInv, RoundInv
<1>2. RoundInv /\ [AdminNext]_vars => RoundInv'
  BY RoundNext
<1>3. RoundInv => ReadyIsNotStale /\ QuorumStartsFresh
  BY DEF RoundInv
<1> QED
  BY <1>1, <1>2, <1>3, PTL DEF AdminSpec

-----------------------------------------------------------------------------
(* The network driven by its nodes, which crash.  Only nodes that crashed    *)
(* are voted out, and a crash is for good: that bounds the kicked members of *)
(* the current set by the offline ones.                                      *)

LEMMA EstablishedEpoch == EstablishedInit => EpochInv
<1> SUFFICES ASSUME EstablishedInit PROVE EpochInv
  OBVIOUS
<1>1. KickedInv
  BY EstablishedType DEF EstablishedInit, KickedInv, KickedStayOut, CurrentKickedExact
<1>2. ThresholdNotKicked
  <2>1. Founders \in SUBSET Stakers
    BY EstablishedAssumption
  <2>2. /\ Cardinality(Founders) \in Nat
        /\ ConsensusCount(Founders) \in Nat
        /\ ConsensusCount(Founders) <= Cardinality(Founders)
    BY <1>1, <2>1, SetsAreFinite, ConsensusType DEF KickedInv
  <2>3. Founders \ {} = Founders
    OBVIOUS
  <2> QED
    BY <2>2, <2>3 DEF EstablishedInit, ThresholdNotKicked
<1> QED
  BY <1>1, <1>2 DEF EstablishedInit, EpochInv, NeverRestored, KickedByQuorum,
                    ReadyIsNotStale, QuorumStartsFresh

KickedAreOffline == \A a \in validatorsKickedFromNextEpoch : ~IsOnline(a, online)

NodesInv == EpochInv /\ KickedAreOffline

\* What the nodes do is what the contract lets them do.
LEMMA NodesStep == [NodesNext]_nodesVars => [Next]_vars
BY StakingAssumption
   DEF NodesNext, NodesDrive, NodeSignals, NodeVotesToKick, Crash, Next, NodeNext, nodesVars

LEMMA NodesKickOffline ==
    ASSUME NodesInv, NodesNext
    PROVE  KickedAreOffline'
<1> USE DEF KickedAreOffline, IsOnline, NodesInv
<1>1. CASE NodesDrive
  <2>1. CASE AdvanceEpoch
    BY <1>1, <2>1 DEF AdvanceEpoch
  <2>2. CASE LockValidatorsForNextEpoch \/ Tick
    BY <1>1, <2>2 DEF NodesDrive, LockValidatorsForNextEpoch, Tick, setVars, kickedVars,
                      registryVars
  <2> QED
    BY <1>1, <2>1, <2>2 DEF NodesDrive
<1>2. ASSUME NEW n \in Nodes, Crash(n) PROVE KickedAreOffline'
  BY <1>2 DEF Crash, vars, stakingVars, setVars, kickedVars, registryVars
<1>3. ASSUME NEW n \in Nodes, NodeSignals(n) PROVE KickedAreOffline'
  BY <1>3 DEF NodeSignals, SignalReadyForNextEpoch, setVars, kickedVars, registryVars
<1>4. ASSUME NEW n \in Nodes, NEW a \in KickTargets, NodeVotesToKick(n, a)
      PROVE  KickedAreOffline'
  BY <1>4 DEF NodeVotesToKick, KickValidatorInNextEpoch, KickByVote, MarkKicked, setVars,
              kickedVars, registryVars
<1> QED
  BY <1>1, <1>2, <1>3, <1>4 DEF NodesNext

LEMMA NodesInvariant == NodesSpec => []NodesInv
<1>1. NodesInit => NodesInv
  BY EstablishedEpoch DEF NodesInit, NodesInv, KickedAreOffline, EstablishedInit
<1>2. NodesInv /\ [NodesNext]_nodesVars => NodesInv'
  <2> SUFFICES ASSUME NodesInv, [NodesNext]_nodesVars PROVE NodesInv'
    OBVIOUS
  <2>1. EpochInv'
    BY NodesStep, EpochInvNext DEF NodesInv
  <2>2. KickedAreOffline'
    <3>1. CASE UNCHANGED nodesVars
      BY <3>1 DEF NodesInv, KickedAreOffline, IsOnline, nodesVars, vars, stakingVars,
                  setVars, kickedVars, registryVars
    <3> QED
      BY <3>1, NodesKickOffline
  <2> QED
    BY <2>1, <2>2 DEF NodesInv
<1> QED
  BY <1>1, <1>2, PTL DEF NodesSpec

LEMMA OfflineLeavesRoom == NodesInv => KickIsNeverBlocked
<1> DEFINE cur == validatorsInCurrentEpoch
           kicked == validatorsKickedFromNextEpoch
           up == {a \in cur : IsOnline(a, online)}
<1> SUFFICES ASSUME NodesInv, Cardinality(up) >= ConsensusCount(cur),
                    NEW a \in cur \cap validatorsInNextEpoch, ~IsOnline(a, online)
             PROVE  Cardinality(currentValidatorsKickedFromNextEpoch)
                        < Cardinality(cur) - ConsensusCount(cur)
  BY DEF KickIsNeverBlocked, MayKickFromCurrentSet
<1> DEFINE ck == currentValidatorsKickedFromNextEpoch
<1>1. /\ TypeOK
      /\ cur \in SUBSET Stakers
      /\ ck = kicked \cap cur
      /\ a \notin kicked
      /\ \A b \in kicked : ~IsOnline(b, online)
  BY DEF NodesInv, EpochInv, KickedInv, KickedStayOut, CurrentKickedExact, KickedAreOffline,
         TypeOK, StakingTypeOK
<1>2. /\ IsFiniteSet(cur)
      /\ Cardinality(cur) \in Nat
      /\ ConsensusCount(cur) \in Nat
  BY <1>1, SetsAreFinite, ConsensusType
<1>3. /\ up \in SUBSET cur
      /\ ck \in SUBSET (cur \ up)
      /\ a \in (cur \ up) \ ck
  BY <1>1
<1> HIDE DEF cur, up, ck
<1>4. /\ IsFiniteSet(up)
      /\ Cardinality(up) \in Nat
      /\ IsFiniteSet(cur \ up)
      /\ Cardinality(cur \ up) = Cardinality(cur) - Cardinality(up)
  <2>1. IsFiniteSet(up) /\ IsFiniteSet(cur \ up)
    BY <1>2, <1>3, FS_Subset
  <2>2. cur \cap up = up
    BY <1>3
  <2> QED
    BY <1>2, <2>1, <2>2, FS_Difference, FS_CardinalityType
<1>5. /\ Cardinality(ck) \in Nat
      /\ Cardinality(ck) < Cardinality(cur \ up)
  <2>1. IsFiniteSet(ck)
    BY <1>3, <1>4, FS_Subset
  <2>2. ck # cur \ up
    BY <1>3
  <2> QED
    BY <1>3, <1>4, <2>1, <2>2, FS_Subset, FS_CardinalityType
<1> QED
  BY <1>2, <1>4, <1>5 DEF ck, cur, up

(* While a quorum of the current set is online, no offline member of it that *)
(* is still in the next set is beyond a vote, for every number of validators *)
(* and of crashes.                                                           *)
THEOREM OfflineCanBeKicked == NodesSpec => []KickIsNeverBlocked
BY NodesInvariant, OfflineLeavesRoom, PTL

(* Crashes and votes against the crashed leave the invariants of the epoch   *)
(* machine alone: only quorums kick, the threshold stays, readiness is not   *)
(* stale.                                                                    *)
THEOREM NodesKeepEpochs ==
    NodesSpec => [](/\ KickedStayOut /\ CurrentKickedExact /\ ThresholdNotKicked
                    /\ KickedByQuorum /\ ReadyIsNotStale /\ QuorumStartsFresh)
BY NodesInvariant, PTL DEF NodesInv, EpochInv, KickedInv
=============================================================================
