---------------------------- MODULE StakingNodes -----------------------------
(***************************************************************************)
(* The Staking diamond driven by its nodes.  The node software is not part *)
(* of this repository; what it does here is what the contract's functions  *)
(* and comments expect of it: lock the set when the epoch is over, signal  *)
(* that the DKG is done, advance the epoch, and vote to kick a validator   *)
(* whose node is offline.  A node may crash for good at any moment.        *)
(***************************************************************************)
EXTENDS StakingEstablished

CONSTANT MaxCrashes

ASSUME NodesAssumption == MaxCrashes \in Nat

VARIABLE online                \* the nodes that have not crashed

nodesVars == <<vars, online>>

NodesInit == EstablishedInit /\ online = Nodes

IsOnline(a, up) == validators[a].nodeAddress \in up

\* The quorum of the current set survives every crash.
Crash(n) ==
    /\ n \in online
    /\ Cardinality(Nodes \ online) < MaxCrashes
    /\ Cardinality({a \in validatorsInCurrentEpoch : IsOnline(a, online \ {n})})
          >= ConsensusCount(validatorsInCurrentEpoch)
    /\ online' = online \ {n}
    /\ UNCHANGED vars

NodeSignals(n) ==
    /\ n \in online
    /\ SignalReadyForNextEpoch(n)
    /\ UNCHANGED online

NodeVotesToKick(n, target) ==
    /\ n \in online
    /\ ~IsOnline(target, online)
    /\ \E reason \in Reasons : KickValidatorInNextEpoch(n, target, reason)
    /\ UNCHANGED online

NodesDrive ==
    /\ LockValidatorsForNextEpoch \/ AdvanceEpoch \/ Tick
    /\ UNCHANGED online

NodesNext ==
    \/ NodesDrive
    \/ \E n \in Nodes : Crash(n) \/ NodeSignals(n)
    \/ \E n \in Nodes, target \in KickTargets : NodeVotesToKick(n, target)

\* Time passes, someone calls lock and advance (anybody may), and a node that
\* is online keeps trying what it can do.
NodesFairness ==
    /\ WF_nodesVars(NodesDrive)
    /\ \A n \in Nodes : WF_nodesVars(NodeSignals(n))
    /\ \A n \in Nodes, target \in KickTargets : WF_nodesVars(NodeVotesToKick(n, target))

NodesSpec == NodesInit /\ [][NodesNext]_nodesVars /\ NodesFairness

-----------------------------------------------------------------------------

(* The check that keeps a threshold of the current set from being kicked     *)
(* never saves an offline member of it: while a quorum of the current set is *)
(* online, a vote against one that is not is accepted, whoever was kicked    *)
(* before.  A member of the next set alone is not protected in this way.     *)
KickIsNeverBlocked ==
    (/\ Cardinality({a \in validatorsInCurrentEpoch : IsOnline(a, online)})
           >= ConsensusCount(validatorsInCurrentEpoch)
     /\ \E a \in validatorsInCurrentEpoch \cap validatorsInNextEpoch :
           ~IsOnline(a, online))
    => MayKickFromCurrentSet

(* "any offline nodes will be kicked from the next validator set so that's   *)
(* why this is safe" (to require all of the next set to be ready): as long   *)
(* as a quorum of the current set is online, which Crash sees to.  Refuted   *)
(* for two crashes (see README.md, "Findings").                              *)
OfflineNodesAreKicked ==
    \A a \in Stakers :
        (a \in validatorsInNextEpoch /\ ~IsOnline(a, online))
            ~> a \notin validatorsInNextEpoch

(* The handover completes although nodes crash: the offline ones are voted   *)
(* out, the round is unlocked, locked again and signalled by the rest.       *)
EpochCompletes == <>(epochNumber = MaxEpoch)
=============================================================================
