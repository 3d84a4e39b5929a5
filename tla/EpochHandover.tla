---------------------------- MODULE EpochHandover ----------------------------
(***************************************************************************)
(* What the epoch machine promises, without saying how: a committee holds  *)
(* the key shares; while the round is open a list of candidates changes    *)
(* freely; a locked round either ends with the candidates replacing the    *)
(* committee, if enough of the committee acknowledged that very round, or  *)
(* is aborted, losing every acknowledgement and some candidates.           *)
(*                                                                         *)
(* Nothing here is code: it is the abstract specification that Staking is  *)
(* shown to implement (StakingRefinement).                                 *)
(***************************************************************************)
EXTENDS Naturals, FiniteSets

CONSTANT Members

VARIABLES round,        \* "open" or "locked"
          number,       \* of committees so far
          committee, candidates,
          acks          \* members of the committee that acknowledged the round

handoverVars == <<round, number, committee, candidates, acks>>

\* At least two thirds of the committee, rounded down.
Enough(acknowledged) == 3 * Cardinality(acknowledged) + 2 >= 2 * Cardinality(committee)

Init ==
    /\ round = "open"
    /\ number = 1
    /\ committee = {}
    /\ candidates = {}
    /\ acks = {}

Nominate ==
    /\ round = "open"
    /\ candidates' \in SUBSET Members
    /\ UNCHANGED <<round, number, committee, acks>>

\* The round may be locked by the expulsion of some candidates.
Lock ==
    /\ round = "open"
    /\ round' = "locked"
    /\ candidates' \in SUBSET candidates
    /\ UNCHANGED <<number, committee, acks>>

Acknowledge ==
    /\ round = "locked"
    /\ \E a \in committee : acks' = acks \cup {a}
    /\ UNCHANGED <<round, number, committee, candidates>>

Handover ==
    /\ round = "locked"
    /\ Enough(acks)
    /\ round' = "open"
    /\ number' = number + 1
    /\ committee' = candidates
    /\ acks' = {}
    /\ UNCHANGED candidates

Abort ==
    /\ round = "locked"
    /\ round' = "open"
    /\ candidates' \in (SUBSET candidates) \ {candidates}
    /\ acks' = {}
    /\ UNCHANGED <<number, committee>>

Next == Nominate \/ Lock \/ Acknowledge \/ Handover \/ Abort

Spec == Init /\ [][Next]_handoverVars
=============================================================================
