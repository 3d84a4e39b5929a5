------------------------------- MODULE Diamond -------------------------------
(***************************************************************************)
(* A diamond (LibDiamond.sol): a contract that forwards every function to  *)
(* a facet, and the calls by which its owner changes which.  The routes    *)
(* are a mapping; a list of the selectors beside it serves the loupe, each *)
(* mapping entry holding its place in the list.                            *)
(*                                                                         *)
(* A call of diamondCut runs selector by selector on a draft of the        *)
(* storage that is kept at its end and dropped if it reverts.  Places in   *)
(* the list are counted from 1 here and from 0 in the code.  The           *)
(* initialiser of a cut is left out: the scripts give none, the            *)
(* constructors one that only sets supportedInterfaces.                    *)
(***************************************************************************)
EXTENDS Naturals, Sequences

CONSTANTS
    Selectors,    \* of functions
    Facets,       \* addresses, Self among them
    Self,         \* the diamond: what it implements itself is immutable
    WithCode,     \* the addresses at which a contract is deployed
    NoFacet,      \* the zero address
    Owners,       \* accounts that may own the diamond
    NoCall,
    MaxSelectors  \* positions are uint16: 65535

ASSUME DiamondAssumption ==
    /\ NoFacet \notin Facets
    /\ WithCode \subseteq Facets
    /\ MaxSelectors \in Nat

VARIABLES
    storage,  \* facetAddressAndSelectorPosition and selectors
    owner,    \* contractOwner
    call      \* the call of diamondCut that is running

diamondVars == <<storage, owner, call>>

Storages == [facetOf : [Selectors -> Facets \cup {NoFacet}],
             positionOf : [Selectors -> Nat],
             selectors : Seq(Selectors)]
Cuts == [action : {"Add", "Replace", "Remove"},
         facet : Facets \cup {NoFacet},
         functionSelectors : Seq(Selectors)]
Calls == [cuts : Seq(Cuts), at : Nat \ {0}, draft : Storages]

EmptyStorage == [facetOf |-> [s \in Selectors |-> NoFacet],
                 positionOf |-> [s \in Selectors |-> 0],
                 selectors |-> <<>>]

CallOf(cuts) == [cuts |-> cuts, at |-> 1, draft |-> storage]

MayAdd(st, facet, s) ==
    /\ facet \in WithCode
    /\ st.facetOf[s] = NoFacet
    /\ Len(st.selectors) < MaxSelectors
MayReplace(st, facet, s) ==
    /\ facet \in WithCode
    /\ st.facetOf[s] \notin {Self, facet, NoFacet}
MayRemove(st, facet, s) ==
    /\ facet = NoFacet
    /\ st.facetOf[s] \notin {Self, NoFacet}

Added(st, facet, s) ==
    [facetOf |-> [st.facetOf EXCEPT ![s] = facet],
     positionOf |-> [st.positionOf EXCEPT ![s] = Len(st.selectors) + 1],
     selectors |-> Append(st.selectors, s)]

Replaced(st, facet, s) == [st EXCEPT !.facetOf = [st.facetOf EXCEPT ![s] = facet]]

\* A mutated form: the selector that is moved keeps its old position.
RemovedButPosition(st, s) ==
    LET n == Len(st.selectors) IN
    [facetOf |-> [st.facetOf EXCEPT ![s] = NoFacet],
     positionOf |-> [st.positionOf EXCEPT ![s] = 0],
     selectors |->
        SubSeq([st.selectors EXCEPT ![st.positionOf[s]] = st.selectors[n]], 1, n - 1)]

\* The last selector of the list takes the place of the one removed.
Removed(st, s) ==
    LET n == Len(st.selectors) IN
    [facetOf |-> [st.facetOf EXCEPT ![s] = NoFacet],
     positionOf |->
        [[st.positionOf EXCEPT ![st.selectors[n]] = st.positionOf[s]] EXCEPT ![s] = 0],
     selectors |->
        SubSeq([st.selectors EXCEPT ![st.positionOf[s]] = st.selectors[n]], 1, n - 1)]

Cut == Head(call.cuts)
Selector == Cut.functionSelectors[call.at]
CutIs(action) ==
    /\ call # NoCall
    /\ call.cuts # <<>>
    /\ Cut.action = action
    /\ call.at <= Len(Cut.functionSelectors)

DiamondCut(a, cuts) ==
    /\ a = owner
    /\ call = NoCall
    /\ call' = CallOf(cuts)
    /\ UNCHANGED <<storage, owner>>

Continue(draft) == call' = [call EXCEPT !.at = call.at + 1, !.draft = draft]

AddFunction ==
    /\ CutIs("Add")
    /\ MayAdd(call.draft, Cut.facet, Selector)
    /\ Continue(Added(call.draft, Cut.facet, Selector))
    /\ UNCHANGED <<storage, owner>>

ReplaceFunction ==
    /\ CutIs("Replace")
    /\ MayReplace(call.draft, Cut.facet, Selector)
    /\ Continue(Replaced(call.draft, Cut.facet, Selector))
    /\ UNCHANGED <<storage, owner>>

RemoveFunction ==
    /\ CutIs("Remove")
    /\ MayRemove(call.draft, Cut.facet, Selector)
    /\ Continue(Removed(call.draft, Selector))
    /\ UNCHANGED <<storage, owner>>

NextCut ==
    /\ call # NoCall
    /\ call.cuts # <<>>
    /\ call.at > Len(Cut.functionSelectors)
    /\ Cut.functionSelectors # <<>>
    /\ call' = [call EXCEPT !.cuts = Tail(call.cuts), !.at = 1]
    /\ UNCHANGED <<storage, owner>>

Commit ==
    /\ call # NoCall
    /\ call.cuts = <<>>
    /\ storage' = call.draft
    /\ call' = NoCall
    /\ UNCHANGED owner

Revert ==
    /\ call # NoCall
    /\ call.cuts # <<>>
    /\ \/ Cut.functionSelectors = <<>>
       \/ CutIs("Add") /\ ~MayAdd(call.draft, Cut.facet, Selector)
       \/ CutIs("Replace") /\ ~MayReplace(call.draft, Cut.facet, Selector)
       \/ CutIs("Remove") /\ ~MayRemove(call.draft, Cut.facet, Selector)
    /\ call' = NoCall
    /\ UNCHANGED <<storage, owner>>

\* OwnershipFacet
TransferOwnership(a, to) ==
    /\ a = owner
    /\ call = NoCall
    /\ owner' = to
    /\ UNCHANGED <<storage, call>>

\* The constructor: its cuts run as a call on an empty storage.
DiamondInit(cuts) ==
    /\ storage = EmptyStorage
    /\ owner \in Owners
    /\ call = CallOf(cuts)

DiamondRuns == AddFunction \/ ReplaceFunction \/ RemoveFunction \/ NextCut
DiamondEnds == Commit \/ Revert

DiamondNext ==
    \/ \E a \in Owners, cuts \in Seq(Cuts) : DiamondCut(a, cuts)
    \/ DiamondRuns
    \/ DiamondEnds
    \/ \E a, to \in Owners : TransferOwnership(a, to)

DiamondSpec ==
    /\ \E cuts \in Seq(Cuts) : DiamondInit(cuts)
    /\ [][DiamondNext]_diamondVars

-----------------------------------------------------------------------------
\* The list that the loupe answers from holds every routed selector exactly
\* once, and every routed selector knows its place: removals, which move the
\* last one, neither lose nor duplicate a function.
Indexed(st) ==
    /\ \A s \in Selectors : st.facetOf[s] # NoFacet =>
          /\ st.positionOf[s] \in 1..Len(st.selectors)
          /\ st.selectors[st.positionOf[s]] = s
    /\ \A i \in 1..Len(st.selectors) :
          /\ st.facetOf[st.selectors[i]] # NoFacet
          /\ st.positionOf[st.selectors[i]] = i
    /\ Len(st.selectors) <= MaxSelectors
LoupeIsExact == Indexed(storage) /\ (call # NoCall => Indexed(call.draft))

\* Every variable has its type.
DiamondTypeOK ==
    /\ storage \in Storages
    /\ owner \in Owners
    /\ call \in Calls \cup {NoCall}
=============================================================================
