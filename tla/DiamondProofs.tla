---------------------------- MODULE DiamondProofs ----------------------------
(***************************************************************************)
(* The diamond for every set of selectors and facets, any cuts of any      *)
(* length, and any change of owners; and its upgrade for every list of     *)
(* facets to replace, and any number of failures and runs.                 *)
(***************************************************************************)
EXTENDS DiamondUpgrade, TLAPS

-----------------------------------------------------------------------------
(* What one selector of a cut does to a storage.                           *)

LEMMA AddedIsIndexed ==
    ASSUME NEW st \in Storages, Indexed(st), NEW f \in Facets, NEW s \in Selectors,
           MayAdd(st, f, s)
    PROVE  Added(st, f, s) \in Storages /\ Indexed(Added(st, f, s))
<1> DEFINE new == Added(st, f, s)
           n == Len(st.selectors)
<1>1. /\ n \in Nat /\ NoFacet \notin Facets /\ MaxSelectors \in Nat
      /\ st.selectors \in Seq(Selectors)
      /\ st.facetOf \in [Selectors -> Facets \cup {NoFacet}]
      /\ st.positionOf \in [Selectors -> Nat]
  BY DiamondAssumption DEF Storages
<1>2. /\ new.facetOf = [st.facetOf EXCEPT ![s] = f]
      /\ new.positionOf = [st.positionOf EXCEPT ![s] = n + 1]
      /\ new.selectors = Append(st.selectors, s)
  BY DEF Added
<1>3. /\ Len(new.selectors) = n + 1
      /\ new.selectors[n + 1] = s
      /\ \A i \in 1..n : new.selectors[i] = st.selectors[i] /\ st.selectors[i] \in Selectors
  BY <1>1, <1>2
<1>4. new \in Storages
  BY <1>1 DEF Added, Storages
<1>5. \A i \in 1..n : st.selectors[i] # s
  BY DEF Indexed, MayAdd
<1>6. ASSUME NEW r \in Selectors, new.facetOf[r] # NoFacet
      PROVE  /\ new.positionOf[r] \in 1..Len(new.selectors)
             /\ new.selectors[new.positionOf[r]] = r
  <2>1. CASE r = s
    BY <2>1, <1>1, <1>2, <1>3
  <2>2. CASE r # s
    <3>1. st.facetOf[r] # NoFacet /\ new.positionOf[r] = st.positionOf[r]
      BY <2>2, <1>1, <1>2, <1>6
    <3>2. st.positionOf[r] \in 1..n /\ st.selectors[st.positionOf[r]] = r
      BY <3>1 DEF Indexed
    <3> QED
      BY <3>1, <3>2, <1>1, <1>3
  <2> QED
    BY <2>1, <2>2
<1>7. ASSUME NEW i \in 1..Len(new.selectors)
      PROVE  /\ new.facetOf[new.selectors[i]] # NoFacet
             /\ new.positionOf[new.selectors[i]] = i
  <2>1. CASE i = n + 1
    BY <2>1, <1>1, <1>2, <1>3
  <2>2. CASE i \in 1..n
    BY <2>2, <1>1, <1>2, <1>3, <1>5 DEF Indexed
  <2> QED
    BY <2>1, <2>2, <1>1, <1>3
<1>8. Len(new.selectors) <= MaxSelectors
  BY <1>1, <1>3 DEF MayAdd
<1> HIDE DEF new
<1> QED
  BY <1>4, <1>6, <1>7, <1>8 DEF Indexed, new

LEMMA ReplacedIsIndexed ==
    ASSUME NEW st \in Storages, Indexed(st), NEW f \in Facets, NEW s \in Selectors,
           MayReplace(st, f, s)
    PROVE  Replaced(st, f, s) \in Storages /\ Indexed(Replaced(st, f, s))
<1>1. /\ Replaced(st, f, s).facetOf = [st.facetOf EXCEPT ![s] = f]
      /\ Replaced(st, f, s).positionOf = st.positionOf
      /\ Replaced(st, f, s).selectors = st.selectors
      /\ Replaced(st, f, s) \in Storages
      /\ f # NoFacet
      /\ st.facetOf \in [Selectors -> Facets \cup {NoFacet}]
      /\ st.selectors \in Seq(Selectors)
  BY DiamondAssumption DEF Replaced, Storages
<1>2. \A r \in Selectors : Replaced(st, f, s).facetOf[r] # NoFacet <=> st.facetOf[r] # NoFacet
  BY <1>1 DEF MayReplace
<1>3. \A i \in 1..Len(st.selectors) : st.selectors[i] \in Selectors
  BY <1>1
<1> QED
  BY <1>1, <1>2, <1>3 DEF Indexed

LEMMA RemovedIsIndexed ==
    ASSUME NEW st \in Storages, Indexed(st), NEW s \in Selectors, MayRemove(st, NoFacet, s)
    PROVE  Removed(st, s) \in Storages /\ Indexed(Removed(st, s))
<1> DEFINE new == Removed(st, s)
           n == Len(st.selectors)
           p == st.positionOf[s]
           last == st.selectors[n]
           moved == [st.selectors EXCEPT ![p] = last]
<1>1. /\ n \in Nat
      /\ st.selectors \in Seq(Selectors)
      /\ st.facetOf \in [Selectors -> Facets \cup {NoFacet}]
      /\ st.positionOf \in [Selectors -> Nat]
      /\ MaxSelectors \in Nat
  BY DiamondAssumption DEF Storages
<1>2. p \in 1..n /\ st.selectors[p] = s
  BY DEF Indexed, MayRemove
<1>3. n \in 1..n /\ last \in Selectors /\ st.facetOf[last] # NoFacet /\ st.positionOf[last] = n
  BY <1>1, <1>2 DEF Indexed
<1>4. moved \in Seq(Selectors) /\ Len(moved) = n
      /\ moved[p] = last /\ \A i \in 1..n : i # p => moved[i] = st.selectors[i]
  BY <1>1, <1>2, <1>3
<1>5. /\ new.facetOf = [st.facetOf EXCEPT ![s] = NoFacet]
      /\ new.positionOf = [[st.positionOf EXCEPT ![last] = p] EXCEPT ![s] = 0]
      /\ new.selectors = SubSeq(moved, 1, n - 1)
  BY DEF Removed
<1> HIDE DEF moved
<1>6. /\ new.selectors \in Seq(Selectors) /\ Len(new.selectors) = n - 1
      /\ \A i \in 1..(n - 1) : new.selectors[i] = moved[i]
  BY <1>1, <1>3, <1>4, <1>5
<1>7. new \in Storages
  BY <1>1, <1>2, <1>3, <1>6 DEF Removed, Storages, moved
<1>8. ASSUME NEW r \in Selectors, new.facetOf[r] # NoFacet
      PROVE  /\ new.positionOf[r] \in 1..Len(new.selectors)
             /\ new.selectors[new.positionOf[r]] = r
  <2>1. r # s /\ st.facetOf[r] # NoFacet
    BY <1>1, <1>5, <1>8
  <2>2. st.positionOf[r] \in 1..n /\ st.selectors[st.positionOf[r]] = r
    BY <2>1 DEF Indexed
  <2>3. CASE r = last
    <3>1. p # n
      BY <1>2, <2>1, <2>3
    <3>2. new.positionOf[r] = p
      BY <1>1, <1>3, <1>5, <2>1, <2>3
    <3>3. p \in 1..(n - 1)
      BY <3>1, <1>1, <1>2
    <3>4. new.selectors[p] = r
      BY <3>3, <1>4, <1>6, <2>3
    <3> QED
      BY <3>2, <3>3, <3>4, <1>6
  <2>4. CASE r # last
    <3>1. st.positionOf[r] # n /\ st.positionOf[r] # p
      BY <1>2, <2>1, <2>2, <2>4
    <3>2. new.positionOf[r] = st.positionOf[r]
      BY <1>1, <1>3, <1>5, <2>1, <2>4
    <3>3. st.positionOf[r] \in 1..(n - 1)
      BY <3>1, <1>1, <2>2
    <3>4. new.selectors[st.positionOf[r]] = r
      BY <3>1, <3>3, <1>4, <1>6, <2>2
    <3> QED
      BY <3>2, <3>3, <3>4, <1>6
  <2> QED
    BY <2>3, <2>4
<1>9. ASSUME NEW i \in 1..Len(new.selectors)
      PROVE  /\ new.facetOf[new.selectors[i]] # NoFacet
             /\ new.positionOf[new.selectors[i]] = i
  <2>1. i \in 1..(n - 1) /\ i \in 1..n
    BY <1>1, <1>6, <1>9
  <2>2. CASE i = p
    <3>1. new.selectors[i] = last
      BY <1>4, <1>6, <2>1, <2>2
    <3>2. last # s
      BY <1>2, <1>3, <2>1, <2>2
    <3> QED
      BY <3>1, <3>2, <1>1, <1>3, <1>5, <2>2
  <2>3. CASE i # p
    <3>1. new.selectors[i] = st.selectors[i]
      BY <1>4, <1>6, <2>1, <2>3
    <3>2. /\ st.facetOf[st.selectors[i]] # NoFacet
          /\ st.positionOf[st.selectors[i]] = i
          /\ st.selectors[i] \in Selectors
      BY <1>1, <2>1 DEF Indexed
    <3>3. st.selectors[i] # s /\ st.selectors[i] # last
      BY <3>2, <1>1, <1>3, <2>1, <2>3
    <3> QED
      BY <3>1, <3>2, <3>3, <1>1, <1>5
  <2> QED
    BY <2>2, <2>3
<1>10. Len(new.selectors) <= MaxSelectors
  <2>1. n <= MaxSelectors
    BY DEF Indexed
  <2> QED
    BY <2>1, <1>1, <1>6
<1> HIDE DEF new
<1> QED
  BY <1>7, <1>8, <1>9, <1>10 DEF Indexed, new

-----------------------------------------------------------------------------
DiamondInv == DiamondTypeOK /\ LoupeIsExact

LEMMA CallIsInvariant ==
    ASSUME storage \in Storages, Indexed(storage), NEW cuts \in Seq(Cuts)
    PROVE  CallOf(cuts) \in Calls /\ Indexed(CallOf(cuts).draft)
BY DEF CallOf, Calls

LEMMA StepsOfACall ==
    ASSUME DiamondInv, DiamondRuns
    PROVE  DiamondInv'
<1>1. /\ call \in Calls /\ Indexed(call.draft) /\ call.draft \in Storages
      /\ call.at \in Nat \ {0} /\ call.cuts \in Seq(Cuts) /\ call.cuts # <<>>
  BY DEF DiamondInv, DiamondTypeOK, LoupeIsExact, Calls, DiamondRuns,
         AddFunction, ReplaceFunction, RemoveFunction, NextCut, CutIs
<1>2. UNCHANGED <<storage, owner>>
  BY DEF DiamondRuns, AddFunction, ReplaceFunction, RemoveFunction, NextCut
<1>3. SUFFICES call' \in Calls /\ Indexed(call'.draft)
  BY <1>2 DEF DiamondInv, DiamondTypeOK, LoupeIsExact, Indexed
<1>4. /\ Cut \in Cuts
      /\ call.at <= Len(Cut.functionSelectors) => Selector \in Selectors
  <2>1. Cut \in Cuts
    BY <1>1 DEF Cut
  <2>2. Cut.functionSelectors \in Seq(Selectors)
    BY <2>1 DEF Cuts
  <2> QED
    BY <2>1, <2>2, <1>1 DEF Selector
<1>5. ASSUME NEW d \in Storages, Indexed(d), Continue(d)
      PROVE  call' \in Calls /\ Indexed(call'.draft)
  <2>1. call' = [cuts |-> call.cuts, at |-> call.at + 1, draft |-> d]
    BY <1>1, <1>5 DEF Continue, Calls
  <2> QED
    BY <2>1, <1>1, <1>5 DEF Calls
<1>6. CASE AddFunction
  <2>1. Cut.facet \in Facets
    BY <1>6, DiamondAssumption DEF AddFunction, MayAdd
  <2> QED
    BY <2>1, <1>1, <1>4, <1>5, <1>6, AddedIsIndexed DEF AddFunction, CutIs
<1>7. CASE ReplaceFunction
  <2>1. Cut.facet \in Facets
    BY <1>7, DiamondAssumption DEF ReplaceFunction, MayReplace
  <2> QED
    BY <2>1, <1>1, <1>4, <1>5, <1>7, ReplacedIsIndexed DEF ReplaceFunction, CutIs
<1>8. CASE RemoveFunction
  <2>1. MayRemove(call.draft, NoFacet, Selector)
    BY <1>8 DEF RemoveFunction, MayRemove
  <2> QED
    BY <2>1, <1>1, <1>4, <1>5, <1>8, RemovedIsIndexed DEF RemoveFunction, CutIs
<1>9. CASE NextCut
  <2>1. call' = [cuts |-> Tail(call.cuts), at |-> 1, draft |-> call.draft]
    BY <1>1, <1>9 DEF NextCut, Calls
  <2>2. Tail(call.cuts) \in Seq(Cuts)
    BY <1>1
  <2> QED
    BY <2>1, <2>2, <1>1 DEF Calls
<1> QED
  BY <1>6, <1>7, <1>8, <1>9 DEF DiamondRuns

LEMMA EndsOfACall ==
    ASSUME DiamondInv, DiamondEnds
    PROVE  DiamondInv'
<1>1. CASE Commit
  BY <1>1 DEF DiamondInv, DiamondTypeOK, LoupeIsExact, Indexed, Commit, Calls
<1>2. CASE Revert
  BY <1>2 DEF DiamondInv, DiamondTypeOK, LoupeIsExact, Indexed, Revert
<1> QED
  BY <1>1, <1>2 DEF DiamondEnds

LEMMA ConstructorIsInvariant ==
    ASSUME NEW cuts \in Seq(Cuts), DiamondInit(cuts)
    PROVE  DiamondInv
<1>1. storage \in Storages /\ Indexed(storage)
  BY DiamondAssumption DEF DiamondInit, EmptyStorage, Storages, Indexed
<1> QED
  BY <1>1, CallIsInvariant DEF DiamondInit, DiamondInv, DiamondTypeOK, LoupeIsExact

LEMMA OwnersKeepInvariant ==
    ASSUME DiamondInv,
           \/ \E a \in Owners, cuts \in Seq(Cuts) : DiamondCut(a, cuts)
           \/ \E a, to \in Owners : TransferOwnership(a, to)
    PROVE  DiamondInv'
<1>1. ASSUME NEW a \in Owners, NEW cuts \in Seq(Cuts), DiamondCut(a, cuts)
      PROVE  DiamondInv'
  BY <1>1, CallIsInvariant
     DEF DiamondCut, DiamondInv, DiamondTypeOK, LoupeIsExact, Indexed
<1>2. ASSUME NEW a \in Owners, NEW to \in Owners, TransferOwnership(a, to)
      PROVE  DiamondInv'
  BY <1>2 DEF TransferOwnership, DiamondInv, DiamondTypeOK, LoupeIsExact, Indexed
<1> QED
  BY <1>1, <1>2

\* The loupe is exact after any number of cuts of any length, those that
\* revert half-way included, and inside each of them; and the storage has its
\* type: no removal reads past the list.
THEOREM DiamondCorrect == DiamondSpec => [](DiamondTypeOK /\ LoupeIsExact)
<1>1. (\E cuts \in Seq(Cuts) : DiamondInit(cuts)) => DiamondInv
  BY ConstructorIsInvariant
<1>2. DiamondInv /\ [DiamondNext]_diamondVars => DiamondInv'
  <2>1. ASSUME DiamondInv, UNCHANGED diamondVars PROVE DiamondInv'
    BY <2>1 DEF DiamondInv, DiamondTypeOK, LoupeIsExact, Indexed, diamondVars
  <2> QED
    BY <2>1, StepsOfACall, EndsOfACall, OwnersKeepInvariant DEF DiamondNext
<1> QED
  BY <1>1, <1>2, PTL DEF DiamondSpec, DiamondInv

-----------------------------------------------------------------------------
(* Where functions are forwarded to.                                       *)

\* A cut that installs a facet installs functions the facet has.
Honest(cut) ==
    cut.action # "Remove" =>
        \A i \in 1..Len(cut.functionSelectors) :
            Implements(cut.facet, cut.functionSelectors[i])

Sound(st) == \A s \in Selectors : st.facetOf[s] # NoFacet => Implements(st.facetOf[s], s)

\* Whatever waits to be executed is honest, and so is what has been.
HonestInv ==
    /\ \A i \in 1..Len(manifest) : Honest(manifest[i].cut)
    /\ \A i \in 1..Len(mempool) : Honest(mempool[i])
    /\ call # NoCall => /\ \A i \in 1..Len(call.cuts) : Honest(call.cuts[i])
                        /\ Sound(call.draft)
    /\ Sound(storage)

\* The script waits for the call of the operation at the head of its manifest,
\* and handles a facet while it removes and adds.
ControlInv ==
    /\ waiting = (pc = "waiting")
    /\ pc = "waiting" => manifest # <<>>
    /\ phase # "replace" /\ pc \in {"execute", "waiting"} => todo # <<>>

UpgradeInv == DiamondInv /\ UpgradeTypeOK /\ ControlInv /\ HonestInv

LEMMA HonestOperations ==
    ASSUME NEW n \in Names, NEW version \in Versions,
           NEW action \in {"Add", "Replace", "Remove"},
           action = "Remove" \/ version = "new"
    PROVE  /\ Operation(action, n, version) \in Operations
           /\ Operation(action, n, version).facetName = n
           /\ Honest(Operation(action, n, version).cut)
<1> DEFINE op == Operation(action, n, version)
<1>1. ABI(n, version) \in Seq(Selectors)
  BY UpgradeAssumption DEF ABI
<1>2. op \in Operations /\ op.facetName = n
  BY <1>1, UpgradeAssumption DEF Operation, Operations, Cuts
<1>3. ASSUME action # "Remove" PROVE Honest(op.cut)
  <2>1. op.cut.facet = NewFacet[n] /\ op.cut.functionSelectors = NewABI[n]
    BY <1>3 DEF Operation, ABI
  <2> QED
    BY <2>1 DEF Honest, Implements, Declared
<1>4. action = "Remove" => op.cut.action = "Remove"
  BY DEF Operation
<1> QED
  BY <1>2, <1>3, <1>4 DEF Honest

LEMMA SingleOperation ==
    ASSUME NEW op \in Operations, Honest(op.cut)
    PROVE  /\ <<op>> \in Seq(Operations)
           /\ \A i \in 1..Len(<<op>>) : Honest(<<op>>[i].cut)
OBVIOUS

\* The calls of diamondCut that the script and the mempool make.
LEMMA HonestCall ==
    ASSUME UpgradeInv, NEW cut \in Cuts, Honest(cut), DiamondCut(Signer, <<cut>>)
    PROVE  /\ DiamondInv'
           /\ call' # NoCall => /\ \A i \in 1..Len(call'.cuts) : Honest(call'.cuts[i])
                                /\ Sound(call'.draft)
           /\ Sound(storage')
<1>1. <<cut>> \in Seq(Cuts) /\ Signer \in Owners
  BY DEF DiamondCut, UpgradeInv, DiamondInv, DiamondTypeOK
<1>2. DiamondInv'
  BY <1>1, OwnersKeepInvariant DEF UpgradeInv
<1>3. call' = CallOf(<<cut>>) /\ storage' = storage
  BY DEF DiamondCut
<1>4. /\ CallOf(<<cut>>).cuts = <<cut>>
      /\ CallOf(<<cut>>).draft = storage
  BY DEF CallOf
<1> QED
  BY <1>2, <1>3, <1>4 DEF UpgradeInv, HonestInv

\* A call in progress.
LEMMA HonestRun ==
    ASSUME UpgradeInv, DiamondRuns
    PROVE  /\ DiamondInv'
           /\ call' # NoCall => /\ \A i \in 1..Len(call'.cuts) : Honest(call'.cuts[i])
                                /\ Sound(call'.draft)
           /\ storage' = storage
<1>1. DiamondInv' /\ storage' = storage
  BY StepsOfACall DEF UpgradeInv, DiamondRuns, AddFunction, ReplaceFunction,
                      RemoveFunction, NextCut
<1>2. /\ call \in Calls /\ call # NoCall /\ call.cuts \in Seq(Cuts) /\ call.cuts # <<>>
      /\ call.at \in Nat \ {0} /\ call.draft \in Storages
      /\ \A i \in 1..Len(call.cuts) : Honest(call.cuts[i])
      /\ Sound(call.draft)
  BY DEF UpgradeInv, DiamondInv, DiamondTypeOK, HonestInv, Calls, DiamondRuns,
         AddFunction, ReplaceFunction, RemoveFunction, NextCut, CutIs
<1>3. Cut \in Cuts /\ Honest(Cut) /\ Cut = call.cuts[1]
  BY <1>2 DEF Cut
<1>4. Cut.functionSelectors \in Seq(Selectors)
  BY <1>3 DEF Cuts
<1>5. ASSUME NEW f \in Facets \cup {NoFacet}, NEW d,
             call.at <= Len(Cut.functionSelectors),
             d.facetOf = [call.draft.facetOf EXCEPT ![Selector] = f],
             f # NoFacet => f = Cut.facet /\ Cut.action # "Remove",
             Continue(d)
      PROVE  /\ \A i \in 1..Len(call'.cuts) : Honest(call'.cuts[i])
             /\ Sound(call'.draft)
  <2>1. call' = [cuts |-> call.cuts, at |-> call.at + 1, draft |-> d]
    BY <1>2, <1>5 DEF Continue, Calls
  <2>2. call.draft.facetOf \in [Selectors -> Facets \cup {NoFacet}]
    BY <1>2 DEF Storages
  <2>3. call.at \in 1..Len(Cut.functionSelectors) /\ Selector = Cut.functionSelectors[call.at]
    BY <1>2, <1>4, <1>5 DEF Selector
  <2>4. f # NoFacet => Implements(f, Selector)
    BY <1>3, <1>5, <2>3 DEF Honest
  <2>5. Sound(d)
    BY <1>2, <1>5, <2>2, <2>4 DEF Sound
  <2> QED
    BY <1>2, <2>1, <2>5
<1>6. CASE AddFunction
  <2>1. Cut.facet \in Facets \cup {NoFacet} /\ Cut.action # "Remove"
        /\ call.at <= Len(Cut.functionSelectors)
    BY <1>3, <1>6 DEF AddFunction, CutIs, Cuts
  <2>2. Added(call.draft, Cut.facet, Selector).facetOf
            = [call.draft.facetOf EXCEPT ![Selector] = Cut.facet]
    BY DEF Added
  <2> QED
    BY <1>1, <1>5, <1>6, <2>1, <2>2 DEF AddFunction
<1>7. CASE ReplaceFunction
  <2>1. Cut.facet \in Facets \cup {NoFacet} /\ Cut.action # "Remove"
        /\ call.at <= Len(Cut.functionSelectors)
    BY <1>3, <1>7 DEF ReplaceFunction, CutIs, Cuts
  <2>2. Replaced(call.draft, Cut.facet, Selector).facetOf
            = [call.draft.facetOf EXCEPT ![Selector] = Cut.facet]
    BY <1>2 DEF Replaced, Storages
  <2> QED
    BY <1>1, <1>5, <1>7, <2>1, <2>2 DEF ReplaceFunction
<1>8. CASE RemoveFunction
  <2>1. call.at <= Len(Cut.functionSelectors)
    BY <1>8 DEF RemoveFunction, CutIs
  <2>2. Removed(call.draft, Selector).facetOf
            = [call.draft.facetOf EXCEPT ![Selector] = NoFacet]
    BY DEF Removed
  <2> QED
    BY <1>1, <1>5, <1>8, <2>1, <2>2 DEF RemoveFunction
<1>9. CASE NextCut
  <2>1. call' = [cuts |-> Tail(call.cuts), at |-> 1, draft |-> call.draft]
    BY <1>2, <1>9 DEF NextCut, Calls
  <2>2. /\ Len(Tail(call.cuts)) = Len(call.cuts) - 1
        /\ \A i \in 1..Len(Tail(call.cuts)) :
              Tail(call.cuts)[i] = call.cuts[i + 1] /\ i + 1 \in 1..Len(call.cuts)
    BY <1>2
  <2> QED
    BY <1>1, <1>2, <2>1, <2>2
<1> QED
  BY <1>6, <1>7, <1>8, <1>9 DEF DiamondRuns

-----------------------------------------------------------------------------
(* Steps of the script that leave the chain alone.                         *)

ChainIsUnchanged == UNCHANGED <<diamondVars, mempool>>

LEMMA ScriptSteps ==
    ASSUME UpgradeInv, ChainIsUnchanged,
           UpgradeTypeOK', ControlInv',
           \A i \in 1..Len(manifest') : Honest(manifest'[i].cut)
    PROVE  UpgradeInv'
<1>1. DiamondInv'
  BY DEF UpgradeInv, DiamondInv, DiamondTypeOK, LoupeIsExact, Indexed,
         ChainIsUnchanged, diamondVars
<1>2. HonestInv'
  BY DEF UpgradeInv, HonestInv, ChainIsUnchanged, diamondVars, Sound
<1> QED
  BY <1>1, <1>2 DEF UpgradeInv

\* Taking the operation at the head of the manifest off it.
LEMMA TailOfManifest ==
    ASSUME UpgradeInv, manifest # <<>>
    PROVE  /\ Tail(manifest) \in Seq(Operations)
           /\ Head(manifest) \in Operations
           /\ Head(manifest).facetName \in Names
           /\ Head(manifest).cut \in Cuts
           /\ Honest(Head(manifest).cut)
           /\ \A i \in 1..Len(Tail(manifest)) : Honest(Tail(manifest)[i].cut)
<1>1. manifest \in Seq(Operations) /\ \A i \in 1..Len(manifest) : Honest(manifest[i].cut)
  BY DEF UpgradeInv, UpgradeTypeOK, HonestInv
<1>2. /\ Tail(manifest) \in Seq(Operations) /\ Head(manifest) \in Operations
      /\ Head(manifest) = manifest[1] /\ 1 \in 1..Len(manifest)
      /\ \A i \in 1..Len(Tail(manifest)) :
            Tail(manifest)[i] = manifest[i + 1] /\ i + 1 \in 1..Len(manifest)
  BY <1>1
<1> QED
  BY <1>1, <1>2 DEF Operations

LEMMA FailedOperation ==
    ASSUME UpgradeInv, manifest # <<>>, FailOperation, pc \in {"execute", "waiting"},
           waiting' = FALSE, mempool' \in Seq(Cuts),
           faults' \in 0..MaxFaults, runs' \in 0..MaxRuns
    PROVE  /\ UpgradeTypeOK' /\ ControlInv'
           /\ \A i \in 1..Len(manifest') : Honest(manifest'[i].cut)
<1>1. failed' \in Seq(Names)
  BY TailOfManifest DEF FailOperation, UpgradeInv, UpgradeTypeOK
<1>2. UpgradeTypeOK'
  BY <1>1, TailOfManifest DEF FailOperation, UpgradeInv, UpgradeTypeOK
<1>3. ControlInv'
  BY DEF FailOperation, UpgradeInv, ControlInv
<1> QED
  BY <1>2, <1>3, TailOfManifest DEF FailOperation

LEMMA CompletedOperation ==
    ASSUME UpgradeInv, manifest # <<>>, CompleteOperation, pc = "waiting",
           waiting' = FALSE, UNCHANGED <<mempool, countVars>>
    PROVE  /\ UpgradeTypeOK' /\ ControlInv'
           /\ \A i \in 1..Len(manifest') : Honest(manifest'[i].cut)
<1>1. report' \in [Names -> {"none", "complete", "added", "manual"}]
  BY TailOfManifest DEF CompleteOperation, UpgradeInv, UpgradeTypeOK
<1>2. UpgradeTypeOK'
  BY <1>1, TailOfManifest DEF CompleteOperation, UpgradeInv, UpgradeTypeOK, countVars
<1>3. ControlInv'
  BY DEF CompleteOperation, UpgradeInv, ControlInv
<1> QED
  BY <1>2, <1>3, TailOfManifest DEF CompleteOperation

LEMMA HandlingSteps ==
    ASSUME UpgradeInv,
           \/ Start \/ EndReplace \/ Finish \/ NoShaGiven \/ BeginRemove
           \/ RemoveThrows \/ EndRemove \/ EndAdd \/ Crash
    PROVE  UpgradeInv'
<1> USE DEF chainVars, countVars
<1>1. /\ todo \in Seq(Names)
      /\ todo # <<>> => /\ Head(todo) \in Names /\ Tail(todo) \in Seq(Names)
      /\ faults \in 0..MaxFaults /\ runs \in 0..MaxRuns
      /\ MaxFaults \in Nat /\ MaxRuns \in Nat
  BY UpgradeAssumption DEF UpgradeInv, UpgradeTypeOK
<1>2. ASSUME LeaveToOperator, todo # <<>>
      PROVE  /\ report' \in [Names -> {"none", "complete", "added", "manual"}]
             /\ todo' \in Seq(Names)
  BY <1>1, <1>2 DEF LeaveToOperator, UpgradeInv, UpgradeTypeOK
<1>3. CASE Start
  <2> DEFINE ops == [i \in 1..Len(FacetsToReplace) |->
                        Operation("Replace", FacetsToReplace[i], "new")]
  <2>1. Len(FacetsToReplace) \in Nat
        /\ \A i \in 1..Len(FacetsToReplace) : FacetsToReplace[i] \in Names
    BY UpgradeAssumption
  <2>2. \A i \in 1..Len(FacetsToReplace) : ops[i] \in Operations /\ Honest(ops[i].cut)
    BY <2>1, HonestOperations DEF Versions
  <2>3. ops \in Seq(Operations) /\ Len(ops) = Len(FacetsToReplace)
    BY <2>1, <2>2
  <2>4. manifest' = ops
    BY <1>3 DEF Start
  <2>5. runs' \in 0..MaxRuns
    BY <1>1, <1>3 DEF Start
  <2> HIDE DEF ops
  <2>6. UpgradeTypeOK'
    BY <1>1, <1>3, <2>3, <2>4, <2>5 DEF Start, UpgradeInv, UpgradeTypeOK, Versions
  <2>7. ControlInv'
    BY <1>3 DEF Start, UpgradeInv, ControlInv
  <2>8. ChainIsUnchanged
    BY <1>3 DEF Start, ChainIsUnchanged
  <2> QED
    BY <2>2, <2>3, <2>4, <2>6, <2>7, <2>8, ScriptSteps
<1>4. CASE EndReplace \/ Finish \/ NoShaGiven \/ RemoveThrows \/ EndAdd \/ Crash
  <2>1. ChainIsUnchanged /\ (manifest' = manifest \/ manifest' = <<>>)
    BY <1>4 DEF EndReplace, Finish, NoShaGiven, RemoveThrows, EndAdd, Crash, ChainIsUnchanged
  <2>2. CASE EndReplace
    BY <2>1, <2>2, <1>1, ScriptSteps
       DEF EndReplace, UpgradeInv, UpgradeTypeOK, ControlInv, HonestInv
  <2>3. CASE Finish
    BY <2>1, <2>3, <1>1, ScriptSteps
       DEF Finish, UpgradeInv, UpgradeTypeOK, ControlInv, HonestInv
  <2>4. CASE NoShaGiven
    BY <2>1, <2>4, <1>1, <1>2, ScriptSteps
       DEF NoShaGiven, UpgradeInv, UpgradeTypeOK, ControlInv, HonestInv
  <2>5. CASE RemoveThrows
    <3>1. faults' \in 0..MaxFaults
      BY <1>1, <2>5 DEF RemoveThrows
    <3>2. report' \in [Names -> {"none", "complete", "added", "manual"}]
          /\ todo' \in Seq(Names) /\ manifest' = manifest
      BY <1>2, <2>5 DEF RemoveThrows
    <3>3. UpgradeTypeOK'
      BY <1>1, <2>5, <3>1, <3>2 DEF RemoveThrows, UpgradeInv, UpgradeTypeOK, Versions
    <3>4. ControlInv'
      BY <2>5 DEF RemoveThrows, UpgradeInv, ControlInv
    <3> QED
      BY <2>1, <3>2, <3>3, <3>4, ScriptSteps DEF UpgradeInv, HonestInv
  <2>6. CASE EndAdd
    <3>1. todo # <<>>
      BY <2>6 DEF EndAdd, UpgradeInv, ControlInv
    <3>2. report' \in [Names -> {"none", "complete", "added", "manual"}]
          /\ todo' \in Seq(Names)
      BY <1>1, <1>2, <2>6, <3>1 DEF EndAdd, UpgradeInv, UpgradeTypeOK
    <3>3. UpgradeTypeOK'
      BY <1>1, <2>6, <3>2 DEF EndAdd, UpgradeInv, UpgradeTypeOK, Versions
    <3>4. ControlInv'
      BY <2>6 DEF EndAdd, UpgradeInv, ControlInv
    <3>5. manifest' = manifest
      BY <2>6 DEF EndAdd
    <3>6. \A i \in 1..Len(manifest') : Honest(manifest'[i].cut)
      BY <3>5 DEF UpgradeInv, HonestInv
    <3> QED
      BY <2>1, <3>3, <3>4, <3>6, ScriptSteps
  <2>7. CASE Crash
    <3>1. UpgradeTypeOK' /\ manifest' = <<>>
      <4>1. \A S : <<>> \in Seq(S)
        OBVIOUS
      <4> QED
        BY <4>1, <1>1, <2>7 DEF Crash, UpgradeInv, UpgradeTypeOK
    <3>2. ControlInv'
      BY <2>7 DEF Crash, UpgradeInv, ControlInv
    <3> QED
      BY <2>1, <3>1, <3>2, ScriptSteps
  <2> QED
    BY <1>4, <2>2, <2>3, <2>4, <2>5, <2>6, <2>7
<1>5. CASE BeginRemove
  <2>1. todo # <<>> /\ manifest' = <<Operation("Remove", Head(todo), "old")>>
    BY <1>5 DEF BeginRemove
  <2>2. manifest' \in Seq(Operations) /\ \A i \in 1..Len(manifest') : Honest(manifest'[i].cut)
    BY <1>1, <2>1, HonestOperations, SingleOperation DEF Versions
  <2>3. UpgradeTypeOK' /\ ControlInv' /\ ChainIsUnchanged
    BY <1>1, <1>5, <2>1, <2>2
       DEF BeginRemove, UpgradeInv, UpgradeTypeOK, ControlInv, ChainIsUnchanged, Versions
  <2> QED
    BY <2>2, <2>3, ScriptSteps
<1>6. CASE EndRemove
  <2>1. todo # <<>> /\ manifest' = <<Operation("Add", Head(todo), "new")>>
    BY <1>6 DEF EndRemove, UpgradeInv, ControlInv
  <2>2. manifest' \in Seq(Operations) /\ \A i \in 1..Len(manifest') : Honest(manifest'[i].cut)
    BY <1>1, <2>1, HonestOperations, SingleOperation DEF Versions
  <2>3. UpgradeTypeOK' /\ ControlInv' /\ ChainIsUnchanged
    BY <1>1, <1>6, <2>1, <2>2
       DEF EndRemove, UpgradeInv, UpgradeTypeOK, ControlInv, ChainIsUnchanged, Versions
  <2> QED
    BY <2>2, <2>3, ScriptSteps
<1> QED
  BY <1>3, <1>4, <1>5, <1>6

LEMMA ExecutingSteps ==
    ASSUME UpgradeInv,
           SendOperation \/ RefuseOperation \/ DropRequest \/ LoseAnswer
    PROVE  UpgradeInv'
<1> USE DEF chainVars, countVars
<1>1. /\ pc = "execute" /\ manifest # <<>> /\ waiting = FALSE
      /\ mempool \in Seq(Cuts)
      /\ faults \in 0..MaxFaults /\ runs \in 0..MaxRuns
      /\ MaxFaults \in Nat /\ MaxRuns \in Nat
  BY UpgradeAssumption
     DEF SendOperation, RefuseOperation, DropRequest, LoseAnswer, MayExecute,
         UpgradeInv, ControlInv, UpgradeTypeOK
<1>2. CASE SendOperation
  <2>1. /\ DiamondInv'
        /\ call' # NoCall => /\ \A i \in 1..Len(call'.cuts) : Honest(call'.cuts[i])
                             /\ Sound(call'.draft)
        /\ Sound(storage')
    BY <1>1, <1>2, TailOfManifest, HonestCall DEF SendOperation
  <2>2. HonestInv'
    BY <1>2, <2>1 DEF SendOperation, UpgradeInv, HonestInv
  <2>3. UpgradeTypeOK' /\ ControlInv'
    BY <1>1, <1>2 DEF SendOperation, UpgradeInv, UpgradeTypeOK, ControlInv
  <2> QED
    BY <2>1, <2>2, <2>3 DEF UpgradeInv
<1>3. CASE RefuseOperation \/ DropRequest
  <2>1. FailOperation /\ ChainIsUnchanged /\ waiting' = FALSE /\ mempool' = mempool
        /\ faults' \in 0..MaxFaults /\ runs' \in 0..MaxRuns
    BY <1>1, <1>3 DEF RefuseOperation, DropRequest, ChainIsUnchanged
  <2> QED
    BY <1>1, <2>1, FailedOperation, ScriptSteps
<1>4. CASE LoseAnswer
  <2>1. FailOperation /\ waiting' = FALSE /\ mempool' \in Seq(Cuts)
        /\ faults' \in 0..MaxFaults /\ runs' \in 0..MaxRuns
    BY <1>1, <1>4, TailOfManifest DEF LoseAnswer
  <2>2. /\ UpgradeTypeOK' /\ ControlInv'
        /\ \A i \in 1..Len(manifest') : Honest(manifest'[i].cut)
    BY <1>1, <2>1, FailedOperation
  <2>3. DiamondInv'
    BY <1>4 DEF LoseAnswer, UpgradeInv, DiamondInv, DiamondTypeOK, LoupeIsExact,
                Indexed, diamondVars
  <2>4. \A i \in 1..Len(mempool') : Honest(mempool'[i])
    <3>1. mempool' = Append(mempool, Head(manifest).cut)
      BY <1>4 DEF LoseAnswer
    <3>2. \A i \in 1..Len(mempool) : Honest(mempool[i])
      BY DEF UpgradeInv, HonestInv
    <3>3. Head(manifest).cut \in Cuts /\ Honest(Head(manifest).cut)
      BY <1>1, TailOfManifest
    <3>4. \A i \in 1..Len(mempool') :
             mempool'[i] = Head(manifest).cut \/ (i \in 1..Len(mempool) /\ mempool'[i] = mempool[i])
      BY <1>1, <3>1, <3>3
    <3> QED
      BY <3>2, <3>3, <3>4
  <2>5. HonestInv'
    BY <1>4, <2>2, <2>4 DEF LoseAnswer, UpgradeInv, HonestInv, diamondVars, Sound
  <2> QED
    BY <2>2, <2>3, <2>5 DEF UpgradeInv
<1> QED
  BY <1>2, <1>3, <1>4

LEMMA ChainSteps ==
    ASSUME UpgradeInv, RunCall \/ EndCall \/ Mine \/ HandOver
    PROVE  UpgradeInv'
<1> USE DEF chainVars, countVars
<1>1. CASE RunCall
  <2>1. UNCHANGED <<scriptVars, chainVars, countVars>>
    BY <1>1 DEF RunCall
  <2>2. HonestInv'
    BY <1>1, <2>1, HonestRun DEF RunCall, UpgradeInv, HonestInv, scriptVars, Sound
  <2>3. UpgradeTypeOK' /\ ControlInv'
    BY <2>1 DEF UpgradeInv, UpgradeTypeOK, ControlInv, scriptVars
  <2> QED
    BY <1>1, <2>2, <2>3, HonestRun DEF RunCall, UpgradeInv
<1>2. CASE EndCall
  <2>1. DiamondEnds /\ waiting' = FALSE /\ UNCHANGED <<mempool, countVars>>
    BY <1>2 DEF EndCall, DiamondEnds
  <2>2. DiamondInv'
    BY <2>1, EndsOfACall DEF UpgradeInv
  <2>3. call' = NoCall /\ Sound(storage')
    BY <2>1 DEF DiamondEnds, Commit, Revert, UpgradeInv, HonestInv, Sound
  <2>4. /\ UpgradeTypeOK' /\ ControlInv'
        /\ \A i \in 1..Len(manifest') : Honest(manifest'[i].cut)
    <3>1. CASE waiting
      <4>1. pc = "waiting" /\ manifest # <<>> /\ mempool' \in Seq(Cuts)
            /\ faults' \in 0..MaxFaults /\ runs' \in 0..MaxRuns
        BY <2>1, <3>1 DEF UpgradeInv, ControlInv, UpgradeTypeOK
      <4> QED
        BY <1>2, <2>1, <3>1, <4>1, CompletedOperation, FailedOperation DEF EndCall
    <3>2. CASE ~waiting
      <4>1. UNCHANGED scriptVars /\ waiting' = waiting
        BY <1>2, <2>1, <3>2 DEF EndCall, UpgradeInv, UpgradeTypeOK
      <4> QED
        BY <2>1, <4>1 DEF UpgradeInv, UpgradeTypeOK, ControlInv, HonestInv, scriptVars
    <3> QED
      BY <3>1, <3>2
  <2>5. HonestInv'
    BY <2>1, <2>3, <2>4 DEF UpgradeInv, HonestInv
  <2> QED
    BY <2>2, <2>4, <2>5 DEF UpgradeInv
<1>3. CASE Mine
  <2>1. /\ mempool # <<>> /\ mempool \in Seq(Cuts)
        /\ \A i \in 1..Len(mempool) : Honest(mempool[i])
        /\ mempool' = Tail(mempool) /\ UNCHANGED <<scriptVars, waiting, countVars>>
    BY <1>3 DEF Mine, UpgradeInv, UpgradeTypeOK, HonestInv
  <2>2. /\ mempool' \in Seq(Cuts)
        /\ Head(mempool) \in Cuts /\ Head(mempool) = mempool[1] /\ 1 \in 1..Len(mempool)
        /\ \A i \in 1..Len(Tail(mempool)) :
              Tail(mempool)[i] = mempool[i + 1] /\ i + 1 \in 1..Len(mempool)
    BY <2>1
  <2>3. UpgradeTypeOK' /\ ControlInv'
    BY <2>1, <2>2 DEF UpgradeInv, UpgradeTypeOK, ControlInv, scriptVars
  <2>4. /\ DiamondInv'
        /\ call' # NoCall => /\ \A i \in 1..Len(call'.cuts) : Honest(call'.cuts[i])
                             /\ Sound(call'.draft)
        /\ Sound(storage')
    <3>1. CASE DiamondCut(Signer, <<Head(mempool)>>)
      BY <2>1, <2>2, <3>1, HonestCall
    <3>2. CASE UNCHANGED diamondVars
      BY <3>2 DEF UpgradeInv, DiamondInv, DiamondTypeOK, LoupeIsExact, Indexed,
                  HonestInv, diamondVars, Sound
    <3> QED
      BY <1>3, <3>1, <3>2 DEF Mine
  <2>5. HonestInv'
    BY <2>1, <2>2, <2>4 DEF UpgradeInv, HonestInv, scriptVars
  <2> QED
    BY <2>3, <2>4, <2>5 DEF UpgradeInv
<1>4. CASE HandOver
  <2>1. DiamondInv'
    BY <1>4, OwnersKeepInvariant DEF HandOver, UpgradeInv
  <2>2. UNCHANGED <<storage, call, scriptVars, chainVars, countVars>>
    BY <1>4 DEF HandOver, TransferOwnership
  <2>3. UpgradeTypeOK' /\ ControlInv' /\ HonestInv'
    BY <2>2 DEF UpgradeInv, UpgradeTypeOK, ControlInv, HonestInv, scriptVars, Sound
  <2> QED
    BY <2>1, <2>3 DEF UpgradeInv
<1> QED
  BY <1>1, <1>2, <1>3, <1>4

LEMMA UpgradeStarts ==
    ASSUME UpgradeInit
    PROVE  UpgradeInv
<1>1. /\ Len(FacetsToReplace) \in Nat
      /\ \A i \in 1..Len(FacetsToReplace) : FacetsToReplace[i] \in Names
  BY UpgradeAssumption
<1>2. \A i \in 1..Len(FacetsToReplace) :
        /\ ConstructorCuts[i] \in Cuts
        /\ ConstructorCuts[i].facet = OldFacet[FacetsToReplace[i]]
        /\ ConstructorCuts[i].functionSelectors = OldABI[FacetsToReplace[i]]
  BY <1>1, UpgradeAssumption DEF ConstructorCuts, Cuts
<1>3. ConstructorCuts \in Seq(Cuts) /\ Len(ConstructorCuts) = Len(FacetsToReplace)
  BY <1>1, <1>2 DEF ConstructorCuts
<1>4. DiamondInv
  BY <1>3, ConstructorIsInvariant DEF UpgradeInit
<1>5. \A i \in 1..Len(ConstructorCuts) : Honest(ConstructorCuts[i])
  <2>1. SUFFICES ASSUME NEW i \in 1..Len(FacetsToReplace),
                        NEW j \in 1..Len(ConstructorCuts[i].functionSelectors)
                 PROVE  Implements(ConstructorCuts[i].facet,
                                   ConstructorCuts[i].functionSelectors[j])
    BY <1>3 DEF Honest
  <2>2. /\ FacetsToReplace[i] \in Names
        /\ ConstructorCuts[i].functionSelectors[j] \in Declared(OldABI[FacetsToReplace[i]])
    BY <1>1, <1>2 DEF Declared
  <2> QED
    BY <1>2, <2>2 DEF Implements
<1>6. Sound(EmptyStorage) /\ storage = EmptyStorage
  BY DEF Sound, EmptyStorage, UpgradeInit, DiamondInit
<1>7. call.cuts = ConstructorCuts /\ call.draft = EmptyStorage
  BY DEF UpgradeInit, DiamondInit, CallOf
<1>8. HonestInv
  BY <1>5, <1>6, <1>7 DEF UpgradeInit, HonestInv
<1>9. UpgradeTypeOK /\ ControlInv
  <2>1. /\ 0 \in 0..MaxFaults /\ 0 \in 0..MaxRuns
        /\ \A S : <<>> \in Seq(S)
    BY UpgradeAssumption
  <2>2. report \in [Names -> {"none", "complete", "added", "manual"}]
    BY DEF UpgradeInit
  <2> QED
    BY <2>1, <2>2 DEF UpgradeInit, UpgradeTypeOK, ControlInv, Versions
<1> QED
  BY <1>4, <1>8, <1>9 DEF UpgradeInv

LEMMA UpgradeContinues ==
    ASSUME UpgradeInv, [UpgradeNext]_upgradeVars
    PROVE  UpgradeInv'
<1>1. CASE UNCHANGED upgradeVars
  <2>1. ChainIsUnchanged /\ UNCHANGED <<scriptVars, chainVars, countVars>>
    BY <1>1 DEF upgradeVars, ChainIsUnchanged, chainVars
  <2> QED
    BY <2>1, ScriptSteps
       DEF UpgradeInv, UpgradeTypeOK, ControlInv, HonestInv, scriptVars, chainVars, countVars
<1> QED
  BY <1>1, HandlingSteps, ExecutingSteps, ChainSteps DEF UpgradeNext, ScriptNext

\* A diamond under upgrade never forwards a function to a contract that does
\* not have it; its loupe stays exact, and the script's state has its type.
THEOREM UpgradeCorrect ==
    UpgradeSpec => [](TypeOK /\ LoupeIsExact /\ RoutedToWhatImplementsIt)
<1>1. UpgradeInit => UpgradeInv
  BY UpgradeStarts
<1>2. UpgradeInv /\ [UpgradeNext]_upgradeVars => UpgradeInv'
  BY UpgradeContinues
<1>3. UpgradeInv => TypeOK /\ LoupeIsExact /\ RoutedToWhatImplementsIt
  BY DEF UpgradeInv, DiamondInv, HonestInv, Sound, RoutedToWhatImplementsIt, TypeOK
<1> QED
  BY <1>1, <1>2, <1>3, PTL DEF UpgradeSpec

\* The script's manifest, its mempool and the diamond hold what their types
\* say, through every fault, crash and second run.
THEOREM UpgradeTypeCorrect == UpgradeSpec => []TypeOK
<1> QED
  BY UpgradeCorrect, PTL

-----------------------------------------------------------------------------
(* What the script reports, for facets that keep their functions.          *)

FunctionsOf(n) == Declared(OldABI[n]) \cup Declared(NewABI[n])

\* No function moves from one facet to another.
OwnFunctions ==
    \A m, n \in Names : m # n => FunctionsOf(m) \cap FunctionsOf(n) = {}

Touches(cut, n) ==
    \E i \in 1..Len(cut.functionSelectors) : cut.functionSelectors[i] \in FunctionsOf(n)

\* The new facet of n is in place, and nothing under way will change that.
Settled(n) ==
    /\ Installed(n)
    /\ \A i \in 1..Len(mempool) : ~Touches(mempool[i], n)
    /\ call # NoCall =>
          /\ \A s \in Declared(NewABI[n]) : call.draft.facetOf[s] = NewFacet[n]
          /\ \A i \in 1..Len(call.cuts) : ~Touches(call.cuts[i], n)

LEMMA SettledUnlessChanged ==
    ASSUME NEW n \in Names, Settled(n), UNCHANGED <<storage, call, mempool>>
    PROVE  Settled(n)'
BY DEF Settled, Installed

LEMMA SettledInCall ==
    ASSUME UpgradeInv, NEW n \in Names, Settled(n), DiamondRuns, mempool' = mempool
    PROVE  Settled(n)'
<1>1. /\ call \in Calls /\ call # NoCall /\ call.cuts \in Seq(Cuts) /\ call.cuts # <<>>
      /\ call.at \in Nat \ {0} /\ call.draft \in Storages
      /\ \A i \in 1..Len(call.cuts) : ~Touches(call.cuts[i], n)
      /\ \A s \in Declared(NewABI[n]) : call.draft.facetOf[s] = NewFacet[n]
  BY DEF UpgradeInv, DiamondInv, DiamondTypeOK, Settled, Calls, DiamondRuns,
         AddFunction, ReplaceFunction, RemoveFunction, NextCut, CutIs
<1>2. Cut \in Cuts /\ Cut = call.cuts[1] /\ ~Touches(Cut, n)
  BY <1>1 DEF Cut
<1>3. storage' = storage
  BY DEF DiamondRuns, AddFunction, ReplaceFunction, RemoveFunction, NextCut
<1>4. SUFFICES /\ \A s \in Declared(NewABI[n]) : call'.draft.facetOf[s] = NewFacet[n]
               /\ \A i \in 1..Len(call'.cuts) : ~Touches(call'.cuts[i], n)
  BY <1>3 DEF Settled, Installed, Touches
<1>5. ASSUME NEW d, NEW f,
             call.at <= Len(Cut.functionSelectors),
             d.facetOf = [call.draft.facetOf EXCEPT ![Selector] = f],
             Continue(d)
      PROVE  /\ \A s \in Declared(NewABI[n]) : call'.draft.facetOf[s] = NewFacet[n]
             /\ \A i \in 1..Len(call'.cuts) : ~Touches(call'.cuts[i], n)
  <2>1. call' = [cuts |-> call.cuts, at |-> call.at + 1, draft |-> d]
    BY <1>1, <1>5 DEF Continue, Calls
  <2>2. Selector \notin Declared(NewABI[n])
    <3>1. Cut.functionSelectors \in Seq(Selectors)
      BY <1>2 DEF Cuts
    <3>2. call.at \in 1..Len(Cut.functionSelectors)
      BY <1>1, <1>5, <3>1
    <3> QED
      BY <1>2, <3>2 DEF Touches, Selector, FunctionsOf
  <2>3. call.draft.facetOf \in [Selectors -> Facets \cup {NoFacet}]
    BY <1>1 DEF Storages
  <2>4. Declared(NewABI[n]) \subseteq Selectors
    BY UpgradeAssumption DEF Declared
  <2> QED
    BY <1>1, <1>5, <2>1, <2>2, <2>3, <2>4
<1>6. CASE AddFunction
  BY <1>5, <1>6 DEF AddFunction, CutIs, Added
<1>7. CASE ReplaceFunction
  BY <1>1, <1>5, <1>7 DEF ReplaceFunction, CutIs, Replaced, Storages
<1>8. CASE RemoveFunction
  BY <1>5, <1>8 DEF RemoveFunction, CutIs, Removed
<1>9. CASE NextCut
  <2>1. call' = [cuts |-> Tail(call.cuts), at |-> 1, draft |-> call.draft]
    BY <1>1, <1>9 DEF NextCut, Calls
  <2>2. \A i \in 1..Len(Tail(call.cuts)) :
           Tail(call.cuts)[i] = call.cuts[i + 1] /\ i + 1 \in 1..Len(call.cuts)
    BY <1>1
  <2> QED
    BY <1>1, <2>1, <2>2
<1> QED
  BY <1>6, <1>7, <1>8, <1>9 DEF DiamondRuns

LEMMA SettledAfterCall ==
    ASSUME NEW n \in Names, Settled(n), DiamondEnds, mempool' = mempool
    PROVE  Settled(n)'
BY DEF Settled, Installed, Touches, DiamondEnds, Commit, Revert

LEMMA SettledByCall ==
    ASSUME NEW n \in Names, Settled(n), NEW cut, ~Touches(cut, n),
           DiamondCut(Signer, <<cut>>),
           mempool \in Seq(Cuts),
           mempool' = mempool \/ (mempool # <<>> /\ mempool' = Tail(mempool))
    PROVE  Settled(n)'
<1>1. /\ call' = [cuts |-> <<cut>>, at |-> 1, draft |-> storage] /\ storage' = storage
  BY DEF DiamondCut, CallOf
<1>2. \A i \in 1..Len(mempool') : ~Touches(mempool'[i], n)
  <2>1. mempool # <<>> => \A i \in 1..Len(Tail(mempool)) :
           Tail(mempool)[i] = mempool[i + 1] /\ i + 1 \in 1..Len(mempool)
    OBVIOUS
  <2> QED
    BY <2>1 DEF Settled
<1>3. \A i \in 1..Len(<<cut>>) : ~Touches(<<cut>>[i], n)
  OBVIOUS
<1> QED
  BY <1>1, <1>2, <1>3 DEF Settled, Installed, Touches

LEMMA SettledByTransaction ==
    ASSUME NEW n \in Names, Settled(n), NEW cut \in Cuts, ~Touches(cut, n),
           UNCHANGED <<storage, call>>,
           mempool \in Seq(Cuts), mempool' = Append(mempool, cut)
    PROVE  Settled(n)'
<1>1. \A i \in 1..Len(mempool') :
         mempool'[i] = cut \/ (i \in 1..Len(mempool) /\ mempool'[i] = mempool[i])
  OBVIOUS
<1>2. \A i \in 1..Len(mempool') : ~Touches(mempool'[i], n)
  BY <1>1 DEF Settled
<1> QED
  BY <1>2 DEF Settled, Installed, Touches

LEMMA SettledWhenMined ==
    ASSUME UpgradeInv, NEW n \in Names, Settled(n), Mine
    PROVE  Settled(n)'
<1>1. mempool \in Seq(Cuts) /\ mempool # <<>> /\ mempool' = Tail(mempool)
  BY DEF Mine, UpgradeInv, UpgradeTypeOK
<1>2. ~Touches(Head(mempool), n)
  BY <1>1 DEF Settled
<1>3. CASE UNCHANGED diamondVars
  <2>1. \A i \in 1..Len(Tail(mempool)) :
           Tail(mempool)[i] = mempool[i + 1] /\ i + 1 \in 1..Len(mempool)
    BY <1>1
  <2>2. \A i \in 1..Len(mempool') : ~Touches(mempool'[i], n)
    BY <1>1, <2>1 DEF Settled
  <2> QED
    BY <1>3, <2>2 DEF Settled, Installed, Touches, diamondVars
<1> QED
  BY <1>1, <1>2, <1>3, SettledByCall DEF Mine

-----------------------------------------------------------------------------
(* What the script still has to handle, and what it has said.              *)

Targets == {FacetsToReplace[i] : i \in 1..Len(FacetsToReplace)}
Replacing == phase = "replace" /\ pc \in {"execute", "waiting"}

\* The facets the script has not spoken its last word on.
Unhandled(n) ==
    \/ \E i \in 1..Len(todo) : todo[i] = n
    \/ /\ Replacing
       /\ \/ \E i \in 1..Len(failed) : failed[i] = n
          \/ \E i \in 1..Len(manifest) : manifest[i].facetName = n

ActionOf == [replace |-> "Replace", remove |-> "Remove", add |-> "Add"]
VersionOf == [replace |-> "new", remove |-> "old", add |-> "new"]

ManifestInv ==
    /\ \A i \in 1..Len(manifest) :
          manifest[i] = Operation(ActionOf[phase], manifest[i].facetName, VersionOf[phase])
    /\ Replacing => todo = <<>>
    /\ phase # "replace" /\ pc \in {"execute", "waiting"} =>
          manifest = <<>> \/ (Len(manifest) = 1 /\ manifest[1].facetName = Head(todo))
    /\ pc = "done" => todo = <<>>

\* The call the script waits for has nothing before it, and has done what is
\* behind its position.
RunningInv ==
    waiting =>
        LET cut == Head(manifest).cut IN
        /\ mempool = <<>>
        /\ call.cuts \in {<<>>, <<cut>>}
        /\ cut.action # "Remove" =>
              \A j \in 1..Len(cut.functionSelectors) :
                 (call.cuts = <<>> \/ j < call.at) =>
                     call.draft.facetOf[cut.functionSelectors[j]] = cut.facet

Reported(n) ==
    \/ Unhandled(n)
    \/ report[n] = "manual"
    \/ report[n] \in {"complete", "added"} /\ Settled(n)

ReportInv ==
    /\ pc # "idle" => \A n \in Targets : Reported(n)
    /\ phase = "add" /\ pc = "execute" /\ manifest = <<>> /\ failed = <<>> =>
          Settled(Head(todo))

HandledInv == UpgradeInv /\ ManifestInv /\ RunningInv /\ ReportInv

LEMMA TargetsAreNames == Targets \subseteq Names
BY UpgradeAssumption DEF Targets

\* The operation at the head of the manifest is of a facet still to be handled
\* and touches no other.
LEMMA HeadIsUnhandled ==
    ASSUME OwnFunctions, UpgradeInv, ManifestInv,
           manifest # <<>>, pc \in {"execute", "waiting"}
    PROVE  /\ Head(manifest).facetName \in Names
           /\ Unhandled(Head(manifest).facetName)
           /\ \A n \in Names : n # Head(manifest).facetName => ~Touches(Head(manifest).cut, n)
           /\ phase # "replace" => todo # <<>> /\ Head(manifest).facetName = Head(todo)
           /\ Head(manifest).cut.functionSelectors = ABI(Head(manifest).facetName, VersionOf[phase])
           /\ Head(manifest).cut.action = ActionOf[phase]
           /\ phase # "remove" => Head(manifest).cut.facet = NewFacet[Head(manifest).facetName]
<1> DEFINE op == Head(manifest)
<1>1. /\ op = manifest[1] /\ 1 \in 1..Len(manifest) /\ op.facetName \in Names
      /\ phase \in {"replace", "remove", "add"} /\ todo \in Seq(Names)
  BY TailOfManifest DEF UpgradeInv, UpgradeTypeOK
<1>2. op = Operation(ActionOf[phase], op.facetName, VersionOf[phase])
  BY <1>1 DEF ManifestInv
<1>3. /\ op.cut.functionSelectors = ABI(op.facetName, VersionOf[phase])
      /\ op.cut.action = ActionOf[phase]
      /\ phase # "remove" => op.cut.facet = NewFacet[op.facetName]
  <2>1. \A a, n, v : /\ Operation(a, n, v).cut.functionSelectors = ABI(n, v)
                     /\ Operation(a, n, v).cut.action = a
                     /\ a # "Remove" => Operation(a, n, v).cut.facet = NewFacet[n]
    BY DEF Operation
  <2>2. phase # "remove" => ActionOf[phase] # "Remove"
    BY <1>1 DEF ActionOf
  <2> QED
    BY <1>2, <2>1, <2>2
<1>4. phase # "replace" => todo # <<>> /\ op.facetName = Head(todo)
  BY <1>1 DEF ManifestInv, UpgradeInv, ControlInv
<1>5. Unhandled(op.facetName)
  <2>1. todo # <<>> => Head(todo) = todo[1] /\ 1 \in 1..Len(todo)
    BY <1>1
  <2> QED
    BY <1>1, <1>4, <2>1 DEF Unhandled, Replacing
<1>6. ASSUME NEW n \in Names, n # op.facetName PROVE ~Touches(op.cut, n)
  <2>1. \A i \in 1..Len(op.cut.functionSelectors) :
           op.cut.functionSelectors[i] \in FunctionsOf(op.facetName)
    BY <1>3 DEF ABI, FunctionsOf, Declared
  <2> QED
    BY <1>1, <1>6, <2>1 DEF OwnFunctions, Touches
<1> QED
  BY <1>1, <1>3, <1>4, <1>5, <1>6

\* Steps on the chain that leave the script alone.
LEMMA SettledByChain ==
    ASSUME UpgradeInv, NEW n \in Names, Settled(n),
           RunCall \/ Mine \/ HandOver \/ (DiamondEnds /\ mempool' = mempool)
    PROVE  Settled(n)'
<1>1. CASE RunCall
  BY <1>1, SettledInCall DEF RunCall, chainVars
<1>2. CASE HandOver
  BY <1>2, SettledUnlessChanged DEF HandOver, TransferOwnership, chainVars
<1> QED
  BY <1>1, <1>2, SettledWhenMined, SettledAfterCall

LEMMA ReportedUnlessChanged ==
    ASSUME UpgradeInv, ReportInv, ManifestInv,
           UNCHANGED scriptVars,
           \A n \in Names : Settled(n) => Settled(n)'
    PROVE  ReportInv' /\ ManifestInv'
<1> USE DEF scriptVars
<1>1. ManifestInv'
  BY DEF ManifestInv, Replacing
<1>2. \A n \in Names : Reported(n) => Reported(n)'
  BY DEF Reported, Unhandled, Replacing
<1>3. phase = "add" /\ pc = "execute" /\ todo \in Seq(Names) => Head(todo) \in Names
  BY DEF UpgradeInv, ControlInv
<1>4. todo \in Seq(Names)
  BY DEF UpgradeInv, UpgradeTypeOK
<1> QED
  BY <1>1, <1>2, <1>3, <1>4, TargetsAreNames DEF ReportInv

LEMMA NothingRuns == ASSUME UpgradeInv', pc' # "waiting" PROVE RunningInv'
BY DEF UpgradeInv, ControlInv, RunningInv

\* The last word on the facet at the head of the list.
LEMMA HandledHead ==
    ASSUME HandledInv, pc \in {"execute", "handle"}, ~Replacing, todo # <<>>,
           todo' = Tail(todo), pc' = "handle",
           NEW word, report' = [report EXCEPT ![Head(todo)] = word],
           word = "manual" \/ (word = "added" /\ Settled(Head(todo))),
           UNCHANGED diamondVars, UNCHANGED mempool
    PROVE  \A n \in Targets : Reported(n)'
<1>1. /\ todo \in Seq(Names) /\ report \in [Names -> {"none", "complete", "added", "manual"}]
      /\ Head(todo) \in Names
      /\ \A i \in 1..Len(todo) : todo[i] = Head(todo)
            \/ \E j \in 1..Len(Tail(todo)) : Tail(todo)[j] = todo[i]
  <2>1. todo \in Seq(Names) /\ report \in [Names -> {"none", "complete", "added", "manual"}]
    BY DEF HandledInv, UpgradeInv, UpgradeTypeOK
  <2>2. ASSUME NEW i \in 1..Len(todo)
        PROVE  todo[i] = Head(todo) \/ \E j \in 1..Len(Tail(todo)) : Tail(todo)[j] = todo[i]
    <3>1. i = 1 => todo[i] = Head(todo)
      BY <2>1
    <3>2. i # 1 => i - 1 \in 1..Len(Tail(todo)) /\ Tail(todo)[i - 1] = todo[i]
      BY <2>1
    <3> QED
      BY <3>1, <3>2
  <2>3. Head(todo) \in Names
    BY <2>1
  <2> QED
    BY <2>1, <2>2, <2>3
<1>2. ASSUME NEW n \in Targets PROVE Reported(n)'
  <2>1. n \in Names /\ Reported(n) /\ (Settled(n) => Settled(n)')
    BY <1>2, TargetsAreNames, SettledUnlessChanged DEF HandledInv, ReportInv, diamondVars
  <2>2. CASE n = Head(todo)
    BY <1>1, <2>1, <2>2 DEF Reported
  <2>3. CASE n # Head(todo)
    <3>1. report'[n] = report[n]
      BY <1>1, <2>1, <2>3
    <3>2. Unhandled(n) => Unhandled(n)'
      BY <1>1, <2>3 DEF Unhandled, Replacing
    <3> QED
      BY <2>1, <3>1, <3>2 DEF Reported
  <2> QED
    BY <2>2, <2>3
<1> QED
  BY <1>2

LEMMA HandlingReports ==
    ASSUME HandledInv, UpgradeInv',
           \/ Start \/ EndReplace \/ Finish \/ NoShaGiven \/ BeginRemove
           \/ RemoveThrows \/ EndRemove \/ EndAdd \/ Crash
    PROVE  HandledInv'
<1> USE DEF chainVars, countVars
<1>1. RunningInv'
  BY NothingRuns DEF Start, EndReplace, Finish, NoShaGiven, BeginRemove, RemoveThrows,
                     EndRemove, EndAdd, Crash, HandledInv, UpgradeInv
<1>2. SUFFICES ManifestInv' /\ ReportInv'
  BY <1>1 DEF HandledInv
<1>3. /\ UpgradeInv /\ ManifestInv /\ ReportInv /\ todo \in Seq(Names)
      /\ \A n \in Targets : n \in Names
      /\ phase \in {"replace", "remove", "add"}
      /\ (pc = "execute" /\ phase # "replace") => todo # <<>>
  BY TargetsAreNames DEF HandledInv, UpgradeInv, UpgradeTypeOK, ControlInv
<1>4. ASSUME UNCHANGED <<diamondVars, mempool>>
      PROVE  \A n \in Names : Settled(n) => Settled(n)'
  BY <1>4, SettledUnlessChanged DEF diamondVars
<1>5. CASE Start
  <2> DEFINE ops == [i \in 1..Len(FacetsToReplace) |->
                        Operation("Replace", FacetsToReplace[i], "new")]
  <2>1. manifest' = ops /\ phase' = "replace" /\ pc' = "execute" /\ todo' = <<>>
    BY <1>5 DEF Start
  <2>2. Len(ops) = Len(FacetsToReplace)
    BY UpgradeAssumption
  <2>3. \A a, n, v : Operation(a, n, v).facetName = n
    BY DEF Operation
  <2>4. \A i \in 1..Len(ops) : /\ ops[i].facetName = FacetsToReplace[i]
                               /\ ops[i] = Operation("Replace", ops[i].facetName, "new")
    BY <2>2, <2>3
  <2> HIDE DEF ops
  <2>5. ManifestInv'
    BY <2>1, <2>4 DEF ManifestInv, ActionOf, VersionOf
  <2>6. \A n \in Targets : Unhandled(n)'
    BY <2>1, <2>2, <2>4 DEF Targets, Unhandled, Replacing
  <2> QED
    BY <2>1, <2>5, <2>6 DEF ReportInv, Reported
<1>6. CASE EndReplace
  <2>1. ManifestInv'
    BY <1>3, <1>6 DEF EndReplace, ManifestInv, Replacing
  <2>2. \A n \in Targets : Unhandled(n) => Unhandled(n)'
    BY <1>3, <1>6 DEF EndReplace, ManifestInv, Unhandled, Replacing
  <2>3. \A n \in Targets : Reported(n)'
    BY <1>3, <1>4, <1>6, <2>2 DEF EndReplace, Reported, ReportInv
  <2> QED
    BY <1>6, <2>1, <2>3 DEF EndReplace, ReportInv
<1>7. CASE Finish
  <2>1. ManifestInv'
    BY <1>3, <1>7 DEF Finish, ManifestInv, Replacing
  <2>2. \A n \in Targets : Reported(n)'
    BY <1>3, <1>4, <1>7 DEF Finish, Reported, ReportInv, Unhandled, Replacing
  <2> QED
    BY <1>7, <2>1, <2>2 DEF Finish, ReportInv
<1>8. CASE NoShaGiven \/ RemoveThrows
  <2>1. /\ pc = "handle" /\ pc' = "handle" /\ todo # <<>> /\ LeaveToOperator
        /\ UNCHANGED <<diamondVars, mempool, phase, manifest>>
    BY <1>8 DEF NoShaGiven, RemoveThrows
  <2>2. ManifestInv'
    BY <1>3, <2>1 DEF ManifestInv, Replacing
  <2>3. \A n \in Targets : Reported(n)'
    BY <2>1, HandledHead DEF LeaveToOperator, Replacing
  <2> QED
    BY <2>1, <2>2, <2>3 DEF ReportInv
<1>9. CASE EndAdd
  <2>1. /\ pc = "execute" /\ phase = "add" /\ pc' = "handle" /\ todo # <<>>
        /\ manifest = <<>> /\ UNCHANGED <<diamondVars, mempool, phase, manifest>>
    BY <1>3, <1>9 DEF EndAdd
  <2>2. ManifestInv'
    BY <1>3, <2>1 DEF ManifestInv, Replacing
  <2>3. \A n \in Targets : Reported(n)'
    <3>1. CASE LeaveToOperator
      BY <2>1, <3>1, HandledHead DEF LeaveToOperator, Replacing
    <3>2. CASE failed = <<>> /\ report' = [report EXCEPT ![Head(todo)] = "added"]
               /\ todo' = Tail(todo)
      <4>1. Settled(Head(todo))
        BY <1>3, <2>1, <3>2 DEF ReportInv
      <4> QED
        BY <2>1, <3>2, <4>1, HandledHead DEF Replacing
    <3> QED
      BY <1>9, <3>1, <3>2 DEF EndAdd
  <2> QED
    BY <2>1, <2>2, <2>3 DEF ReportInv
<1>10. CASE BeginRemove \/ EndRemove
  <2>1. /\ pc' = "execute" /\ ~Replacing /\ pc # "idle" /\ todo' = todo
        /\ UNCHANGED <<diamondVars, mempool, report>>
    BY <1>10 DEF BeginRemove, EndRemove, Replacing
  <2>2. \/ phase' = "remove" /\ manifest' = <<Operation("Remove", Head(todo), "old")>>
        \/ phase' = "add" /\ manifest' = <<Operation("Add", Head(todo), "new")>>
    BY <1>10 DEF BeginRemove, EndRemove
  <2>3. manifest' # <<>> /\ phase' # "replace"
    BY <2>2
  <2>4. ManifestInv'
    <3>1. \A a, v : Operation(a, Head(todo), v).facetName = Head(todo)
      BY DEF Operation
    <3>2. \A op : Len(<<op>>) = 1 /\ <<op>>[1] = op
      OBVIOUS
    <3> QED
      BY <2>1, <2>2, <3>1, <3>2 DEF ManifestInv, Replacing, ActionOf, VersionOf
  <2>5. \A n \in Targets : Reported(n)'
    BY <1>3, <1>4, <2>1, <2>3 DEF ReportInv, Reported, Unhandled, Replacing
  <2> QED
    BY <2>3, <2>4, <2>5 DEF ReportInv
<1>11. CASE Crash
  <2>1. pc' = "idle" /\ manifest' = <<>>
    BY <1>11 DEF Crash
  <2> QED
    BY <2>1 DEF ManifestInv, ReportInv, Replacing
<1> QED
  BY <1>5, <1>6, <1>7, <1>8, <1>9, <1>10, <1>11

-----------------------------------------------------------------------------
(* What becomes of an operation.                                           *)

LEMMA ManifestTail ==
    ASSUME UpgradeInv, ManifestInv, manifest # <<>>, pc \in {"execute", "waiting"},
           manifest' = Tail(manifest), pc' = "execute", UNCHANGED <<phase, todo>>
    PROVE  /\ ManifestInv'
           /\ \A i \in 1..Len(manifest) : manifest[i] = Head(manifest)
                 \/ \E j \in 1..Len(manifest') : manifest'[j] = manifest[i]
<1>1. manifest \in Seq(Operations) /\ Len(Tail(manifest)) = Len(manifest) - 1
  BY DEF UpgradeInv, UpgradeTypeOK
<1>2. \A i \in 1..Len(Tail(manifest)) :
         Tail(manifest)[i] = manifest[i + 1] /\ i + 1 \in 1..Len(manifest)
  BY <1>1
<1>3. Len(manifest) = 1 => manifest' = <<>>
  BY <1>1
<1>4. ManifestInv'
  BY <1>2, <1>3 DEF ManifestInv, Replacing
<1>5. ASSUME NEW i \in 1..Len(manifest)
      PROVE  manifest[i] = Head(manifest)
                \/ \E j \in 1..Len(manifest') : manifest'[j] = manifest[i]
  <2>1. i = 1 => manifest[i] = Head(manifest)
    BY <1>1
  <2>2. i # 1 => i - 1 \in 1..Len(Tail(manifest)) /\ Tail(manifest)[i - 1] = manifest[i]
    BY <1>1
  <2> QED
    BY <2>1, <2>2
<1> QED
  BY <1>4, <1>5

LEMMA FailureIsReported ==
    ASSUME OwnFunctions, HandledInv, manifest # <<>>, pc \in {"execute", "waiting"},
           FailOperation,
           \A n \in Names : Settled(n) /\ n # Head(manifest).facetName => Settled(n)'
    PROVE  ManifestInv' /\ ReportInv'
<1> DEFINE name == Head(manifest).facetName
<1>1. /\ ManifestInv' /\ name \in Names /\ Unhandled(name)
      /\ \A i \in 1..Len(manifest) : manifest[i] = Head(manifest)
            \/ \E j \in 1..Len(manifest') : manifest'[j] = manifest[i]
  BY ManifestTail, HeadIsUnhandled DEF HandledInv, FailOperation
<1>2. failed \in Seq(Names) /\ failed' = Append(failed, name)
  BY DEF HandledInv, UpgradeInv, UpgradeTypeOK, FailOperation
<1>3. /\ failed' # <<>>
      /\ Len(failed') \in 1..Len(failed') /\ failed'[Len(failed')] = name
      /\ \A i \in 1..Len(failed) : i \in 1..Len(failed') /\ failed'[i] = failed[i]
  BY <1>1, <1>2
<1>4. ASSUME NEW n \in Targets, Unhandled(n) PROVE Unhandled(n)'
  BY <1>1, <1>3, <1>4 DEF Unhandled, Replacing, FailOperation
<1>5. ASSUME NEW n \in Targets PROVE Reported(n)'
  BY <1>1, <1>4, <1>5, TargetsAreNames DEF HandledInv, ReportInv, Reported, FailOperation
<1> QED
  BY <1>1, <1>3, <1>5 DEF ReportInv

LEMMA SuccessIsReported ==
    ASSUME OwnFunctions, HandledInv, manifest # <<>>, pc = "waiting",
           CompleteOperation,
           \A n \in Names :
              Settled(n) \/ (phase # "remove" /\ n = Head(manifest).facetName)
                 => Settled(n)'
    PROVE  ManifestInv' /\ ReportInv'
<1> DEFINE name == Head(manifest).facetName
<1>1. /\ ManifestInv' /\ name \in Names
      /\ phase # "replace" => todo # <<>> /\ name = Head(todo)
      /\ \A i \in 1..Len(manifest) : manifest[i] = Head(manifest)
            \/ \E j \in 1..Len(manifest') : manifest'[j] = manifest[i]
  BY ManifestTail, HeadIsUnhandled DEF HandledInv, CompleteOperation
<1>2. report \in [Names -> {"none", "complete", "added", "manual"}]
  BY DEF HandledInv, UpgradeInv, UpgradeTypeOK
<1>3. ASSUME NEW n \in Targets PROVE Reported(n)'
  <2>1. n \in Names /\ Reported(n)
    BY TargetsAreNames DEF HandledInv, ReportInv
  <2>2. CASE phase = "replace" /\ n = name
    <3>1. report'[n] = "complete"
      BY <1>1, <1>2, <2>1, <2>2 DEF CompleteOperation
    <3> QED
      BY <2>1, <2>2, <3>1 DEF Reported
  <2>3. CASE ~(phase = "replace" /\ n = name)
    <3>1. report'[n] = report[n]
      BY <1>1, <1>2, <2>1, <2>3 DEF CompleteOperation
    <3>2. Unhandled(n) => Unhandled(n)'
      BY <1>1, <2>3 DEF Unhandled, Replacing, CompleteOperation
    <3> QED
      BY <2>1, <3>1, <3>2 DEF Reported
  <2> QED
    BY <2>2, <2>3
<1>4. phase' = "add" => Settled(Head(todo))'
  BY <1>1 DEF CompleteOperation
<1> QED
  BY <1>1, <1>3, <1>4 DEF ReportInv, CompleteOperation

LEMMA ExecutingReports ==
    ASSUME OwnFunctions, HandledInv, UpgradeInv',
           SendOperation \/ RefuseOperation \/ DropRequest \/ LoseAnswer
    PROVE  HandledInv'
<1> USE DEF chainVars, countVars
<1>1. /\ UpgradeInv /\ ManifestInv /\ ReportInv /\ pc = "execute" /\ manifest # <<>>
      /\ call = NoCall /\ mempool \in Seq(Cuts)
  BY DEF SendOperation, RefuseOperation, DropRequest, LoseAnswer, MayExecute,
         HandledInv, UpgradeInv, UpgradeTypeOK
<1> DEFINE name == Head(manifest).facetName
           cut == Head(manifest).cut
<1>2. /\ name \in Names /\ Unhandled(name) /\ cut \in Cuts
      /\ \A n \in Names : n # name => ~Touches(cut, n)
  BY <1>1, HeadIsUnhandled, TailOfManifest
<1>3. CASE RefuseOperation \/ DropRequest
  <2>1. FailOperation /\ UNCHANGED <<storage, call, mempool>>
    BY <1>3 DEF RefuseOperation, DropRequest, diamondVars
  <2>2. ManifestInv' /\ ReportInv'
    BY <1>1, <2>1, FailureIsReported, SettledUnlessChanged
  <2> QED
    BY <2>1, <2>2, NothingRuns DEF HandledInv, FailOperation
<1>4. CASE LoseAnswer
  <2>1. /\ FailOperation /\ UNCHANGED <<storage, call>>
        /\ mempool' = Append(mempool, cut)
    BY <1>4 DEF LoseAnswer, diamondVars
  <2>2. \A n \in Names : Settled(n) /\ n # name => Settled(n)'
    BY <1>1, <1>2, <2>1, SettledByTransaction
  <2>3. ManifestInv' /\ ReportInv'
    BY <1>1, <2>1, <2>2, FailureIsReported
  <2> QED
    BY <2>1, <2>3, NothingRuns DEF HandledInv, FailOperation
<1>5. CASE SendOperation
  <2>1. /\ DiamondCut(Signer, <<cut>>) /\ mempool = <<>> /\ mempool' = mempool
        /\ pc' = "waiting" /\ waiting' = TRUE
        /\ UNCHANGED <<phase, checkout, artifacts, manifest, failed, todo, report>>
    BY <1>5 DEF SendOperation
  <2>2. \A n \in Names : Settled(n) /\ n # name => Settled(n)'
    BY <1>1, <1>2, <2>1, SettledByCall
  <2>3. ManifestInv'
    BY <1>1, <2>1 DEF ManifestInv, Replacing
  <2>4. \A n \in Targets : Unhandled(n) => Unhandled(n)'
    BY <1>1, <2>1 DEF Unhandled, Replacing
  <2>5. \A n \in Targets : Reported(n)'
    BY <1>1, <1>2, <2>1, <2>2, <2>4, TargetsAreNames DEF ReportInv, Reported
  <2>6. RunningInv'
    <3>1. call' = [cuts |-> <<cut>>, at |-> 1, draft |-> storage]
      BY <2>1 DEF DiamondCut, CallOf
    <3>2. \A j \in 1..Len(cut.functionSelectors) : ~(j < 1)
      OBVIOUS
    <3>3. call'.cuts = <<cut>> /\ call'.at = 1 /\ <<cut>> # <<>>
      BY <3>1
    <3> QED
      BY <2>1, <3>1, <3>2, <3>3 DEF RunningInv
  <2> QED
    BY <2>1, <2>3, <2>5, <2>6 DEF HandledInv, ReportInv
<1> QED
  BY <1>3, <1>4, <1>5

\* A call under way keeps what is known of the one waited for.
LEMMA RunningContinues ==
    ASSUME UpgradeInv, RunningInv, waiting, manifest # <<>>, DiamondRuns,
           UNCHANGED <<manifest, mempool, waiting>>
    PROVE  RunningInv'
<1> DEFINE cut == Head(manifest).cut
<1>1. /\ call \in Calls /\ call # NoCall /\ call.cuts # <<>>
      /\ call.at \in Nat \ {0} /\ call.draft \in Storages
      /\ cut \in Cuts /\ manifest \in Seq(Operations)
  BY TailOfManifest
     DEF UpgradeInv, UpgradeTypeOK, DiamondInv, DiamondTypeOK, Calls, DiamondRuns,
         AddFunction, ReplaceFunction, RemoveFunction, NextCut, CutIs
<1>2. /\ mempool = <<>> /\ call.cuts = <<cut>> /\ Cut = cut
      /\ cut.action # "Remove" =>
            \A j \in 1..Len(cut.functionSelectors) :
               j < call.at => call.draft.facetOf[cut.functionSelectors[j]] = cut.facet
  BY <1>1 DEF RunningInv, Cut
<1>3. cut.functionSelectors \in Seq(Selectors)
  BY <1>1 DEF Cuts
<1> HIDE DEF cut
<1>4. SUFFICES /\ call'.cuts \in {<<>>, <<cut>>}
               /\ cut.action # "Remove" =>
                     \A j \in 1..Len(cut.functionSelectors) :
                        (call'.cuts = <<>> \/ j < call'.at) =>
                            call'.draft.facetOf[cut.functionSelectors[j]] = cut.facet
  BY <1>2 DEF RunningInv, cut
<1>5. ASSUME NEW d, cut.action # "Remove",
             call.at <= Len(cut.functionSelectors),
             d.facetOf = [call.draft.facetOf EXCEPT ![Selector] = cut.facet],
             Continue(d)
      PROVE  /\ call'.cuts = <<cut>>
             /\ \A j \in 1..Len(cut.functionSelectors) :
                   j < call'.at => call'.draft.facetOf[cut.functionSelectors[j]] = cut.facet
  <2>1. call' = [cuts |-> <<cut>>, at |-> call.at + 1, draft |-> d]
    BY <1>1, <1>2, <1>5 DEF Continue, Calls
  <2>2. /\ call.draft.facetOf \in [Selectors -> Facets \cup {NoFacet}]
        /\ Selector = cut.functionSelectors[call.at] /\ Selector \in Selectors
    BY <1>1, <1>2, <1>3, <1>5 DEF Storages, Selector
  <2>3. ASSUME NEW j \in 1..Len(cut.functionSelectors), j < call.at + 1
        PROVE  d.facetOf[cut.functionSelectors[j]] = cut.facet
    <3>1. cut.functionSelectors[j] \in Selectors
      BY <1>3
    <3>2. CASE j = call.at
      BY <1>5, <2>2, <3>2
    <3>3. CASE j # call.at
      <4>1. j < call.at
        BY <1>1, <2>3, <3>3
      <4> QED
        BY <1>2, <1>5, <2>2, <3>1, <4>1
    <3> QED
      BY <3>2, <3>3
  <2> QED
    BY <2>1, <2>3
<1>6. <<cut>> # <<>>
  OBVIOUS
<1>7. CASE AddFunction
  <2>1. /\ cut.action # "Remove" /\ call.at <= Len(cut.functionSelectors)
        /\ Continue(Added(call.draft, cut.facet, Selector))
    BY <1>2, <1>7 DEF AddFunction, CutIs
  <2>2. Added(call.draft, cut.facet, Selector).facetOf
           = [call.draft.facetOf EXCEPT ![Selector] = cut.facet]
    BY DEF Added
  <2> QED
    BY <1>5, <1>6, <2>1, <2>2
<1>8. CASE ReplaceFunction
  <2>1. /\ cut.action # "Remove" /\ call.at <= Len(cut.functionSelectors)
        /\ Continue(Replaced(call.draft, cut.facet, Selector))
    BY <1>2, <1>8 DEF ReplaceFunction, CutIs
  <2>2. Replaced(call.draft, cut.facet, Selector).facetOf
           = [call.draft.facetOf EXCEPT ![Selector] = cut.facet]
    BY <1>1 DEF Replaced, Storages
  <2> QED
    BY <1>5, <1>6, <2>1, <2>2
<1>9. CASE RemoveFunction
  <2>1. cut.action = "Remove" /\ call'.cuts = call.cuts
    BY <1>1, <1>2, <1>9 DEF RemoveFunction, CutIs, Continue, Calls
  <2> QED
    BY <1>2, <2>1
<1>10. CASE NextCut
  <2>1. call' = [cuts |-> Tail(call.cuts), at |-> 1, draft |-> call.draft]
    BY <1>1, <1>10 DEF NextCut, Calls
  <2>2. call'.cuts = <<>>
    BY <1>2, <2>1
  <2>3. call.at > Len(cut.functionSelectors)
    BY <1>2, <1>10 DEF NextCut
  <2>4. \A j \in 1..Len(cut.functionSelectors) : j < call.at
    BY <1>1, <1>3, <2>3
  <2> QED
    BY <1>2, <2>1, <2>2, <2>4
<1> QED
  BY <1>7, <1>8, <1>9, <1>10 DEF DiamondRuns

\* The operation waited for has succeeded: its facet is settled.
LEMMA SettledByOperation ==
    ASSUME OwnFunctions, HandledInv, waiting, Commit, UNCHANGED mempool,
           NEW n \in Names, phase # "remove", n = Head(manifest).facetName
    PROVE  Settled(n)'
<1> DEFINE cut == Head(manifest).cut
<1>1. /\ UpgradeInv /\ ManifestInv /\ manifest # <<>> /\ pc = "waiting"
      /\ phase \in {"replace", "remove", "add"}
  BY DEF HandledInv, UpgradeInv, ControlInv, UpgradeTypeOK
<1>2. /\ cut.functionSelectors = NewABI[n] /\ cut.action # "Remove"
      /\ cut.facet = NewFacet[n]
  BY <1>1, HeadIsUnhandled DEF ABI, VersionOf, ActionOf
<1>3. /\ mempool = <<>>
      /\ \A j \in 1..Len(NewABI[n]) : call.draft.facetOf[NewABI[n][j]] = NewFacet[n]
  BY <1>2 DEF HandledInv, RunningInv, Commit
<1> QED
  BY <1>3 DEF Commit, Settled, Installed, Declared

LEMMA EndReports ==
    ASSUME OwnFunctions, HandledInv, EndCall
    PROVE  ManifestInv' /\ ReportInv' /\ pc' # "waiting"
<1>1. /\ UpgradeInv /\ ManifestInv /\ ReportInv /\ waiting = (pc = "waiting")
      /\ waiting => manifest # <<>>
  BY DEF HandledInv, UpgradeInv, ControlInv
<1>2. DiamondEnds /\ UNCHANGED mempool
  BY DEF EndCall, DiamondEnds
<1>3. \A n \in Names : Settled(n) => Settled(n)'
  BY <1>2, SettledAfterCall
<1>4. CASE Commit /\ waiting /\ CompleteOperation
  <2>1. \A n \in Names :
           Settled(n) \/ (phase # "remove" /\ n = Head(manifest).facetName) => Settled(n)'
    BY <1>2, <1>3, <1>4, SettledByOperation
  <2> QED
    BY <1>1, <1>4, <2>1, SuccessIsReported DEF CompleteOperation
<1>5. CASE Revert /\ waiting /\ FailOperation
  BY <1>1, <1>3, <1>5, FailureIsReported DEF FailOperation
<1>6. CASE ~waiting /\ UNCHANGED scriptVars
  BY <1>1, <1>3, <1>6, ReportedUnlessChanged DEF scriptVars
<1> QED
  BY <1>4, <1>5, <1>6 DEF EndCall

LEMMA ChainReports ==
    ASSUME OwnFunctions, HandledInv, UpgradeInv',
           RunCall \/ EndCall \/ Mine \/ HandOver \/ UNCHANGED upgradeVars
    PROVE  HandledInv'
<1>1. /\ UpgradeInv /\ ManifestInv /\ RunningInv /\ ReportInv
      /\ waiting => manifest # <<>>
  BY DEF HandledInv, UpgradeInv, ControlInv
<1>2. CASE EndCall
  BY <1>2, EndReports, NothingRuns DEF HandledInv
<1>3. CASE RunCall \/ Mine \/ HandOver \/ UNCHANGED upgradeVars
  <2>1. UNCHANGED scriptVars /\ waiting' = waiting
    BY <1>3 DEF RunCall, Mine, HandOver, upgradeVars, chainVars
  <2>2. UNCHANGED upgradeVars => UNCHANGED <<storage, call, mempool>>
    BY DEF upgradeVars, diamondVars, chainVars
  <2>3. \A n \in Names : Settled(n) => Settled(n)'
    BY <1>1, <1>3, <2>2, SettledByChain, SettledUnlessChanged
  <2>4. ManifestInv' /\ ReportInv'
    BY <1>1, <2>1, <2>3, ReportedUnlessChanged
  <2>5. RunningInv'
    <3>1. manifest' = manifest
      BY <2>1 DEF scriptVars
    <3>2. CASE ~waiting
      BY <2>1, <3>2 DEF RunningInv
    <3>3. CASE waiting /\ RunCall
      BY <1>1, <3>1, <3>3, RunningContinues DEF RunCall, chainVars
    <3>4. CASE waiting /\ Mine
      BY <1>1, <3>4 DEF Mine, RunningInv
    <3>5. CASE HandOver \/ UNCHANGED upgradeVars
      <4>1. UNCHANGED <<call, mempool>>
        BY <2>2, <3>5 DEF HandOver, TransferOwnership, chainVars
      <4> QED
        BY <1>1, <2>1, <3>1, <4>1 DEF RunningInv
    <3> QED
      BY <1>3, <3>2, <3>3, <3>4, <3>5
  <2> QED
    BY <2>4, <2>5 DEF HandledInv
<1> QED
  BY <1>2, <1>3

\* When the script is through, every facet is left to the operator or in place,
\* and stays in place while late transactions are mined, provided no function
\* moves from one facet to another.
THEOREM UpgradeHandled ==
    ASSUME OwnFunctions
    PROVE  UpgradeSpec => []HandledOrReported
<1>1. UpgradeInit => HandledInv
  <2>1. ASSUME UpgradeInit PROVE ManifestInv /\ RunningInv /\ ReportInv
    BY <2>1 DEF UpgradeInit, ManifestInv, RunningInv, ReportInv, Replacing
  <2> QED
    BY <2>1, UpgradeStarts DEF HandledInv
<1>2. HandledInv /\ [UpgradeNext]_upgradeVars => HandledInv'
  <2>1. ASSUME HandledInv, [UpgradeNext]_upgradeVars PROVE HandledInv'
    <3>1. UpgradeInv'
      BY <2>1, UpgradeContinues DEF HandledInv
    <3> QED
      BY <2>1, <3>1, HandlingReports, ExecutingReports, ChainReports
         DEF UpgradeNext, ScriptNext
  <2> QED
    BY <2>1
<1>3. HandledInv => HandledOrReported
  <2>1. ASSUME HandledInv, pc = "done", NEW i \in 1..Len(FacetsToReplace)
        PROVE  LET n == FacetsToReplace[i] IN
               \/ report[n] = "manual"
               \/ report[n] \in {"complete", "added"} /\ Installed(n)
    <3>1. Reported(FacetsToReplace[i])
      BY <2>1 DEF HandledInv, ReportInv, Targets
    <3>2. ~Unhandled(FacetsToReplace[i])
      BY <2>1 DEF HandledInv, ManifestInv, Unhandled, Replacing
    <3> QED
      BY <3>1, <3>2 DEF Reported, Settled
  <2> QED
    BY <2>1 DEF HandledOrReported
<1> QED
  BY <1>1, <1>2, <1>3, PTL DEF UpgradeSpec
=============================================================================
