---------------------------- MODULE DiamondUpgrade ----------------------------
(***************************************************************************)
(* The upgrade of a diamond by scripts/diamondContracts: for each facet a  *)
(* new contract has been deployed, and tryReplaceAllFacets.ts first sends  *)
(* one Replace per facet; where that fails, it checks out the sources of   *)
(* the last deployment, removes the functions they declare, returns to its *)
(* own sources and adds those of the new facet.  Each operation goes       *)
(* through a manifest and is a transaction of its own.                     *)
(*                                                                         *)
(* A request to the chain may fail before the transaction is sent, or      *)
(* after, in which case the transaction waits in the mempool and is mined  *)
(* later, in the order of its account; the script counts both as failed.   *)
(* The script may die at any point; the operator then returns to the new   *)
(* sources and may run it again, with manifests of its own.                *)
(***************************************************************************)
EXTENDS Diamond

CONSTANTS
    Names,            \* contract names of facets
    FacetsToReplace,  \* FACETS_TO_REPLACE, in its order
    WithSha,          \* those with a lastDeployedGitSha
    OldABI, NewABI,   \* the functions a facet declares in either version
    OldFacet, NewFacet,
    Signer,           \* the account of the key given to the script
    MaxFaults,        \* bound: requests that fail
    MaxRuns           \* bound: runs of the script

ASSUME UpgradeAssumption ==
    /\ FacetsToReplace \in Seq(Names)
    /\ OldABI \in [Names -> Seq(Selectors)]
    /\ NewABI \in [Names -> Seq(Selectors)]
    /\ OldFacet \in [Names -> Facets]
    /\ NewFacet \in [Names -> Facets]
    /\ MaxFaults \in Nat /\ MaxRuns \in Nat

VARIABLES
    pc,         \* "idle", "execute", "waiting", "handle" or "done"
    phase,      \* what the manifest is for: "replace", "remove" or "add"
    checkout,   \* the version of the sources: "old" or "new"
    artifacts,  \* the version compiled last
    manifest,   \* the operations still to be executed
    failed,     \* failedDiamondCutOperations of this manifest, by name
    todo,       \* the facets whose replacement failed, still to be handled
    report,     \* by name: what the script has said of the facet
    waiting,    \* the call that runs is the one the script waits for
    mempool,    \* transactions given up by the script
    faults, runs

scriptVars == <<pc, phase, checkout, artifacts, manifest, failed, todo, report>>
chainVars == <<waiting, mempool>>
countVars == <<faults, runs>>
upgradeVars == <<diamondVars, scriptVars, chainVars, countVars>>

Versions == {"old", "new"}
ABI(n, version) == IF version = "new" THEN NewABI[n] ELSE OldABI[n]

\* An entry of a manifest, from the artifacts at hand.
Operation(action, n, version) ==
    [facetName |-> n,
     cut |-> [action |-> action,
              facet |-> IF action = "Remove" THEN NoFacet ELSE NewFacet[n],
              functionSelectors |-> ABI(n, version)]]
Operations == [facetName : Names, cut : Cuts]

\* The diamond as it was deployed: the old facets, added by its constructor.
ConstructorCuts ==
    [i \in 1..Len(FacetsToReplace) |->
        [action |-> "Add", facet |-> OldFacet[FacetsToReplace[i]],
         functionSelectors |-> OldABI[FacetsToReplace[i]]]]

UpgradeInit ==
    /\ DiamondInit(ConstructorCuts)
    /\ owner = Signer
    /\ pc = "idle" /\ phase = "replace"
    /\ checkout = "new" /\ artifacts = "new"
    /\ manifest = <<>> /\ failed = <<>> /\ todo = <<>>
    /\ report = [n \in Names |-> "none"]
    /\ waiting = FALSE /\ mempool = <<>>
    /\ faults = 0 /\ runs = 0

-----------------------------------------------------------------------------
(* tryReplaceAllFacets.ts                                                  *)

\* Compiles, and writes the manifest of all replacements.  The script checks
\* nothing out here and compiles whatever sources it finds: that they are the
\* new ones, also after a run that died with the old ones checked out, is
\* assumed of the operator.
Start ==
    /\ pc \in {"idle", "done"}
    /\ runs < MaxRuns
    /\ call = NoCall
    /\ runs' = runs + 1
    /\ checkout' = "new" /\ artifacts' = "new"
    /\ phase' = "replace"
    /\ manifest' = [i \in 1..Len(FacetsToReplace) |->
                        Operation("Replace", FacetsToReplace[i], artifacts')]
    /\ failed' = <<>> /\ todo' = <<>>
    /\ report' = [n \in Names |-> "none"]
    /\ pc' = "execute"
    /\ UNCHANGED <<diamondVars, chainVars, faults>>

EndReplace ==
    /\ pc = "execute" /\ phase = "replace" /\ manifest = <<>>
    /\ todo' = failed
    /\ pc' = "handle"
    /\ UNCHANGED <<diamondVars, chainVars, countVars,
                   phase, checkout, artifacts, manifest, failed, report>>

Finish ==
    /\ pc = "handle" /\ todo = <<>>
    /\ pc' = "done"
    /\ UNCHANGED <<diamondVars, chainVars, countVars,
                   phase, checkout, artifacts, manifest, failed, todo, report>>

\* "You will have to handle this facet manually."
LeaveToOperator ==
    /\ report' = [report EXCEPT ![Head(todo)] = "manual"]
    /\ todo' = Tail(todo)

NoShaGiven ==
    /\ pc = "handle" /\ todo # <<>> /\ Head(todo) \notin WithSha
    /\ LeaveToOperator
    /\ UNCHANGED <<diamondVars, chainVars, countVars,
                   pc, phase, checkout, artifacts, manifest, failed>>

\* removeFacet: the functions are those the old sources declare.
BeginRemove ==
    /\ pc = "handle" /\ todo # <<>> /\ Head(todo) \in WithSha
    /\ checkout' = "old" /\ artifacts' = "old"
    /\ phase' = "remove"
    /\ manifest' = <<Operation("Remove", Head(todo), artifacts')>>
    /\ failed' = <<>>
    /\ pc' = "execute"
    /\ UNCHANGED <<diamondVars, chainVars, countVars, todo, report>>

\* The checkout or the compilation fails: the error is returned, and the
\* original branch checked out again.
RemoveThrows ==
    /\ pc = "handle" /\ todo # <<>> /\ Head(todo) \in WithSha
    /\ faults < MaxFaults
    /\ faults' = faults + 1
    /\ checkout' = "new"
    /\ artifacts' \in {artifacts, "old"}
    /\ LeaveToOperator
    /\ UNCHANGED <<diamondVars, chainVars, runs, pc, phase, manifest, failed>>

\* A mutated form: the contracts are not compiled again for the addition.
EndRemoveUncompiled ==
    /\ pc = "execute" /\ phase = "remove" /\ manifest = <<>>
    /\ checkout' = "new" /\ artifacts' = artifacts
    /\ phase' = "add"
    /\ manifest' = <<Operation("Add", Head(todo), artifacts')>>
    /\ failed' = <<>>
    /\ UNCHANGED <<diamondVars, chainVars, countVars, pc, todo, report>>

\* Whether or not the removal failed, which _removeFacet does not look at.
EndRemove ==
    /\ pc = "execute" /\ phase = "remove" /\ manifest = <<>>
    /\ checkout' = "new" /\ artifacts' = "new"
    /\ phase' = "add"
    /\ manifest' = <<Operation("Add", Head(todo), artifacts')>>
    /\ failed' = <<>>
    /\ UNCHANGED <<diamondVars, chainVars, countVars, pc, todo, report>>

\* A mutated form: the failed operations are not looked at, as in the removal.
EndAddUnseen ==
    /\ pc = "execute" /\ phase = "add" /\ manifest = <<>>
    /\ report' = [report EXCEPT ![Head(todo)] = "added"]
    /\ todo' = Tail(todo)
    /\ pc' = "handle"
    /\ UNCHANGED <<diamondVars, chainVars, countVars,
                   phase, checkout, artifacts, manifest, failed>>

EndAdd ==
    /\ pc = "execute" /\ phase = "add" /\ manifest = <<>>
    /\ \/ failed = <<>>
          /\ report' = [report EXCEPT ![Head(todo)] = "added"]
          /\ todo' = Tail(todo)
       \/ failed # <<>> /\ LeaveToOperator
    /\ pc' = "handle"
    /\ UNCHANGED <<diamondVars, chainVars, countVars,
                   phase, checkout, artifacts, manifest, failed>>

-----------------------------------------------------------------------------
(* executeDiamondCutOperations                                             *)

\* A mutated form: the entry of the manifest is kept instead of its name.
FailOperationAsEntry ==
    /\ failed' = Append(failed, Head(manifest))
    /\ manifest' = Tail(manifest)
    /\ pc' = "execute"
    /\ UNCHANGED <<phase, checkout, artifacts, todo, report>>

FailOperation ==
    /\ failed' = Append(failed, Head(manifest).facetName)
    /\ manifest' = Tail(manifest)
    /\ pc' = "execute"
    /\ UNCHANGED <<phase, checkout, artifacts, todo, report>>

\* "Operation complete on ..."
CompleteOperation ==
    /\ report' = IF phase = "replace"
                 THEN [report EXCEPT ![Head(manifest).facetName] = "complete"]
                 ELSE report
    /\ manifest' = Tail(manifest)
    /\ pc' = "execute"
    /\ UNCHANGED <<phase, checkout, artifacts, failed, todo>>

MayExecute == pc = "execute" /\ manifest # <<>> /\ call = NoCall

\* The estimation of gas runs the call on the storage of the moment.
WouldRevert(cut) ==
    \/ owner # Signer
    \/ cut.functionSelectors = <<>>
    \/ \E i \in 1..Len(cut.functionSelectors) :
          LET s == cut.functionSelectors[i] IN
          \/ cut.action = "Add" /\ ~MayAdd(storage, cut.facet, s)
          \/ cut.action = "Replace" /\ ~MayReplace(storage, cut.facet, s)
          \/ cut.action = "Remove" /\ ~MayRemove(storage, cut.facet, s)

SendOperation ==
    /\ MayExecute /\ mempool = <<>>
    /\ DiamondCut(Signer, <<Head(manifest).cut>>)
    /\ waiting' = TRUE
    /\ pc' = "waiting"
    /\ UNCHANGED <<countVars, mempool, phase, checkout, artifacts, manifest,
                   failed, todo, report>>

\* Estimated to fail, the transaction is not sent.
RefuseOperation ==
    /\ MayExecute
    /\ WouldRevert(Head(manifest).cut)
    /\ FailOperation
    /\ UNCHANGED <<diamondVars, chainVars, countVars>>

DropRequest ==
    /\ MayExecute /\ faults < MaxFaults
    /\ faults' = faults + 1
    /\ FailOperation
    /\ UNCHANGED <<diamondVars, chainVars, runs>>

\* The transaction is sent and the wait for it fails.
LoseAnswer ==
    /\ MayExecute /\ faults < MaxFaults
    /\ ~WouldRevert(Head(manifest).cut)
    /\ faults' = faults + 1
    /\ mempool' = Append(mempool, Head(manifest).cut)
    /\ FailOperation
    /\ UNCHANGED <<diamondVars, waiting, runs>>

-----------------------------------------------------------------------------
(* The chain, and the operator                                             *)

RunCall ==
    /\ DiamondRuns
    /\ UNCHANGED <<scriptVars, chainVars, countVars>>

EndCall ==
    /\ \/ Commit /\ waiting /\ CompleteOperation
       \/ Revert /\ waiting /\ FailOperation
       \/ DiamondEnds /\ ~waiting /\ UNCHANGED scriptVars
    /\ waiting' = FALSE
    /\ UNCHANGED <<mempool, countVars>>

\* What was given up is mined after all, or refused by a diamond that has
\* another owner by then.
Mine ==
    /\ mempool # <<>> /\ call = NoCall
    /\ \/ DiamondCut(Signer, <<Head(mempool)>>)
       \/ owner # Signer /\ UNCHANGED diamondVars
    /\ mempool' = Tail(mempool)
    /\ UNCHANGED <<scriptVars, waiting, countVars>>

Crash ==
    /\ pc \in {"execute", "waiting", "handle"}
    /\ pc' = "idle"
    /\ manifest' = <<>> /\ failed' = <<>> /\ todo' = <<>>
    /\ waiting' = FALSE
    /\ UNCHANGED <<diamondVars, phase, checkout, artifacts, report, mempool, countVars>>

HandOver ==
    /\ \E a, to \in Owners : TransferOwnership(a, to)
    /\ UNCHANGED <<scriptVars, chainVars, countVars>>

ScriptNext ==
    \/ Start \/ EndReplace \/ Finish
    \/ NoShaGiven \/ BeginRemove \/ RemoveThrows \/ EndRemove \/ EndAdd
    \/ SendOperation \/ RefuseOperation \/ DropRequest \/ LoseAnswer

UpgradeNext == ScriptNext \/ RunCall \/ EndCall \/ Mine \/ Crash \/ HandOver

UpgradeSpec == UpgradeInit /\ [][UpgradeNext]_upgradeVars

-----------------------------------------------------------------------------
UpgradeTypeOK ==
    /\ pc \in {"idle", "execute", "waiting", "handle", "done"}
    /\ phase \in {"replace", "remove", "add"}
    /\ checkout \in Versions /\ artifacts \in Versions
    /\ manifest \in Seq(Operations)
    /\ failed \in Seq(Names) /\ todo \in Seq(Names)
    /\ report \in [Names -> {"none", "complete", "added", "manual"}]
    /\ waiting \in BOOLEAN
    /\ mempool \in Seq(Cuts)
    /\ faults \in 0..MaxFaults /\ runs \in 0..MaxRuns

\* Every variable of the diamond and of the script has its type.
TypeOK == DiamondTypeOK /\ UpgradeTypeOK

Declared(abi) == {abi[i] : i \in 1..Len(abi)}

\* Facet f is a contract that implements function s.
Implements(f, s) ==
    \E n \in Names : \/ f = OldFacet[n] /\ s \in Declared(OldABI[n])
                     \/ f = NewFacet[n] /\ s \in Declared(NewABI[n])

\* The diamond never forwards a function to a contract that does not have it,
\* whatever fails, is mined late or is begun again while the sources change
\* under the script.
RoutedToWhatImplementsIt ==
    \A s \in Selectors : storage.facetOf[s] # NoFacet => Implements(storage.facetOf[s], s)

Installed(n) == \A s \in Declared(NewABI[n]) : storage.facetOf[s] = NewFacet[n]

\* When the script is through, it has named every facet, and those it has not
\* left to the operator are installed, then and while late transactions are
\* mined: a removal that failed unseen is noticed by the addition.
HandledOrReported ==
    pc = "done" => \A i \in 1..Len(FacetsToReplace) :
        LET n == FacetsToReplace[i] IN
        \/ report[n] = "manual"
        \/ report[n] \in {"complete", "added"} /\ Installed(n)
=============================================================================
