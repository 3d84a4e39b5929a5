-------------------------------- MODULE PKPNFT -------------------------------
(***************************************************************************)
(* PKPNFT (PKPNFTFacet.sol): the tokens whose owners command the PKPs.     *)
(* A mint derives the next key, routes it with PubkeyRouter and creates    *)
(* the token, all in one transaction.  The key id hashes the number of     *)
(* tokens and the block, so it is a pair of the two.                       *)
(***************************************************************************)
EXTENDS PubkeyRouter

CONSTANTS
    Users, Self,      \* owners; Self is the address of the token's own PKP
    NoOwner,          \* address(0)
    ClaimIds,         \* key ids that users claim with signatures of nodes
    MaxMints,         \* bound: tokens minted
    MaxBlock          \* bound: blocks

Owners == Users \cup {Self}

ASSUME TokensAssumption ==
    /\ MaxMints \in Nat /\ MaxBlock \in Nat
    /\ NoOwner \notin Owners
    /\ KeyIds = ((1..MaxMints) \X (1..MaxBlock)) \cup ClaimIds
    /\ ClaimIds \cap ((1..MaxMints) \X (1..MaxBlock)) = {}

VARIABLES
    ownerOf,          \* of the ERC721
    block

nftVars == <<ownerOf, block>>

NftInit ==
    /\ ownerOf = [t \in Tokens |-> NoOwner]
    /\ block = 1

Exists(t) == ownerOf[t] # NoOwner
\* A token that was minted and is no more.
Burned(t) == IsRouted(t) /\ ~Exists(t)

TotalSupply == Cardinality({t \in Tokens : Exists(t)})
NextDerivedKeyId == <<TotalSupply + 1, block>>

\* The key that getDerivedPubkey gives for an id; any root keys will do.
CanDerive == rootKeys # {}
DerivedToken(id) == TokenOf(id, rootKeys)

\* currentValidatorCountForConsensus
ConsensusCount ==
    IF Cardinality(validators) = 2 THEN 1
    ELSE (2 * Cardinality(validators)) \div 3

\* checkNodeSignatures of a list of `count' signatures by the nodes `signers':
\* each must be by an active validator, and there must be enough of them.
CheckNodeSignatures(signers, count) ==
    /\ count >= ConsensusCount
    /\ \A n \in signers : IsActiveValidatorByNodeAddress(n)

\* Bounds of the model.
WithinBounds(t) ==
    t \in Tokens /\ Cardinality({x \in Tokens : IsRouted(x)}) < MaxMints

\* routeDerivedKey and _mintWithoutValueCheck; `owner' is NoOwner for a token
\* that is burned by the end of the call.
Mint(t, owner) ==
    /\ CanDerive
    /\ WithinBounds(t)
    /\ SetRoutingData(t)
    /\ ownerOf' = [ownerOf EXCEPT ![t] = owner]
    /\ UNCHANGED block

\* The token of mintNext, whoever it goes to.
MintNext(owner) == Mint(DerivedToken(NextDerivedKeyId), owner)

ClaimAndMint(id, owner) ==
    /\ \E signers \in SUBSET Nodes : \E count \in Cardinality(signers)..Cardinality(Nodes) :
          (signers = {} => count = 0) /\ CheckNodeSignatures(signers, count)
    /\ Mint(DerivedToken(id), owner)

\* ERC721: the owner, or who it approved, sends the token or burns it.
Transfer(t, to) ==
    /\ Exists(t)
    /\ ownerOf' = [ownerOf EXCEPT ![t] = to]
    /\ UNCHANGED <<routerVars, block>>

Burn(t) ==
    /\ Exists(t)
    /\ ownerOf' = [ownerOf EXCEPT ![t] = NoOwner]
    /\ UNCHANGED <<routerVars, block>>

NextBlock ==
    /\ block < MaxBlock
    /\ block' = block + 1
    /\ UNCHANGED <<routerVars, ownerOf>>
=============================================================================
