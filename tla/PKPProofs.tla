------------------------------ MODULE PKPProofs ------------------------------
(***************************************************************************)
(* The contracts of the PKPs for every set of nodes, validators, tokens,   *)
(* owners and auth methods, and any number of mints and blocks.            *)
(***************************************************************************)
EXTENDS PKPProperties, TLAPS

\* Every step votes, mints a token, changes the permissions or the owner of
\* a token that exists, or none of these.
Votes == \E n \in Nodes, list \in KeyLists : VoteForRootKeys(n, list)
MintsWith(t, adds, o) == t[2] = rootKeys /\ Mint(t, o) /\ Permit(t, adds, {})
Mints == \E t \in Tokens, adds \in SUBSET Entries, o \in Owners \cup {NoOwner} :
            MintsWith(t, adds, o)
Moves == \E t \in Tokens, o \in Owners \cup {NoOwner} :
            /\ Exists(t)
            /\ ownerOf' = [ownerOf EXCEPT ![t] = o]
            /\ UNCHANGED <<routerVars, block, permissionVars>>
Permits == \E t \in Tokens, adds \in SUBSET Entries, removes \in SUBSET AuthMethods :
            /\ Exists(t) /\ Permit(t, adds, removes)
            /\ UNCHANGED <<routerVars, nftVars>>
SetsScopes == \E t \in Tokens, scopes \in SUBSET (AuthMethods \X Scopes) :
            /\ Exists(t)
            /\ permittedAuthMethodScopes' =
                  [permittedAuthMethodScopes EXCEPT ![t] = scopes]
            /\ UNCHANGED <<routerVars, nftVars, permittedAuthMethods,
                           authMethodToPkpIds, userPubkey>>
Others ==
    /\ validators' = validators \/ validators' \in ValidatorSets
    /\ block' = block \/ (block < MaxBlock /\ block' = block + 1)
    /\ UNCHANGED <<rootKeys, voted, pubkeys, ownerOf, permissionVars>>

\* The six kinds of steps, which the proofs below go by.
LEMMA Steps ==
    ASSUME TypeOK, [Next]_vars
    PROVE  \/ Votes /\ UNCHANGED <<nftVars, permissionVars>>
           \/ Mints
           \/ Moves
           \/ Permits
           \/ SetsScopes
           \/ Others
<1>1. CASE RouterNext /\ UNCHANGED <<nftVars, permissionVars>>
  BY <1>1 DEF RouterNext, Votes, Others, AdvanceEpoch, nftVars
<1>2. CASE NextBlock /\ UNCHANGED permissionVars
  BY <1>2 DEF NextBlock, Others, routerVars
<1>3. CASE UNCHANGED vars
  BY <1>3 DEF vars, Others, routerVars, nftVars
<1>4. CASE MintingNext
  <2>1. \A t, o : Mint(t, o) => t \in Tokens
    BY DEF Mint, WithinBounds
  <2>2. Additions \subseteq SUBSET Entries
    BY BatchesAssumption DEF Additions
  <2>3. \A action \in Actions : {ActionEntry(action)} \in SUBSET Entries
    BY PermissionsAssumption DEF ActionEntry, Entries
  <2>7. \A id : DerivedToken(id)[2] = rootKeys
    BY DEF DerivedToken, TokenOf
  <2>4. ASSUME NEW adds \in Additions, NEW o \in Owners, MintNextAndAddAuthMethods(adds, o)
        PROVE  Mints
    BY <2>7, <2>1, <2>2, <2>4 DEF MintNextAndAddAuthMethods, MintNext, Mints, MintsWith
  <2>5. ASSUME NEW action \in Actions, MintGrantAndBurnNext(action) PROVE Mints
    BY <2>7, <2>1, <2>3, <2>5 DEF MintGrantAndBurnNext, MintNext, Mints, MintsWith
  <2>6. ASSUME NEW id \in ClaimIds, NEW adds \in Additions, NEW o \in Owners,
               ClaimAndMintAndAddAuthMethods(id, adds, o)
        PROVE  Mints
    BY <2>7, <2>1, <2>2, <2>6 DEF ClaimAndMintAndAddAuthMethods, ClaimAndMint, Mints, MintsWith
  <2> QED
    BY <1>4, <2>4, <2>5, <2>6 DEF MintingNext
<1>5. ASSUME NEW t \in Tokens, TokenNext(t)
      PROVE  Moves \/ Permits \/ SetsScopes
  <2>1. CASE \E o \in Owners : Transfer(t, o) /\ UNCHANGED permissionVars
    BY <2>1 DEF Transfer, Moves
  <2>2. CASE Burn(t) /\ UNCHANGED permissionVars
    BY <2>2 DEF Burn, Moves
  <2>3. ASSUME NEW b \in Batches, BatchAddRemoveAuthMethods(t, b[1], b[2]) PROVE Permits
    <3>1. b[1] \in SUBSET Entries /\ b[2] \in SUBSET AuthMethods
      BY BatchesAssumption
    <3> QED
      BY <2>3, <3>1 DEF BatchAddRemoveAuthMethods, OnlyPKPOwner, Permits
  <2>4. ASSUME NEW a \in AuthMethods, NEW x \in Scopes,
               \/ AddPermittedAuthMethodScope(t, a, x)
               \/ RemovePermittedAuthMethodScope(t, a, x)
        PROVE  SetsScopes
    <3>1. permittedAuthMethodScopes[t] \in SUBSET (AuthMethods \X Scopes)
      BY DEF TypeOK
    <3>2. /\ permittedAuthMethodScopes[t] \cup {<<a, x>>} \in SUBSET (AuthMethods \X Scopes)
          /\ permittedAuthMethodScopes[t] \ {<<a, x>>} \in SUBSET (AuthMethods \X Scopes)
      BY <3>1
    <3> QED
      BY <2>4, <3>2
         DEF AddPermittedAuthMethodScope, RemovePermittedAuthMethodScope, OnlyPKPOwner,
             SetsScopes
  <2> QED
    BY <1>5, <2>1, <2>2, <2>3, <2>4 DEF TokenNext
<1> QED
  BY <1>1, <1>2, <1>3, <1>4, <1>5 DEF Next

-----------------------------------------------------------------------------
\* Type correctness

LEMMA PermitType ==
    ASSUME TypeOK, NEW t \in Tokens, NEW adds \in SUBSET Entries,
           NEW removes \in SUBSET AuthMethods, Permit(t, adds, removes)
    PROVE  /\ permittedAuthMethods' \in [Tokens -> SUBSET AuthMethods]
           /\ authMethodToPkpIds' \in [AuthMethods -> SUBSET Tokens]
           /\ permittedAuthMethodScopes' \in [Tokens -> SUBSET (AuthMethods \X Scopes)]
           /\ userPubkey' \in [AuthMethods -> UserPubkeys \cup {NoPubkey}]
<1>1. MethodsOf(adds) \subseteq AuthMethods
  BY DEF MethodsOf, Entries
<1>2. permittedAuthMethods' \in [Tokens -> SUBSET AuthMethods]
  <2>1. (permittedAuthMethods[t] \cup MethodsOf(adds)) \ removes \in SUBSET AuthMethods
    BY <1>1 DEF TypeOK
  <2> QED
    BY <2>1 DEF Permit, TypeOK
<1>3. authMethodToPkpIds' \in [AuthMethods -> SUBSET Tokens]
  BY DEF Permit, Index, TypeOK
<1>4. permittedAuthMethodScopes' \in [Tokens -> SUBSET (AuthMethods \X Scopes)]
  <2>1. ASSUME NEW x \in adds PROVE {x.method} \X x.scopes \subseteq AuthMethods \X Scopes
    BY DEF Entries
  <2>2. UNION {{x.method} \X x.scopes : x \in adds} \in SUBSET (AuthMethods \X Scopes)
    BY <2>1
  <2> QED
    BY <2>2 DEF Permit, TypeOK
<1>5. userPubkey' \in [AuthMethods -> UserPubkeys \cup {NoPubkey}]
  <2>1. ASSUME NEW a \in AuthMethods, \E x \in adds : x.method = a
        PROVE  (CHOOSE x \in adds : x.method = a).userPubkey \in UserPubkeys \cup {NoPubkey}
    <3>1. (CHOOSE x \in adds : x.method = a) \in adds
      BY <2>1
    <3> QED
      BY <3>1 DEF Entries
  <2> QED
    BY <2>1 DEF Permit, TypeOK
<1> QED
  BY <1>2, <1>3, <1>4, <1>5

LEMMA StepType == TypeOK /\ [Next]_vars => TypeOK'
<1> SUFFICES ASSUME TypeOK, [Next]_vars PROVE TypeOK'
  OBVIOUS
<1>1. CASE Votes /\ UNCHANGED <<nftVars, permissionVars>>
  <2>1. PICK n \in Nodes, list \in KeyLists : VoteForRootKeys(n, list)
    BY <1>1 DEF Votes
  <2>2. rootKeys' \subseteq RootKeys
    BY <2>1, KeyListsAssumption DEF VoteForRootKeys, Registered
  <2>3. voted' \in [RootKeys -> SUBSET Nodes]
    BY <2>1 DEF VoteForRootKeys, TypeOK
  <2> QED
    BY <1>1, <2>1, <2>2, <2>3 DEF VoteForRootKeys, nftVars, permissionVars, TypeOK
<1>2. CASE Mints
  <2>1. PICK t \in Tokens, adds \in SUBSET Entries, o \in Owners \cup {NoOwner} :
           MintsWith(t, adds, o)
    BY <1>2 DEF Mints
  <2>2. /\ ownerOf' \in [Tokens -> Owners \cup {NoOwner}]
        /\ pubkeys' \in [Tokens -> SUBSET RootKeys]
        /\ UNCHANGED <<rootKeys, voted, validators, block>>
    BY <2>1 DEF MintsWith, Mint, SetRoutingData, CanDerive, TypeOK
  <2> QED
    BY <2>1, <2>2, PermitType DEF MintsWith, TypeOK
<1>3. CASE Moves
  BY <1>3 DEF Moves, TypeOK, routerVars, permissionVars
<1>4. CASE Permits
  BY <1>4, PermitType DEF Permits, TypeOK, routerVars, nftVars
<1>5. CASE SetsScopes
  BY <1>5 DEF SetsScopes, TypeOK, routerVars, nftVars
<1>6. CASE Others
  <2>1. block' \in 1..MaxBlock \cup {1}
    BY <1>6, TokensAssumption DEF Others, TypeOK
  <2> QED
    BY <1>6, <2>1, NodesAssumption DEF Others, TypeOK, permissionVars
<1> QED
  BY <1>1, <1>2, <1>3, <1>4, <1>5, <1>6, Steps

LEMMA InitType == Init => TypeOK
  BY NodesAssumption DEF Init, RouterInit, NftInit, TypeOK, NotRouted

\* The storage of the three contracts holds what its fields say.
THEOREM PKPTypeCorrect == Spec => []TypeOK
<1> QED
  BY InitType, StepType, PTL DEF Spec

-----------------------------------------------------------------------------
\* The keys of the PKPs

KeysInv == TypeOK /\ KeysAreOfTheRoots

LEMMA KeysNext == KeysInv /\ [Next]_vars => KeysInv'
<1> SUFFICES ASSUME KeysInv, [Next]_vars PROVE KeysAreOfTheRoots'
  BY StepType DEF KeysInv
<1> USE DEF KeysAreOfTheRoots
<1>1. TypeOK /\ KeysAreOfTheRoots
  BY DEF KeysInv
<1>2. CASE Votes /\ UNCHANGED <<nftVars, permissionVars>>
  <2>1. rootKeys = {} /\ UNCHANGED pubkeys
    BY <1>2 DEF Votes, VoteForRootKeys
  <2>2. \A t \in Tokens : ~IsRouted(t)
    BY <1>1, <2>1 DEF IsRouted, NotRouted
  <2> QED
    BY <1>1, <1>2, <2>1, <2>2 DEF IsRouted, Exists, nftVars, permissionVars
<1>3. CASE Mints
  <2>1. PICK t \in Tokens, adds \in SUBSET Entries, o \in Owners \cup {NoOwner} :
           MintsWith(t, adds, o)
    BY <1>3 DEF Mints
  <2>2. /\ rootKeys # {} /\ t[2] = rootKeys /\ UNCHANGED rootKeys
        /\ pubkeys' = [pubkeys EXCEPT ![t] = rootKeys]
        /\ ownerOf' = [ownerOf EXCEPT ![t] = o]
    BY <2>1 DEF MintsWith, Mint, SetRoutingData, CanDerive
  <2>3. pubkeys'[t] = rootKeys /\ rootKeys' # NotRouted
    BY <1>1, <2>2 DEF TypeOK, NotRouted
  <2>4. ASSUME NEW u \in Tokens, u # t
        PROVE  /\ pubkeys'[u] = pubkeys[u]
               /\ ownerOf'[u] = ownerOf[u]
               /\ permittedAuthMethods'[u] = permittedAuthMethods[u]
               /\ permittedAuthMethodScopes'[u] = permittedAuthMethodScopes[u]
    BY <1>1, <2>1, <2>2, <2>4 DEF MintsWith, Permit, TypeOK
  <2> QED
    BY <1>1, <2>2, <2>3, <2>4 DEF IsRouted, Exists
<1>4. CASE Moves
  BY <1>1, <1>4 DEF Moves, IsRouted, Exists, TypeOK, routerVars, permissionVars
<1>5. CASE Permits
  BY <1>1, <1>5 DEF Permits, Permit, IsRouted, Exists, TypeOK, routerVars, nftVars
<1>6. CASE SetsScopes
  BY <1>1, <1>6 DEF SetsScopes, IsRouted, Exists, TypeOK, routerVars, nftVars
<1>7. CASE Others
  BY <1>1, <1>7 DEF Others, IsRouted, Exists, permissionVars
<1> QED
  BY <1>2, <1>3, <1>4, <1>5, <1>6, <1>7, Steps DEF KeysInv

\* Every PKP's key is derived from the root keys of the network, and starts
\* without permissions.
THEOREM KeysCorrect == Spec => []KeysAreOfTheRoots
<1>1. Init => KeysInv
  <2>1. Init => KeysAreOfTheRoots
    BY DEF Init, RouterInit, NftInit, KeysAreOfTheRoots, IsRouted, Exists
  <2> QED
    BY <2>1, InitType DEF KeysInv
<1>2. KeysInv => KeysAreOfTheRoots
  BY DEF KeysInv
<1> QED
  BY <1>1, <1>2, KeysNext, PTL DEF Spec

-----------------------------------------------------------------------------
\* The permissions

IndexInv == TypeOK /\ IndexIsExact

LEMMA PermitKeepsIndex ==
    ASSUME IndexInv, NEW t \in Tokens, NEW adds \in SUBSET Entries,
           NEW removes \in SUBSET AuthMethods, Permit(t, adds, removes)
    PROVE  IndexIsExact'
<1>1. ASSUME NEW u \in Tokens, NEW a \in AuthMethods
      PROVE  u \in authMethodToPkpIds'[a] <=> a \in permittedAuthMethods'[u]
  <2>1. u \in authMethodToPkpIds[a] <=> a \in permittedAuthMethods[u]
    BY DEF IndexInv, IndexIsExact
  <2>2. permittedAuthMethods'[u] =
          IF u = t THEN (permittedAuthMethods[u] \cup MethodsOf(adds)) \ removes
          ELSE permittedAuthMethods[u]
    BY DEF Permit, IndexInv, TypeOK
  <2>3. authMethodToPkpIds'[a] =
          IF a \in removes THEN authMethodToPkpIds[a] \ {t}
          ELSE IF a \in MethodsOf(adds) THEN authMethodToPkpIds[a] \cup {t}
          ELSE authMethodToPkpIds[a]
    BY DEF Permit, Index
  <2> QED
    BY <2>1, <2>2, <2>3
<1> QED
  BY <1>1 DEF IndexIsExact

LEMMA IndexNext == IndexInv /\ [Next]_vars => IndexInv'
<1> SUFFICES ASSUME IndexInv, [Next]_vars PROVE IndexIsExact'
  BY StepType DEF IndexInv
<1>1. CASE Mints \/ Permits
  BY <1>1, PermitKeepsIndex DEF Mints, MintsWith, Permits
<1>2. CASE UNCHANGED <<permittedAuthMethods, authMethodToPkpIds>>
  BY <1>2 DEF IndexInv, IndexIsExact
<1> QED
  BY <1>1, <1>2, Steps DEF IndexInv, Moves, SetsScopes, Others, permissionVars

\* The tokens found under an auth method are exactly those it may use.
THEOREM IndexCorrect == Spec => []IndexIsExact
<1>1. Init => IndexInv
  <2>1. Init => IndexIsExact
    BY DEF Init, IndexIsExact
  <2> QED
    BY <2>1, InitType DEF IndexInv
<1>2. IndexInv => IndexIsExact
  BY DEF IndexInv
<1> QED
  BY <1>1, <1>2, IndexNext, PTL DEF Spec

LEMMA PermitKeepsPubkeys ==
    ASSUME NEW t \in Tokens, NEW adds \in SUBSET Entries,
           NEW removes \in SUBSET AuthMethods, Permit(t, adds, removes),
           NEW a \in WebAuthn, userPubkey[a] # NoPubkey
    PROVE  userPubkey'[a] = userPubkey[a]
<1>1. a \in AuthMethods
  BY PermissionsAssumption
<1>2. CASE \E x \in adds : x.method = a
  <2> DEFINE x == CHOOSE x \in adds : x.method = a
  <2>1. x \in adds /\ x.method = a
    BY <1>2
  <2>2. userPubkey[a] = x.userPubkey
    BY <2>1 DEF Permit, MayAdd
  <2> QED
    BY <1>1, <1>2, <2>2 DEF Permit
<1> QED
  BY <1>1, <1>2 DEF Permit

\* The public key of a WebAuthn credential never changes, whoever adds it.
THEOREM WebAuthnCorrect == Spec => WebAuthnPubkeyStays
<1>1. ASSUME TypeOK, [Next]_vars, NEW a \in WebAuthn, userPubkey[a] # NoPubkey
      PROVE  userPubkey'[a] = userPubkey[a]
  <2>1. CASE Mints \/ Permits
    BY <1>1, <2>1, PermitKeepsPubkeys DEF Mints, MintsWith, Permits
  <2>2. CASE UNCHANGED userPubkey
    BY <2>2
  <2> QED
    BY <1>1, <2>1, <2>2, Steps DEF Moves, SetsScopes, Others, permissionVars
<1> DEFINE Stays == \A a \in WebAuthn :
                       userPubkey[a] # NoPubkey => userPubkey'[a] = userPubkey[a]
<1>2. TypeOK /\ [Next]_vars => [Stays]_vars
  BY <1>1
<1> QED
  BY <1>2, PKPTypeCorrect, PTL DEF Spec, WebAuthnPubkeyStays

LEMMA BurnedKeeps ==
    ASSUME KeysInv, [Next]_vars, NEW t \in Tokens, Burned(t)
    PROVE  /\ Burned(t)'
           /\ permittedAuthMethods'[t] = permittedAuthMethods[t]
           /\ permittedAuthMethodScopes'[t] = permittedAuthMethodScopes[t]
<1> USE DEF Burned, IsRouted, Exists
<1>1. TypeOK
  BY DEF KeysInv
<1>2. CASE Mints
  <2>1. PICK u \in Tokens, adds \in SUBSET Entries, o \in Owners \cup {NoOwner} :
           MintsWith(u, adds, o)
    BY <1>2 DEF Mints
  <2>2. u # t
    BY <2>1 DEF MintsWith, Mint, SetRoutingData
  <2> QED
    BY <1>1, <2>1, <2>2 DEF MintsWith, Mint, SetRoutingData, Permit, TypeOK
<1>3. CASE Moves
  BY <1>1, <1>3 DEF Moves, TypeOK, routerVars, permissionVars
<1>4. CASE Permits
  BY <1>1, <1>4 DEF Permits, Permit, TypeOK, routerVars, nftVars
<1>5. CASE SetsScopes
  BY <1>1, <1>5 DEF SetsScopes, TypeOK, routerVars, nftVars
<1>6. CASE Others \/ (Votes /\ UNCHANGED <<nftVars, permissionVars>>)
  BY <1>6 DEF Others, Votes, VoteForRootKeys, nftVars, permissionVars
<1> QED
  BY <1>1, <1>2, <1>3, <1>4, <1>5, <1>6, Steps

\* The permissions of a PKP whose token is burned are sealed for ever.
THEOREM BurnedSealed == Spec => BurnedIsSealed
<1> DEFINE Sealed == \A t \in Tokens : Burned(t) =>
              /\ Burned(t)'
              /\ permittedAuthMethods'[t] = permittedAuthMethods[t]
              /\ permittedAuthMethodScopes'[t] = permittedAuthMethodScopes[t]
<1>1. KeysInv /\ [Next]_vars => [Sealed]_vars
  BY BurnedKeeps
<1>2. TypeOK /\ KeysAreOfTheRoots => KeysInv
  BY DEF KeysInv
<1> QED
  BY <1>1, <1>2, PKPTypeCorrect, KeysCorrect, PTL DEF BurnedIsSealed, Spec
=============================================================================
