---------------------------- MODULE PKPPermissions ---------------------------
(***************************************************************************)
(* PKPPermissions (PKPPermissionsFacet.sol): the auth methods that may use *)
(* a PKP and their scopes, set by the owner of its token; and PKPHelper    *)
(* (PKPHelper.sol), which mints a token, sets its auth methods and sends   *)
(* it on in one transaction.  Composed with PKPNFT and PubkeyRouter.       *)
(*                                                                         *)
(* An auth method is a pair of type and id; permitted addresses and        *)
(* actions are auth methods of the types ADDRESS and ACTION.               *)
(***************************************************************************)
EXTENDS PKPNFT

CONSTANTS
    AuthMethods,         \* type and id of the auth methods
    WebAuthn, Actions,   \* those of the two types
    UserPubkeys, NoPubkey,
    Scopes,
    GrantScope           \* scope 1: anything may be signed

ASSUME PermissionsAssumption ==
    /\ WebAuthn \subseteq AuthMethods
    /\ Actions \subseteq AuthMethods \ WebAuthn
    /\ NoPubkey \notin UserPubkeys
    /\ GrantScope \in Scopes

VARIABLES
    permittedAuthMethods,   \* token -> auth methods
    authMethodToPkpIds,     \* auth method -> tokens
    permittedAuthMethodScopes, \* token -> <<auth method, scope>>
    userPubkey              \* of authMethods, by auth method

permissionVars == <<permittedAuthMethods, authMethodToPkpIds,
                    permittedAuthMethodScopes, userPubkey>>
vars == <<routerVars, nftVars, permissionVars>>

\* An entry to be added: the struct AuthMethod and its scopes.
Entries == [method : AuthMethods, userPubkey : UserPubkeys \cup {NoPubkey},
            scopes : SUBSET Scopes]
MethodsOf(adds) == {x.method : x \in adds}

Init ==
    /\ RouterInit
    /\ NftInit
    /\ permittedAuthMethods = [t \in Tokens |-> {}]
    /\ authMethodToPkpIds = [a \in AuthMethods |-> {}]
    /\ permittedAuthMethodScopes = [t \in Tokens |-> {}]
    /\ userPubkey = [a \in AuthMethods |-> NoPubkey]

\* A mutated form: WebAuthn is not told from the rest.
MayAddForAny(x) == TRUE

\* "we need to ensure that someone with the same auth method type and id
\* can't add a different pubkey"
MayAdd(x) ==
    x.method \in WebAuthn => userPubkey[x.method] \in {NoPubkey, x.userPubkey}

\* A mutated form: the reverse index is written for what is added only.
IndexWithoutRemoval(t, adds, removes) ==
    [a \in AuthMethods |->
        IF a \in MethodsOf(adds) THEN authMethodToPkpIds[a] \cup {t}
        ELSE authMethodToPkpIds[a]]

Index(t, adds, removes) ==
    [a \in AuthMethods |->
        IF a \in removes THEN authMethodToPkpIds[a] \ {t}
        ELSE IF a \in MethodsOf(adds) THEN authMethodToPkpIds[a] \cup {t}
        ELSE authMethodToPkpIds[a]]

\* The entries `adds', one for each method, are added and then the methods
\* `removes' removed.  Scopes are set with a method but not removed with it.
Permit(t, adds, removes) ==
    /\ \A x \in adds : MayAdd(x)
    /\ \A x, y \in adds : x.method = y.method => x = y
    /\ permittedAuthMethods' =
          [permittedAuthMethods EXCEPT ![t] = (@ \cup MethodsOf(adds)) \ removes]
    /\ authMethodToPkpIds' = Index(t, adds, removes)
    /\ permittedAuthMethodScopes' = [permittedAuthMethodScopes EXCEPT ![t] =
          @ \cup UNION {{x.method} \X x.scopes : x \in adds}]
    /\ userPubkey' = [a \in AuthMethods |->
          IF \E x \in adds : x.method = a
          THEN (CHOOSE x \in adds : x.method = a).userPubkey
          ELSE userPubkey[a]]

\* onlyPKPOwner: ownerOf fails for a token that does not exist.
OnlyPKPOwner(t) == Exists(t)

\* batchAddRemoveAuthMethods.  Alone or empty, the two lists are
\* addPermittedAuthMethod, -Action, -Address and their removals.
BatchAddRemoveAuthMethods(t, adds, removes) ==
    /\ OnlyPKPOwner(t)
    /\ Permit(t, adds, removes)
    /\ UNCHANGED <<routerVars, nftVars>>

\* A mutated form: the two numbers, scope and auth method, swapped.
AddPermittedAuthMethodScopeSwapped(t, a, scope) ==
    /\ OnlyPKPOwner(t)
    /\ permittedAuthMethodScopes' =
          [permittedAuthMethodScopes EXCEPT ![t] = @ \cup {<<scope, a>>}]
    /\ UNCHANGED <<routerVars, nftVars, permittedAuthMethods,
                   authMethodToPkpIds, userPubkey>>

AddPermittedAuthMethodScope(t, a, scope) ==
    /\ OnlyPKPOwner(t)
    /\ permittedAuthMethodScopes' =
          [permittedAuthMethodScopes EXCEPT ![t] = @ \cup {<<a, scope>>}]
    /\ UNCHANGED <<routerVars, nftVars, permittedAuthMethods,
                   authMethodToPkpIds, userPubkey>>

RemovePermittedAuthMethodScope(t, a, scope) ==
    /\ OnlyPKPOwner(t)
    /\ permittedAuthMethodScopes' =
          [permittedAuthMethodScopes EXCEPT ![t] = @ \ {<<a, scope>>}]
    /\ UNCHANGED <<routerVars, nftVars, permittedAuthMethods,
                   authMethodToPkpIds, userPubkey>>

----------------------------------------------------------------------------
ActionEntry(action) ==
    [method |-> action, userPubkey |-> NoPubkey, scopes |-> {GrantScope}]

\* mintGrantAndBurnNext: the contract mints the token to itself, permits the
\* action and burns the token.
MintGrantAndBurnNext(action) ==
    /\ MintNext(NoOwner)
    /\ Permit(DerivedToken(NextDerivedKeyId), {ActionEntry(action)}, {})

\* mintNext by a user, without permissions; and mintNextAndAddAuthMethods of
\* PKPHelper, to the caller or to the PKP itself.
MintNextAndAddAuthMethods(adds, owner) ==
    /\ MintNext(owner)
    /\ Permit(DerivedToken(NextDerivedKeyId), adds, {})

\* claimAndMint, and claimAndMintNextAndAddAuthMethods of PKPHelper.
ClaimAndMintAndAddAuthMethods(id, adds, owner) ==
    /\ ClaimAndMint(id, owner)
    /\ Permit(DerivedToken(id), adds, {})

CONSTANT Batches     \* <<entries to add, methods to remove>>, of the callers
ASSUME BatchesAssumption == Batches \subseteq (SUBSET Entries) \X (SUBSET AuthMethods)
Additions == {b[1] : b \in Batches}

TokenNext(t) ==
    \/ \E o \in Owners : Transfer(t, o) /\ UNCHANGED permissionVars
    \/ Burn(t) /\ UNCHANGED permissionVars
    \/ \E b \in Batches : BatchAddRemoveAuthMethods(t, b[1], b[2])
    \/ \E a \in AuthMethods, s \in Scopes :
          \/ AddPermittedAuthMethodScope(t, a, s)
          \/ RemovePermittedAuthMethodScope(t, a, s)

MintingNext ==
    \/ \E adds \in Additions, o \in Owners : MintNextAndAddAuthMethods(adds, o)
    \/ \E action \in Actions : MintGrantAndBurnNext(action)
    \/ \E id \in ClaimIds, adds \in Additions, o \in Owners :
          ClaimAndMintAndAddAuthMethods(id, adds, o)

Next ==
    \/ RouterNext /\ UNCHANGED <<nftVars, permissionVars>>
    \/ NextBlock /\ UNCHANGED permissionVars
    \/ MintingNext
    \/ \E t \in Tokens : TokenNext(t)

Spec == Init /\ [][Next]_vars
=============================================================================
