---------------------------- MODULE PKPProperties ----------------------------
(* What the contracts of the PKPs are to keep between them.                  *)
EXTENDS PKPPermissions

\* Type correctness of the storage of the three contracts.
TypeOK ==
    /\ rootKeys \subseteq RootKeys
    /\ voted \in [RootKeys -> SUBSET Nodes]
    /\ pubkeys \in [Tokens -> SUBSET RootKeys]
    /\ validators \in SUBSET Stakers
    /\ ownerOf \in [Tokens -> Owners \cup {NoOwner}]
    /\ block \in 1..MaxBlock \cup {1}
    /\ permittedAuthMethods \in [Tokens -> SUBSET AuthMethods]
    /\ authMethodToPkpIds \in [AuthMethods -> SUBSET Tokens]
    /\ permittedAuthMethodScopes \in [Tokens -> SUBSET (AuthMethods \X Scopes)]
    /\ userPubkey \in [AuthMethods -> UserPubkeys \cup {NoPubkey}]

\* Every PKP was derived from the root keys of the network as they are now,
\* whenever it was minted or claimed: a signature made with them is one of
\* its own.  A token has a routed key, and a key that is not routed yet has
\* no permissions waiting for it.
KeysAreOfTheRoots ==
    \A t \in Tokens :
        IF IsRouted(t)
        THEN /\ pubkeys[t] = rootKeys
             /\ t[2] = rootKeys
        ELSE /\ ~Exists(t)
             /\ permittedAuthMethods[t] = {}
             /\ permittedAuthMethodScopes[t] = {}

\* getTokenIdsForAuthMethod and getPermittedAuthMethods agree: a token is
\* found under an auth method exactly when the method may use it.
IndexIsExact ==
    \A t \in Tokens, a \in AuthMethods :
        t \in authMethodToPkpIds[a] <=> a \in permittedAuthMethods[t]

\* The public key of a WebAuthn credential never changes once it is known,
\* whichever PKP's owner adds the credential ("someone with the same auth
\* method type and id can't add a different pubkey").
WebAuthnPubkeyStays ==
    [][\A a \in WebAuthn : userPubkey[a] # NoPubkey => userPubkey'[a] = userPubkey[a]]_vars

\* A PKP whose token is burned keeps its permissions for ever (which is what
\* mintGrantAndBurnNext is for): no owner is left to change them, and the
\* token cannot be minted again, although token ids depend on the supply,
\* which burning lowers.
BurnedIsSealed ==
    [][\A t \in Tokens : Burned(t) =>
          /\ Burned(t)'
          /\ permittedAuthMethods'[t] = permittedAuthMethods[t]
          /\ permittedAuthMethodScopes'[t] = permittedAuthMethodScopes[t]]_vars

\* "validator has already voted for this root key": a validator has one vote
\* for a root key (PubkeyRouterFacet.sol).
OneVotePerValidator ==
    \A k \in RootKeys : \A m, n \in voted[k] : StakerOf[m] = StakerOf[n] => m = n
=============================================================================
